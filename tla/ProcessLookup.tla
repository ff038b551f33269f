---------------------------- MODULE ProcessLookup ----------------------------
(***************************************************************************)
(* Package process: FindProcessName, which process owns the socket that a  *)
(* connection comes from.  The systems answer in several calls, between    *)
(* which sockets are closed and opened, processes exit and their pids and  *)
(* inodes are used again.                                                  *)
(*                                                                         *)
(* Linux asks for a socket of the port and then searches /proc for a       *)
(* process that has its inode open; Windows and macOS read a table of      *)
(* sockets with pids, and then the path of the pid.                        *)
(***************************************************************************)
EXTENDS Integers, FiniteSets

CONSTANTS
    Pids,
    MaxSockets,     \* bound: sockets of the port, one inode each
    MaxEvents       \* bound: what happens around the lookup

Nobody == <<>>      \* no process

VARIABLES
    platform, network,
    sockets,    \* the sockets of the port in the order of the system's tables
    live,       \* processes that run
    incarnation,\* how often each pid was given out
    step,       \* of the lookup
    api,        \* functions that initWin32API found, of three
    size,       \* rows that the buffer of getTransportTable holds
    table,      \* rows to look at
    procs,      \* pids of /proc to look at
    found,      \* the socket that the lookup settled on
    fallback,   \* fallbackUDPProcess
    answer,     \* the process named, Nobody for an error
    touched,    \* sockets opened or closed since the lookup began
    events

vars == <<platform, network, sockets, live, incarnation, step, api, size, table, procs, found,
          fallback, answer, touched, events>>
system == <<platform, network, sockets, live, incarnation, touched, events>>

(* The local address of a socket of the port and family: the one asked     *)
(* for, the unspecified one, another one.  The state is read on Windows,   *)
(* for TCP; elsewhere all sockets stand for either.                        *)
NoSocket == [pid |-> 0]
Sockets == [pid : Pids, address : {"same", "any", "other"}, established : BOOLEAN]
Established == {s \in Sockets : s.established}

Process(pid) == <<pid, incarnation[pid]>>
User(pid) == pid % 2            \* uid of a process
Lowest(set) == CHOOSE p \in set : \A o \in set : p <= o

(* The rows that the system gives out now, and the first one of a table.   *)
Row(s) == [pid |-> sockets[s].pid, inode |-> s, process |-> Process(sockets[s].pid),
           address |-> sockets[s].address, established |-> sockets[s].established]
Table == {Row(s) : s \in {s \in 1..MaxSockets : sockets[s] # NoSocket}}
First(rows) == CHOOSE r \in rows : \A q \in rows : r.inode <= q.inode

Init ==
    /\ platform \in {"linux", "windows", "darwin"}
    /\ network \in {"tcp", "udp"}
    /\ sockets \in [1..MaxSockets -> {NoSocket} \cup
                     IF platform = "windows" /\ network = "tcp" THEN Sockets ELSE Established]
    /\ live = Pids
    /\ incarnation = [p \in Pids |-> 1]
    /\ step = "start"
    /\ api = 0 /\ size = 0
    /\ table = {} /\ procs = {} /\ found = NoSocket
    /\ fallback = Nobody /\ answer = Nobody
    /\ touched = {} /\ events = 0

Answer(process) == answer' = process /\ step' = "done"
Fail == Answer(Nobody)

(***************************************************************************)
(* Linux.  The kernel compares family, protocol and port, not the address. *)
(***************************************************************************)
resolveSocketByNetlink ==
    /\ platform = "linux" /\ step = "start"
    /\ \/ Fail /\ UNCHANGED found
       \/ Table # {} /\ found' = First(Table) /\ step' = "proc" /\ UNCHANGED answer
    /\ UNCHANGED <<system, api, size, table, procs, fallback>>

ReadProc ==
    /\ step = "proc"
    /\ \/ Fail /\ UNCHANGED procs
       \/ procs' = live /\ step' = "info" /\ UNCHANGED answer
    /\ UNCHANGED <<system, api, size, table, found, fallback>>

pid == Lowest(procs)

(* A process that is gone ends the lookup, whoever it was.                 *)
Info ==
    /\ step = "info"
    /\ IF procs = {} THEN Fail /\ UNCHANGED procs
       ELSE IF pid \notin live THEN Fail /\ UNCHANGED procs
       ELSE /\ IF User(pid) = User(found.pid) THEN step' = "fds" /\ UNCHANGED procs
               ELSE procs' = procs \ {pid} /\ UNCHANGED step
            /\ UNCHANGED answer
    /\ UNCHANGED <<system, api, size, table, found, fallback>>

OfTheUser(p, inode) == p \in live
HasOpen(p, inode) == p \in live /\ sockets[inode].pid = p

ReadFds ==
    /\ step = "fds"
    /\ \/ HasOpen(pid, found.inode) /\ step' = "exe" /\ UNCHANGED procs
       \/ step' = "info" /\ procs' = procs \ {pid}
    /\ UNCHANGED <<system, api, size, table, found, fallback, answer>>

ReadExe ==
    /\ step = "exe"
    /\ IF pid \in live THEN Answer(Process(pid)) ELSE Fail
    /\ UNCHANGED <<system, api, size, table, procs, found, fallback>>

(***************************************************************************)
(* Windows.  The error of initWin32API is dropped, and sync.Once does not  *)
(* run it again: a call of an address that is zero ends the program.       *)
(***************************************************************************)
initWin32API ==
    /\ platform = "windows" /\ step = "start"
    /\ api' \in 0..3
    /\ step' = IF api' >= (IF network = "tcp" THEN 1 ELSE 2) THEN "table" ELSE "crashed"
    /\ UNCHANGED <<system, size, table, procs, found, fallback, answer>>

(* ERROR_INSUFFICIENT_BUFFER as often as the table grew meanwhile.         *)
getTransportTable ==
    /\ step = "table"
    /\ \/ Fail /\ UNCHANGED <<size, table>>
       \/ Cardinality(Table) > size /\ size' = Cardinality(Table) /\ UNCHANGED <<table, step, answer>>
       \/ Cardinality(Table) <= size /\ table' = Table /\ step' = "search" /\ UNCHANGED <<size, answer>>
    /\ UNCHANGED <<system, api, procs, found, fallback>>

Accepts(r) ==
    /\ network = "tcp" => r.established
    /\ r.address = "same" \/ (r.address = "any" /\ network = "udp")

Search ==
    /\ step = "search"
    /\ IF table = {} THEN Fail /\ UNCHANGED <<table, found>>
       ELSE /\ table' = table \ {First(table)}
            /\ IF Accepts(First(table)) THEN found' = First(table) /\ step' = "open"
               ELSE UNCHANGED <<found, step>>
            /\ UNCHANGED answer
    /\ UNCHANGED <<system, api, size, procs, fallback>>

getExecPathFromPID ==
    /\ step = "open"
    /\ \/ Fail
       \/ found.pid \in live /\ IF api = 3 THEN Answer(Process(found.pid))
                                ELSE step' = "crashed" /\ UNCHANGED answer
    /\ UNCHANGED <<system, api, size, table, procs, found, fallback>>

(***************************************************************************)
(* macOS: a socket of the address, or else the last one of UDP with the    *)
(* unspecified address; a path that cannot be read forgets the one before. *)
(***************************************************************************)
SysctlRaw ==
    /\ platform = "darwin" /\ step = "start"
    /\ \/ Fail /\ UNCHANGED table
       \/ table' = Table /\ step' = "rows" /\ UNCHANGED answer
    /\ UNCHANGED <<system, api, size, procs, found, fallback>>

NextRow ==
    /\ step = "rows" /\ table # {}
    /\ LET r == First(table)
           path == IF r.pid \in live THEN Process(r.pid) ELSE Nobody
       IN  IF r.address = "same" THEN found' = r /\ Answer(path) /\ UNCHANGED fallback
           ELSE /\ IF r.address = "any" /\ network = "udp"
                   THEN found' = r /\ fallback' = path
                   ELSE UNCHANGED <<found, fallback>>
                /\ UNCHANGED <<step, answer>>
    /\ table' = table \ {First(table)}
    /\ UNCHANGED <<system, api, size, procs>>

LastRow ==
    /\ step = "rows" /\ table = {}
    /\ Answer(fallback)
    /\ UNCHANGED <<system, api, size, table, procs, found, fallback>>

(***************************************************************************)
(* The other processes, while the lookup runs.                             *)
(***************************************************************************)
Happens ==
    /\ step \notin {"start", "done", "crashed"}
    /\ events < MaxEvents
    /\ events' = events + 1
    /\ UNCHANGED <<platform, network, step, api, size, table, procs, found, fallback, answer>>

CloseSocket(s) ==
    /\ Happens
    /\ sockets[s] # NoSocket
    /\ sockets' = [sockets EXCEPT ![s] = NoSocket]
    /\ touched' = touched \cup {s}
    /\ UNCHANGED <<live, incarnation>>

OpenSocket(s, socket) ==
    /\ Happens
    /\ sockets[s] = NoSocket /\ socket.pid \in live
    /\ sockets' = [sockets EXCEPT ![s] = socket]
    /\ touched' = touched \cup {s}
    /\ UNCHANGED <<live, incarnation>>

Exit(p) ==
    /\ Happens
    /\ p \in live
    /\ live' = live \ {p}
    /\ sockets' = [s \in 1..MaxSockets |-> IF sockets[s].pid = p THEN NoSocket ELSE sockets[s]]
    /\ touched' = touched \cup {s \in 1..MaxSockets : sockets[s].pid = p}
    /\ UNCHANGED incarnation

Spawn(p) ==
    /\ Happens
    /\ p \notin live
    /\ live' = live \cup {p}
    /\ incarnation' = [incarnation EXCEPT ![p] = @ + 1]
    /\ UNCHANGED <<sockets, touched>>

Next ==
    \/ resolveSocketByNetlink \/ ReadProc \/ Info \/ ReadFds \/ ReadExe
    \/ initWin32API \/ getTransportTable \/ Search \/ getExecPathFromPID
    \/ SysctlRaw \/ NextRow \/ LastRow
    \/ \E s \in 1..MaxSockets :
         CloseSocket(s) \/ \E socket \in Established : OpenSocket(s, socket)
    \/ \E p \in Pids : Exit(p) \/ Spawn(p)

Spec == Init /\ [][Next]_vars

(***************************************************************************)
(* Properties.                                                             *)
(***************************************************************************)

(* The process that FindProcessName names owns the socket that it settled  *)
(* on, if that socket stayed open from the beginning to the end of the     *)
(* lookup: whatever else happened to the other sockets and processes, to   *)
(* the size of the table and to pids that were used again.  The socket is  *)
(* one of the address asked for, or of every address for UDP (on Linux of  *)
(* any address), and the fallback of macOS is its own socket's.            *)
RightProcess ==
    answer # Nobody =>
      /\ found.inode \notin touched => answer = found.process
      /\ platform # "linux" => Accepts(found)
=============================================================================
