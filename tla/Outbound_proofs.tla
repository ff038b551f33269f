--------------------------- MODULE Outbound_proofs ---------------------------
(***************************************************************************)
(* Proofs about what the relay asks the system: the process that owns a    *)
(* connection (ProcessLookup), and the interface that its own sockets go   *)
(* out through (Bind, DefaultRoute).                                       *)
(***************************************************************************)
EXTENDS MCOutbound, TLAPS, WellFoundedInduction

(* A set of numbers has a least one.                                       *)
LEMMA LeastNumber ==
    ASSUME NEW T \in SUBSET Nat, T # {}
    PROVE  \E n \in T : \A m \in T : n <= m
<1> DEFINE less == OpToRel(<, Nat)
<1>1. IsWellFoundedOn(less, Nat)  BY NatLessThanWellFounded
<1>2. ASSUME NEW m \in Nat, NEW n \in Nat, m < n PROVE <<m, n>> \in less
    BY <1>2 DEF OpToRel
<1> HIDE DEF less
<1>3. PICK n \in T : \A m \in T : ~(<<m, n>> \in less)
    BY <1>1, WFMin
<1>4. ASSUME NEW m \in T PROVE n <= m
    <2>1. m \in Nat /\ n \in Nat  OBVIOUS
    <2>2. ~(m < n)  BY <1>2, <1>3, <2>1, Zenon
    <2> QED  BY <2>1, <2>2
<1> QED  BY <1>4

-----------------------------------------------------------------------------
(***************************************************************************)
(* FindProcessName.                                                        *)
(***************************************************************************)
(* A row that was read is about a socket, and still true of it as long as  *)
(* the socket is untouched: its process runs, in the same incarnation.     *)
RowTrue(r) ==
    /\ r.inode \in 1..MaxSockets
    /\ platform = "darwin" => r.established
    /\ r.inode \notin touched =>
         /\ sockets[r.inode] # P!NoSocket /\ sockets[r.inode].pid = r.pid
         /\ r.pid \in live /\ r.process = P!Process(r.pid)

(* What was answered, or will be if nothing else is found.                 *)
Named(r, process) ==
    /\ r.inode \notin touched => process = r.process
    /\ platform # "linux" => P!Accepts(r)

(* The inductive invariant: the sockets belong to processes that run; the  *)
(* rows of the table and the socket settled on are true; on Linux the      *)
(* process whose files were read has the socket; on Windows the socket is  *)
(* acceptable; the fallback of macOS is its own socket's.                  *)
SystemInv ==
    /\ platform \in {"linux", "windows", "darwin"}
    /\ live \subseteq Pids
    /\ sockets = [s \in 1..MaxSockets |-> sockets[s]]
    /\ incarnation = [p \in Pids |-> incarnation[p]]
    /\ \A s \in 1..MaxSockets : sockets[s] # P!NoSocket =>
         /\ sockets[s].pid \in live
         /\ platform = "darwin" => sockets[s].established

LookupInv ==
    /\ SystemInv
    /\ platform = "linux" => step \notin {"table", "search", "open", "rows"}
    /\ platform = "windows" => step \notin {"proc", "info", "fds", "exe", "rows"}
    /\ platform = "darwin" => step \notin {"proc", "info", "fds", "exe", "table", "search", "open"}
    /\ step = "start" => fallback = P!Nobody
    /\ \A r \in table : RowTrue(r)
    /\ step \in {"proc", "info", "fds", "exe", "open"} => RowTrue(found)
    /\ step = "exe" /\ found.inode \notin touched => P!pid = found.pid
    /\ step = "open" => P!Accepts(found)
    /\ step = "rows" /\ fallback # P!Nobody => RowTrue(found) /\ Named(found, fallback)
    /\ answer # P!Nobody => step = "done" /\ Named(found, answer)

(* The first row of a table is one of its rows.                            *)
LEMMA FirstRow ==
    ASSUME NEW rows, rows # {}, \A r \in rows : r.inode \in Nat
    PROVE  P!First(rows) \in rows
<1>1. PICK n \in {r.inode : r \in rows} : \A m \in {r.inode : r \in rows} : n <= m
    BY LeastNumber
<1>2. \E r \in rows : \A q \in rows : r.inode <= q.inode
    BY <1>1
<1> QED  BY <1>2 DEF P!First

(* The table as it is now is true.                                         *)
LEMMA TableTrue ==
    ASSUME LookupInv, NEW r \in P!Table PROVE RowTrue(r)
<1>1. PICK s \in 1..MaxSockets : sockets[s] # P!NoSocket /\ r = P!Row(s)
    BY DEF P!Table
<1> QED  BY <1>1 DEF LookupInv, SystemInv, RowTrue, P!Row

(* Before the lookup.                                                      *)
LEMMA LookupInit == P!Init => LookupInv
<1> SUFFICES ASSUME P!Init PROVE LookupInv  OBVIOUS
<1>1. ASSUME NEW s \in 1..MaxSockets, sockets[s] # P!NoSocket
      PROVE  sockets[s].pid \in Pids /\ (platform = "darwin" => sockets[s].established)
    BY <1>1 DEF P!Init, P!Sockets, P!Established
<1> QED  BY <1>1 DEF P!Init, LookupInv, SystemInv

(* A step of the lookup itself leaves the system alone.                    *)
LEMMA StillTrue ==
    ASSUME UNCHANGED P!system, NEW r
    PROVE  /\ RowTrue(r)' <=> RowTrue(r)
           /\ \A p : Named(r, p)' <=> Named(r, p)
           /\ P!Accepts(r)' <=> P!Accepts(r)
BY DEF P!system, RowTrue, Named, P!Accepts, P!Process

(* What another process does touches the sockets it changes, and nothing   *)
(* of the lookup.                                                          *)
LEMMA Others ==
    ASSUME LookupInv, P!Happens, SystemInv', touched \subseteq touched',
           \A r : RowTrue(r) => RowTrue(r)'
    PROVE  LookupInv'
<1>1. /\ UNCHANGED <<platform, network, step, table, procs, found, fallback, answer>>
      /\ step \notin {"start", "done"}
    BY DEF P!Happens
<1>2. P!pid' = P!pid  BY <1>1 DEF P!pid
<1>3. \A r, p : Named(r, p) => Named(r, p)'
    BY <1>1 DEF Named, P!Accepts
<1>4. P!Accepts(found)' <=> P!Accepts(found)
    BY <1>1 DEF P!Accepts
<1> QED  BY <1>1, <1>2, <1>3, <1>4 DEF LookupInv

(* Every step of the lookup, and whatever the other processes do, keeps    *)
(* the invariant.                                                          *)
LEMMA LookupStep == LookupInv /\ [P!Next]_(P!vars) => LookupInv'
<1> SUFFICES ASSUME LookupInv, [P!Next]_(P!vars) PROVE LookupInv'  OBVIOUS
<1>0. /\ SystemInv /\ \A r \in table : RowTrue(r)
      /\ \A r \in P!Table : RowTrue(r)
    BY TableTrue DEF LookupInv
<1>n. \A r : RowTrue(r) => r.inode \in Nat
    BY LookupAssumption DEF RowTrue
<1>s. UNCHANGED P!system => SystemInv'
    BY <1>0 DEF SystemInv, P!system
<1>1. CASE P!resolveSocketByNetlink
    <2>1. P!Table # {} => RowTrue(P!First(P!Table))
        BY <1>0, <1>n, FirstRow
    <2>2. UNCHANGED P!system /\ UNCHANGED <<table, fallback>> /\ step = "start" /\ platform = "linux"
        BY <1>1 DEF P!resolveSocketByNetlink
    <2>3. \/ answer' = P!Nobody /\ step' = "done"
          \/ step' = "proc" /\ UNCHANGED answer /\ RowTrue(found')
        BY <1>1, <2>1 DEF P!resolveSocketByNetlink, P!Fail, P!Answer
    <2> QED  BY <1>0, <1>s, <2>2, <2>3, StillTrue DEF LookupInv, P!system
<1>2. CASE P!ReadProc \/ P!Info
    <2>1. /\ UNCHANGED P!system /\ UNCHANGED <<table, found, fallback>>
          /\ step \in {"proc", "info"}
          /\ \/ answer' = P!Nobody /\ step' = "done"
             \/ step' \in {"info", "fds"} /\ UNCHANGED answer
        BY <1>2 DEF P!ReadProc, P!Info, P!Fail, P!Answer
    <2> QED  BY <1>0, <1>s, <2>1, StillTrue DEF LookupInv, P!system
<1>3. CASE P!ReadFds
    <2>1. UNCHANGED P!system /\ UNCHANGED <<table, found, fallback, answer>> /\ step = "fds"
        BY <1>3 DEF P!ReadFds
    <2>2. \/ step' = "exe" /\ P!HasOpen(P!pid, found.inode) /\ UNCHANGED procs
          \/ step' = "info"
        BY <1>3 DEF P!ReadFds
    <2>3. step' = "exe" /\ found.inode \notin touched => P!pid' = found.pid
        BY <2>1, <2>2 DEF LookupInv, RowTrue, P!HasOpen, P!pid
    <2> QED  BY <1>0, <1>s, <2>1, <2>2, <2>3, StillTrue DEF LookupInv, P!system
<1>4. CASE P!ReadExe
    <2>1. /\ UNCHANGED P!system /\ UNCHANGED <<table, found, fallback>> /\ step = "exe"
          /\ step' = "done" /\ answer' \in {P!Nobody, P!Process(P!pid)}
        BY <1>4 DEF P!ReadExe, P!Fail, P!Answer
    <2>2. platform = "linux" /\ RowTrue(found) /\ (found.inode \notin touched => P!pid = found.pid)
        BY <1>0, <2>1 DEF LookupInv, SystemInv
    <2>3. Named(found, P!Process(P!pid))
        BY <2>2 DEF RowTrue, Named
    <2> QED  BY <1>0, <1>s, <2>1, <2>2, <2>3, StillTrue DEF LookupInv, P!system
<1>5. CASE P!initWin32API
    <2>1. /\ UNCHANGED P!system /\ UNCHANGED <<table, found, fallback, answer>> /\ step = "start"
          /\ platform = "windows" /\ step' \in {"table", "crashed"}
        BY <1>5 DEF P!initWin32API
    <2> QED  BY <1>0, <1>s, <2>1, StillTrue DEF LookupInv, P!system
<1>6. CASE P!getTransportTable
    <2>1. /\ UNCHANGED P!system /\ UNCHANGED <<found, fallback>> /\ step = "table"
          /\ \/ answer' = P!Nobody /\ step' = "done" /\ UNCHANGED table
             \/ UNCHANGED <<table, step, answer>>
             \/ table' = P!Table /\ step' = "search" /\ UNCHANGED answer
        BY <1>6 DEF P!getTransportTable, P!Fail, P!Answer
    <2> QED  BY <1>0, <1>s, <2>1, StillTrue DEF LookupInv, P!system
<1>7. CASE P!Search
    <2>1. UNCHANGED P!system /\ UNCHANGED fallback /\ step = "search"
        BY <1>7 DEF P!Search
    <2>2. \/ answer' = P!Nobody /\ step' = "done" /\ UNCHANGED table
          \/ /\ table # {} /\ table' \subseteq table /\ UNCHANGED answer
             /\ \/ P!Accepts(P!First(table)) /\ found' = P!First(table) /\ step' = "open"
                \/ UNCHANGED step
        BY <1>7 DEF P!Search, P!Fail, P!Answer
    <2>3. table # {} => RowTrue(P!First(table))
        BY <1>0, <1>n, FirstRow
    <2> QED  BY <1>0, <1>s, <2>1, <2>2, <2>3, StillTrue DEF LookupInv, P!system
<1>8. CASE P!getExecPathFromPID
    <2>1. /\ UNCHANGED P!system /\ UNCHANGED <<table, found, fallback>> /\ step = "open"
          /\ \/ answer' = P!Nobody /\ step' = "done"
             \/ answer' = P!Process(found.pid) /\ step' = "done"
             \/ step' = "crashed" /\ UNCHANGED answer
        BY <1>8 DEF P!getExecPathFromPID, P!Fail, P!Answer
    <2>2. RowTrue(found) /\ P!Accepts(found) /\ answer = P!Nobody
        BY <2>1 DEF LookupInv
    <2>3. Named(found, P!Process(found.pid))
        BY <2>2 DEF RowTrue, Named
    <2> QED  BY <1>0, <1>s, <2>1, <2>2, <2>3, StillTrue DEF LookupInv, P!system
<1>9. CASE P!SysctlRaw
    <2>1. /\ UNCHANGED P!system /\ UNCHANGED <<found, fallback>> /\ step = "start"
          /\ platform = "darwin"
          /\ \/ answer' = P!Nobody /\ step' = "done" /\ UNCHANGED table
             \/ table' = P!Table /\ step' = "rows" /\ UNCHANGED answer
        BY <1>9 DEF P!SysctlRaw, P!Fail, P!Answer
    <2> QED  BY <1>0, <1>s, <2>1, StillTrue DEF LookupInv, P!system
<1>10. CASE P!NextRow
    <2> DEFINE r == P!First(table)
               path == IF r.pid \in live THEN P!Process(r.pid) ELSE P!Nobody
    <2>1. /\ UNCHANGED P!system /\ step = "rows" /\ table # {} /\ table' \subseteq table
          /\ \/ r.address = "same" /\ found' = r /\ answer' = path /\ step' = "done"
             \/ /\ r.address = "any" /\ network = "udp" /\ found' = r /\ fallback' = path
                /\ UNCHANGED <<step, answer>>
             \/ UNCHANGED <<found, fallback, step, answer>>
        BY <1>10 DEF P!NextRow, P!Answer
    <2>2. RowTrue(r)
        BY <1>0, <1>n, <2>1, FirstRow
    <2>3. platform = "darwin" /\ answer = P!Nobody
        BY <1>0, <2>1 DEF LookupInv, SystemInv
    <2>4. path # P!Nobody /\ (r.address = "same" \/ (r.address = "any" /\ network = "udp")) =>
            Named(r, path)
        BY <2>2, <2>3 DEF RowTrue, Named, P!Accepts
    <2> HIDE DEF r, path
    <2> QED  BY <1>0, <1>s, <2>1, <2>2, <2>3, <2>4, StillTrue DEF LookupInv, P!system
<1>11. CASE P!LastRow
    <2>1. /\ UNCHANGED P!system /\ UNCHANGED <<table, found, fallback>> /\ step = "rows"
          /\ step' = "done" /\ answer' = fallback
        BY <1>11 DEF P!LastRow, P!Answer
    <2> QED  BY <1>0, <1>s, <2>1, StillTrue DEF LookupInv, P!system
<1>12. ASSUME NEW s \in 1..MaxSockets, P!CloseSocket(s) PROVE LookupInv'
    <2>1. /\ sockets' = [sockets EXCEPT ![s] = P!NoSocket] /\ touched' = touched \cup {s}
          /\ UNCHANGED <<live, incarnation>> /\ P!Happens
        BY <1>12 DEF P!CloseSocket
    <2>2. SystemInv'
        BY <1>0, <2>1 DEF SystemInv, P!Happens
    <2>3. \A r : RowTrue(r) => RowTrue(r)'
        BY <1>0, <2>1 DEF SystemInv, RowTrue, P!Happens, P!Process
    <2> QED  BY <2>1, <2>2, <2>3, Others
<1>13. ASSUME NEW s \in 1..MaxSockets, NEW socket \in P!Established, P!OpenSocket(s, socket)
       PROVE  LookupInv'
    <2>1. /\ sockets' = [sockets EXCEPT ![s] = socket] /\ touched' = touched \cup {s}
          /\ UNCHANGED <<live, incarnation>> /\ P!Happens /\ socket.pid \in live
        BY <1>13 DEF P!OpenSocket
    <2>2. SystemInv'
        BY <1>0, <2>1 DEF SystemInv, P!Happens, P!Established
    <2>3. \A r : RowTrue(r) => RowTrue(r)'
        BY <1>0, <2>1 DEF SystemInv, RowTrue, P!Happens, P!Process
    <2> QED  BY <2>1, <2>2, <2>3, Others
<1>14. ASSUME NEW p \in Pids, P!Exit(p) PROVE LookupInv'
    <2>1. /\ sockets' = [s \in 1..MaxSockets |->
                           IF sockets[s].pid = p THEN P!NoSocket ELSE sockets[s]]
          /\ touched' = touched \cup {s \in 1..MaxSockets : sockets[s].pid = p}
          /\ live' = live \ {p} /\ UNCHANGED incarnation /\ P!Happens
        BY <1>14 DEF P!Exit
    <2>2. SystemInv'
        BY <1>0, <2>1 DEF SystemInv, P!Happens
    <2>3. \A r : RowTrue(r) => RowTrue(r)'
        BY <1>0, <2>1 DEF SystemInv, RowTrue, P!Happens, P!Process
    <2> QED  BY <2>1, <2>2, <2>3, Others
<1>15. ASSUME NEW p \in Pids, P!Spawn(p) PROVE LookupInv'
    <2>1. /\ incarnation' = [incarnation EXCEPT ![p] = @ + 1] /\ live' = live \cup {p}
          /\ UNCHANGED <<sockets, touched>> /\ P!Happens /\ p \notin live
        BY <1>15 DEF P!Spawn
    <2>2. SystemInv'
        BY <1>0, <2>1 DEF SystemInv, P!Happens
    <2>3. \A r : RowTrue(r) => RowTrue(r)'
        BY <1>0, <2>1 DEF SystemInv, RowTrue, P!Happens, P!Process
    <2> QED  BY <2>1, <2>2, <2>3, Others
<1>16. CASE UNCHANGED P!vars
    <2>1. UNCHANGED P!system /\ UNCHANGED <<table, found, fallback, answer, step, procs>>
        BY <1>16 DEF P!vars, P!system
    <2>2. P!pid' = P!pid  BY <2>1 DEF P!pid
    <2> QED  BY <1>0, <1>s, <2>1, <2>2, StillTrue DEF LookupInv, P!system
<1> QED
    BY <1>1, <1>2, <1>3, <1>4, <1>5, <1>6, <1>7, <1>8, <1>9, <1>10, <1>11, <1>12, <1>13, <1>14,
       <1>15, <1>16 DEF P!Next

(* It holds of every reachable state.                                      *)
LEMMA LookupInvariant == P!Spec => []LookupInv
BY LookupInit, LookupStep, PTL DEF P!Spec

(* The process named owns the socket that the lookup settled on, if the    *)
(* socket stayed open: for any processes, any number of sockets, and       *)
(* whatever happens to the others meanwhile.                               *)
THEOREM NamesTheOwner == P!Spec => []RightProcess
<1>1. LookupInv => RightProcess
    BY DEF LookupInv, Named, RightProcess, P!RightProcess
<1> QED  BY <1>1, LookupInvariant, PTL

-----------------------------------------------------------------------------
(***************************************************************************)
(* BindToDeviceForConn, BindToDeviceForPacket and the hooks.               *)
(***************************************************************************)
Hooks == [name : Names, index : Indexes, default : BOOLEAN] \cup {User}

Socks == [state : {"hooks", "made"}, protocol : Protocols, family : Families,
          address : Addresses, ran : Nat, option4 : BOOLEAN, ok : BOOLEAN,
          bound : [Families -> Indexes \cup {None}]]

(* No two interfaces have an index in common, and an entry of the cache is *)
(* right unless the interface changed after the flush that made it.        *)
IndexInv ==
    /\ platform \in Platforms
    /\ os \in [Names -> Indexes \cup {None}]
    /\ record \in [Names -> Indexes \cup {None}]
    /\ \A m, n \in Names : os[m] = os[n] /\ os[m] # None => m = n
    /\ \A n \in Names : n \notin changed => record[n] \in {None, os[n]}

(* The hooks of a bind by the default route are never for the tunnel, and  *)
(* the last one holds the index of its interface as long as it is reliable. *)
ChainInv ==
    /\ hooks \in [Control : Seq(Hooks), ControlContext : Seq(Hooks)]
    /\ kind \in {"conn", "packet"}
    /\ kind = "packet" => hooks.ControlContext = <<>>
    /\ reliable \in BOOLEAN
    /\ \A k \in 1..Len(chain) : chain[k].default => chain[k].name # Tunnel
    /\ reliable => chain # <<>> /\ last.name \in Names
                     /\ last.index = os[last.name] /\ last.index # None

(* The families that the last hook has bound for sure: on Windows IPv4 on  *)
(* an IPv6 socket is not one of them if its option failed.                 *)
Sure(s, f) == f = s.family \/ platform # "windows" \/ (f = "4" /\ s.option4)

(* What the hook fn has done to the socket s, if it is one of setupControl *)
(* and applies: on Linux the name stands for an interface.                 *)
BoundBy(fn, s) ==
    fn # User /\ s.address # "other" /\ ~(platform = "darwin" /\ s.protocol = "ip") =>
      /\ platform = "linux" => os[fn.name] # None
      /\ \A f \in Families : Sure(s, f) =>
           /\ platform = "linux" => s.bound[f] = os[fn.name]
           /\ platform # "linux" => s.bound[f] = fn.index

(* The hooks ran one after the other, and the last of them is the one that *)
(* the socket is bound by, as long as none of them failed.                 *)
SockInv ==
    /\ sock.state \in {"none", "hooks", "made"}
    /\ sock.state # "none" =>
         /\ sock \in Socks
         /\ sock.ran <= Len(chain)
         /\ sock.ok /\ sock.state = "made" => sock.ran = Len(chain)
         /\ sock.ok /\ sock.ran > 0 => BoundBy(chain[sock.ran], sock)

BindInv == IndexInv /\ ChainInv /\ SockInv

(* The rows of a table are rows.                                           *)
LEMMA RowsOf ==
    ASSUME NEW Rows, NEW t \in Tables(Rows), NEW i \in DOMAIN t
    PROVE  t[i] \in Rows
<1>1. PICK k \in 0..MaxRows : t \in [1..k -> Rows]  BY DEF Tables
<1> QED  BY <1>1

(* DefaultRouteInterface never returns the tunnel: on Windows it is        *)
(* virtual, on Linux its route is not in the main table, on macOS it has   *)
(* no route to 0.0.0.0.                                                    *)
LEMMA AvoidsTunnel ==
    ASSUME NEW p, NEW alive, NEW n, <<p, alive, n>> \in DefaultRouteInterface
    PROVE  n # Tunnel
<1>1. ASSUME NEW a, NEW t \in Tables(WindowsRows) PROVE Tunnel \notin DefaultWindows(t, a)
    <2>1. ASSUME NEW i \in DOMAIN t, Usable(t[i], a) PROVE t[i].name # Tunnel
        BY <2>1 DEF Usable, IsVirtual
    <2> QED  BY <2>1, Zenon DEF DefaultWindows, First
<1>2. ASSUME NEW a, NEW t \in Tables(LinuxRows) PROVE Tunnel \notin DefaultLinux(t, a)
    <2>1. ASSUME NEW i \in DOMAIN t, t[i].main, t[i].dst = "zero" PROVE t[i].name # Tunnel
        <3>1. t[i] \in LinuxRows  BY RowsOf
        <3> QED  BY <2>1, <3>1, Zenon DEF LinuxRows
    <2> QED  BY <2>1, Zenon DEF DefaultLinux, First
<1>3. ASSUME NEW a, NEW t \in Tables(DarwinRows) PROVE Tunnel \notin DefaultDarwin(t, a)
    <2>1. ASSUME NEW i \in DOMAIN t, t[i].dst = "zero4" PROVE t[i].name # Tunnel
        <3>1. t[i] \in DarwinRows  BY RowsOf
        <3> QED  BY <2>1, <3>1, Zenon DEF DarwinRows
    <2> QED  BY <2>1, Zenon DEF DefaultDarwin, First
<1>4. PICK a \in SUBSET Names :
        \/ n \in UNION {DefaultWindows(t, a) : t \in Tables(WindowsRows)}
        \/ n \in UNION {DefaultLinux(t, a) : t \in Tables(LinuxRows)}
        \/ n \in UNION {DefaultDarwin(t, a) : t \in Tables(DarwinRows)}
    <2> DEFINE windows(a) == UNION {DefaultWindows(t, a) : t \in Tables(WindowsRows)}
               linux(a) == UNION {DefaultLinux(t, a) : t \in Tables(LinuxRows)}
               darwin(a) == UNION {DefaultDarwin(t, a) : t \in Tables(DarwinRows)}
    <2>1. PICK a \in SUBSET Names :
            <<p, alive, n>> \in {<<"windows", a, m>> : m \in windows(a)}
                                 \cup {<<"linux", a, m>> : m \in linux(a)}
                                 \cup {<<"darwin", a, m>> : m \in darwin(a)}
        BY Zenon DEF DefaultRouteInterface
    <2> HIDE DEF windows, linux, darwin
    <2>2. n \in windows(a) \/ n \in linux(a) \/ n \in darwin(a)  BY <2>1
    <2> QED  BY <2>2, Zenon DEF windows, linux, darwin
<1> QED  BY <1>1, <1>2, <1>3, <1>4, Zenon

(* A hook that is added is a hook, and stands behind the ones that net     *)
(* called before.                                                          *)
LEMMA OneMore ==
    ASSUME ChainInv, NEW fn \in Hooks,
           \/ kind = "conn" /\ hooks' = addControlToDialer(hooks, fn)
           \/ kind = "packet" /\ hooks' = addControlToListenConfig(hooks, fn),
           kind' = kind
    PROVE  /\ hooks' \in [Control : Seq(Hooks), ControlContext : Seq(Hooks)]
           /\ kind' = "packet" => hooks'.ControlContext = <<>>
           /\ chain \in Seq(Hooks)
           /\ chain' = Append(chain, fn)
<1>1. chain \in Seq(Hooks)  BY DEF ChainInv, chain, Chain
<1>2. Append(chain, fn) \in Seq(Hooks) /\ Append(chain, fn) # <<>>
    <2>1. Len(Append(chain, fn)) = Len(chain) + 1 /\ Len(chain) \in Nat
        BY <1>1
    <2> QED  BY <1>1, <2>1
<1>3. CASE kind = "conn" /\ hooks' = addControlToDialer(hooks, fn)
    <2>1. hooks' = [hooks EXCEPT !.ControlContext = Append(chain, fn)]
        BY <1>3 DEF addControlToDialer, chain
    <2>2. hooks'.ControlContext = Append(chain, fn)  BY <2>1 DEF ChainInv
    <2>3. chain' = Append(chain, fn)
        <3> DEFINE new == Append(chain, fn)
        <3> HIDE DEF new
        <3>1. hooks'.ControlContext = new /\ new # <<>>  BY <1>2, <2>2 DEF new
        <3>2. chain' = new  BY <3>1, Zenon DEF chain, Chain
        <3> QED  BY <3>2 DEF new
    <2>4. hooks' \in [Control : Seq(Hooks), ControlContext : Seq(Hooks)]
        BY <1>2, <2>1 DEF ChainInv
    <2> QED  BY <1>1, <1>3, <2>3, <2>4
<1>4. CASE kind = "packet" /\ hooks' = addControlToListenConfig(hooks, fn)
    <2>1. hooks' = [hooks EXCEPT !.Control = Append(hooks.Control, fn)]
        BY <1>4 DEF addControlToListenConfig
    <2>2. /\ hooks.ControlContext = <<>> /\ hooks'.ControlContext = <<>>
          /\ hooks'.Control = Append(hooks.Control, fn)
        BY <1>4, <2>1 DEF ChainInv
    <2>3. chain' = Append(chain, fn)
        BY <2>2, Zenon DEF chain, Chain
    <2>4. Append(hooks.Control, fn) \in Seq(Hooks)  BY DEF ChainInv
    <2>5. hooks' \in [Control : Seq(Hooks), ControlContext : Seq(Hooks)]
        BY <2>1, <2>4 DEF ChainInv
    <2> QED  BY <1>1, <2>2, <2>3, <2>5
<1> QED  BY <1>3, <1>4

(* Init.                                                                   *)
LEMMA BindInit == Init => BindInv
<1> SUFFICES ASSUME Init PROVE BindInv  OBVIOUS
<1>1. User \in Hooks  BY DEF Hooks
<1>2. IndexInv  BY DEF Init, IndexInv
<1>3. /\ hooks \in [Control : {<<>>, <<User>>}, ControlContext : {<<>>, <<User>>}]
      /\ reliable = FALSE
    BY DEF Init
<1>4. chain \in {<<>>, <<User>>}
    BY <1>3 DEF chain, Chain
<1>5. \A k \in 1..Len(chain) : chain[k] = User
    BY <1>4
<1>6. hooks \in [Control : Seq(Hooks), ControlContext : Seq(Hooks)]
    <2>1. <<>> \in Seq(Hooks) /\ <<User>> \in Seq(Hooks)  BY <1>1
    <2>2. {<<>>, <<User>>} \subseteq Seq(Hooks)  BY <2>1, Zenon
    <2> HIDE DEF Hooks
    <2> QED  BY <1>3, <2>2
<1>7. \A k \in 1..Len(chain) : ~chain[k].default
    <2>1. User.default = FALSE  BY Zenon DEF User
    <2> QED  BY <1>5, <2>1, Zenon
<1>8. ChainInv  BY <1>3, <1>6, <1>7 DEF Init, ChainInv
<1>9. SockInv  BY DEF Init, SockInv, NoSocket
<1> QED  BY <1>2, <1>8, <1>9 DEF BindInv

(* Membership is true or false.                                            *)
LEMMA TrueOrFalse ==
    ASSUME NEW x, NEW S
    PROVE  \E b \in BOOLEAN : b = (x \in S)
<1>1. CASE x \in S
    <2>1. (x \in S) = TRUE  BY <1>1
    <2> QED  BY <2>1, Zenon
<1>2. CASE x \notin S
    <2>1. (x \in S) = FALSE  BY <1>2
    <2> QED  BY <2>1, Zenon
<1> QED  BY <1>1, <1>2

(* One hook: it binds the socket, or fails, or leaves it alone.            *)
LEMMA OneHook ==
    ASSUME BindInv, NEW fn \in Hooks, NEW result \in Results, sock.state = "hooks",
           Possible(fn, sock.family, result), sock' = RunHook(sock, fn, result),
           UNCHANGED <<platform, os>>
    PROVE  /\ sock' \in Socks
           /\ sock'.state = "hooks" /\ sock'.ran = sock.ran + 1
           /\ sock'.ok => BoundBy(fn, sock)'
<1> DEFINE r == SetupControl(fn, sock.protocol, sock.family, result)
           runs == fn # User /\ ~Skips(sock.address)
<1>0. /\ sock \in Socks /\ platform \in {"windows", "linux", "darwin"}
      /\ os \in [Names -> Indexes \cup {None}]
    BY BindAssumption DEF BindInv, SockInv, IndexInv
<1>1. ASSUME fn # User
      PROVE  /\ fn.index \in Indexes /\ fn.name \in Names
             /\ r.index \in Indexes \cup {None}
             /\ r.ok \in BOOLEAN
             /\ r.ok /\ ~(platform = "darwin" /\ sock.protocol = "ip") =>
                  /\ sock.family \in r.bind
                  /\ platform # "windows" => r.bind = Families
                  /\ {"control", "4"} \subseteq result => "4" \in r.bind
                  /\ platform # "linux" => r.index = fn.index
                  /\ platform = "linux" => r.index = os[fn.name] /\ os[fn.name] # None
    <2>1. fn.index \in Indexes /\ fn.name \in Names  BY <1>1 DEF Hooks
    <2>2. CASE "control" \notin result
        <3>1. r = [bind |-> {}, index |-> None, ok |-> FALSE]
            BY <2>2, Zenon DEF SetupControl
        <3> QED  BY <2>1, <3>1
    <2>3. CASE "control" \in result /\ platform = "windows"
        <3>1. r = setupControlWindows(fn, sock.family, result)
            BY <2>3 DEF SetupControl
        <3>2. PICK ok \in BOOLEAN : ok = (sock.family \in result \cap {"4", sock.family})
            BY TrueOrFalse, Zenon
        <3>3. r = [bind |-> result \cap {"4", sock.family}, index |-> fn.index, ok |-> ok]
            BY <3>1, <3>2, Zenon DEF setupControlWindows, NoError
        <3> HIDE DEF r
        <3> QED  BY <2>1, <2>3, <3>2, <3>3
    <2>4. CASE "control" \in result /\ platform = "linux"
        <3>1. r = setupControlLinux(fn, sock.family, result)
            BY <2>4 DEF SetupControl
        <3>2. sock.family \in result => os[fn.name] # None
            BY <1>1, <2>4 DEF Possible
        <3>3. PICK ok \in BOOLEAN : ok = (sock.family \in result)
            BY TrueOrFalse, Zenon
        <3>4. r = [bind |-> IF sock.family \in result THEN Families ELSE {},
                   index |-> os[fn.name], ok |-> ok]
            BY <3>1, <3>3, Zenon DEF setupControlLinux
        <3> HIDE DEF r
        <3>5. sock.family \in Families /\ "4" \in Families  BY <1>0 DEF Socks, Families
        <3> QED  BY <1>0, <2>1, <2>4, <3>2, <3>3, <3>4, <3>5
    <2>5. CASE "control" \in result /\ platform = "darwin"
        <3>1. r = setupControlDarwin(fn, sock.protocol, sock.family, result)
            BY <2>5 DEF SetupControl
        <3> DEFINE asked == IF sock.protocol = "ip" THEN {} ELSE {sock.family}
        <3>2. PICK ok \in BOOLEAN : ok = (asked \subseteq result)
            OBVIOUS
        <3>3. r = [bind |-> IF asked \cap result # {} THEN Families ELSE {}, index |-> fn.index,
                   ok |-> ok]
            BY <3>1, <3>2, Zenon DEF setupControlDarwin
        <3> HIDE DEF r
        <3>4. sock.family \in Families /\ "4" \in Families  BY <1>0 DEF Socks, Families
        <3>5. ok /\ sock.protocol # "ip" => asked \cap result # {}
            BY <3>2
        <3>6. ok /\ sock.protocol # "ip" => r.bind = Families
            BY <3>3, <3>5
        <3>7. r.ok = ok /\ r.index = fn.index  BY <3>3
        <3> HIDE DEF asked
        <3> QED  BY <2>1, <2>5, <3>4, <3>6, <3>7
    <2> QED  BY <1>0, <2>1, <2>2, <2>3, <2>4, <2>5
<1> HIDE DEF r
<1>2. sock' = [sock EXCEPT !.ran = @ + 1,
                 !.option4 = IF fn = User THEN "control" \in result
                             ELSE runs => {"control", "4"} \subseteq result,
                 !.ok = IF fn = User THEN "control" \in result ELSE runs => r.ok,
                 !.bound = [f \in Families |-> IF runs /\ f \in r.bind THEN r.index ELSE @[f]]]
    BY Zenon DEF RunHook, r
<1> HIDE DEF runs
<1>3. /\ sock'.ran = sock.ran + 1
      /\ sock'.state = "hooks" /\ sock'.protocol = sock.protocol
      /\ sock'.family = sock.family /\ sock'.address = sock.address
      /\ sock'.bound = [f \in Families |-> IF runs /\ f \in r.bind THEN r.index ELSE sock.bound[f]]
    BY <1>0, <1>2 DEF Socks
<1>4. sock'.ok = (IF fn = User THEN "control" \in result ELSE runs => r.ok)
    BY <1>0, <1>2, Zenon DEF Socks
<1>7. sock'.option4 = (IF fn = User THEN "control" \in result
                       ELSE runs => {"control", "4"} \subseteq result)
    BY <1>0, <1>2, Zenon DEF Socks
<1>5. sock' \in Socks
    <2>1. sock'.bound \in [Families -> Indexes \cup {None}]
        BY <1>0, <1>1, <1>3 DEF Socks, runs
    <2>2. sock'.ok \in BOOLEAN
        <3>1. CASE fn = User
            <4>1. PICK ok \in BOOLEAN : ok = ("control" \in result)  BY TrueOrFalse, Zenon
            <4> QED  BY <1>4, <3>1, <4>1, Zenon
        <3>2. CASE fn # User
            <4>1. r.ok \in BOOLEAN  BY <1>1, <3>2
            <4>2. runs \in BOOLEAN  BY Zenon DEF runs
            <4>3. PICK ok \in BOOLEAN : ok = (runs => r.ok)  BY <4>1, <4>2
            <4> QED  BY <1>4, <3>2, <4>3, Zenon
        <3> QED  BY <3>1, <3>2
    <2>4. sock'.option4 \in BOOLEAN
        <3>1. CASE fn = User
            <4>1. PICK o \in BOOLEAN : o = ("control" \in result)  BY TrueOrFalse, Zenon
            <4> QED  BY <1>7, <3>1, <4>1, Zenon
        <3>2. CASE fn # User
            <4>1. PICK o \in BOOLEAN : o = (runs => {"control", "4"} \subseteq result)
                OBVIOUS
            <4> QED  BY <1>7, <3>2, <4>1, Zenon
        <3> QED  BY <3>1, <3>2
    <2>5. sock' = [state |-> sock'.state, protocol |-> sock'.protocol, family |-> sock'.family,
                   address |-> sock'.address, ran |-> sock'.ran, option4 |-> sock'.option4,
                   ok |-> sock'.ok, bound |-> sock'.bound]
        BY <1>0, <1>2 DEF Socks
    <2> QED  BY <1>0, <1>3, <2>1, <2>2, <2>4, <2>5 DEF Socks
<1>6. ASSUME sock'.ok PROVE BoundBy(fn, sock)'
    <2> SUFFICES ASSUME fn # User, sock.address # "other",
                        ~(platform = "darwin" /\ sock.protocol = "ip")
                 PROVE  /\ platform = "linux" => os[fn.name] # None
                        /\ \A f \in Families : Sure(sock', f) =>
                             /\ platform = "linux" => sock'.bound[f] = os[fn.name]
                             /\ platform # "linux" => sock'.bound[f] = fn.index
        BY <1>3 DEF BoundBy, Sure
    <2>1. runs  BY DEF runs, Skips
    <2>2. r.ok  BY <1>4, <1>6, <2>1, Zenon
    <2>3. ASSUME NEW f \in Families, Sure(sock', f) PROVE sock'.bound[f] = r.index
        <3>1. f = "4" /\ sock'.option4 => {"control", "4"} \subseteq result
            BY <1>7, <2>1, Zenon
        <3>2. f \in r.bind  BY <1>1, <1>3, <2>2, <2>3, <3>1 DEF Sure
        <3> QED  BY <1>3, <2>1, <3>2
    <2> QED  BY <1>1, <2>2, <2>3
<1> QED  BY <1>3, <1>5, <1>6

(* A bind: what the two functions have in common.                          *)
LEMMA OneBind ==
    ASSUME BindInv, NEW n \in Names, NEW default \in BOOLEAN, default => n # Tunnel,
           BindToDeviceForConn(n, default) \/ BindToDeviceForPacket(n, default)
    PROVE  BindInv' /\ chain \in Seq(Hooks) /\ chain' = Append(chain, Hook(n, default))
<1> DEFINE fn == Hook(n, default)
<1>0. /\ IndexInv /\ ChainInv /\ Idle /\ record[n] # None
      /\ reliable' = (n \notin changed)
      /\ UNCHANGED <<platform, kind, os, record, sock, changed>>
      /\ \/ kind = "conn" /\ hooks' = addControlToDialer(hooks, fn)
         \/ kind = "packet" /\ hooks' = addControlToListenConfig(hooks, fn)
    BY DEF BindInv, BindToDeviceForConn, BindToDeviceForPacket
<1>1. /\ fn \in Hooks /\ fn.name = n /\ fn.index = record[n] /\ fn.default = default
      /\ fn.index # None
    BY <1>0 DEF Hook, Hooks, IndexInv
<1> HIDE DEF fn
<1>2. /\ hooks' \in [Control : Seq(Hooks), ControlContext : Seq(Hooks)]
      /\ kind' = "packet" => hooks'.ControlContext = <<>>
      /\ chain \in Seq(Hooks)
      /\ chain' = Append(chain, fn)
    BY <1>0, <1>1, OneMore
<1>3. /\ Len(chain') = Len(chain) + 1 /\ Len(chain) \in Nat
      /\ chain'[Len(chain')] = fn
      /\ \A k \in 1..Len(chain) : chain'[k] = chain[k]
    BY <1>1, <1>2
<1>4. IndexInv'  BY <1>0 DEF IndexInv
<1>5. ASSUME NEW k \in 1..Len(chain'), chain'[k].default PROVE chain'[k].name # Tunnel
    <2>1. CASE k \in 1..Len(chain)
        BY <1>0, <1>3, <1>5, <2>1 DEF ChainInv
    <2>2. CASE k = Len(chain')
        BY <1>1, <1>3, <1>5, <2>2
    <2> QED  BY <1>3, <2>1, <2>2
<1>6. PICK b \in BOOLEAN : b = (n \in changed)  BY TrueOrFalse, Zenon
<1>7. reliable' \in BOOLEAN /\ (reliable' => n \notin changed)
    BY <1>0, <1>6
<1>8. ASSUME reliable' PROVE last'.name \in Names /\ last'.index = os'[last'.name] /\ last'.index # None
    <2>1. last' = fn  BY <1>3, Zenon DEF last
    <2>2. record[n] = os[n]  BY <1>0, <1>7, <1>8 DEF IndexInv
    <2> QED  BY <1>0, <1>1, <2>1, <2>2
<1>9. chain' # <<>>  BY <1>3
<1>10. ChainInv'
    BY <1>0, <1>2, <1>5, <1>7, <1>8, <1>9 DEF ChainInv
<1>11. SockInv'  BY <1>0 DEF SockInv, Idle
<1> QED  BY <1>2, <1>4, <1>10, <1>11 DEF BindInv, fn

(* Every step keeps the invariant.                                         *)
LEMMA BindStep == BindInv /\ [Next]_vars => BindInv'
<1> SUFFICES ASSUME BindInv, [Next]_vars PROVE BindInv'  OBVIOUS
<1> USE DEF BindInv
<1>a. ASSUME UNCHANGED hooks PROVE chain' = chain /\ last' = last
    BY <1>a DEF chain, last, Chain
<1>b. chain \in Seq(Hooks)  BY DEF ChainInv, chain, Chain
<1>1. ASSUME NEW n \in Names, InterfaceChanges(n) PROVE BindInv'
    <2>0. /\ Idle /\ changed' = changed \cup {n} /\ reliable' = (reliable /\ last.name # n)
          /\ UNCHANGED <<platform, kind, record, hooks, sock>>
        BY <1>1 DEF InterfaceChanges
    <2>1. PICK k \in Indexes \cup {None} :
            /\ k # None => \A m \in Names : os[m] # k
            /\ os' = [os EXCEPT ![n] = k]
        BY <1>1 DEF InterfaceChanges
    <2>2. IndexInv'
        BY <2>0, <2>1 DEF IndexInv
    <2>3. ChainInv'
        <3>1. chain' = chain /\ last' = last  BY <1>a, <2>0
        <3>2. reliable' \in BOOLEAN /\ (reliable' => reliable /\ last.name # n)
            BY <2>0 DEF ChainInv
        <3>3. \A m \in Names : m # n => os'[m] = os[m]
            BY <2>1 DEF IndexInv
        <3> QED  BY <2>0, <3>1, <3>2, <3>3 DEF ChainInv
    <2>4. SockInv'  BY <2>0 DEF SockInv, Idle
    <2> QED  BY <2>2, <2>3, <2>4
<1>2. ASSUME NEW n \in Names, BindGiven(n) PROVE BindInv'
    <2>1. PICK d \in BOOLEAN : d = FALSE  OBVIOUS
    <2>2. BindToDeviceForConn(n, d) \/ BindToDeviceForPacket(n, d)
        BY <1>2, <2>1, Zenon DEF BindGiven
    <2> QED  BY <2>1, <2>2, OneBind
<1>3. ASSUME NEW n \in Names, BindDefault(n) PROVE BindInv'
    <2>1. PICK d \in BOOLEAN : d = TRUE  OBVIOUS
    <2>2. BindToDeviceForConn(n, d) \/ BindToDeviceForPacket(n, d)
        BY <1>3, <2>1, Zenon DEF BindDefault
    <2>3. n # Tunnel  BY <1>3, AvoidsTunnel, Zenon DEF BindDefault
    <2> QED  BY <2>2, <2>3, OneBind
<1>4. ASSUME Flush \/ FlushFails PROVE BindInv'
    <2>1. Idle /\ UNCHANGED <<platform, kind, os, hooks, sock, reliable>>
        BY <1>4 DEF Flush, FlushFails
    <2>2. /\ record' \in [Names -> Indexes \cup {None}]
          /\ \A n \in Names : record'[n] \in {None, os[n]}
        BY <1>4 DEF Flush, FlushFails, IndexInv
    <2>3. IndexInv'  BY <2>1, <2>2 DEF IndexInv
    <2>4. ChainInv'  BY <1>a, <2>1 DEF ChainInv
    <2>5. SockInv'  BY <2>1 DEF SockInv, Idle
    <2> QED  BY <2>3, <2>4, <2>5
<1>5. ASSUME UNCHANGED <<platform, kind, os, record, hooks, changed, reliable>>
      PROVE  IndexInv' /\ ChainInv' /\ chain' = chain
    <2>1. IndexInv'  BY <1>5 DEF IndexInv
    <2>2. ChainInv'  BY <1>a, <1>5 DEF ChainInv
    <2> QED  BY <1>a, <1>5, <2>1, <2>2
<1>6. ASSUME NEW p \in Protocols, NEW f \in Families, NEW a \in Addresses, Open(p, f, a)
      PROVE  BindInv'
    <2>1. UNCHANGED <<platform, kind, os, record, hooks, changed, reliable>>
        BY <1>6 DEF Open
    <2>2. sock' \in Socks /\ sock'.ran = 0 /\ sock'.state = "hooks"
        BY <1>6 DEF Open, Socks
    <2>3. Len(chain) \in Nat  BY <1>b
    <2>4. SockInv'  BY <1>5, <2>1, <2>2, <2>3 DEF SockInv
    <2> QED  BY <1>5, <2>1, <2>4
<1>7. ASSUME NEW result \in Results, Control(result) PROVE BindInv'
    <2>1. UNCHANGED <<platform, kind, os, record, hooks, changed, reliable>>
        BY <1>7 DEF Control
    <2>2. PICK fn : /\ fn = chain[sock.ran + 1] /\ Possible(fn, sock.family, result)
                    /\ sock' = RunHook(sock, fn, result)
        BY <1>7 DEF Control
    <2>3. sock.state = "hooks" /\ sock.ran < Len(chain) /\ sock.ran \in Nat /\ Len(chain) \in Nat
        BY <1>7, <1>b DEF Control, SockInv, Socks
    <2>4. fn \in Hooks  BY <1>b, <2>2, <2>3
    <2>5. /\ sock' \in Socks
          /\ sock'.state = "hooks" /\ sock'.ran = sock.ran + 1
          /\ sock'.ok => BoundBy(fn, sock)'
        BY <2>1, <2>2, <2>3, <2>4, OneHook
    <2>6. sock'.ok => BoundBy(chain[sock.ran], sock)'
        <3>1. chain'[sock'.ran] = fn  BY <1>5, <2>1, <2>2, <2>5
        <3> QED  BY <2>5, <3>1 DEF BoundBy, Sure
    <2>7. SockInv'
        BY <1>5, <2>1, <2>3, <2>5, <2>6 DEF SockInv
    <2> QED  BY <1>5, <2>1, <2>7
<1>8. ASSUME Opened PROVE BindInv'
    <2>1. /\ UNCHANGED <<platform, kind, os, record, hooks, changed, reliable>>
          /\ sock.state = "hooks" /\ (~sock.ok \/ sock.ran = Len(chain))
          /\ sock' = [sock EXCEPT !.state = "made"]
        BY <1>8 DEF Opened
    <2>2. sock \in Socks  BY <2>1 DEF SockInv
    <2>3. /\ sock' \in Socks /\ sock'.state = "made" /\ sock'.ran = sock.ran
          /\ sock'.family = sock.family /\ sock'.address = sock.address
          /\ sock'.protocol = sock.protocol /\ sock'.bound = sock.bound
          /\ sock'.option4 = sock.option4
        BY <2>1, <2>2 DEF Socks
    <2>4. sock'.ok = sock.ok  BY <2>1, <2>2 DEF Socks
    <2>5. SockInv'
        BY <1>5, <2>1, <2>3, <2>4 DEF SockInv, BoundBy, Sure
    <2> QED  BY <1>5, <2>1, <2>5
<1>9. ASSUME Drop PROVE BindInv'
    <2>1. /\ UNCHANGED <<platform, kind, os, record, hooks, changed, reliable>>
          /\ sock'.state = "none"
        BY <1>9 DEF Drop, NoSocket
    <2> QED  BY <1>5, <2>1 DEF SockInv
<1>10. CASE UNCHANGED vars
    <2>1. /\ UNCHANGED <<platform, kind, os, record, hooks, changed, reliable>>
          /\ UNCHANGED sock
        BY <1>10 DEF vars
    <2>2. SockInv'  BY <1>5, <2>1 DEF SockInv, BoundBy, Sure
    <2> QED  BY <1>5, <2>1, <2>2
<1> QED
    BY <1>1, <1>2, <1>3, <1>4, <1>6, <1>7, <1>8, <1>9, <1>10 DEF Next

(* It holds of every reachable state.                                      *)
LEMMA BindInvariant == Spec => []BindInv
BY BindInit, BindStep, PTL DEF Spec

(* What holds of a socket to which the last bind applies.                  *)
LEMMA AppliesTo ==
    ASSUME BindInv, Applies
    PROVE  /\ last # User
           /\ Len(chain) \in Nat \ {0} /\ last.name \in Names
           /\ sock.family \in Families
           /\ platform = "linux" => os[last.name] # None
           /\ \A f \in Families : Sure(sock, f) =>
                /\ platform = "linux" => sock.bound[f] = os[last.name]
                /\ platform # "linux" => sock.bound[f] = last.index
<1>1. chain \in Seq(Hooks) /\ chain # <<>>
    BY DEF Applies, IsBound, BindInv, ChainInv, chain, Chain
<1>2. Len(chain) \in Nat \ {0}  BY <1>1
<1>3. last \in Hooks  BY <1>1, <1>2 DEF last
<1>4. sock.ran = Len(chain)  BY DEF Applies, BindInv, SockInv
<1>5. BoundBy(chain[sock.ran], sock)  BY <1>2, <1>4 DEF Applies, BindInv, SockInv
<1>6. last # User  BY DEF Applies, IsBound
<1>7. last.name \in Names  BY <1>3, <1>6 DEF Hooks
<1>8. BoundBy(last, sock)  BY <1>4, <1>5 DEF last
<1>9. sock.family \in Families  BY DEF Applies, BindInv, SockInv, Socks
<1> QED  BY <1>2, <1>6, <1>7, <1>8, <1>9 DEF BoundBy, Applies

(* The last bind wins, for any interfaces and indexes, any number of hooks *)
(* and whatever calls fail: a socket that was made goes out through what   *)
(* the last bind asked for.                                                *)
THEOREM LastBind == Spec => []LastBindWins
<1>1. ASSUME BindInv PROVE LastBindWins
    <2> SUFFICES ASSUME Applies
                 PROVE  /\ sock.bound[sock.family] =
                             IF platform = "linux" THEN os[last.name] ELSE last.index
                        /\ platform = "linux" \/ reliable =>
                             os[last.name] # None /\ sock.bound[sock.family] = os[last.name]
        BY DEF LastBindWins
    <2>1. /\ platform = "linux" => os[last.name] # None /\ sock.bound[sock.family] = os[last.name]
          /\ platform # "linux" => sock.bound[sock.family] = last.index
        BY <1>1, AppliesTo DEF Sure
    <2>2. reliable => last.index = os[last.name] /\ last.index # None
        BY <1>1 DEF BindInv, ChainInv
    <2> QED  BY <2>1, <2>2
<1> QED  BY <1>1, BindInvariant, PTL

(* No routing loop: a socket that is bound to what DefaultRouteInterface   *)
(* found does not send into the tunnel, whatever the routes of the system, *)
(* in any family it sends in; except for the IPv4 packets of an IPv6       *)
(* listener on Windows whose IPv4 option could not be set.                 *)
THEOREM NeverLoops == Spec => []NoLoop
<1>1. ASSUME BindInv PROVE NoLoop
    <2> SUFFICES ASSUME Applies, last.default, platform = "linux" \/ reliable,
                        NEW f \in Spoken,
                        ~(platform = "windows" /\ f # sock.family /\ ~sock.option4)
                 PROVE  sock.bound[f] \notin {None, os[Tunnel]}
        BY DEF NoLoop
    <2>1. f \in Families /\ Sure(sock, f)
        BY <1>1, AppliesTo DEF Spoken, Sure, Families
    <2>2. /\ platform = "linux" => os[last.name] # None /\ sock.bound[f] = os[last.name]
          /\ platform # "linux" => sock.bound[f] = last.index
          /\ Len(chain) \in Nat \ {0} /\ last.name \in Names
        BY <1>1, <2>1, AppliesTo
    <2>3. reliable => last.index = os[last.name] /\ last.index # None
        BY <1>1 DEF BindInv, ChainInv
    <2>4. sock.bound[f] = os[last.name] /\ os[last.name] # None
        BY <2>2, <2>3
    <2>5. last.name # Tunnel  BY <1>1, <2>2 DEF BindInv, ChainInv, last
    <2> QED  BY <1>1, <2>2, <2>4, <2>5, BindAssumption DEF BindInv, IndexInv
<1> QED  BY <1>1, BindInvariant, PTL

(* A hook of the caller that comes first stays the first, whatever is      *)
(* bound behind it.                                                        *)
THEOREM CallerFirst == Spec => CallerHookRuns
<1>1. ASSUME BindInv, [Next]_vars PROVE [chain # <<>> /\ chain[1] = User => chain'[1] = User]_vars
    <2> SUFFICES ASSUME chain # <<>> PROVE chain'[1] = chain[1]
        OBVIOUS
    <2>1. CASE UNCHANGED hooks
        BY <2>1 DEF chain, Chain
    <2>2. ASSUME NEW n \in Names, NEW d \in BOOLEAN, d => n # Tunnel,
                 BindToDeviceForConn(n, d) \/ BindToDeviceForPacket(n, d)
          PROVE  chain'[1] = chain[1]
        <3>1. chain \in Seq(Hooks) /\ chain' = Append(chain, Hook(n, d))
            BY <1>1, <2>2, OneBind
        <3>2. Len(chain) \in Nat /\ Len(chain) # 0  BY <3>1
        <3> QED  BY <3>1, <3>2
    <2>3. ASSUME NEW n \in Names, BindGiven(n) PROVE chain'[1] = chain[1]
        <3>1. PICK d \in BOOLEAN : d = FALSE  OBVIOUS
        <3>2. BindToDeviceForConn(n, d) \/ BindToDeviceForPacket(n, d)
            BY <2>3, <3>1, Zenon DEF BindGiven
        <3> QED  BY <2>2, <3>1, <3>2
    <2>4. ASSUME NEW n \in Names, BindDefault(n) PROVE chain'[1] = chain[1]
        <3>1. PICK d \in BOOLEAN : d = TRUE  OBVIOUS
        <3>2. BindToDeviceForConn(n, d) \/ BindToDeviceForPacket(n, d)
            BY <2>4, <3>1, Zenon DEF BindDefault
        <3>3. n # Tunnel  BY <2>4, AvoidsTunnel, Zenon DEF BindDefault
        <3> QED  BY <2>2, <3>2, <3>3
    <2> QED
        BY <1>1, <2>1, <2>3, <2>4 DEF Next, InterfaceChanges, Flush, FlushFails, Open, Control,
           Opened, Drop, vars
<1> QED  BY <1>1, BindInvariant, PTL DEF Spec, CallerHookRuns
=============================================================================
