-------------------------------- MODULE Bind --------------------------------
(***************************************************************************)
(* Packages iface and bind: the cached table of interfaces, and the        *)
(* functions that make the sockets of a dialer or of a listener go out     *)
(* through one interface, so that the traffic of the relay does not come   *)
(* back into the tunnel.                                                   *)
(*                                                                         *)
(* BindToDeviceForConn and BindToDeviceForPacket look the interface up in  *)
(* the cache once and put a function behind the hooks that the dialer or   *)
(* listener already has; the hooks run on every socket that it makes       *)
(* later.  Windows and macOS keep the index of the interface, Linux its    *)
(* name.  Interfaces come and go all the time, and indexes are used again. *)
(***************************************************************************)
EXTENDS DefaultRoute

CONSTANTS
    Platforms,      \* subset of {"windows", "linux", "darwin"}
    Indexes,        \* of interfaces
    Protocols,      \* subset of {"tcp", "udp", "ip"}
    MaxHooks        \* bound: hooks behind one dialer or listener

None == 0

ASSUME BindAssumption ==
    /\ Platforms \subseteq {"windows", "linux", "darwin"}
    /\ Tunnel \in Names
    /\ Indexes \subseteq Nat \ {None}
    /\ Protocols \subseteq {"tcp", "udp", "ip"}
    /\ MaxHooks \in Nat

VARIABLES
    platform,
    os,         \* index of each interface that exists
    record,     \* iface.record: index of each interface in the cache
    kind,       \* "conn": a net.Dialer, "packet": a net.ListenConfig
    hooks,      \* its Control and ControlContext; a net.ListenConfig has no ControlContext
    sock,       \* the socket it makes, or NoSocket
    changed,    \* names whose interface changed after the last flush
    reliable    \* the last bind used an entry of the cache that still holds

vars == <<platform, kind, os, record, hooks, sock, changed, reliable>>

Families == {"4", "6"}

(* What the address is to the hook: it does not parse (":0", for a         *)
(* listener on every address), it is a global unicast address, or it is    *)
(* another one (loopback, link local, multicast, "0.0.0.0:0").             *)
Addresses == {"wildcard", "global", "other"}

(* A hook is the caller's own ("user") or a function of setupControl, for  *)
(* an interface that was given or the one that DefaultRouteInterface found. *)
User == [name |-> "user", index |-> None, default |-> FALSE]

(* The hooks that package net calls, in order: the chain behind            *)
(* ControlContext, or the one behind Control where there is none.          *)
Chain(d) == IF d.ControlContext # <<>> THEN d.ControlContext ELSE d.Control
chain == Chain(hooks)
last == chain[Len(chain)]
IsBound == chain # <<>> /\ last # User

NoSocket == [state |-> "none"]
Idle == sock.state = "none"

Init ==
    /\ platform \in Platforms
    /\ os \in [Names -> Indexes \cup {None}]
    /\ \A m, n \in Names : os[m] = os[n] /\ os[m] # None => m = n
    /\ record = os
    /\ kind \in {"conn", "packet"}
    /\ hooks \in [Control : {<<>>, <<User>>}, ControlContext : {<<>>, <<User>>}]
    /\ kind = "packet" => hooks.ControlContext = <<>>
    /\ sock = NoSocket
    /\ changed = {}
    /\ reliable = FALSE

(***************************************************************************)
(* The interfaces of the system, and the cache.                            *)
(***************************************************************************)
InterfaceChanges(n) ==
    /\ Idle
    /\ \E k \in Indexes \cup {None} :
         /\ k # os[n]
         /\ k # None => \A m \in Names : os[m] # k
         /\ os' = [os EXCEPT ![n] = k]
    /\ changed' = changed \cup {n}
    /\ reliable' = (reliable /\ last.name # n)
    /\ UNCHANGED <<platform, kind, record, hooks, sock>>

(* Interfaces without addresses, or whose addresses cannot be read, are    *)
(* left out of the cache.                                                  *)
FlushKeepsOld ==
    /\ Idle
    /\ \E skipped \in SUBSET Names :
         record' = [n \in Names |-> IF n \in skipped \/ os[n] = None THEN record[n] ELSE os[n]]
    /\ changed' = {}
    /\ UNCHANGED <<platform, kind, os, hooks, sock, reliable>>

Flush ==
    /\ Idle
    /\ \E skipped \in SUBSET Names :
         record' = [n \in Names |-> IF n \in skipped THEN None ELSE os[n]]
    /\ changed' = {}
    /\ UNCHANGED <<platform, kind, os, hooks, sock, reliable>>

FlushFails ==
    /\ Idle
    /\ record' = [n \in Names |-> None]
    /\ changed' = {}
    /\ UNCHANGED <<platform, kind, os, hooks, sock, reliable>>

(***************************************************************************)
(* BindToDeviceForConn and BindToDeviceForPacket.                          *)
(***************************************************************************)
addControlToDialerOnly(d, fn) ==
    [d EXCEPT !.ControlContext = Append(d.ControlContext, fn)]

addControlToDialer(d, fn) ==
    [d EXCEPT !.ControlContext = Append(Chain(d), fn)]

addControlToListenConfig(c, fn) ==
    [c EXCEPT !.Control = Append(c.Control, fn)]

Hook(n, default) == [name |-> n, index |-> record[n], default |-> default]

BindToDeviceForConn(n, default) ==
    /\ Idle
    /\ record[n] # None
    /\ kind = "conn" /\ Len(chain) < MaxHooks
    /\ hooks' = addControlToDialer(hooks, Hook(n, default))
    /\ reliable' = (n \notin changed)
    /\ UNCHANGED <<platform, kind, os, record, sock, changed>>

BindToDeviceForPacket(n, default) ==
    /\ Idle
    /\ record[n] # None
    /\ kind = "packet" /\ Len(chain) < MaxHooks
    /\ hooks' = addControlToListenConfig(hooks, Hook(n, default))
    /\ reliable' = (n \notin changed)
    /\ UNCHANGED <<platform, kind, os, record, sock, changed>>

(* The outbound interface of the relay: one that is given, or the one of   *)
(* the default route.                                                      *)
BindGiven(n) == BindToDeviceForConn(n, FALSE) \/ BindToDeviceForPacket(n, FALSE)

BindDefault(n) ==
    /\ <<platform, {m \in Names : os[m] # None}, n>> \in DefaultRouteInterface
    /\ BindToDeviceForConn(n, TRUE) \/ BindToDeviceForPacket(n, TRUE)

(***************************************************************************)
(* A socket: package net runs the hooks on it, and the first error ends    *)
(* the call.  A result holds what succeeds: "control" the call of          *)
(* c.Control, 4 and 6 the socket option of the family; the user's hook may *)
(* fail too.  An IPv4 socket does not take the options of IPv6.            *)
(***************************************************************************)
Results == {r \in SUBSET {"control", "4", "6"} : r = {} \/ "control" \in r}

(* The error of setupControl on Windows, where both options are tried: the *)
(* one of the socket's own family, for "udp6" in each branch.              *)
Bind4Enough(family, set) == "4" \in set

NoError(family, set) == family \in set

(* Which of the families end up bound to which interface by the hook fn,   *)
(* on a socket of a protocol and a family, and whether it returns without  *)
(* an error.  Linux binds to the name, for both families; macOS keeps one  *)
(* interface for a socket, which either option sets.                       *)
setupControlWindows(fn, family, result) ==
    LET set == result \cap {"4", family} IN
    [bind |-> set, index |-> fn.index, ok |-> NoError(family, set)]

setupControlLinux(fn, family, result) ==
    [bind |-> IF family \in result THEN Families ELSE {}, index |-> os[fn.name],
     ok |-> family \in result]

setupControlDarwin(fn, protocol, family, result) ==
    LET asked == IF protocol = "ip" THEN {} ELSE {family} IN
    [bind |-> IF asked \cap result # {} THEN Families ELSE {}, index |-> fn.index,
     ok |-> asked \subseteq result]

SetupControl(fn, protocol, family, result) ==
    CASE "control" \notin result -> [bind |-> {}, index |-> None, ok |-> FALSE]
      [] "control" \in result /\ platform = "windows" -> setupControlWindows(fn, family, result)
      [] "control" \in result /\ platform = "linux" -> setupControlLinux(fn, family, result)
      [] "control" \in result /\ platform = "darwin" ->
           setupControlDarwin(fn, protocol, family, result)

(* A name that has gone does not bind on Linux.                            *)
Possible(fn, family, result) ==
    platform = "linux" /\ fn # User /\ os[fn.name] = None => family \notin result

Skips(address) == address = "other"

(* option4 says of the hook that ran last that the option of IPv4 was set  *)
(* if it was tried, ok that it returned without an error.                  *)
RunHook(s, fn, result) ==
    LET r == SetupControl(fn, s.protocol, s.family, result)
        runs == fn # User /\ ~Skips(s.address)
    IN  [s EXCEPT !.ran = @ + 1,
                  !.option4 = IF fn = User THEN "control" \in result
                              ELSE runs => {"control", "4"} \subseteq result,
                  !.ok = IF fn = User THEN "control" \in result ELSE runs => r.ok,
                  !.bound = [f \in Families |-> IF runs /\ f \in r.bind THEN r.index ELSE @[f]]]

(* DialContext or ListenPacket: the socket, then the hooks one after the   *)
(* other, up to the first error.                                           *)
Open(protocol, family, address) ==
    /\ Idle
    /\ sock' = [state |-> "hooks", protocol |-> protocol, family |-> family, address |-> address,
                ran |-> 0, option4 |-> TRUE, ok |-> TRUE, bound |-> [f \in Families |-> None]]
    /\ UNCHANGED <<platform, kind, os, record, hooks, changed, reliable>>

Control(result) ==
    /\ sock.state = "hooks" /\ sock.ok /\ sock.ran < Len(chain)
    /\ LET fn == chain[sock.ran + 1]
       IN  /\ Possible(fn, sock.family, result)
           /\ sock' = RunHook(sock, fn, result)
    /\ UNCHANGED <<platform, kind, os, record, hooks, changed, reliable>>

Opened ==
    /\ sock.state = "hooks"
    /\ ~sock.ok \/ sock.ran = Len(chain)
    /\ sock' = [sock EXCEPT !.state = "made"]
    /\ UNCHANGED <<platform, kind, os, record, hooks, changed, reliable>>

(* The caller is done with the socket.                                     *)
Drop ==
    /\ sock.state = "made"
    /\ sock' = NoSocket
    /\ UNCHANGED <<platform, kind, os, record, hooks, changed, reliable>>

Next ==
    \/ \E n \in Names : InterfaceChanges(n) \/ BindGiven(n) \/ BindDefault(n)
    \/ Flush \/ FlushFails \/ Opened \/ Drop
    \/ \E p \in Protocols, f \in Families, a \in Addresses : Open(p, f, a)
    \/ \E r \in Results : Control(r)

Spec == Init /\ [][Next]_vars

(***************************************************************************)
(* Properties.                                                             *)
(***************************************************************************)

(* A socket that was made after a bind, and to which the bind applies.  On *)
(* macOS a raw IP socket is left alone.                                    *)
Applies ==
    /\ sock.state = "made" /\ sock.ok
    /\ IsBound
    /\ sock.address # "other"
    /\ ~(platform = "darwin" /\ sock.protocol = "ip")

(* The last bind wins: traffic of the socket's own family goes out through *)
(* what it asked for, whatever was bound before and whatever failed.  On   *)
(* Windows and macOS this is the index found when it was called, on Linux  *)
(* the interface that has the name now.  It is the interface of that name, *)
(* on Linux always, elsewhere as long as the interface did not change      *)
(* after the last flush before the bind: a flush that fails or skips an    *)
(* interface leaves no old entry.                                          *)
LastBindWins ==
    Applies =>
      /\ sock.bound[sock.family] = IF platform = "linux" THEN os[last.name] ELSE last.index
      /\ platform = "linux" \/ reliable =>
           os[last.name] # None /\ sock.bound[sock.family] = os[last.name]

(* The families in which the socket sends: the listener on every address   *)
(* that the relay makes with ListenPacket("udp", "") is an IPv6 socket     *)
(* that sends IPv4 packets too.                                            *)
Spoken ==
    IF sock.protocol = "udp" /\ sock.address = "wildcard" THEN {"4", sock.family}
    ELSE {sock.family}

(* The relay says "bind an outbound interface to avoid routing loops!!!":  *)
(* a socket that is bound to what DefaultRouteInterface found does not     *)
(* send into the tunnel, on which the routes for all traffic lie, whatever *)
(* the routes and metrics of the system and whenever the lookup runs.      *)
(* This is so for every family it sends in, but for one case: on Windows   *)
(* the hook returns no error when only the IPv4 option of an IPv6 socket   *)
(* could not be set, and the IPv4 packets of a listener on every address   *)
(* then go where the routes, or an earlier bind, send them.                *)
NoLoop ==
    Applies /\ last.default /\ (platform = "linux" \/ reliable) =>
      \A f \in Spoken :
        \/ sock.bound[f] \notin {None, os[Tunnel]}
        \/ platform = "windows" /\ f # sock.family /\ ~sock.option4

(* A hook that the caller had set and that package net would call stays    *)
(* the first one of the chain, whether it was in Control or in             *)
(* ControlContext and whatever is bound later.                             *)
CallerHookRuns ==
    [][chain # <<>> /\ chain[1] = User => chain'[1] = User]_vars

(* The comment in bind_windows.go on a listener on every address: "try     *)
(* bind ipv6, if failed, ignore. it's a workaround for windows disable     *)
(* interface ipv6".                                                        *)
WildcardListens ==
    /\ sock.state = "made" /\ platform = "windows"
    /\ kind = "packet" /\ sock.protocol = "udp" /\ sock.family = "6"
    /\ sock.address = "wildcard"
    /\ sock.option4
    => sock.ok
=============================================================================
