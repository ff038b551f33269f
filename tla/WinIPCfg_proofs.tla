--------------------------- MODULE WinIPCfg_proofs ---------------------------
(***************************************************************************)
(* Proofs about the two parts of package winipcfg: ChangeHandler, for any  *)
(* number of clients, notifications and callbacks, and LUID, for any rows  *)
(* in the tables of the system and lists of any length.                    *)
(***************************************************************************)
EXTENDS MCWinIPCfg, Sequences, TLAPS

-----------------------------------------------------------------------------
(***************************************************************************)
(* The change handlers.                                                    *)
(***************************************************************************)

(* Who holds the two mutexes, and what a notification in its loop sees:    *)
(* the map does not change under it.                                       *)
LockInv ==
    /\ \A t \in Clients : pc[t] # "idle" => addRemove = t
    /\ \A n \in Notifiers : delivering[n] = "range" => mutex = n
    /\ \A n \in Notifiers : todo[n] # {} => delivering[n] = "range"
    /\ \A n \in Notifiers : todo[n] \subseteq callbacks

(* What the client in Register or Unregister knows about the table.        *)
ClientInv ==
    \A t \in Clients :
        /\ pc[t] = "register" => arg[t] \notin owned
        /\ pc[t] \in {"unregister", "wait", "cancel"} => arg[t] \in owned
        /\ pc[t] \in {"wait", "cancel"} => arg[t] \notin callbacks
        /\ pc[t] = "wait" /\ removeIt[t] => callbacks = {}
        /\ pc[t] = "cancel" => callbacks = {} /\ wait[arg[t]] = 0

(* A callback whose Unregister has returned is out of the map for good and *)
(* its wait group is at rest.                                              *)
RetiredInv ==
    /\ callbacks \subseteq owned
    /\ \A s \in retired : s \notin callbacks /\ wait[s] = 0

(* The inductive invariant.                                                *)
ChangeInv ==
    TypeOK /\ LockInv /\ ClientInv /\ RetiredInv /\ RegisteredIsSubscribed

(* It holds before anything is registered.                                 *)
THEOREM ChangeInit == Init => ChangeInv
<1> SUFFICES ASSUME Init PROVE ChangeInv  OBVIOUS
<1>1. TypeOK
    <2>1. AnyCallback \in Callbacks
        BY ChangeAssumption DEF AnyCallback
    <2>3. removeIt \in [Clients -> BOOLEAN] /\ todo \in [Notifiers -> SUBSET Callbacks]
        BY DEF Init
    <2>4. /\ pc \in [Clients -> {"idle", "register", "unregister", "wait", "cancel"}]
          /\ delivering \in [Notifiers -> {"idle", "lock", "range"}]
          /\ arg \in [Clients -> Callbacks]
        BY <2>1 DEF Init
    <2>5. /\ wait \in [Callbacks -> Nat]
          /\ inCb \in [Callbacks -> Nat]
          /\ \A s \in Callbacks : inCb[s] <= wait[s]
        BY DEF Init
    <2>6. /\ callbacks = {} /\ owned = {} /\ retired = {}
          /\ handle = FALSE /\ addRemove = NoOne /\ mutex = NoOne
        BY DEF Init
    <2> QED  BY <2>3, <2>4, <2>5, <2>6 DEF TypeOK
<1>2. LockInv /\ ClientInv /\ RetiredInv /\ RegisteredIsSubscribed
    BY DEF Init, LockInv, ClientInv, RetiredInv, RegisteredIsSubscribed
<1> QED  BY <1>1, <1>2 DEF ChangeInv

(* Every step of a registering or unregistering goroutine, of a            *)
(* notification or of a callback keeps it.                                 *)
LEMMA ChangeStep == ChangeInv /\ [Next]_vars => ChangeInv'
<1> SUFFICES ASSUME ChangeInv, [Next]_vars PROVE ChangeInv'  OBVIOUS
<1> USE ChangeAssumption
<1> USE DEF client, table, locks, notify, running, history
<1>0. TypeOK /\ LockInv /\ ClientInv /\ RetiredInv /\ RegisteredIsSubscribed
    BY DEF ChangeInv
<1>1. ASSUME NEW t \in Clients, NEW s \in Callbacks, RegisterLock(t, s)
      PROVE  ChangeInv'
    <2>1. TypeOK'  BY <1>0, <1>1 DEF TypeOK, RegisterLock
    <2>2. LockInv'  BY <1>0, <1>1 DEF TypeOK, LockInv, RegisterLock
    <2>3. ClientInv'  BY <1>0, <1>1 DEF TypeOK, LockInv, ClientInv, RegisterLock
    <2>4. RetiredInv' /\ RegisteredIsSubscribed'
        BY <1>0, <1>1 DEF RetiredInv, RegisteredIsSubscribed, RegisterLock
    <2> QED  BY <2>1, <2>2, <2>3, <2>4 DEF ChangeInv
<1>2. ASSUME NEW t \in Clients, Register(t) PROVE ChangeInv'
    <2>1. TypeOK'  BY <1>0, <1>2 DEF TypeOK, Register
    <2>2. LockInv'  BY <1>0, <1>2 DEF TypeOK, LockInv, Register
    <2>3. ClientInv'  BY <1>0, <1>2 DEF TypeOK, LockInv, ClientInv, Register
    <2>4. RetiredInv' /\ RegisteredIsSubscribed'
        BY <1>0, <1>2 DEF TypeOK, ClientInv, RetiredInv, RegisteredIsSubscribed, Register
    <2> QED  BY <2>1, <2>2, <2>3, <2>4 DEF ChangeInv
<1>3. ASSUME NEW t \in Clients, NEW s \in Callbacks, UnregisterLock(t, s) PROVE ChangeInv'
    <2>1. TypeOK'  BY <1>0, <1>3 DEF TypeOK, UnregisterLock
    <2>2. LockInv'  BY <1>0, <1>3 DEF TypeOK, LockInv, UnregisterLock
    <2>3. ClientInv'  BY <1>0, <1>3 DEF TypeOK, LockInv, ClientInv, UnregisterLock
    <2>4. RetiredInv' /\ RegisteredIsSubscribed'
        BY <1>0, <1>3 DEF RetiredInv, RegisteredIsSubscribed, UnregisterLock
    <2> QED  BY <2>1, <2>2, <2>3, <2>4 DEF ChangeInv
<1>4. ASSUME NEW t \in Clients, Unregister(t) PROVE ChangeInv'
    <2>1. TypeOK'  BY <1>0, <1>4 DEF TypeOK, Unregister
    <2>2. LockInv'  BY <1>0, <1>4 DEF TypeOK, LockInv, Unregister
    <2>3. ClientInv'  BY <1>0, <1>4 DEF TypeOK, LockInv, ClientInv, Unregister
    <2>4. RetiredInv' /\ RegisteredIsSubscribed'
        BY <1>0, <1>4 DEF TypeOK, RetiredInv, RegisteredIsSubscribed, Unregister
    <2> QED  BY <2>1, <2>2, <2>3, <2>4 DEF ChangeInv
<1>5. ASSUME NEW t \in Clients, UnregisterWait(t), removeIt[t] PROVE ChangeInv'
    <2>1. TypeOK'  BY <1>0, <1>5 DEF TypeOK, UnregisterWait
    <2>2. LockInv'  BY <1>0, <1>5 DEF TypeOK, LockInv, UnregisterWait
    <2>3. ClientInv'  BY <1>0, <1>5 DEF TypeOK, LockInv, ClientInv, UnregisterWait
    <2>4. RetiredInv' /\ RegisteredIsSubscribed'
        BY <1>0, <1>5 DEF TypeOK, RetiredInv, RegisteredIsSubscribed, UnregisterWait
    <2> QED  BY <2>1, <2>2, <2>3, <2>4 DEF ChangeInv
<1>6. ASSUME NEW t \in Clients,
             \/ UnregisterWait(t) /\ ~removeIt[t]
             \/ UnregisterCancel(t)
      PROVE  ChangeInv'
    <2>1. /\ pc[t] \in {"wait", "cancel"}
          /\ UnregisterReturn(t)
          /\ wait[arg[t]] = 0
          /\ handle' = handle \/ (handle' \in BOOLEAN /\ callbacks = {})
        BY <1>0, <1>6 DEF ClientInv, UnregisterWait, UnregisterCancel
    <2>2. TypeOK'
        BY <1>0, <2>1 DEF TypeOK, ClientInv, UnregisterReturn
    <2>3. LockInv'
        BY <1>0, <2>1 DEF TypeOK, LockInv, UnregisterReturn
    <2>4. ClientInv'
        BY <1>0, <2>1 DEF TypeOK, LockInv, ClientInv, UnregisterReturn
    <2>5. RetiredInv' /\ RegisteredIsSubscribed'
        BY <1>0, <2>1 DEF TypeOK, ClientInv, RetiredInv, RegisteredIsSubscribed, UnregisterReturn
    <2> QED  BY <2>2, <2>3, <2>4, <2>5 DEF ChangeInv
<1>7. ASSUME NEW n \in Notifiers, NotifyStart(n) \/ NotifyLock(n) \/ NotifyUnlock(n)
      PROVE  ChangeInv'
    <2>1. TypeOK'
        BY <1>0, <1>7 DEF TypeOK, NotifyStart, NotifyLock, NotifyUnlock
    <2>2. LockInv'
        BY <1>0, <1>7 DEF TypeOK, LockInv, NotifyStart, NotifyLock, NotifyUnlock
    <2>3. ClientInv' /\ RetiredInv' /\ RegisteredIsSubscribed'
        BY <1>0, <1>7 DEF ClientInv, RetiredInv, RegisteredIsSubscribed,
           NotifyStart, NotifyLock, NotifyUnlock
    <2> QED  BY <2>1, <2>2, <2>3 DEF ChangeInv
<1>8. ASSUME NEW n \in Notifiers, NEW s \in Callbacks, NotifyGo(n, s) PROVE ChangeInv'
    <2>1. TypeOK'  BY <1>0, <1>8 DEF TypeOK, NotifyGo
    <2>2. LockInv'  BY <1>0, <1>8 DEF TypeOK, LockInv, NotifyGo
    <2>3. s \in callbacks  BY <1>0, <1>8 DEF LockInv, NotifyGo
    <2>4. ClientInv' /\ RetiredInv' /\ RegisteredIsSubscribed'
        BY <1>0, <1>8, <2>3 DEF TypeOK, ClientInv, RetiredInv, RegisteredIsSubscribed, NotifyGo
    <2> QED  BY <2>1, <2>2, <2>4 DEF ChangeInv
<1>9. ASSUME NEW s \in Callbacks, CallbackReturn(s) PROVE ChangeInv'
    <2>1. TypeOK'  BY <1>0, <1>9 DEF TypeOK, CallbackReturn
    <2>2. LockInv' /\ ClientInv' /\ RetiredInv' /\ RegisteredIsSubscribed'
        BY <1>0, <1>9 DEF LockInv, ClientInv, RetiredInv, RegisteredIsSubscribed, CallbackReturn
    <2> QED  BY <2>1, <2>2 DEF ChangeInv
<1>10. ASSUME NEW s \in Callbacks, CallbackDone(s) PROVE ChangeInv'
    <2>1. TypeOK'  BY <1>0, <1>10 DEF TypeOK, CallbackDone
    <2>2. LockInv' /\ RegisteredIsSubscribed'
        BY <1>0, <1>10 DEF LockInv, RegisteredIsSubscribed, CallbackDone
    <2>3. wait[s] # 0
        BY <1>0, <1>10 DEF TypeOK, CallbackDone
    <2>4. ClientInv' /\ RetiredInv'
        BY <1>0, <1>10, <2>3 DEF TypeOK, ClientInv, RetiredInv, CallbackDone
    <2> QED  BY <2>1, <2>2, <2>4 DEF ChangeInv
<1>11. CASE UNCHANGED vars
    BY <1>0, <1>11 DEF ChangeInv, TypeOK, LockInv, ClientInv, RetiredInv,
       RegisteredIsSubscribed, vars
<1> QED
    BY <1>1, <1>2, <1>3, <1>4, <1>5, <1>6, <1>7, <1>8, <1>9, <1>10, <1>11
    DEF Next, ClientStep, NotifierStep

(* It holds of every reachable state.                                      *)
LEMMA ChangeInvariant == Spec => []ChangeInv
BY ChangeInit, ChangeStep, PTL DEF Spec

(* After Unregister has returned, the callback does not run and will not   *)
(* run again, whatever notifications were in progress.                     *)
THEOREM UnregisterIsQuiet == Spec => []QuietAfterUnregister
<1>1. ChangeInv => QuietAfterUnregister
    BY DEF ChangeInv, TypeOK, LockInv, RetiredInv, QuietAfterUnregister
<1> QED  BY ChangeInvariant, <1>1, PTL

(* A registered callback always has a subscription behind it.              *)
THEOREM AlwaysSubscribed == Spec => []RegisteredIsSubscribed
<1>1. ChangeInv => RegisteredIsSubscribed
    BY DEF ChangeInv
<1> QED  BY ChangeInvariant, <1>1, PTL

(* The wait group of a callback is used as sync.WaitGroup demands.         *)
THEOREM WaitGroupRule == Spec => NoAddDuringWait
<1>1. ASSUME ChangeInv, [Next]_vars, NEW t \in Clients, pc[t] = "wait"
      PROVE  wait'[arg[t]] <= wait[arg[t]]
    <2> USE DEF client, table, locks, notify, running, history
    <2>0. TypeOK /\ arg[t] \notin callbacks /\ LockInv
        BY <1>1 DEF ChangeInv, ClientInv
    <2>1. ASSUME NEW n \in Notifiers, NEW s \in Callbacks, NotifyGo(n, s)
          PROVE  wait'[arg[t]] <= wait[arg[t]]
        <3>1. s # arg[t]
            BY <2>0, <2>1 DEF LockInv, NotifyGo
        <3> QED  BY <2>0, <2>1, <3>1 DEF TypeOK, NotifyGo
    <2>2. ASSUME NEW s \in Callbacks, CallbackDone(s)
          PROVE  wait'[arg[t]] <= wait[arg[t]]
        BY <2>0, <2>2 DEF TypeOK, CallbackDone
    <2>3. CASE UNCHANGED wait
        BY <2>0, <2>3 DEF TypeOK
    <2>4. ASSUME NEW u \in Clients,
                 \/ \E s \in Callbacks : UnregisterLock(u, s) \/ RegisterLock(u, s)
                 \/ ClientStep(u)
          PROVE  UNCHANGED wait
        BY <2>4 DEF RegisterLock, Register, UnregisterLock, Unregister, UnregisterWait,
           UnregisterCancel, UnregisterReturn, ClientStep
    <2>5. ASSUME NEW n \in Notifiers, NotifyStart(n) \/ NotifyLock(n) \/ NotifyUnlock(n)
          PROVE  UNCHANGED wait
        BY <2>5 DEF NotifyStart, NotifyLock, NotifyUnlock
    <2>6. ASSUME NEW s \in Callbacks, CallbackReturn(s) PROVE UNCHANGED wait
        BY <2>6 DEF CallbackReturn
    <2>7. CASE UNCHANGED vars
        BY <2>3, <2>7 DEF vars
    <2> QED
        BY <1>1, ChangeAssumption, <2>1, <2>2, <2>3, <2>4, <2>5, <2>6, <2>7
        DEF Next, NotifierStep
<1>2. ChangeInv /\ [Next]_vars =>
        [\A t \in Clients : pc[t] = "wait" => wait'[arg[t]] <= wait[arg[t]]]_vars
    BY <1>1
<1> QED  BY ChangeInvariant, <1>2, PTL DEF Spec, NoAddDuringWait

-----------------------------------------------------------------------------
(***************************************************************************)
(* The methods of LUID.                                                    *)
(***************************************************************************)
Elements(s) == {s[k] : k \in DOMAIN s}

CallFamilies == L!Families \cup {L!AnyFamily}
Jobs == [family : CallFamilies, servers : SUBSET L!Servers, domain : L!Domains]

EntryCalls ==
    [op : {"set", "add", "delete"}, at : {"table", "flush", "add", "get", "delete", "done"},
     family : CallFamilies, list : Seq(L!OwnEntries), asked : Seq(L!OwnEntries),
     todo : SUBSET Entries, err : BOOLEAN]

JobCalls ==
    [op : {"dns", "setup"}, at : {"refused", "dns", "netsh", "domain", "done"},
     family : CallFamilies, list : Seq(Jobs), asked : Seq(Jobs), todo : {{}}, err : BOOLEAN]

(* The rows that the call is about.                                        *)
Mine == {e \in rows : e.luid = Own /\ L!In(call.family, e)}

(* What a call on addresses or routes has done so far, if nobody else      *)
(* touched the interface: a flush of routes without an error has all that  *)
(* is left still to do, and then only what is asked comes back; what was   *)
(* asked is in the table or still on the list.                             *)
EntryProgress ==
    /\ Elements(call.list) \subseteq Elements(call.asked)
    /\ \A e \in call.todo : L!In(call.family, e)
    /\ call.at \in {"table", "flush"} => call.list = call.asked
    /\ call.op = "set" => call.at \in {"table", "flush", "add", "done"}
    /\ call.op = "add" => call.at \in {"add", "done"}
    /\ call.op = "delete" =>
         /\ call.at \in {"get", "delete", "done"} /\ call.family = L!AnyFamily
         /\ call.list # <<>> /\ Elements(call.asked) = {Head(call.list)}
    /\ call.at = "flush" /\ kind = "route" /\ alone /\ ~call.err => Mine \subseteq call.todo
    /\ call.at = "add" /\ alone =>
         \A e \in Elements(call.asked) :
           L!In(call.family, e) => e \in Elements(call.list) \cup rows
    /\ call.at = "add" /\ call.op = "set" /\ kind = "route" /\ alone =>
         Mine \subseteq Elements(call.asked)
    /\ call.at = "done" /\ ~call.err /\ alone =>
         /\ call.op # "delete" =>
              \A e \in Elements(call.asked) : L!In(call.family, e) => e \in rows
         /\ call.op = "set" /\ kind = "route" => Mine \subseteq Elements(call.asked)
         /\ call.op = "delete" => Elements(call.asked) \cap rows = {}

EntryInv ==
    /\ rows \subseteq Entries
    /\ call = L!Idle \/ (call \in EntryCalls /\ EntryProgress)

(* What a call on name servers has done so far: no two jobs are about one  *)
(* family, and each is done or still on the list.                          *)
Served(j) == dns.server[j.family] = L!OfFamily(j.servers, j.family)

JobProgress ==
    /\ Elements(call.list) \subseteq Elements(call.asked)
    /\ \A i, j \in Elements(call.asked) : i.family = j.family => i = j
    /\ call.at \in {"dns", "netsh", "domain"} =>
         \A j \in Elements(call.asked) :
           /\ j.family \in L!Families
           /\ j \in Elements(call.list) \/ Served(j)
    /\ call.at \in {"netsh", "domain"} => call.list # <<>>
    /\ call.at = "domain" => Served(Head(call.list))
    /\ call.at = "done" /\ ~call.err => \A j \in Elements(call.asked) : Served(j)

JobInv ==
    /\ dns \in [server : [L!Families -> SUBSET L!Servers], domain : [L!Families -> L!Domains],
                registers : BOOLEAN]
    /\ call = L!Idle \/ (call \in JobCalls /\ JobProgress)

LUIDInv ==
    /\ kind \in {"address", "route", "dns"}
    /\ alone \in BOOLEAN
    /\ kind # "dns" => EntryInv
    /\ kind = "dns" => JobInv

(* The elements of a sequence are its head and those of its tail.          *)
LEMMA ElementsTail ==
    ASSUME NEW S, NEW s \in Seq(S), s # <<>>
    PROVE  /\ Head(s) \in S /\ Tail(s) \in Seq(S)
           /\ Elements(s) = {Head(s)} \cup Elements(Tail(s))
<1>1. /\ Head(s) \in S /\ Tail(s) \in Seq(S) /\ Head(s) = s[1]
      /\ Len(s) \in Nat \ {0} /\ Len(Tail(s)) = Len(s) - 1
    OBVIOUS
<1>2. ASSUME NEW k \in 1..Len(s), k # 1 PROVE s[k] \in Elements(Tail(s))
    <2>1. k - 1 \in 1..Len(Tail(s)) /\ Tail(s)[k - 1] = s[k]  BY <1>1, <1>2
    <2>2. DOMAIN Tail(s) = 1..Len(Tail(s))  BY <1>1
    <2> QED  BY <2>1, <2>2, Zenon DEF Elements
<1>3. ASSUME NEW k \in 1..Len(Tail(s)) PROVE Tail(s)[k] \in Elements(s)
    <2>1. k + 1 \in 1..Len(s) /\ Tail(s)[k] = s[k + 1]  BY <1>1
    <2> QED  BY <2>1 DEF Elements
<1>4. s[1] \in Elements(s)  BY <1>1 DEF Elements
<1> QED  BY <1>1, <1>2, <1>3, <1>4 DEF Elements

(* The elements of a sequence over a set are in it.                        *)
LEMMA ElementsIn ==
    ASSUME NEW S, NEW s \in Seq(S)
    PROVE  Elements(s) \subseteq S
BY DEF Elements

(* Of the empty sequence and of one element.                               *)
LEMMA ElementsFew ==
    /\ Elements(<<>>) = {}
    /\ \A e : Elements(<<e>>) = {e} /\ Head(<<e>>) = e /\ <<e>> # <<>>
BY DEF Elements

(* A list that a method is given.                                          *)
LEMMA ListOfOwn ==
    ASSUME NEW list \in L!Lists
    PROVE  list \in Seq(L!OwnEntries)
<1>1. PICK k \in 0..MaxList : list \in [1..k -> L!OwnEntries]  BY DEF L!Lists
<1> QED  BY <1>1, LUIDAssumption

(* The fields of a call that returns.                                      *)
LEMMA EntryReturn ==
    ASSUME NEW b \in BOOLEAN, L!Return(b), call \in EntryCalls
    PROVE  /\ call' \in EntryCalls /\ call'.at = "done" /\ call'.err = b
           /\ call'.op = call.op /\ call'.family = call.family /\ call'.list = call.list
           /\ call'.asked = call.asked /\ call'.todo = call.todo
BY DEF L!Return, EntryCalls

LEMMA JobReturn ==
    ASSUME NEW b \in BOOLEAN, L!Return(b), call \in JobCalls
    PROVE  /\ call' \in JobCalls /\ call'.at = "done" /\ call'.err = b
           /\ call'.list = call.list /\ call'.asked = call.asked
BY DEF L!Return, JobCalls

(* A call on addresses or routes that fails keeps its invariant.           *)
LEMMA EntryFails ==
    ASSUME call \in EntryCalls, EntryProgress, L!Return(TRUE), UNCHANGED <<kind, alone>>,
           rows' \subseteq Entries
    PROVE  EntryInv'
<1>1. PICK b \in BOOLEAN : b = TRUE  OBVIOUS
<1>2. L!Return(b)  BY <1>1, Zenon
<1>3. /\ call' \in EntryCalls /\ call'.at = "done" /\ call'.err = b
      /\ call'.op = call.op /\ call'.family = call.family /\ call'.list = call.list
      /\ call'.asked = call.asked /\ call'.todo = call.todo
    BY <1>2, EntryReturn
<1>4. EntryProgress'
    BY <1>1, <1>3 DEF EntryProgress, EntryCalls
<1> QED  BY <1>3, <1>4 DEF EntryInv

(* The start of a call on addresses or routes.                             *)
LEMMA EntryBegins ==
    ASSUME LUIDInv, kind # "dns", NEW list \in Seq(L!OwnEntries), NEW family \in CallFamilies,
           NEW op, NEW at, L!Begin(op, at, family, list),
           \/ op = "set" /\ at = "table"
           \/ op = "add" /\ at = "add"
           \/ /\ op = "delete" /\ at \in {"get", "delete"} /\ family = L!AnyFamily
              /\ \E e \in L!OwnEntries : list = <<e>>
    PROVE  EntryInv' /\ rows' = rows /\ kind' = kind /\ alone' = TRUE
<1>1. /\ call' = [op |-> op, at |-> at, family |-> family, list |-> list, asked |-> list,
                  todo |-> {}, err |-> FALSE]
      /\ UNCHANGED <<kind, rows>>
    BY DEF L!Begin
<1>2. alone' = TRUE  BY Zenon DEF L!Begin
<1>3. /\ call'.op = op /\ call'.at = at /\ call'.family = family /\ call'.list = list
      /\ call'.asked = list /\ call'.todo = {}
    BY <1>1
<1>4. call' \in EntryCalls
    BY <1>1 DEF EntryCalls
<1>5. op = "delete" => list # <<>> /\ Elements(list) = {Head(list)}
    BY ElementsFew
<1>6. EntryProgress'
    BY <1>3, <1>5 DEF EntryProgress
<1> QED  BY <1>1, <1>2, <1>4, <1>6 DEF EntryInv, LUIDInv

(* The steps of a flush.                                                   *)
LEMMA FlushKeeps ==
    ASSUME LUIDInv, kind # "dns",
           L!GetTable \/ L!FlushEnds \/ \E e \in Entries : L!FlushRow(e)
    PROVE  EntryInv'
<1>0. /\ call \in EntryCalls /\ EntryProgress /\ rows \subseteq Entries
    <2>1. call.at \in {"table", "flush"}  BY DEF L!GetTable, L!FlushEnds, L!FlushRow
    <2>2. call # L!Idle  BY <2>1 DEF L!Idle
    <2> QED  BY <2>2 DEF LUIDInv, EntryInv
<1>1. CASE L!GetTable
    <2>0. call.at = "table" /\ UNCHANGED <<kind, rows, alone>>  BY <1>1 DEF L!GetTable
    <2>1. CASE L!Return(TRUE)
        BY <1>0, <2>0, <2>1, EntryFails
    <2>2. CASE call' = [call EXCEPT !.at = "flush", !.todo = {e \in rows : L!In(call.family, e)}]
        <3>1. /\ call' \in EntryCalls /\ call'.at = "flush" /\ call'.err = call.err
              /\ call'.op = call.op /\ call'.family = call.family /\ call'.list = call.list
              /\ call'.asked = call.asked
              /\ call'.todo = {e \in rows : L!In(call.family, e)}
            BY <1>0, <2>2 DEF EntryCalls
        <3>2. EntryProgress'
            BY <1>0, <2>0, <3>1 DEF EntryProgress, Mine
        <3> QED  BY <1>0, <2>0, <3>1, <3>2 DEF EntryInv
    <2> QED  BY <1>1, <2>1, <2>2, Zenon DEF L!GetTable
<1>2. ASSUME NEW e \in Entries, L!FlushRow(e) PROVE EntryInv'
    <2>0. call.at = "flush" /\ e \in call.todo /\ UNCHANGED <<kind, alone>>
        BY <1>2 DEF L!FlushRow
    <2>1. PICK failed \in BOOLEAN :
            /\ failed => e.luid = Own
            /\ rows' = IF e.luid = Own /\ ~failed THEN rows \ {e} ELSE rows
            /\ call' = [call EXCEPT !.todo = @ \ {e}, !.err = @ \/ L!FlushError(failed)]
        BY <1>2 DEF L!FlushRow
    <2>2. PICK err \in BOOLEAN : err = (call.err \/ (failed /\ kind = "route"))
        BY <1>0 DEF EntryCalls
    <2>3. call' = [call EXCEPT !.todo = @ \ {e}, !.err = err]
        BY <2>1, <2>2, Zenon DEF L!FlushError
    <2>4. /\ call' \in EntryCalls /\ call'.at = "flush" /\ call'.err = err
          /\ call'.op = call.op /\ call'.family = call.family /\ call'.list = call.list
          /\ call'.asked = call.asked /\ call'.todo = call.todo \ {e}
        BY <1>0, <2>0, <2>3 DEF EntryCalls
    <2>5. kind = "route" /\ alone /\ ~err => Mine' \subseteq call'.todo
        BY <1>0, <2>0, <2>1, <2>2, <2>4 DEF EntryProgress, Mine
    <2>6. EntryProgress'
        BY <1>0, <2>0, <2>4, <2>5 DEF EntryProgress
    <2> QED  BY <1>0, <2>1, <2>4, <2>6 DEF EntryInv
<1>3. CASE L!FlushEnds
    <2>0. call.at = "flush" /\ call.todo = {} /\ UNCHANGED <<kind, rows, alone>>
        BY <1>3 DEF L!FlushEnds
    <2>1. CASE call.err
        <3>1. L!Return(TRUE)  BY <1>3, <2>1, Zenon DEF L!FlushEnds
        <3> QED  BY <1>0, <2>0, <3>1, EntryFails
    <2>2. CASE ~call.err
        <3>1. call' = [call EXCEPT !.at = "add"]  BY <1>3, <2>2 DEF L!FlushEnds, L!Goto
        <3>2. /\ call' \in EntryCalls /\ call'.at = "add" /\ call'.err = call.err
              /\ call'.op = call.op /\ call'.family = call.family /\ call'.list = call.list
              /\ call'.asked = call.asked /\ call'.todo = call.todo
            BY <1>0, <3>1 DEF EntryCalls
        <3>3. EntryProgress'
            BY <1>0, <2>0, <2>2, <3>2 DEF EntryProgress, EntryCalls, Mine
        <3> QED  BY <1>0, <2>0, <3>2, <3>3 DEF EntryInv
    <2> QED  BY <2>1, <2>2
<1> QED  BY <1>1, <1>2, <1>3

(* The steps of an add.                                                    *)
LEMMA AddKeeps ==
    ASSUME LUIDInv, kind # "dns", L!AddEntry \/ L!AddEnds
    PROVE  EntryInv'
<1>0. /\ call \in EntryCalls /\ EntryProgress /\ rows \subseteq Entries /\ call.at = "add"
      /\ UNCHANGED <<kind, alone>>
    <2>1. call.at = "add" /\ UNCHANGED <<kind, alone>>  BY DEF L!AddEntry, L!AddEnds
    <2>2. call # L!Idle  BY <2>1 DEF L!Idle
    <2> QED  BY <2>1, <2>2 DEF LUIDInv, EntryInv
<1>1. CASE L!AddEntry
    <2> DEFINE e == Head(call.list)
    <2>1. call.list \in Seq(L!OwnEntries) /\ call.list # <<>>
        BY <1>0, <1>1 DEF L!AddEntry, EntryCalls
    <2>2. /\ e \in L!OwnEntries /\ Tail(call.list) \in Seq(L!OwnEntries)
          /\ Elements(call.list) = {e} \cup Elements(Tail(call.list))
        BY <2>1, ElementsTail
    <2>3. e \in Entries /\ e \in Elements(call.asked)
        BY <1>0, <2>2 DEF L!OwnEntries, EntryProgress
    <2>4. CASE L!Return(TRUE) /\ rows' = rows
        BY <1>0, <2>4, EntryFails
    <2>5. CASE /\ call' = [call EXCEPT !.list = Tail(@)]
               /\ \/ ~L!In(call.family, e) /\ rows' = rows
                  \/ rows' = rows \cup {e}
        <3> HIDE DEF e
        <3>1. /\ call' \in EntryCalls /\ call'.at = "add" /\ call'.err = call.err
              /\ call'.op = call.op /\ call'.family = call.family
              /\ call'.list = Tail(call.list)
              /\ call'.asked = call.asked /\ call'.todo = call.todo
            BY <1>0, <2>2, <2>5 DEF EntryCalls
        <3>2. call.op # "delete"  BY <1>0 DEF EntryProgress
        <3>3. alone => \A d \in Elements(call.asked) :
                L!In(call.family, d) => d \in Elements(Tail(call.list)) \cup rows'
            BY <1>0, <2>2, <2>5 DEF EntryProgress
        <3>4. call.op = "set" /\ kind = "route" /\ alone => Mine' \subseteq Elements(call.asked)
            BY <1>0, <2>3, <2>5, <3>1 DEF EntryProgress, Mine
        <3>5. Elements(Tail(call.list)) \subseteq Elements(call.asked)
            BY <1>0, <2>2 DEF EntryProgress
        <3>6. EntryProgress'
            BY <1>0, <3>1, <3>2, <3>3, <3>4, <3>5 DEF EntryProgress
        <3>7. rows' \subseteq Entries  BY <1>0, <2>3, <2>5
        <3> QED  BY <3>1, <3>6, <3>7 DEF EntryInv
    <2> QED  BY <1>1, <2>4, <2>5, Zenon DEF L!AddEntry
<1>2. CASE L!AddEnds
    <2>1. call.list = <<>> /\ rows' = rows  BY <1>2 DEF L!AddEnds
    <2>2. PICK b \in BOOLEAN : b = FALSE  OBVIOUS
    <2>3. L!Return(b)  BY <1>2, <2>2, Zenon DEF L!AddEnds
    <2>4. /\ call' \in EntryCalls /\ call'.at = "done" /\ call'.err = b
          /\ call'.op = call.op /\ call'.family = call.family /\ call'.list = call.list
          /\ call'.asked = call.asked /\ call'.todo = call.todo
        BY <1>0, <2>3, EntryReturn
    <2>5. Elements(call.list) = {}  BY <2>1, ElementsFew
    <2>6. EntryProgress'
        BY <1>0, <2>1, <2>4, <2>5 DEF EntryProgress, Mine
    <2> QED  BY <1>0, <2>1, <2>4, <2>6 DEF EntryInv
<1> QED  BY <1>1, <1>2

(* The steps of a deletion.                                                *)
LEMMA DeleteKeeps ==
    ASSUME LUIDInv, kind # "dns", L!GetRow \/ L!DeleteRow
    PROVE  EntryInv'
<1>0. /\ call \in EntryCalls /\ EntryProgress /\ rows \subseteq Entries
      /\ call.at \in {"get", "delete"} /\ call.op = "delete" /\ UNCHANGED <<kind, alone>>
    <2>1. call.at \in {"get", "delete"} /\ UNCHANGED <<kind, alone>>
        BY DEF L!GetRow, L!DeleteRow
    <2>2. call # L!Idle  BY <2>1 DEF L!Idle
    <2>3. call \in EntryCalls /\ EntryProgress /\ rows \subseteq Entries
        BY <2>2 DEF LUIDInv, EntryInv
    <2> QED  BY <2>1, <2>3 DEF EntryProgress, EntryCalls
<1>1. CASE L!Return(TRUE) /\ rows' = rows
    BY <1>0, <1>1, EntryFails
<1>2. CASE L!Goto("delete") /\ rows' = rows
    <2>1. /\ call' \in EntryCalls /\ call'.at = "delete" /\ call'.err = call.err
          /\ call'.op = call.op /\ call'.family = call.family /\ call'.list = call.list
          /\ call'.asked = call.asked /\ call'.todo = call.todo
        BY <1>0, <1>2 DEF L!Goto, EntryCalls
    <2>2. EntryProgress'
        BY <1>0, <2>1 DEF EntryProgress
    <2> QED  BY <1>0, <1>2, <2>1, <2>2 DEF EntryInv
<1>3. CASE L!Return(FALSE) /\ rows' = rows \ {Head(call.list)}
    <2>2. PICK b \in BOOLEAN : b = FALSE  OBVIOUS
    <2>3. L!Return(b)  BY <1>3, <2>2, Zenon
    <2>4. /\ call' \in EntryCalls /\ call'.at = "done" /\ call'.err = b
          /\ call'.op = call.op /\ call'.family = call.family /\ call'.list = call.list
          /\ call'.asked = call.asked /\ call'.todo = call.todo
        BY <1>0, <2>3, EntryReturn
    <2>5. Elements(call.asked) \cap rows' = {}
        BY <1>0, <1>3 DEF EntryProgress
    <2>6. EntryProgress'
        BY <1>0, <2>4, <2>5 DEF EntryProgress
    <2> QED  BY <1>0, <1>3, <2>4, <2>6 DEF EntryInv
<1> QED  BY <1>1, <1>2, <1>3, Zenon DEF L!GetRow, L!DeleteRow

(* Another program, or the caller that has its answer.                     *)
LEMMA OthersKeep ==
    ASSUME LUIDInv, kind # "dns", L!Done \/ \E e \in Entries : L!Interfere(e)
    PROVE  EntryInv' /\ alone' \in BOOLEAN
<1>1. CASE L!Done
    BY <1>1 DEF L!Done, LUIDInv, EntryInv
<1>2. ASSUME NEW e \in Entries, L!Interfere(e) PROVE EntryInv' /\ alone' \in BOOLEAN
    <2>1. /\ rows' = IF e \in rows THEN rows \ {e} ELSE rows \cup {e}
          /\ alone' = (alone /\ e.luid # Own)
          /\ UNCHANGED <<kind, call>>
        BY <1>2 DEF L!Interfere
    <2>2. alone' \in BOOLEAN /\ (alone' => alone /\ e.luid # Own)
        BY <2>1 DEF LUIDInv
    <2>3. rows' \subseteq Entries  BY <2>1 DEF LUIDInv, EntryInv
    <2>4. ASSUME call \in EntryCalls, EntryProgress PROVE EntryProgress'
        <3>1. Elements(call.asked) \subseteq L!OwnEntries
            BY <2>4, ElementsIn DEF EntryCalls
        <3>2. alone' => /\ Mine' = Mine
                        /\ \A d \in Elements(call.asked) : d \in rows' <=> d \in rows
            BY <2>1, <2>2, <3>1 DEF Mine, L!OwnEntries
        <3> QED  BY <2>1, <2>2, <2>4, <3>1, <3>2 DEF EntryProgress
    <2>5. call \in EntryCalls => call' \in EntryCalls
        BY <2>1 DEF EntryCalls
    <2> QED  BY <2>1, <2>2, <2>3, <2>4, <2>5 DEF LUIDInv, EntryInv, L!Idle
<1> QED  BY <1>1, <1>2 DEF L!Done, LUIDInv

(* Every step of a call on addresses or routes keeps the invariant.        *)
LEMMA EntryStep ==
    ASSUME LUIDInv, kind # "dns", L!Next
    PROVE  LUIDInv'
<1>1. ASSUME NEW list \in L!Lists, NEW f \in CallFamilies, NEW k,
             L!BeginOn(k, "set", "table", f, list) \/ L!BeginOn(k, "add", "add", f, list)
      PROVE  LUIDInv'
    <2>1. L!Begin("set", "table", f, list) \/ L!Begin("add", "add", f, list)
        BY <1>1 DEF L!BeginOn
    <2>2. list \in Seq(L!OwnEntries)  BY ListOfOwn
    <2>3. EntryInv' /\ kind' = kind /\ alone' = TRUE
        BY <2>1, <2>2, EntryBegins
    <2> QED  BY <2>3 DEF LUIDInv
<1>2. ASSUME NEW e \in L!OwnEntries, L!DeleteIPAddress(e) \/ L!DeleteRoute(e)
      PROVE  LUIDInv'
    <2>1. \E at \in {"get", "delete"} : L!Begin("delete", at, L!AnyFamily, <<e>>)
        BY <1>2 DEF L!DeleteIPAddress, L!DeleteRoute, L!BeginOn
    <2>2. <<e>> \in Seq(L!OwnEntries) /\ L!AnyFamily \in CallFamilies  BY DEF CallFamilies
    <2>3. EntryInv' /\ kind' = kind /\ alone' = TRUE
        BY <2>1, <2>2, EntryBegins
    <2> QED  BY <2>3 DEF LUIDInv
<1>3. ASSUME EntryInv', kind' = kind, alone' \in BOOLEAN PROVE LUIDInv'
    BY <1>3 DEF LUIDInv
<1>4. ASSUME L!GetTable \/ L!FlushEnds \/ \E e \in Entries : L!FlushRow(e) PROVE LUIDInv'
    <2>1. UNCHANGED <<kind, alone>>  BY <1>4 DEF L!GetTable, L!FlushEnds, L!FlushRow
    <2> QED  BY <1>3, <1>4, <2>1, FlushKeeps DEF LUIDInv
<1>5. ASSUME L!AddIPAddress \/ L!AddRoute \/ L!AddEnds PROVE LUIDInv'
    <2>1. L!AddEntry \/ L!AddEnds  BY <1>5 DEF L!AddIPAddress, L!AddRoute
    <2>2. UNCHANGED <<kind, alone>>  BY <2>1 DEF L!AddEntry, L!AddEnds
    <2> QED  BY <1>3, <2>1, <2>2, AddKeeps DEF LUIDInv
<1>6. ASSUME L!GetRow \/ L!DeleteRow PROVE LUIDInv'
    <2>1. UNCHANGED <<kind, alone>>  BY <1>6 DEF L!GetRow, L!DeleteRow
    <2> QED  BY <1>3, <1>6, <2>1, DeleteKeeps DEF LUIDInv
<1>7. ASSUME L!Done \/ \E e \in Entries : L!Interfere(e) PROVE LUIDInv'
    <2>1. kind' = kind  BY <1>7 DEF L!Done, L!Interfere
    <2> QED  BY <1>3, <1>7, <2>1, OthersKeep
<1>8. ASSUME NEW f, NEW s, NEW d, L!SetDNS(f, s, d) PROVE FALSE
    BY <1>8 DEF L!SetDNS, L!Begin
<1>9. ASSUME NEW s, L!SetupDNS(s) PROVE FALSE
    <2>1. \E list : L!Begin("setup", "dns", L!AnyFamily, list)  BY <1>9, Zenon DEF L!SetupDNS
    <2> QED  BY <2>1 DEF L!Begin
<1>10. ~(L!RefuseDNS \/ L!SetInterfaceDnsSettings \/ L!fallbackSetDNSForFamily
          \/ L!fallbackSetDNSDomain \/ L!DNSEnds \/ L!DisableDNSRegistration)
    <2>1. call.at \notin {"refused", "dns", "netsh", "domain"}
        BY DEF LUIDInv, EntryInv, EntryCalls, L!Idle
    <2> QED
        BY <2>1 DEF L!RefuseDNS, L!SetInterfaceDnsSettings, L!fallbackSetDNSForFamily,
           L!fallbackSetDNSDomain, L!DNSEnds, L!DisableDNSRegistration
<1>11. ASSUME NEW list \in L!Lists, NEW f \in L!Families,
              \/ L!SetIPAddresses(list) \/ L!AddIPAddresses(list) \/ L!SetRoutes(list)
              \/ L!AddRoutes(list) \/ L!SetIPAddressesForFamily(f, list)
              \/ L!SetRoutesForFamily(f, list)
       PROVE  LUIDInv'
    <2>1. f \in CallFamilies /\ L!AnyFamily \in CallFamilies  BY DEF CallFamilies
    <2> QED
        BY <1>1, <1>11, <2>1, Zenon DEF L!SetIPAddresses, L!AddIPAddresses, L!SetRoutes,
           L!AddRoutes, L!SetIPAddressesForFamily, L!SetRoutesForFamily
<1>12. ASSUME NEW f \in CallFamilies, L!FlushIPAddresses(f) \/ L!FlushRoutes(f)
       PROVE  LUIDInv'
    <2>1. <<>> \in L!Lists
        <3>1. 0 \in 0..MaxList  BY LUIDAssumption
        <3>2. <<>> \in [1..0 -> L!OwnEntries]  OBVIOUS
        <3> QED  BY <3>1, <3>2, Zenon DEF L!Lists
    <2> QED
        BY <1>1, <1>12, <2>1, Zenon DEF L!FlushIPAddresses, L!FlushRoutes
<1>13. ASSUME NEW f, L!FlushDNS(f) PROVE FALSE
    BY <1>8, <1>13, Zenon DEF L!FlushDNS
<1>14. L!Families # {}  BY DEF L!Families
<1> QED
    BY <1>2, <1>4, <1>5, <1>6, <1>7, <1>8, <1>9, <1>10, <1>11, <1>12, <1>13, <1>14, Zenon
    DEF L!Next, CallFamilies

(* The start of a call on name servers.                                    *)
LEMMA JobBegins ==
    ASSUME LUIDInv, kind = "dns", NEW list \in Seq(Jobs), NEW family \in CallFamilies,
           NEW op \in {"dns", "setup"}, NEW at \in {"dns", "refused"},
           L!Begin(op, at, family, list),
           \A i, j \in Elements(list) : i.family = j.family => i = j,
           at = "dns" => \A j \in Elements(list) : j.family \in L!Families
    PROVE  LUIDInv'
<1>1. /\ call' = [op |-> op, at |-> at, family |-> family, list |-> list, asked |-> list,
                  todo |-> {}, err |-> FALSE]
      /\ UNCHANGED <<kind, dns>>
    BY DEF L!Begin
<1>2. alone' = TRUE  BY Zenon DEF L!Begin
<1>3. call'.at = at /\ call'.list = list /\ call'.asked = list
    BY <1>1
<1>4. call' \in JobCalls
    BY <1>1 DEF JobCalls
<1>5. JobProgress'
    BY <1>3 DEF JobProgress
<1> QED  BY <1>1, <1>2, <1>4, <1>5 DEF JobInv, LUIDInv

(* A call on name servers that fails keeps its invariant, whatever it left *)
(* of the servers.                                                         *)
LEMMA JobFails ==
    ASSUME LUIDInv, kind = "dns", call \in JobCalls, JobProgress, L!Return(TRUE),
           UNCHANGED <<kind, alone>>,
           dns' \in [server : [L!Families -> SUBSET L!Servers],
                     domain : [L!Families -> L!Domains], registers : BOOLEAN]
    PROVE  LUIDInv'
<1>1. PICK b \in BOOLEAN : b = TRUE  OBVIOUS
<1>2. L!Return(b)  BY <1>1, Zenon
<1>3. /\ call' \in JobCalls /\ call'.at = "done" /\ call'.err = b
      /\ call'.list = call.list /\ call'.asked = call.asked
    BY <1>2, JobReturn
<1>4. JobProgress'
    BY <1>1, <1>3 DEF JobProgress
<1> QED  BY <1>3, <1>4 DEF JobInv, LUIDInv

(* The jobs of SetupDNS: at most one for each family.                      *)
LEMMA SetupBegins ==
    ASSUME LUIDInv, kind = "dns", NEW servers \in SUBSET L!Servers, L!SetupDNS(servers)
    PROVE  LUIDInv'
<1> DEFINE one(f) == L!Job(f, L!OfFamily(servers, f), "")
           few(f) == IF L!OfFamily(servers, f) = {} THEN <<>> ELSE <<one(f)>>
<1>1. L!Begin("setup", "dns", L!AnyFamily, few("4") \o few("6"))
    BY Zenon DEF L!SetupDNS
<1>2. \A f \in L!Families : one(f) \in Jobs /\ one(f).family = f
    BY DEF L!Job, Jobs, L!OfFamily, L!Domains, CallFamilies
<1> HIDE DEF one
<1>3. \A f \in L!Families : few(f) \in {<<>>, <<one(f)>>}  OBVIOUS
<1> HIDE DEF few
<1>4. "4" \in L!Families /\ "6" \in L!Families  BY DEF L!Families
<1>5. PICK list : list = few("4") \o few("6")  OBVIOUS
<1>6. ASSUME NEW f \in L!Families
      PROVE  /\ few(f) \in Seq(Jobs) /\ Len(few(f)) \in Nat
             /\ \A k \in 1..Len(few(f)) : few(f)[k] = one(f)
    <2>1. CASE few(f) = <<>>
        BY <2>1
    <2>2. CASE few(f) = <<one(f)>>
        BY <1>2, <2>2
    <2> QED  BY <1>3, <2>1, <2>2
<1>7. list \in Seq(Jobs) /\ Elements(list) \subseteq {one("4"), one("6")}
    <2>1. few("4") \in Seq(Jobs) /\ few("6") \in Seq(Jobs)  BY <1>4, <1>6
    <2>2. list \in Seq(Jobs) /\ Len(list) = Len(few("4")) + Len(few("6"))
        BY <1>5, <2>1
    <2>3. ASSUME NEW k \in 1..Len(list) PROVE list[k] \in {one("4"), one("6")}
        <3>1. CASE k <= Len(few("4"))
            <4>1. list[k] = few("4")[k]  BY <1>5, <2>1, <2>2, <3>1
            <4> QED  BY <1>4, <1>6, <2>2, <3>1, <4>1
        <3>2. CASE ~(k <= Len(few("4")))
            <4>1. /\ list[k] = few("6")[k - Len(few("4"))]
                  /\ k - Len(few("4")) \in 1..Len(few("6"))
                BY <1>4, <1>5, <1>6, <2>1, <2>2, <3>2
            <4> QED  BY <1>4, <1>6, <4>1
        <3> QED  BY <3>1, <3>2
    <2> QED  BY <2>2, <2>3 DEF Elements
<1>8. /\ \A i, j \in Elements(list) : i.family = j.family => i = j
      /\ \A j \in Elements(list) : j.family \in L!Families
    BY <1>2, <1>4, <1>7
<1>9. L!AnyFamily \in CallFamilies  BY DEF CallFamilies
<1> QED  BY <1>1, <1>5, <1>7, <1>8, <1>9, JobBegins

(* The job at hand.                                                        *)
LEMMA AtJob ==
    ASSUME LUIDInv, kind = "dns", call.at \in {"dns", "netsh", "domain"}, call.list # <<>>
    PROVE  /\ call \in JobCalls /\ JobProgress
           /\ call.list \in Seq(Jobs) /\ L!job \in Jobs
           /\ Tail(call.list) \in Seq(Jobs)
           /\ Elements(call.list) = {L!job} \cup Elements(Tail(call.list))
           /\ L!job \in Elements(call.asked) /\ L!job.family \in L!Families
<1>1. call # L!Idle  BY DEF L!Idle
<1>2. call \in JobCalls /\ JobProgress  BY <1>1 DEF LUIDInv, JobInv
<1>3. call.list \in Seq(Jobs)  BY <1>2 DEF JobCalls
<1>4. /\ L!job \in Jobs /\ Tail(call.list) \in Seq(Jobs)
      /\ Elements(call.list) = {L!job} \cup Elements(Tail(call.list))
    BY <1>3, ElementsTail DEF L!job
<1> QED  BY <1>2, <1>3, <1>4 DEF JobProgress

(* A job that is done: its servers are set and the others are left alone.  *)
LEMMA JobDone ==
    ASSUME LUIDInv, kind = "dns", call.at \in {"dns", "domain"}, call.list # <<>>,
           call' = [call EXCEPT !.at = "dns", !.list = Tail(@)],
           UNCHANGED <<kind, alone>>,
           dns' \in [server : [L!Families -> SUBSET L!Servers],
                     domain : [L!Families -> L!Domains], registers : BOOLEAN],
           \A f \in L!Families : f # L!job.family => dns'.server[f] = dns.server[f],
           dns'.server[L!job.family] = L!OfFamily(L!job.servers, L!job.family)
    PROVE  LUIDInv'
<1>1. /\ call \in JobCalls /\ JobProgress
      /\ Tail(call.list) \in Seq(Jobs)
      /\ Elements(call.list) = {L!job} \cup Elements(Tail(call.list))
      /\ L!job \in Elements(call.asked) /\ L!job.family \in L!Families
    BY AtJob
<1>2. /\ call' \in JobCalls /\ call'.at = "dns" /\ call'.list = Tail(call.list)
      /\ call'.asked = call.asked
    BY <1>1 DEF JobCalls
<1>3. ASSUME NEW j \in Elements(call.asked)
      PROVE  j.family \in L!Families /\ (j \in Elements(Tail(call.list)) \/ Served(j)')
    <2>1. j.family \in L!Families /\ (j \in Elements(call.list) \/ Served(j))
        BY <1>1 DEF JobProgress
    <2>2. CASE j.family = L!job.family
        <3>1. j = L!job  BY <1>1, <2>2 DEF JobProgress
        <3> QED  BY <2>1, <3>1 DEF Served
    <2>3. CASE j.family # L!job.family
        <3>1. Served(j) => Served(j)'  BY <2>1, <2>3 DEF Served
        <3> QED  BY <1>1, <2>1, <2>3, <3>1
    <2> QED  BY <2>2, <2>3
<1>4. JobProgress'
    BY <1>1, <1>2, <1>3 DEF JobProgress
<1> QED  BY <1>2, <1>4 DEF LUIDInv, JobInv

(* Every step of a call on name servers keeps the invariant.               *)
LEMMA JobStep ==
    ASSUME LUIDInv, kind = "dns", L!Next
    PROVE  LUIDInv'
<1> DEFINE DNSType == [server : [L!Families -> SUBSET L!Servers],
                       domain : [L!Families -> L!Domains], registers : BOOLEAN]
<1>0. dns \in DNSType  BY DEF LUIDInv, JobInv
<1>1. ASSUME NEW f \in CallFamilies, NEW s \in SUBSET L!Servers, NEW d \in L!Domains,
             L!SetDNS(f, s, d)
      PROVE  LUIDInv'
    <2>1. PICK at \in {"dns", "refused"} :
            /\ at = "dns" => f \in L!Families
            /\ L!Begin("dns", at, f, <<L!Job(f, s, d)>>)
        BY <1>1 DEF L!SetDNS
    <2>2. L!Job(f, s, d) \in Jobs /\ L!Job(f, s, d).family = f  BY DEF L!Job, Jobs
    <2>3. PICK list : list = <<L!Job(f, s, d)>>  OBVIOUS
    <2>4. list \in Seq(Jobs) /\ Elements(list) = {L!Job(f, s, d)}
        BY <2>2, <2>3, ElementsFew
    <2> QED  BY <2>1, <2>2, <2>3, <2>4, JobBegins
<1>2. ASSUME L!RefuseDNS PROVE LUIDInv'
    <2>1. call.at = "refused" /\ UNCHANGED <<kind, dns, alone>>  BY <1>2 DEF L!RefuseDNS
    <2>2. call # L!Idle  BY <2>1 DEF L!Idle
    <2>3. call \in JobCalls /\ JobProgress  BY <2>2 DEF LUIDInv, JobInv
    <2>4. L!Return(TRUE)  BY <1>2, Zenon DEF L!RefuseDNS
    <2> QED  BY <1>0, <2>1, <2>3, <2>4, JobFails
<1>3. ASSUME L!SetInterfaceDnsSettings PROVE LUIDInv'
    <2>0. call.at = "dns" /\ call.list # <<>> /\ UNCHANGED <<kind, alone>>
        BY <1>3 DEF L!SetInterfaceDnsSettings
    <2>1. /\ call \in JobCalls /\ JobProgress /\ L!job \in Jobs /\ L!job.family \in L!Families
        BY <2>0, AtJob
    <2>2. CASE L!Return(TRUE) /\ dns' = dns
        BY <1>0, <2>0, <2>1, <2>2, JobFails
    <2>3. CASE /\ dns' = [dns EXCEPT !.server[L!job.family] = L!OfFamily(L!job.servers, L!job.family),
                                     !.domain[L!job.family] = L!job.domain]
               /\ call' = [call EXCEPT !.list = Tail(@)]
        <3>1. /\ dns' \in DNSType
              /\ \A f \in L!Families : f # L!job.family => dns'.server[f] = dns.server[f]
              /\ dns'.server[L!job.family] = L!OfFamily(L!job.servers, L!job.family)
            BY <1>0, <2>1, <2>3 DEF Jobs, L!OfFamily
        <3>2. call' = [call EXCEPT !.at = "dns", !.list = Tail(@)]
            BY <2>0, <2>1, <2>3 DEF JobCalls
        <3> QED  BY <2>0, <3>1, <3>2, JobDone
    <2>4. CASE L!Goto("netsh") /\ dns' = dns
        <3>1. /\ call' \in JobCalls /\ call'.at = "netsh" /\ call'.list = call.list
              /\ call'.asked = call.asked
            BY <2>1, <2>4 DEF JobCalls, L!Goto
        <3>2. JobProgress'
            BY <2>0, <2>1, <2>4, <3>1 DEF JobProgress, Served
        <3> QED  BY <2>0, <2>4, <3>1, <3>2 DEF LUIDInv, JobInv
    <2> QED  BY <1>3, <2>2, <2>3, <2>4, Zenon DEF L!SetInterfaceDnsSettings
<1>4. ASSUME L!fallbackSetDNSForFamily PROVE LUIDInv'
    <2> DEFINE given == L!OfFamily(L!job.servers, L!job.family)
    <2>0. /\ call.at = "netsh" /\ call.list # <<>> /\ UNCHANGED <<kind, alone>>
        <3>1. call.at = "netsh" /\ UNCHANGED <<kind, alone>>
            BY <1>4 DEF L!fallbackSetDNSForFamily
        <3>2. call # L!Idle  BY <3>1 DEF L!Idle
        <3> QED  BY <3>1, <3>2 DEF LUIDInv, JobInv, JobProgress
    <2>1. /\ call \in JobCalls /\ JobProgress /\ L!job \in Jobs /\ L!job.family \in L!Families
        BY <2>0, AtJob
    <2>2. given \subseteq L!Servers  BY <2>1 DEF Jobs, L!OfFamily
    <2>3. \A some \in SUBSET L!Servers : [dns EXCEPT !.server[L!job.family] = some] \in DNSType
        BY <1>0, <2>1
    <2>4. ASSUME L!Return(TRUE), NEW some \in (SUBSET given) \cup {dns.server[L!job.family]},
                 dns' = [dns EXCEPT !.server[L!job.family] = some]
          PROVE  LUIDInv'
        <3>1. some \in SUBSET L!Servers  BY <1>0, <2>1, <2>2
        <3>2. dns' \in DNSType  BY <2>3, <2>4, <3>1
        <3> QED  BY <2>0, <2>1, <2>4, <3>2, JobFails
    <2>5. CASE L!Goto("domain") /\ dns' = [dns EXCEPT !.server[L!job.family] = given]
        <3>1. /\ call' \in JobCalls /\ call'.at = "domain" /\ call'.list = call.list
              /\ call'.asked = call.asked
            BY <2>1, <2>5 DEF JobCalls, L!Goto
        <3>2. dns' \in DNSType  BY <2>2, <2>3, <2>5
        <3>3. /\ dns'.server[L!job.family] = given
              /\ \A f \in L!Families : f # L!job.family => dns'.server[f] = dns.server[f]
            BY <1>0, <2>1, <2>5
        <3>4. Served(Head(call.list))'
            BY <3>1, <3>3 DEF Served, L!job
        <3>5. ASSUME NEW j \in Elements(call.asked), Served(j) PROVE Served(j)'
            <4>1. j.family = L!job.family => j = L!job  BY <2>0, AtJob DEF JobProgress
            <4>2. j.family \in L!Families  BY <2>0, <2>1 DEF JobProgress
            <4> QED  BY <3>3, <3>5, <4>1, <4>2 DEF Served
        <3>6. JobProgress'
            BY <2>0, <2>1, <3>1, <3>4, <3>5 DEF JobProgress
        <3> QED  BY <2>0, <3>1, <3>2, <3>6 DEF LUIDInv, JobInv
    <2> QED  BY <1>4, <2>4, <2>5, Zenon DEF L!fallbackSetDNSForFamily
<1>5. ASSUME L!fallbackSetDNSDomain PROVE LUIDInv'
    <2>0. /\ call.at = "domain" /\ call.list # <<>> /\ UNCHANGED <<kind, alone>>
          /\ Served(L!job)
        <3>1. call.at = "domain" /\ UNCHANGED <<kind, alone>>
            BY <1>5 DEF L!fallbackSetDNSDomain
        <3>2. call # L!Idle  BY <3>1 DEF L!Idle
        <3> QED  BY <3>1, <3>2 DEF LUIDInv, JobInv, JobProgress, L!job
    <2>1. /\ call \in JobCalls /\ JobProgress /\ L!job \in Jobs /\ L!job.family \in L!Families
        BY <2>0, AtJob
    <2>2. CASE L!Return(TRUE) /\ dns' = dns
        BY <1>0, <2>0, <2>1, <2>2, JobFails
    <2>3. CASE /\ dns' = [dns EXCEPT !.domain = [f \in L!Families |-> L!job.domain]]
               /\ call' = [call EXCEPT !.at = "dns", !.list = Tail(@)]
        <3>1. dns' \in DNSType /\ dns'.server = dns.server
            BY <1>0, <2>1, <2>3 DEF Jobs
        <3> QED  BY <2>0, <2>3, <3>1, JobDone DEF Served
    <2> QED  BY <1>5, <2>2, <2>3, Zenon DEF L!fallbackSetDNSDomain
<1>6. ASSUME L!DNSEnds PROVE LUIDInv'
    <2>0. call.at = "dns" /\ call.list = <<>> /\ UNCHANGED <<kind, dns, alone>>
        BY <1>6 DEF L!DNSEnds
    <2>1. call # L!Idle  BY <2>0 DEF L!Idle
    <2>2. call \in JobCalls /\ JobProgress  BY <2>1 DEF LUIDInv, JobInv
    <2>3. PICK err \in BOOLEAN : L!Return(err)  BY <1>6 DEF L!DNSEnds
    <2>4. /\ call' \in JobCalls /\ call'.at = "done" /\ call'.list = call.list
          /\ call'.asked = call.asked
        BY <2>2, <2>3, JobReturn
    <2>5. Elements(call.list) = {}  BY <2>0, ElementsFew
    <2>6. JobProgress'
        BY <2>0, <2>2, <2>4, <2>5 DEF JobProgress, Served
    <2> QED  BY <2>0, <2>4, <2>6 DEF LUIDInv, JobInv
<1>7. ASSUME L!DisableDNSRegistration PROVE LUIDInv'
    <2>1. /\ UNCHANGED <<kind, alone>> /\ call' = L!Idle
          /\ dns' = [dns EXCEPT !.registers = FALSE]
        BY <1>7 DEF L!DisableDNSRegistration
    <2>2. dns' \in DNSType  BY <1>0, <2>1
    <2> QED  BY <2>1, <2>2 DEF LUIDInv, JobInv, L!Idle
<1>8. ASSUME L!Done PROVE LUIDInv'
    BY <1>8 DEF L!Done, LUIDInv, JobInv, L!Idle
<1>9. /\ ~(L!GetTable \/ L!FlushEnds \/ L!AddIPAddress \/ L!AddRoute \/ L!AddEnds
            \/ L!GetRow \/ L!DeleteRow)
      /\ \A e : ~(L!FlushRow(e) \/ L!Interfere(e))
    <2>1. call.at \notin {"table", "flush", "add", "get", "delete"}
        BY DEF LUIDInv, JobInv, JobCalls, L!Idle
    <2> QED
        BY <2>1 DEF L!GetTable, L!FlushEnds, L!AddIPAddress, L!AddRoute, L!AddEnds, L!GetRow,
           L!DeleteRow, L!FlushRow, L!Interfere
<1>10. \A k, op, at, f, list : L!BeginOn(k, op, at, f, list) => k = "dns"
    BY DEF L!BeginOn
<1>11. /\ \A list : ~(L!SetIPAddresses(list) \/ L!AddIPAddresses(list) \/ L!SetRoutes(list)
                       \/ L!AddRoutes(list))
       /\ \A f, list : ~(L!SetIPAddressesForFamily(f, list) \/ L!SetRoutesForFamily(f, list))
       /\ \A f : ~(L!FlushIPAddresses(f) \/ L!FlushRoutes(f))
       /\ \A e : ~(L!DeleteIPAddress(e) \/ L!DeleteRoute(e))
    BY <1>10 DEF L!SetIPAddresses, L!AddIPAddresses, L!SetRoutes, L!AddRoutes,
       L!SetIPAddressesForFamily, L!SetRoutesForFamily, L!FlushIPAddresses, L!FlushRoutes,
       L!DeleteIPAddress, L!DeleteRoute
<1>12. ASSUME NEW f \in CallFamilies, L!FlushDNS(f) PROVE LUIDInv'
    BY <1>1, <1>12 DEF L!FlushDNS, L!Domains
<1> QED
    BY <1>1, <1>2, <1>3, <1>4, <1>5, <1>6, <1>7, <1>8, <1>9, <1>11, <1>12, SetupBegins, Zenon
    DEF L!Next, CallFamilies

(* The invariant of LUID holds of every reachable state.                   *)
LEMMA LUIDInvariant == L!Spec => []LUIDInv
<1>1. L!Init => LUIDInv
    <2> SUFFICES ASSUME L!Init PROVE LUIDInv  OBVIOUS
    <2>1. /\ kind \in {"address", "route", "dns"} /\ call = L!Idle
          /\ kind # "dns" => rows \subseteq Entries
        BY DEF L!Init
    <2>2. alone = TRUE  BY Zenon DEF L!Init
    <2>3. PICK b \in BOOLEAN : b = TRUE  OBVIOUS
    <2>4. dns = [server |-> [f \in L!Families |-> {}], domain |-> [f \in L!Families |-> ""],
                 registers |-> b]
        BY <2>3, Zenon DEF L!Init
    <2>5. dns \in [server : [L!Families -> SUBSET L!Servers],
                   domain : [L!Families -> L!Domains], registers : BOOLEAN]
        BY <2>4 DEF L!Domains
    <2> QED  BY <2>1, <2>2, <2>5 DEF LUIDInv, EntryInv, JobInv
<1>2. ASSUME LUIDInv, [L!Next]_L!vars PROVE LUIDInv'
    <2>1. CASE L!Next
        BY <1>2, <2>1, EntryStep, JobStep
    <2>2. CASE UNCHANGED L!vars
        BY <1>2, <2>2 DEF L!vars, LUIDInv, EntryInv, JobInv, EntryProgress, JobProgress, Mine,
           Served, L!Idle
    <2> QED  BY <1>2, <2>1, <2>2
<1> QED  BY <1>1, <1>2, PTL DEF L!Spec

(* A method of LUID that returns nil did what it was asked: for any rows   *)
(* of any interfaces, whatever calls failed before and whatever the others *)
(* do to other interfaces.                                                 *)
THEOREM SetMeansWhatItSays == L!Spec => []SetMeansSet
<1>1. ASSUME LUIDInv PROVE SetMeansSet
    <2> SUFFICES ASSUME call.at = "done", ~call.err
                 PROVE  /\ call.op \in {"set", "add"} /\ alone =>
                             {e \in L!Asked : L!In(call.family, e)} \subseteq Mine
                        /\ call.op = "set" /\ kind = "route" /\ alone =>
                             Mine = {e \in L!Asked : L!In(call.family, e)}
                        /\ call.op = "delete" /\ alone => L!Asked \cap rows = {}
                        /\ call.op \in {"dns", "setup"} =>
                             \A j \in L!Asked : Served(j)
        BY Zenon DEF SetMeansSet, L!SetMeansSet, Mine, Served
    <2>1. L!Asked = Elements(call.asked)  BY DEF L!Asked, Elements
    <2>2. call # L!Idle  BY DEF L!Idle
    <2>3. CASE kind # "dns"
        <3>1. call \in EntryCalls /\ EntryProgress  BY <1>1, <2>2, <2>3 DEF LUIDInv, EntryInv
        <3>2. Elements(call.asked) \subseteq L!OwnEntries  BY <3>1, ElementsIn DEF EntryCalls
        <3>3. call.op \notin {"dns", "setup"}  BY <3>1 DEF EntryCalls
        <3> QED  BY <2>1, <3>1, <3>2, <3>3 DEF EntryProgress, Mine, L!OwnEntries
    <2>4. CASE kind = "dns"
        <3>1. call \in JobCalls /\ JobProgress  BY <1>1, <2>2, <2>4 DEF LUIDInv, JobInv
        <3>2. call.op \in {"dns", "setup"}  BY <3>1 DEF JobCalls
        <3> QED  BY <2>1, <3>1, <3>2 DEF JobProgress
    <2> QED  BY <2>3, <2>4
<1> QED  BY <1>1, LUIDInvariant, PTL

(* A step of a call changes rows of its own interface and family only, and *)
(* the name servers of its own family only, however old the copy of the    *)
(* table is that a flush walks.                                            *)
THEOREM OthersAreSafe == L!Spec => OthersUntouched
<1>1. ASSUME LUIDInv, [L!Next]_L!vars PROVE [L!ChangesOwnOnly]_L!vars
    <2> SUFFICES ASSUME L!Next, call' # call PROVE L!ChangesOwnOnly
        BY <1>1 DEF L!ChangesOwnOnly
    <2>1. ASSUME UNCHANGED <<rows, dns>> PROVE L!ChangesOwnOnly
        BY <2>1, Zenon DEF L!ChangesOwnOnly
    <2>2. ASSUME NEW e \in Entries, e.luid = Own, L!In(call.family, e), UNCHANGED dns,
                 rows' \in {rows, rows \ {e}, rows \cup {e}}
          PROVE  L!ChangesOwnOnly
        <3>1. \A d \in Entries : d # e => (d \in rows' <=> d \in rows)  BY <2>2
        <3>2. \A d \in Entries : (d \in rows) # (d \in rows') => d = e  BY <3>1
        <3>3. \A f \in L!Families : dns'.server[f] = dns.server[f]  BY <2>2
        <3> QED  BY <2>2, <3>2, <3>3, Zenon DEF L!ChangesOwnOnly
    <2>3. ASSUME NEW e \in Entries, L!FlushRow(e) PROVE L!ChangesOwnOnly
        <3>1. /\ call.at = "flush" /\ e \in call.todo /\ UNCHANGED <<kind, dns>>
              /\ rows' \in {rows, rows \ {e}} /\ (e.luid # Own => rows' = rows)
            BY <2>3 DEF L!FlushRow
        <3>2. call # L!Idle  BY <3>1 DEF L!Idle
        <3>3. kind # "dns"  BY <1>1, <3>1, <3>2 DEF LUIDInv, JobInv, JobCalls
        <3>4. L!In(call.family, e)
            BY <1>1, <3>1, <3>2, <3>3 DEF LUIDInv, EntryInv, EntryProgress
        <3> QED  BY <2>1, <2>2, <3>1, <3>4
    <2>4. ASSUME L!AddIPAddress \/ L!AddRoute PROVE L!ChangesOwnOnly
        <3>0. L!AddEntry  BY <2>4 DEF L!AddIPAddress, L!AddRoute
        <3>1. /\ call.at = "add" /\ call.list # <<>> /\ UNCHANGED <<kind, dns>>
              /\ \/ rows' = rows
                 \/ L!In(call.family, Head(call.list)) /\ rows' = rows \cup {Head(call.list)}
            BY <3>0 DEF L!AddEntry
        <3>2. call # L!Idle  BY <3>1 DEF L!Idle
        <3>3. kind # "dns"  BY <1>1, <3>1, <3>2 DEF LUIDInv, JobInv, JobCalls
        <3>4. call.list \in Seq(L!OwnEntries)
            BY <1>1, <3>2, <3>3 DEF LUIDInv, EntryInv, EntryCalls
        <3>5. Head(call.list) \in Entries /\ Head(call.list).luid = Own
            BY <3>1, <3>4, ElementsTail DEF L!OwnEntries
        <3> QED  BY <2>1, <2>2, <3>1, <3>5
    <2>5. ASSUME L!DeleteRow PROVE L!ChangesOwnOnly
        <3>1. /\ call.at = "delete" /\ UNCHANGED <<kind, dns>>
              /\ rows' \in {rows, rows \ {Head(call.list)}}
            BY <2>5 DEF L!DeleteRow
        <3>2. call # L!Idle  BY <3>1 DEF L!Idle
        <3>3. kind # "dns"  BY <1>1, <3>1, <3>2 DEF LUIDInv, JobInv, JobCalls
        <3>4. call \in EntryCalls /\ EntryProgress
            BY <1>1, <3>2, <3>3 DEF LUIDInv, EntryInv
        <3>5. call.op = "delete"  BY <3>1, <3>4 DEF EntryProgress, EntryCalls
        <3>6. /\ call.list \in Seq(L!OwnEntries) /\ call.list # <<>>
              /\ call.family = L!AnyFamily
            BY <3>4, <3>5 DEF EntryProgress, EntryCalls
        <3>7. Head(call.list) \in Entries /\ Head(call.list).luid = Own
            BY <3>6, ElementsTail DEF L!OwnEntries
        <3>8. L!In(call.family, Head(call.list))  BY <3>6 DEF L!In
        <3> QED  BY <2>2, <3>1, <3>7, <3>8
    <2>6. ASSUME UNCHANGED rows,
                 \A f \in L!Families : f # L!job.family => dns'.server[f] = dns.server[f]
          PROVE  L!ChangesOwnOnly
        BY <2>6, Zenon DEF L!ChangesOwnOnly
    <2>7. ASSUME L!SetInterfaceDnsSettings \/ L!fallbackSetDNSForFamily
                   \/ L!fallbackSetDNSDomain
          PROVE  L!ChangesOwnOnly
        <3>1. call.at \in {"dns", "netsh", "domain"} /\ UNCHANGED rows
            BY <2>7 DEF L!SetInterfaceDnsSettings, L!fallbackSetDNSForFamily,
               L!fallbackSetDNSDomain
        <3>2. call # L!Idle  BY <3>1 DEF L!Idle
        <3>3. kind = "dns"  BY <1>1, <3>1, <3>2 DEF LUIDInv, EntryInv, EntryCalls
        <3>4. dns \in [server : [L!Families -> SUBSET L!Servers],
                       domain : [L!Families -> L!Domains], registers : BOOLEAN]
            BY <1>1, <3>3 DEF LUIDInv, JobInv
        <3>5. \A f \in L!Families : f # L!job.family => dns'.server[f] = dns.server[f]
            <4>1. \/ dns' = dns
                  \/ \E x, y : dns' = [dns EXCEPT !.server[L!job.family] = x,
                                               !.domain[L!job.family] = y]
                  \/ \E x : dns' = [dns EXCEPT !.server[L!job.family] = x]
                  \/ \E y : dns' = [dns EXCEPT !.domain = y]
                BY <2>7, Zenon DEF L!SetInterfaceDnsSettings, L!fallbackSetDNSForFamily,
                   L!fallbackSetDNSDomain
            <4> QED  BY <3>4, <4>1
        <3> QED  BY <2>6, <3>1, <3>5
    <2>8. ASSUME NEW op, NEW at, NEW f, NEW list, L!Begin(op, at, f, list)
          PROVE  UNCHANGED <<rows, dns>>
        BY <2>8 DEF L!Begin
    <2>9. /\ \A list : L!SetIPAddresses(list) \/ L!AddIPAddresses(list) \/ L!SetRoutes(list)
                         \/ L!AddRoutes(list) => UNCHANGED <<rows, dns>>
          /\ \A f, list : L!SetIPAddressesForFamily(f, list) \/ L!SetRoutesForFamily(f, list)
                            => UNCHANGED <<rows, dns>>
          /\ \A f : L!FlushIPAddresses(f) \/ L!FlushRoutes(f) => UNCHANGED <<rows, dns>>
          /\ \A e : L!DeleteIPAddress(e) \/ L!DeleteRoute(e) => UNCHANGED <<rows, dns>>
        BY <2>8, Zenon DEF L!SetIPAddresses, L!AddIPAddresses, L!SetRoutes, L!AddRoutes,
           L!SetIPAddressesForFamily, L!SetRoutesForFamily, L!FlushIPAddresses,
           L!FlushRoutes, L!DeleteIPAddress, L!DeleteRoute, L!BeginOn
    <2>10. /\ \A f, s, d : L!SetDNS(f, s, d) => UNCHANGED <<rows, dns>>
           /\ \A f : L!FlushDNS(f) => UNCHANGED <<rows, dns>>
           /\ \A s : L!SetupDNS(s) => UNCHANGED <<rows, dns>>
        BY <2>8, Zenon DEF L!SetDNS, L!FlushDNS, L!SetupDNS
    <2>11. L!GetTable \/ L!FlushEnds \/ L!AddEnds \/ L!GetRow \/ L!RefuseDNS \/ L!DNSEnds
             \/ L!Done => UNCHANGED <<rows, dns>>
        BY DEF L!GetTable, L!FlushEnds, L!AddEnds, L!GetRow, L!RefuseDNS, L!DNSEnds, L!Done
    <2>12. ~L!DisableDNSRegistration /\ \A e : ~L!Interfere(e)
        BY DEF L!DisableDNSRegistration, L!Interfere
    <2> QED
        BY <2>1, <2>3, <2>4, <2>5, <2>7, <2>9, <2>10, <2>11, <2>12, Zenon DEF L!Next
<1>2. UNCHANGED L!vars => UNCHANGED luidVars  BY DEF L!vars, luidVars
<1>3. LUIDInv /\ [L!Next]_L!vars => [L!ChangesOwnOnly]_luidVars
    BY <1>1, <1>2
<1> QED  BY <1>3, LUIDInvariant, PTL DEF L!Spec, OthersUntouched
=============================================================================
