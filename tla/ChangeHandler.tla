---------------------------- MODULE ChangeHandler ----------------------------
(***************************************************************************)
(* Registration of change callbacks (internal/winipcfg).  The interface,   *)
(* route and unicast address handlers are the same code three times over;  *)
(* this is each of them.  Clients register and unregister callbacks, the   *)
(* operating system delivers notifications, and every notification runs    *)
(* each registered callback in a goroutine of its own.  Two mutexes guard  *)
(* the table: AddRemoveMutex for the whole of Register and Unregister, and *)
(* Mutex for the accesses to the map, which the notification also takes.   *)
(*                                                                         *)
(* The notification service of the operating system is modelled from how   *)
(* the code uses it: cancelling waits for the notifications in progress.   *)
(* Callbacks do not call Register or Unregister (that would deadlock, see  *)
(* the README) and return.                                                 *)
(***************************************************************************)
EXTENDS Integers, FiniteSets

CONSTANTS
    Clients,        \* goroutines that register and unregister
    Notifiers,      \* operating system threads that deliver notifications
    Callbacks,      \* the *ChangeCallback structs that Register can return
    NoOne,          \* nobody holds the mutex
    MaxInFlight     \* bound: goroutines of one callback at the same time

ASSUME ChangeAssumption ==
    /\ NoOne \notin Clients \cup Notifiers
    /\ Clients \cap Notifiers = {}
    /\ Callbacks # {}
    /\ MaxInFlight \in Nat \ {0}

VARIABLES
    pc,             \* where each client is
    arg,            \* the callback the client works on
    removeIt,       \* its local variable of that name
    callbacks,      \* the keys of the map of callbacks
    handle,         \* TRUE when the notification handle is not 0
    addRemove,      \* holder of AddRemoveMutex
    mutex,          \* holder of Mutex
    todo,           \* callbacks a notification has still to start
    delivering,     \* where each notification is
    wait,           \* the WaitGroup of each callback
    inCb,           \* goroutines that run each callback's function
    owned,          \* structs handed to a client by Register
    retired         \* structs whose Unregister has returned since

client == <<pc, arg, removeIt>>
table == <<callbacks, handle>>
locks == <<addRemove, mutex>>
notify == <<todo, delivering>>
running == <<wait, inCb>>
history == <<owned, retired>>
vars == <<client, table, locks, notify, running, history>>

(* Value of arg before its first use.                                      *)
AnyCallback == CHOOSE s \in Callbacks : TRUE

Init ==
    /\ pc = [t \in Clients |-> "idle"]
    /\ arg = [t \in Clients |-> AnyCallback]
    /\ removeIt = [t \in Clients |-> FALSE]
    /\ callbacks = {}
    /\ handle = FALSE
    /\ addRemove = NoOne
    /\ mutex = NoOne
    /\ todo = [n \in Notifiers |-> {}]
    /\ delivering = [n \in Notifiers |-> "idle"]
    /\ wait = [s \in Callbacks |-> 0]
    /\ inCb = [s \in Callbacks |-> 0]
    /\ owned = {}
    /\ retired = {}

(***************************************************************************)
(* Register.                                                               *)
(***************************************************************************)
(* A new struct for the callback function, in every call, also for a       *)
(* function that is registered; then AddRemoveMutex.Lock().                *)
RegisterLock(t, s) ==
    /\ pc[t] = "idle"
    /\ addRemove = NoOne
    /\ s \notin owned
    /\ addRemove' = t
    /\ pc' = [pc EXCEPT ![t] = "register"]
    /\ arg' = [arg EXCEPT ![t] = s]
    /\ UNCHANGED <<removeIt, callbacks, handle, mutex, notify, running, history>>

(* Under both mutexes: enter the callback, subscribe if there is no handle *)
(* yet, take the callback out again when that fails.                       *)
RegisterKeepOnError(t) ==
    /\ pc[t] = "register"
    /\ mutex = NoOne
    /\ callbacks' = callbacks \cup {arg[t]}
    /\ \/ handle' = TRUE /\ owned' = owned \cup {arg[t]}
       \/ ~handle /\ UNCHANGED <<handle, owned>>
    /\ addRemove' = NoOne
    /\ pc' = [pc EXCEPT ![t] = "idle"]
    /\ UNCHANGED <<arg, removeIt, mutex, notify, running, retired>>

Register(t) ==
    /\ pc[t] = "register"
    /\ mutex = NoOne
    /\ \/ /\ callbacks' = callbacks \cup {arg[t]}
          /\ handle' = TRUE
          /\ owned' = owned \cup {arg[t]}
       \/ /\ ~handle                    \* notifyIPInterfaceChange failed
          /\ UNCHANGED <<callbacks, handle, owned>>
    /\ addRemove' = NoOne
    /\ pc' = [pc EXCEPT ![t] = "idle"]
    /\ UNCHANGED <<arg, removeIt, mutex, notify, running, retired>>

(***************************************************************************)
(* Unregister.                                                             *)
(***************************************************************************)
(* AddRemoveMutex.Lock(), also on a callback that was unregistered before. *)
UnregisterLock(t, s) ==
    /\ pc[t] = "idle"
    /\ addRemove = NoOne
    /\ s \in owned
    /\ addRemove' = t
    /\ pc' = [pc EXCEPT ![t] = "unregister"]
    /\ arg' = [arg EXCEPT ![t] = s]
    /\ UNCHANGED <<removeIt, table, mutex, notify, running, history>>

(* Under Mutex: delete the callback and decide whether it was the last.    *)
Unregister(t) ==
    /\ pc[t] = "unregister"
    /\ mutex = NoOne
    /\ callbacks' = callbacks \ {arg[t]}
    /\ removeIt' = [removeIt EXCEPT ![t] = (callbacks' = {} /\ handle)]
    /\ pc' = [pc EXCEPT ![t] = "wait"]
    /\ UNCHANGED <<arg, handle, locks, notify, running, history>>

(* Return and the deferred AddRemoveMutex.Unlock().                        *)
UnregisterReturn(t) ==
    /\ pc' = [pc EXCEPT ![t] = "idle"]
    /\ addRemove' = NoOne
    /\ retired' = retired \cup {arg[t]}
    /\ UNCHANGED <<arg, removeIt, callbacks, mutex, notify, running, owned>>

(* callback.wait.Wait(), and return if the handle stays.                   *)
UnregisterWaitDropped(t) ==
    /\ pc[t] = "wait"
    /\ IF removeIt[t]
         THEN /\ pc' = [pc EXCEPT ![t] = "cancel"]
              /\ UNCHANGED <<arg, removeIt, table, locks, notify, running, history>>
         ELSE UnregisterReturn(t) /\ UNCHANGED handle

UnregisterWaitAll(t) ==
    /\ pc[t] = "wait"
    /\ \A s \in Callbacks : wait[s] = 0
    /\ IF removeIt[t]
         THEN /\ pc' = [pc EXCEPT ![t] = "cancel"]
              /\ UNCHANGED <<arg, removeIt, table, locks, notify, running, history>>
         ELSE UnregisterReturn(t) /\ UNCHANGED handle

UnregisterWait(t) ==
    /\ pc[t] = "wait"
    /\ wait[arg[t]] = 0
    /\ IF removeIt[t]
         THEN /\ pc' = [pc EXCEPT ![t] = "cancel"]
              /\ UNCHANGED <<arg, removeIt, table, locks, notify, running, history>>
         ELSE UnregisterReturn(t) /\ UNCHANGED handle

(* cancelMibChangeNotify2 returns when no notification is in progress; on  *)
(* an error the handle stays for the next time.                            *)
UnregisterCancel(t) ==
    /\ pc[t] = "cancel"
    /\ \A n \in Notifiers : delivering[n] = "idle"
    /\ handle' \in BOOLEAN
    /\ UnregisterReturn(t)

(***************************************************************************)
(* A notification: interfaceChanged, routeChanged, unicastAddressChanged.  *)
(***************************************************************************)
(* The operating system starts one while the handle is subscribed and not  *)
(* being cancelled.                                                        *)
NotifyStart(n) ==
    /\ delivering[n] = "idle"
    /\ handle
    /\ \A t \in Clients : pc[t] # "cancel"
    /\ delivering' = [delivering EXCEPT ![n] = "lock"]
    /\ UNCHANGED <<client, table, locks, todo, running, history>>

(* Mutex.Lock() and the range over the map.                                *)
NotifyLock(n) ==
    /\ delivering[n] = "lock"
    /\ mutex = NoOne
    /\ mutex' = n
    /\ delivering' = [delivering EXCEPT ![n] = "range"]
    /\ todo' = [todo EXCEPT ![n] = callbacks]
    /\ UNCHANGED <<client, table, addRemove, running, history>>

(* cb.wait.Add(1) and the goroutine that runs cb.cb.                       *)
NotifyGo(n, s) ==
    /\ s \in todo[n]
    /\ wait[s] < MaxInFlight
    /\ wait' = [wait EXCEPT ![s] = @ + 1]
    /\ inCb' = [inCb EXCEPT ![s] = @ + 1]
    /\ todo' = [todo EXCEPT ![n] = @ \ {s}]
    /\ UNCHANGED <<client, table, locks, delivering, history>>

(* Mutex.Unlock() and return.                                              *)
NotifyUnlock(n) ==
    /\ delivering[n] = "range"
    /\ todo[n] = {}
    /\ mutex' = NoOne
    /\ delivering' = [delivering EXCEPT ![n] = "idle"]
    /\ UNCHANGED <<client, table, addRemove, todo, running, history>>

(* The goroutine: the callback function returns ...                        *)
CallbackReturn(s) ==
    /\ inCb[s] > 0
    /\ inCb' = [inCb EXCEPT ![s] = @ - 1]
    /\ UNCHANGED <<client, table, locks, notify, wait, history>>

(* ... and then cb.wait.Done().                                            *)
CallbackDone(s) ==
    /\ wait[s] > inCb[s]
    /\ wait' = [wait EXCEPT ![s] = @ - 1]
    /\ UNCHANGED <<client, table, locks, notify, inCb, history>>

ClientStep(t) ==
    Register(t) \/ Unregister(t) \/ UnregisterWait(t) \/ UnregisterCancel(t)

NotifierStep(n) ==
    NotifyLock(n) \/ (\E s \in Callbacks : NotifyGo(n, s)) \/ NotifyUnlock(n)

Next ==
    \/ \E t \in Clients, s \in Callbacks :
         UnregisterLock(t, s) \/ RegisterLock(t, s)
    \/ \E t \in Clients : ClientStep(t)
    \/ \E n \in Notifiers : NotifyStart(n) \/ NotifierStep(n)
    \/ \E s \in Callbacks : CallbackReturn(s) \/ CallbackDone(s)

(* Every goroutine is scheduled, callbacks return, and a goroutine waiting *)
(* for a Go mutex gets it in the end (starvation mode hands it over), so   *)
(* the steps that take Mutex are strongly fair.                            *)
Fairness ==
    /\ \A t \in Clients : SF_vars(ClientStep(t))
    /\ \A n \in Notifiers : SF_vars(NotifierStep(n))
    /\ \A s \in Callbacks : WF_vars(CallbackReturn(s)) /\ WF_vars(CallbackDone(s))

Spec == Init /\ [][Next]_vars
FairSpec == Spec /\ Fairness

-----------------------------------------------------------------------------
(***************************************************************************)
(* Properties                                                              *)
(***************************************************************************)
(* Type invariant.  No WaitGroup of a callback goes below the number of    *)
(* its goroutines that still run the function.                             *)
TypeOK ==
    /\ pc \in [Clients -> {"idle", "register", "unregister", "wait", "cancel"}]
    /\ arg \in [Clients -> Callbacks]
    /\ removeIt \in [Clients -> BOOLEAN]
    /\ callbacks \subseteq Callbacks
    /\ handle \in BOOLEAN
    /\ addRemove \in Clients \cup {NoOne}
    /\ mutex \in Notifiers \cup {NoOne}
    /\ todo \in [Notifiers -> SUBSET Callbacks]
    /\ delivering \in [Notifiers -> {"idle", "lock", "range"}]
    /\ wait \in [Callbacks -> Nat]
    /\ inCb \in [Callbacks -> Nat]
    /\ \A s \in Callbacks : inCb[s] <= wait[s]
    /\ owned \subseteq Callbacks
    /\ retired \subseteq owned

(* Once Unregister has returned, no goroutine runs the callback's function *)
(* and no notification in progress is going to start one.                  *)
QuietAfterUnregister ==
    \A s \in retired :
        inCb[s] = 0 /\ \A n \in Notifiers : s \notin todo[n]

(* As long as a callback is registered the handle is subscribed: neither a *)
(* failed Register nor an Unregister racing a Register leaves callbacks    *)
(* nobody will ever call.                                                  *)
RegisteredIsSubscribed == callbacks # {} => handle

(* The rule sync.WaitGroup imposes on Add: while an Unregister waits for a *)
(* callback, no notification adds to that callback's group.                *)
NoAddDuringWait ==
    [][\A t \in Clients :
         pc[t] = "wait" => wait'[arg[t]] <= wait[arg[t]]]_vars

(* Unregister returns, however notifications and other clients interleave. *)
UnregisterReturns ==
    \A t \in Clients : pc[t] = "unregister" ~> pc[t] = "idle"
=============================================================================
