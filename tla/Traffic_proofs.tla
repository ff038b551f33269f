--------------------------- MODULE Traffic_proofs ---------------------------
(***************************************************************************)
(* Proofs about the ways that packets take: the stack (GVisorStack), for   *)
(* any flows, any number of connections and any limit of the TCP           *)
(* forwarder; the relay behind it (Relay), for any number of packets; the  *)
(* vectorised writers (VectorisedWriter) through which the stack writes to *)
(* the device, for any goroutines, arrays and parts of a packet; and the   *)
(* buffers that carry the bytes (Buffer, BufAllocator), for any number of  *)
(* buffers and arrays of any length, any bytes, and every size that is     *)
(* asked for.  The four share no state.                                    *)
(***************************************************************************)
EXTENDS GVisorStack, MCTraffic, MCBuffer, Integers, Sequences, FiniteSetTheorems,
        SequenceTheorems, TLAPS

-----------------------------------------------------------------------------
(***************************************************************************)
(* The stack: the inductive invariant.                                     *)
(***************************************************************************)
Forwarding == {"create", "complete", "addr"}

Types ==
    /\ packet \in Flows \cup {Other, None}
    /\ loop = "deliver" => packet \in Flows
    /\ late \in Nat
    /\ demux \in [Flows -> Conns \cup {None}]
    /\ cpc \in [Conns -> Forwarding \cup {"unused", "handle", "close", "done"}]
    /\ flow \in [Conns -> Flows \cup {None}]
    /\ ep \in [Conns -> {"none", "open", "closing", "closed", "aborted"}]
    /\ once \in [Conns -> BOOLEAN]
    /\ closes \in [Conns -> Nat]
    /\ young \in [Conns -> BOOLEAN]

(* Where the goroutine of a connection is tells what became of it.  The    *)
(* once closer has run exactly when the underlying Close was called, until *)
(* the goroutine is done.                                                  *)
ConnInv ==
    \A c \in Conns :
      /\ cpc[c] # "unused" => flow[c] \in Flows
      /\ cpc[c] \in Forwarding => flow[c] \in TCPFlows
      /\ cpc[c] \in {"unused", "create"} => ep[c] = "none"
      /\ cpc[c] \in Forwarding \cup {"unused"} => ~once[c]
      /\ cpc[c] # "done" => closes[c] = IF once[c] THEN 1 ELSE 0
      /\ closes[c] <= 1
      /\ once[c] \/ cpc[c] = "done" => ep[c] # "open"

(* An endpoint that is alive can be found in the demultiplexer, so that    *)
(* stack.Close() finds all of them.                                        *)
DemuxInv == \A c \in Conns : ep[c] \in {"open", "closing"} => Registered(c)

(* Before the stack is detached nothing is late; after that the loop holds *)
(* a dispatcher at most as long as nothing was.                            *)
LateInv ==
    /\ ctl = "createNIC" => loop = "none"
    /\ ctl \in {"tcp", "udp", "started", "detach"} => dispatcher # "nil"
    /\ dispatcher # "nil" \/ loop \in {"none", "deliver"} => late = 0
    /\ late <= 1

(* What stack.Close() has left open was created after it, and what the     *)
(* aborts have left was too.                                               *)
YoungInv ==
    /\ AfterStackClose => \A c \in Conns : ep[c] = "open" => young[c]
    /\ OnlyYoungSurvive

StackInv == Types /\ ConnInv /\ DemuxInv /\ LateInv /\ YoungInv

(* Before Start nothing is there.                                          *)
THEOREM StackInit == Init => StackInv
<1> SUFFICES ASSUME Init PROVE StackInv  OBVIOUS
<1>1. Types  BY DEF Init, Types, Forwarding
<1>2. ConnInv /\ DemuxInv  BY StackAssumption DEF Init, ConnInv, DemuxInv, Forwarding
<1>3. LateInv /\ YoungInv  BY DEF Init, LateInv, YoungInv, OnlyYoungSurvive, AfterStackClose
<1> QED  BY <1>1, <1>2, <1>3 DEF StackInv

(* Start and Close, which leave the goroutines of the connections alone.   *)
LEMMA ControlSteps ==
    ASSUME StackInv,
           \/ StartCreateNIC \/ StartTCP \/ StartUDP \/ CloseDetach \/ CloseDetached
           \/ CloseTun
    PROVE  StackInv'
<1>0. Types /\ ConnInv /\ DemuxInv /\ LateInv /\ YoungInv  BY DEF StackInv
<1>1. UNCHANGED <<packet, late, demux, conns>> /\ (loop' = loop \/ loop' = "read")
    BY DEF StartCreateNIC, StartTCP, StartUDP, CloseDetach, CloseDetached, CloseTun, start, reader
<1>2. Types'  BY <1>0, <1>1 DEF Types, conns
<1>3. ConnInv' /\ DemuxInv'  BY <1>0, <1>1 DEF ConnInv, DemuxInv, Registered, conns
<1>4. LateInv'
    BY <1>0 DEF LateInv, StartCreateNIC, StartTCP, StartUDP, CloseDetach, CloseDetached, CloseTun,
       start, reader
<1>5. YoungInv'
    BY <1>0, <1>1 DEF YoungInv, OnlyYoungSurvive, AfterStackClose, StartCreateNIC, StartTCP,
       StartUDP, CloseDetach, CloseDetached, CloseTun, conns
<1> QED  BY <1>2, <1>3, <1>4, <1>5 DEF StackInv

(* t.stack.Close() finds every endpoint that is alive.                     *)
LEMMA CloseStackStep == StackInv /\ CloseStack => StackInv'
<1> SUFFICES ASSUME StackInv, CloseStack PROVE StackInv'  OBVIOUS
<1> DEFINE hit == {c \in Conns : ep[c] \in {"open", "closing"} /\ Registered(c)}
<1>0. Types /\ ConnInv /\ DemuxInv /\ LateInv /\ YoungInv  BY DEF StackInv
<1>1. PICK cleanup \in SUBSET {c \in hit : flow[c] \in TCPFlows} :
         /\ ep' = [c \in Conns |-> IF c \in cleanup THEN "closing"
                                  ELSE IF c \in hit THEN "aborted" ELSE ep[c]]
         /\ demux' = Unregister(hit \ cleanup)
    BY DEF CloseStack
<1>2. UNCHANGED <<dispatcher, device, start, reader, inflight, cpc, flow, once, closes, young>>
      /\ ctl' = "abort"
    BY DEF CloseStack
<1>3. \A c \in Conns : ep'[c] # "open"
    BY <1>0, <1>1 DEF DemuxInv, Types
<1>4. Types'
    BY <1>0, <1>1, <1>2 DEF Types, Unregister, reader
<1>5. ConnInv'
    BY <1>0, <1>1, <1>2 DEF ConnInv, Types
<1>6. DemuxInv'
    <2> SUFFICES ASSUME NEW c \in Conns, ep'[c] \in {"open", "closing"}
                 PROVE  Registered(c)'
        BY DEF DemuxInv
    <2>1. c \in cleanup  BY <1>0, <1>1 DEF DemuxInv, Types
    <2>2. flow[c] \in Flows /\ demux[flow[c]] = c
        BY <1>0, <2>1 DEF Registered, Flows
    <2> QED  BY <1>1, <1>2, <2>1, <2>2, StackAssumption DEF Registered, Unregister, Flows
<1>7. LateInv'  BY <1>0, <1>2 DEF LateInv, reader
<1>8. YoungInv'  BY <1>2, <1>3 DEF YoungInv, OnlyYoungSurvive
<1> QED  BY <1>4, <1>5, <1>6, <1>7, <1>8 DEF StackInv

(* The aborts end all those that linger.                                   *)
LEMMA CloseAbortStep == StackInv /\ CloseAbort => StackInv'
<1> SUFFICES ASSUME StackInv, CloseAbort PROVE StackInv'  OBVIOUS
<1> DEFINE hit == {c \in Conns : ep[c] = "closing"}
<1>0. Types /\ ConnInv /\ DemuxInv /\ LateInv /\ YoungInv  BY DEF StackInv
<1>1. /\ ep' = [c \in Conns |-> IF c \in hit THEN "aborted" ELSE ep[c]]
      /\ demux' = Unregister(hit)
      /\ ctl = "abort" /\ ctl' = "tunClose"
      /\ UNCHANGED <<dispatcher, device, start, reader, inflight, cpc, flow, once, closes, young>>
    BY DEF CloseAbort
<1>2. Types'  BY <1>0, <1>1 DEF Types, Unregister, reader
<1>3. ConnInv'  BY <1>0, <1>1 DEF ConnInv, Types
<1>4. DemuxInv'
    <2> SUFFICES ASSUME NEW c \in Conns, ep'[c] \in {"open", "closing"}
                 PROVE  Registered(c)'
        BY DEF DemuxInv
    <2>1. c \notin hit /\ ep[c] = "open"  BY <1>1
    <2> QED  BY <1>0, <1>1, <2>1 DEF DemuxInv, Registered, Unregister, Types
<1>5. LateInv'  BY <1>0, <1>1 DEF LateInv, reader
<1>6. YoungInv'
    BY <1>0, <1>1 DEF YoungInv, OnlyYoungSurvive, AfterStackClose, Types
<1> QED  BY <1>2, <1>3, <1>4, <1>5, <1>6 DEF StackInv

(* The dispatch loop up to a delivery, and one that makes no connection.   *)
LEMMA LoopSteps ==
    ASSUME StackInv,
           \/ LoopRead \/ LoopReadError \/ LoopOther \/ LoopCapture \/ LoopPanic
           \/ DeliverNoConn
    PROVE  StackInv'
<1> USE DEF LoopRead, LoopReadError, LoopOther, LoopCapture, LoopPanic, DeliverNoConn, Delivered,
            start, reader
<1>0. Types /\ ConnInv /\ DemuxInv /\ LateInv /\ YoungInv  BY DEF StackInv
<1>1. UNCHANGED <<dispatcher, demux, conns>> /\ ctl' \in {ctl, "panicked"}
    OBVIOUS
<1>2. Types'
    <2>1. packet' \in Flows \cup {Other, None} /\ (loop' = "deliver" => packet' \in Flows)
        BY <1>0 DEF Types
    <2>2. late' \in Nat  BY <1>0 DEF Types
    <2> QED  BY <1>0, <1>1, <2>1, <2>2 DEF Types, conns
<1>3. ConnInv' /\ DemuxInv'  BY <1>0, <1>1 DEF ConnInv, DemuxInv, Registered, conns
<1>4. LateInv'  BY <1>0 DEF LateInv, Types
<1>5. YoungInv'
    BY <1>0, <1>1 DEF YoungInv, OnlyYoungSurvive, AfterStackClose, conns
<1> QED  BY <1>2, <1>3, <1>4, <1>5 DEF StackInv

(* A delivery is late at most once, whatever else it does.                 *)
LEMMA DeliveredLate ==
    ASSUME StackInv, Delivered
    PROVE  LateInv' /\ late' \in Nat /\ packet' = None /\ loop' = "read" /\ ctl' = ctl
BY DEF StackInv, Delivered, LateInv, Types

(* The forwarder takes the first segment of a TCP flow.                    *)
LEMMA DeliverTCPStep ==
    ASSUME StackInv, NEW c \in Conns, DeliverTCP(c)
    PROVE  StackInv'
<1>0. Types /\ ConnInv /\ DemuxInv /\ YoungInv  BY DEF StackInv
<1>1. LateInv' /\ late' \in Nat /\ packet' = None /\ loop' = "read" /\ ctl' = ctl
    BY DeliveredLate DEF DeliverTCP
<1>2. /\ packet \in TCPFlows /\ cpc[c] = "unused"
      /\ cpc' = [cpc EXCEPT ![c] = "create"]
      /\ flow' = [flow EXCEPT ![c] = packet]
      /\ UNCHANGED <<demux, ep, once, closes, young>>
    BY DEF DeliverTCP
<1>3. Types'  BY <1>0, <1>1, <1>2 DEF Types, Flows, Forwarding
<1>4. ConnInv'  BY <1>0, <1>2 DEF ConnInv, Types, Flows, Forwarding
<1>5. DemuxInv'  BY <1>0, <1>2 DEF DemuxInv, ConnInv, Registered, Types
<1>6. YoungInv'  BY <1>0, <1>1, <1>2 DEF YoungInv, OnlyYoungSurvive, AfterStackClose
<1> QED  BY <1>1, <1>3, <1>4, <1>5, <1>6 DEF StackInv

(* The forwarder's function for the first datagram of a UDP flow.          *)
LEMMA DeliverUDPStep ==
    ASSUME StackInv, NEW c \in Conns, DeliverUDP(c)
    PROVE  StackInv'
<1>0. Types /\ ConnInv /\ DemuxInv /\ YoungInv  BY DEF StackInv
<1>1. LateInv' /\ late' \in Nat /\ packet' = None /\ loop' = "read" /\ ctl' = ctl
    BY DeliveredLate DEF DeliverUDP
<1>2. /\ packet \in UDPFlows /\ cpc[c] = "unused" /\ demux[packet] = None
      /\ flow' = [flow EXCEPT ![c] = packet]
      /\ young' = [young EXCEPT ![c] = AfterStackClose]
      /\ UNCHANGED <<once, closes>>
    BY DEF DeliverUDP
<1>3. packet \in Flows /\ None \notin Conns  BY <1>2, StackAssumption DEF Flows
<1>4. ep[c] = "none" /\ ~once[c] /\ closes[c] = 0
    BY <1>0, <1>2 DEF ConnInv
<1>5. CASE /\ cpc' = [cpc EXCEPT ![c] = "done"]
           /\ ep' \in {[ep EXCEPT ![c] = e] : e \in {"none", "aborted"}}
           /\ UNCHANGED demux
    <2>0. PICK e \in {"none", "aborted"} : ep' = [ep EXCEPT ![c] = e]
        BY <1>5
    <2>1. Types'  BY <1>0, <1>1, <1>2, <1>3, <1>5, <2>0 DEF Types, AfterStackClose
    <2>2. ConnInv'  BY <1>0, <1>2, <1>3, <1>4, <1>5, <2>0 DEF ConnInv, Types, Forwarding
    <2>3. DemuxInv'
        BY <1>0, <1>2, <1>3, <1>4, <1>5, <2>0 DEF DemuxInv, Registered, Types
    <2>4. YoungInv'
        BY <1>0, <1>1, <1>2, <2>0 DEF YoungInv, OnlyYoungSurvive, AfterStackClose, Types
    <2> QED  BY <1>1, <2>1, <2>2, <2>3, <2>4 DEF StackInv
<1>6. CASE /\ cpc' = [cpc EXCEPT ![c] = "handle"]
           /\ ep' = [ep EXCEPT ![c] = "open"]
           /\ demux' = [demux EXCEPT ![packet] = c]
    <2>1. Types'  BY <1>0, <1>1, <1>2, <1>3, <1>6 DEF Types, AfterStackClose
    <2>2. ConnInv'  BY <1>0, <1>2, <1>3, <1>4, <1>6 DEF ConnInv, Types, Forwarding
    <2>3. ASSUME NEW d \in Conns, ep'[d] \in {"open", "closing"} PROVE Registered(d)'
        <3>1. CASE d = c
            BY <1>0, <1>2, <1>3, <1>6, <3>1, StackAssumption DEF Registered, Types, Flows
        <3>2. CASE d # c
            <4>1. ep'[d] = ep[d] /\ flow'[d] = flow[d]
                BY <1>0, <1>2, <1>6, <3>2 DEF Types
            <4>2. flow[d] # None /\ demux[flow[d]] = d
                BY <1>0, <2>3, <4>1 DEF DemuxInv, Registered
            <4>3. flow[d] \in Flows /\ flow[d] # packet
                BY <1>0, <1>2, <1>3, <4>2 DEF Types
            <4> QED  BY <1>0, <1>3, <1>6, <4>1, <4>2, <4>3 DEF Registered, Types
        <3> QED  BY <3>1, <3>2
    <2>5. DemuxInv'  BY <2>3 DEF DemuxInv
    <2>4. YoungInv'
        BY <1>0, <1>1, <1>2, <1>6 DEF YoungInv, OnlyYoungSurvive, AfterStackClose, Types
    <2> QED  BY <1>1, <2>1, <2>2, <2>4, <2>5 DEF StackInv
<1> QED  BY <1>5, <1>6 DEF DeliverUDP

(* A connection that CloseConn or an abort ends: its endpoint is no longer *)
(* open, it leaves the demultiplexer when it is gone, and the others stay. *)
LEMMA EndsStep ==
    ASSUME StackInv, NEW c \in Conns, NEW step, NEW now,
           cpc[c] # "unused", cpc[c] # "create",
           step \in {"handle", "close", "done", cpc[c]},
           now \in {"closing", "closed", "aborted"} \/ now = ep[c],
           now = "closing" => ep[c] \in {"open", "closing"},
           ep' = [ep EXCEPT ![c] = now],
           demux' = demux \/ (demux' = Unregister({c}) /\ now \notin {"open", "closing"}),
           cpc' = [cpc EXCEPT ![c] = step],
           UNCHANGED <<ctl, dispatcher, device, start, reader, inflight, flow, young>>,
           once' \in [Conns -> BOOLEAN], closes' \in [Conns -> Nat],
           ConnInv'
    PROVE  StackInv'
<1>0. Types /\ ConnInv /\ DemuxInv /\ LateInv /\ YoungInv  BY DEF StackInv
<1>1. Types'
    <2>1. cpc' \in [Conns -> Forwarding \cup {"unused", "handle", "close", "done"}]
          /\ ep' \in [Conns -> {"none", "open", "closing", "closed", "aborted"}]
        BY <1>0 DEF Types
    <2>2. demux' \in [Flows -> Conns \cup {None}]
        BY <1>0 DEF Types, Unregister
    <2> QED  BY <1>0, <2>1, <2>2 DEF Types, reader
<1>2. ASSUME NEW d \in Conns, ep'[d] \in {"open", "closing"} PROVE Registered(d)'
    <2>1. ep[d] \in {"open", "closing"} /\ (d = c => now \in {"open", "closing"})
        BY <1>0, <1>2 DEF Types
    <2>2. flow[d] \in Flows /\ demux[flow[d]] = d /\ flow[d] # None
        BY <1>0, <2>1 DEF DemuxInv, Registered, Types
    <2>3. CASE demux' = demux  BY <2>2, <2>3 DEF Registered
    <2>4. CASE demux' = Unregister({c}) /\ now \notin {"open", "closing"}
        <3>1. d # c  BY <2>1, <2>4
        <3>2. demux'[flow[d]] = d  BY <2>2, <2>4, <3>1 DEF Unregister
        <3> QED  BY <2>2, <3>2 DEF Registered
    <2> QED  BY <2>3, <2>4
<1>3. DemuxInv'  BY <1>2 DEF DemuxInv
<1>4. LateInv'  BY <1>0 DEF LateInv, reader
<1>5. YoungInv'
    BY <1>0 DEF YoungInv, OnlyYoungSurvive, AfterStackClose, Types
<1> QED  BY <1>1, <1>3, <1>4, <1>5 DEF StackInv

(* The forwarder's function up to the point where the endpoint is there.   *)
LEMMA RequestSteps ==
    ASSUME StackInv, NEW c \in Conns, TCPCreateFails(c) \/ TCPCreate(c) \/ TCPComplete(c)
    PROVE  StackInv'
<1>0. Types /\ ConnInv /\ DemuxInv /\ LateInv /\ YoungInv  BY DEF StackInv
<1>1. CASE TCPCreateFails(c) \/ TCPComplete(c)
    <2>1. UNCHANGED <<ctl, dispatcher, reader, demux, flow, ep, once, closes, young>>
        BY <1>1 DEF TCPCreateFails, TCPComplete
    <2>2. \/ cpc[c] = "create" /\ cpc' = [cpc EXCEPT ![c] = "done"]
          \/ cpc[c] = "complete" /\ cpc' = [cpc EXCEPT ![c] = "addr"]
        BY <1>1 DEF TCPCreateFails, TCPComplete
    <2>3. Types'  BY <1>0, <2>1, <2>2 DEF Types, Forwarding, reader
    <2>4. ConnInv'  BY <1>0, <2>1, <2>2 DEF ConnInv, Types, Forwarding, Flows
    <2>5. DemuxInv' /\ LateInv' /\ YoungInv'
        BY <1>0, <2>1 DEF DemuxInv, Registered, LateInv, reader, YoungInv, OnlyYoungSurvive,
           AfterStackClose
    <2> QED  BY <2>3, <2>4, <2>5 DEF StackInv
<1>2. CASE TCPCreate(c)
    <2>1. /\ cpc[c] = "create" /\ demux[flow[c]] = None
          /\ cpc' = [cpc EXCEPT ![c] = "complete"]
          /\ ep' = [ep EXCEPT ![c] = "open"]
          /\ demux' = [demux EXCEPT ![flow[c]] = c]
          /\ young' = [young EXCEPT ![c] = AfterStackClose]
          /\ UNCHANGED <<ctl, dispatcher, reader, flow, once, closes>>
        BY <1>2 DEF TCPCreate
    <2>2. flow[c] \in Flows /\ flow[c] # None /\ None \notin Conns /\ ~once[c]
        BY <1>0, <2>1, StackAssumption DEF ConnInv, Forwarding, Flows
    <2>3. Types'  BY <1>0, <2>1, <2>2 DEF Types, Forwarding, AfterStackClose, reader
    <2>4. ConnInv'  BY <1>0, <2>1, <2>2 DEF ConnInv, Types, Forwarding
    <2>5. ASSUME NEW d \in Conns, ep'[d] \in {"open", "closing"} PROVE Registered(d)'
        <3>1. CASE d = c  BY <1>0, <2>1, <2>2, <3>1 DEF Registered, Types
        <3>2. CASE d # c
            <4>1. ep'[d] = ep[d]  BY <1>0, <2>1, <3>2 DEF Types
            <4>2. flow[d] # None /\ demux[flow[d]] = d
                BY <1>0, <2>5, <4>1 DEF DemuxInv, Registered
            <4>3. flow[d] \in Flows /\ flow[d] # flow[c]
                BY <1>0, <2>1, <2>2, <4>2 DEF Types
            <4> QED  BY <1>0, <2>1, <2>2, <4>2, <4>3 DEF Registered, Types
        <3> QED  BY <3>1, <3>2
    <2>6. DemuxInv'  BY <2>5 DEF DemuxInv
    <2>7. LateInv'  BY <1>0, <2>1 DEF LateInv, reader
    <2>8. YoungInv'
        BY <1>0, <2>1 DEF YoungInv, OnlyYoungSurvive, AfterStackClose, Types
    <2> QED  BY <2>3, <2>4, <2>6, <2>7, <2>8 DEF StackInv
<1> QED  BY <1>1, <1>2

(* What the Close of a connection does to its endpoint.                    *)
LEMMA CloseConnEnds ==
    ASSUME StackInv, NEW c \in Conns, NEW step, CloseConn(c, step)
    PROVE  \E now \in {"none", "closing", "closed", "aborted"} :
              /\ now = ep[c] \/ now \in {"closing", "closed"}
              /\ now = "closing" => ep[c] \in {"open", "closing"}
              /\ ep' = [ep EXCEPT ![c] = now]
              /\ demux' = demux \/ (demux' = Unregister({c}) /\ now = "closed")
              /\ cpc' = [cpc EXCEPT ![c] = step]
              /\ closes' = [closes EXCEPT ![c] = closes[c] + 1]
<1> DEFINE now == IF ep[c] = "open" THEN Closing(c) ELSE ep[c]
<1>1. ep \in [Conns -> {"none", "open", "closing", "closed", "aborted"}]
    BY DEF StackInv, Types
<1>2. ep' = [ep EXCEPT ![c] = now] /\ ep'[c] = now  BY <1>1 DEF CloseConn
<1>3. now \in {"none", "closing", "closed", "aborted"}  BY <1>1 DEF Closing
<1>4. demux' = IF now = "closed" THEN Unregister({c}) ELSE demux  BY <1>2 DEF CloseConn
<1>5. now = ep[c] \/ now \in {"closing", "closed"}  BY DEF Closing
<1> HIDE DEF now
<1> WITNESS now \in {"none", "closing", "closed", "aborted"}
<1>6. now = "closing" => ep[c] \in {"open", "closing"}  BY DEF now, Closing
<1> QED  BY <1>2, <1>4, <1>5, <1>6 DEF CloseConn

(* The end of the forwarder's function, the handler and the deferred Close *)
(* of a connection, and its peer.                                          *)
LEMMA ConnectionSteps ==
    ASSUME StackInv, NEW c \in Conns,
           \/ TCPAddr(c) \/ HandlerCloses(c) \/ HandlerReturns(c) \/ DeferredClose(c)
           \/ PeerEnds(c)
    PROVE  StackInv'
<1>0. Types /\ ConnInv /\ DemuxInv /\ LateInv /\ YoungInv  BY DEF StackInv
<1>1. CASE TCPAddr(c)
    <2>0. cpc[c] = "addr" /\ UNCHANGED <<ctl, dispatcher, device, start, reader, inflight, flow,
                                        once, young>>
        BY <1>1 DEF TCPAddr
    <2>1. CASE cpc' = [cpc EXCEPT ![c] = "handle"] /\ UNCHANGED <<ep, demux, closes>>
        <3>1. ep' = [ep EXCEPT ![c] = ep[c]]  BY <1>0, <2>1 DEF Types
        <3>2. ConnInv'  BY <1>0, <2>0, <2>1 DEF ConnInv, Types, Forwarding
        <3>3. once' \in [Conns -> BOOLEAN] /\ closes' \in [Conns -> Nat]
            BY <1>0, <2>0, <2>1 DEF Types
        <3> QED  BY <2>0, <2>1, <3>1, <3>2, <3>3, EndsStep
    <2>2. CASE CloseConn(c, "done")
        <3>1. PICK now \in {"none", "closing", "closed", "aborted"} :
                 /\ now = ep[c] \/ now \in {"closing", "closed"}
                 /\ now = "closing" => ep[c] \in {"open", "closing"}
                 /\ ep' = [ep EXCEPT ![c] = now]
                 /\ demux' = demux \/ (demux' = Unregister({c}) /\ now = "closed")
                 /\ cpc' = [cpc EXCEPT ![c] = "done"]
                 /\ closes' = [closes EXCEPT ![c] = closes[c] + 1]
            BY <2>2, CloseConnEnds
        <3>2. ConnInv'  BY <1>0, <2>0, <3>1 DEF ConnInv, Types, Forwarding
        <3>3. once' \in [Conns -> BOOLEAN] /\ closes' \in [Conns -> Nat]
            BY <1>0, <2>0, <3>1 DEF Types
        <3> QED  BY <2>0, <3>1, <3>2, <3>3, EndsStep
    <2> QED  BY <1>1, <2>1, <2>2 DEF TCPAddr
<1>2. CASE HandlerCloses(c)
    <2>0. /\ cpc[c] = "handle" /\ ~once[c] /\ CloseConn(c, "handle")
          /\ once' = [once EXCEPT ![c] = TRUE]
          /\ UNCHANGED <<ctl, dispatcher, device, start, reader, inflight, flow, young>>
        BY <1>2 DEF HandlerCloses
    <2>1. PICK now \in {"none", "closing", "closed", "aborted"} :
             /\ now = ep[c] \/ now \in {"closing", "closed"}
             /\ now = "closing" => ep[c] \in {"open", "closing"}
             /\ ep' = [ep EXCEPT ![c] = now]
             /\ demux' = demux \/ (demux' = Unregister({c}) /\ now = "closed")
             /\ cpc' = [cpc EXCEPT ![c] = "handle"]
             /\ closes' = [closes EXCEPT ![c] = closes[c] + 1]
        BY <2>0, CloseConnEnds
    <2>2. ConnInv'  BY <1>0, <2>0, <2>1 DEF ConnInv, Types, Forwarding
    <2>3. once' \in [Conns -> BOOLEAN] /\ closes' \in [Conns -> Nat]
        BY <1>0, <2>0, <2>1 DEF Types
    <2> QED  BY <2>0, <2>1, <2>2, <2>3, EndsStep
<1>3. CASE HandlerReturns(c)
    <2>0. /\ cpc[c] = "handle" /\ cpc' = [cpc EXCEPT ![c] = "close"]
          /\ UNCHANGED <<ctl, dispatcher, device, start, reader, inflight, flow, once, closes, young>>
        BY <1>3 DEF HandlerReturns
    <2>1. PICK now \in {ep[c], "closed", "aborted"} :
             /\ ep' = [ep EXCEPT ![c] = now]
             /\ demux' = demux \/ (demux' = Unregister({c}) /\ now \notin {"open", "closing"})
        <3>1. CASE UNCHANGED <<ep, demux>>
            BY <1>0, <3>1 DEF Types
        <3>2. CASE /\ ep' = [ep EXCEPT ![c] = IF @ = "closed" THEN @ ELSE "aborted"]
                   /\ demux' = Unregister({c})
            <4>1. CASE ep[c] = "closed"  BY <3>2, <4>1
            <4>2. CASE ep[c] # "closed"  BY <3>2, <4>2
            <4> QED  BY <4>1, <4>2
        <3> QED  BY <1>3, <3>1, <3>2 DEF HandlerReturns
    <2>2. ConnInv'  BY <1>0, <2>0, <2>1 DEF ConnInv, Types, Forwarding
    <2>3. once' \in [Conns -> BOOLEAN] /\ closes' \in [Conns -> Nat]
        BY <1>0, <2>0 DEF Types
    <2> QED  BY <2>0, <2>1, <2>2, <2>3, EndsStep
<1>4. CASE DeferredClose(c)
    <2>0. /\ cpc[c] = "close"
          /\ UNCHANGED <<ctl, dispatcher, device, start, reader, inflight, flow, young>>
        BY <1>4 DEF DeferredClose
    <2>1. CASE once[c] /\ cpc' = [cpc EXCEPT ![c] = "done"] /\ UNCHANGED <<ep, demux, closes, once>>
        <3>1. ep' = [ep EXCEPT ![c] = ep[c]]  BY <1>0, <2>1 DEF Types
        <3>2. ConnInv'  BY <1>0, <2>0, <2>1 DEF ConnInv, Types, Forwarding
        <3>3. once' \in [Conns -> BOOLEAN] /\ closes' \in [Conns -> Nat]
            BY <1>0, <2>1 DEF Types
        <3> QED  BY <2>0, <2>1, <3>1, <3>2, <3>3, EndsStep
    <2>2. CASE ~once[c] /\ CloseConn(c, "done") /\ once' = [once EXCEPT ![c] = TRUE]
        <3>1. PICK now \in {"none", "closing", "closed", "aborted"} :
                 /\ now = ep[c] \/ now \in {"closing", "closed"}
                 /\ now = "closing" => ep[c] \in {"open", "closing"}
                 /\ ep' = [ep EXCEPT ![c] = now]
                 /\ demux' = demux \/ (demux' = Unregister({c}) /\ now = "closed")
                 /\ cpc' = [cpc EXCEPT ![c] = "done"]
                 /\ closes' = [closes EXCEPT ![c] = closes[c] + 1]
            BY <2>2, CloseConnEnds
        <3>2. ConnInv'  BY <1>0, <2>0, <2>2, <3>1 DEF ConnInv, Types, Forwarding
        <3>3. once' \in [Conns -> BOOLEAN] /\ closes' \in [Conns -> Nat]
            BY <1>0, <2>2, <3>1 DEF Types
        <3> QED  BY <2>0, <3>1, <3>2, <3>3, EndsStep
    <2> QED  BY <1>4, <2>1, <2>2 DEF DeferredClose
<1>5. CASE PeerEnds(c)
    <2>0. UNCHANGED <<ctl, dispatcher, device, start, reader, inflight, cpc, flow, once, closes,
                      young>>
          /\ demux' = Unregister({c})
        BY <1>5 DEF PeerEnds
    <2>1. ep[c] \in {"open", "closing"}
          /\ \E now \in {"closed", "aborted"} : ep' = [ep EXCEPT ![c] = now]
        BY <1>5 DEF PeerEnds
    <2>2. cpc[c] \notin {"unused", "create"} /\ cpc' = [cpc EXCEPT ![c] = cpc[c]]
        BY <1>0, <2>0, <2>1 DEF ConnInv, Types
    <2>3. ConnInv'  BY <1>0, <2>0, <2>1, <2>2 DEF ConnInv, Types, Forwarding
    <2>4. once' \in [Conns -> BOOLEAN] /\ closes' \in [Conns -> Nat]
        BY <1>0, <2>0 DEF Types
    <2> QED  BY <2>0, <2>1, <2>2, <2>3, <2>4, EndsStep
<1> QED  BY <1>1, <1>2, <1>3, <1>4, <1>5

(* Every step keeps the invariant.                                         *)
LEMMA StackStep == StackInv /\ [Next]_vars => StackInv'
<1> SUFFICES ASSUME StackInv, [Next]_vars PROVE StackInv'  OBVIOUS
<1>1. CASE UNCHANGED vars
    BY <1>1 DEF vars, start, reader, conns, StackInv, Types, ConnInv, DemuxInv, Registered, LateInv,
       YoungInv, OnlyYoungSurvive, AfterStackClose
<1>2. CASE Next
    BY <1>2, ControlSteps, CloseStackStep, CloseAbortStep, LoopSteps, DeliverTCPStep, DeliverUDPStep,
       RequestSteps, ConnectionSteps DEF Next, CloseStep, LoopStep, ConnStep
<1> QED  BY <1>1, <1>2

(* The invariant holds always.                                             *)
THEOREM StackCorrect == Spec => []StackInv
BY StackInit, StackStep, PTL DEF Spec

(* However handlers, peers and Close end the flows, a goroutine that is    *)
(* done leaves no open endpoint, and none closes its connection twice.     *)
THEOREM ClosedOnce == Spec => []EndpointsClosedOnce
<1>1. StackInv => EndpointsClosedOnce
    BY DEF StackInv, ConnInv, EndpointsClosedOnce
<1> QED  BY <1>1, StackCorrect, PTL

(* At most one packet is delivered after Close detached the dispatcher,    *)
(* although nothing synchronises Close with the dispatch loop.             *)
THEOREM LateAtMostOnce == Spec => []OneLateDelivery
<1>1. StackInv => OneLateDelivery
    BY DEF StackInv, LateInv, OneLateDelivery
<1> QED  BY <1>1, StackCorrect, PTL

(* Close ends every endpoint that was there when it called stack.Close().  *)
THEOREM CloseEndsTheOld == Spec => []OnlyYoungSurvive
<1>1. StackInv => OnlyYoungSurvive
    BY DEF StackInv, YoungInv
<1> QED  BY <1>1, StackCorrect, PTL

-----------------------------------------------------------------------------
(***************************************************************************)
(* The relay.  Of a queue q: the packets of the peer in it are n+1 to m,   *)
(* each of them once and in this order, with strangers' between them.      *)
(***************************************************************************)
Ordered(q, n, m) ==
    /\ \A k \in 1..Len(q) : q[k] # R!Stranger => q[k] \in (n + 1)..m
    /\ \A v \in (n + 1)..m : \E k \in 1..Len(q) : q[k] = v
    /\ \A j, k \in 1..Len(q) :
         j < k /\ q[j] # R!Stranger /\ q[k] # R!Stranger => q[j] < q[k]

CopierStates == {"none", "loop", "read", "write", "result", "end"}

RelayTypes ==
    /\ sent \in [R!Sides -> Nat]
    /\ queue \in [R!Sides -> Seq(Nat)]
    /\ out \in [R!Sides \cup {"stranger"} -> Seq(Int)]
    /\ copier \in [R!Copiers -> CopierStates]
    /\ chunk \in [R!Copiers -> Seq(Int)]
    /\ to \in [R!Copiers -> R!Sides \cup {R!NoAddr}]

Copying(c) == copier[c] \notin {"result", "end"}

(* A copier that read a packet has the next one, and sends it to the right *)
(* address; what it has not read waits in order, as long as it copies.     *)
CopierInv(c) ==
    LET got == Len(out[R!To(c)]) IN
    /\ R!InOrder(c, out[R!To(c)])
    /\ to[c] \in {R!NoAddr, R!To(c)}
    /\ copier[c] = "write" => chunk[c] = <<R!Filled(c, got + 1)>> /\ to[c] = R!To(c)
    /\ copier[c] \in {"none", "loop", "read"} => chunk[c] = <<>>
    /\ chunk[c] \in {<<>>, <<R!Filled(c, got + 1)>>}
    /\ got + Len(chunk[c]) <= sent[R!From(c)]
    /\ Copying(c) => Ordered(queue[R!From(c)], got + Len(chunk[c]), sent[R!From(c)])

(* The copiers start after the dial.                                       *)
NotYet == handler \in {"idle", "dial"} => \A c \in R!Copiers : copier[c] = "none"

RelayInv ==
    /\ RelayTypes /\ NotYet
    /\ out["stranger"] = <<>>
    /\ \A c \in R!Copiers : CopierInv(c)

(* A packet that the peer sends is the next one.                           *)
LEMMA OrderedSend ==
    ASSUME NEW q \in Seq(Nat), NEW n \in Nat, NEW m \in Nat, n <= m, Ordered(q, n, m)
    PROVE  Ordered(Append(q, m + 1), n, m + 1)
<1> DEFINE p == Append(q, m + 1)
<1>1. /\ Len(p) = Len(q) + 1 /\ Len(q) \in Nat /\ p[Len(q) + 1] = m + 1
      /\ \A k \in 1..Len(q) : p[k] = q[k] /\ q[k] \in Nat
    OBVIOUS
<1> HIDE DEF p
<1>2. \A k \in 1..Len(p) : k \in 1..Len(q) \/ k = Len(q) + 1  BY <1>1
<1>3. \A k \in 1..Len(p) : p[k] # R!Stranger => p[k] \in (n + 1)..(m + 1)
    BY <1>1, <1>2 DEF Ordered
<1>4. ASSUME NEW v \in (n + 1)..(m + 1) PROVE \E k \in 1..Len(p) : p[k] = v
    <2>1. CASE v = m + 1
        BY <1>1, <2>1
    <2>2. CASE v # m + 1
        <3>1. PICK k \in 1..Len(q) : q[k] = v  BY <2>2 DEF Ordered
        <3> QED  BY <1>1, <3>1
    <2> QED  BY <2>1, <2>2
<1>5. ASSUME NEW j \in 1..Len(p), NEW k \in 1..Len(p), j < k, p[j] # R!Stranger,
             p[k] # R!Stranger
      PROVE  p[j] < p[k]
    <2>1. j \in 1..Len(q) /\ p[j] = q[j]  BY <1>1, <1>5
    <2>2. q[j] \in (n + 1)..m  BY <1>5, <2>1 DEF Ordered
    <2>3. CASE k = Len(q) + 1
        BY <1>1, <2>1, <2>2, <2>3
    <2>4. CASE k \in 1..Len(q)
        BY <1>1, <1>5, <2>1, <2>4 DEF Ordered
    <2> QED  BY <1>2, <2>3, <2>4
<1> QED  BY <1>3, <1>4, <1>5 DEF Ordered, p

(* A packet of a stranger changes nothing.                                 *)
LEMMA OrderedStranger ==
    ASSUME NEW q \in Seq(Nat), NEW n \in Nat, NEW m \in Nat, Ordered(q, n, m)
    PROVE  Ordered(Append(q, R!Stranger), n, m)
<1> DEFINE p == Append(q, R!Stranger)
<1>1. /\ Len(p) = Len(q) + 1 /\ Len(q) \in Nat /\ p[Len(q) + 1] = R!Stranger
      /\ \A k \in 1..Len(q) : p[k] = q[k] /\ q[k] \in Nat
    BY DEF R!Stranger
<1> HIDE DEF p
<1>2. \A k \in 1..Len(p) : p[k] # R!Stranger => k \in 1..Len(q)  BY <1>1
<1>3. \A k \in 1..Len(p) : p[k] # R!Stranger => p[k] \in (n + 1)..m
    BY <1>1, <1>2 DEF Ordered
<1>4. ASSUME NEW v \in (n + 1)..m PROVE \E k \in 1..Len(p) : p[k] = v
    <2>1. PICK k \in 1..Len(q) : q[k] = v  BY DEF Ordered
    <2> QED  BY <1>1, <2>1
<1>5. ASSUME NEW j \in 1..Len(p), NEW k \in 1..Len(p), j < k, p[j] # R!Stranger,
             p[k] # R!Stranger
      PROVE  p[j] < p[k]
    BY <1>1, <1>2, <1>5 DEF Ordered
<1> QED  BY <1>3, <1>4, <1>5 DEF Ordered, p

(* What is read is the next packet, or a stranger's that changes nothing.  *)
LEMMA OrderedRead ==
    ASSUME NEW q \in Seq(Nat), q # <<>>, NEW n \in Nat, NEW m \in Nat, Ordered(q, n, m)
    PROVE  /\ Head(q) \in Nat /\ Tail(q) \in Seq(Nat)
           /\ Head(q) = R!Stranger => Ordered(Tail(q), n, m)
           /\ Head(q) # R!Stranger =>
                /\ Head(q) = n + 1 /\ n + 1 <= m
                /\ Ordered(Tail(q), n + 1, m)
<1> DEFINE p == Tail(q)
<1>1. /\ Head(q) \in Nat /\ p \in Seq(Nat) /\ Head(q) = q[1]
      /\ Len(q) \in Nat \ {0} /\ Len(p) = Len(q) - 1 /\ Len(p) \in Nat
      /\ \A k \in 1..Len(p) : p[k] = q[k + 1] /\ k + 1 \in 1..Len(q)
      /\ \A k \in 1..Len(q) : q[k] \in Nat
    OBVIOUS
<1> HIDE DEF p
<1>2. ASSUME NEW j \in 1..Len(p), NEW k \in 1..Len(p), j < k, p[j] # R!Stranger,
             p[k] # R!Stranger
      PROVE  p[j] < p[k]
    <2>1. p[j] = q[j + 1] /\ j + 1 \in 1..Len(q)  BY <1>1
    <2>2. p[k] = q[k + 1] /\ k + 1 \in 1..Len(q)  BY <1>1
    <2>3. j + 1 < k + 1  BY <1>1, <1>2
    <2> QED  BY <1>2, <2>1, <2>2, <2>3 DEF Ordered
<1>3. ASSUME NEW v, NEW k \in 1..Len(q), q[k] = v, v # Head(q) PROVE \E i \in 1..Len(p) : p[i] = v
    <2>1. k # 1  BY <1>1, <1>3
    <2>2. k - 1 \in 1..Len(p) /\ p[k - 1] = v  BY <1>1, <1>3, <2>1
    <2> QED  BY <2>2
<1>4. CASE Head(q) = R!Stranger
    <2>1. \A k \in 1..Len(p) : p[k] # R!Stranger => p[k] \in (n + 1)..m
        BY <1>1 DEF Ordered
    <2>2. ASSUME NEW v \in (n + 1)..m PROVE \E k \in 1..Len(p) : p[k] = v
        <3>1. PICK k \in 1..Len(q) : q[k] = v  BY DEF Ordered
        <3>2. v # Head(q)  BY <1>4 DEF R!Stranger
        <3> QED  BY <1>3, <3>1, <3>2
    <2> QED  BY <1>1, <1>2, <1>4, <2>1, <2>2 DEF Ordered, p
<1>5. CASE Head(q) # R!Stranger
    <2>1. Head(q) \in (n + 1)..m  BY <1>1, <1>5 DEF Ordered
    <2>2. Head(q) = n + 1
        <3>1. n + 1 \in (n + 1)..m  BY <1>1, <2>1
        <3>2. PICK k \in 1..Len(q) : q[k] = n + 1  BY <3>1 DEF Ordered
        <3>3. CASE k = 1
            BY <1>1, <3>2, <3>3
        <3>4. CASE k # 1
            <4>1. q[1] < q[k]  BY <1>1, <1>5, <3>2, <3>4 DEF Ordered, R!Stranger
            <4> QED  BY <1>1, <2>1, <3>2, <4>1
        <3> QED  BY <3>3, <3>4
    <2>3. ASSUME NEW k \in 1..Len(p), p[k] # R!Stranger PROVE p[k] \in (n + 2)..m
        <3>1. /\ p[k] = q[k + 1] /\ k + 1 \in 1..Len(q) /\ 1 \in 1..Len(q) /\ 1 < k + 1
              /\ q[1] # R!Stranger
            BY <1>1, <1>5
        <3>2. q[1] < q[k + 1] /\ q[k + 1] \in (n + 1)..m  BY <2>3, <3>1 DEF Ordered
        <3> QED  BY <1>1, <2>2, <3>1, <3>2
    <2>4. ASSUME NEW v \in (n + 2)..m PROVE \E k \in 1..Len(p) : p[k] = v
        <3>1. v \in (n + 1)..m /\ v # Head(q)  BY <2>2
        <3>2. PICK k \in 1..Len(q) : q[k] = v  BY <3>1 DEF Ordered
        <3> QED  BY <1>3, <3>1, <3>2
    <2>5. n + 1 + 1 = n + 2  OBVIOUS
    <2> QED  BY <1>1, <1>2, <1>5, <2>1, <2>2, <2>3, <2>4, <2>5 DEF Ordered, p
<1> QED  BY <1>1, <1>4, <1>5 DEF p

(* Nothing was sent at first.                                              *)
LEMMA RelayInit == R!Init => RelayInv
<1> SUFFICES ASSUME R!Init PROVE RelayInv  OBVIOUS
<1> USE DEF R!Sides, R!Copiers, R!To, R!From, R!NoAddr
<1>1. /\ sent = [s \in R!Sides |-> 0] /\ queue = [s \in R!Sides |-> <<>>]
      /\ copier = [c \in R!Copiers |-> "none"] /\ chunk = [c \in R!Copiers |-> <<>>]
      /\ out = [a \in R!Sides \cup {"stranger"} |-> <<>>]
      /\ \A c \in R!Copiers : to[c] \in {R!NoAddr, R!To(c)}
      /\ DOMAIN to = R!Copiers
    BY DEF R!Init
<1>2. to \in [R!Copiers -> R!Sides \cup {R!NoAddr}]
    BY DEF R!Init
<1>3. RelayTypes  BY <1>1, <1>2 DEF RelayTypes, CopierStates
<1>4. Ordered(<<>>, 0, 0)  BY DEF Ordered
<1>5. \A c : R!InOrder(c, <<>>)  BY DEF R!InOrder
<1>6. ASSUME NEW c \in R!Copiers PROVE CopierInv(c)
    <2>1. out[R!To(c)] = <<>> /\ queue[R!From(c)] = <<>> /\ sent[R!From(c)] = 0
        BY <1>1
    <2>2. chunk[c] = <<>> /\ copier[c] = "none" /\ Len(<<>>) = 0 /\ 0 + 0 = 0  BY <1>1
    <2> HIDE DEF R!Sides, R!Copiers, R!To, R!From, R!NoAddr
    <2> QED  BY <1>1, <1>4, <1>5, <2>1, <2>2 DEF CopierInv
<1>7. NotYet  BY <1>1 DEF NotYet
<1> QED  BY <1>1, <1>3, <1>6, <1>7 DEF RelayInv

(* The sides and the copiers.                                              *)
LEMMA SidesOf ==
    /\ \A c \in R!Copiers : R!From(c) \in R!Sides /\ R!To(c) \in R!Sides
    /\ \A c, d \in R!Copiers : c # d => R!From(c) # R!From(d) /\ R!To(c) # R!To(d)
    /\ R!NoAddr \notin R!Sides /\ "stranger" \notin R!Sides
BY DEF R!Copiers, R!Sides, R!From, R!To, R!NoAddr

(* A step that only moves a copier, without reading or writing.            *)
LEMMA CopierMoves ==
    ASSUME RelayInv, UNCHANGED <<long, sent, queue, chunk, to, out>>,
           copier' \in [R!Copiers -> CopierStates], NotYet',
           \A c \in R!Copiers :
             /\ copier'[c] = "write" => copier[c] = "write"
             /\ copier'[c] \in {"none", "loop", "read"} => copier[c] \in {"none", "loop", "read"}
    PROVE  RelayInv'
<1>1. RelayTypes'  BY DEF RelayInv, RelayTypes
<1>2. ASSUME NEW c \in R!Copiers PROVE CopierInv(c)'
    <2>1. Copying(c)' => Copying(c)  BY DEF Copying, CopierStates
    <2>2. /\ R!InOrder(c, out[R!To(c)])' <=> R!InOrder(c, out[R!To(c)])
          /\ R!Filled(c, Len(out[R!To(c)]) + 1)' = R!Filled(c, Len(out[R!To(c)]) + 1)
        BY DEF R!InOrder, R!Filled
    <2>3. CopierInv(c)  BY DEF RelayInv
    <2> QED  BY <2>1, <2>2, <2>3 DEF CopierInv
<1> QED  BY <1>1, <1>2 DEF RelayInv

(* The peers.                                                              *)
LEMMA PeersKeep ==
    ASSUME RelayInv, R!StrangerSends \/ \E s \in R!Sides : R!Send(s)
    PROVE  RelayInv'
<1>0. RelayTypes /\ UNCHANGED <<long, copier, chunk, to, out>> /\ NotYet'
    BY DEF RelayInv, NotYet, R!StrangerSends, R!Send, R!fixed
<1>1. ASSUME NEW s \in R!Sides, NEW x \in Nat,
             queue' = [queue EXCEPT ![s] = Append(@, x)],
             \/ x = R!Stranger /\ sent' = sent
             \/ x = sent[s] + 1 /\ sent' = [sent EXCEPT ![s] = @ + 1]
      PROVE  RelayInv'
    <2>1. queue' \in [R!Sides -> Seq(Nat)] /\ sent' \in [R!Sides -> Nat]
        <3>1. queue \in [R!Sides -> Seq(Nat)] /\ sent \in [R!Sides -> Nat]
            BY <1>0 DEF RelayTypes
        <3>2. Append(queue[s], x) \in Seq(Nat)  BY <3>1
        <3>3. queue' \in [R!Sides -> Seq(Nat)]  BY <1>1, <3>1, <3>2
        <3>4. sent' \in [R!Sides -> Nat]
            <4>1. CASE sent' = sent
                BY <3>1, <4>1
            <4>2. CASE sent' = [sent EXCEPT ![s] = @ + 1]
                BY <3>1, <4>2
            <4> QED  BY <1>1, <4>1, <4>2
        <3> QED  BY <3>3, <3>4
    <2>2. RelayTypes'  BY <1>0, <2>1 DEF RelayTypes
    <2>3. ASSUME NEW c \in R!Copiers PROVE CopierInv(c)'
        <3> DEFINE f == R!From(c)
                   n == Len(out[R!To(c)]) + Len(chunk[c])
        <3>1. /\ f \in R!Sides /\ n \in Nat /\ queue[f] \in Seq(Nat) /\ sent[f] \in Nat
              /\ n <= sent[f] /\ (Copying(c) => Ordered(queue[f], n, sent[f]))
            BY <1>0, SidesOf DEF RelayInv, RelayTypes, CopierInv
        <3> HIDE DEF f, n
        <3>2. n <= sent'[f] /\ (Copying(c) => Ordered(queue'[f], n, sent'[f]))
            <4>1. CASE f # s
                <5>1. queue'[f] = queue[f]
                    BY <1>0, <1>1, <3>1, <4>1 DEF RelayTypes
                <5>2. sent'[f] = sent[f]
                    BY <1>0, <1>1, <3>1, <4>1 DEF RelayTypes
                <5> QED  BY <3>1, <5>1, <5>2
            <4>2. ASSUME f = s, x = R!Stranger /\ sent' = sent
                  PROVE  n <= sent'[f] /\ (Copying(c) => Ordered(queue'[f], n, sent'[f]))
                <5>1. queue'[f] = Append(queue[f], R!Stranger)
                    BY <1>0, <1>1, <3>1, <4>2 DEF RelayTypes
                <5> QED  BY <3>1, <4>2, <5>1, OrderedStranger
            <4>3. ASSUME f = s, x = sent[s] + 1 /\ sent' = [sent EXCEPT ![s] = @ + 1]
                  PROVE  n <= sent'[f] /\ (Copying(c) => Ordered(queue'[f], n, sent'[f]))
                <5>1. queue'[f] = Append(queue[f], sent[f] + 1) /\ sent'[f] = sent[f] + 1
                    BY <1>0, <1>1, <3>1, <4>3 DEF RelayTypes
                <5>2. Copying(c) => Ordered(Append(queue[f], sent[f] + 1), n, sent[f] + 1)
                    BY <3>1, OrderedSend
                <5>3. n <= sent[f] + 1  BY <3>1
                <5> QED  BY <5>1, <5>2, <5>3
            <4>4. CASE f = s
                <5>1. CASE x = R!Stranger /\ sent' = sent
                    BY <4>2, <4>4, <5>1
                <5>2. CASE x = sent[s] + 1 /\ sent' = [sent EXCEPT ![s] = @ + 1]
                    BY <4>3, <4>4, <5>2
                <5> QED  BY <1>1, <5>1, <5>2
            <4> QED  BY <4>1, <4>4
        <3>3. CopierInv(c)  BY DEF RelayInv
        <3> QED
            BY <1>0, <3>2, <3>3 DEF f, n, CopierInv, Copying, R!InOrder, R!Filled
    <2> QED  BY <1>0, <2>2, <2>3 DEF RelayInv
<1>2. CASE R!StrangerSends
    <2>1. /\ queue' = [queue EXCEPT !["remote"] = Append(@, R!Stranger)] /\ sent' = sent
          /\ "remote" \in R!Sides /\ R!Stranger \in Nat
        BY <1>2 DEF R!StrangerSends, R!Sides, R!Stranger
    <2> QED  BY <1>1, <2>1
<1>3. ASSUME NEW s \in R!Sides, R!Send(s) PROVE RelayInv'
    <2>1. /\ queue' = [queue EXCEPT ![s] = Append(@, sent[s] + 1)]
          /\ sent' = [sent EXCEPT ![s] = @ + 1] /\ sent[s] + 1 \in Nat
        BY <1>0, <1>3 DEF R!Send, RelayTypes
    <2> QED  BY <1>1, <2>1
<1> QED  BY <1>2, <1>3

(* Which packets are long does not change.                                 *)
LEMMA LongKept ==
    ASSUME UNCHANGED <<long, out>>, NEW c
    PROVE  /\ R!InOrder(c, out[R!To(c)])' <=> R!InOrder(c, out[R!To(c)])
           /\ R!Filled(c, Len(out[R!To(c)]) + 1)' = R!Filled(c, Len(out[R!To(c)]) + 1)
BY DEF R!InOrder, R!Filled

(* The copier that did not move keeps its part of the invariant.           *)
LEMMA OtherCopier ==
    ASSUME NEW d \in R!Copiers, CopierInv(d), UNCHANGED <<long, sent>>,
           out'[R!To(d)] = out[R!To(d)], queue'[R!From(d)] = queue[R!From(d)],
           chunk'[d] = chunk[d], copier'[d] = copier[d], to'[d] = to[d]
    PROVE  CopierInv(d)'
<1>1. /\ R!InOrder(d, out[R!To(d)])' <=> R!InOrder(d, out[R!To(d)])
      /\ R!Filled(d, Len(out[R!To(d)]) + 1)' = R!Filled(d, Len(out[R!To(d)]) + 1)
    BY DEF R!InOrder, R!Filled
<1> QED  BY <1>1 DEF CopierInv, Copying

(* What a copier reads is the next packet; a stranger's is dropped.        *)
LEMMA ReadKeeps ==
    ASSUME RelayInv, NEW c \in R!Copiers, R!Read(c)
    PROVE  RelayInv'
<1> DEFINE f == R!From(c)
           n == Len(out[R!To(c)])
           first == Head(queue[f])
<1>0. /\ RelayTypes /\ CopierInv(c) /\ UNCHANGED <<long, sent, out>> /\ copier[c] = "read"
      /\ queue[f] # <<>> /\ R!Take(c, first)
      /\ queue' = [queue EXCEPT ![f] = Tail(@)] /\ NotYet'
    BY DEF RelayInv, NotYet, R!Read, R!fixed
<1>1. /\ f \in R!Sides /\ R!To(c) \in R!Sides /\ n \in Nat /\ queue[f] \in Seq(Nat)
      /\ sent[f] \in Nat /\ n <= sent[f] /\ Ordered(queue[f], n, sent[f]) /\ chunk[c] = <<>>
      /\ R!InOrder(c, out[R!To(c)]) /\ to[c] \in {R!NoAddr, R!To(c)}
    BY <1>0, SidesOf DEF RelayTypes, CopierInv, Copying
<1>2. /\ first \in Nat /\ Tail(queue[f]) \in Seq(Nat)
      /\ first = R!Stranger => Ordered(Tail(queue[f]), n, sent[f])
      /\ first # R!Stranger =>
           /\ first = n + 1 /\ n + 1 <= sent[f]
           /\ Ordered(Tail(queue[f]), n + 1, sent[f])
    BY <1>0, <1>1, OrderedRead
<1>3. /\ queue' \in [R!Sides -> Seq(Nat)] /\ queue'[f] = Tail(queue[f])
      /\ \A s \in R!Sides : s # f => queue'[s] = queue[s]
    BY <1>0, <1>1, <1>2 DEF RelayTypes
<1> HIDE DEF first
<1>4. CASE first = R!Stranger
    <2>1. UNCHANGED <<copier, chunk, to>>  BY <1>0, <1>4 DEF R!Take
    <2>2. RelayTypes'  BY <1>0, <1>3, <2>1 DEF RelayTypes
    <2>3. CopierInv(c)'
        <3>0. /\ Len(out'[R!To(c)]) = n /\ sent'[f] = sent[f] /\ copier'[c] = "read"
              /\ chunk'[c] = <<>> /\ to'[c] \in {R!NoAddr, R!To(c)}
            BY <1>0, <1>1, <2>1
        <3>1. /\ Len(out'[R!To(c)]) = n /\ n = n + Len(chunk'[c]) /\ sent'[f] = sent[f]
              /\ chunk'[c] = <<>> /\ copier'[c] = "read" /\ to'[c] \in {R!NoAddr, R!To(c)}
            <4> HIDE DEF n
            <4> QED  BY <1>1, <3>0
        <3>2. Ordered(queue'[f], n, sent'[f])  BY <1>2, <1>3, <1>4, <3>1
        <3>3. n <= sent'[f]  BY <1>1, <3>1
        <3>4. R!InOrder(c, out[R!To(c)])'  BY <1>0, <1>1, LongKept
        <3> HIDE DEF n
        <3> QED  BY <3>1, <3>2, <3>3, <3>4 DEF CopierInv
    <2>4. ASSUME NEW d \in R!Copiers, d # c PROVE CopierInv(d)'
        BY <1>0, <1>3, <2>1, <2>4, SidesOf, OtherCopier DEF RelayInv
    <2> QED  BY <1>0, <2>2, <2>3, <2>4 DEF RelayInv
<1>5. CASE first # R!Stranger
    <2>1. /\ chunk' = [chunk EXCEPT ![c] = <<R!Filled(c, first)>>]
          /\ to' = [to EXCEPT ![c] = IF @ = R!NoAddr THEN R!To(c) ELSE @]
          /\ copier' = [copier EXCEPT ![c] = "write"]
        BY <1>0, <1>5 DEF R!Take, R!Goto
    <2>2. /\ chunk'[c] = <<R!Filled(c, n + 1)>> /\ copier'[c] = "write" /\ to'[c] = R!To(c)
          /\ Len(chunk'[c]) = 1
        BY <1>0, <1>1, <1>2, <1>5, <2>1 DEF RelayTypes
    <2>3. RelayTypes'
        <3>0. R!Filled(c, first) \in Int  BY <1>2 DEF R!Filled
        <3>1. chunk' \in [R!Copiers -> Seq(Int)]  BY <1>0, <2>1, <3>0 DEF RelayTypes
        <3>2. to' \in [R!Copiers -> R!Sides \cup {R!NoAddr}]
            BY <1>0, <1>1, <2>1 DEF RelayTypes
        <3>3. copier' \in [R!Copiers -> CopierStates]
            BY <1>0, <2>1 DEF RelayTypes, CopierStates
        <3> QED  BY <1>0, <1>3, <3>1, <3>2, <3>3 DEF RelayTypes
    <2>4. CopierInv(c)'
        <3>1. Len(out'[R!To(c)]) = n /\ n + 1 = n + Len(chunk'[c]) /\ sent'[f] = sent[f]
            BY <1>0, <1>1, <2>2
        <3>2. Ordered(queue'[f], n + 1, sent'[f])  BY <1>2, <1>3, <1>5, <3>1
        <3>3. n + 1 <= sent'[f]  BY <1>2, <1>5, <3>1
        <3>4. R!InOrder(c, out[R!To(c)])'  BY <1>0, <1>1, LongKept
        <3>5. R!Filled(c, Len(out[R!To(c)]) + 1)' = R!Filled(c, n + 1)  BY <1>0, LongKept
        <3> HIDE DEF n
        <3> QED  BY <2>2, <3>1, <3>2, <3>3, <3>4, <3>5 DEF CopierInv
    <2>5. ASSUME NEW d \in R!Copiers, d # c PROVE CopierInv(d)'
        <3>1. chunk'[d] = chunk[d] /\ to'[d] = to[d] /\ copier'[d] = copier[d]
            BY <1>0, <2>1, <2>5 DEF RelayTypes
        <3>2. queue'[R!From(d)] = queue[R!From(d)]  BY <1>3, <2>5, SidesOf
        <3> QED  BY <1>0, <3>1, <3>2, OtherCopier DEF RelayInv
    <2> QED  BY <1>0, <2>3, <2>4, <2>5 DEF RelayInv
<1> QED  BY <1>4, <1>5

(* What it writes is the next packet that the other peer gets.             *)
LEMMA WriteKeeps ==
    ASSUME RelayInv, NEW c \in R!Copiers, R!Write(c)
    PROVE  RelayInv'
<1> DEFINE f == R!From(c)
           t == R!To(c)
           n == Len(out[t])
<1>0. /\ RelayTypes /\ CopierInv(c) /\ UNCHANGED <<long, sent, queue, to>>
      /\ copier[c] = "write"
      /\ out' = [out EXCEPT ![to[c]] = @ \o chunk[c]]
      /\ chunk' = [chunk EXCEPT ![c] = <<>>] /\ copier' = [copier EXCEPT ![c] = "loop"]
    BY DEF RelayInv, R!Write, R!Goto, R!network, R!fixed
<1>1. /\ f \in R!Sides /\ t \in R!Sides /\ out[t] \in Seq(Int) /\ n \in Nat
      /\ chunk[c] = <<R!Filled(c, n + 1)>> /\ to[c] = t /\ R!InOrder(c, out[t])
      /\ n + 1 <= sent[f] /\ Ordered(queue[f], n + 1, sent[f])
    <2>1. /\ f \in R!Sides /\ t \in R!Sides /\ out[t] \in Seq(Int) /\ n \in Nat
        BY <1>0, SidesOf DEF RelayTypes
    <2>2. /\ chunk[c] = <<R!Filled(c, n + 1)>> /\ to[c] = t /\ R!InOrder(c, out[t])
          /\ n + Len(chunk[c]) <= sent[f] /\ Ordered(queue[f], n + Len(chunk[c]), sent[f])
        BY <1>0 DEF CopierInv, Copying
    <2>3. n + Len(chunk[c]) = n + 1
        <3> HIDE DEF n
        <3> QED  BY <2>1, <2>2
    <2> QED  BY <2>1, <2>2, <2>3
<1> DEFINE more == out[t] \o <<R!Filled(c, n + 1)>>
<1>2. more \in Seq(Int) /\ Len(more) = n + 1 /\ R!InOrder(c, more)
    <2>1. R!Filled(c, n + 1) \in Int  BY <1>1 DEF R!Filled
    <2>2. PICK x \in Int : x = R!Filled(c, n + 1)  BY <2>1
    <2>3. PICK o \in Seq(Int) : o = out[t]  BY <1>1
    <2>4. more = o \o <<x>> /\ Len(o) = n  BY <2>2, <2>3
    <2>5. /\ o \o <<x>> \in Seq(Int) /\ Len(o \o <<x>>) = Len(o) + 1
          /\ DOMAIN (o \o <<x>>) = 1..(Len(o) + 1) /\ DOMAIN o = 1..Len(o) /\ Len(o) \in Nat
          /\ (o \o <<x>>)[Len(o) + 1] = x
          /\ \A k \in 1..Len(o) : (o \o <<x>>)[k] = o[k]
        OBVIOUS
    <2>6. \A k \in DOMAIN o : o[k] = R!Filled(c, k)  BY <1>1, <2>3 DEF R!InOrder
    <2>7. \A k \in 1..(Len(o) + 1) : k \in 1..Len(o) \/ k = Len(o) + 1  BY <2>5
    <2> HIDE DEF n, more
    <2>8. ASSUME NEW k \in DOMAIN more PROVE more[k] = R!Filled(c, k)
        BY <2>2, <2>4, <2>5, <2>6, <2>7
    <2> QED  BY <2>4, <2>5, <2>8 DEF R!InOrder
<1>3. /\ out'[t] = more
      /\ out' \in [R!Sides \cup {"stranger"} -> Seq(Int)]
      /\ \A a \in R!Sides \cup {"stranger"} : a # t => out'[a] = out[a]
    BY <1>0, <1>1, <1>2 DEF RelayTypes
<1>4. chunk'[c] = <<>> /\ copier'[c] = "loop" /\ Len(<<>>) = 0
    BY <1>0 DEF RelayTypes
<1>5. RelayTypes'
    <2>1. chunk' \in [R!Copiers -> Seq(Int)]  BY <1>0 DEF RelayTypes
    <2>2. copier' \in [R!Copiers -> CopierStates]  BY <1>0 DEF RelayTypes, CopierStates
    <2> QED  BY <1>0, <1>3, <2>1, <2>2 DEF RelayTypes
<1>6. CopierInv(c)'
    <2>1. Len(out'[t]) = n + 1 /\ n + 1 + 0 = n + 1  BY <1>1, <1>2, <1>3
    <2>2. R!InOrder(c, out[t])'
        <3>1. \A k : R!Filled(c, k)' = R!Filled(c, k)  BY <1>0 DEF R!Filled
        <3> QED  BY <1>2, <1>3, <3>1 DEF R!InOrder
    <2> HIDE DEF n, more
    <2> QED  BY <1>0, <1>1, <1>4, <2>1, <2>2 DEF CopierInv
<1>7. ASSUME NEW d \in R!Copiers, d # c PROVE CopierInv(d)'
    <2>1. chunk'[d] = chunk[d] /\ copier'[d] = copier[d]
        BY <1>0, <1>7 DEF RelayTypes
    <2>2. out'[R!To(d)] = out[R!To(d)]  BY <1>3, <1>7, SidesOf
    <2> QED  BY <1>0, <2>1, <2>2, OtherCopier DEF RelayInv
<1>8. out'["stranger"] = <<>>  BY <1>1, <1>3, SidesOf DEF RelayInv
<1>9. NotYet'
    BY <1>0 DEF RelayInv, NotYet, R!Write
<1> QED  BY <1>5, <1>6, <1>7, <1>8, <1>9 DEF RelayInv

(* A packet that is too long ends the goroutine, which has read nothing    *)
(* that it could send.                                                     *)
LEMMA TooLongKeeps ==
    ASSUME RelayInv, NEW c \in R!Copiers, R!ReadTooLong(c)
    PROVE  RelayInv'
<1>0. /\ RelayTypes /\ CopierInv(c) /\ UNCHANGED <<long, sent, chunk, to, out>>
      /\ queue[R!From(c)] # <<>> /\ queue' = [queue EXCEPT ![R!From(c)] = Tail(@)]
      /\ copier' = [copier EXCEPT ![c] = "result"] /\ NotYet'
    BY DEF RelayInv, NotYet, R!ReadTooLong, R!Goto, R!fixed
<1>1. /\ queue' \in [R!Sides -> Seq(Nat)]
      /\ \A s \in R!Sides : s # R!From(c) => queue'[s] = queue[s]
    <2>1. queue \in [R!Sides -> Seq(Nat)] /\ R!From(c) \in R!Sides
        BY <1>0, SidesOf DEF RelayTypes
    <2>2. Tail(queue[R!From(c)]) \in Seq(Nat)  BY <1>0, <2>1
    <2> QED  BY <1>0, <2>1, <2>2
<1>2. /\ copier' \in [R!Copiers -> CopierStates] /\ copier'[c] = "result"
      /\ \A d \in R!Copiers : d # c => copier'[d] = copier[d]
    BY <1>0 DEF RelayTypes, CopierStates
<1>3. RelayTypes'  BY <1>0, <1>1, <1>2 DEF RelayTypes
<1>4. CopierInv(c)'
    <2>1. ~Copying(c)'  BY <1>2 DEF Copying
    <2> QED  BY <1>0, <1>2, <2>1, LongKept DEF CopierInv
<1>5. ASSUME NEW d \in R!Copiers, d # c PROVE CopierInv(d)'
    BY <1>0, <1>1, <1>2, <1>5, SidesOf, OtherCopier DEF RelayInv
<1> QED  BY <1>0, <1>3, <1>4, <1>5 DEF RelayInv

(* Every step of the relay keeps the invariant.                            *)
LEMMA RelayStep == RelayInv /\ [R!Next]_R!vars => RelayInv'
<1> SUFFICES ASSUME RelayInv, [R!Next]_R!vars PROVE RelayInv'  OBVIOUS
<1>0. copier \in [R!Copiers -> CopierStates] /\ NotYet  BY DEF RelayInv, RelayTypes
<1>1. ASSUME R!StrangerSends \/ \E s \in R!Sides : R!Send(s) PROVE RelayInv'
    BY <1>1, PeersKeep
<1>2. ASSUME UNCHANGED <<long, sent, queue, chunk, to, out, copier>>, NotYet' PROVE RelayInv'
    BY <1>0, <1>2, CopierMoves
<1>3. ASSUME NEW s \in R!Sides, R!End(s) PROVE RelayInv'
    BY <1>0, <1>2, <1>3 DEF R!End, R!fixed, NotYet
<1>4. ASSUME R!Accept \/ R!Receive \/ R!Close \/ UNCHANGED R!vars PROVE RelayInv'
    BY <1>0, <1>2, <1>4 DEF R!Accept, R!Receive, R!Close, R!vars, R!network, R!fixed, NotYet
<1>5. ASSUME R!Dial PROVE RelayInv'
    <2>1. /\ UNCHANGED <<long, sent, queue, chunk, to, out>>
          /\ copier' = copier \/ copier' = [c \in R!Copiers |-> "loop"]
        BY <1>5 DEF R!Dial, R!network, R!fixed
    <2>2. CASE copier' = copier
        BY <1>2, <1>5, <2>1, <2>2 DEF R!Dial, NotYet, RelayInv
    <2>3. CASE copier' = [c \in R!Copiers |-> "loop"]
        <3>1. \A c \in R!Copiers : copier[c] = "none"
            BY <1>5 DEF R!Dial, RelayInv, NotYet
        <3>2. NotYet'  BY <1>5, <2>3 DEF R!Dial, NotYet
        <3> QED  BY <2>1, <2>3, <3>1, <3>2, CopierMoves DEF CopierStates
    <2> QED  BY <2>1, <2>2, <2>3
<1>6. ASSUME NEW c \in R!Copiers, R!Loop(c) PROVE RelayInv'
    BY <1>0, <1>6, CopierMoves DEF R!Loop, R!Goto, R!network, R!fixed, CopierStates, NotYet
<1>7. ASSUME NEW c \in R!Copiers, R!ReadEnds(c) \/ R!Timeout(c) \/ R!WriteFails(c)
      PROVE  RelayInv'
    BY <1>0, <1>7, CopierMoves DEF R!ReadEnds, R!Timeout, R!WriteFails, R!Goto, R!network,
       R!fixed, CopierStates, NotYet
<1>8. ASSUME NEW c \in R!Copiers, R!Result(c) PROVE RelayInv'
    BY <1>0, <1>8, CopierMoves DEF R!Result, R!Goto, R!network, R!fixed, CopierStates, NotYet
<1> QED
    BY <1>1, <1>3, <1>4, <1>5, <1>6, <1>7, <1>8, ReadKeeps, WriteKeeps,
       TooLongKeeps DEF R!Next, R!Copy

(* Each peer gets what the other one sent, in order and nothing else, the  *)
(* packets that fit the buffer whole and the longer ones cut to it: for    *)
(* any number of packets, of the peers and of strangers, and whatever ends *)
(* or fails.                                                               *)
THEOREM RelaysInOrder == R!Spec => []NothingMixedUp
<1>1. R!Spec => []RelayInv  BY RelayInit, RelayStep, PTL DEF R!Spec
<1>2. ASSUME RelayInv, NEW c \in R!Copiers
      PROVE  LET got == out[R!To(c)] \o chunk[c]
                 q == queue[R!From(c)]
                 waiting == {k \in DOMAIN q : q[k] # R!Stranger}
             IN  /\ R!InOrder(c, got) /\ Len(got) <= sent[R!From(c)]
                 /\ copier[c] \notin {"result", "end"} =>
                      /\ {q[k] : k \in waiting} = (Len(got) + 1)..sent[R!From(c)]
                      /\ \A j, k \in waiting : j < k => q[j] < q[k]
    <2> DEFINE o == out[R!To(c)]
               q == queue[R!From(c)]
               m == sent[R!From(c)]
               n == Len(o \o chunk[c])
    <2>1. /\ o \in Seq(Int) /\ q \in Seq(Nat) /\ m \in Nat
          /\ chunk[c] \in {<<>>, <<R!Filled(c, Len(o) + 1)>>}
          /\ R!InOrder(c, o) /\ Len(o) + Len(chunk[c]) <= m
          /\ Copying(c) => Ordered(q, Len(o) + Len(chunk[c]), m)
        BY <1>2, SidesOf DEF RelayInv, RelayTypes, CopierInv
    <2> HIDE DEF o, q, m
    <2>2. R!InOrder(c, o \o chunk[c]) /\ n = Len(o) + Len(chunk[c]) /\ n \in Nat
        <3>1. CASE chunk[c] = <<>>
            BY <2>1, <3>1 DEF R!InOrder
        <3>2. CASE chunk[c] = <<R!Filled(c, Len(o) + 1)>>
            <4>1. R!Filled(c, Len(o) + 1) \in Int  BY <2>1 DEF R!Filled
            <4>2. PICK x \in Int : x = R!Filled(c, Len(o) + 1)  BY <4>1
            <4>3. /\ Len(o \o <<x>>) = Len(o) + 1 /\ Len(<<x>>) = 1
                  /\ DOMAIN (o \o <<x>>) = 1..(Len(o) + 1) /\ DOMAIN o = 1..Len(o)
                  /\ Len(o) \in Nat /\ (o \o <<x>>)[Len(o) + 1] = x
                  /\ \A k \in 1..Len(o) : (o \o <<x>>)[k] = o[k]
                BY <2>1
            <4>4. \A k \in 1..(Len(o) + 1) : k \in 1..Len(o) \/ k = Len(o) + 1  BY <4>3
            <4>5. R!InOrder(c, o \o <<x>>)  BY <2>1, <4>2, <4>3, <4>4 DEF R!InOrder
            <4> QED  BY <3>2, <4>2, <4>3, <4>5
        <3> QED  BY <2>1, <3>1, <3>2
    <2> HIDE DEF n
    <2>3. DOMAIN q = 1..Len(q)  BY <2>1
    <2>4. ASSUME Copying(c)
          PROVE  /\ {q[k] : k \in {j \in DOMAIN q : q[j] # R!Stranger}} = (n + 1)..m
                 /\ \A j, k \in {i \in DOMAIN q : q[i] # R!Stranger} : j < k => q[j] < q[k]
        <3>1. Ordered(q, n, m)  BY <2>1, <2>2, <2>4
        <3>2. \A v \in (n + 1)..m : v # R!Stranger  BY <2>1, <2>2 DEF R!Stranger
        <3>3. {q[k] : k \in {j \in DOMAIN q : q[j] # R!Stranger}} = (n + 1)..m
            BY <2>3, <3>1, <3>2 DEF Ordered
        <3>4. \A j, k \in {i \in DOMAIN q : q[i] # R!Stranger} : j < k => q[j] < q[k]
            BY <2>1, <2>3, <3>1 DEF Ordered
        <3> QED  BY <3>3, <3>4
    <2>5. n <= m  BY <2>1, <2>2
    <2> QED  BY <2>2, <2>4, <2>5 DEF o, q, m, n, Copying
<1>3. RelayInv => NothingMixedUp
    BY <1>2, Zenon DEF RelayInv, R!NothingMixedUp, NothingMixedUp
<1> QED  BY <1>1, <1>3, PTL

-----------------------------------------------------------------------------
(***************************************************************************)
(* The vectorised writers.                                                 *)
(***************************************************************************)
WriterStates ==
    {"idle", "lock", "append", "write", "clear", "release", "unlock", "copy", "send"}
InLock == {"append", "write", "clear", "release", "unlock"}

(* The packet of call n of g, and its parts.                               *)
PacketOf(g, n) == W!Whole(g, n)
PartOf(g, n, k) == W!Part(g, n, k)
Packets == {PacketOf(g, n) : g \in Goroutines, n \in 1..MaxCalls}

(* Between Fill and Release.                                               *)
Writing(g) == pc[g] \notin {"idle", "unlock"}

(* The arrays that a call holds.                                           *)
Holds(g) == (W!Range(buffers[g]) \ {W!Header}) \cup ({temp[g]} \ {W!None})

WriterTypes ==
    /\ kind \in {"syscall", "buffered"}
    /\ pc \in [Goroutines -> WriterStates]
    /\ \A g \in Goroutines :
         /\ kind = "syscall" => pc[g] \notin {"copy", "send"}
         /\ kind = "buffered" => pc[g] \in {"idle", "copy", "send", "release"}
    /\ calls \in [Goroutines -> 0..MaxCalls]
    /\ result \in [Goroutines -> {W!None, "nil", "error", "panic"}]
    /\ buffers = [g \in Goroutines |-> buffers[g]]
    /\ temp \in [Goroutines -> Arrays \cup {W!None}]
    /\ mem = [a \in Arrays |-> mem[a]]
    /\ iovecList \in [1..(Parts + 1) -> Arrays \cup {W!Header, W!None}]
    /\ length \in 0..(Parts + 1)
    /\ wire \in Seq(Packets)

(* What a call holds is its own packet.                                    *)
Own(g) ==
    /\ Writing(g) =>
         /\ calls[g] > 0
         /\ buffers[g] \in [1..(Parts + 1) -> Arrays \cup {W!Header}]
         /\ buffers[g][1] = W!Header
         /\ \A k \in 2..(Parts + 1) : /\ buffers[g][k] \in Arrays
                                      /\ mem[buffers[g][k]] = PartOf(g, calls[g], k - 1)
    /\ ~Writing(g) => buffers[g] = <<>>
    /\ temp[g] # W!None <=> kind = "buffered" /\ pc[g] \in {"send", "release"}
    /\ temp[g] # W!None => mem[temp[g]] = PacketOf(g, calls[g])

BufferInv == \A g \in Goroutines : Own(g)

(* Every array is in the pool or held by one call.                         *)
PoolInv ==
    /\ pool \subseteq Arrays
    /\ \A g \in Goroutines : Holds(g) \subseteq Arrays \ pool
    /\ \A g, h \in Goroutines : g # h => Holds(g) \cap Holds(h) = {}
    /\ \A a \in Arrays \ pool : \E g \in Goroutines : a \in Holds(g)

(* The list of iovecs belongs to the holder of the mutex, and points to    *)
(* its buffers; an entry that was not cleared is of a call that panicked,  *)
(* or of one that has still to clear it.                                   *)
ListInv ==
    /\ kind = "buffered" => access = W!None /\ \A k \in 1..(Parts + 1) : iovecList[k] = W!None
    /\ kind = "syscall" => \A g \in Goroutines : access = g <=> pc[g] \in InLock
    /\ \A g \in Goroutines :
         /\ pc[g] \in {"append", "write", "clear"} =>
              \A k \in 1..length : iovecList[k] = buffers[g][k]
         /\ pc[g] \in {"write", "clear"} => length = Parts + 1
    /\ (\E k \in 1..(Parts + 1) : iovecList[k] # W!None) =>
         \E g \in Goroutines : result[g] = "panic" \/ pc[g] \in {"lock", "append", "write", "clear"}

(* What is on the wire was sent by a call that began, and the packet of    *)
(* the last call is on it once if the call was successful, else not.       *)
Wired(g, n) == {k \in DOMAIN wire : wire[k] = PacketOf(g, n)}

WireInv ==
    /\ \A k \in DOMAIN wire : \E g \in Goroutines : \E n \in 1..calls[g] : wire[k] = PacketOf(g, n)
    /\ \A g \in Goroutines :
         /\ pc[g] \in {"lock", "append", "write", "copy", "send"} => result[g] = W!None
         /\ calls[g] > 0 /\ result[g] = "nil" => \E k \in DOMAIN wire : Wired(g, calls[g]) = {k}
         /\ calls[g] > 0 /\ result[g] # "nil" => Wired(g, calls[g]) = {}

WriterInv == WriterTypes /\ BufferInv /\ PoolInv /\ ListInv /\ WireInv

(* Of a packet: the header and then its parts, so two packets differ.      *)
LEMMA WholeIs ==
    ASSUME NEW g, NEW n
    PROVE  /\ DOMAIN PacketOf(g, n) = 1..(Parts + 1)
           /\ PacketOf(g, n)[1] = PartOf(W!Header, 0, 0)
           /\ \A k \in 2..(Parts + 1) : PacketOf(g, n)[k] = PartOf(g, n, k - 1)
           /\ \A h, m : PacketOf(g, n) = PacketOf(h, m) => g = h /\ n = m
<1>1. Parts \in Nat \ {0} /\ 1 \in 1..(Parts + 1) /\ 2 \in 2..(Parts + 1)
    BY VectorisedWriterAssumption
<1>2. ASSUME NEW h, NEW m
      PROVE  /\ DOMAIN PacketOf(h, m) = 1..(Parts + 1)
             /\ PacketOf(h, m)[1] = PartOf(W!Header, 0, 0)
             /\ \A k \in 2..(Parts + 1) : PacketOf(h, m)[k] = PartOf(h, m, k - 1)
    <2>1. \A k \in 2..(Parts + 1) : k \in 1..(Parts + 1) /\ k # 1 /\ k - 1 \in 1..Parts
        BY <1>1
    <2> QED  BY <1>1, <2>1 DEF PacketOf, PartOf, W!Whole, W!Behind
<1>3. ASSUME NEW h, NEW m, PacketOf(g, n) = PacketOf(h, m) PROVE g = h /\ n = m
    <2>1. PacketOf(g, n)[2] = PartOf(g, n, 2 - 1)  BY <1>1, <1>2
    <2>2. PacketOf(h, m)[2] = PartOf(h, m, 2 - 1)  BY <1>1, <1>2
    <2> QED  BY <1>3, <2>1, <2>2 DEF PartOf, W!Part
<1> QED  BY <1>2, <1>3

(* What a call has in its buffers is its packet.                           *)
LEMMA GatheredIs ==
    ASSUME BufferInv, NEW g \in Goroutines, Writing(g),
           NEW arrays, DOMAIN arrays = 1..(Parts + 1),
           \A k \in 1..(Parts + 1) : arrays[k] = buffers[g][k]
    PROVE  W!Gathered(arrays) = PacketOf(g, calls[g])
<1>1. /\ buffers[g][1] = W!Header /\ Parts \in Nat
      /\ \A k \in 2..(Parts + 1) : /\ buffers[g][k] \in Arrays
                                   /\ mem[buffers[g][k]] = PartOf(g, calls[g], k - 1)
      /\ W!Header \notin Arrays
    BY VectorisedWriterAssumption DEF BufferInv, Own, W!Header
<1>2. ASSUME NEW k \in 1..(Parts + 1)
      PROVE  W!Now(arrays[k]) = PacketOf(g, calls[g])[k]
    <2>1. CASE k = 1
        BY <1>1, <2>1, WholeIs DEF W!Now, PartOf
    <2>2. CASE k # 1
        <3>1. k \in 2..(Parts + 1)  BY <1>1, <2>2
        <3> QED  BY <1>1, <3>1, WholeIs DEF W!Now, PartOf
    <2> QED  BY <2>1, <2>2
<1>3. PacketOf(g, calls[g]) = [k \in 1..(Parts + 1) |-> PacketOf(g, calls[g])[k]]
    BY DEF PacketOf, PartOf, W!Whole, W!Behind
<1>4. W!Gathered(arrays) = [k \in 1..(Parts + 1) |-> W!Now(arrays[k])]
    BY DEF W!Gathered
<1> QED  BY <1>2, <1>3, <1>4

(* Nothing is held at first.                                               *)
LEMMA WriterInit == ASSUME W!Init PROVE WriterInv
<1>1. /\ kind \in {"syscall", "buffered"} /\ Parts \in Nat /\ MaxCalls \in Nat
      /\ W!None \notin Goroutines
    BY VectorisedWriterAssumption DEF W!Init, W!None
<1>2. /\ pc = [g \in Goroutines |-> "idle"] /\ buffers = [g \in Goroutines |-> <<>>]
      /\ temp = [g \in Goroutines |-> W!None] /\ calls = [g \in Goroutines |-> 0]
      /\ result = [g \in Goroutines |-> W!None] /\ mem = [a \in Arrays |-> <<>>]
      /\ pool = Arrays /\ access = W!None /\ iovecList = [k \in 1..(Parts + 1) |-> W!None]
      /\ length = 0 /\ wire = <<>>
    BY DEF W!Init
<1>3. WriterTypes
    BY <1>1, <1>2 DEF WriterTypes, WriterStates
<1>4. \A g \in Goroutines : ~Writing(g) /\ buffers[g] = <<>> /\ temp[g] = W!None /\ pc[g] = "idle"
    BY <1>2 DEF Writing
<1>5. BufferInv  BY <1>4 DEF BufferInv, Own
<1>6. \A g \in Goroutines : Holds(g) = {}  BY <1>4 DEF Holds, W!Range
<1>7. PoolInv  BY <1>2, <1>6 DEF PoolInv
<1>8. ListInv  BY <1>1, <1>2, <1>4 DEF ListInv, InLock
<1>9. WireInv  BY <1>2, <1>4 DEF WireInv
<1> QED  BY <1>3, <1>5, <1>7, <1>8, <1>9 DEF WriterInv

(* A step of g that leaves the arrays and what is in them alone.           *)
LEMMA ArraysKept ==
    ASSUME WriterInv, NEW g \in Goroutines, NEW at \in WriterStates,
           UNCHANGED <<kind, buffers, temp, calls, mem, pool>>,
           W!Goto(g, at), Writing(g) <=> at \notin {"idle", "unlock"},
           temp[g] # W!None <=> kind = "buffered" /\ at \in {"send", "release"}
    PROVE  BufferInv' /\ PoolInv'
<1>1. /\ pc'[g] = at
      /\ \A h \in Goroutines : h # g => pc'[h] = pc[h]
    BY DEF WriterInv, WriterTypes, W!Goto
<1>2. \A h \in Goroutines : Writing(h)' <=> Writing(h)
    BY <1>1 DEF Writing
<1>3. \A h \in Goroutines :
        temp'[h] # W!None <=> kind' = "buffered" /\ pc'[h] \in {"send", "release"}
    BY <1>1 DEF WriterInv, BufferInv, Own
<1>4. BufferInv'
    <2> SUFFICES ASSUME NEW h \in Goroutines
                 PROVE  /\ Writing(h) =>
                             /\ calls[h] > 0
                             /\ buffers[h] \in [1..(Parts + 1) -> Arrays \cup {W!Header}]
                             /\ buffers[h][1] = W!Header
                             /\ \A k \in 2..(Parts + 1) :
                                  /\ buffers[h][k] \in Arrays
                                  /\ mem[buffers[h][k]] = PartOf(h, calls[h], k - 1)
                        /\ ~Writing(h) => buffers[h] = <<>>
                        /\ temp[h] # W!None => mem[temp[h]] = PacketOf(h, calls[h])
        BY <1>2, <1>3 DEF BufferInv, Own, W!None, W!Header
    <2> QED  BY DEF WriterInv, BufferInv, Own
<1>5. \A h \in Goroutines : Holds(h)' = Holds(h)  BY DEF Holds
<1>6. PoolInv'  BY <1>5 DEF WriterInv, PoolInv
<1> QED  BY <1>4, <1>6

(* The types of where the goroutines are, after a step of g.               *)
LEMMA Moves ==
    ASSUME WriterTypes, NEW g \in Goroutines, NEW at \in WriterStates, W!Goto(g, at), kind' = kind,
           kind = "syscall" => at \notin {"copy", "send"},
           kind = "buffered" => at \in {"idle", "copy", "send", "release"}
    PROVE  /\ pc' \in [Goroutines -> WriterStates]
           /\ pc'[g] = at /\ \A h \in Goroutines : h # g => pc'[h] = pc[h]
           /\ \A h \in Goroutines :
                /\ kind' = "syscall" => pc'[h] \notin {"copy", "send"}
                /\ kind' = "buffered" => pc'[h] \in {"idle", "copy", "send", "release"}
BY DEF WriterTypes, W!Goto

(* A step of g that puts nothing on the wire.                              *)
LEMMA WireKept ==
    ASSUME WriterInv, NEW g \in Goroutines, NEW at \in WriterStates, W!Goto(g, at),
           UNCHANGED <<calls, wire>>,
           \/ /\ result' = result
              /\ at \in {"lock", "append", "write", "copy", "send"} => result[g] = W!None
           \/ /\ result[g] = W!None
              /\ \E r \in {"error", "panic"} : result' = [result EXCEPT ![g] = r]
              /\ at \notin {"lock", "append", "write", "copy", "send"}
    PROVE  WireInv'
<1>1. /\ pc'[g] = at
      /\ \A h \in Goroutines : h # g => pc'[h] = pc[h] /\ result'[h] = result[h]
      /\ result'[g] = "nil" => result[g] = "nil"
      /\ result[g] = "nil" => result'[g] = "nil"
      /\ at \in {"lock", "append", "write", "copy", "send"} => result'[g] = W!None
    BY DEF WriterInv, WriterTypes, W!Goto, W!None
<1>2. \A h, n : Wired(h, n)' = Wired(h, n)
    BY DEF Wired, W!None, W!Header
<1>3. \A k \in DOMAIN wire' : \E h \in Goroutines : \E n \in 1..calls'[h] :
        wire'[k] = PacketOf(h, n)
    BY DEF WriterInv, WireInv
<1>4. ASSUME NEW h \in Goroutines
      PROVE  /\ pc'[h] \in {"lock", "append", "write", "copy", "send"} => result'[h] = W!None
             /\ calls'[h] > 0 /\ result'[h] = "nil" =>
                  \E k \in DOMAIN wire' : Wired(h, calls[h]) = {k}
             /\ calls'[h] > 0 /\ result'[h] # "nil" => Wired(h, calls[h]) = {}
    BY <1>1 DEF WriterInv, WireInv
<1> QED  BY <1>2, <1>3, <1>4 DEF WireInv, W!None, W!Header

(* A call that puts its packet on the wire, as long as it has not yet.     *)
LEMMA WireGrows ==
    ASSUME WriterInv, NEW g \in Goroutines,
           NEW at \in {"clear", "release"}, W!Goto(g, at), UNCHANGED calls,
           result' = [result EXCEPT ![g] = "nil"],
           calls[g] > 0, result[g] = W!None, wire' = Append(wire, PacketOf(g, calls[g]))
    PROVE  WireInv' /\ wire' \in Seq(Packets)
<1> DEFINE n == calls[g]
           w == PacketOf(g, n)
<1>1. /\ wire \in Seq(Packets) /\ calls \in [Goroutines -> 0..MaxCalls]
      /\ result \in [Goroutines -> {W!None, "nil", "error", "panic"}]
    BY DEF WriterInv, WriterTypes
<1>2. n \in 1..MaxCalls /\ w \in Packets
    BY <1>1, VectorisedWriterAssumption DEF Packets
<1>3. wire' \in Seq(Packets)  BY <1>1, <1>2
<1> HIDE DEF w
<1>4. /\ DOMAIN wire = 1..Len(wire) /\ DOMAIN wire' = 1..(Len(wire) + 1) /\ Len(wire) \in Nat
      /\ wire'[Len(wire) + 1] = w /\ \A k \in 1..Len(wire) : wire'[k] = wire[k]
    BY <1>1, <1>2 DEF w
<1>5. /\ pc'[g] = at /\ result'[g] = "nil"
      /\ \A h \in Goroutines : h # g => pc'[h] = pc[h] /\ result'[h] = result[h]
    BY <1>1 DEF WriterInv, WriterTypes, W!Goto
<1>6. \A h, m : w = PacketOf(h, m) => h = g /\ m = n
    BY WholeIs DEF w
<1>7. Wired(g, n)' = {Len(wire) + 1}
    <2>1. W!None # "nil"  BY DEF W!None
    <2>2. \A k \in 1..Len(wire) : wire[k] # w
        BY <1>4, <2>1 DEF WriterInv, WireInv, Wired, w
    <2> QED  BY <1>4, <2>2 DEF Wired, w, W!None, W!Header
<1>8. ASSUME NEW h \in Goroutines, h # g PROVE Wired(h, calls[h])' = Wired(h, calls[h])
    <2>1. PacketOf(h, calls[h]) # w  BY <1>6, <1>8
    <2> QED  BY <1>4, <2>1 DEF Wired, W!None, W!Header
<1>9. ASSUME NEW k \in DOMAIN wire'
      PROVE  \E h \in Goroutines : \E m \in 1..calls'[h] : wire'[k] = PacketOf(h, m)
    <2>1. CASE k = Len(wire) + 1
        <3>1. n \in 1..calls'[g]  BY <1>2
        <3> QED  BY <1>4, <2>1, <3>1 DEF w
    <2>2. CASE k \in 1..Len(wire)
        BY <1>4, <2>2 DEF WriterInv, WireInv
    <2> QED  BY <1>4, <2>1, <2>2
<1>10. ASSUME NEW h \in Goroutines
       PROVE  /\ pc'[h] \in {"lock", "append", "write", "copy", "send"} => result'[h] = W!None
              /\ calls'[h] > 0 /\ result'[h] = "nil" =>
                   \E k \in DOMAIN wire' : Wired(h, calls[h])' = {k}
              /\ calls'[h] > 0 /\ result'[h] # "nil" => Wired(h, calls[h])' = {}
    <2>1. CASE h = g
        <3>1. Len(wire) + 1 \in DOMAIN wire'  BY <1>4
        <3> QED  BY <1>5, <1>7, <2>1, <3>1
    <2>2. CASE h # g
        <3>1. /\ pc[h] \in {"lock", "append", "write", "copy", "send"} => result[h] = W!None
              /\ calls[h] > 0 /\ result[h] = "nil" =>
                   \E k \in DOMAIN wire : Wired(h, calls[h]) = {k}
              /\ calls[h] > 0 /\ result[h] # "nil" => Wired(h, calls[h]) = {}
            BY DEF WriterInv, WireInv
        <3>2. DOMAIN wire \subseteq DOMAIN wire'  BY <1>4
        <3>3. pc'[h] = pc[h] /\ result'[h] = result[h] /\ Wired(h, calls[h])' = Wired(h, calls[h])
            BY <1>5, <1>8, <2>2
        <3> QED  BY <3>1, <3>2, <3>3
    <2> QED  BY <2>1, <2>2
<1> QED  BY <1>3, <1>9, <1>10 DEF WireInv, W!None, W!Header

(* What is in the list, after a step of g that changes neither the list    *)
(* nor the mutex.                                                          *)
LEMMA ListKept ==
    ASSUME WriterInv, NEW g \in Goroutines, NEW at \in WriterStates, W!Goto(g, at),
           UNCHANGED <<kind, access, iovecList, length>>,
           kind = "syscall" => (pc[g] \in InLock <=> at \in InLock),
           \A h \in Goroutines : h # g => buffers'[h] = buffers[h] /\ result'[h] = result[h],
           at \in {"append", "write", "clear"} =>
             buffers'[g] = buffers[g] /\ \A k \in 1..length : iovecList[k] = buffers[g][k],
           at \in {"write", "clear"} => length = Parts + 1,
           result[g] = "panic" \/ pc[g] \in {"lock", "append", "write", "clear"} =>
             \/ result'[g] = "panic" \/ at \in {"lock", "append", "write", "clear"}
             \/ \A k \in 1..(Parts + 1) : iovecList[k] = W!None
    PROVE  ListInv'
<1>1. /\ pc'[g] = at
      /\ \A h \in Goroutines : h # g => pc'[h] = pc[h]
    BY DEF WriterInv, WriterTypes, W!Goto
<1>2. /\ kind' = "buffered" =>
           access' = W!None /\ \A k \in 1..(Parts + 1) : iovecList'[k] = W!None
      /\ kind' = "syscall" => \A h \in Goroutines : access' = h <=> pc'[h] \in InLock
    BY <1>1 DEF WriterInv, ListInv
<1>3. ASSUME NEW h \in Goroutines
      PROVE  /\ pc'[h] \in {"append", "write", "clear"} =>
                  \A k \in 1..length' : iovecList'[k] = buffers'[h][k]
             /\ pc'[h] \in {"write", "clear"} => length' = Parts + 1
    <2>1. CASE h = g
        BY <1>1, <2>1
    <2>2. CASE h # g
        BY <1>1, <2>2 DEF WriterInv, ListInv
    <2> QED  BY <2>1, <2>2
<1>4. ASSUME NEW k \in 1..(Parts + 1), iovecList'[k] # W!None
      PROVE  \E h \in Goroutines :
               result'[h] = "panic" \/ pc'[h] \in {"lock", "append", "write", "clear"}
    <2>1. PICK h \in Goroutines :
            result[h] = "panic" \/ pc[h] \in {"lock", "append", "write", "clear"}
        BY <1>4 DEF WriterInv, ListInv
    <2>2. CASE h = g
        BY <1>1, <1>4, <2>1, <2>2
    <2>3. CASE h # g
        BY <1>1, <2>1, <2>3
    <2> QED  BY <2>2, <2>3
<1> QED  BY <1>2, <1>3, <1>4 DEF ListInv, InLock, W!None

(* A goroutine takes the mutex and begins with an empty list.              *)
LEMMA LockKeeps ==
    ASSUME WriterInv, NEW g \in Goroutines, W!Lock(g)
    PROVE  WriterInv'
<1>1. /\ pc[g] = "lock" /\ access = W!None /\ access' = g /\ length' = 0 /\ W!Goto(g, "append")
      /\ UNCHANGED <<kind, buffers, temp, calls, result, mem, pool, iovecList, wire>>
    BY DEF W!Lock
<1>2. WriterTypes /\ kind = "syscall" /\ "append" \in WriterStates /\ temp[g] = W!None
    BY <1>1 DEF WriterInv, WriterTypes, BufferInv, Own, WriterStates
<1>3. /\ pc' \in [Goroutines -> WriterStates]
      /\ pc'[g] = "append" /\ \A h \in Goroutines : h # g => pc'[h] = pc[h]
      /\ \A h \in Goroutines :
           /\ kind' = "syscall" => pc'[h] \notin {"copy", "send"}
           /\ kind' = "buffered" => pc'[h] \in {"idle", "copy", "send", "release"}
    BY <1>1, <1>2, Moves
<1>4. WriterTypes'
    BY <1>1, <1>2, <1>3, VectorisedWriterAssumption DEF WriterTypes, W!None, W!Header
<1>5. BufferInv' /\ PoolInv'
    <2>1. Writing(g)  BY <1>1 DEF Writing
    <2> QED  BY <1>1, <1>2, <2>1, ArraysKept
<1>6. WireInv'
    <2>1. result[g] = W!None  BY <1>1 DEF WriterInv, WireInv
    <2> QED  BY <1>1, <1>2, <2>1, WireKept
<1>7. ListInv'
    <2>1. \A h \in Goroutines : pc[h] \notin InLock
        BY <1>1, <1>2, VectorisedWriterAssumption DEF WriterInv, ListInv, W!None
    <2>2. \A h \in Goroutines : access' = h <=> pc'[h] \in InLock
        BY <1>1, <1>3, <2>1 DEF InLock
    <2>3. \A h \in Goroutines :
            /\ pc'[h] \in {"append", "write", "clear"} => length' = 0
            /\ pc'[h] \notin {"write", "clear"}
        BY <1>1, <1>3, <2>1 DEF InLock
    <2> QED  BY <1>1, <1>2, <1>3, <2>2, <2>3 DEF ListInv, InLock, W!None
<1> QED  BY <1>4, <1>5, <1>6, <1>7 DEF WriterInv

(* The entries of the list up to its length are those of the buffers.      *)
LEMMA AppendKeeps ==
    ASSUME WriterInv, NEW g \in Goroutines, W!AppendIovec(g)
    PROVE  WriterInv'
<1>1. /\ pc[g] = "append" /\ length < Len(buffers[g]) /\ length' = length + 1
      /\ iovecList' = [iovecList EXCEPT ![length + 1] = buffers[g][length + 1]]
      /\ UNCHANGED <<kind, pc, buffers, temp, calls, result, mem, pool, access, wire>>
    BY DEF W!AppendIovec
<1>2. WriterTypes /\ Writing(g) /\ Parts \in Nat /\ length \in 0..(Parts + 1)
    BY <1>1, VectorisedWriterAssumption DEF WriterInv, WriterTypes, Writing
<1>3. buffers[g] \in [1..(Parts + 1) -> Arrays \cup {W!Header}] /\ kind = "syscall"
    BY <1>1, <1>2 DEF WriterInv, WriterTypes, BufferInv, Own
<1>4. Len(buffers[g]) = Parts + 1  BY <1>2, <1>3
<1>5. length + 1 \in 1..(Parts + 1)  BY <1>1, <1>2, <1>4
<1>6. /\ iovecList' \in [1..(Parts + 1) -> Arrays \cup {W!Header, W!None}]
      /\ iovecList'[length + 1] = buffers[g][length + 1]
      /\ \A k \in 1..(Parts + 1) : k # length + 1 => iovecList'[k] = iovecList[k]
    BY <1>1, <1>2, <1>3, <1>5 DEF WriterTypes
<1>7. WriterTypes'
    BY <1>1, <1>2, <1>5, <1>6 DEF WriterTypes, W!None, W!Header
<1>8. W!Goto(g, "append") /\ "append" \in WriterStates
    BY <1>1, <1>2 DEF WriterTypes, W!Goto, WriterStates
<1>9. BufferInv' /\ PoolInv'
    <2>1. temp[g] = W!None  BY <1>1 DEF WriterInv, BufferInv, Own
    <2> QED  BY <1>1, <1>2, <1>8, <2>1, ArraysKept
<1>10. WireInv'
    <2>1. result[g] = W!None  BY <1>1 DEF WriterInv, WireInv
    <2> QED  BY <1>1, <1>8, <2>1, WireKept
<1>11. ListInv'
    <2>1. \A h \in Goroutines : pc[h] \in InLock => h = g
        BY <1>1, <1>3 DEF WriterInv, ListInv, InLock
    <2>2. ASSUME NEW k \in 1..length' PROVE iovecList'[k] = buffers[g][k]
        <3>1. CASE k = length + 1
            BY <1>6, <3>1
        <3>2. CASE k # length + 1
            <4>1. k \in 1..length /\ k \in 1..(Parts + 1)  BY <1>1, <1>2, <3>2
            <4> QED  BY <1>1, <1>6, <3>2, <4>1 DEF WriterInv, ListInv
        <3> QED  BY <3>1, <3>2
    <2>3. \A h \in Goroutines : access = h <=> pc[h] \in InLock
        BY <1>3 DEF WriterInv, ListInv
    <2>4. ASSUME NEW h \in Goroutines
          PROVE  /\ pc[h] \in {"append", "write", "clear"} =>
                      \A k \in 1..length' : iovecList'[k] = buffers[h][k]
                 /\ pc[h] \in {"write", "clear"} => length' = Parts + 1
        BY <1>1, <2>1, <2>2 DEF InLock
    <2> QED  BY <1>1, <1>3, <2>3, <2>4 DEF ListInv, InLock, W!None
<1> QED  BY <1>7, <1>9, <1>10, <1>11 DEF WriterInv

(* A step that only moves g and sets its result.                           *)
LEMMA TypesKept ==
    ASSUME WriterTypes, NEW g \in Goroutines,
           NEW at \in WriterStates, W!Goto(g, at),
           UNCHANGED <<kind, buffers, temp, calls, mem, iovecList, length>>,
           kind = "syscall" => at \notin {"copy", "send"},
           kind = "buffered" => at \in {"idle", "copy", "send", "release"},
           \/ result' = result
           \/ \E r \in {"nil", "error", "panic"} : result' = [result EXCEPT ![g] = r],
           wire' \in Seq(Packets)
    PROVE  WriterTypes'
<1>1. /\ pc' \in [Goroutines -> WriterStates]
      /\ \A h \in Goroutines :
           /\ kind' = "syscall" => pc'[h] \notin {"copy", "send"}
           /\ kind' = "buffered" => pc'[h] \in {"idle", "copy", "send", "release"}
    BY Moves
<1>2. result' \in [Goroutines -> {W!None, "nil", "error", "panic"}]
    BY DEF WriterTypes
<1> QED  BY <1>1, <1>2 DEF WriterTypes, W!None, W!Header

(* The steps between the lock and the release that leave the list alone,   *)
(* and those of "buffered" behind the copy.                                *)
LEMMA CallMoves ==
    ASSUME WriterInv, NEW g \in Goroutines,
           \/ W!AppendPanics(g) \/ W!AppendDone(g) \/ W!Writev(g) \/ W!WritevFails(g)
           \/ W!Send(g) \/ W!SendFails(g)
    PROVE  WriterInv'
<1> DEFINE at == pc'[g]
<1>1. /\ pc[g] \in {"append", "write", "send"} /\ W!Goto(g, at)
      /\ pc[g] = "append" => at \in {"release", "write"}
      /\ pc[g] = "write" => at = "clear"
      /\ pc[g] = "send" => at = "release"
      /\ UNCHANGED <<kind, buffers, temp, calls, mem, pool, access, iovecList, length>>
    <2>1. pc \in [Goroutines -> WriterStates]  BY DEF WriterInv, WriterTypes
    <2> QED  BY <2>1 DEF W!AppendPanics, W!AppendDone, W!Writev, W!WritevFails, W!Send, W!SendFails,
                         W!Goto
<1>2. /\ WriterTypes /\ Writing(g) /\ Parts \in Nat /\ calls[g] > 0 /\ result[g] = W!None
      /\ wire \in Seq(Packets) /\ at \in WriterStates
    BY <1>1, VectorisedWriterAssumption
    DEF WriterInv, WriterTypes, Writing, BufferInv, Own, WireInv, WriterStates
<1>3. /\ pc[g] \in {"append", "write"} => kind = "syscall" /\ temp[g] = W!None
      /\ pc[g] = "send" => kind = "buffered" /\ temp[g] # W!None
    BY <1>1 DEF WriterInv, WriterTypes, BufferInv, Own
<1>4. /\ buffers[g] \in [1..(Parts + 1) -> Arrays \cup {W!Header}]
      /\ Len(buffers[g]) = Parts + 1
    BY <1>2 DEF WriterInv, BufferInv, Own
<1> HIDE DEF at
<1>5. BufferInv' /\ PoolInv'
    BY <1>1, <1>2, <1>3, ArraysKept DEF Writing
<1>6. ASSUME W!Writev(g) PROVE wire' = Append(wire, PacketOf(g, calls[g]))
    <2> DEFINE arrays == [k \in 1..length |-> iovecList[k]]
    <2>1. /\ pc[g] = "write" /\ length = Parts + 1
          /\ \A k \in 1..length : iovecList[k] = buffers[g][k]
        BY <1>6 DEF W!Writev, WriterInv, ListInv
    <2>2. DOMAIN arrays = 1..(Parts + 1) /\ \A k \in 1..(Parts + 1) : arrays[k] = buffers[g][k]
        BY <2>1
    <2> HIDE DEF arrays
    <2>3. W!Gathered(arrays) = PacketOf(g, calls[g])
        BY <1>2, <2>2, GatheredIs DEF WriterInv
    <2> QED  BY <1>6, <2>3 DEF W!Writev, arrays
<1>7. ASSUME W!Send(g) PROVE wire' = Append(wire, PacketOf(g, calls[g]))
    BY <1>3, <1>7 DEF W!Send, WriterInv, BufferInv, Own
<1>8. \/ /\ wire' = Append(wire, PacketOf(g, calls[g])) /\ at \in {"clear", "release"}
         /\ result' = [result EXCEPT ![g] = "nil"]
      \/ /\ wire' = wire /\ at \in {"clear", "release"}
         /\ \E r \in {"error", "panic"} : result' = [result EXCEPT ![g] = r]
      \/ wire' = wire /\ result' = result /\ at = "write"
    <2>1. pc \in [Goroutines -> WriterStates]  BY <1>2 DEF WriterTypes
    <2>2. CASE W!Writev(g) \/ W!Send(g)
        BY <1>6, <1>7, <2>1, <2>2 DEF W!Writev, W!Send, W!Goto, at
    <2>3. CASE W!AppendPanics(g) \/ W!WritevFails(g) \/ W!SendFails(g)
        BY <2>1, <2>3 DEF W!AppendPanics, W!WritevFails, W!SendFails, W!Goto, at
    <2>4. CASE W!AppendDone(g)
        BY <2>1, <2>4 DEF W!AppendDone, W!Goto, at
    <2> QED  BY <2>2, <2>3, <2>4
<1>9. WireInv' /\ wire' \in Seq(Packets)
    <2>1. CASE /\ wire' = Append(wire, PacketOf(g, calls[g])) /\ at \in {"clear", "release"}
               /\ result' = [result EXCEPT ![g] = "nil"]
        BY <1>1, <1>2, <2>1, WireGrows
    <2>2. CASE /\ wire' = wire /\ at \in {"clear", "release"}
               /\ \E r \in {"error", "panic"} : result' = [result EXCEPT ![g] = r]
        BY <1>1, <1>2, <2>2, WireKept
    <2>3. CASE wire' = wire /\ result' = result /\ at = "write"
        BY <1>1, <1>2, <2>3, WireKept
    <2> QED  BY <1>8, <2>1, <2>2, <2>3
<1>10. WriterTypes'
    BY <1>1, <1>2, <1>3, <1>8, <1>9, TypesKept
<1>11. ListInv'
    <2>1. pc[g] \in {"append", "write"} => \A k \in 1..length : iovecList[k] = buffers[g][k]
        BY DEF WriterInv, ListInv
    <2>2. at \in {"write", "clear"} => length = Parts + 1
        <3>1. CASE pc[g] = "write"
            BY <3>1 DEF WriterInv, ListInv
        <3>2. CASE pc[g] = "append"
            <4>1. pc'[g] = "write" => length = Len(buffers[g])
                <5>1. pc \in [Goroutines -> WriterStates]  BY <1>2 DEF WriterTypes
                <5> QED  BY <3>2, <5>1 DEF W!AppendPanics, W!AppendDone, W!Writev, W!WritevFails,
                            W!Send, W!SendFails, W!Goto
            <4> QED  BY <1>1, <1>4, <3>2, <4>1 DEF at
        <3> QED  BY <1>1, <3>1, <3>2
    <2>3. \A h \in Goroutines : h # g => result'[h] = result[h]
        BY <1>2, <1>8 DEF WriterTypes
    <2>4. pc[g] = "append" => at = "write" \/ result'[g] = "panic"
        <3>1. /\ pc \in [Goroutines -> WriterStates]
              /\ result \in [Goroutines -> {W!None, "nil", "error", "panic"}]
            BY <1>2 DEF WriterTypes
        <3> QED  BY <3>1 DEF W!AppendPanics, W!AppendDone, W!Writev, W!WritevFails,
                    W!Send, W!SendFails, W!Goto, at
    <2>5. pc[g] = "send" => \A k \in 1..(Parts + 1) : iovecList[k] = W!None
        BY <1>3 DEF WriterInv, ListInv
    <2>6. kind = "syscall" => (pc[g] \in InLock <=> at \in InLock)
        BY <1>1, <1>3, <2>4 DEF InLock
    <2> QED  BY <1>1, <1>2, <2>1, <2>2, <2>3, <2>4, <2>5, <2>6, ListKept
<1> QED  BY <1>5, <1>9, <1>10, <1>11 DEF WriterInv

(* The list is cleared before the buffers are released.                    *)
LEMMA ClearKeeps ==
    ASSUME WriterInv, NEW g \in Goroutines, W!Clear(g)
    PROVE  WriterInv'
<1>1. /\ pc[g] = "clear" /\ W!Goto(g, "release") /\ "release" \in WriterStates
      /\ iovecList' = [k \in DOMAIN iovecList |-> IF k <= length THEN W!None ELSE iovecList[k]]
      /\ UNCHANGED <<kind, buffers, temp, calls, result, mem, pool, access, length, wire>>
    BY DEF W!Clear, WriterStates
<1>2. WriterTypes /\ Writing(g) /\ Parts \in Nat /\ length = Parts + 1 /\ temp[g] = W!None
    BY <1>1, VectorisedWriterAssumption
    DEF WriterInv, WriterTypes, Writing, BufferInv, Own, ListInv
<1>3. kind = "syscall"  BY <1>1, <1>2 DEF WriterTypes
<1>4. iovecList' = [k \in 1..(Parts + 1) |-> W!None]
    <2>1. DOMAIN iovecList = 1..(Parts + 1)  BY <1>2 DEF WriterTypes
    <2>2. \A k \in 1..(Parts + 1) : k <= length  BY <1>2
    <2> QED  BY <1>1, <2>1, <2>2
<1>5. /\ pc' \in [Goroutines -> WriterStates]
      /\ pc'[g] = "release" /\ \A h \in Goroutines : h # g => pc'[h] = pc[h]
      /\ \A h \in Goroutines :
           /\ kind' = "syscall" => pc'[h] \notin {"copy", "send"}
           /\ kind' = "buffered" => pc'[h] \in {"idle", "copy", "send", "release"}
    BY <1>1, <1>2, <1>3, Moves
<1>6. WriterTypes'
    <2>1. iovecList' \in [1..(Parts + 1) -> Arrays \cup {W!Header, W!None}]  BY <1>4
    <2> QED  BY <1>1, <1>2, <1>5, <2>1 DEF WriterTypes, W!None, W!Header
<1>7. BufferInv' /\ PoolInv'
    BY <1>1, <1>2, <1>3, ArraysKept
<1>8. WireInv'
    BY <1>1, WireKept
<1>9. ListInv'
    <2>1. \A h \in Goroutines : access = h <=> pc[h] \in InLock
        BY <1>3 DEF WriterInv, ListInv
    <2>2. \A h \in Goroutines : /\ access' = h <=> pc'[h] \in InLock
                                /\ pc'[h] \notin {"append", "write", "clear"}
        BY <1>1, <1>5, <2>1 DEF InLock
    <2>3. \A k \in 1..(Parts + 1) : iovecList'[k] = W!None  BY <1>4
    <2> QED  BY <1>1, <1>3, <2>2, <2>3 DEF ListInv, InLock, W!None
<1> QED  BY <1>6, <1>7, <1>8, <1>9 DEF WriterInv

(* The mutex is free again.                                                *)
LEMMA UnlockKeeps ==
    ASSUME WriterInv, NEW g \in Goroutines, W!Unlock(g)
    PROVE  WriterInv'
<1>1. /\ pc[g] = "unlock" /\ W!Goto(g, "idle") /\ "idle" \in WriterStates /\ access' = W!None
      /\ UNCHANGED <<kind, buffers, temp, calls, result, mem, pool, iovecList, length, wire>>
    BY DEF W!Unlock, WriterStates
<1>2. WriterTypes /\ ~Writing(g) /\ temp[g] = W!None /\ wire \in Seq(Packets)
    BY <1>1 DEF WriterInv, WriterTypes, Writing, BufferInv, Own
<1>3. kind = "syscall"  BY <1>1, <1>2 DEF WriterTypes
<1>4. pc'[g] = "idle" /\ \A h \in Goroutines : h # g => pc'[h] = pc[h]
    BY <1>1, <1>2, <1>3, Moves
<1>5. WriterTypes'
    BY <1>1, <1>2, <1>3, TypesKept
<1>6. BufferInv' /\ PoolInv'
    BY <1>1, <1>2, ArraysKept
<1>7. WireInv'
    BY <1>1, WireKept
<1>8. ListInv'
    <2>1. \A h \in Goroutines : access = h <=> pc[h] \in InLock
        BY <1>3 DEF WriterInv, ListInv
    <2>2. \A h \in Goroutines : pc'[h] \notin InLock
        BY <1>1, <1>4, <2>1 DEF InLock
    <2>3. \A h \in Goroutines : access' # h
        BY <1>1, VectorisedWriterAssumption DEF W!None
    <2>4. \A h \in Goroutines : pc'[h] \notin {"append", "write", "clear"}
        BY <2>2 DEF InLock
    <2>5. ASSUME NEW k \in 1..(Parts + 1), iovecList'[k] # W!None
          PROVE  \E h \in Goroutines :
                   result'[h] = "panic" \/ pc'[h] \in {"lock", "append", "write", "clear"}
        <3>1. PICK h \in Goroutines :
                result[h] = "panic" \/ pc[h] \in {"lock", "append", "write", "clear"}
            BY <1>1, <2>5 DEF WriterInv, ListInv
        <3> QED  BY <1>1, <1>4, <3>1
    <2> QED  BY <1>1, <1>3, <2>2, <2>3, <2>4, <2>5 DEF ListInv, W!None, InLock
<1> QED  BY <1>5, <1>6, <1>7, <1>8 DEF WriterInv

(* A goroutine that does nothing keeps its packet, as long as nobody       *)
(* writes to the arrays that it holds.                                     *)
LEMMA OthersKeep ==
    ASSUME WriterInv, NEW h \in Goroutines, UNCHANGED kind,
           buffers'[h] = buffers[h], temp'[h] = temp[h], calls'[h] = calls[h], pc'[h] = pc[h],
           \A a \in Holds(h) : mem'[a] = mem[a]
    PROVE  Own(h)' /\ Holds(h)' = Holds(h)
<1>1. Own(h) /\ Parts \in Nat /\ W!Header \notin Arrays
    BY VectorisedWriterAssumption DEF WriterInv, BufferInv, W!Header
<1>2. Holds(h)' = Holds(h)  BY DEF Holds, W!Range
<1>3. Writing(h)' <=> Writing(h)  BY DEF Writing
<1>4. ASSUME Writing(h), NEW k \in 2..(Parts + 1)
      PROVE  mem'[buffers[h][k]] = mem[buffers[h][k]]
    <2>1. k \in DOMAIN buffers[h] /\ buffers[h][k] \in Arrays
        BY <1>1, <1>4 DEF Own
    <2>2. buffers[h][k] \in Holds(h)  BY <1>1, <2>1 DEF Holds, W!Range
    <2> QED  BY <2>2
<1>5. temp[h] # W!None => mem'[temp[h]] = mem[temp[h]]  BY DEF Holds
<1>6. Writing(h) =>
        /\ calls'[h] > 0
        /\ buffers'[h] \in [1..(Parts + 1) -> Arrays \cup {W!Header}]
        /\ buffers'[h][1] = W!Header
        /\ \A k \in 2..(Parts + 1) : /\ buffers'[h][k] \in Arrays
                                     /\ mem'[buffers'[h][k]] = PartOf(h, calls'[h], k - 1)
    BY <1>1, <1>4 DEF Own
<1>7. Own(h)'  BY <1>1, <1>3, <1>5, <1>6 DEF Own, W!None, W!Header
<1> QED  BY <1>2, <1>7

(* What g takes from the pool or gives back was nobody else's.             *)
LEMMA PoolMoves ==
    ASSUME PoolInv, NEW g \in Goroutines,
           \A h \in Goroutines : h # g => Holds(h)' = Holds(h),
           pool' \cup Holds(g)' = pool \cup Holds(g), pool' \cap Holds(g)' = {}
    PROVE  PoolInv'
<1>1. /\ pool' \subseteq Arrays /\ Holds(g)' \subseteq Arrays \ pool'
      /\ \A h \in Goroutines : h # g =>
           /\ Holds(h)' \subseteq Arrays \ pool'
           /\ Holds(h)' \cap Holds(g)' = {}
    BY DEF PoolInv
<1>2. ASSUME NEW h \in Goroutines, NEW i \in Goroutines, h # i
      PROVE  Holds(h)' \cap Holds(i)' = {}
    <2>1. CASE h = g
        BY <1>1, <1>2, <2>1
    <2>2. CASE i = g
        BY <1>1, <1>2, <2>2
    <2>3. CASE h # g /\ i # g
        BY <1>2, <2>3 DEF PoolInv
    <2> QED  BY <2>1, <2>2, <2>3
<1>3. ASSUME NEW a \in Arrays \ pool' PROVE \E h \in Goroutines : a \in Holds(h)'
    <2>1. CASE a \in Holds(g)'
        BY <2>1
    <2>2. CASE a \notin Holds(g)'
        <3>1. a \notin pool /\ a \notin Holds(g)  BY <1>3, <2>2
        <3>2. PICK h \in Goroutines : a \in Holds(h)  BY <3>1 DEF PoolInv
        <3> QED  BY <3>1, <3>2
    <2> QED  BY <2>1, <2>2
<1>4. \A h \in Goroutines : Holds(h)' \subseteq Arrays \ pool'  BY <1>1
<1> QED  BY <1>1, <1>2, <1>3, <1>4 DEF PoolInv

(* The arrays go back to the pool.                                         *)
LEMMA ReleaseKeeps ==
    ASSUME WriterInv, NEW g \in Goroutines, W!Release(g)
    PROVE  WriterInv'
<1> DEFINE at == IF kind = "syscall" THEN "unlock" ELSE "idle"
<1>1. /\ pc[g] = "release" /\ W!Goto(g, at) /\ at \in {"unlock", "idle"} /\ at \in WriterStates
      /\ kind = "syscall" => at = "unlock"
      /\ kind = "buffered" => at = "idle"
      /\ pool' = pool \cup Holds(g)
      /\ mem' = [a \in Arrays |-> IF a \in Holds(g) THEN <<>> ELSE mem[a]]
      /\ buffers' = [buffers EXCEPT ![g] = <<>>] /\ temp' = [temp EXCEPT ![g] = W!None]
      /\ UNCHANGED <<kind, calls, result, access, iovecList, length, wire>>
    BY DEF W!Release, WriterStates, Holds
<1> HIDE DEF at
<1>2. /\ WriterTypes /\ PoolInv /\ kind \in {"syscall", "buffered"}
      /\ buffers = [h \in Goroutines |-> buffers[h]]
      /\ temp \in [Goroutines -> Arrays \cup {W!None}]
    BY DEF WriterInv, WriterTypes
<1>3. /\ pc' \in [Goroutines -> WriterStates]
      /\ pc'[g] = at /\ \A h \in Goroutines : h # g => pc'[h] = pc[h]
      /\ \A h \in Goroutines :
           /\ kind' = "syscall" => pc'[h] \notin {"copy", "send"}
           /\ kind' = "buffered" => pc'[h] \in {"idle", "copy", "send", "release"}
    BY <1>1, <1>2, Moves
<1>4. /\ buffers'[g] = <<>> /\ temp'[g] = W!None
      /\ \A h \in Goroutines : h # g => buffers'[h] = buffers[h] /\ temp'[h] = temp[h]
    BY <1>1, <1>2
<1>5. WriterTypes'
    <2>1. buffers' = [h \in Goroutines |-> buffers'[h]]  BY <1>1, <1>2
    <2>2. temp' \in [Goroutines -> Arrays \cup {W!None}]  BY <1>1, <1>2
    <2>3. mem' = [a \in Arrays |-> mem'[a]]  BY <1>1
    <2> QED  BY <1>1, <1>2, <1>3, <2>1, <2>2, <2>3 DEF WriterTypes, W!None, W!Header
<1>6. Holds(g)' = {}  BY <1>4 DEF Holds, W!Range, W!None
<1>7. Own(g)'
    BY <1>1, <1>3, <1>4 DEF Own, Writing, W!None
<1>8. ASSUME NEW h \in Goroutines, h # g PROVE Own(h)' /\ Holds(h)' = Holds(h)
    <2>1. \A a \in Holds(h) : a \in Arrays /\ a \notin Holds(g)
        BY <1>2, <1>8 DEF PoolInv
    <2>2. \A a \in Holds(h) : mem'[a] = mem[a]  BY <1>1, <2>1
    <2> QED  BY <1>1, <1>3, <1>4, <1>8, <2>2, OthersKeep
<1>9. BufferInv'  BY <1>7, <1>8 DEF BufferInv
<1>10. PoolInv'  BY <1>1, <1>2, <1>6, <1>8, PoolMoves
<1>11. WireInv'  BY <1>1, WireKept
<1>12. ListInv'  BY <1>1, <1>2, <1>4, ListKept DEF InLock
<1> QED  BY <1>5, <1>9, <1>10, <1>11, <1>12 DEF WriterInv

(* BufferedVectorisedWriter takes an array and copies its packet to it.    *)
LEMMA CopyKeeps ==
    ASSUME WriterInv, NEW g \in Goroutines, W!Copy(g)
    PROVE  WriterInv'
<1>1. PICK a \in pool :
        /\ temp' = [temp EXCEPT ![g] = a] /\ pool' = pool \ {a}
        /\ mem' = [mem EXCEPT ![a] = W!Gathered(buffers[g])]
    BY DEF W!Copy
<1>2. /\ pc[g] = "copy" /\ W!Goto(g, "send") /\ "send" \in WriterStates
      /\ UNCHANGED <<kind, buffers, calls, result, access, iovecList, length, wire>>
    BY DEF W!Copy, WriterStates
<1>3. /\ WriterTypes /\ PoolInv /\ Own(g) /\ Writing(g) /\ Parts \in Nat
      /\ temp \in [Goroutines -> Arrays \cup {W!None}] /\ mem = [b \in Arrays |-> mem[b]]
      /\ W!None \notin Arrays /\ W!Header \notin Arrays
    BY <1>2, VectorisedWriterAssumption
    DEF WriterInv, WriterTypes, BufferInv, Writing, W!None, W!Header
<1>4. kind = "buffered" /\ a \in Arrays /\ temp[g] = W!None /\ result[g] = W!None
    BY <1>2, <1>3 DEF WriterInv, WriterTypes, PoolInv, Own, WireInv
<1>5. /\ pc' \in [Goroutines -> WriterStates]
      /\ pc'[g] = "send" /\ \A h \in Goroutines : h # g => pc'[h] = pc[h]
      /\ \A h \in Goroutines :
           /\ kind' = "syscall" => pc'[h] \notin {"copy", "send"}
           /\ kind' = "buffered" => pc'[h] \in {"idle", "copy", "send", "release"}
    BY <1>2, <1>3, <1>4, Moves
<1>6. /\ temp'[g] = a /\ \A h \in Goroutines : h # g => temp'[h] = temp[h]
      /\ mem'[a] = W!Gathered(buffers[g]) /\ \A b \in Arrays : b # a => mem'[b] = mem[b]
      /\ mem' = [b \in Arrays |-> mem'[b]]
      /\ temp' \in [Goroutines -> Arrays \cup {W!None}]
    BY <1>1, <1>3, <1>4
<1>7. WriterTypes'
    BY <1>2, <1>3, <1>5, <1>6 DEF WriterTypes, W!None, W!Header
<1>8. W!Gathered(buffers[g]) = PacketOf(g, calls[g])
    <2>1. DOMAIN buffers[g] = 1..(Parts + 1)  BY <1>3 DEF Own
    <2> QED  BY <1>3, <2>1, GatheredIs DEF WriterInv
<1>9. Holds(g)' = Holds(g) \cup {a}
    BY <1>2, <1>3, <1>4, <1>6 DEF Holds, W!Range, W!None, W!Header
<1>10. a \notin Holds(g)  BY <1>3 DEF PoolInv
<1>11. Own(g)'
    <2>1. ASSUME NEW k \in 2..(Parts + 1) PROVE mem'[buffers[g][k]] = mem[buffers[g][k]]
        <3>1. buffers[g][k] \in Arrays /\ k \in DOMAIN buffers[g]  BY <1>3 DEF Own
        <3>2. buffers[g][k] \in Holds(g)  BY <1>3, <3>1 DEF Holds, W!Range
        <3> QED  BY <1>6, <1>10, <3>1, <3>2
    <2>2. /\ calls'[g] > 0
          /\ buffers'[g] \in [1..(Parts + 1) -> Arrays \cup {W!Header}]
          /\ buffers'[g][1] = W!Header
          /\ \A k \in 2..(Parts + 1) : /\ buffers'[g][k] \in Arrays
                                       /\ mem'[buffers'[g][k]] = PartOf(g, calls'[g], k - 1)
        BY <1>2, <1>3, <2>1 DEF Own
    <2>3. temp'[g] # W!None /\ mem'[temp'[g]] = PacketOf(g, calls'[g])
        BY <1>2, <1>3, <1>4, <1>6, <1>8
    <2>4. Writing(g)' /\ kind' = "buffered" /\ pc'[g] \in {"send", "release"}
        BY <1>2, <1>4, <1>5 DEF Writing
    <2> QED  BY <2>2, <2>3, <2>4 DEF Own, W!None, W!Header
<1>12. ASSUME NEW h \in Goroutines, h # g PROVE Own(h)' /\ Holds(h)' = Holds(h)
    <2>1. \A b \in Holds(h) : b \in Arrays /\ b # a  BY <1>3 DEF PoolInv
    <2>2. \A b \in Holds(h) : mem'[b] = mem[b]  BY <1>6, <2>1
    <2> QED  BY <1>2, <1>5, <1>6, <1>12, <2>2, OthersKeep
<1>13. BufferInv'  BY <1>11, <1>12 DEF BufferInv
<1>14. PoolInv'
    <2>1. pool' \cup Holds(g)' = pool \cup Holds(g)  BY <1>1, <1>9
    <2>2. pool' \cap Holds(g)' = {}  BY <1>1, <1>3, <1>9 DEF PoolInv
    <2> QED  BY <1>3, <1>12, <2>1, <2>2, PoolMoves
<1>15. WireInv'  BY <1>2, <1>4, WireKept
<1>16. ListInv'
    BY <1>2, <1>4, ListKept DEF WriterInv, ListInv
<1> QED  BY <1>7, <1>13, <1>14, <1>15, <1>16 DEF WriterInv

(* A new call begins, with a packet in arrays of the pool.                 *)
LEMMA FillKeeps ==
    ASSUME WriterInv, NEW g \in Goroutines, W!Fill(g)
    PROVE  WriterInv'
<1> DEFINE at == IF kind = "syscall" THEN "lock" ELSE "copy"
           n == calls[g] + 1
<1>1. PICK arrays \in [1..Parts -> pool] :
        /\ \A j, k \in 1..Parts : j # k => arrays[j] # arrays[k]
        /\ buffers' = [buffers EXCEPT ![g] = W!Behind(W!Header, arrays)]
        /\ pool' = pool \ W!Range(arrays)
        /\ mem' = [a \in Arrays |->
                     IF a \in W!Range(arrays)
                     THEN PartOf(g, n, CHOOSE k \in 1..Parts : arrays[k] = a) ELSE mem[a]]
    BY DEF W!Fill, PartOf
<1>2. /\ pc[g] = "idle" /\ calls[g] < MaxCalls /\ W!Goto(g, at) /\ at \in {"lock", "copy"}
      /\ at \in WriterStates
      /\ kind = "syscall" => at = "lock"
      /\ kind = "buffered" => at = "copy"
      /\ calls' = [calls EXCEPT ![g] = n] /\ result' = [result EXCEPT ![g] = W!None]
      /\ UNCHANGED <<kind, temp, access, iovecList, length, wire>>
    BY DEF W!Fill, WriterStates
<1> HIDE DEF at
<1>3. /\ WriterTypes /\ PoolInv /\ Own(g) /\ ~Writing(g) /\ Parts \in Nat /\ MaxCalls \in Nat
      /\ W!None \notin Arrays /\ W!Header \notin Arrays /\ pool \subseteq Arrays
    BY <1>2, VectorisedWriterAssumption
    DEF WriterInv, BufferInv, Writing, PoolInv, W!None, W!Header
<1>4. /\ calls \in [Goroutines -> 0..MaxCalls] /\ buffers = [h \in Goroutines |-> buffers[h]]
      /\ result \in [Goroutines -> {W!None, "nil", "error", "panic"}]
      /\ buffers[g] = <<>> /\ temp[g] = W!None /\ kind \in {"syscall", "buffered"}
    BY <1>2, <1>3 DEF WriterTypes, Own
<1>5. /\ pc' \in [Goroutines -> WriterStates]
      /\ pc'[g] = at /\ \A h \in Goroutines : h # g => pc'[h] = pc[h]
      /\ \A h \in Goroutines :
           /\ kind' = "syscall" => pc'[h] \notin {"copy", "send"}
           /\ kind' = "buffered" => pc'[h] \in {"idle", "copy", "send", "release"}
    BY <1>2, <1>3, Moves
<1>6. /\ n \in 1..MaxCalls /\ calls'[g] = n /\ calls' \in [Goroutines -> 0..MaxCalls]
      /\ \A h \in Goroutines : h # g => calls'[h] = calls[h]
    BY <1>2, <1>3, <1>4
<1> HIDE DEF n
<1>7. /\ buffers'[g] = W!Behind(W!Header, arrays) /\ result'[g] = W!None
      /\ \A h \in Goroutines : h # g => buffers'[h] = buffers[h] /\ result'[h] = result[h]
      /\ buffers' = [h \in Goroutines |-> buffers'[h]]
      /\ result' \in [Goroutines -> {W!None, "nil", "error", "panic"}]
    BY <1>1, <1>2, <1>4
<1>8. WriterTypes'
    <2>1. mem' = [a \in Arrays |-> mem'[a]]  BY <1>1
    <2> QED  BY <1>2, <1>3, <1>5, <1>6, <1>7, <2>1 DEF WriterTypes, W!None, W!Header
<1>9. /\ DOMAIN buffers'[g] = 1..(Parts + 1) /\ buffers'[g][1] = W!Header
      /\ \A k \in 2..(Parts + 1) : buffers'[g][k] = arrays[k - 1] /\ k - 1 \in 1..Parts
    <2>1. \A k \in 2..(Parts + 1) : k \in 1..(Parts + 1) /\ k # 1 /\ k - 1 \in 1..Parts
        BY <1>3
    <2>2. 1 \in 1..(Parts + 1)  BY <1>3
    <2> QED  BY <1>7, <2>1, <2>2 DEF W!Behind
<1>10. W!Range(arrays) = {arrays[k] : k \in 1..Parts} /\ W!Range(arrays) \subseteq pool
    BY DEF W!Range
<1>11. Holds(g)' = W!Range(arrays)
    <2>1. W!Range(buffers'[g]) = {W!Header} \cup W!Range(arrays)
        <3>1. ASSUME NEW k \in 1..Parts
              PROVE  k + 1 \in 2..(Parts + 1) /\ buffers'[g][k + 1] = arrays[k]
            <4>1. k + 1 \in 2..(Parts + 1) /\ k + 1 - 1 = k  BY <1>3
            <4>2. buffers'[g][k + 1] = arrays[k + 1 - 1]  BY <1>9, <4>1
            <4> QED  BY <4>1, <4>2
        <3>2. /\ \A k \in 1..(Parts + 1) : k = 1 \/ k \in 2..(Parts + 1)
              /\ \A k \in 2..(Parts + 1) : k \in 1..(Parts + 1)
              /\ 1 \in 1..(Parts + 1)
            BY <1>3
        <3>3. W!Range(buffers'[g]) = {buffers'[g][k] : k \in 1..(Parts + 1)}
            BY <1>9 DEF W!Range
        <3>4. ASSUME NEW b \in W!Range(buffers'[g]) PROVE b \in {W!Header} \cup W!Range(arrays)
            <4>1. PICK k \in 1..(Parts + 1) : b = buffers'[g][k]  BY <3>3
            <4>2. CASE k = 1
                BY <1>9, <4>1, <4>2
            <4>3. CASE k \in 2..(Parts + 1)
                BY <1>9, <1>10, <4>1, <4>3
            <4> QED  BY <3>2, <4>2, <4>3
        <3>5. ASSUME NEW b \in W!Range(arrays) PROVE b \in W!Range(buffers'[g])
            <4>1. PICK k \in 1..Parts : b = arrays[k]  BY <1>10
            <4> QED  BY <3>1, <3>2, <3>3, <4>1
        <3>6. W!Header \in W!Range(buffers'[g])  BY <1>9, <3>2, <3>3
        <3> QED  BY <3>4, <3>5, <3>6
    <2>2. W!Header \notin W!Range(arrays)  BY <1>3, <1>10
    <2>3. temp'[g] = W!None  BY <1>2, <1>4
    <2>4. Holds(g)' = (W!Range(buffers'[g]) \ {W!Header}) \cup ({temp'[g]} \ {W!None})
        BY DEF Holds, W!Range, W!None, W!Header
    <2> QED  BY <2>1, <2>2, <2>3, <2>4
<1>12. Own(g)'
    <2>1. ASSUME NEW k \in 2..(Parts + 1)
          PROVE  buffers'[g][k] \in Arrays /\ mem'[buffers'[g][k]] = PartOf(g, n, k - 1)
        <3> DEFINE a == arrays[k - 1]
                   c == CHOOSE j \in 1..Parts : arrays[j] = a
        <3>1. k - 1 \in 1..Parts /\ buffers'[g][k] = a  BY <1>9
        <3>2. a \in pool /\ a \in W!Range(arrays) /\ a \in Arrays  BY <1>3, <1>10, <3>1
        <3>3. c \in 1..Parts /\ arrays[c] = a  BY <3>1
        <3>4. c = k - 1  BY <1>1, <3>1, <3>3
        <3>5. mem'[a] = PartOf(g, n, c)  BY <1>1, <3>2
        <3> QED  BY <3>1, <3>2, <3>4, <3>5
    <2>2. buffers'[g] \in [1..(Parts + 1) -> Arrays \cup {W!Header}]
        <3>1. \A k \in 1..(Parts + 1) : k = 1 \/ k \in 2..(Parts + 1)  BY <1>3
        <3>2. \A k \in 1..(Parts + 1) : buffers'[g][k] \in Arrays \cup {W!Header}
            BY <1>9, <2>1, <3>1
        <3>3. buffers'[g] = [k \in 1..(Parts + 1) |-> buffers'[g][k]]
            BY <1>7, <1>9 DEF W!Behind
        <3> QED  BY <3>2, <3>3
    <2>3. calls'[g] > 0  BY <1>3, <1>6
    <2>4. Writing(g)' /\ temp'[g] = W!None /\ pc'[g] \notin {"send", "release"}
        BY <1>2, <1>4, <1>5 DEF Writing
    <2>5. \A k \in 2..(Parts + 1) : /\ buffers'[g][k] \in Arrays
                                    /\ mem'[buffers'[g][k]] = PartOf(g, calls'[g], k - 1)
        BY <1>6, <2>1
    <2> QED  BY <1>9, <2>2, <2>3, <2>4, <2>5 DEF Own, W!None, W!Header
<1>13. ASSUME NEW h \in Goroutines, h # g PROVE Own(h)' /\ Holds(h)' = Holds(h)
    <2>1. \A b \in Holds(h) : b \in Arrays /\ b \notin W!Range(arrays)  BY <1>3, <1>10 DEF PoolInv
    <2>2. \A b \in Holds(h) : mem'[b] = mem[b]  BY <1>1, <2>1
    <2> QED  BY <1>2, <1>5, <1>6, <1>7, <1>13, <2>2, OthersKeep
<1>14. BufferInv'  BY <1>12, <1>13 DEF BufferInv
<1>15. PoolInv'
    <2>1. Holds(g) = {}  BY <1>4 DEF Holds, W!Range
    <2>2. pool' \cup Holds(g)' = pool \cup Holds(g)  BY <1>1, <1>10, <1>11, <2>1
    <2>3. pool' \cap Holds(g)' = {}  BY <1>1, <1>11
    <2> QED  BY <1>3, <1>13, <2>2, <2>3, PoolMoves
<1>16. ListInv'
    <2>1. kind = "buffered" => \A k \in 1..(Parts + 1) : iovecList[k] = W!None
        BY DEF WriterInv, ListInv
    <2> QED  BY <1>2, <1>4, <1>7, <2>1, ListKept DEF InLock
<1>17. WireInv'
    <2>1. ASSUME NEW k \in DOMAIN wire
          PROVE  /\ wire[k] # PacketOf(g, n)
                 /\ \E h \in Goroutines : \E m \in 1..calls'[h] : wire[k] = PacketOf(h, m)
        <3>0. PICK h \in Goroutines : \E m \in 1..calls[h] : wire[k] = PacketOf(h, m)
            BY DEF WriterInv, WireInv
        <3>1. PICK m \in 1..calls[h] : wire[k] = PacketOf(h, m)  BY <3>0
        <3>2. calls[h] \in Nat /\ calls[g] \in Nat  BY <1>3, <1>4
        <3>3. m \in 1..calls'[h]
            <4>1. CASE h = g
                <5>1. calls'[h] = calls[h] + 1  BY <1>6, <4>1 DEF n
                <5> QED  BY <3>2, <5>1
            <4>2. CASE h # g
                BY <1>6, <4>2
            <4> QED  BY <4>1, <4>2
        <3>4. ~(h = g /\ m = n)  BY <3>2 DEF n
        <3>5. PacketOf(h, m) # PacketOf(g, n)  BY <3>4, WholeIs
        <3> QED  BY <3>1, <3>3, <3>5
    <2>2. Wired(g, n) = {}  BY <2>1 DEF Wired
    <2>3. \A h, m : Wired(h, m)' = Wired(h, m)  BY <1>2 DEF Wired
    <2>4. \A k \in DOMAIN wire' : \E h \in Goroutines : \E m \in 1..calls'[h] :
            wire'[k] = PacketOf(h, m)
        BY <1>2, <2>1
    <2>5. ASSUME NEW h \in Goroutines
          PROVE  /\ pc'[h] \in {"lock", "append", "write", "copy", "send"} => result'[h] = W!None
                 /\ calls'[h] > 0 /\ result'[h] = "nil" =>
                      \E k \in DOMAIN wire' : Wired(h, calls'[h]) = {k}
                 /\ calls'[h] > 0 /\ result'[h] # "nil" => Wired(h, calls'[h]) = {}
        <3>1. CASE h = g
            BY <1>6, <1>7, <2>2, <3>1 DEF W!None
        <3>2. CASE h # g
            BY <1>2, <1>5, <1>6, <1>7, <3>2 DEF WriterInv, WireInv
        <3> QED  BY <3>1, <3>2
    <2> QED  BY <2>3, <2>4, <2>5 DEF WireInv, Wired, W!None
<1> QED  BY <1>8, <1>14, <1>15, <1>16, <1>17 DEF WriterInv

(* Every step of the writers keeps the invariant.                          *)
LEMMA WriterStep == WriterInv /\ [W!Next]_W!vars => WriterInv'
<1> SUFFICES ASSUME WriterInv, [W!Next]_W!vars PROVE WriterInv'  OBVIOUS
<1>1. ASSUME UNCHANGED <<kind, pc, buffers, temp, calls, result, mem, pool, access, iovecList,
                         length, wire>>
      PROVE  WriterInv'
    <2>1. \A h : Holds(h)' = Holds(h) /\ (Writing(h)' <=> Writing(h))
        BY <1>1 DEF Holds, Writing
    <2>2. \A h, m : Wired(h, m)' = Wired(h, m)  BY <1>1 DEF Wired
    <2>3. WriterTypes'  BY <1>1 DEF WriterInv, WriterTypes, W!None, W!Header
    <2>4. BufferInv'  BY <1>1, <2>1 DEF WriterInv, BufferInv, Own, W!None, W!Header
    <2>5. PoolInv'  BY <1>1, <2>1 DEF WriterInv, PoolInv
    <2>6. ListInv'  BY <1>1 DEF WriterInv, ListInv, W!None
    <2>7. WireInv'  BY <1>1, <2>2 DEF WriterInv, WireInv, W!None
    <2> QED  BY <2>3, <2>4, <2>5, <2>6, <2>7 DEF WriterInv
<1>2. CASE W!CloseFile
    BY <1>1, <1>2 DEF W!CloseFile
<1>3. CASE UNCHANGED W!vars
    BY <1>1, <1>3 DEF W!vars
<1>4. ASSUME NEW g \in Goroutines,
             W!Fill(g) \/ W!Step(g) \/ W!AppendPanics(g) \/ W!WritevFails(g) \/ W!SendFails(g)
      PROVE  WriterInv'
    BY <1>4, FillKeeps, LockKeeps, AppendKeeps, CallMoves, ClearKeeps, ReleaseKeeps, UnlockKeeps,
       CopyKeeps DEF W!Step
<1> QED  BY <1>2, <1>3, <1>4 DEF W!Next

(* Whatever the arrays, the goroutines and the number of buffers of a      *)
(* packet, every packet on the wire is one of a call, whole and with its   *)
(* header, and a call's packet is on it once if the call returned nil and  *)
(* not at all if it failed.                                                *)
THEOREM PacketsGoWhole == W!Spec => []PacketsWhole
<1>1. W!Spec => []WriterInv  BY WriterInit, WriterStep, PTL DEF W!Spec
<1>2. ASSUME WriterInv PROVE PacketsWhole
    <2>1. ASSUME NEW k \in DOMAIN wire
          PROVE  \E g \in Goroutines, n \in 1..MaxCalls : wire[k] = W!Whole(g, n)
        BY <1>2 DEF WriterInv, WriterTypes, Packets, PacketOf
    <2>2. ASSUME NEW g \in Goroutines, pc[g] = "idle", calls[g] > 0
          PROVE  W!Sent(g, calls[g]) = IF result[g] = "nil" THEN 1 ELSE 0
        <3>1. W!Sent(g, calls[g]) = Cardinality(Wired(g, calls[g]))
            BY DEF W!Sent, Wired, PacketOf, W!Cardinality, Cardinality
        <3>2. CASE result[g] = "nil"
            <4>1. PICK k \in DOMAIN wire : Wired(g, calls[g]) = {k}
                BY <1>2, <2>2, <3>2 DEF WriterInv, WireInv
            <4> QED  BY <3>1, <3>2, <4>1, FS_Singleton
        <3>3. CASE result[g] # "nil"
            <4>1. Wired(g, calls[g]) = {}
                BY <1>2, <2>2, <3>3 DEF WriterInv, WireInv
            <4> QED  BY <3>1, <3>3, <4>1, FS_EmptySet
        <3> QED  BY <3>2, <3>3
    <2> QED  BY <2>1, <2>2 DEF W!PacketsWhole, PacketsWhole
<1> QED  BY <1>1, <1>2, PTL

(* When every call has returned, all arrays are in the pool again, and     *)
(* the list of iovecs points to none of them unless a call panicked.       *)
THEOREM NothingIsKept == W!Spec => []NothingKept
<1>1. W!Spec => []WriterInv  BY WriterInit, WriterStep, PTL DEF W!Spec
<1>2. ASSUME WriterInv, \A g \in Goroutines : pc[g] = "idle"
      PROVE  /\ pool = Arrays
             /\ (\A g \in Goroutines : result[g] # "panic") =>
                  \A k \in DOMAIN iovecList : iovecList[k] = W!None
    <2>1. \A g \in Goroutines : buffers[g] = <<>> /\ temp[g] = W!None
        BY <1>2 DEF WriterInv, BufferInv, Own, Writing
    <2>2. \A g \in Goroutines : Holds(g) = {}  BY <2>1 DEF Holds, W!Range
    <2>3. pool = Arrays  BY <1>2, <2>2 DEF WriterInv, PoolInv
    <2>4. DOMAIN iovecList = 1..(Parts + 1)  BY <1>2 DEF WriterInv, WriterTypes
    <2> QED  BY <1>2, <2>3, <2>4 DEF WriterInv, ListInv
<1>3. WriterInv => NothingKept  BY <1>2 DEF W!NothingKept, NothingKept
<1> QED  BY <1>1, <1>3, PTL

-----------------------------------------------------------------------------
(***************************************************************************)
(* The buffers.  What a buffer holds depends on its cursors and on one     *)
(* array; the invariant keeps the cursors in order inside the array, and   *)
(* every array with one buffer or in the pool, never both.                 *)
(***************************************************************************)
Everywhere == PoolArrays \cup Foreign
Cells == [1..Size -> Bytes]

(* What is between two cursors of an array.                                *)
Window(cells, i, j) == [k \in 1..(j - i) |-> cells[i + k]]

(* A window is what SubSeq returns, and one of the strings.                *)
LEMMA WindowIs ==
    ASSUME NEW cells \in Cells, NEW i \in 0..Size, NEW j \in i..Size
    PROVE  /\ SubSeq(cells, i + 1, j) = Window(cells, i, j)
           /\ Window(cells, i, j) \in Seq(Bytes) /\ Len(Window(cells, i, j)) = j - i
           /\ Window(cells, i, j) \in B!Strings
<1> USE BufferAssumption
<1>1. cells \in Seq(Bytes) /\ Len(cells) = Size  BY DEF Cells
<1>2. SubSeq(cells, i + 1, j) = Window(cells, i, j)
    BY <1>1 DEF Window
<1>3. Window(cells, i, j) \in [1..(j - i) -> Bytes] /\ j - i \in 0..Size
    BY DEF Window, Cells
<1>4. Window(cells, i, j) \in B!Strings
    BY <1>3 DEF B!Strings
<1> QED  BY <1>2, <1>3, <1>4

(* Two windows side by side are one.                                       *)
LEMMA WindowsJoin ==
    ASSUME NEW cells \in Cells, NEW i \in 0..Size, NEW j \in i..Size, NEW m \in j..Size
    PROVE  Window(cells, i, m) = Window(cells, i, j) \o Window(cells, j, m)
<1> USE BufferAssumption
<1> DEFINE u == Window(cells, i, j)
           v == Window(cells, j, m)
           w == Window(cells, i, m)
<1>1. /\ u \in Seq(Bytes) /\ Len(u) = j - i /\ v \in Seq(Bytes) /\ Len(v) = m - j
      /\ w \in Seq(Bytes) /\ Len(w) = m - i
    <2>1. j \in 0..Size /\ m \in 0..Size /\ m \in i..Size  OBVIOUS
    <2> QED  BY <2>1, WindowIs
<1>2. \A k \in 1..(m - i) : w[k] = cells[i + k]  BY DEF Window
<1>3. \A k \in 1..(j - i) : u[k] = cells[i + k]  BY DEF Window
<1>4. \A k \in 1..(m - j) : v[k] = cells[j + k]  BY DEF Window
<1> HIDE DEF u, v, w
<1>5. u \o v \in Seq(Bytes) /\ Len(u \o v) = m - i  BY <1>1
<1>6. ASSUME NEW k \in 1..(m - i) PROVE w[k] = (u \o v)[k]
    <2>1. CASE k <= j - i  BY <1>1, <1>2, <1>3, <2>1
    <2>2. CASE k > j - i
        <3>1. (u \o v)[k] = v[k - (j - i)]
            <4>1. k \in 1..(Len(u) + Len(v)) /\ ~ (k <= Len(u))  BY <1>1, <2>2
            <4>2. k - Len(u) = k - (j - i)  BY <1>1
            <4> QED  BY <1>1, <4>1, <4>2, SMTT(30)
        <3>2. k - (j - i) \in 1..(m - j) /\ j + (k - (j - i)) = i + k  BY <2>2
        <3> QED  BY <1>2, <1>4, <3>1, <3>2
    <2>3. k <= j - i \/ k > j - i  OBVIOUS
    <2> QED  BY <2>1, <2>2, <2>3
<1>7. w = u \o v  BY <1>1, <1>5, <1>6, SeqEqual
<1> QED  BY <1>7 DEF u, v, w

-----------------------------------------------------------------------------
BufferRecords ==
    [array : Everywhere \cup {B!NoArray}, len : 0..Size, start : 0..Size, end : 0..Size,
     capacity : 0..Size, refs : Nat, managed : BOOLEAN]

(* The cursors are in order, and a managed buffer has an array of the pool.*)
Sound(r) ==
    /\ r.start <= r.end /\ r.end <= r.len /\ r.capacity <= r.len
    /\ r.array = B!NoArray => r.len = 0 /\ ~r.managed
    /\ r.managed => r.array \in PoolArrays

(* No two buffers have an array in common, and none that is in the pool.   *)
QueueInv ==
    /\ store \in [Everywhere -> Cells]
    /\ free \subseteq PoolArrays
    /\ buf \in [Buffers -> BufferRecords]
    /\ \A b \in Buffers : Sound(buf[b]) /\ buf[b].array \notin free
    /\ \A b, c \in Buffers : b # c /\ buf[b].array # B!NoArray => buf[b].array # buf[c].array

(* What a buffer shows of the arrays.                                      *)
Shows(cells, r) == IF r.array = B!NoArray THEN <<>> ELSE Window(cells[r.array], r.start, r.end)

(* It is the part of the array between the cursors, and a string.          *)
LEMMA ShowsIs ==
    ASSUME NEW cells \in [Everywhere -> Cells], NEW r \in BufferRecords, Sound(r)
    PROVE  /\ Shows(cells, r) =
                IF r.array = B!NoArray THEN <<>> ELSE SubSeq(cells[r.array], r.start + 1, r.end)
           /\ Shows(cells, r) \in B!Strings /\ Shows(cells, r) \in Seq(Bytes)
           /\ Len(Shows(cells, r)) = r.end - r.start
<1> USE BufferAssumption
<1>1. CASE r.array = B!NoArray
    <2>1. <<>> \in [1..0 -> Bytes]  OBVIOUS
    <2>2. <<>> \in B!Strings  BY <2>1 DEF B!Strings
    <2>3. r.end = 0 /\ r.start = 0  BY <1>1 DEF Sound, BufferRecords
    <2> QED  BY <1>1, <2>2, <2>3 DEF Shows
<1>2. CASE r.array # B!NoArray
    <2>1. /\ cells[r.array] \in Cells /\ r.start \in 0..Size /\ r.end \in r.start..Size
        BY <1>2 DEF BufferRecords, Sound
    <2> QED  BY <1>2, <2>1, WindowIs DEF Shows
<1> QED  BY <1>1, <1>2

(* So are the contents of every buffer.                                    *)
LEMMA ContentsAre ==
    ASSUME QueueInv, NEW b \in Buffers
    PROVE  /\ B!Contents(b) = Shows(store, buf[b]) /\ B!Contents(b) \in B!Strings
           /\ B!Contents(b) \in Seq(Bytes) /\ Len(B!Contents(b)) = buf[b].end - buf[b].start
    BY ShowsIs DEF QueueInv, B!Contents

(* A call that works on one buffer, and on no array but the one that it    *)
(* had or takes, keeps the invariant and what the other buffers show.      *)
LEMMA OneBuffer ==
    ASSUME QueueInv, NEW b \in Buffers, NEW new \in BufferRecords, Sound(new), B!Update(b, new),
           store' \in [Everywhere -> Cells],
           \A a \in Everywhere : a # buf[b].array /\ a # new.array => store'[a] = store[a],
           free' \subseteq PoolArrays, new.array \notin free',
           \A c \in Buffers \ {b} : buf[c].array \notin free',
           new.array \in {B!NoArray, buf[b].array} \/ new.array \notin B!Held
    PROVE  /\ QueueInv'
           /\ \A c \in Buffers \ {b} : B!Contents(c)' = B!Contents(c)
           /\ buf'[b] = new /\ B!Contents(b)' = Shows(store', new)
<1> USE BufferAssumption
<1>1. buf'[b] = new /\ (\A c \in Buffers \ {b} : buf'[c] = buf[c])
      /\ buf' \in [Buffers -> BufferRecords]
    BY DEF QueueInv, B!Update
<1>2. ASSUME NEW c \in Buffers \ {b}, buf[c].array # B!NoArray
      PROVE  buf[c].array # buf[b].array /\ buf[c].array # new.array
    BY <1>2 DEF QueueInv, B!Held
<1>3. QueueInv'
    <2>1. \A c \in Buffers : Sound(buf'[c]) /\ buf'[c].array \notin free'
        BY <1>1 DEF QueueInv
    <2>2. ASSUME NEW c \in Buffers, NEW d \in Buffers, c # d, buf'[c].array # B!NoArray
          PROVE  buf'[c].array # buf'[d].array
        <3>1. CASE c # b /\ d # b  BY <1>1, <2>2, <3>1 DEF QueueInv
        <3>2. CASE c = b /\ d # b
            <4>1. CASE buf[d].array = B!NoArray  BY <1>1, <2>2, <3>2, <4>1
            <4>2. CASE buf[d].array # B!NoArray  BY <1>1, <1>2, <2>2, <3>2, <4>2
            <4> QED  BY <4>1, <4>2
        <3>3. CASE c # b /\ d = b  BY <1>1, <1>2, <2>2, <3>3
        <3> QED  BY <2>2, <3>1, <3>2, <3>3
    <2> QED  BY <1>1, <2>1, <2>2 DEF QueueInv
<1>4. ASSUME NEW c \in Buffers \ {b} PROVE B!Contents(c)' = B!Contents(c)
    <2>1. CASE buf[c].array = B!NoArray  BY <1>1, <2>1 DEF B!Contents
    <2>2. CASE buf[c].array # B!NoArray
        <3>1. buf[c].array \in Everywhere  BY <2>2 DEF QueueInv, BufferRecords
        <3>2. store'[buf[c].array] = store[buf[c].array]  BY <1>2, <2>2, <3>1
        <3> QED  BY <1>1, <3>2 DEF B!Contents
    <2> QED  BY <2>1, <2>2
<1>5. B!Contents(b)' = Shows(store', new)  BY <1>1, ShowsIs DEF B!Contents
<1> QED  BY <1>1, <1>3, <1>4, <1>5

-----------------------------------------------------------------------------
(* A step on buffer b, as the queues see it.                               *)
Abstract(b) ==
    /\ \A c \in Buffers \ {b} : B!Contents(c)' = B!Contents(c)
    /\ \/ Q!Call(B!Contents(b), B!Contents(b)', answer')
       \/ B!Contents(b)' = B!Contents(b) /\ answer' = answer

(* What becomes of a buffer when its cursors are moved.                    *)
Fits(new, r, i, j) ==
    /\ new \in BufferRecords /\ Sound(new)
    /\ new.array = r.array /\ new.start = i /\ new.end = j

(* Advance, Read and ExtendHeader move the start,                          *)
LEMMA StartMoves ==
    ASSUME NEW r \in BufferRecords, Sound(r), NEW i \in 0..r.end
    PROVE  Fits([r EXCEPT !.start = i], r, i, r.end)
<1> DEFINE new == [r EXCEPT !.start = i]
<1>1. new \in BufferRecords /\ new.array = r.array /\ new.start = i /\ new.end = r.end
    BY BufferAssumption DEF BufferRecords
<1>2. Sound(new)  BY BufferAssumption DEF BufferRecords, Sound
<1> QED  BY <1>1, <1>2 DEF Fits

(* the writes and Truncate the end,                                        *)
LEMMA EndMoves ==
    ASSUME NEW r \in BufferRecords, Sound(r), NEW j \in r.start..r.len
    PROVE  Fits([r EXCEPT !.end = j], r, r.start, j)
<1> DEFINE new == [r EXCEPT !.end = j]
<1>1. new \in BufferRecords /\ new.array = r.array /\ new.start = r.start /\ new.end = j
    BY BufferAssumption DEF BufferRecords
<1>2. Sound(new)  BY BufferAssumption DEF BufferRecords, Sound
<1> QED  BY <1>1, <1>2 DEF Fits

(* Resize and Reset both.                                                  *)
LEMMA BothMove ==
    ASSUME NEW r \in BufferRecords, Sound(r), NEW i \in 0..r.len, NEW j \in i..r.len
    PROVE  /\ Fits([r EXCEPT !.start = i, !.end = j], r, i, j)
           /\ Fits([r EXCEPT !.start = i, !.end = j, !.capacity = r.len], r, i, j)
<1> DEFINE new == [r EXCEPT !.start = i, !.end = j]
           all == [r EXCEPT !.start = i, !.end = j, !.capacity = r.len]
<1>0. i \in 0..Size /\ j \in 0..Size /\ r.len \in 0..Size
    BY BufferAssumption DEF BufferRecords
<1>1. new \in BufferRecords /\ new.array = r.array /\ new.start = i /\ new.end = j
    BY <1>0, BufferAssumption DEF BufferRecords
<1>2. Sound(new)  BY BufferAssumption DEF BufferRecords, Sound
<1>3. all \in BufferRecords /\ all.array = r.array /\ all.start = i /\ all.end = j
    BY <1>0, BufferAssumption DEF BufferRecords
<1>4. Sound(all)  BY BufferAssumption DEF BufferRecords, Sound
<1> QED  BY <1>1, <1>2, <1>3, <1>4 DEF Fits

(* The capacity and the references are apart from the cursors.             *)
LEMMA CursorsStay ==
    ASSUME NEW r \in BufferRecords, Sound(r), NEW m \in 0..r.len, NEW n \in Nat
    PROVE  /\ Fits([r EXCEPT !.capacity = m], r, r.start, r.end)
           /\ Fits([r EXCEPT !.refs = n], r, r.start, r.end)
<1> DEFINE new == [r EXCEPT !.capacity = m]
           ref == [r EXCEPT !.refs = n]
<1>1. new \in BufferRecords /\ new.array = r.array /\ new.start = r.start /\ new.end = r.end
    BY BufferAssumption DEF BufferRecords
<1>2. Sound(new)  BY BufferAssumption DEF BufferRecords, Sound
<1>3. ref \in BufferRecords /\ ref.array = r.array /\ ref.start = r.start /\ ref.end = r.end
    BY BufferAssumption DEF BufferRecords
<1>4. Sound(ref)  BY BufferAssumption DEF BufferRecords, Sound
<1> QED  BY <1>1, <1>2, <1>3, <1>4 DEF Fits

(* Calls that move the cursors and no byte.                                *)
LEMMA CursorsMove ==
    ASSUME QueueInv, NEW b \in Buffers, NEW new, NEW i, NEW j, Fits(new, buf[b], i, j),
           B!Update(b, new), UNCHANGED <<store, free>>
    PROVE  /\ QueueInv'
           /\ \A c \in Buffers \ {b} : B!Contents(c)' = B!Contents(c)
           /\ B!Contents(b)' = Shows(store, new)
<1>1. store' \in [Everywhere -> Cells] /\ free' \subseteq PoolArrays
      /\ \A c \in Buffers : buf[c].array \notin free'
    BY DEF QueueInv
<1> QED  BY <1>1, OneBuffer DEF Fits

(* The first bytes of a sequence.                                          *)
LEMMA PrefixIs ==
    ASSUME NEW S, NEW c \in Seq(S), NEW n \in 0..Len(c), NEW w \in Seq(S), Len(w) = n,
           \A k \in 1..n : w[k] = c[k]
    PROVE  SubSeq(c, 1, n) = w
<1>1. SubSeq(c, 1, n) \in Seq(S) /\ Len(SubSeq(c, 1, n)) = n
      /\ \A k \in 1..n : SubSeq(c, 1, n)[k] = c[k]
    OBVIOUS
<1> QED  BY <1>1, SeqEqual

(* A prefix of what a buffer shows, and the rest.                          *)
LEMMA ShowsSplit ==
    ASSUME NEW cells \in [Everywhere -> Cells], NEW r \in BufferRecords, Sound(r),
           NEW n \in 0..(r.end - r.start), NEW first, Fits(first, r, r.start, r.start + n),
           NEW rest, Fits(rest, r, r.start + n, r.end)
    PROVE  /\ Shows(cells, r) = Shows(cells, first) \o Shows(cells, rest)
           /\ SubSeq(Shows(cells, r), 1, n) = Shows(cells, first)
<1> USE BufferAssumption
<1>1. /\ Shows(cells, r) \in Seq(Bytes) /\ Len(Shows(cells, r)) = r.end - r.start
      /\ Shows(cells, first) \in Seq(Bytes) /\ Len(Shows(cells, first)) = n
    <2>1. first.end - first.start = n  BY DEF Fits, BufferRecords
    <2> QED  BY <2>1, ShowsIs DEF Fits
<1>2. CASE r.array = B!NoArray
    <2>1. Shows(cells, r) = <<>> /\ Shows(cells, first) = <<>> /\ Shows(cells, rest) = <<>>
        BY <1>2 DEF Shows, Fits
    <2>2. n = 0  BY <1>1, <2>1
    <2> QED  BY <2>1, <2>2
<1>3. CASE r.array # B!NoArray
    <2> DEFINE a == cells[r.array]
    <2>1. a \in Cells /\ r.start \in 0..Size /\ r.start + n \in r.start..Size
          /\ r.end \in (r.start + n)..Size
        BY <1>3 DEF BufferRecords, Sound
    <2>2. /\ Shows(cells, r) = Window(a, r.start, r.end)
          /\ Shows(cells, first) = Window(a, r.start, r.start + n)
          /\ Shows(cells, rest) = Window(a, r.start + n, r.end)
        BY <1>3 DEF Shows, Fits
    <2> HIDE DEF a
    <2>3. Window(a, r.start, r.end) =
            Window(a, r.start, r.start + n) \o Window(a, r.start + n, r.end)
        BY <2>1, WindowsJoin
    <2>4. \A k \in 1..n : Shows(cells, first)[k] = Shows(cells, r)[k]
        <3>1. 1..n \subseteq 1..(r.end - r.start) /\ (r.start + n) - r.start = n  BY <2>1
        <3> QED  BY <2>2, <3>1 DEF Window
    <2> QED  BY <1>1, <2>2, <2>3, <2>4, PrefixIs
<1> QED  BY <1>2, <1>3

(* Between the cursors there is no way out of the array.                   *)
LEMMA InWindow ==
    ASSUME NEW r \in BufferRecords, Sound(r), NEW n \in 0..(r.end - r.start)
    PROVE  r.start + n \in 0..r.end /\ r.start + n \in r.start..r.len
    BY BufferAssumption DEF BufferRecords, Sound

(* A call that takes the first bytes of a buffer returns them.             *)
LEMMA BytesLeave ==
    ASSUME QueueInv, NEW b \in Buffers, NEW n \in 0..Len(B!Contents(b)),
           B!Update(b, [buf[b] EXCEPT !.start = @ + n]), answer' = SubSeq(B!Contents(b), 1, n),
           UNCHANGED <<store, free>>
    PROVE  QueueInv' /\ Abstract(b)
<1> DEFINE r == buf[b]
           rest == [r EXCEPT !.start = r.start + n]
           first == [r EXCEPT !.end = r.start + n]
<1>1. /\ r \in BufferRecords /\ Sound(r) /\ n \in 0..(r.end - r.start)
      /\ B!Contents(b) = Shows(store, r) /\ store \in [Everywhere -> Cells]
    BY ContentsAre DEF QueueInv
<1>2. r.start + n \in 0..r.end /\ r.start + n \in r.start..r.len
    BY <1>1, InWindow
<1>3. Fits(rest, r, r.start + n, r.end) /\ Fits(first, r, r.start, r.start + n)
    BY <1>1, <1>2, StartMoves, EndMoves
<1>4. B!Update(b, rest)  OBVIOUS
<1> HIDE DEF rest, first, r
<1>5. /\ QueueInv' /\ (\A c \in Buffers \ {b} : B!Contents(c)' = B!Contents(c))
      /\ B!Contents(b)' = Shows(store, rest)
    BY <1>3, <1>4, CursorsMove DEF r
<1>6. B!Contents(b) = answer' \o B!Contents(b)'
    <2>1. /\ Shows(store, r) = Shows(store, first) \o Shows(store, rest)
          /\ SubSeq(Shows(store, r), 1, n) = Shows(store, first)
        BY <1>1, <1>3, ShowsSplit, Zenon
    <2> QED  BY <1>1, <1>5, <2>1
<1>7. Q!Call(B!Contents(b), B!Contents(b)', answer')  BY <1>6 DEF Q!Call, Q!Read
<1> QED  BY <1>5, <1>7 DEF Abstract

(* Read and Advance.                                                       *)
LEMMA ReadStep ==
    ASSUME QueueInv, NEW b \in Buffers, NEW n \in 1..Size, B!Read(b, n) \/ B!Advance(b, n)
    PROVE  QueueInv' /\ Abstract(b)
<1>1. B!Contents(b) \in Seq(Bytes)  BY ContentsAre
<1>2. CASE B!Read(b, n)
    <2>1. B!Min(n, Len(B!Contents(b))) \in 0..Len(B!Contents(b))  BY <1>1 DEF B!Min
    <2> QED  BY <1>2, <2>1, BytesLeave DEF B!Read
<1>3. CASE B!Advance(b, n)
    <2>1. n \in 0..Len(B!Contents(b))  BY <1>1, <1>3 DEF B!Advance
    <2> QED  BY <1>3, <2>1, BytesLeave DEF B!Advance
<1> QED  BY <1>2, <1>3

(* Truncate keeps the first bytes.                                         *)
LEMMA TruncateStep ==
    ASSUME QueueInv, NEW b \in Buffers, NEW n \in 0..Size, B!Truncate(b, n)
    PROVE  QueueInv' /\ Abstract(b)
<1> DEFINE r == buf[b]
           rest == [r EXCEPT !.start = r.start + n]
           first == [r EXCEPT !.end = r.start + n]
<1>1. /\ r \in BufferRecords /\ Sound(r) /\ n \in 0..(r.end - r.start)
      /\ B!Contents(b) = Shows(store, r) /\ store \in [Everywhere -> Cells]
      /\ n \in 0..Len(B!Contents(b))
    BY ContentsAre DEF QueueInv, B!Truncate
<1>2. r.start + n \in 0..r.end /\ r.start + n \in r.start..r.len
    BY <1>1, InWindow
<1>3. Fits(rest, r, r.start + n, r.end) /\ Fits(first, r, r.start, r.start + n)
    BY <1>1, <1>2, StartMoves, EndMoves
<1>4. B!Update(b, first) /\ answer' = <<>> /\ UNCHANGED <<store, free>>  BY DEF B!Truncate
<1> HIDE DEF rest, first, r
<1>5. /\ QueueInv' /\ (\A c \in Buffers \ {b} : B!Contents(c)' = B!Contents(c))
      /\ B!Contents(b)' = Shows(store, first)
    BY <1>3, <1>4, CursorsMove DEF r
<1>6. B!Contents(b)' = SubSeq(B!Contents(b), 1, n)
    <2>1. SubSeq(Shows(store, r), 1, n) = Shows(store, first)
        BY <1>1, <1>3, ShowsSplit, Zenon
    <2> QED  BY <1>1, <1>5, <2>1
<1>7. Q!Truncate(B!Contents(b), B!Contents(b)', answer')  BY <1>1, <1>4, <1>6 DEF Q!Truncate
<1> QED  BY <1>5, <1>7 DEF Abstract, Q!Call

(* Resize shows whatever is between the new cursors.                       *)
LEMMA ResizeStep ==
    ASSUME QueueInv, NEW b \in Buffers, NEW m \in 0..Size, NEW n \in 0..Size, B!Resize(b, m, n)
    PROVE  QueueInv' /\ Abstract(b)
<1> DEFINE r == buf[b]
           new == [r EXCEPT !.start = m, !.end = m + n]
<1>1. r \in BufferRecords /\ Sound(r) /\ store \in [Everywhere -> Cells]  BY DEF QueueInv
<1>2. m \in 0..r.len /\ m + n \in m..r.len
    BY <1>1, BufferAssumption DEF BufferRecords, Sound, B!Resize
<1>3. Fits(new, r, m, m + n)  BY <1>1, <1>2, BothMove
<1>4. B!Update(b, new) /\ answer' = B!Shown /\ UNCHANGED <<store, free>>  BY DEF B!Resize
<1> HIDE DEF new, r
<1>5. /\ QueueInv' /\ (\A c \in Buffers \ {b} : B!Contents(c)' = B!Contents(c))
      /\ B!Contents(b)' = Shows(store, new)
    BY <1>3, <1>4, CursorsMove DEF r
<1>6. B!Contents(b)' \in B!Strings  BY <1>1, <1>3, <1>5, ShowsIs DEF Fits
<1>7. Q!Show(B!Contents(b), B!Contents(b)', answer')  BY <1>4, <1>6 DEF Q!Show, Q!Shown, B!Shown
<1> QED  BY <1>5, <1>7 DEF Abstract, Q!Call

(* A buffer that becomes empty.                                            *)
LEMMA Emptied ==
    ASSUME QueueInv, NEW b \in Buffers, B!Contents(b)' = <<>>, answer' = <<>>
    PROVE  Q!Call(B!Contents(b), B!Contents(b)', answer')
<1>1. B!Contents(b) \in Seq(Bytes)  BY ContentsAre
<1>2. 0 \in 0..Len(B!Contents(b)) /\ SubSeq(B!Contents(b), 1, 0) = <<>>  BY <1>1
<1> QED  BY <1>2 DEF Q!Call, Q!Truncate

(* Reset empties the buffer.                                               *)
LEMMA ResetStep ==
    ASSUME QueueInv, NEW b \in Buffers, B!Reset(b)
    PROVE  QueueInv' /\ Abstract(b)
<1> DEFINE r == buf[b]
           new == [r EXCEPT !.start = 0, !.end = 0, !.capacity = r.len]
<1>1. r \in BufferRecords /\ Sound(r)  BY DEF QueueInv
<1>2. 0 \in 0..r.len  BY <1>1, BufferAssumption DEF BufferRecords
<1>3. Fits(new, r, 0, 0)  BY <1>1, <1>2, BothMove
<1>4. B!Update(b, new) /\ answer' = <<>> /\ UNCHANGED <<store, free>>  BY DEF B!Reset
<1> HIDE DEF new, r
<1>5. /\ QueueInv' /\ (\A c \in Buffers \ {b} : B!Contents(c)' = B!Contents(c))
      /\ B!Contents(b)' = Shows(store, new)
    BY <1>3, <1>4, CursorsMove DEF r
<1>6. Shows(store, new) = <<>>  BY <1>3 DEF Shows, Window, Fits
<1> QED  BY <1>4, <1>5, <1>6, Emptied DEF Abstract

(* Calls that neither move a byte nor show others.                         *)
LEMMA QuietStep ==
    ASSUME QueueInv, NEW b \in Buffers, NEW new, Fits(new, buf[b], buf[b].start, buf[b].end),
           B!Update(b, new), UNCHANGED <<store, free, answer>>
    PROVE  QueueInv' /\ Abstract(b)
<1>1. /\ QueueInv' /\ (\A c \in Buffers \ {b} : B!Contents(c)' = B!Contents(c))
      /\ B!Contents(b)' = Shows(store, new)
    BY CursorsMove
<1>2. Shows(store, new) = B!Contents(b)  BY ContentsAre DEF Shows, Fits
<1> QED  BY <1>1, <1>2 DEF Abstract

(* References and the capacity.                                            *)
LEMMA CountSteps ==
    ASSUME QueueInv, NEW b \in Buffers, B!IncRef(b) \/ B!DecRef(b)
    PROVE  QueueInv' /\ Abstract(b)
<1>1. buf[b] \in BufferRecords /\ Sound(buf[b])  BY DEF QueueInv
<1>2. buf[b].refs \in Nat /\ 0 \in 0..buf[b].len  BY <1>1, BufferAssumption DEF BufferRecords
<1>3. CASE B!IncRef(b)
    <2>1. buf[b].refs + 1 \in Nat  BY <1>2
    <2> QED  BY <1>1, <1>2, <1>3, <2>1, CursorsStay, QuietStep DEF B!IncRef
<1>4. CASE B!DecRef(b)
    <2>1. buf[b].refs - 1 \in Nat  BY <1>2, <1>4 DEF B!DecRef
    <2> QED  BY <1>1, <1>2, <1>4, <2>1, CursorsStay, QuietStep DEF B!DecRef
<1> QED  BY <1>3, <1>4

(* Reserve and OverCap.                                                    *)
LEMMA CapacitySteps ==
    ASSUME QueueInv, NEW b \in Buffers, NEW n \in 1..Size, B!Reserve(b, n) \/ B!OverCap(b, n)
    PROVE  QueueInv' /\ Abstract(b)
<1>1. buf[b] \in BufferRecords /\ Sound(buf[b])  BY DEF QueueInv
<1>2. CASE B!Reserve(b, n)
    <2>1. buf[b].capacity - n \in 0..buf[b].len
        BY <1>1, <1>2, BufferAssumption DEF BufferRecords, Sound, B!Reserve
    <2> QED  BY <1>1, <1>2, <2>1, CursorsStay, QuietStep DEF B!Reserve
<1>3. CASE B!OverCap(b, n)
    <2>1. buf[b].capacity + n \in 0..buf[b].len
        BY <1>1, <1>3, BufferAssumption DEF BufferRecords, Sound, B!OverCap
    <2> QED  BY <1>1, <1>3, <2>1, CursorsStay, QuietStep DEF B!OverCap
<1> QED  BY <1>2, <1>3

-----------------------------------------------------------------------------
(* The strings are the sequences of bytes that an array has room for.      *)
LEMMA StringsAre ==
    /\ \A s \in B!Strings : s \in Seq(Bytes) /\ Len(s) \in 0..Size
    /\ \A s \in Seq(Bytes) : Len(s) <= Size => s \in B!Strings
<1> USE BufferAssumption
<1>1. ASSUME NEW s \in B!Strings PROVE s \in Seq(Bytes) /\ Len(s) \in 0..Size
    <2>1. PICK n \in 0..Size : s \in [1..n -> Bytes]  BY DEF B!Strings
    <2> QED  BY <2>1
<1>2. ASSUME NEW s \in Seq(Bytes), Len(s) <= Size PROVE s \in B!Strings
    <2>1. s \in [1..Len(s) -> Bytes] /\ Len(s) \in 0..Size  BY <1>2
    <2> QED  BY <2>1 DEF B!Strings
<1> QED  BY <1>1, <1>2

(* The bytes of s in an array, from position at.                           *)
Put(cells, at, s) ==
    [k \in 1..Size |-> IF k \in (at + 1)..(at + Len(s)) THEN s[k - at] ELSE cells[k]]

(* They are found where they were put, and what is before and behind them  *)
(* stays.                                                                  *)
LEMMA PutIs ==
    ASSUME NEW cells \in Cells, NEW s \in Seq(Bytes), NEW at \in 0..Size, at + Len(s) <= Size
    PROVE  /\ Put(cells, at, s) \in Cells
           /\ Window(Put(cells, at, s), at, at + Len(s)) = s
           /\ \A i \in 0..at : Window(Put(cells, at, s), i, at) = Window(cells, i, at)
           /\ \A j \in (at + Len(s))..Size :
                Window(Put(cells, at, s), at + Len(s), j) = Window(cells, at + Len(s), j)
<1> USE BufferAssumption
<1> DEFINE p == Put(cells, at, s)
           n == Len(s)
<1>1. n \in Nat /\ \A k \in 1..n : s[k] \in Bytes  OBVIOUS
<1>2. ASSUME NEW k \in 1..Size
      PROVE  p[k] = IF k \in (at + 1)..(at + n) THEN s[k - at] ELSE cells[k]
    BY DEF Put
<1>3. ASSUME NEW k \in 1..Size PROVE p[k] \in Bytes
    <2>1. CASE k \in (at + 1)..(at + n)
        <3>1. k - at \in 1..n  BY <1>1, <2>1
        <3> QED  BY <1>1, <1>2, <2>1, <3>1
    <2>2. CASE k \notin (at + 1)..(at + n)  BY <1>2, <2>2 DEF Cells
    <2> QED  BY <2>1, <2>2
<1>4. p \in Cells
    <2>1. p = [k \in 1..Size |-> p[k]]  BY DEF Put
    <2> QED  BY <1>3, <2>1 DEF Cells
<1> HIDE DEF p, n
<1>5. Window(p, at, at + n) = s
    <2>1. at + n \in at..Size  BY <1>1 DEF n
    <2>2. Window(p, at, at + n) \in Seq(Bytes) /\ Len(Window(p, at, at + n)) = (at + n) - at
        BY <1>4, <2>1, WindowIs
    <2>3. (at + n) - at = n /\ n = Len(s)  BY <1>1 DEF n
    <2>4. ASSUME NEW k \in 1..n PROVE Window(p, at, at + n)[k] = s[k]
        <3>1. at + k \in 1..Size /\ at + k \in (at + 1)..(at + n) /\ (at + k) - at = k
            BY <1>1, <2>1
        <3>2. Window(p, at, at + n)[k] = p[at + k]  BY <2>3 DEF Window
        <3> QED  BY <1>2, <3>1, <3>2
    <2> QED  BY <2>2, <2>3, <2>4, SeqEqual
<1>6. ASSUME NEW i \in 0..at PROVE Window(p, i, at) = Window(cells, i, at)
    <2>1. ASSUME NEW k \in 1..(at - i) PROVE p[i + k] = cells[i + k]
        <3>1. i + k \in 1..Size /\ i + k \notin (at + 1)..(at + n)  BY <1>1
        <3> QED  BY <1>2, <3>1
    <2> QED  BY <2>1 DEF Window
<1>7. ASSUME NEW j \in (at + n)..Size PROVE Window(p, at + n, j) = Window(cells, at + n, j)
    <2>1. ASSUME NEW k \in 1..(j - (at + n)) PROVE p[(at + n) + k] = cells[(at + n) + k]
        <3>1. (at + n) + k \in 1..Size /\ (at + n) + k \notin (at + 1)..(at + n)  BY <1>1
        <3> QED  BY <1>2, <3>1
    <2> QED  BY <2>1 DEF Window
<1> QED  BY <1>4, <1>5, <1>6, <1>7 DEF p, n

(* A call that puts bytes into the array of its buffer.                    *)
LEMMA BytesPut ==
    ASSUME QueueInv, NEW b \in Buffers, buf[b].array # B!NoArray,
           NEW s \in Seq(Bytes), NEW at \in 0..Size, at + Len(s) <= Size,
           NEW new, NEW i, NEW j, Fits(new, buf[b], i, j),
           store' = B!Stored(b, at, s), B!Update(b, new), UNCHANGED free
    PROVE  /\ QueueInv'
           /\ \A c \in Buffers \ {b} : B!Contents(c)' = B!Contents(c)
           /\ B!Contents(b)' = Window(Put(store[buf[b].array], at, s), i, j)
<1> DEFINE a == buf[b].array
<1>1. a \in Everywhere /\ store \in [Everywhere -> Cells]  BY DEF QueueInv, BufferRecords
<1>2. store' = [store EXCEPT ![a] = Put(store[a], at, s)]  BY DEF B!Stored, Put
<1>3. Put(store[a], at, s) \in Cells  BY <1>1, PutIs
<1>4. /\ store' \in [Everywhere -> Cells] /\ store'[a] = Put(store[a], at, s)
      /\ \A d \in Everywhere : d # a => store'[d] = store[d]
    BY <1>1, <1>2, <1>3
<1>5. free' \subseteq PoolArrays /\ \A c \in Buffers : buf[c].array \notin free'
    BY DEF QueueInv
<1>6. new \in BufferRecords /\ Sound(new) /\ new.array = a /\ new.start = i /\ new.end = j
    BY DEF Fits
<1> HIDE DEF a
<1>7. /\ QueueInv' /\ (\A c \in Buffers \ {b} : B!Contents(c)' = B!Contents(c))
      /\ B!Contents(b)' = Shows(store', new)
    BY <1>4, <1>5, <1>6, OneBuffer DEF a
<1>8. Shows(store', new) = Window(Put(store[a], at, s), i, j)  BY <1>4, <1>6 DEF Shows, a
<1> QED  BY <1>7, <1>8 DEF a

(* Bytes that are put at the end are behind the contents.                  *)
LEMMA BytesEnter ==
    ASSUME QueueInv, NEW b \in Buffers, buf[b].array # B!NoArray,
           NEW s \in Seq(Bytes), buf[b].end + Len(s) <= buf[b].len,
           store' = B!Stored(b, buf[b].end, s), B!Update(b, [buf[b] EXCEPT !.end = @ + Len(s)]),
           answer' = s, UNCHANGED free
    PROVE  QueueInv' /\ Abstract(b)
<1> DEFINE r == buf[b]
           cells == store[r.array]
           new == [r EXCEPT !.end = r.end + Len(s)]
<1>1. r \in BufferRecords /\ Sound(r) /\ B!Contents(b) = Shows(store, r)
    BY ContentsAre DEF QueueInv
<1>2. /\ cells \in Cells /\ Len(s) \in Nat /\ r.start \in 0..r.end /\ r.end \in 0..Size
      /\ r.end + Len(s) \in r.start..r.len /\ r.end + Len(s) \in r.end..Size
    BY <1>1, BufferAssumption DEF QueueInv, BufferRecords, Sound
<1>3. Fits(new, r, r.start, r.end + Len(s))  BY <1>1, <1>2, EndMoves
<1>4. /\ QueueInv' /\ (\A c \in Buffers \ {b} : B!Contents(c)' = B!Contents(c))
      /\ B!Contents(b)' = Window(Put(cells, r.end, s), r.start, r.end + Len(s))
    <2>1. r.end + Len(s) <= Size  BY <1>2, BufferAssumption
    <2> QED  BY <1>2, <1>3, <2>1, BytesPut
<1>5. B!Contents(b) = Window(cells, r.start, r.end)  BY <1>1 DEF Shows
<1> DEFINE p == Put(cells, r.end, s)
<1>6. /\ p \in Cells /\ Window(p, r.end, r.end + Len(s)) = s
      /\ Window(p, r.start, r.end) = Window(cells, r.start, r.end)
    <2>1. r.end + Len(s) <= Size  BY <1>2, BufferAssumption
    <2> QED  BY <1>2, <2>1, PutIs
<1> HIDE DEF r, cells, p
<1>7. Window(p, r.start, r.end + Len(s)) = B!Contents(b) \o s
    <2>1. r.start \in 0..Size /\ r.end \in r.start..Size  BY <1>2, BufferAssumption
    <2>2. Window(p, r.start, r.end + Len(s)) =
            Window(p, r.start, r.end) \o Window(p, r.end, r.end + Len(s))
        BY <1>2, <1>6, <2>1, WindowsJoin
    <2> QED  BY <1>5, <1>6, <2>2
<1>8. s \in B!Strings
    <2>1. Len(s) <= Size  BY <1>2, BufferAssumption
    <2> QED  BY <2>1, StringsAre
<1>9. Q!Write(B!Contents(b), B!Contents(b)', answer')  BY <1>4, <1>7, <1>8 DEF Q!Write, p
<1> QED  BY <1>4, <1>9 DEF Abstract, Q!Call

(* A buffer with a free byte has an array.                                 *)
LEMMA HasArray ==
    ASSUME QueueInv, NEW b \in Buffers, buf[b].len > 0
    PROVE  buf[b].array # B!NoArray
    BY BufferAssumption DEF QueueInv, Sound

(* Write, WriteString and WriteRune put what fits.                         *)
LEMMA WriteStep ==
    ASSUME QueueInv, NEW b \in Buffers, NEW s \in B!Strings, B!Write(b, s)
    PROVE  QueueInv' /\ Abstract(b)
<1> DEFINE n == B!Min(Len(s), B!FreeLen(b))
           t == SubSeq(s, 1, n)
<1>1. buf[b] \in BufferRecords /\ Sound(buf[b]) /\ s \in Seq(Bytes)
    BY StringsAre DEF QueueInv
<1>2. n \in 0..Len(s) /\ n <= buf[b].capacity - buf[b].end /\ buf[b].capacity > buf[b].end
    BY <1>1, BufferAssumption DEF BufferRecords, B!FreeLen, B!Min, B!Write
<1>3. t \in Seq(Bytes) /\ Len(t) = n  BY <1>1, <1>2
<1>4. buf[b].len > 0 /\ buf[b].end + n <= buf[b].len
    BY <1>1, <1>2, BufferAssumption DEF BufferRecords, Sound
<1>5. /\ store' = B!Stored(b, buf[b].end, t) /\ B!Update(b, [buf[b] EXCEPT !.end = @ + n])
      /\ answer' = t /\ UNCHANGED free
    BY DEF B!Write
<1> HIDE DEF n, t
<1>6. buf[b].array # B!NoArray  BY <1>4, HasArray
<1> QED  BY <1>3, <1>4, <1>5, <1>6, BytesEnter

(* WriteByte and WriteZero.                                                *)
LEMMA WriteByteStep ==
    ASSUME QueueInv, NEW b \in Buffers, NEW d \in Bytes, B!WriteByte(b, d)
    PROVE  QueueInv' /\ Abstract(b)
<1> DEFINE t == <<d>>
<1>1. buf[b] \in BufferRecords /\ Sound(buf[b]) /\ t \in Seq(Bytes) /\ Len(t) = 1
    BY DEF QueueInv
<1>2. buf[b].len > 0 /\ buf[b].end + 1 <= buf[b].len
    BY <1>1, BufferAssumption DEF BufferRecords, B!WriteByte
<1>3. /\ store' = B!Stored(b, buf[b].end, t) /\ B!Update(b, [buf[b] EXCEPT !.end = @ + 1])
      /\ answer' = t /\ UNCHANGED free
    BY DEF B!WriteByte
<1> HIDE DEF t
<1>4. buf[b].array # B!NoArray  BY <1>2, HasArray
<1> QED  BY <1>1, <1>2, <1>3, <1>4, BytesEnter

(* The reads into a buffer, and Extend.                                    *)
LEMMA FillSteps ==
    ASSUME QueueInv, NEW b \in Buffers, NEW s \in B!Strings, B!ReadFrom(b, s) \/ B!Extend(b, s)
    PROVE  QueueInv' /\ Abstract(b)
<1>1. buf[b] \in BufferRecords /\ Sound(buf[b]) /\ s \in Seq(Bytes) /\ Len(s) \in Nat
    BY StringsAre DEF QueueInv
<1>2. s # <<>> => Len(s) > 0  BY <1>1
<1>3. buf[b].len > 0 /\ buf[b].end + Len(s) <= buf[b].len
    BY <1>1, <1>2, BufferAssumption DEF BufferRecords, Sound, B!FreeLen, B!ReadFrom, B!Extend
<1>4. buf[b].array # B!NoArray  BY <1>3, HasArray
<1> QED  BY <1>1, <1>3, <1>4, BytesEnter DEF B!ReadFrom, B!Extend

(* ExtendHeader puts bytes before the contents.                            *)
LEMMA ExtendHeaderStep ==
    ASSUME QueueInv, NEW b \in Buffers, NEW s \in B!Strings, B!ExtendHeader(b, s)
    PROVE  QueueInv' /\ Abstract(b)
<1> DEFINE r == buf[b]
           cells == store[r.array]
           at == r.start - Len(s)
           new == [r EXCEPT !.start = at]
           p == Put(cells, at, s)
<1>1. r \in BufferRecords /\ Sound(r) /\ B!Contents(b) = Shows(store, r) /\ s \in Seq(Bytes)
      /\ Len(s) \in Nat
    BY ContentsAre, StringsAre DEF QueueInv
<1>2. Len(s) > 0 /\ r.start >= Len(s)  BY <1>1 DEF B!ExtendHeader
<1>3. r.len > 0  BY <1>1, <1>2 DEF BufferRecords, Sound
<1>4. r.array # B!NoArray  BY <1>3, HasArray
<1>5. /\ cells \in Cells /\ at \in 0..Size /\ at + Len(s) = r.start /\ at \in 0..r.end
      /\ r.start \in at..Size /\ r.end \in r.start..Size /\ r.start <= Size
    BY <1>1, <1>2, <1>4, BufferAssumption DEF QueueInv, BufferRecords, Sound
<1>6. Fits(new, r, at, r.end)  BY <1>1, <1>5, StartMoves
<1>7. /\ store' = B!Stored(b, at, s) /\ B!Update(b, new) /\ answer' = s /\ UNCHANGED free
    BY DEF B!ExtendHeader
<1> HIDE DEF new, at
<1>8. /\ QueueInv' /\ (\A c \in Buffers \ {b} : B!Contents(c)' = B!Contents(c))
      /\ B!Contents(b)' = Window(p, at, r.end)
    <2>1. at + Len(s) <= Size  BY <1>5, BufferAssumption
    <2>2. s \in Seq(Bytes) /\ at \in 0..Size  BY <1>1, <1>5
    <2> QED  BY <1>4, <1>6, <1>7, <2>1, <2>2, BytesPut
<1>9. B!Contents(b) = Window(cells, r.start, r.end)  BY <1>1, <1>4 DEF Shows
<1> HIDE DEF r, cells
<1>10. /\ p \in Cells /\ Window(p, at, r.start) = s
       /\ Window(p, r.start, r.end) = Window(cells, r.start, r.end)
    BY <1>1, <1>5, PutIs
<1> HIDE DEF p
<1>11. Window(p, at, r.end) = s \o B!Contents(b)
    <2>1. Window(p, at, r.end) = Window(p, at, r.start) \o Window(p, r.start, r.end)
        BY <1>5, <1>10, WindowsJoin
    <2> QED  BY <1>9, <1>10, <2>1
<1>12. Q!Prepend(B!Contents(b), B!Contents(b)', answer')  BY <1>7, <1>8, <1>11 DEF Q!Prepend
<1> QED  BY <1>8, <1>12 DEF Abstract, Q!Call

(* SetByte changes one byte of the contents.                               *)
LEMMA SetByteStep ==
    ASSUME QueueInv, NEW b \in Buffers, NEW index \in 0..(Size - 1), NEW value \in Bytes,
           B!SetByte(b, index, value)
    PROVE  QueueInv' /\ Abstract(b)
<1> DEFINE r == buf[b]
           cells == store[r.array]
           s == <<value>>
           at == r.start + index
           p == Put(cells, at, s)
<1>1. r \in BufferRecords /\ Sound(r) /\ B!Contents(b) = Shows(store, r) /\ s \in Seq(Bytes)
      /\ Len(s) = 1 /\ s[1] = value /\ Len(B!Contents(b)) = r.end - r.start
      /\ B!Contents(b) \in Seq(Bytes)
    BY ContentsAre DEF QueueInv
<1>2. index < r.end - r.start  BY <1>1 DEF B!SetByte
<1>3. r.len > 0  BY <1>1, <1>2 DEF BufferRecords, Sound
<1>4. r.array # B!NoArray  BY <1>3, HasArray
<1>5. /\ cells \in Cells /\ at \in 0..Size /\ at + 1 <= Size /\ r.start \in 0..Size
      /\ r.end \in r.start..Size
    BY <1>1, <1>2, <1>4, BufferAssumption DEF QueueInv, BufferRecords, Sound
<1>6. Fits(r, r, r.start, r.end)  BY <1>1 DEF Fits
<1>7. /\ store' = B!Stored(b, at, s) /\ B!Update(b, r) /\ answer' = <<>> /\ UNCHANGED free
    BY DEF B!SetByte, B!Update, QueueInv
<1>8. /\ QueueInv' /\ (\A c \in Buffers \ {b} : B!Contents(c)' = B!Contents(c))
      /\ B!Contents(b)' = Window(p, r.start, r.end)
    <2>1. at + Len(s) <= Size  BY <1>1, <1>5
    <2>2. s \in Seq(Bytes)  BY <1>1
    <2> HIDE DEF s, at
    <2> QED  BY <1>4, <1>5, <1>6, <1>7, <2>1, <2>2, BytesPut
<1>9. B!Contents(b) = Window(cells, r.start, r.end)  BY <1>1, <1>4 DEF Shows
<1>10. \A k \in 1..Size : p[k] = IF k = at + 1 THEN value ELSE cells[k]
    <2>1. ASSUME NEW k \in 1..Size
          PROVE  p[k] = IF k \in (at + 1)..(at + 1) THEN s[k - at] ELSE cells[k]
        BY <1>1 DEF Put
    <2>2. ASSUME NEW k \in 1..Size PROVE k \in (at + 1)..(at + 1) <=> k = at + 1
        BY <1>5
    <2>3. (at + 1) - at = 1  BY <1>5
    <2> QED  BY <1>1, <2>1, <2>2, <2>3
<1> HIDE DEF p, s
<1>11. Window(p, r.start, r.end) = [Window(cells, r.start, r.end) EXCEPT ![index + 1] = value]
    <2>1. ASSUME NEW k \in 1..(r.end - r.start)
          PROVE  p[r.start + k] = IF k = index + 1 THEN value ELSE cells[r.start + k]
        <3>1. r.start + k \in 1..Size /\ (r.start + k = at + 1 <=> k = index + 1)
            BY <1>5, BufferAssumption
        <3> QED  BY <1>10, <3>1
    <2> QED  BY <2>1 DEF Window
<1>12. index + 1 \in DOMAIN B!Contents(b)  BY <1>1, <1>2
<1>13. s \in B!Strings
    <2>1. Len(s) <= Size  BY <1>1, BufferAssumption
    <2> QED  BY <1>1, <2>1, StringsAre
<1>14. Q!SetByte(B!Contents(b), B!Contents(b)', answer')
    BY <1>1, <1>7, <1>8, <1>9, <1>11, <1>12, <1>13 DEF Q!SetByte
<1> QED  BY <1>8, <1>14 DEF Abstract, Q!Call

-----------------------------------------------------------------------------
(* Buffer{} has no array, and its cursors are in order.                    *)
LEMMA ZeroFits == B!Zero \in BufferRecords /\ Sound(B!Zero) /\ B!Zero.array = B!NoArray
              /\ B!Zero.start = 0 /\ B!Zero.end = 0 /\ ~B!Zero.managed
<1>1. B!Zero \in BufferRecords /\ B!Zero.array = B!NoArray
    BY BufferAssumption DEF B!Zero, BufferRecords
<1>2. Sound(B!Zero)
    <2>1. B!Zero.start = 0 /\ B!Zero.end = 0 /\ B!Zero.len = 0 /\ B!Zero.capacity = 0
          /\ B!Zero.managed = FALSE
        BY DEF B!Zero
    <2> QED  BY <2>1 DEF Sound
<1> QED  BY <1>1, <1>2 DEF B!Zero

(* A buffer as a constructor leaves it, on array a.                        *)
Made(new, a, i, j) ==
    new \in BufferRecords /\ Sound(new) /\ new.array = a /\ new.start = i /\ new.end = j

(* NewSize, As and With set the fields of Buffer{}.                        *)
LEMMA NewSizeMakes ==
    ASSUME NEW a \in PoolArrays, NEW n \in 0..Size
    PROVE  Made([B!Zero EXCEPT !.array = a, !.len = n, !.capacity = n, !.managed = TRUE], a, 0, 0)
<1> DEFINE new == [B!Zero EXCEPT !.array = a, !.len = n, !.capacity = n, !.managed = TRUE]
<1>1. new \in BufferRecords  BY ZeroFits DEF BufferRecords, Everywhere
<1>2. /\ new.array = a /\ new.start = 0 /\ new.end = 0 /\ new.len = n /\ new.capacity = n
      /\ new.managed = TRUE
    BY ZeroFits DEF BufferRecords
<1>3. a # B!NoArray  BY BufferAssumption DEF B!NoArray
<1> HIDE DEF new
<1>4. Sound(new)  BY <1>2, <1>3 DEF Sound
<1> QED  BY <1>1, <1>2, <1>4 DEF Made, new

(* As takes the whole slice for contents.                                  *)
LEMMA AsMakes ==
    ASSUME NEW a \in Foreign, NEW n \in 0..Size
    PROVE  Made([B!Zero EXCEPT !.array = a, !.len = n, !.end = n, !.capacity = n], a, 0, n)
<1> DEFINE new == [B!Zero EXCEPT !.array = a, !.len = n, !.end = n, !.capacity = n]
<1>1. new \in BufferRecords  BY ZeroFits DEF BufferRecords, Everywhere
<1>2. /\ new.array = a /\ new.start = 0 /\ new.end = n /\ new.len = n /\ new.capacity = n
      /\ ~new.managed
    BY ZeroFits DEF BufferRecords
<1>3. a # B!NoArray  BY BufferAssumption DEF B!NoArray
<1> HIDE DEF new
<1>4. Sound(new)  BY <1>2, <1>3 DEF Sound
<1> QED  BY <1>1, <1>2, <1>4 DEF Made, new

(* With takes it for room.                                                 *)
LEMMA WithMakes ==
    ASSUME NEW a \in Foreign, NEW n \in 0..Size
    PROVE  Made([B!Zero EXCEPT !.array = a, !.len = n, !.capacity = n], a, 0, 0)
<1> DEFINE new == [B!Zero EXCEPT !.array = a, !.len = n, !.capacity = n]
<1>1. new \in BufferRecords  BY ZeroFits DEF BufferRecords, Everywhere
<1>2. /\ new.array = a /\ new.start = 0 /\ new.end = 0 /\ new.len = n /\ new.capacity = n
      /\ ~new.managed
    BY ZeroFits DEF BufferRecords
<1>3. a # B!NoArray  BY BufferAssumption DEF B!NoArray
<1> HIDE DEF new
<1>4. Sound(new)  BY <1>2, <1>3 DEF Sound
<1> QED  BY <1>1, <1>2, <1>4 DEF Made, new

(* ToOwned makes one with the cursors of r.                                *)
LEMMA ToOwnedMakes ==
    ASSUME NEW a \in PoolArrays, NEW r \in BufferRecords, Sound(r)
    PROVE  Made([B!Zero EXCEPT !.array = a, !.len = r.len, !.start = r.start, !.end = r.end,
                             !.capacity = r.capacity, !.managed = TRUE], a, r.start, r.end)
<1> DEFINE new == [B!Zero EXCEPT !.array = a, !.len = r.len, !.start = r.start, !.end = r.end,
                               !.capacity = r.capacity, !.managed = TRUE]
<1>1. /\ r.len \in 0..Size /\ r.start \in 0..Size /\ r.end \in 0..Size
      /\ r.capacity \in 0..Size
    BY DEF BufferRecords
<1>2. new \in BufferRecords  BY <1>1, ZeroFits DEF BufferRecords, Everywhere
<1>3. /\ new.array = a /\ new.start = r.start /\ new.end = r.end /\ new.len = r.len
      /\ new.capacity = r.capacity /\ new.managed = TRUE
    BY ZeroFits DEF BufferRecords
<1>4. a # B!NoArray  BY BufferAssumption DEF B!NoArray
<1> HIDE DEF new
<1>5. Sound(new)  BY <1>3, <1>4 DEF Sound
<1> QED  BY <1>2, <1>3, <1>5 DEF Made, new

(* The empty buffer shows nothing.                                         *)
LEMMA ZeroShows ==
    ASSUME NEW b \in Buffers, buf[b] = B!Zero
    PROVE  B!Contents(b) = <<>>
    BY ZeroFits DEF B!Contents

(* An array that the allocator hands out is no buffer's.                   *)
LEMMA Taken ==
    ASSUME QueueInv, NEW a \in free \cup (PoolArrays \ B!Held)
    PROVE  /\ a \in PoolArrays /\ a \in Everywhere /\ a \notin B!Held
           /\ free \ {a} \subseteq PoolArrays /\ a \notin free \ {a}
           /\ \A c \in Buffers : buf[c].array \notin free \ {a}
    BY DEF QueueInv, B!Held, Everywhere

(* A constructor on an array that nobody holds, whose bytes stay.          *)
LEMMA BufferMade ==
    ASSUME QueueInv, NEW b \in Buffers, NEW a \in Everywhere, a \notin B!Held, a \notin free',
           NEW j, NEW new, Made(new, a, 0, j), B!Update(b, new), UNCHANGED store,
           free' \subseteq free
    PROVE  /\ QueueInv'
           /\ \A c \in Buffers \ {b} : B!Contents(c)' = B!Contents(c)
           /\ B!Contents(b)' = Window(store[a], 0, j) /\ B!Contents(b)' \in B!Strings
<1>2. new \in BufferRecords /\ Sound(new) /\ new.array = a /\ new.start = 0 /\ new.end = j
    BY DEF Made
<1>3. store' \in [Everywhere -> Cells] /\ free' \subseteq PoolArrays
      /\ \A c \in Buffers : buf[c].array \notin free'
    BY DEF QueueInv
<1>5. /\ QueueInv' /\ (\A c \in Buffers \ {b} : B!Contents(c)' = B!Contents(c))
      /\ B!Contents(b)' = Shows(store', new)
    BY <1>2, <1>3, OneBuffer
<1>6. Shows(store', new) = Window(store[a], 0, j)
    <2>1. a # B!NoArray  BY BufferAssumption DEF Everywhere, B!NoArray
    <2> QED  BY <1>2, <2>1 DEF Shows
<1>7. B!Contents(b)' \in B!Strings  BY <1>2, <1>3, <1>5, ShowsIs
<1> QED  BY <1>5, <1>6, <1>7

(* NewSize begins empty, on an array that nobody else has.                 *)
LEMMA NewSizeStep ==
    ASSUME QueueInv, NEW b \in Buffers, NEW n \in Sizes, B!NewSize(b, n)
    PROVE  QueueInv' /\ Abstract(b)
<1>1. n \in 0..Size  BY BufferAssumption
<1>2. PICK a \in free \cup (PoolArrays \ B!Held) :
        /\ B!Update(b, [B!Zero EXCEPT !.array = a, !.len = n, !.capacity = n, !.managed = TRUE])
        /\ free' = free \ {a}
    BY DEF B!NewSize
<1> DEFINE new == [B!Zero EXCEPT !.array = a, !.len = n, !.capacity = n, !.managed = TRUE]
<1>3. /\ a \in PoolArrays /\ a \in Everywhere /\ a \notin B!Held /\ a \notin free'
      /\ free' \subseteq free /\ answer' = <<>> /\ UNCHANGED store
    BY <1>2, Taken DEF B!NewSize
<1>4. Made(new, a, 0, 0) /\ B!Update(b, new)  BY <1>1, <1>2, <1>3, NewSizeMakes
<1> HIDE DEF new
<1>5. /\ QueueInv' /\ (\A c \in Buffers \ {b} : B!Contents(c)' = B!Contents(c))
      /\ B!Contents(b)' = Window(store[a], 0, 0)
    BY <1>3, <1>4, BufferMade
<1>6. B!Contents(b)' = <<>>  BY <1>5 DEF Window
<1> QED  BY <1>3, <1>5, <1>6, Emptied DEF Abstract

(* As and With, on an array of the caller.                                 *)
LEMMA WithStep ==
    ASSUME QueueInv, NEW b \in Buffers, NEW a \in Foreign, NEW n \in Sizes,
           B!As(b, a, n) \/ B!With(b, a, n)
    PROVE  QueueInv' /\ Abstract(b)
<1>1. n \in 0..Size  BY BufferAssumption
<1>2. a \in Everywhere /\ a \notin PoolArrays /\ a \notin B!Held /\ UNCHANGED <<store, free>>
    BY BufferAssumption DEF Everywhere, B!As, B!With
<1>3. a \notin free' /\ free' \subseteq free  BY <1>2 DEF QueueInv
<1>4. CASE B!As(b, a, n)
    <2> DEFINE new == [B!Zero EXCEPT !.array = a, !.len = n, !.end = n, !.capacity = n]
    <2>1. Made(new, a, 0, n) /\ B!Update(b, new)  BY <1>1, <1>4, AsMakes DEF B!As
    <2> HIDE DEF new
    <2>2. /\ QueueInv' /\ (\A c \in Buffers \ {b} : B!Contents(c)' = B!Contents(c))
          /\ B!Contents(b)' \in B!Strings
        BY <1>2, <1>3, <2>1, BufferMade
    <2>3. Q!Show(B!Contents(b), B!Contents(b)', answer')
        BY <1>4, <2>2 DEF B!As, Q!Show, Q!Shown, B!Shown
    <2> QED  BY <2>2, <2>3 DEF Abstract, Q!Call
<1>5. CASE B!With(b, a, n)
    <2> DEFINE new == [B!Zero EXCEPT !.array = a, !.len = n, !.capacity = n]
    <2>1. Made(new, a, 0, 0) /\ B!Update(b, new)  BY <1>1, <1>5, WithMakes DEF B!With
    <2> HIDE DEF new
    <2>2. /\ QueueInv' /\ (\A c \in Buffers \ {b} : B!Contents(c)' = B!Contents(c))
          /\ B!Contents(b)' = Window(store[a], 0, 0)
        BY <1>2, <1>3, <2>1, BufferMade
    <2>3. B!Contents(b)' = <<>> /\ answer' = <<>>  BY <1>5, <2>2 DEF Window, B!With
    <2> QED  BY <2>2, <2>3, Emptied DEF Abstract
<1> QED  BY <1>4, <1>5

(* The bytes between two cursors, copied to the same place of an array.    *)
Copied(cells, from, i, j) ==
    [k \in 1..Size |-> IF k \in (i + 1)..j THEN from[k] ELSE cells[k]]

(* They are the same bytes there.                                          *)
LEMMA CopiedIs ==
    ASSUME NEW cells \in Cells, NEW from \in Cells, NEW i \in 0..Size, NEW j \in i..Size
    PROVE  /\ Copied(cells, from, i, j) \in Cells
           /\ Window(Copied(cells, from, i, j), i, j) = Window(from, i, j)
<1>1. Copied(cells, from, i, j) \in Cells  BY DEF Copied, Cells
<1>2. ASSUME NEW k \in 1..(j - i) PROVE Copied(cells, from, i, j)[i + k] = from[i + k]
    <2>1. i + k \in 1..Size /\ i + k \in (i + 1)..j  BY BufferAssumption
    <2> QED  BY <2>1 DEF Copied
<1> QED  BY <1>1, <1>2 DEF Window

(* ToOwned makes an empty buffer a copy that has an array of its own.      *)
LEMMA ToOwnedStep ==
    ASSUME QueueInv, NEW b \in Buffers, NEW c \in Buffers, B!ToOwned(b, c)
    PROVE  QueueInv' /\ Abstract(c)
<1> DEFINE r == buf[b]
           from == store[r.array]
<1>1. r \in BufferRecords /\ Sound(r) /\ store \in [Everywhere -> Cells]  BY DEF QueueInv
<1>2. r.array # B!NoArray /\ r.len > 0  BY HasArray DEF B!ToOwned
<1>3. from \in Cells  BY <1>1, <1>2 DEF BufferRecords
<1>4. PICK a \in free \cup (PoolArrays \ B!Held) :
        /\ store' = [store EXCEPT ![a] = Copied(store[a], from, r.start, r.end)]
        /\ B!Update(c, [B!Zero EXCEPT !.array = a, !.len = r.len, !.start = r.start,
                                  !.end = r.end, !.capacity = r.capacity, !.managed = TRUE])
        /\ free' = free \ {a}
    BY DEF B!ToOwned, Copied
<1> DEFINE new == [B!Zero EXCEPT !.array = a, !.len = r.len, !.start = r.start, !.end = r.end,
                               !.capacity = r.capacity, !.managed = TRUE]
           copy == Copied(store[a], from, r.start, r.end)
<1>5. B!Update(c, new)  BY <1>4
<1>6. /\ a \in PoolArrays /\ a \in Everywhere /\ a \notin B!Held /\ a \notin free'
      /\ free' \subseteq PoolArrays /\ \A d \in Buffers : buf[d].array \notin free'
    BY <1>4, Taken
<1>7. r.start \in 0..Size /\ r.end \in r.start..Size
    BY <1>1, BufferAssumption DEF BufferRecords, Sound
<1>8. /\ new \in BufferRecords /\ Sound(new) /\ new.array = a /\ new.start = r.start
      /\ new.end = r.end
    <2>1. Made(new, a, r.start, r.end)
        <3> HIDE DEF r
        <3> QED  BY <1>1, <1>6, ToOwnedMakes
    <2> HIDE DEF new
    <2> QED  BY <2>1 DEF Made
<1>9. store[a] \in Cells  BY <1>1, <1>6
<1>10. copy \in Cells /\ Window(copy, r.start, r.end) = Window(from, r.start, r.end)
    BY <1>3, <1>7, <1>9, CopiedIs
<1> HIDE DEF new, copy
<1>11. /\ store' \in [Everywhere -> Cells] /\ store'[a] = copy
       /\ \A d \in Everywhere : d # a => store'[d] = store[d]
    BY <1>1, <1>4, <1>6, <1>10 DEF copy
<1>12. /\ QueueInv' /\ (\A d \in Buffers \ {c} : B!Contents(d)' = B!Contents(d))
       /\ B!Contents(c)' = Shows(store', new)
    BY <1>5, <1>6, <1>8, <1>11, OneBuffer
<1>13. B!Contents(c)' = B!Contents(b)
    <2>1. a # B!NoArray  BY <1>6, BufferAssumption DEF Everywhere, B!NoArray
    <2>2. Shows(store', new) = Window(copy, r.start, r.end)  BY <1>8, <1>11, <2>1 DEF Shows
    <2>3. B!Contents(b) = Window(from, r.start, r.end)  BY <1>2, ContentsAre DEF Shows
    <2> QED  BY <1>10, <1>12, <2>2, <2>3
<1>14. B!Contents(c) = <<>> /\ answer' = <<>>  BY ZeroShows DEF B!ToOwned
<1>15. Q!Copy(B!Contents(c), B!Contents(c)', answer')  BY <1>13, <1>14 DEF Q!Copy
<1> QED  BY <1>12, <1>15 DEF Abstract, Q!Call

(* A buffer gives its array up.                                            *)
LEMMA GivenUp ==
    ASSUME QueueInv, NEW b \in Buffers, buf[b].array # B!NoArray, B!Update(b, B!Zero),
           store' = B!Unheld(buf[b].array), answer' = <<>>, free' \subseteq PoolArrays,
           \A c \in Buffers \ {b} : buf[c].array \notin free'
    PROVE  QueueInv' /\ Abstract(b)
<1> DEFINE a == buf[b].array
           blank == [k \in 1..Size |-> 0]
<1>1. a \in Everywhere /\ store \in [Everywhere -> Cells]  BY DEF QueueInv, BufferRecords
<1>2. blank \in Cells  BY BufferAssumption DEF Cells
<1>3. store' = [store EXCEPT ![a] = blank]  BY DEF B!Unheld
<1> HIDE DEF blank
<1>4. /\ store' \in [Everywhere -> Cells]
      /\ \A d \in Everywhere : d # a => store'[d] = store[d]
    BY <1>1, <1>2, <1>3
<1>5. B!NoArray \notin free'  BY BufferAssumption DEF B!NoArray
<1>6. /\ QueueInv' /\ (\A c \in Buffers \ {b} : B!Contents(c)' = B!Contents(c))
      /\ buf'[b] = B!Zero /\ B!Contents(b)' = Shows(store', B!Zero)
    BY <1>4, <1>5, ZeroFits, OneBuffer
<1>7. B!Contents(b)' = <<>>  BY <1>6, ZeroFits DEF Shows
<1> QED  BY <1>6, <1>7, Emptied DEF Abstract

(* Release and Forget.                                                     *)
LEMMA ReleaseStep ==
    ASSUME QueueInv, NEW b \in Buffers, B!Release(b) \/ B!Forget(b)
    PROVE  QueueInv' /\ Abstract(b)
<1>1. CASE B!Release(b)
    <2>1. buf[b].array \in PoolArrays /\ buf[b].array # B!NoArray
        BY <1>1 DEF B!Release, QueueInv, Sound
    <2>2. free' \subseteq PoolArrays /\ \A c \in Buffers \ {b} : buf[c].array \notin free'
        BY <1>1, <2>1 DEF B!Release, QueueInv
    <2> QED  BY <1>1, <2>1, <2>2, GivenUp DEF B!Release
<1>2. CASE B!Forget(b)
    <2>1. free' \subseteq PoolArrays /\ \A c \in Buffers \ {b} : buf[c].array \notin free'
        BY <1>2 DEF B!Forget, QueueInv
    <2> QED  BY <1>2, <2>1, GivenUp DEF B!Forget
<1> QED  BY <1>1, <1>2

-----------------------------------------------------------------------------
(* No buffer has an array at first.                                        *)
LEMMA InitQueues ==
    ASSUME B!Init
    PROVE  QueueInv /\ Q!Init
<1>1. QueueInv
    <2>1. store \in [Everywhere -> Cells]  BY BufferAssumption DEF B!Init, Everywhere, Cells
    <2>2. buf \in [Buffers -> BufferRecords] /\ \A b \in Buffers : buf[b] = B!Zero
        BY ZeroFits DEF B!Init
    <2>3. free = {}  BY DEF B!Init
    <2> QED  BY <2>1, <2>2, <2>3, ZeroFits DEF QueueInv
<1>2. \A b \in Buffers : B!Contents(b) = <<>>  BY ZeroShows DEF B!Init
<1>3. [b \in Buffers |-> B!Contents(b)] = [b \in Buffers |-> <<>>]  BY <1>2
<1> QED  BY <1>1, <1>3 DEF B!Init, Q!Init

(* Every call on a buffer is a call on its queue, or changes none of them. *)
LEMMA StepOfQueues ==
    ASSUME QueueInv, B!Next
    PROVE  QueueInv' /\ \E b \in Buffers : Abstract(b)
<1> PICK b \in Buffers :
      \/ \E n \in Sizes : B!NewSize(b, n) \/ \E a \in Foreign : B!As(b, a, n) \/ B!With(b, a, n)
      \/ \E n \in 1..Size : B!Read(b, n) \/ B!Advance(b, n) \/ B!Reserve(b, n) \/ B!OverCap(b, n)
      \/ \E c \in Buffers : B!ToOwned(b, c)
      \/ B!IncRef(b) \/ B!DecRef(b) \/ B!Release(b) \/ B!Forget(b) \/ B!Reset(b)
      \/ \E s \in B!Strings :
           B!Write(b, s) \/ B!ReadFrom(b, s) \/ B!Extend(b, s) \/ B!ExtendHeader(b, s)
      \/ \E k \in 0..(Size - 1), v \in Bytes : B!SetByte(b, k, v)
      \/ \E d \in Bytes : B!WriteByte(b, d)
      \/ \E n \in 0..Size : B!Truncate(b, n)
      \/ \E m, n \in 0..Size : B!Resize(b, m, n)
    BY Zenon DEF B!Next
<1>1. CASE \E n \in Sizes : B!NewSize(b, n) \/ \E a \in Foreign : B!As(b, a, n) \/ B!With(b, a, n)
    BY <1>1, NewSizeStep, WithStep, Zenon
<1>2. CASE \E n \in 1..Size :
             B!Read(b, n) \/ B!Advance(b, n) \/ B!Reserve(b, n) \/ B!OverCap(b, n)
    BY <1>2, ReadStep, CapacitySteps, Zenon
<1>3. CASE \E c \in Buffers : B!ToOwned(b, c)  BY <1>3, ToOwnedStep, Zenon
<1>4. CASE B!IncRef(b) \/ B!DecRef(b) \/ B!Release(b) \/ B!Forget(b) \/ B!Reset(b)
    BY <1>4, CountSteps, ReleaseStep, ResetStep, Zenon
<1>5. CASE \E s \in B!Strings :
             B!Write(b, s) \/ B!ReadFrom(b, s) \/ B!Extend(b, s) \/ B!ExtendHeader(b, s)
    BY <1>5, WriteStep, FillSteps, ExtendHeaderStep, Zenon
<1>6. CASE \E k \in 0..(Size - 1), v \in Bytes : B!SetByte(b, k, v)  BY <1>6, SetByteStep, Zenon
<1>7. CASE \E d \in Bytes : B!WriteByte(b, d)  BY <1>7, WriteByteStep, Zenon
<1>8. CASE \E n \in 0..Size : B!Truncate(b, n)  BY <1>8, TruncateStep, Zenon
<1>9. CASE \E m, n \in 0..Size : B!Resize(b, m, n)  BY <1>9, ResizeStep, Zenon
<1> QED  BY <1>1, <1>2, <1>3, <1>4, <1>5, <1>6, <1>7, <1>8, <1>9, Zenon

(* Each buffer is a queue of bytes of its own.                             *)
THEOREM BuffersAreQueues == BufferSpec => ImplementsQueues
<1> DEFINE content == [b \in Buffers |-> B!Contents(b)]
<1>1. B!Init => QueueInv /\ Q!Init  BY InitQueues
<1>2. ASSUME QueueInv, [B!Next]_(B!vars)
      PROVE  QueueInv' /\ [Q!Next]_<<content, answer>>
    <2>1. CASE B!Next
        <3>1. QueueInv'  BY <1>2, <2>1, StepOfQueues
        <3>2. PICK b \in Buffers : Abstract(b)  BY <1>2, <2>1, StepOfQueues
        <3>3. \A c \in Buffers : content[c] = B!Contents(c) /\ content'[c] = B!Contents(c)'
            OBVIOUS
        <3>4. CASE Q!Call(B!Contents(b), B!Contents(b)', answer')
            <4>1. Q!Call(content[b], content'[b], answer')  BY <3>3, <3>4
            <4>2. \A c \in Buffers \ {b} : content'[c] = content[c]  BY <3>2, <3>3 DEF Abstract
            <4>3. Q!Next  BY <4>1, <4>2 DEF Q!Next
            <4> QED  BY <3>1, <4>3
        <3>5. CASE B!Contents(b)' = B!Contents(b) /\ answer' = answer
            <4>1. \A c \in Buffers : B!Contents(c)' = B!Contents(c)  BY <3>2, <3>5 DEF Abstract
            <4>2. content' = content  BY <4>1
            <4> QED  BY <3>1, <3>5, <4>2
        <3> QED  BY <3>2, <3>4, <3>5 DEF Abstract
    <2>2. CASE UNCHANGED B!vars
        <3>1. QueueInv'  BY <1>2, <2>2 DEF B!vars, QueueInv
        <3>2. \A c \in Buffers : B!Contents(c)' = B!Contents(c)  BY <2>2 DEF B!vars, B!Contents
        <3>3. content' = content  BY <3>2
        <3> QED  BY <2>2, <3>1, <3>3 DEF B!vars
    <2> QED  BY <1>2, <2>1, <2>2
<1> QED  BY <1>1, <1>2, PTL DEF BufferSpec, B!Spec, ImplementsQueues, Q!Spec

-----------------------------------------------------------------------------
(***************************************************************************)
(* The allocator.                                                          *)
(***************************************************************************)
(* The powers of two that the bit arithmetic meets.                        *)
Pow(n) == 2^n

(* Up to the width of a uint32.                                            *)
LEMMA Powers ==
    /\ Pow(0) = 1 /\ Pow(1) = 2 /\ Pow(2) = 4 /\ Pow(3) = 8
    /\ Pow(4) = 16 /\ Pow(5) = 32 /\ Pow(6) = 64 /\ Pow(7) = 128
    /\ Pow(8) = 256 /\ Pow(9) = 512 /\ Pow(10) = 1024 /\ Pow(11) = 2048
    /\ Pow(12) = 4096 /\ Pow(13) = 8192 /\ Pow(14) = 16384 /\ Pow(15) = 32768
    /\ Pow(16) = 65536 /\ Pow(17) = 131072 /\ Pow(18) = 262144 /\ Pow(19) = 524288
    /\ Pow(20) = 1048576 /\ Pow(21) = 2097152 /\ Pow(22) = 4194304 /\ Pow(23) = 8388608
    /\ Pow(24) = 16777216 /\ Pow(25) = 33554432 /\ Pow(26) = 67108864 /\ Pow(27) = 134217728
    /\ Pow(28) = 268435456 /\ Pow(29) = 536870912 /\ Pow(30) = 1073741824 /\ Pow(31) = 2147483648
    /\ Pow(32) = 4294967296
    BY DEF Pow

(* They grow.                                                              *)
LEMMA PowersDouble ==
    ASSUME NEW l \in Nat, l <= 31
    PROVE  Pow(l) \in Nat \ {0} /\ Pow(l + 1) \in Nat /\ Pow(l) < Pow(l + 1)
<1>1. l \in 0..31  OBVIOUS
<1> QED  BY <1>1, Powers

(* A smaller exponent has all its sizes below a greater one.               *)
LEMMA PowersGrow ==
    ASSUME NEW l \in Nat, NEW m \in Nat, m <= 31, l < m
    PROVE  Pow(l + 1) <= Pow(m)
<1>1. l \in 0..31 /\ m \in 0..31  OBVIOUS
<1> QED  BY <1>1, Powers

(* msb finds the one power of two below a size.                            *)
LEMMA MsbIs ==
    ASSUME NEW size \in Nat, NEW k \in Nat, k <= 31, Pow(k) <= size, size < Pow(k + 1)
    PROVE  msb(size) = k
<1>1. size # 0  BY PowersDouble
<1>2. ASSUME NEW l \in Nat, l <= 31, Pow(l) <= size, size < Pow(l + 1) PROVE l = k
    <2>1. /\ Pow(k) \in Nat /\ Pow(l) \in Nat /\ Pow(k + 1) \in Nat /\ Pow(l + 1) \in Nat
        BY <1>2, PowersDouble
    <2>2. ~(l < k)  BY <1>2, <2>1, PowersGrow
    <2>3. ~(k < l)  BY <1>2, <2>1, PowersGrow
    <2> QED  BY <2>2, <2>3
<1> DEFINE Found(l) == Pow(l) <= size /\ size < Pow(l + 1)
<1>3. msb(size) = CHOOSE l \in 0..31 : Found(l)  BY <1>1 DEF msb, Pow
<1>4. \A l \in 0..31 : Found(l) => l = k
    <2>1. \A l \in 0..31 : l \in Nat /\ l <= 31  OBVIOUS
    <2> QED  BY <1>2, <2>1
<1>5. k \in 0..31 /\ Found(k)  OBVIOUS
<1> HIDE DEF Found
<1> QED  BY <1>3, <1>4, <1>5, Zenon

(* Every size that the allocator serves is between two powers of two.      *)
LEMMA Between ==
    ASSUME NEW size \in Nat, size > 0, size <= 65536
    PROVE  \E k \in Nat : /\ k <= 16 /\ Pow(k) <= size /\ size < Pow(k + 1)
                          /\ k = 16 => size = Pow(k)
                          /\ size > 64 => k >= 6
<1> DEFINE Found(k) == /\ k <= 16 /\ Pow(k) <= size /\ size < Pow(k + 1)
                       /\ k = 16 => size = Pow(k)
                       /\ size > 64 => k >= 6
<1>1. Found(0) \/ Found(1) \/ Found(2) \/ Found(3) \/ Found(4) \/ Found(5) \/ Found(6) \/ Found(7)
      \/ Found(8) \/ Found(9) \/ Found(10) \/ Found(11) \/ Found(12) \/ Found(13) \/ Found(14)
      \/ Found(15) \/ Found(16)
    BY Powers
<1> HIDE DEF Found
<1>2. \E k \in Nat : Found(k)  BY <1>1
<1> QED  BY <1>2 DEF Found

(* The bit that Put looks for in the length of an array of a pool.         *)
LEMMA ClassMsb ==
    ASSUME NEW index \in Classes
    PROVE  /\ ArrayLen(index) \in Nat \ {0} /\ ArrayLen(index) <= 65536
           /\ msb(ArrayLen(index)) = index + 6
<1>1. ArrayLen(index) = Pow(index + 6)  BY DEF ArrayLen, Pow
<1>2. index \in Nat /\ index + 6 \in Nat /\ index + 6 <= 31  BY DEF Classes
<1>3. /\ Pow(index + 6) \in Nat \ {0} /\ Pow(index + 6) < Pow((index + 6) + 1)
    BY <1>2, PowersDouble
<1>4. Pow(index + 6) <= 65536  BY Powers DEF Classes
<1> QED  BY <1>1, <1>2, <1>3, <1>4, MsbIs

(* Put takes the array of every pool back to where it came from.           *)
LEMMA PutReturns ==
    ASSUME NEW index \in Classes
    PROVE  PutAccepts(ArrayLen(index)) /\ PutIndex(ArrayLen(index)) = index
<1>1. Shift1(index + 6) = ArrayLen(index)  BY DEF Shift1, ArrayLen, Classes
<1>2. ((index + 6) - 6) % 65536 = index  BY DEF Classes
<1>3. PutAccepts(ArrayLen(index))  BY <1>1, ClassMsb DEF PutAccepts
<1>4. PutIndex(ArrayLen(index)) = index  BY <1>2, ClassMsb DEF PutIndex, Uint16
<1> QED  BY <1>3, <1>4

(* Get picks the smallest array that holds the size.                       *)
LEMMA GetFits ==
    ASSUME NEW size \in Nat, GetAccepts(size)
    PROVE  /\ GetIndex(size) \in Classes /\ size <= ArrayLen(GetIndex(size))
           /\ GetIndex(size) > 0 => size > ArrayLen(GetIndex(size) - 1)
<1>1. size > 0 /\ size <= 65536  BY DEF GetAccepts
<1>2. CASE size <= 64
    <2>1. GetIndex(size) = 0  BY <1>2 DEF GetIndex
    <2>2. ArrayLen(0) = 64  BY DEF ArrayLen
    <2> QED  BY <1>2, <2>1, <2>2 DEF Classes
<1>3. CASE size > 64
    <2>1. PICK k \in Nat : /\ k <= 16 /\ Pow(k) <= size /\ size < Pow(k + 1)
                           /\ k = 16 => size = Pow(k)
                           /\ size > 64 => k >= 6
        BY <1>1, Between
    <2>2. k >= 6 /\ msb(size) = k  BY <1>3, <2>1, MsbIs
    <2>5. Shift1(k) = Pow(k)  BY <2>1 DEF Shift1, Pow
    <2>3. CASE size = Pow(k)
        <3>1. k # 6  BY <1>3, <2>3, Powers
        <3>2. GetIndex(size) = k - 6  
            <4>1. GetIndex(size) = (k - 6) % 65536
                BY <1>3, <2>2, <2>3, <2>5 DEF GetIndex, Uint16
            <4> QED  BY <2>1, <2>2, <4>1
        <3>3. ArrayLen(k - 6) = Pow(k) /\ ArrayLen((k - 6) - 1) = Pow(k - 1)
            <4>1. (k - 6) + 6 = k /\ ((k - 6) - 1) + 6 = k - 1  BY <2>2
            <4> QED  BY <4>1 DEF ArrayLen, Pow
        <3>4. Pow(k - 1) \in Nat /\ Pow(k) \in Nat /\ Pow(k - 1) < Pow(k)
            <4>1. k - 1 \in Nat /\ k - 1 <= 31 /\ (k - 1) + 1 = k  BY <2>1, <2>2
            <4> QED  BY <4>1, PowersDouble
        <3> QED  BY <2>1, <2>2, <2>3, <3>1, <3>2, <3>3, <3>4 DEF Classes
    <2>4. CASE size # Pow(k)
        <3>1. k < 16  BY <2>1, <2>4
        <3>2. GetIndex(size) = k - 5
            <4>1. GetIndex(size) = ((k + 1) - 6) % 65536
                BY <1>3, <2>2, <2>4, <2>5 DEF GetIndex, Uint16
            <4> QED  BY <2>2, <3>1, <4>1
        <3>3. ArrayLen(k - 5) = Pow(k + 1) /\ ArrayLen((k - 5) - 1) = Pow(k)
            <4>1. (k - 5) + 6 = k + 1 /\ ((k - 5) - 1) + 6 = k  BY <2>2
            <4> QED  BY <4>1 DEF ArrayLen, Pow
        <3>4. Pow(k) \in Nat /\ Pow(k + 1) \in Nat  BY <3>1, PowersDouble
        <3> QED  BY <2>1, <2>2, <2>4, <3>1, <3>2, <3>3, <3>4 DEF Classes
    <2> QED  BY <2>3, <2>4
<1> QED  BY <1>1, <1>2, <1>3

(* A slice of another length that Put lets through has no pool.            *)
LEMMA PutFits ==
    ASSUME NEW cap \in Nat, PutAccepts(cap), PutIndex(cap) \in Classes
    PROVE  cap = ArrayLen(PutIndex(cap))
<1>1. cap > 0 /\ cap <= 65536 /\ cap = Shift1(msb(cap))  BY DEF PutAccepts
<1>2. PICK k \in Nat : k <= 16 /\ Pow(k) <= cap /\ cap < Pow(k + 1)  BY <1>1, Between
<1>3. msb(cap) = k  BY <1>2, MsbIs
<1>4. cap = Pow(k)  BY <1>1, <1>2, <1>3 DEF Shift1, Pow
<1>5. PutIndex(cap) = (k - 6) % 65536  BY <1>3 DEF PutIndex, Uint16
<1>6. k >= 6
    <2>1. ASSUME k < 6 PROVE (k - 6) % 65536 > 10  BY <2>1
    <2>2. (k - 6) % 65536 <= 10  BY <1>5 DEF Classes
    <2> QED  BY <2>1, <2>2
<1>7. (k - 6) % 65536 = k - 6 /\ (k - 6) + 6 = k  BY <1>2, <1>6
<1> QED  BY <1>4, <1>5, <1>7 DEF ArrayLen, Pow

(* Get and Put agree for every size and every capacity.                    *)
LEMMA ClassesAlwaysFit == ClassesFit
<1>1. ASSUME NEW size \in Requests, GetAccepts(size)
      PROVE  /\ GetIndex(size) \in Classes /\ size <= ArrayLen(GetIndex(size))
             /\ GetIndex(size) > 0 => size > ArrayLen(GetIndex(size) - 1)
             /\ PutAccepts(ArrayLen(GetIndex(size)))
             /\ PutIndex(ArrayLen(GetIndex(size))) = GetIndex(size)
    BY <1>1, RequestsAssumption, GetFits, PutReturns
<1>2. ASSUME NEW cap \in Requests, PutAccepts(cap), PutIndex(cap) \in Classes
      PROVE  cap = ArrayLen(PutIndex(cap))
    BY <1>2, RequestsAssumption, PutFits
<1> QED  BY <1>1, <1>2 DEF ClassesFit

(* Whatever has been released, the pools fit the arrays in them.           *)
THEOREM PoolsAlwaysFit == BufferSpec => []PoolsFit
<1>1. PoolsFit  BY ClassesAlwaysFit DEF PoolsFit
<1> QED  BY <1>1, PTL
=============================================================================
