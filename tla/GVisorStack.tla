----------------------------- MODULE GVisorStack -----------------------------
(***************************************************************************)
(* The userspace stack (stack_gvisor.go) on the Windows and macOS link     *)
(* endpoints (tun_windows_gvisor.go, tun_darwin_gvisor.go): starting and   *)
(* closing it, the dispatch loop that reads packets from the device and    *)
(* delivers them, the TCP and UDP forwarders that turn the first packet of *)
(* a flow into a connection, and the goroutine that runs the handler on    *)
(* each connection.                                                        *)
(*                                                                         *)
(* gVisor is modelled from how the code uses it: the demultiplexer with    *)
(* one endpoint per flow, the forwarder's set of TCP requests in flight,   *)
(* endpoints that linger after a graceful TCP close until they are done or *)
(* aborted.  The device is open or closed here; WinTunIO has the details.  *)
(***************************************************************************)
EXTENDS Naturals, FiniteSets

CONSTANTS
    TCPFlows,       \* address and port pairs of TCP flows
    UDPFlows,       \* address and port pairs of UDP flows
    Conns,          \* the connections that can be created (a bound)
    MaxInFlight,    \* TCP requests the forwarder accepts (1024 in the code)
    None            \* no connection, no packet

ASSUME StackAssumption ==
    /\ TCPFlows \cap UDPFlows = {}
    /\ None \notin Conns \cup TCPFlows \cup UDPFlows
    /\ MaxInFlight \in Nat

Flows == TCPFlows \cup UDPFlows
Other == "other"    \* a packet that is not IP, or empty, or for the host itself

VARIABLES
    ctl,            \* where Start, and later Close, of the stack is
    dispatcher,     \* e.dispatcher: "nil", "set", or "torn" while it is cleared
    device,         \* the TUN device: "open" or "closed"
    tcpHandler,     \* the TCP forwarder is installed
    udpHandler,     \* the UDP forwarder is installed
    loop,           \* where the dispatch loop is
    packet,         \* the packet it works on: a flow, Other or None
    late,           \* packets delivered after Close detached the dispatcher
    inflight,       \* TCP flows with a forwarder request in flight
    demux,          \* the connection registered for each flow
    cpc,            \* where the goroutine of each connection is
    flow,           \* the flow of each connection
    ep,             \* its endpoint: none, open, closing, closed, aborted
    once,           \* its once closer has run
    closes,         \* calls of the underlying Close
    young           \* its endpoint was created after stack.Close()

start == <<tcpHandler, udpHandler>>
reader == <<loop, packet, late>>
conns == <<cpc, flow, ep, once, closes, young>>
vars == <<ctl, dispatcher, device, start, reader, inflight, demux, conns>>

Init ==
    /\ ctl = "createNIC"
    /\ dispatcher = "nil"
    /\ device = "open"
    /\ tcpHandler = FALSE
    /\ udpHandler = FALSE
    /\ loop = "none"
    /\ packet = None
    /\ late = 0
    /\ inflight = {}
    /\ demux = [f \in Flows |-> None]
    /\ cpc = [c \in Conns |-> "unused"]
    /\ flow = [c \in Conns |-> None]
    /\ ep = [c \in Conns |-> "none"]
    /\ once = [c \in Conns |-> FALSE]
    /\ closes = [c \in Conns |-> 0]
    /\ young = [c \in Conns |-> FALSE]

(***************************************************************************)
(* Start.  CreateNIC attaches the endpoint, and Attach starts the dispatch *)
(* loop, before the forwarders are installed.                              *)
(***************************************************************************)
StartCreateNIC ==
    /\ ctl = "createNIC"
    /\ ctl' = "tcp"
    /\ dispatcher' = "set"
    /\ loop' = "read"
    /\ UNCHANGED <<device, start, packet, late, inflight, demux, conns>>

StartTCP ==
    /\ ctl = "tcp"
    /\ ctl' = "udp"
    /\ tcpHandler' = TRUE
    /\ UNCHANGED <<dispatcher, device, udpHandler, reader, inflight, demux, conns>>

StartUDP ==
    /\ ctl = "udp"
    /\ ctl' = "started"
    /\ udpHandler' = TRUE
    /\ UNCHANGED <<dispatcher, device, tcpHandler, reader, inflight, demux, conns>>

(***************************************************************************)
(* Close.                                                                  *)
(***************************************************************************)
(* t.endpoint.Attach(nil) clears e.dispatcher, an interface of two words,  *)
(* with no lock that the dispatch loop would hold: a read meanwhile finds  *)
(* the old words, the new ones or one of each.                             *)
CloseDetach ==
    /\ ctl = "started"
    /\ ctl' = "detach"
    /\ dispatcher' = "torn"
    /\ UNCHANGED <<device, start, reader, inflight, demux, conns>>

CloseDetached ==
    /\ ctl = "detach"
    /\ ctl' = "stackClose"
    /\ dispatcher' = "nil"
    /\ UNCHANGED <<device, start, reader, inflight, demux, conns>>

Registered(c) == flow[c] # None /\ demux[flow[c]] = c

(* What a graceful close does to an endpoint: TCP lingers, UDP is gone.    *)
Closing(c) == IF flow[c] \in TCPFlows THEN "closing" ELSE "closed"

(* Endpoints that are gone leave the demultiplexer.                        *)
Unregister(gone) == [f \in Flows |-> IF demux[f] \in gone THEN None ELSE demux[f]]

(* t.stack.Close(): end every endpoint that is registered now; some of the *)
(* TCP ones may still have to clean up.                                    *)
CloseStack ==
    LET hit == {c \in Conns : ep[c] \in {"open", "closing"} /\ Registered(c)}
    IN  /\ ctl = "stackClose"
        /\ ctl' = "abort"
        /\ \E cleanup \in SUBSET {c \in hit : flow[c] \in TCPFlows} :
             /\ ep' = [c \in Conns |-> IF c \in cleanup THEN "closing"
                                      ELSE IF c \in hit THEN "aborted" ELSE ep[c]]
             /\ demux' = Unregister(hit \ cleanup)
        /\ UNCHANGED <<dispatcher, device, start, reader, inflight, cpc, flow,
                       once, closes, young>>

(* Abort the endpoints that are still cleaning up.                         *)
CloseAbortDropped ==
    /\ ctl = "abort"
    /\ ctl' = "tunClose"
    /\ UNCHANGED <<dispatcher, device, start, reader, inflight, demux, conns>>

CloseAbort ==
    LET hit == {c \in Conns : ep[c] = "closing"}
    IN  /\ ctl = "abort"
        /\ ctl' = "tunClose"
        /\ ep' = [c \in Conns |-> IF c \in hit THEN "aborted" ELSE ep[c]]
        /\ demux' = Unregister(hit)
        /\ UNCHANGED <<dispatcher, device, start, reader, inflight, cpc, flow,
                       once, closes, young>>

(* t.tun.Close()                                                           *)
CloseTunDropped ==
    /\ ctl = "tunClose"
    /\ ctl' = "closed"
    /\ UNCHANGED <<dispatcher, device, start, reader, inflight, demux, conns>>

CloseTun ==
    /\ ctl = "tunClose"
    /\ ctl' = "closed"
    /\ device' = "closed"
    /\ UNCHANGED <<dispatcher, start, reader, inflight, demux, conns>>

(***************************************************************************)
(* The dispatch loop.                                                      *)
(***************************************************************************)
(* A read returns a packet.                                                *)
LoopRead ==
    /\ loop = "read"
    /\ device = "open"
    /\ \E p \in Flows \cup {Other} : packet' = p
    /\ loop' = "got"
    /\ UNCHANGED <<ctl, dispatcher, device, start, late, inflight, demux, conns>>

(* Any error ends the loop: the device was closed, or the read failed.     *)
LoopReadError ==
    /\ loop = "read"
    /\ loop' = "ended"
    /\ UNCHANGED <<ctl, dispatcher, device, start, packet, late, inflight, demux,
                   conns>>

(* What is not for the stack is written back to the device, or dropped.    *)
LoopOther ==
    /\ loop = "got"
    /\ packet = Other
    /\ loop' = "read"
    /\ packet' = None
    /\ UNCHANGED <<ctl, dispatcher, device, start, late, inflight, demux, conns>>

(* dispatcher := e.dispatcher, and return if there is none.  A torn value  *)
(* has a type and no object, and the call on it panics.                    *)
LoopCaptureStale ==
    /\ loop = "got"
    /\ packet \in Flows
    /\ loop' = "deliver"
    /\ UNCHANGED <<ctl, dispatcher, device, start, packet, late, inflight, demux,
                   conns>>

LoopCapture ==
    /\ loop = "got"
    /\ packet \in Flows
    /\ \/ dispatcher # "nil" /\ loop' = "deliver" /\ UNCHANGED packet
       \/ dispatcher # "set" /\ loop' = "ended" /\ packet' = None
    /\ UNCHANGED <<ctl, dispatcher, device, start, late, inflight, demux, conns>>

LoopPanic ==
    /\ loop = "got"
    /\ packet \in Flows
    /\ dispatcher = "torn"
    /\ ctl' = "panicked"
    /\ UNCHANGED <<dispatcher, device, start, reader, inflight, demux, conns>>

Delivered ==
    /\ loop = "deliver"
    /\ loop' = "read"
    /\ packet' = None
    /\ late' = IF dispatcher = "nil" THEN late + 1 ELSE late
    /\ UNCHANGED <<ctl, dispatcher, device, start>>

(* The packet goes to the endpoint of its flow, or is refused or dropped:  *)
(* there is no forwarder yet, or the flow has a request in flight already, *)
(* or the forwarder has too many, or (the bound Conns) none can be made.   *)
DeliverNoConn ==
    /\ loop = "deliver"
    /\ \/ demux[packet] # None
       \/ packet \in TCPFlows /\ (\/ ~tcpHandler
                                  \/ packet \in inflight
                                  \/ Cardinality(inflight) >= MaxInFlight)
       \/ packet \in UDPFlows /\ ~udpHandler
       \/ \A c \in Conns : cpc[c] # "unused"
    /\ Delivered
    /\ UNCHANGED <<inflight, demux, conns>>

(* The first segment of a TCP flow: the forwarder enters the request and   *)
(* runs its function in a goroutine.                                       *)
DeliverTCP(c) ==
    /\ loop = "deliver"
    /\ packet \in TCPFlows
    /\ tcpHandler
    /\ demux[packet] = None
    /\ packet \notin inflight
    /\ Cardinality(inflight) < MaxInFlight
    /\ cpc[c] = "unused"
    /\ Delivered
    /\ inflight' = inflight \cup {packet}
    /\ cpc' = [cpc EXCEPT ![c] = "create"]
    /\ flow' = [flow EXCEPT ![c] = packet]
    /\ UNCHANGED <<demux, ep, once, closes, young>>

(* stack.Close() has run: an endpoint created from now on escapes it.      *)
AfterStackClose == ctl \in {"abort", "tunClose", "closed"}

(* The first datagram of a UDP flow runs the forwarder's function in the   *)
(* dispatch loop: the endpoint cannot be created, or it has no addresses   *)
(* and is aborted, or the handler gets it in a goroutine.                  *)
DeliverUDP(c) ==
    /\ loop = "deliver"
    /\ packet \in UDPFlows
    /\ udpHandler
    /\ demux[packet] = None
    /\ cpc[c] = "unused"
    /\ Delivered
    /\ flow' = [flow EXCEPT ![c] = packet]
    /\ young' = [young EXCEPT ![c] = AfterStackClose]
    /\ \/ /\ cpc' = [cpc EXCEPT ![c] = "done"]
          /\ ep' \in {[ep EXCEPT ![c] = e] : e \in {"none", "aborted"}}
          /\ UNCHANGED demux
       \/ /\ cpc' = [cpc EXCEPT ![c] = "handle"]
          /\ ep' = [ep EXCEPT ![c] = "open"]
          /\ demux' = [demux EXCEPT ![packet] = c]
    /\ UNCHANGED <<inflight, once, closes>>

LoopStep ==
    \/ LoopRead \/ LoopReadError \/ LoopOther \/ LoopCapture \/ LoopPanic
    \/ DeliverNoConn
    \/ \E c \in Conns : DeliverTCP(c) \/ DeliverUDP(c)

(***************************************************************************)
(* The TCP forwarder's function, in the goroutine of a request.            *)
(***************************************************************************)
(* CreateEndpoint fails: r.Complete(true).                                 *)
TCPCreateFailsNoComplete(c) ==
    /\ cpc[c] = "create"
    /\ cpc' = [cpc EXCEPT ![c] = "done"]
    /\ UNCHANGED <<ctl, dispatcher, device, start, reader, inflight, demux, flow, ep,
                   once, closes, young>>

TCPCreateFails(c) ==
    /\ cpc[c] = "create"
    /\ cpc' = [cpc EXCEPT ![c] = "done"]
    /\ inflight' = inflight \ {flow[c]}
    /\ UNCHANGED <<ctl, dispatcher, device, start, reader, demux, flow, ep, once,
                   closes, young>>

(* CreateEndpoint finishes the handshake and registers the endpoint.       *)
TCPCreate(c) ==
    /\ cpc[c] = "create"
    /\ demux[flow[c]] = None
    /\ cpc' = [cpc EXCEPT ![c] = "complete"]
    /\ ep' = [ep EXCEPT ![c] = "open"]
    /\ demux' = [demux EXCEPT ![flow[c]] = c]
    /\ young' = [young EXCEPT ![c] = AfterStackClose]
    /\ UNCHANGED <<ctl, dispatcher, device, start, reader, inflight, flow, once, closes>>

(* r.Complete(false) and the keepalive options.                            *)
TCPComplete(c) ==
    /\ cpc[c] = "complete"
    /\ cpc' = [cpc EXCEPT ![c] = "addr"]
    /\ inflight' = inflight \ {flow[c]}
    /\ UNCHANGED <<ctl, dispatcher, device, start, reader, demux, flow, ep, once,
                   closes, young>>

(* The connection's own Close, on the endpoint as it finds it.             *)
CloseConn(c, to) ==
    /\ cpc' = [cpc EXCEPT ![c] = to]
    /\ closes' = [closes EXCEPT ![c] = @ + 1]
    /\ ep' = [ep EXCEPT ![c] = IF @ = "open" THEN Closing(c) ELSE @]
    /\ demux' = IF ep'[c] = "closed" THEN Unregister({c}) ELSE demux

(* An endpoint that is no longer connected has no addresses: close it and  *)
(* return.  Otherwise start the goroutine of the handler.  One that is     *)
(* closing may or may not still be connected.                              *)
TCPAddr(c) ==
    /\ cpc[c] = "addr"
    /\ \/ /\ ep[c] \in {"open", "closing"}
          /\ cpc' = [cpc EXCEPT ![c] = "handle"]
          /\ UNCHANGED <<ep, demux, closes>>
       \/ /\ ep[c] # "open"
          /\ CloseConn(c, "done")
    /\ UNCHANGED <<ctl, dispatcher, device, start, reader, inflight, flow, once, young>>

(***************************************************************************)
(* The goroutine that runs the handler.                                    *)
(***************************************************************************)
(* The handler closes the connection itself (as a relay does), once.       *)
HandlerCloses(c) ==
    /\ cpc[c] = "handle"
    /\ ~once[c]
    /\ once' = [once EXCEPT ![c] = TRUE]
    /\ CloseConn(c, "handle")
    /\ UNCHANGED <<ctl, dispatcher, device, start, reader, inflight, flow, young>>

(* It returns without an error, or with one: then endpoint.Abort().        *)
HandlerReturns(c) ==
    /\ cpc[c] = "handle"
    /\ cpc' = [cpc EXCEPT ![c] = "close"]
    /\ \/ UNCHANGED <<ep, demux>>
       \/ /\ ep' = [ep EXCEPT ![c] = IF @ = "closed" THEN @ ELSE "aborted"]
          /\ demux' = Unregister({c})
    /\ UNCHANGED <<ctl, dispatcher, device, start, reader, inflight, flow, once, closes,
                   young>>

(* The deferred newConn.Close(), through the once closer.                  *)
DeferredCloseNoOnce(c) ==
    /\ cpc[c] = "close"
    /\ CloseConn(c, "done")
    /\ UNCHANGED <<ctl, dispatcher, device, start, reader, inflight, flow, once, young>>

DeferredClose(c) ==
    /\ cpc[c] = "close"
    /\ IF once[c]
         THEN /\ cpc' = [cpc EXCEPT ![c] = "done"]
              /\ UNCHANGED <<ep, demux, closes, once>>
         ELSE /\ CloseConn(c, "done")
              /\ once' = [once EXCEPT ![c] = TRUE]
    /\ UNCHANGED <<ctl, dispatcher, device, start, reader, inflight, flow, young>>

ConnStep(c) ==
    \/ TCPCreateFails(c) \/ TCPCreate(c) \/ TCPComplete(c) \/ TCPAddr(c)
    \/ DeferredClose(c)

(***************************************************************************)
(* The peer: a lingering close comes to its end, or the flow is reset.     *)
(***************************************************************************)
PeerEnds(c) ==
    /\ \/ ep[c] = "closing" /\ ep' = [ep EXCEPT ![c] = "closed"]
       \/ ep[c] \in {"open", "closing"} /\ flow[c] \in TCPFlows
            /\ ep' = [ep EXCEPT ![c] = "aborted"]
    /\ demux' = Unregister({c})
    /\ UNCHANGED <<ctl, dispatcher, device, start, reader, inflight, cpc, flow, once,
                   closes, young>>

CloseStep == CloseDetached \/ CloseStack \/ CloseAbort \/ CloseTun

(* A panic ends the process.                                               *)
Alive == ctl # "panicked"

Next ==
    /\ Alive
    /\ \/ StartCreateNIC \/ StartTCP \/ StartUDP \/ CloseDetach
       \/ CloseStep
       \/ LoopStep
       \/ \E c \in Conns :
             ConnStep(c) \/ HandlerCloses(c) \/ HandlerReturns(c) \/ PeerEnds(c)

(* Goroutines are scheduled: Close goes on once begun, the loop goes on,   *)
(* and so does a connection's goroutine outside its handler (a handshake   *)
(* ends or times out).  No handler has to return, no packet to arrive.     *)
Fairness ==
    /\ WF_vars(CloseStep /\ Alive)
    /\ WF_vars(LoopStep /\ Alive /\ (device = "closed" \/ loop # "read"))
    /\ \A c \in Conns : WF_vars(ConnStep(c) /\ Alive)

Spec == Init /\ [][Next]_vars
FairSpec == Spec /\ Fairness

-----------------------------------------------------------------------------
(***************************************************************************)
(* Properties                                                              *)
(***************************************************************************)
(* However the handler and the peer end a flow, the goroutine that served  *)
(* it leaves no open endpoint behind, on the early returns of the two      *)
(* forwarders too; and the underlying connection is closed at most once,   *)
(* although the handler may close it and the deferred Close always runs.   *)
EndpointsClosedOnce ==
    \A c \in Conns : closes[c] <= 1 /\ (cpc[c] = "done" => ep[c] # "open")

(* Detaching does not wait for the dispatch loop, but at most the one      *)
(* packet whose dispatcher was captured before gets through after it.      *)
OneLateDelivery == late <= 1

(* Close leaves nothing of the flows it found: an endpoint that is alive   *)
(* after stack.Close and the aborts was created after stack.Close, by a    *)
(* handshake or a delivery that was under way.                             *)
OnlyYoungSurvive ==
    ctl \in {"tunClose", "closed"} =>
        \A c \in Conns : ep[c] \in {"open", "closing"} => young[c]

(* After Close the dispatch loop ends, wherever it was.                    *)
DispatchEnds == ctl = "tunClose" ~> loop = "ended"

(* Every TCP request in flight is completed, unless the process panics.    *)
RequestsComplete == \A f \in TCPFlows : f \in inflight ~> (f \notin inflight \/ ~Alive)
=============================================================================
