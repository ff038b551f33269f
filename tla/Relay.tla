------------------------------- MODULE Relay -------------------------------
(***************************************************************************)
(* The handler of the relay example: one connection of the stack (the      *)
(* client's side) and one that it dials or listens on (the remote side),   *)
(* and two goroutines that copy between them until one of them ends.       *)
(*                                                                         *)
(* "up" copies from the client to the remote side, "down" the other way.   *)
(* A packet of UDP may come from a stranger: symmetricNATPacketConn drops  *)
(* it inside ReadFrom, with the deadline that was set before.  The buffer  *)
(* of UDP has 10240 bytes: of a longer packet the rest is lost, and on     *)
(* Windows the socket of the remote side answers with an error.            *)
(***************************************************************************)
EXTENDS Integers, Sequences

CONSTANTS
    MaxSent,        \* bound: chunks or packets that each peer sends
    Longer,         \* numbers of the packets that may be longer than the buffer
    MaxQueue        \* bound: what waits to be read on one side

Sides == {"client", "remote"}
Copiers == {"up", "down"}
From(c) == IF c = "up" THEN "client" ELSE "remote"
To(c) == IF c = "up" THEN "remote" ELSE "client"
NoAddr == "none"
Stranger == 0       \* a packet of a stranger; the peer's are numbered from 1

VARIABLES
    protocol,
    long,       \* of each side: the packets that are longer than the buffer
    sent,       \* how much each peer sent
    queue,      \* what waits on each side
    peer,       \* of each side: "open", "eof" or "reset"
    shut,       \* sides that were closed by the relay
    copier,     \* where each goroutine is
    chunk,      \* what it read
    to,         \* where it sends to; of UDP the argument to, nil at first for "down"
    errCh,      \* errors in the channel
    handler,    \* where the handler is
    out         \* what each address was sent

fixed == <<protocol, long>>
vars == <<fixed, sent, queue, peer, shut, copier, chunk, to, errCh, handler, out>>
network == <<fixed, sent, queue, peer>>

Init ==
    /\ protocol \in {"tcp", "udp"}
    /\ long \in [Sides -> SUBSET Longer]
    /\ protocol = "tcp" => \A s \in Sides : long[s] = {}
    /\ sent = [s \in Sides |-> 0]
    /\ queue = [s \in Sides |-> <<>>]
    /\ peer = [s \in Sides |-> "open"]
    /\ shut = {}
    /\ copier = [c \in Copiers |-> "none"]
    /\ chunk = [c \in Copiers |-> <<>>]
    /\ to = [c \in Copiers |-> IF c = "up" \/ protocol = "tcp" THEN To(c) ELSE NoAddr]
    /\ errCh = 0
    /\ handler = "idle"
    /\ out = [a \in Sides \cup {"stranger"} |-> <<>>]

(***************************************************************************)
(* The peers.  What the network loses of UDP was never sent here.          *)
(***************************************************************************)
Connected(s) == handler \notin {"idle"} \cup (IF s = "remote" THEN {"dial"} ELSE {})

Send(s) ==
    /\ Connected(s) /\ peer[s] = "open" /\ sent[s] < MaxSent /\ Len(queue[s]) < MaxQueue
    /\ sent' = [sent EXCEPT ![s] = @ + 1]
    /\ queue' = [queue EXCEPT ![s] = Append(@, sent[s] + 1)]
    /\ UNCHANGED <<fixed, peer, shut, copier, chunk, to, errCh, handler, out>>

(* A half close or the end of a TCP connection, or an error on either.     *)
End(s) ==
    /\ Connected(s) /\ peer[s] = "open"
    /\ \E how \in {"eof", "reset"} :
         /\ protocol = "udp" => how = "reset"
         /\ peer' = [peer EXCEPT ![s] = how]
    /\ UNCHANGED <<fixed, sent, queue, shut, copier, chunk, to, errCh, handler, out>>

(* Any host can send to the socket that listens for the remote side.       *)
StrangerSends ==
    /\ protocol = "udp" /\ Len(queue["remote"]) < MaxQueue
    /\ Connected("remote")
    /\ queue' = [queue EXCEPT !["remote"] = Append(@, Stranger)]
    /\ UNCHANGED <<fixed, sent, peer, shut, copier, chunk, to, errCh, handler, out>>

(***************************************************************************)
(* HandleTCPConnection and HandleUDPConnection, called by the stack.  When *)
(* the dial fails, the error is returned and the stack closes the client's *)
(* side.                                                                   *)
(***************************************************************************)
Accept ==
    /\ handler = "idle"
    /\ handler' = "dial"
    /\ UNCHANGED <<network, shut, copier, chunk, to, errCh, out>>

Dial ==
    /\ handler = "dial"
    /\ \/ handler' = "copy" /\ copier' = [c \in Copiers |-> "loop"] /\ UNCHANGED shut
       \/ handler' = "returned" /\ shut' = {"client"} /\ UNCHANGED copier
    /\ UNCHANGED <<network, chunk, to, errCh, out>>

(* <-errCh, and then the deferred calls: src.Close, dst.Close.             *)
Receive ==
    /\ handler = "copy" /\ errCh > 0
    /\ errCh' = errCh - 1
    /\ handler' = "closing"
    /\ UNCHANGED <<network, shut, copier, chunk, to, out>>

Close ==
    /\ handler = "closing"
    /\ IF "client" \notin shut THEN shut' = shut \cup {"client"} /\ UNCHANGED handler
       ELSE shut' = Sides /\ handler' = "returned"
    /\ UNCHANGED <<network, copier, chunk, to, errCh, out>>

(***************************************************************************)
(* io.Copy and copyPacketData.                                             *)
(***************************************************************************)
Goto(c, at) == copier' = [copier EXCEPT ![c] = at]

(* SetReadDeadline, on UDP; nothing on TCP.                                *)
Loop(c) ==
    /\ copier[c] = "loop"
    /\ Goto(c, "read")
    /\ UNCHANGED <<network, shut, chunk, to, errCh, handler, out>>

(* What is in the buffer when packet n was read: -n stands for the first   *)
(* 10240 bytes of it.                                                      *)
Filled(c, n) == IF n \in long[From(c)] THEN -n ELSE n

(* Read, or ReadFrom of UDP: an address that is nil is replaced by the one *)
(* that ReadFrom returns, which on the remote side is the client's.        *)
TakeAny(c, first) ==
    /\ chunk' = [chunk EXCEPT ![c] = <<Filled(c, first)>>]
    /\ to' = [to EXCEPT ![c] = IF @ = NoAddr THEN (IF first = Stranger THEN "stranger" ELSE To(c))
                               ELSE @]
    /\ Goto(c, "write")

Take(c, first) ==
    IF first = Stranger THEN UNCHANGED <<copier, chunk, to>>
    ELSE /\ chunk' = [chunk EXCEPT ![c] = <<Filled(c, first)>>]
         /\ to' = [to EXCEPT ![c] = IF @ = NoAddr THEN To(c) ELSE @]
         /\ Goto(c, "write")

Read(c) ==
    /\ copier[c] = "read" /\ From(c) \notin shut
    /\ queue[From(c)] # <<>> /\ peer[From(c)] # "reset"
    /\ Take(c, Head(queue[From(c)]))
    /\ queue' = [queue EXCEPT ![From(c)] = Tail(@)]
    /\ UNCHANGED <<fixed, sent, peer, shut, errCh, handler, out>>

(* The error of Windows for a packet that is longer than the buffer; it    *)
(* comes without an address, so that a stranger's is not told apart.       *)
ReadTooLong(c) ==
    /\ c = "down" /\ protocol = "udp"
    /\ copier[c] = "read" /\ From(c) \notin shut
    /\ queue[From(c)] # <<>> /\ peer[From(c)] # "reset"
    /\ Head(queue[From(c)]) \in {Stranger} \cup long[From(c)]
    /\ queue' = [queue EXCEPT ![From(c)] = Tail(@)]
    /\ Goto(c, "result")
    /\ UNCHANGED <<fixed, sent, peer, shut, chunk, to, errCh, handler, out>>

(* io.EOF once everything was read, and the errors.                        *)
ReadEnds(c) ==
    /\ copier[c] = "read"
    /\ \/ From(c) \in shut
       \/ peer[From(c)] = "reset"
       \/ peer[From(c)] = "eof" /\ queue[From(c)] = <<>>
    /\ Goto(c, "result")
    /\ UNCHANGED <<network, shut, chunk, to, errCh, handler, out>>

(* The deadline, ten seconds after the loop began.                         *)
Timeout(c) ==
    /\ protocol = "udp" /\ copier[c] = "read"
    /\ Goto(c, "result")
    /\ UNCHANGED <<network, shut, chunk, to, errCh, handler, out>>

(* It blocks while the peer of a TCP connection does not read: io.Copy     *)
(* sets no deadline for it.                                                *)
Write(c) ==
    /\ copier[c] = "write" /\ To(c) \notin shut /\ peer[To(c)] # "reset"
    /\ out' = [out EXCEPT ![to[c]] = @ \o chunk[c]]
    /\ chunk' = [chunk EXCEPT ![c] = <<>>]
    /\ Goto(c, "loop")
    /\ UNCHANGED <<network, shut, to, errCh, handler>>

WriteFails(c) ==
    /\ copier[c] = "write" /\ (To(c) \in shut \/ peer[To(c)] # "open")
    /\ Goto(c, "result")
    /\ UNCHANGED <<network, shut, chunk, to, errCh, handler, out>>

(* errCh <- err; the channel has room for both.                            *)
Unbuffered(c) == handler = "copy"
HasRoom(c) == errCh < 2

Result(c) ==
    /\ copier[c] = "result" /\ HasRoom(c)
    /\ errCh' = errCh + 1
    /\ Goto(c, "end")
    /\ UNCHANGED <<network, shut, chunk, to, handler, out>>

Copy(c) ==
    \/ Loop(c) \/ Read(c) \/ ReadTooLong(c) \/ ReadEnds(c) \/ Timeout(c)
    \/ Write(c) \/ WriteFails(c) \/ Result(c)

Next ==
    \/ \E s \in Sides : Send(s) \/ End(s)
    \/ StrangerSends
    \/ Accept \/ Dial \/ Receive \/ Close
    \/ \E c \in Copiers : Copy(c)

Spec == Init /\ [][Next]_vars

(* The goroutines run, a deadline passes in the end, and the dialer has a  *)
(* timeout.  A datagram is taken by the network, and a write to a          *)
(* connection that is closed or reset fails; but nobody has to read what   *)
(* TCP sends, to send or to end.                                           *)
Gone(s) == s \in shut \/ peer[s] = "reset"

Runs(c) ==
    \/ Loop(c) \/ Read(c) \/ ReadTooLong(c) \/ ReadEnds(c) \/ Result(c)
    \/ protocol = "udp" /\ Write(c)
    \/ Gone(To(c)) /\ WriteFails(c)

Fairness ==
    /\ WF_vars(Dial) /\ WF_vars(Receive) /\ WF_vars(Close)
    /\ \A c \in Copiers : WF_vars(Timeout(c)) /\ WF_vars(Runs(c))

(***************************************************************************)
(* Properties.                                                             *)
(***************************************************************************)

(* Each peer gets what the other one sent, in order and nothing else: the  *)
(* k-th packet is the k-th that was sent, whole, or cut to the buffer of   *)
(* copyPacketData if it is longer; no packet of a stranger, none sent to a *)
(* stranger.  As long as a goroutine copies nothing is missing but what    *)
(* waits, in order, to be read.                                            *)
InOrder(c, s) == \A k \in DOMAIN s : s[k] = Filled(c, k)

NothingMixedUp ==
    /\ out["stranger"] = <<>>
    /\ \A c \in Copiers :
         LET got == out[To(c)] \o chunk[c]
             q == queue[From(c)]
             waiting == {k \in DOMAIN q : q[k] # Stranger}
         IN  /\ InOrder(c, got) /\ Len(got) <= sent[From(c)]
             /\ copier[c] \notin {"result", "end"} =>
                  /\ {q[k] : k \in waiting} = (Len(got) + 1)..sent[From(c)]
                  /\ \A j, k \in waiting : j < k => q[j] < q[k]

(* When one side has ended, and for UDP when both sides fall silent        *)
(* whatever strangers send, the handler returns, both connections are      *)
(* closed and neither goroutine is left behind on the channel or on a      *)
(* connection.  Only a TCP peer that stays connected and never reads what  *)
(* a goroutine writes to it can keep the handler.                          *)
Blocked(c) == protocol = "tcp" /\ copier[c] = "write" /\ ~Gone(To(c))

HandlerEnds ==
    \/ <>[](\E c \in Copiers : Blocked(c))
    \/ handler # "idle" /\ (protocol = "udp" \/ \E s \in Sides : peer[s] # "open") ~>
          /\ handler = "returned"
          /\ \A c \in Copiers : copier[c] \in {"none", "end"}
          /\ copier["up"] = "end" => shut = Sides
=============================================================================
