----------------------------- MODULE ByteQueues -----------------------------
(***************************************************************************)
(* What the buffers of common/buf promise: each is a queue of bytes of its *)
(* own.  Bytes come out in the order in which they went in, and no call on *)
(* one buffer changes another.                                             *)
(***************************************************************************)
EXTENDS Integers, Sequences

CONSTANTS
    Buffers,
    Strings     \* sequences of bytes that may be written at once

VARIABLES
    content,    \* bytes in each buffer
    answer      \* bytes that the last call accepted or returned, or Shown

Init ==
    /\ content = [b \in Buffers |-> <<>>]
    /\ answer = <<>>

(* What a call may make of the bytes s of its buffer: it leaves t in the   *)
(* buffer and gives the caller the result r.                               *)
Write(s, t, r) == r \in Strings /\ t = s \o r

Prepend(s, t, r) == r \in Strings /\ t = r \o s

Read(s, t, r) == s = r \o t

Truncate(s, t, r) == r = <<>> /\ \E n \in 0..Len(s) : t = SubSeq(s, 1, n)

SetByte(s, t, r) ==
    r = <<>> /\ \E k \in DOMAIN s, v \in Strings : Len(v) = 1 /\ t = [s EXCEPT ![k] = v[1]]

(* A buffer begins with bytes of the caller, or shows other bytes of its   *)
(* array; the result tells it from the other calls.                        *)
Shown == <<-1>>
Show(s, t, r) == r = Shown /\ t \in Strings

(* An empty buffer becomes a copy of another.                              *)
Copy(s, t, r) == s = <<>> /\ r = <<>> /\ \E c \in Buffers : t = content[c]

Call(s, t, r) ==
    Read(s, t, r) \/ Write(s, t, r) \/ Prepend(s, t, r) \/ Truncate(s, t, r)
    \/ SetByte(s, t, r) \/ Show(s, t, r) \/ Copy(s, t, r)

(* A call changes one buffer.                                              *)
Next ==
    \E b \in Buffers :
      /\ \A c \in Buffers \ {b} : content'[c] = content[c]
      /\ Call(content[b], content'[b], answer')

Spec == Init /\ [][Next]_<<content, answer>>
=============================================================================
