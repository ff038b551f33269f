------------------------------- MODULE Buffer -------------------------------
(***************************************************************************)
(* Buffers of common/buf (buffer.go): a slice of an array with cursors.    *)
(* The array comes from the pool of the slice allocator, which is shared,  *)
(* and goes back to it in Release; an array of the caller (As, With) stays *)
(* the caller's.                                                           *)
(*                                                                         *)
(* The pool is the one of a size class; bytes are members of a small set.  *)
(* A call that panics changes nothing.  The caller keeps to what the       *)
(* functions leave to him: Advance and Truncate stay inside the contents,  *)
(* Resize inside the capacity.                                             *)
(***************************************************************************)
EXTENDS Integers, Sequences

CONSTANTS
    Buffers,    \* variables of type *Buffer
    PoolArrays, \* arrays of the size class
    Foreign,    \* arrays of the caller
    Size,       \* length of the arrays
    Sizes,      \* lengths of slices that callers ask for
    Bytes,      \* values of a byte
    MaxRefs     \* bound: references to one buffer

NoArray == "nil"

(* Result of a call that makes bytes of the array visible.                 *)
Shown == <<-1>>

VARIABLES
    store,      \* contents of the arrays; what is in an array that nobody holds is not kept
    free,       \* arrays in the pool
    buf,        \* the buffers
    answer      \* bytes that the last call accepted or returned, or Shown

vars == <<store, free, buf, answer>>

Strings == UNION {[1..n -> Bytes] : n \in 0..Size}
Min(m, n) == IF m < n THEN m ELSE n

(* Buffer{}: no data, managed false.                                       *)
Zero == [array |-> NoArray, len |-> 0, start |-> 0, end |-> 0, capacity |-> 0,
         refs |-> 0, managed |-> FALSE]

Contents(b) ==
    IF buf[b].array = NoArray THEN <<>>
    ELSE SubSeq(store[buf[b].array], buf[b].start + 1, buf[b].end)
FreeLen(b) == buf[b].capacity - buf[b].end
IsFull(b) == buf[b].end = buf[b].capacity

(* The bytes of s in the array of b, from position at.                     *)
Stored(b, at, s) ==
    [store EXCEPT ![buf[b].array] =
       [k \in 1..Size |-> IF k \in (at + 1)..(at + Len(s)) THEN s[k - at] ELSE @[k]]]

Init ==
    /\ store = [a \in PoolArrays \cup Foreign |-> [k \in 1..Size |-> 0]]
    /\ free = {}
    /\ buf = [b \in Buffers |-> Zero]
    /\ answer = <<>>

(* Nobody looks at an array that no buffer holds.                          *)
Unheld(a) == [store EXCEPT ![a] = [k \in 1..Size |-> 0]]

Update(b, new) == buf' = [buf EXCEPT ![b] = new]

Held == {buf[b].array : b \in Buffers}

(***************************************************************************)
(* Creation and release.                                                   *)
(***************************************************************************)

(* New, NewPacket and NewSize: an array of the pool, or a new one.         *)
NewSize(b, size) ==
    /\ buf[b] = Zero
    /\ \E a \in free \cup (PoolArrays \ Held) :
         /\ Update(b, [Zero EXCEPT !.array = a, !.len = size, !.capacity = size, !.managed = TRUE])
         /\ free' = free \ {a}
    /\ answer' = <<>>
    /\ UNCHANGED store

As(b, a, size) ==
    /\ buf[b] = Zero /\ a \notin Held
    /\ Update(b, [Zero EXCEPT !.array = a, !.len = size, !.end = size, !.capacity = size])
    /\ answer' = Shown
    /\ UNCHANGED <<store, free>>

With(b, a, size) ==
    /\ buf[b] = Zero /\ a \notin Held
    /\ Update(b, [Zero EXCEPT !.array = a, !.len = size, !.capacity = size])
    /\ answer' = <<>>
    /\ UNCHANGED <<store, free>>

(* The copy has the bytes between the cursors, and the cursors.            *)
ToOwned(b, c) ==
    /\ b # c /\ buf[c] = Zero /\ buf[b].len > 0
    /\ \E a \in free \cup (PoolArrays \ Held) :
         /\ store' = [store EXCEPT ![a] = [k \in 1..Size |->
                      IF k \in (buf[b].start + 1)..buf[b].end
                      THEN store[buf[b].array][k] ELSE @[k]]]
         /\ Update(c, [Zero EXCEPT !.array = a, !.len = buf[b].len, !.start = buf[b].start,
                                   !.end = buf[b].end, !.capacity = buf[b].capacity,
                                   !.managed = TRUE])
         /\ free' = free \ {a}
    /\ answer' = <<>>

IncRef(b) ==
    /\ buf[b].array # NoArray /\ buf[b].refs < MaxRefs
    /\ Update(b, [buf[b] EXCEPT !.refs = @ + 1])
    /\ UNCHANGED <<store, free, answer>>

DecRef(b) ==
    /\ buf[b].refs > 0
    /\ Update(b, [buf[b] EXCEPT !.refs = @ - 1])
    /\ UNCHANGED <<store, free, answer>>

(* Release returns early on a buffer that is not managed or is referenced. *)
Release(b) ==
    /\ buf[b].managed /\ buf[b].refs = 0
    /\ free' = free \cup {buf[b].array}
    /\ Update(b, Zero)
    /\ store' = Unheld(buf[b].array)
    /\ answer' = <<>>

(* The caller forgets a buffer that is not managed.                        *)
Forget(b) ==
    /\ buf[b].array # NoArray /\ ~buf[b].managed
    /\ Update(b, Zero)
    /\ store' = Unheld(buf[b].array)
    /\ answer' = <<>>
    /\ UNCHANGED free

(***************************************************************************)
(* Bytes in.                                                               *)
(***************************************************************************)

(* Write, WriteString, WriteRune: what fits.  With the capacity below the  *)
(* end the slice expression panics.                                        *)
WriteOverlaps(b, s) ==
    /\ s # <<>> /\ FreeLen(b) > 0
    /\ LET n == Min(Len(s), FreeLen(b)) IN
       /\ store' = Stored(b, buf[b].end - 1, SubSeq(s, 1, n))
       /\ Update(b, [buf[b] EXCEPT !.end = @ + n])
       /\ answer' = SubSeq(s, 1, n)
    /\ UNCHANGED free

Write(b, s) ==
    /\ s # <<>> /\ FreeLen(b) > 0
    /\ LET n == Min(Len(s), FreeLen(b)) IN
       /\ store' = Stored(b, buf[b].end, SubSeq(s, 1, n))
       /\ Update(b, [buf[b] EXCEPT !.end = @ + n])
       /\ answer' = SubSeq(s, 1, n)
    /\ UNCHANGED free

(* WriteByte and WriteZero index the array, so that they go on behind the  *)
(* capacity where it is below the end, as far as the array goes.           *)
WriteByte(b, d) ==
    /\ ~IsFull(b) /\ buf[b].end < buf[b].len
    /\ store' = Stored(b, buf[b].end, <<d>>)
    /\ Update(b, [buf[b] EXCEPT !.end = @ + 1])
    /\ answer' = <<d>>
    /\ UNCHANGED free

(* ReadOnceFrom, ReadPacketFrom, ReadAtLeastFrom, ReadFullFrom, and a step *)
(* of the loop of ReadFrom: the reader fills a part of the free bytes.     *)
ReadFrom(b, s) ==
    /\ FreeLen(b) > 0 /\ Len(s) <= FreeLen(b)
    /\ store' = Stored(b, buf[b].end, s)
    /\ Update(b, [buf[b] EXCEPT !.end = @ + Len(s)])
    /\ answer' = s
    /\ UNCHANGED free

(* Extend and ExtendHeader; the caller fills the bytes he gets.            *)
Extend(b, s) ==
    /\ s # <<>> /\ buf[b].end + Len(s) <= buf[b].capacity
    /\ store' = Stored(b, buf[b].end, s)
    /\ Update(b, [buf[b] EXCEPT !.end = @ + Len(s)])
    /\ answer' = s
    /\ UNCHANGED free

ExtendHeader(b, s) ==
    /\ s # <<>> /\ buf[b].start >= Len(s)
    /\ store' = Stored(b, buf[b].start - Len(s), s)
    /\ Update(b, [buf[b] EXCEPT !.start = @ - Len(s)])
    /\ answer' = s
    /\ UNCHANGED free

SetByte(b, index, value) ==
    /\ index < Len(Contents(b))
    /\ store' = Stored(b, buf[b].start + index, <<value>>)
    /\ answer' = <<>>
    /\ UNCHANGED <<free, buf>>

(***************************************************************************)
(* Bytes out, and the cursors.                                             *)
(***************************************************************************)

(* ReadByte, ReadBytes, Read.                                              *)
Read(b, n) ==
    /\ n > 0 /\ Contents(b) # <<>>
    /\ LET m == Min(n, Len(Contents(b))) IN
       /\ Update(b, [buf[b] EXCEPT !.start = @ + m])
       /\ answer' = SubSeq(Contents(b), 1, m)
    /\ UNCHANGED <<store, free>>

Advance(b, from) ==
    /\ from > 0 /\ from <= Len(Contents(b))
    /\ Update(b, [buf[b] EXCEPT !.start = @ + from])
    /\ answer' = SubSeq(Contents(b), 1, from)
    /\ UNCHANGED <<store, free>>

Truncate(b, to) ==
    /\ to <= Len(Contents(b))
    /\ Update(b, [buf[b] EXCEPT !.end = buf[b].start + to])
    /\ answer' = <<>>
    /\ UNCHANGED <<store, free>>

Resize(b, start, end) ==
    /\ start + end <= buf[b].capacity
    /\ Update(b, [buf[b] EXCEPT !.start = start, !.end = start + end])
    /\ answer' = Shown
    /\ UNCHANGED <<store, free>>

(* Reserve compares with the capacity, not with the free room.             *)
Reserve(b, n) ==
    /\ n > 0 /\ n <= buf[b].capacity
    /\ Update(b, [buf[b] EXCEPT !.capacity = @ - n])
    /\ UNCHANGED <<store, free, answer>>

OverCap(b, n) ==
    /\ n > 0 /\ buf[b].capacity + n <= buf[b].len
    /\ Update(b, [buf[b] EXCEPT !.capacity = @ + n])
    /\ UNCHANGED <<store, free, answer>>

Reset(b) ==
    /\ buf[b].len > 0
    /\ Update(b, [buf[b] EXCEPT !.start = 0, !.end = 0, !.capacity = buf[b].len])
    /\ answer' = <<>>
    /\ UNCHANGED <<store, free>>

Next ==
    \E b \in Buffers :
      \/ \E n \in Sizes : NewSize(b, n) \/ \E a \in Foreign : As(b, a, n) \/ With(b, a, n)
      \/ \E n \in 1..Size : Read(b, n) \/ Advance(b, n) \/ Reserve(b, n) \/ OverCap(b, n)
      \/ \E c \in Buffers : ToOwned(b, c)
      \/ IncRef(b) \/ DecRef(b) \/ Release(b) \/ Forget(b) \/ Reset(b)
      \/ \E s \in Strings : Write(b, s) \/ ReadFrom(b, s) \/ Extend(b, s) \/ ExtendHeader(b, s)
      \/ \E k \in 0..(Size - 1), v \in Bytes : SetByte(b, k, v)
      \/ \E d \in Bytes : WriteByte(b, d)
      \/ \E n \in 0..Size : Truncate(b, n)
      \/ \E m, n \in 0..Size : Resize(b, m, n)

Spec == Init /\ [][Next]_vars
=============================================================================
