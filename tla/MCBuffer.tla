------------------------------ MODULE MCBuffer ------------------------------
(* Buffers over the arrays of one size class, and the allocator that finds *)
(* the class for a size.                                                   *)
EXTENDS BufAllocator, Integers

CONSTANTS Buffers, PoolArrays, Foreign, Size, Sizes, Bytes, MaxRefs     \* of Buffer

ASSUME BufferAssumption ==
    /\ Size \in Nat \ {0} /\ Sizes \subseteq 1..Size /\ 0 \in Bytes
    /\ MaxRefs \in Nat
    /\ PoolArrays \cap Foreign = {} /\ "nil" \notin PoolArrays \cup Foreign

VARIABLES store, free, buf, answer

B == INSTANCE Buffer

BufferSpec == B!Spec

(* Each buffer is a queue of bytes of its own, whatever the others do and  *)
(* however arrays go through the pool.                                     *)
Q == INSTANCE ByteQueues WITH
       content <- [b \in Buffers |-> B!Contents(b)], Strings <- B!Strings
ImplementsQueues == Q!Spec

(* The pool of Buffer stands for each of the eleven.  Once an array has    *)
(* been released to it, the next Get may hand it out: whatever size it was *)
(* taken for, it is in the pool of its own length, and Put did not panic.  *)
PoolsFit == free # {} => ClassesFit

(* Buffers and arrays of the pool are interchangeable.                     *)
LOCAL INSTANCE TLC
MCSymmetry == Permutations(Buffers) \cup Permutations(PoolArrays)

(* Each power of two up to 2^17, one less and one more, and some between.  *)
BoundarySizes ==
    {0, 100, 1500, 9000, 20000, 40000, 65000}
    \cup UNION {{2^k - 1, 2^k, 2^k + 1} : k \in 0..17}
=============================================================================
