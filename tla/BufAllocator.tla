---------------------------- MODULE BufAllocator ----------------------------
(***************************************************************************)
(* The slice allocator of common/buf (alloc.go): eleven pools of arrays of *)
(* 64 bytes to 64 KiB.  Get picks the pool for a size, Put finds the pool  *)
(* again from the capacity of a slice alone, which is all that Release has *)
(* left.  The bit arithmetic is kept: msb is a uint16, and so are the      *)
(* indices computed from it.                                               *)
(***************************************************************************)
EXTENDS Integers

CONSTANTS
    Requests    \* the sizes asked for, and the capacities given to Put

ASSUME RequestsAssumption == Requests \subseteq Nat

Classes == 0..10
Uint16(n) == n % 65536

(* uint16(bits.Len32(uint32(size)) - 1): the position of the most          *)
(* significant bit, and 65535 for 0.                                       *)
msb(size) ==
    IF size = 0 THEN Uint16(-1)
    ELSE CHOOSE k \in 0..31 : 2^k <= size /\ size < 2^(k + 1)

(* 1 << bits as an int: too large a shift gives 0.                         *)
Shift1(bits) == IF bits < 63 THEN 2^bits ELSE 0

(* The length of the arrays of a pool.                                     *)
ArrayLen(index) == 2^(index + 6)

(* Get: nil for a size out of range, or an array of a pool cut to the size.*)
GetAccepts(size) == ~(size = 0 \/ size > 65536)

GetIndexAlwaysUp(size) ==
    IF size <= 64 THEN 0 ELSE Uint16(msb(size) + 1 - 6)

GetIndex(size) ==
    IF size <= 64 THEN 0
    ELSE LET index == msb(size)
         IN  Uint16((IF size # Shift1(index) THEN index + 1 ELSE index) - 6)

(* Put: an error, or the array goes to a pool.                             *)
PutAccepts(cap) ==
    ~(cap = 0 \/ cap > 65536 \/ cap # Shift1(msb(cap)))

PutIndex(cap) == Uint16(msb(cap) - 6)

(***************************************************************************)
(* What Get and Put must do together.                                      *)
(***************************************************************************)

(* Get hands out the smallest array that holds the size, and what it gave  *)
(* can be put back (common.Must(Put(b.data)) in Release does not panic)    *)
(* and comes back to the pool it was taken from.  Whatever else is put, by *)
(* whomever, a pool only ever gets arrays of its own length, so that the   *)
(* type assertion and the slicing in Get cannot fail; a slice of less than *)
(* 64 bytes that passes the check panics in the switch.                    *)
ClassesFit ==
    /\ \A size \in Requests : GetAccepts(size) =>
         LET index == GetIndex(size) IN
         /\ index \in Classes
         /\ size <= ArrayLen(index)
         /\ index > 0 => size > ArrayLen(index - 1)
         /\ PutAccepts(ArrayLen(index)) /\ PutIndex(ArrayLen(index)) = index
    /\ \A cap \in Requests : PutAccepts(cap) /\ PutIndex(cap) \in Classes =>
         cap = ArrayLen(PutIndex(cap))
=============================================================================
