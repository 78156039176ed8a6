--------------------------- MODULE SequenceNumber ---------------------------
(***************************************************************************)
(* TSequenceNumber<NumBits, uint16_t>: packet sequence numbers that wrap   *)
(* around.  The code keeps a value below 2^NumBits (NumBits = 14) and      *)
(* orders two values by their cyclic distance: the operators below are     *)
(* parameterised by the size of the space, SeqCount = 2^NumBits.           *)
(***************************************************************************)
EXTENDS Integers

CONSTANT SeqCount       \* SeqNumberCount, 16384 in the code

ASSUME SeqCountAssumption ==
    SeqCount \in Nat /\ SeqCount >= 2 /\ SeqCount % 2 = 0

SeqHalf == SeqCount \div 2                            \* SeqNumberHalf
SeqNums == 0 .. SeqCount - 1

\* The constructor masks its argument: any integer becomes a number.
ToSeq(n) == n % SeqCount

\* operator>, operator>= and the friends <, <= defined by their negations.
Greater(a, b)   == a # b /\ (a - b) % SeqCount < SeqHalf
GreaterEq(a, b) == (a - b) % SeqCount < SeqHalf
Less(a, b)      == ~ GreaterEq(a, b)

\* Variant: the sum is not masked.
Increment_Unmasked(a) == a + 1

\* operator++
Increment(a) == ToSeq(a + 1)

\* The signed distance A - B: the difference modulo SeqCount, sign-extended.
Diff(a, b) ==
    LET d == (a - b) % SeqCount
    IN  IF d < SeqHalf THEN d ELSE d - SeqCount
=============================================================================
