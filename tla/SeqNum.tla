------------------------------- MODULE SeqNum -------------------------------
(***************************************************************************)
(* The u16 arithmetic pickleback uses for packet ids and message ids.      *)
(* The width is a parameter: the code's value of SeqMod is 65536, and all  *)
(* comparisons are relative to half of it (32768 in the code).             *)
(***************************************************************************)
EXTENDS Integers

CONSTANT SeqMod     \* number of sequence numbers: 2^16 in the code

ASSUME SeqModAssumption == SeqMod \in Nat /\ SeqMod >= 2

Half == SeqMod \div 2

SeqIds == 0 .. (SeqMod - 1)

\* The 0xFFFFFFFF tag of an empty slot: a u32 that no u16 equals.
NoSeq == SeqMod

wrapping_add(s, n) == IF s + n >= SeqMod THEN s + n - SeqMod ELSE s + n

wrapping_sub(s, n) == IF s >= n THEN s - n ELSE s + SeqMod - n

\* "s1 is newer than s2": it is ahead by no more than half the number space.
sequence_greater_than(s1, s2) ==
  \/ s1 > s2 /\ s1 - s2 <= Half
  \/ s1 < s2 /\ s2 - s1 > Half

sequence_less_than(s1, s2) == sequence_greater_than(s2, s1)
=============================================================================
