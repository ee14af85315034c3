--------------------------- MODULE SequenceBuffer ---------------------------
(***************************************************************************)
(* SequenceBuffer<T>: a ring of Size slots indexed by sequence % Size.     *)
(* Every slot remembers which sequence number wrote it (its tag), so that  *)
(* a lookup under any other number that maps to the same slot misses.      *)
(*                                                                         *)
(* A buffer is the record                                                  *)
(*   [sequence: greatest number inserted, tag: slot -> number or NoSeq,    *)
(*    entry: slot -> data].                                                *)
(* Operators return the new buffer; an operation that the code lets fail   *)
(* has a predicate of its own saying when it does.                         *)
(***************************************************************************)
EXTENDS SeqNum

CONSTANTS Size,      \* number of slots
          Default    \* T::default()

ASSUME SizeAssumption == Size \in Nat /\ Size >= 1

Slots == 0 .. (Size - 1)

Buffers(T) == [sequence : SeqIds, tag : [Slots -> SeqIds \cup {NoSeq}],
               entry : [Slots -> T]]

with_capacity == [sequence |-> 0,
                  tag      |-> [i \in Slots |-> NoSeq],
                  entry    |-> [i \in Slots |-> Default]]

index(s) == s % Size

exists(buf, s) == buf.tag[index(s)] = s

\* The data of a number that exists.
get(buf, s) == buf.entry[index(s)]

set(buf, s, data) == [buf EXCEPT !.entry[index(s)] = data]

clear(buf, slots) ==
  [buf EXCEPT !.tag   = [i \in Slots |-> IF i \in slots THEN NoSeq ELSE @[i]],
              !.entry = [i \in Slots |-> IF i \in slots THEN Default ELSE @[i]]]

\* remove empties the slot even when the number in it is another one.
remove(buf, s) == clear(buf, {index(s)})

\* start..=end is a range of u16: it is empty when the range wraps around.
remove_range(buf, start, end) == clear(buf, {index(s) : s \in start .. end})

\* The window starts Size numbers behind the greatest one inserted.
window_start(buf) == wrapping_sub(buf.sequence, Size)

check_sequence(buf, s) == sequence_greater_than(s, window_start(buf))

insert_too_old(buf, s) == sequence_less_than(s, window_start(buf))

\* Fault: the slots of skipped numbers are not swept.
advance_unswept(buf, s) ==
  IF sequence_greater_than(s, buf.sequence) THEN [buf EXCEPT !.sequence = s] ELSE buf

\* Fault: every number inserted becomes the greatest.
advance_always(buf, s) == [buf EXCEPT !.sequence = s]

\* The room insert makes for a number newer than all before it: whatever the
\* skipped numbers' slots hold is dropped.
advance(buf, s) ==
  IF ~ sequence_greater_than(s, buf.sequence) THEN buf
  ELSE LET first == wrapping_add(buf.sequence, 1)
           swept == IF first # s THEN remove_range(buf, first, s) ELSE buf
       IN  [swept EXCEPT !.sequence = s]

\* insert, when ~insert_too_old(buf, s).
insert(buf, s, data) ==
  LET b == advance(buf, s)
  IN  [b EXCEPT !.tag[index(s)] = s, !.entry[index(s)] = data]
=============================================================================
