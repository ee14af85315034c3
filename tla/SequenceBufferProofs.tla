------------------------ MODULE SequenceBufferProofs ------------------------
(***************************************************************************)
(* What the operations of SequenceBuffer do to a slot, for any width of    *)
(* the numbers and any buffer size: the lemmas that the proofs about the   *)
(* packet layer and the duplicate filters rest on.                         *)
(***************************************************************************)
EXTENDS SequenceBuffer, TLAPS

\* Buffers whose numbers all belong to I.
BuffersOver(I, T) == [sequence : I, tag : [Slots -> I \cup {NoSeq}], entry : [Slots -> T]]

\* The slots that insert empties before it writes the one of s.
swept(buf, s) ==
  IF sequence_greater_than(s, buf.sequence)
    THEN {index(u) : u \in wrapping_add(buf.sequence, 1) .. s}
    ELSE {}

-----------------------------------------------------------------------------
(* Slots *)

\* Two numbers less than Size apart never share a slot.
LEMMA SlotsApart ==
  ASSUME NEW a \in Nat, NEW b \in Nat, a < b, b - a < Size
  PROVE  index(a) # index(b)
  <1> DEFINE k == (b \div Size) - (a \div Size)
  <1>1. /\ a = Size * (a \div Size) + (a % Size)
        /\ b = Size * (b \div Size) + (b % Size)
        /\ a \div Size \in Int /\ b \div Size \in Int /\ a % Size \in Int
    BY SizeAssumption
  <1> SUFFICES ASSUME a % Size = b % Size PROVE FALSE
    BY DEF index
  <1>2. k \in Int /\ Size * k = b - a
    BY <1>1, SizeAssumption
  <1> HIDE DEF k
  <1>3. CASE k <= 0
    BY <1>2, <1>3, SizeAssumption
  <1>4. CASE k >= 1
    BY <1>2, <1>4, SizeAssumption
  <1> QED
    BY <1>2, <1>3, <1>4

LEMMA IndexInSlots ==
  ASSUME NEW s \in Int
  PROVE  index(s) \in Slots
  BY SizeAssumption DEF index, Slots

LEMMA EmptyBuffer ==
  ASSUME NEW I, 0 \in I, NEW T, Default \in T
  PROVE  /\ with_capacity \in BuffersOver(I, T)
         /\ with_capacity.sequence = 0
         /\ \A i \in Slots : with_capacity.tag[i] = NoSeq
  BY DEF with_capacity, BuffersOver

LEMMA ClearSlots ==
  ASSUME NEW I, NEW T, Default \in T, NEW buf \in BuffersOver(I, T), NEW slots,
         NEW c, c = clear(buf, slots)
  PROVE  /\ c \in BuffersOver(I, T)
         /\ c.sequence = buf.sequence
         /\ \A i \in Slots : i \in slots => c.tag[i] = NoSeq /\ c.entry[i] = Default
         /\ \A i \in Slots : i \notin slots => c.tag[i] = buf.tag[i] /\ c.entry[i] = buf.entry[i]
  <1>1. c = [sequence |-> buf.sequence,
             tag   |-> [i \in Slots |-> IF i \in slots THEN NoSeq ELSE buf.tag[i]],
             entry |-> [i \in Slots |-> IF i \in slots THEN Default ELSE buf.entry[i]]]
    BY DEF clear, BuffersOver
  <1> QED
    BY <1>1 DEF BuffersOver

LEMMA AdvanceSlots ==
  ASSUME NEW I \in SUBSET Int, NEW T, Default \in T,
         NEW buf \in BuffersOver(I, T), NEW s \in I, NEW b, b = advance(buf, s)
  PROVE  /\ b \in BuffersOver(I, T)
         /\ b.sequence = IF sequence_greater_than(s, buf.sequence) THEN s ELSE buf.sequence
         /\ \A i \in Slots \ {index(s)} :
              /\ i \in swept(buf, s) => b.tag[i] = NoSeq /\ b.entry[i] = Default
              /\ i \notin swept(buf, s) => b.tag[i] = buf.tag[i] /\ b.entry[i] = buf.entry[i]
  <1> DEFINE first == wrapping_add(buf.sequence, 1)
  <1>1. CASE ~ sequence_greater_than(s, buf.sequence)
    BY <1>1 DEF advance, swept
  <1>2. CASE sequence_greater_than(s, buf.sequence) /\ first = s
    <2>1. b = [buf EXCEPT !.sequence = s]
      BY <1>2 DEF advance
    <2>2. /\ b \in BuffersOver(I, T) /\ b.sequence = s
          /\ b.tag = buf.tag /\ b.entry = buf.entry
      BY <2>1 DEF BuffersOver
    <2>3. swept(buf, s) = {index(s)}
      <3>1. s .. s = {s}
        OBVIOUS
      <3> QED
        BY <1>2, <3>1 DEF swept
    <2> QED
      BY <1>2, <2>2, <2>3
  <1>3. CASE sequence_greater_than(s, buf.sequence) /\ first # s
    <2>1. PICK c : c = clear(buf, swept(buf, s))
      OBVIOUS
    <2>2. b = [c EXCEPT !.sequence = s]
      BY <1>3, <2>1 DEF advance, remove_range, swept
    <2>3. /\ c \in BuffersOver(I, T)
          /\ \A i \in Slots : i \in swept(buf, s) => c.tag[i] = NoSeq /\ c.entry[i] = Default
          /\ \A i \in Slots : i \notin swept(buf, s) =>
               c.tag[i] = buf.tag[i] /\ c.entry[i] = buf.entry[i]
      BY <2>1, ClearSlots
    <2>4. /\ b \in BuffersOver(I, T) /\ b.sequence = s
          /\ b.tag = c.tag /\ b.entry = c.entry
      BY <2>2, <2>3 DEF BuffersOver
    <2> QED
      BY <1>3, <2>3, <2>4
  <1> QED
    BY <1>1, <1>2, <1>3

\* A buffer after insert: the new number's slot, the swept ones, the others.
LEMMA InsertSlots ==
  ASSUME NEW I \in SUBSET Int, NEW T, Default \in T,
         NEW buf \in BuffersOver(I, T), NEW s \in I, NEW data \in T,
         NEW new, new = insert(buf, s, data)
  PROVE  /\ new \in BuffersOver(I, T)
         /\ new.sequence = IF sequence_greater_than(s, buf.sequence) THEN s ELSE buf.sequence
         /\ new.tag[index(s)] = s /\ new.entry[index(s)] = data
         /\ \A i \in Slots \ {index(s)} :
              /\ i \in swept(buf, s) => new.tag[i] = NoSeq /\ new.entry[i] = Default
              /\ i \notin swept(buf, s) => new.tag[i] = buf.tag[i] /\ new.entry[i] = buf.entry[i]
  <1>1. PICK b : b = advance(buf, s)
    OBVIOUS
  <1>2. /\ b \in BuffersOver(I, T)
        /\ b.sequence = IF sequence_greater_than(s, buf.sequence) THEN s ELSE buf.sequence
        /\ \A i \in Slots \ {index(s)} :
             /\ i \in swept(buf, s) => b.tag[i] = NoSeq /\ b.entry[i] = Default
             /\ i \notin swept(buf, s) => b.tag[i] = buf.tag[i] /\ b.entry[i] = buf.entry[i]
    BY <1>1, AdvanceSlots
  <1>3. new = [sequence |-> b.sequence, tag |-> [b.tag EXCEPT ![index(s)] = s],
               entry |-> [b.entry EXCEPT ![index(s)] = data]]
    BY <1>1, <1>2 DEF insert, BuffersOver
  <1>4. index(s) \in Slots
    BY IndexInSlots
  <1>5. new \in BuffersOver(I, T) /\ new.sequence = b.sequence
    BY <1>2, <1>3, <1>4 DEF BuffersOver
  <1>6. new.tag[index(s)] = s /\ new.entry[index(s)] = data
    BY <1>2, <1>3, <1>4 DEF BuffersOver
  <1>7. \A i \in Slots \ {index(s)} : new.tag[i] = b.tag[i] /\ new.entry[i] = b.entry[i]
    BY <1>2, <1>3 DEF BuffersOver
  <1> QED
    BY <1>2, <1>5, <1>6, <1>7

-----------------------------------------------------------------------------
(* Inside an epoch: numbers up to M, with M + Size below half the space *)

LEMMA HalfFacts == SeqMod \in Nat /\ Half \in Nat /\ 2 * Half <= SeqMod
  BY SeqModAssumption DEF Half

\* The wrapping comparison is the ordinary one.
LEMMA EpochGreater ==
  ASSUME NEW M \in Nat, M < Half, NEW s \in 0 .. M, NEW t \in 0 .. M
  PROVE  sequence_greater_than(s, t) <=> s > t
  BY HalfFacts DEF sequence_greater_than

\* The window check is the ordinary one too, also while the window starts below
\* zero and window_start wraps around.
LEMMA EpochWindow ==
  ASSUME NEW M \in Nat, M + Size < Half, NEW s \in 0 .. M,
         NEW buf, buf.sequence \in 0 .. M
  PROVE  /\ check_sequence(buf, s) <=> s + Size > buf.sequence
         /\ insert_too_old(buf, s) <=> s + Size < buf.sequence
  BY HalfFacts, SizeAssumption
     DEF check_sequence, insert_too_old, window_start, wrapping_sub,
         sequence_less_than, sequence_greater_than

\* An insert inside the window: the greatest number is kept track of, ...
LEMMA EpochInsert ==
  ASSUME NEW M \in Nat, M + Size < Half, NEW T, Default \in T,
         NEW buf \in BuffersOver(0 .. M, T), NEW s \in 0 .. M, NEW data \in T,
         NEW new, new = insert(buf, s, data)
  PROVE  /\ new \in BuffersOver(0 .. M, T)
         /\ new.sequence = IF s > buf.sequence THEN s ELSE buf.sequence
         /\ new.tag[index(s)] = s /\ new.entry[index(s)] = data
         /\ \A i \in Slots \ {index(s)} :
              \/ new.tag[i] = NoSeq
              \/ new.tag[i] = buf.tag[i] /\ new.entry[i] = buf.entry[i]
  <1>1. 0 .. M \in SUBSET Int /\ M < Half
    BY HalfFacts, SizeAssumption
  <1>2. buf.sequence \in 0 .. M
    BY DEF BuffersOver
  <1>3. sequence_greater_than(s, buf.sequence) <=> s > buf.sequence
    BY <1>1, <1>2, EpochGreater
  <1> QED
    BY <1>1, <1>3, InsertSlots

\* ... and every other number still inside the window keeps its slot.
LEMMA EpochInsertKeepsIn ==
  ASSUME NEW M \in Nat, M + Size < Half, NEW T, Default \in T,
         NEW buf \in BuffersOver(0 .. M, T), NEW s \in 0 .. M, NEW data \in T,
         NEW new, new = insert(buf, s, data), s + Size > buf.sequence,
         NEW t \in 0 .. M, t # s, t <= buf.sequence, t + Size > new.sequence
  PROVE  new.tag[index(t)] = buf.tag[index(t)] /\ new.entry[index(t)] = buf.entry[index(t)]
  <1>1. 0 .. M \in SUBSET Int /\ M < Half
    BY HalfFacts, SizeAssumption
  <1>2. buf.sequence \in 0 .. M
    BY DEF BuffersOver
  <1>3. sequence_greater_than(s, buf.sequence) <=> s > buf.sequence
    BY <1>1, <1>2, EpochGreater
  <1>4. new.sequence = IF s > buf.sequence THEN s ELSE buf.sequence
    BY EpochInsert
  <1>5. index(t) \in Slots
    BY IndexInSlots
  <1>6. index(t) # index(s)
    <2>1. CASE t < s
      BY <1>2, <1>4, <2>1, SlotsApart, SizeAssumption
    <2>2. CASE t > s
      BY <1>2, <1>4, <2>2, SlotsApart, SizeAssumption
    <2> QED
      BY <2>1, <2>2
  <1>7. index(t) \notin swept(buf, s)
    <2> SUFFICES ASSUME s > buf.sequence, NEW u \in wrapping_add(buf.sequence, 1) .. s
                 PROVE  index(t) # index(u)
      BY <1>3 DEF swept
    <2>1. wrapping_add(buf.sequence, 1) = buf.sequence + 1
      BY <1>1, <1>2, HalfFacts DEF wrapping_add
    <2>2. u \in Nat /\ t < u /\ u - t < Size
      BY <1>2, <1>4, <2>1, SizeAssumption
    <2> QED
      BY <2>2, SlotsApart
  <1> QED
    BY <1>1, <1>5, <1>6, <1>7, InsertSlots

\* The same for entries of any type, whether the empty slots' entry belongs to it
\* or not.
LEMMA EpochInsertKeeps ==
  ASSUME NEW M \in Nat, M + Size < Half, NEW T,
         NEW buf \in BuffersOver(0 .. M, T), NEW s \in 0 .. M, NEW data \in T,
         NEW new, new = insert(buf, s, data), s + Size > buf.sequence,
         NEW t \in 0 .. M, t # s, t <= buf.sequence, t + Size > new.sequence
  PROVE  new.tag[index(t)] = buf.tag[index(t)] /\ new.entry[index(t)] = buf.entry[index(t)]
  <1>1. PICK U : Default \in U /\ data \in U /\ buf \in BuffersOver(0 .. M, U)
    <2>1. /\ Default \in T \cup {Default} /\ data \in T \cup {Default}
          /\ buf \in BuffersOver(0 .. M, T \cup {Default})
      BY DEF BuffersOver
    <2> QED BY <2>1
  <1> QED
    BY <1>1, EpochInsertKeepsIn

-----------------------------------------------------------------------------
(* A buffer that only ever takes newer numbers *)

\* Every number is in its own slot and less than Size behind the greatest one.
InWindow(buf) ==
  \A i \in Slots : buf.tag[i] # NoSeq =>
    /\ i = index(buf.tag[i])
    /\ buf.tag[i] <= buf.sequence /\ buf.tag[i] + Size > buf.sequence

LEMMA EmptyWindow == InWindow(with_capacity)
  BY DEF with_capacity, InWindow

\* The numbers that fall out of the window share their slot with one of the
\* numbers that come into it.
LEMMA SlotAgain ==
  ASSUME NEW t \in Nat
  PROVE  index(t + Size) = index(t)
  <1>1. /\ t = Size * (t \div Size) + (t % Size) /\ t % Size \in 0 .. Size - 1
        /\ t \div Size \in Nat
    BY SizeAssumption
  <1>2. PICK d, r : d = t \div Size /\ r = t % Size
    OBVIOUS
  <1>3. t + Size = Size * (d + 1) + r
    BY <1>1, <1>2, SizeAssumption
  <1>4. /\ t + Size = Size * ((t + Size) \div Size) + ((t + Size) % Size)
        /\ (t + Size) % Size \in 0 .. Size - 1 /\ (t + Size) \div Size \in Int
    BY SizeAssumption
  <1>5. PICK e, u : e = (t + Size) \div Size /\ u = (t + Size) % Size
    OBVIOUS
  <1>6. /\ Size * (d + 1) + r = Size * e + u /\ d \in Int /\ e \in Int
        /\ r \in 0 .. Size - 1 /\ u \in 0 .. Size - 1
    BY <1>1, <1>2, <1>3, <1>4, <1>5
  <1>7. Size * ((d + 1) - e) = u - r
    BY <1>6, SizeAssumption
  <1>8. PICK k \in Int : k = (d + 1) - e
    BY <1>6
  <1>9. Size * k = u - r
    BY <1>7, <1>8
  <1>10. k = 0
    <2>1. CASE k >= 1
      <3>1. Size * k >= Size
        BY <2>1, SizeAssumption
      <3> QED
        BY <1>6, <1>9, <3>1, SizeAssumption
    <2>2. CASE k <= -1
      <3>1. Size * k <= -Size
        BY <2>2, SizeAssumption
      <3> QED
        BY <1>6, <1>9, <3>1, SizeAssumption
    <2> QED
      BY <2>1, <2>2
  <1>11. u = r
    BY <1>6, <1>9, <1>10, SizeAssumption
  <1> QED
    BY <1>2, <1>5, <1>11 DEF index

LEMMA NewerInWindow ==
  ASSUME NEW M \in Nat, M + Size < Half, NEW T, Default \in T,
         NEW buf \in BuffersOver(0 .. M, T), InWindow(buf),
         NEW s \in 0 .. M, s >= buf.sequence, NEW data \in T,
         NEW new, new = insert(buf, s, data)
  PROVE  InWindow(new) /\ new.sequence = s
  <1>1. 0 .. M \in SUBSET Int /\ M < Half /\ buf.sequence \in 0 .. M
    BY HalfFacts, SizeAssumption DEF BuffersOver
  <1>2. new.sequence = s /\ new.tag[index(s)] = s
    BY <1>1, EpochInsert
  <1>3. sequence_greater_than(s, buf.sequence) <=> s > buf.sequence
    BY <1>1, EpochGreater
  <1>4. wrapping_add(buf.sequence, 1) = buf.sequence + 1
    BY <1>1, HalfFacts DEF wrapping_add
  <1>5. \A i \in Slots \ {index(s)} :
          /\ i \in swept(buf, s) => new.tag[i] = NoSeq
          /\ i \notin swept(buf, s) => new.tag[i] = buf.tag[i]
    <2>1. PICK I : I = 0 .. M
      OBVIOUS
    <2>2. I \in SUBSET Int /\ buf \in BuffersOver(I, T) /\ s \in I
      BY <1>1, <2>1
    <2> QED
      BY <2>2, InsertSlots
  <1>6. ASSUME NEW i \in Slots, new.tag[i] # NoSeq
        PROVE  /\ i = index(new.tag[i])
               /\ new.tag[i] <= new.sequence /\ new.tag[i] + Size > new.sequence
    <2>1. CASE i = index(s)
      BY <1>2, <2>1, SizeAssumption
    <2>2. CASE i # index(s)
      <3>1. i \notin swept(buf, s) /\ new.tag[i] = buf.tag[i]
        BY <1>5, <1>6, <2>2
      <3>2. PICK t : t = buf.tag[i]
        OBVIOUS
      <3>3. /\ t \in 0 .. M /\ i = index(t) /\ t <= buf.sequence /\ t + Size > buf.sequence
        BY <1>6, <3>1, <3>2 DEF InWindow, BuffersOver
      <3>4. t + Size > s
        <4> SUFFICES ASSUME t + Size <= s PROVE FALSE
          BY <3>3, SizeAssumption
        <4>1. s > buf.sequence /\ t + Size \in buf.sequence + 1 .. s
          BY <1>1, <3>3, SizeAssumption
        <4>2. index(t + Size) \in swept(buf, s)
          BY <1>3, <1>4, <4>1 DEF swept
        <4> QED
          BY <3>1, <3>3, <4>2, SlotAgain
      <3> QED
        BY <1>1, <1>2, <3>1, <3>2, <3>3, <3>4
    <2> QED
      BY <2>1, <2>2
  <1> QED
    BY <1>2, <1>6 DEF InWindow

-----------------------------------------------------------------------------
(* A duplicate filter inside an epoch *)

\* A number that a duplicate filter refuses: too old, or held.
Refuses(buf, t) == ~ (check_sequence(buf, t) /\ ~ exists(buf, t))

\* Buffers that hold no number beyond their newest.
FiltersOver(M, T) ==
  {buf \in BuffersOver(0 .. M, T) : \A i \in Slots : buf.tag[i] # NoSeq => buf.tag[i] <= buf.sequence}

\* What was refused stays refused, what is taken is refused from then on, and
\* nothing else comes to be held.
LEMMA FilterInsert ==
  ASSUME NEW M \in Nat, M + Size < Half, NEW T, Default \in T,
         NEW buf \in FiltersOver(M, T), NEW s \in 0 .. M, ~ Refuses(buf, s), NEW data \in T,
         NEW new, new = insert(buf, s, data)
  PROVE  /\ new \in FiltersOver(M, T)
         /\ Refuses(new, s)
         /\ \A t \in 0 .. M : Refuses(buf, t) => Refuses(new, t)
         /\ \A t \in 0 .. M : exists(new, t) => t = s \/ exists(buf, t)
         /\ new.sequence \in {s, buf.sequence}
  <1>1. buf \in BuffersOver(0 .. M, T)
    BY DEF FiltersOver
  <1>2. /\ new \in BuffersOver(0 .. M, T)
        /\ new.sequence = IF s > buf.sequence THEN s ELSE buf.sequence
        /\ new.tag[index(s)] = s
        /\ \A i \in Slots \ {index(s)} :
             \/ new.tag[i] = NoSeq
             \/ new.tag[i] = buf.tag[i] /\ new.entry[i] = buf.entry[i]
    BY <1>1, EpochInsert
  <1>3. buf.sequence \in 0 .. M /\ new.sequence \in 0 .. M
    BY <1>1, <1>2 DEF BuffersOver
  <1>4. ASSUME NEW b, b.sequence \in 0 .. M, NEW t \in 0 .. M
        PROVE  check_sequence(b, t) <=> t + Size > b.sequence
    BY <1>4, EpochWindow
  <1>5. s + Size > buf.sequence
    BY <1>3, <1>4 DEF Refuses
  <1>6. \A t \in 0 .. M : index(t) \in Slots /\ t # NoSeq
    BY HalfFacts, SizeAssumption, IndexInSlots DEF NoSeq
  <1>7. ASSUME NEW i \in Slots, new.tag[i] # NoSeq PROVE new.tag[i] <= new.sequence
    <2>1. CASE i = index(s)
      BY <1>2, <1>3, <2>1
    <2>2. CASE i # index(s)
      <3>1. new.tag[i] = buf.tag[i] /\ buf.tag[i] <= buf.sequence /\ buf.tag[i] \in 0 .. M
        BY <1>1, <1>2, <1>7, <2>2 DEF FiltersOver, BuffersOver
      <3> QED
        BY <1>2, <1>3, <3>1
    <2> QED
      BY <2>1, <2>2
  <1>8. new \in FiltersOver(M, T)
    BY <1>2, <1>7 DEF FiltersOver
  <1>9. Refuses(new, s)
    BY <1>2 DEF Refuses, exists
  <1>10. ASSUME NEW t \in 0 .. M, Refuses(buf, t) PROVE Refuses(new, t)
    <2>1. t # s
      BY <1>10
    <2>2. CASE ~ t + Size > new.sequence
      BY <1>3, <1>4, <2>2 DEF Refuses
    <2>3. CASE t + Size > new.sequence
      <3>1. t + Size > buf.sequence
        BY <1>2, <1>3, <2>3, SizeAssumption
      <3>2. exists(buf, t)
        BY <1>3, <1>4, <1>10, <3>1 DEF Refuses
      <3>3. t <= buf.sequence
        BY <1>6, <3>2 DEF FiltersOver, exists
      <3>4. new.tag[index(t)] = buf.tag[index(t)]
        BY <1>1, <1>5, <2>1, <2>3, <3>3, EpochInsertKeeps
      <3> QED
        BY <3>2, <3>4 DEF Refuses, exists
    <2> QED
      BY <2>2, <2>3
  <1>11. ASSUME NEW t \in 0 .. M, exists(new, t), t # s PROVE exists(buf, t)
    <2>1. index(t) # index(s)
      BY <1>2, <1>11 DEF exists
    <2> QED
      BY <1>2, <1>6, <1>11, <2>1 DEF exists
  <1> QED
    BY <1>2, <1>8, <1>9, <1>10, <1>11
=============================================================================
