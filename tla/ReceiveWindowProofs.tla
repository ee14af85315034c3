------------------------ MODULE ReceiveWindowProofs ------------------------
(***************************************************************************)
(* The duplicate filter is exact across the wrap of the u16 numbers, for   *)
(* any number of numbers, when the ring size divides the number space (as  *)
(* the 512 slots of received_buffer do).                                   *)
(***************************************************************************)
EXTENDS ReceiveWindow, SequenceBufferProofs

\* A slot has the same numbers in every round of the number space.
ASSUME AlignedAssumption == SeqMod % Size = 0

\* Arrivals stay within half the number space of the start of the window: the
\* comparisons cannot tell anything further away.
ASSUME ReachAssumption == Size + MaxAhead < Half /\ MaxLate < Half + Size

\* The last number before n, or n itself, that is 0 on the wire.
round(n) == SeqMod * (n \div SeqMod)

\* The slots of the numbers from a to b.
stretch(a, b) == {index(k) : k \in a .. b}

Flags == {TRUE, Default}

WindowTypes ==
  /\ received_buffer \in BuffersOver(SeqIds, Flags)
  /\ newest \in Nat
  /\ accepted \subseteq Nat

\* The window holds every number accepted that is inside it.
AcceptedHeld ==
  \A n \in accepted :
    /\ n <= newest /\ newest - n <= MaxLate
    /\ newest - n < Size => exists(received_buffer, wire(n))

\* Whose number a slot holds: m, accepted inside the window, or an older m that
\* insert did not sweep because the newest number jumped over the wrap, and
\* over u, the slot's number inside the window, at once (remove_range of a
\* range that wraps around is empty).
Traced(i, m, u) ==
  /\ received_buffer.tag[i] = wire(m)
  /\ index(m) = i /\ index(u) = i
  /\ u <= newest /\ newest - u < Size
  /\ \/ m = u /\ (newest - m <= MaxLate => m \in accepted)
     \/ m < u /\ u - m < MaxAhead + Size /\ m < round(newest)

TagsTraced ==
  \A i \in Slots : received_buffer.tag[i] # NoSeq =>
    \E m \in 0 .. newest, u \in 0 .. newest : Traced(i, m, u)

WindowInv == WindowTypes /\ WindowFollowsNewest /\ AcceptedHeld /\ TagsTraced

-----------------------------------------------------------------------------
(* Numbers on the wire *)

LEMMA WireFacts ==
  ASSUME NEW n \in Nat
  PROVE  /\ wire(n) \in SeqIds /\ wire(n) \in Nat
         /\ n \div SeqMod \in Nat /\ round(n) \in Nat
         /\ n = round(n) + wire(n)
  BY SeqModAssumption DEF wire, SeqIds, round

\* The same, for a proof to pick the round's index and the number on the wire.
LEMMA WireSplit ==
  ASSUME NEW n \in Nat
  PROVE  \E p \in Int, a \in SeqIds :
           a = wire(n) /\ round(n) = SeqMod * p /\ n = SeqMod * p + a
  <1>1. /\ wire(n) \in SeqIds /\ n \div SeqMod \in Int
        /\ n = SeqMod * (n \div SeqMod) + wire(n)
    BY WireFacts DEF round
  <1> QED
    BY <1>1 DEF round

LEMMA Constants ==
  /\ SeqMod \in Nat /\ SeqMod >= 2 /\ Half \in Nat /\ 2 * Half <= SeqMod
  /\ Size \in Nat /\ Size >= 1 /\ MaxLate \in Nat /\ MaxAhead \in Nat \ {0}
  /\ Size + MaxAhead < Half /\ MaxLate < Half + Size
  BY HalfFacts, SeqModAssumption, SizeAssumption, BoundsAssumption, ReachAssumption

\* Division with remainder has one remainder.
LEMMA RemainderUnique ==
  ASSUME NEW N \in Nat, N >= 1, NEW q1 \in Int, NEW q2 \in Int,
         NEW r1 \in 0 .. N - 1, NEW r2 \in 0 .. N - 1, N * q1 + r1 = N * q2 + r2
  PROVE  r1 = r2
  <1>1. PICK d \in Int : d = q1 - q2
    OBVIOUS
  <1>2. N * d = r2 - r1
    BY <1>1
  <1>3. CASE d >= 1
    BY <1>2, <1>3
  <1>4. CASE d <= -1
    <2>1. N * d <= - N
      BY <1>4
    <2> QED
      BY <1>2, <2>1
  <1>5. CASE d = 0
    BY <1>2, <1>5
  <1> QED
    BY <1>3, <1>4, <1>5

\* A whole number of turns around the ring does not change the slot, ...
LEMMA TurnSlot ==
  ASSUME NEW a \in Nat, NEW c \in Nat
  PROVE  index(a + Size * c) = index(a)
  <1>1. PICK q \in Int, r \in 0 .. Size - 1 : a = Size * q + r /\ r = a % Size
    BY SizeAssumption
  <1>2. Size * c \in Nat
    BY SizeAssumption
  <1>3. PICK b \in Nat : b = a + Size * c
    BY <1>2
  <1>4. PICK z \in Int : b = Size * z + r
    <2>1. \A n, x, y, w \in Int : (n * x + w) + n * y = n * (x + y) + w
      OBVIOUS
    <2>2. a = Size * q + r
      BY <1>1
    <2>3. b = (Size * q + r) + Size * c
      BY <1>3, <2>2
    <2>4. Size \in Int /\ r \in Int
      BY SizeAssumption
    <2>5. b = Size * (q + c) + r
      BY <2>1, <2>3, <2>4
    <2> QED
      BY <2>5
  <1>5. PICK p \in Int, s \in 0 .. Size - 1 : b = Size * p + s /\ s = b % Size
    BY <1>3, SizeAssumption
  <1>6. r = s
    BY <1>4, <1>5, RemainderUnique, SizeAssumption
  <1> QED
    BY <1>1, <1>3, <1>5, <1>6 DEF index

\* ... and neither does a whole number of rounds of the number space.
LEMMA RoundSlot ==
  ASSUME NEW a \in Nat, NEW j \in Nat
  PROVE  index(a + SeqMod * j) = index(a)
  <1>1. PICK k \in Nat : SeqMod = Size * k
    <2>1. /\ SeqMod = Size * (SeqMod \div Size) + (SeqMod % Size)
          /\ SeqMod \div Size \in Nat
      BY SeqModAssumption, SizeAssumption
    <2>2. SeqMod = Size * (SeqMod \div Size)
      BY <2>1, AlignedAssumption, SizeAssumption
    <2> QED
      BY <2>1, <2>2
  <1>2. k * j \in Nat /\ SeqMod * j = Size * (k * j)
    BY <1>1, SizeAssumption
  <1> QED
    BY <1>2, TurnSlot

LEMMA WireSlot ==
  ASSUME NEW n \in Nat
  PROVE  index(wire(n)) = index(n)
  BY WireFacts, RoundSlot DEF round

\* Comparing on the wire is comparing, for numbers less than half the space apart.
LEMMA WireOrder ==
  ASSUME NEW a \in SeqIds, NEW b \in SeqIds, NEW k \in Int, NEW d \in Int,
         d = a - b + SeqMod * k, d < Half, d > - Half
  PROVE  sequence_greater_than(a, b) <=> d > 0
  <1>1. CASE k >= 2
    BY <1>1, Constants DEF SeqIds
  <1>2. CASE k <= -2
    BY <1>2, Constants DEF SeqIds
  <1>3. CASE k \in {-1, 0, 1}
    BY <1>3, Constants DEF SeqIds, sequence_greater_than
  <1> QED
    BY <1>1, <1>2, <1>3

\* Every Size numbers in a row have one for each slot.
LEMMA SlotInWindow ==
  ASSUME NEW y \in Nat, NEW m \in Nat, m <= y
  PROVE  \E u \in 0 .. y : index(u) = index(m) /\ y - u < Size /\ m <= u
  <1>1. PICK r \in 0 .. Size - 1, q \in Nat : y - m = Size * q + r
    <2>1. y - m \in Nat
      OBVIOUS
    <2>2. /\ y - m = Size * ((y - m) \div Size) + ((y - m) % Size)
          /\ (y - m) % Size \in 0 .. Size - 1 /\ (y - m) \div Size \in Nat
      BY <2>1, SizeAssumption
    <2> QED
      BY <2>2
  <1>2. Size * q \in Nat
    BY SizeAssumption
  <1>3. y - r = m + Size * q /\ y - r \in 0 .. y /\ m <= y - r /\ y - (y - r) < Size
    BY <1>1, <1>2, SizeAssumption
  <1>4. index(y - r) = index(m)
    BY <1>3, TurnSlot
  <1> QED
    BY <1>3, <1>4

-----------------------------------------------------------------------------
(* The window in terms of the sender's numbers *)
\* The distance of two numbers, from their forms on the wire.
LEMMA WireDistance ==
  ASSUME NEW n \in Nat, NEW x \in Nat
  PROVE  \E k \in Int : n - x = wire(n) - wire(x) + SeqMod * k
  <1>1. PICK p \in Int, a \in SeqIds : a = wire(n) /\ n = SeqMod * p + a
    BY WireSplit
  <1>2. PICK q \in Int, b \in SeqIds : b = wire(x) /\ x = SeqMod * q + b
    BY WireSplit
  <1>3. \A N, u, v, c, d \in Int : (N * u + c) - (N * v + d) = c - d + N * (u - v)
    OBVIOUS
  <1>4. SeqMod \in Int /\ a \in Int /\ b \in Int
    BY SeqModAssumption DEF SeqIds
  <1>5. (SeqMod * p + a) - (SeqMod * q + b) = a - b + SeqMod * (p - q)
    BY <1>3, <1>4
  <1>6. n - x = a - b + SeqMod * (p - q) /\ p - q \in Int
    BY <1>1, <1>2, <1>5
  <1> QED
    BY <1>1, <1>2, <1>6

\* Arrivals inside the window, and no others, pass the check against its start.
LEMMA WindowCheck ==
  ASSUME NEW x \in Nat, NEW n \in Nat, x - n <= MaxLate, n - x <= MaxAhead,
         NEW buf, buf.sequence = wire(x)
  PROVE  check_sequence(buf, wire(n)) <=> n + Size > x
  <1>1. PICK a : a = wire(n)
    OBVIOUS
  <1>2. PICK b : b = wire(x)
    OBVIOUS
  <1>3. a \in SeqIds /\ b \in SeqIds
    BY <1>1, <1>2, WireFacts
  <1>4. PICK k \in Int : n - x = a - b + SeqMod * k
    BY <1>1, <1>2, WireDistance
  <1>5. PICK t : t = wrapping_sub(b, Size)
    OBVIOUS
  <1>6. PICK j \in Int : t \in SeqIds /\ n - x + Size = a - t + SeqMod * j
    <2>1. CASE b >= Size
      <3>1. t = b - Size
        BY <1>5, <2>1 DEF wrapping_sub
      <3>2. t \in SeqIds /\ n - x + Size = a - t + SeqMod * k
        BY <1>3, <1>4, <2>1, <3>1, Constants DEF SeqIds
      <3> QED
        BY <3>2
    <2>2. CASE b < Size
      <3>1. t = b + SeqMod - Size
        BY <1>3, <1>5, <2>2, Constants DEF wrapping_sub, SeqIds
      <3>2. SeqMod * (k + 1) = SeqMod * k + SeqMod
        BY Constants
      <3>3. t \in SeqIds /\ n - x + Size = a - t + SeqMod * (k + 1)
        BY <1>3, <1>4, <2>2, <3>1, <3>2, Constants DEF SeqIds
      <3> QED
        BY <3>3
    <2> QED
      BY <1>3, <2>1, <2>2, Constants DEF SeqIds
  <1>7. PICK d \in Int : d = n - x + Size /\ d < Half /\ d > - Half
    BY Constants
  <1>8. sequence_greater_than(a, t) <=> d > 0
    BY <1>3, <1>6, <1>7, WireOrder
  <1> QED
    BY <1>1, <1>2, <1>5, <1>7, <1>8, Constants DEF check_sequence, window_start

\* Inside the window, newer on the wire is newer.
LEMMA NewerCheck ==
  ASSUME NEW x \in Nat, NEW n \in Nat, n + Size > x, n - x <= MaxAhead
  PROVE  sequence_greater_than(wire(n), wire(x)) <=> n > x
  <1>1. PICK k \in Int : n - x = wire(n) - wire(x) + SeqMod * k
    BY WireDistance
  <1>2. wire(n) \in SeqIds /\ wire(x) \in SeqIds
    BY WireFacts
  <1>3. PICK d \in Int : d = n - x /\ d < Half /\ d > - Half
    BY Constants
  <1>4. sequence_greater_than(wire(n), wire(x)) <=> d > 0
    BY <1>1, <1>2, <1>3, WireOrder
  <1> QED
    BY <1>3, <1>4

\* Numbers less than the number space apart differ on the wire.
LEMMA WireUnique ==
  ASSUME NEW n \in Nat, NEW m \in Nat, wire(n) = wire(m), n - m < SeqMod, m - n < SeqMod
  PROVE  n = m
  <1>1. PICK k \in Int : n - m = wire(n) - wire(m) + SeqMod * k
    BY WireDistance
  <1>2. n - m = SeqMod * k
    <2>1. PICK a \in Int : a = wire(n) /\ a = wire(m)
      BY WireFacts
    <2>2. n - m = (a - a) + SeqMod * k
      BY <1>1, <2>1
    <2> QED
      BY <2>2, Constants
  <1>3. CASE k >= 1
    BY <1>2, <1>3, Constants
  <1>4. CASE k <= -1
    <2>1. SeqMod * k <= - SeqMod
      BY <1>4, Constants
    <2> QED
      BY <1>2, <2>1, Constants
  <1>5. CASE k = 0
    BY <1>2, <1>5, Constants
  <1> QED
    BY <1>3, <1>4, <1>5

\* A later number less than the number space away is in the same round or the next.
LEMMA NextRound ==
  ASSUME NEW x \in Nat, NEW n \in Nat, x <= n, n - x < SeqMod
  PROVE  round(n) = round(x) \/ round(n) = round(x) + SeqMod
  <1>1. PICK p \in Int, a \in SeqIds : n = SeqMod * p + a /\ round(n) = SeqMod * p
    BY WireSplit
  <1>2. PICK q \in Int, b \in SeqIds : x = SeqMod * q + b /\ round(x) = SeqMod * q
    BY WireSplit
  <1>3. PICK k \in Int : k = p - q
    OBVIOUS
  <1>4. SeqMod * p = SeqMod * q + SeqMod * k
    BY <1>3, Constants
  <1>5. n - x = a - b + SeqMod * k
    BY <1>1, <1>2, <1>4, Constants DEF SeqIds
  <1>6. CASE k >= 2
    <2>1. SeqMod * k >= 2 * SeqMod
      BY <1>6, Constants
    <2> QED
      BY <1>5, <2>1, Constants DEF SeqIds
  <1>7. CASE k <= -1
    <2>1. SeqMod * k <= - SeqMod
      BY <1>7, Constants
    <2> QED
      BY <1>5, <2>1, Constants DEF SeqIds
  <1>8. CASE k \in {0, 1}
    BY <1>1, <1>2, <1>4, <1>8, Constants
  <1> QED
    BY <1>6, <1>7, <1>8

\* A stretch of numbers occupies the slots of its numbers on the wire.
LEMMA StretchSlots ==
  ASSUME NEW n \in Nat, NEW f \in Nat, NEW t \in Nat, NEW R, R = round(n)
  PROVE  stretch(f, t) = stretch(R + f, R + t)
  <1>1. R \in Nat /\ \A u \in Nat : index(R + u) = index(u)
    <2>1. n \div SeqMod \in Nat /\ R = SeqMod * (n \div SeqMod) /\ R \in Nat
      BY WireFacts DEF round
    <2>2. \A u \in Nat : index(u + R) = index(u)
      BY <2>1, RoundSlot
    <2>3. \A u \in Nat : u + R = R + u
      BY <2>1
    <2> QED
      BY <2>1, <2>2, <2>3
  <1>2. ASSUME NEW u \in f .. t
        PROVE  index(u) \in stretch(R + f, R + t)
    <2>1. R + u \in R + f .. R + t /\ index(R + u) = index(u)
      BY <1>1
    <2> QED
      BY <2>1 DEF stretch
  <1>3. ASSUME NEW k \in R + f .. R + t
        PROVE  index(k) \in stretch(f, t)
    <2>1. k - R \in f .. t /\ k = R + (k - R)
      BY <1>1
    <2>2. index(k) = index(k - R)
      BY <1>1, <2>1
    <2> QED
      BY <2>1, <2>2 DEF stretch
  <1>4. ASSUME NEW i \in stretch(f, t) PROVE i \in stretch(R + f, R + t)
    <2>1. PICK u \in f .. t : i = index(u)
      BY DEF stretch
    <2> QED
      BY <1>2, <2>1
  <1>5. ASSUME NEW i \in stretch(R + f, R + t) PROVE i \in stretch(f, t)
    <2>1. PICK k \in R + f .. R + t : i = index(k)
      BY DEF stretch
    <2> QED
      BY <1>3, <2>1
  <1> QED
    BY <1>4, <1>5

\* insert sweeps the numbers it skips, all of them or, when they wrap around, none.
LEMMA SweptNumbers ==
  ASSUME NEW x \in Nat, NEW n \in Nat, x < n, n - x <= MaxAhead,
         NEW buf, buf.sequence = wire(x)
  PROVE  /\ round(n) <= x + 1 => swept(buf, wire(n)) = stretch(x + 1, n)
         /\ round(n) > x + 1 => swept(buf, wire(n)) = {}
  <1>1. sequence_greater_than(wire(n), buf.sequence)
    BY NewerCheck, Constants
  <1>2. PICK a, b, R, S : /\ a = wire(n) /\ b = wire(x) /\ R = round(x) /\ S = round(n)
                          /\ R \in Nat /\ S \in Nat /\ a \in SeqIds /\ b \in SeqIds
                          /\ x = R + b /\ n = S + a
    BY WireFacts
  <1>3. S = R \/ S = R + SeqMod
    BY <1>2, NextRound, Constants
  <1>4. swept(buf, wire(n)) = stretch(wrapping_add(b, 1), a)
    BY <1>1, <1>2 DEF swept, stretch
  <1>5. CASE S = R
    <2>1. wrapping_add(b, 1) = b + 1 /\ b + 1 \in Nat /\ a \in Nat /\ S <= x + 1
      BY <1>2, <1>5, Constants DEF wrapping_add, SeqIds
    <2>2. R + (b + 1) = x + 1 /\ R + a = n
      BY <1>2, <1>5, Constants DEF SeqIds
    <2>3. stretch(b + 1, a) = stretch(R + (b + 1), R + a)
      BY <1>2, <2>1, StretchSlots
    <2> QED
      BY <1>2, <1>4, <2>1, <2>2, <2>3
  <1>6. CASE S = R + SeqMod /\ b = SeqMod - 1
    <2>1. wrapping_add(b, 1) = 0 /\ a \in Nat /\ S <= x + 1
      BY <1>2, <1>6, Constants DEF wrapping_add, SeqIds
    <2>2. S + 0 = x + 1 /\ S + a = n
      BY <1>2, <1>6, Constants DEF SeqIds
    <2>3. stretch(0, a) = stretch(S + 0, S + a)
      BY <1>2, <2>1, StretchSlots
    <2> QED
      BY <1>2, <1>4, <2>1, <2>2, <2>3
  <1>7. CASE S = R + SeqMod /\ b # SeqMod - 1
    <2>1. wrapping_add(b, 1) = b + 1 /\ b + 1 > a /\ S > x + 1
      BY <1>2, <1>7, Constants DEF wrapping_add, SeqIds
    <2>2. wrapping_add(b, 1) .. a = {}
      BY <1>2, <2>1 DEF SeqIds
    <2> QED
      BY <1>2, <1>4, <2>1, <2>2, Constants DEF stretch
  <1> QED
    BY <1>3, <1>5, <1>6, <1>7

-----------------------------------------------------------------------------
(* The invariant *)

LEMMA WindowInit == Init => WindowInv
  <1> SUFFICES ASSUME Init PROVE WindowInv
    OBVIOUS
  <1>1. 0 \in SeqIds /\ wire(0) = 0
    BY Constants DEF SeqIds, wire
  <1>2. /\ received_buffer \in BuffersOver(SeqIds, Flags)
        /\ received_buffer.sequence = 0
        /\ \A i \in Slots : received_buffer.tag[i] = NoSeq
    BY <1>1, EmptyBuffer DEF Init, Flags
  <1> QED
    BY <1>1, <1>2 DEF Init, WindowInv, WindowTypes, WindowFollowsNewest, AcceptedHeld, TagsTraced

\* Accepting a number, slot by slot.
LEMMA AcceptSlots ==
  ASSUME WindowInv, NEW n \in Nat, Accept(n)
  PROVE  /\ n + Size > newest /\ n - newest <= MaxAhead /\ newest - n <= MaxLate
         /\ newest' = (IF n > newest THEN n ELSE newest) /\ newest' \in Nat
         /\ received_buffer' \in BuffersOver(SeqIds, Flags)
         /\ received_buffer'.sequence = wire(newest')
         /\ received_buffer'.tag[index(n)] = wire(n)
         /\ \A i \in Slots \ {index(n)} :
              /\ i \in swept(received_buffer, wire(n)) => received_buffer'.tag[i] = NoSeq
              /\ i \notin swept(received_buffer, wire(n)) => received_buffer'.tag[i] = received_buffer.tag[i]
         /\ n <= newest => swept(received_buffer, wire(n)) = {}
         /\ n > newest =>
              swept(received_buffer, wire(n)) =
                IF round(n) <= newest + 1 THEN stretch(newest + 1, n) ELSE {}
  <1>1. /\ newest \in Nat /\ newest - n <= MaxLate /\ n - newest <= MaxAhead
        /\ received_buffer.sequence = wire(newest)
        /\ received_buffer \in BuffersOver(SeqIds, Flags)
    BY Constants DEF WindowInv, WindowTypes, WindowFollowsNewest, Accept, InFlight
  <1>2. n + Size > newest
    <2>1. check_sequence(received_buffer, wire(n))
      BY DEF Accept, fresh_packet
    <2> QED
      BY <1>1, <2>1, WindowCheck
  <1>3. sequence_greater_than(wire(n), received_buffer.sequence) <=> n > newest
    BY <1>1, <1>2, NewerCheck
  <1>4. newest' = (IF n > newest THEN n ELSE newest) /\ newest' \in Nat
    BY <1>1 DEF Accept
  <1>5. /\ received_buffer' \in BuffersOver(SeqIds, Flags)
        /\ received_buffer'.sequence = IF sequence_greater_than(wire(n), received_buffer.sequence)
                                  THEN wire(n) ELSE received_buffer.sequence
        /\ received_buffer'.tag[index(wire(n))] = wire(n)
        /\ \A i \in Slots \ {index(wire(n))} :
             /\ i \in swept(received_buffer, wire(n)) => received_buffer'.tag[i] = NoSeq
             /\ i \notin swept(received_buffer, wire(n)) => received_buffer'.tag[i] = received_buffer.tag[i]
    <2>1. SeqIds \in SUBSET Int /\ wire(n) \in SeqIds
      BY WireFacts DEF SeqIds
    <2>2. received_buffer' = insert(received_buffer, wire(n), TRUE)
      BY DEF Accept
    <2>3. PICK data, new, w : data = TRUE /\ new = received_buffer' /\ w = wire(n)
      OBVIOUS
    <2>4. Default \in Flags /\ data \in Flags
      BY <2>3 DEF Flags
    <2>5. SeqIds \in SUBSET Int /\ w \in SeqIds /\ new = insert(received_buffer, w, data)
      BY <2>1, <2>2, <2>3
    <2>6. received_buffer \in BuffersOver(SeqIds, Flags)
      BY <1>1
    <2>7. new \in BuffersOver(SeqIds, Flags)
      BY <2>4, <2>5, <2>6, InsertSlots
    <2>8. new.sequence = IF sequence_greater_than(w, received_buffer.sequence)
                           THEN w ELSE received_buffer.sequence
      BY <2>4, <2>5, <2>6, InsertSlots
    <2>9. new.tag[index(w)] = w
      BY <2>4, <2>5, <2>6, InsertSlots
    <2>10. \A i \in Slots \ {index(w)} :
             /\ i \in swept(received_buffer, w) => new.tag[i] = NoSeq
             /\ i \notin swept(received_buffer, w) => new.tag[i] = received_buffer.tag[i]
      BY <2>4, <2>5, <2>6, InsertSlots
    <2> QED
      BY <2>3, <2>7, <2>8, <2>9, <2>10
  <1>6. index(wire(n)) = index(n)
    BY WireSlot
  <1>7. n <= newest => swept(received_buffer, wire(n)) = {}
    BY <1>1, <1>3 DEF swept
  <1>8. n > newest =>
          swept(received_buffer, wire(n)) =
            IF round(n) <= newest + 1 THEN stretch(newest + 1, n) ELSE {}
    <2> SUFFICES ASSUME n > newest
                 PROVE  swept(received_buffer, wire(n)) =
                          IF round(n) <= newest + 1 THEN stretch(newest + 1, n) ELSE {}
      OBVIOUS
    <2>1. /\ round(n) <= newest + 1 => swept(received_buffer, wire(n)) = stretch(newest + 1, n)
          /\ round(n) > newest + 1 => swept(received_buffer, wire(n)) = {}
      BY <1>1, SweptNumbers
    <2>2. round(n) <= newest + 1 \/ round(n) > newest + 1
      BY <1>1, WireFacts
    <2>3. ~ (round(n) <= newest + 1 /\ round(n) > newest + 1)
      BY <1>1, WireFacts
    <2> QED
      BY <2>1, <2>2, <2>3
  <1>9. received_buffer'.sequence = wire(newest')
    BY <1>1, <1>3, <1>4, <1>5
  <1> QED
    BY <1>1, <1>2, <1>4, <1>5, <1>6, <1>7, <1>8, <1>9

\* Two numbers inside the window, or one in it and one just swept, have slots of
\* their own, so what was accepted stays.
LEMMA AcceptHolds ==
  ASSUME WindowInv, NEW n \in Nat, Accept(n)
  PROVE  AcceptedHeld'
  <1> SUFFICES ASSUME NEW m \in accepted'
               PROVE  /\ m <= newest' /\ newest' - m <= MaxLate
                      /\ newest' - m < Size => exists(received_buffer, wire(m))'
    BY DEF AcceptedHeld
  <1>1. /\ n + Size > newest /\ newest \in Nat
        /\ newest' = (IF n > newest THEN n ELSE newest) /\ newest' \in Nat
    BY AcceptSlots DEF WindowInv, WindowTypes
  <1>2. m \in accepted \cup {n} /\ m >= newest' - MaxLate
    BY DEF Accept
  <1>3. m \in Nat /\ m <= newest' /\ (m # n => m \in accepted /\ m <= newest)
    <2>1. CASE m = n
      BY <1>1, <2>1
    <2>2. CASE m # n
      <3>1. m \in accepted
        BY <1>2, <2>2
      <3>2. m \in Nat /\ m <= newest
        BY <3>1 DEF WindowInv, WindowTypes, AcceptedHeld
      <3> QED
        BY <1>1, <3>1, <3>2
    <2> QED
      BY <2>1, <2>2
  <1>4. newest' - m <= MaxLate
    BY <1>1, <1>2, <1>3, Constants
  <1>5. ASSUME newest' - m < Size
        PROVE  received_buffer'.tag[index(m)] = wire(m)
    <2>1. CASE m = n
      BY <2>1, AcceptSlots
    <2>2. CASE m # n
      <3>1. m \in accepted /\ m <= newest /\ newest - m < Size
        BY <1>1, <1>3, <1>5, <2>2, Constants
      <3>2. exists(received_buffer, wire(m))
        BY <3>1 DEF WindowInv, AcceptedHeld
      <3>3. received_buffer.tag[index(m)] = wire(m)
        BY <1>3, <3>2, WireSlot DEF exists
      <3>4. index(m) # index(n)
        <4>1. CASE m < n
          BY <1>1, <1>3, <1>5, <4>1, SlotsApart, Constants
        <4>2. CASE n < m
          BY <1>1, <1>3, <3>1, <4>2, SlotsApart, Constants
        <4> QED
          BY <1>3, <2>2, <4>1, <4>2
      <3>5. index(m) \notin swept(received_buffer, wire(n))
        <4>1. CASE n <= newest
          BY <4>1, AcceptSlots
        <4>2. CASE n > newest
          <5>1. ASSUME NEW k \in newest + 1 .. n PROVE index(m) # index(k)
            <6>1. k \in Nat /\ m < k /\ k - m < Size
              BY <1>1, <1>3, <1>5, <3>1, <4>2, Constants
            <6> QED
              BY <1>3, <6>1, SlotsApart
          <5>2. index(m) \notin stretch(newest + 1, n)
            BY <5>1 DEF stretch
          <5>3. swept(received_buffer, wire(n)) =
                  IF round(n) <= newest + 1 THEN stretch(newest + 1, n) ELSE {}
            BY <4>2, AcceptSlots
          <5> QED
            BY <5>2, <5>3
        <4> QED
          BY <1>1, <4>1, <4>2
      <3>6. index(m) \in Slots \ {index(n)}
        BY <1>3, <3>4, IndexInSlots
      <3>7. received_buffer'.tag[index(m)] = received_buffer.tag[index(m)]
        BY <3>5, <3>6, AcceptSlots
      <3> QED
        BY <3>3, <3>7
    <2> QED
      BY <2>1, <2>2
  <1>6. newest' - m < Size => exists(received_buffer, wire(m))'
    <2>1. index(wire(m)) = index(m)
      BY <1>3, WireSlot
    <2> QED
      BY <1>5, <2>1 DEF exists
  <1> QED
    BY <1>3, <1>4, <1>6

\* What is still in a slot after a jump over the wrap was inside the window before.
LEMMA LeftoverFresh ==
  ASSUME NEW x \in Nat, NEW n \in Nat, n - x <= MaxAhead, round(n) > x + 1,
         NEW m \in Nat, NEW u \in Nat, x - u < Size, u - m < MaxAhead + Size, m < round(x)
  PROVE  FALSE
  <1>1. PICK a \in Int, R \in Int, S \in Int :
          /\ R = round(x) /\ S = round(n) /\ a \in SeqIds /\ n = S + a /\ R <= x
    <2>1. wire(x) \in SeqIds /\ wire(n) \in SeqIds /\ round(x) \in Nat /\ round(n) \in Nat
          /\ x = round(x) + wire(x) /\ n = round(n) + wire(n)
      BY WireFacts
    <2> QED
      BY <2>1 DEF SeqIds
  <1>2. x <= n
    BY <1>1 DEF SeqIds
  <1>3. S = R \/ S = R + SeqMod
    BY <1>1, <1>2, NextRound, Constants
  <1> QED
    BY <1>1, <1>2, <1>3, Constants DEF SeqIds

LEMMA AcceptTraces ==
  ASSUME WindowInv, NEW n \in Nat, Accept(n)
  PROVE  TagsTraced'
  <1> SUFFICES ASSUME NEW i \in Slots, received_buffer'.tag[i] # NoSeq
               PROVE  \E m \in 0 .. newest', u \in 0 .. newest' : Traced(i, m, u)'
    BY DEF TagsTraced, Slots
  <1>1. /\ n + Size > newest /\ n - newest <= MaxAhead /\ newest \in Nat
        /\ newest' = (IF n > newest THEN n ELSE newest) /\ newest' \in Nat
    BY AcceptSlots DEF WindowInv, WindowTypes
  <1>2. \A m \in Nat : m \in accepted \cup {n} /\ newest' - m <= MaxLate => m \in accepted'
    <2> SUFFICES ASSUME NEW m \in Nat, m \in accepted \cup {n}, newest' - m <= MaxLate
                 PROVE  m \in accepted'
      OBVIOUS
    <2>1. m >= newest' - MaxLate
      BY <1>1, Constants
    <2> QED
      BY <2>1 DEF Accept
  <1>3. CASE i = index(n)
    <2>1. received_buffer'.tag[i] = wire(n)
      BY <1>3, AcceptSlots
    <2>2. n \in 0 .. newest' /\ newest' - n < Size
      BY <1>1, Constants
    <2>3. newest' - n <= MaxLate => n \in accepted'
      BY <1>2
    <2>4. Traced(i, n, n)'
      BY <1>3, <2>1, <2>2, <2>3 DEF Traced
    <2> QED
      BY <2>2, <2>4
  <1>4. CASE i # index(n)
    <2>1. i \notin swept(received_buffer, wire(n)) /\ received_buffer'.tag[i] = received_buffer.tag[i]
      BY <1>4, AcceptSlots
    <2>2. PICK m \in 0 .. newest, u \in 0 .. newest : Traced(i, m, u)
      BY <2>1 DEF WindowInv, TagsTraced
    <2>3. /\ received_buffer'.tag[i] = wire(m) /\ index(m) = i /\ index(u) = i
          /\ m \in Nat /\ u \in Nat /\ m <= u /\ u <= newest /\ newest - u < Size
      BY <1>1, <2>1, <2>2 DEF Traced
    <2>4. m = u => (newest' - m <= MaxLate => m \in accepted')
      <3> SUFFICES ASSUME m = u, newest' - m <= MaxLate PROVE m \in accepted'
        OBVIOUS
      <3>1. newest - m <= MaxLate
        BY <1>1, <2>3, Constants
      <3>2. m \in accepted
        BY <2>2, <2>3, <3>1 DEF Traced
      <3> QED
        BY <1>2, <2>3, <3>2
    <2>5. m # u => m < u /\ u - m < MaxAhead + Size /\ m < round(newest)
      BY <2>2 DEF Traced
    <2>6. CASE newest' - u < Size /\ (m = u \/ round(newest) <= round(newest'))
      <3>1. round(newest) \in Nat /\ round(newest') \in Nat
        BY <1>1, WireFacts
      <3>2. m # u => m < u /\ u - m < MaxAhead + Size /\ m < round(newest')
        BY <2>3, <2>5, <2>6, <3>1
      <3>3. m \in 0 .. newest' /\ u \in 0 .. newest' /\ u <= newest'
        BY <1>1, <2>3
      <3>4. Traced(i, m, u)'
        BY <2>3, <2>4, <2>6, <3>2, <3>3 DEF Traced, round
      <3> QED
        BY <3>3, <3>4
    <2>7. CASE n <= newest
      <3>1. newest' = newest
        BY <1>1, <2>7
      <3>2. round(newest) <= round(newest')
        BY <1>1, <3>1, WireFacts
      <3> QED
        BY <2>3, <2>6, <3>1, <3>2
    <2>8. CASE n > newest /\ round(n) <= newest + 1
      <3>1. newest' = n /\ swept(received_buffer, wire(n)) = stretch(newest + 1, n)
        BY <1>1, <2>8, AcceptSlots
      <3>2. newest' - u < Size
        <4> SUFFICES ASSUME ~ (newest' - u < Size) PROVE FALSE
          OBVIOUS
        <4>1. u + Size \in newest + 1 .. n
          BY <1>1, <2>3, <3>1, Constants
        <4>2. index(u + Size * 1) = index(u)
          BY <2>3, TurnSlot
        <4>3. index(u + Size) = i
          BY <2>3, <4>2, Constants
        <4>4. i \in stretch(newest + 1, n)
          BY <4>1, <4>3 DEF stretch
        <4> QED
          BY <2>1, <3>1, <4>4
      <3>3. round(newest) <= round(n)
        <4>1. round(n) = round(newest) \/ round(n) = round(newest) + SeqMod
          BY <1>1, <2>8, NextRound, Constants
        <4> QED
          BY <1>1, <4>1, WireFacts, Constants
      <3> QED
        BY <2>6, <3>1, <3>2, <3>3
    <2>9. CASE n > newest /\ round(n) > newest + 1
      <3>1. newest' = n
        BY <1>1, <2>9
      <3>2. m = u
        <4> SUFFICES ASSUME m # u PROVE FALSE
          OBVIOUS
        <4> QED
          BY <1>1, <2>3, <2>5, <2>9, LeftoverFresh
      <3>3. PICK v \in 0 .. n : index(v) = index(m) /\ n - v < Size /\ m <= v
        <4>1. m \in Nat /\ m <= n
          BY <1>1, <2>3, <2>9
        <4> QED
          BY <4>1, SlotInWindow
      <3>4. v \in Nat /\ m < round(n)
        BY <1>1, <2>3, <2>9, <3>2, WireFacts
      <3>5. m # v => m < v /\ v - m < MaxAhead + Size /\ m < round(n)
        BY <1>1, <2>3, <3>2, <3>3, <3>4, Constants
      <3>6. m = v \/ (m < v /\ v - m < MaxAhead + Size /\ m < round(newest'))
        BY <3>1, <3>5
      <3>7. Traced(i, m, v)'
        BY <2>3, <2>4, <3>1, <3>2, <3>3, <3>6 DEF Traced, round
      <3>8. m \in 0 .. newest' /\ v \in 0 .. newest'
        BY <1>1, <2>3, <3>1, <3>3
      <3> QED
        BY <3>7, <3>8
    <2>10. round(n) \in Nat
      BY WireFacts
    <2> QED
      BY <1>1, <2>7, <2>8, <2>9, <2>10
  <1> QED
    BY <1>3, <1>4

LEMMA WindowStep == WindowInv /\ [Next]_vars => WindowInv'
  <1> SUFFICES ASSUME WindowInv, [Next]_vars PROVE WindowInv'
    OBVIOUS
  <1>1. ASSUME NEW n \in 0 .. MaxNumber, Accept(n) PROVE WindowInv'
    <2>1. n \in Nat
      OBVIOUS
    <2>2. WindowTypes' /\ WindowFollowsNewest'
      <3>1. accepted' \subseteq Nat
        BY <1>1, <2>1 DEF Accept, WindowInv, WindowTypes
      <3>2. /\ received_buffer' \in BuffersOver(SeqIds, Flags) /\ newest' \in Nat
            /\ received_buffer'.sequence = wire(newest')
        BY <1>1, <2>1, AcceptSlots
      <3> QED
        BY <3>1, <3>2 DEF WindowTypes, WindowFollowsNewest, BuffersOver, Slots, wire
    <2>3. AcceptedHeld' /\ TagsTraced'
      BY <1>1, <2>1, AcceptHolds, AcceptTraces
    <2> QED
      BY <2>2, <2>3 DEF WindowInv
  <1>2. CASE UNCHANGED vars
    BY <1>2 DEF vars, WindowInv, WindowTypes, WindowFollowsNewest, AcceptedHeld, TagsTraced,
                Traced, exists
  <1> QED
    BY <1>1, <1>2 DEF Next, Reject

\* The window, its slots and the numbers they stand for stay consistent, for any
\* number of numbers, before, at and after every wrap.
THEOREM WindowConsistent == Spec => []WindowInv
  <1> QED
    BY WindowInit, WindowStep, PTL DEF Spec

\* buf.sequence is the greatest number accepted: insert moves the window forward
\* and never back, however late and often the numbers arrive.
THEOREM WindowForward == Spec => []WindowFollowsNewest
  <1>1. WindowInv => WindowFollowsNewest
    BY DEF WindowInv
  <1> QED
    BY <1>1, WindowConsistent, PTL

\* fresh_packet takes a number once: the window check refuses what has left
\* the window, and what is inside it still has its slot.
THEOREM DuplicatesRefused == Spec => []AcceptedOnce
  <1>1. ASSUME WindowInv, NEW n \in accepted, fresh_packet(received_buffer, wire(n))
        PROVE  FALSE
    <2>1. /\ n \in Nat /\ newest \in Nat /\ n <= newest /\ newest - n <= MaxLate
          /\ newest - n < Size => exists(received_buffer, wire(n))
          /\ received_buffer.sequence = wire(newest)
      BY <1>1 DEF WindowInv, WindowTypes, AcceptedHeld, WindowFollowsNewest
    <2>2. check_sequence(received_buffer, wire(n)) /\ ~ exists(received_buffer, wire(n))
      BY <1>1 DEF fresh_packet
    <2>3. n + Size > newest
      <3>1. n - newest <= MaxAhead
        BY <2>1, Constants
      <3>2. check_sequence(received_buffer, wire(n)) <=> n + Size > newest
        BY <2>1, <3>1, WindowCheck
      <3> QED
        BY <2>2, <3>2
    <2>4. newest - n < Size
      BY <2>1, <2>3, Constants
    <2> QED
      BY <2>1, <2>2, <2>4
  <1>2. WindowInv => AcceptedOnce
    BY <1>1 DEF AcceptedOnce
  <1> QED
    BY <1>2, WindowConsistent, PTL

\* fresh_packet refuses nothing else: a number inside the window that did not
\* arrive yet is accepted, whatever an earlier round of numbers, or a jump over
\* the wrap that insert did not sweep, left in its slot.
THEOREM NothingElseRefused == Spec => []FreshAccepted
  <1>1. ASSUME WindowInv, NEW n \in InFlight \ accepted, n > newest - Size
        PROVE  fresh_packet(received_buffer, wire(n))
    <2>1. /\ n \in Nat /\ newest \in Nat /\ newest - n <= MaxLate /\ n - newest <= MaxAhead
          /\ received_buffer.sequence = wire(newest) /\ n + Size > newest
      BY <1>1, Constants DEF WindowInv, WindowTypes, WindowFollowsNewest, InFlight
    <2>2. check_sequence(received_buffer, wire(n))
      BY <2>1, WindowCheck
    <2>3. ASSUME exists(received_buffer, wire(n)) PROVE FALSE
      <3>1. PICK i : i = index(n) /\ i \in Slots /\ received_buffer.tag[i] = wire(n)
        BY <2>1, <2>3, WireSlot, IndexInSlots DEF exists
      <3>2. wire(n) # NoSeq
        BY <2>1, WireFacts, Constants DEF SeqIds, NoSeq
      <3>3. PICK m \in 0 .. newest, u \in 0 .. newest : Traced(i, m, u)
        BY <1>1, <3>1, <3>2 DEF WindowInv, TagsTraced
      <3>4. /\ wire(m) = wire(n) /\ index(m) = index(u) /\ m \in Nat /\ u \in Nat
            /\ u <= newest /\ newest - u < Size
            /\ \/ m = u /\ (newest - m <= MaxLate => m \in accepted)
               \/ m < u /\ u - m < MaxAhead + Size
        BY <2>1, <3>1, <3>3 DEF Traced
      <3>5. n - m < SeqMod /\ m - n < SeqMod
        BY <2>1, <3>4, Constants
      <3>6. n = m
        BY <2>1, <3>4, <3>5, WireUnique
      <3>7. CASE m = u
        BY <1>1, <2>1, <3>4, <3>6, <3>7
      <3>8. CASE m < u
        <4>1. u - m < Size
          BY <2>1, <3>4, <3>6, <3>8, Constants
        <4> QED
          BY <3>4, <3>8, <4>1, SlotsApart
      <3> QED
        BY <3>4, <3>7, <3>8
    <2> QED
      BY <2>2, <2>3 DEF fresh_packet
  <1>2. WindowInv => FreshAccepted
    BY <1>1 DEF FreshAccepted
  <1> QED
    BY <1>2, WindowConsistent, PTL
=============================================================================
