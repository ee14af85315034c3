--------------------------- MODULE DeliveryProofs ---------------------------
(***************************************************************************)
(* The duplicate filter of the reliable channel, however often a message   *)
(* is resent and however long a copy is in flight: a message is taken at   *)
(* most once, and one that was not taken yet is taken when it comes, as    *)
(* long as fewer than SeenSize newer messages overtook it. For any buffer  *)
(* sizes and limits, any number of messages within one epoch of message    *)
(* ids, and packet numbers that wrap around for ever.                      *)
(***************************************************************************)
EXTENDS Delivery, WellFoundedInduction, TLAPS

\* The message ids used and the window behind them fit in half the number space.
IdEpoch == MaxMessages + SeenSize < IdMod \div 2

\* The values seen_buf holds, which nothing reads.
Yes == TRUE
No == FALSE

SeenRing == INSTANCE SequenceBufferProofs
              WITH SeqMod <- IdMod, Size <- SeenSize, Default <- No

-----------------------------------------------------------------------------
(* The filter *)

\* The states of seen_buf.
Filters == SeenRing!FiltersOver(MaxMessages, {Yes, No})

\* An id that the channel refuses when seen_buf is buf.
Refused(buf, id) == ~ (Seen!check_sequence(buf, id) /\ ~ Seen!exists(buf, id))

Ids == 0 .. MaxMessages

LEMMA IdFacts ==
  ASSUME IdEpoch
  PROVE  /\ MaxMessages \in Nat /\ SeenSize \in Nat /\ SeenSize >= 1
         /\ IdMod \in Nat /\ IdMod >= 2 /\ MaxMessages < IdMod
  BY DeliveryAssumption

LEMMA SeenRingIs ==
  /\ \A buf, s, data : SeenRing!insert(buf, s, data) = Seen!insert(buf, s, data)
  /\ \A buf, s : SeenRing!check_sequence(buf, s) = Seen!check_sequence(buf, s)
  /\ \A buf, s : SeenRing!exists(buf, s) = Seen!exists(buf, s)
  /\ SeenRing!with_capacity = Seen!with_capacity
  /\ SeenRing!Slots = 0 .. SeenSize - 1 /\ SeenRing!NoSeq = IdMod
  /\ SeenRing!Half = IdMod \div 2
  BY DEF SeenRing!insert, SeenRing!advance, SeenRing!remove_range, SeenRing!clear,
     SeenRing!Slots, SeenRing!index, SeenRing!NoSeq, SeenRing!wrapping_add,
     SeenRing!sequence_greater_than, SeenRing!Half, SeenRing!check_sequence,
     SeenRing!window_start, SeenRing!wrapping_sub, SeenRing!exists, SeenRing!with_capacity,
     Seen!insert, Seen!advance, Seen!remove_range, Seen!clear,
     Seen!Slots, Seen!index, Seen!NoSeq, Seen!wrapping_add,
     Seen!sequence_greater_than, Seen!Half, Seen!check_sequence,
     Seen!window_start, Seen!wrapping_sub, Seen!exists, Seen!with_capacity, No

LEMMA RefusedIs == \A buf, id : SeenRing!Refuses(buf, id) <=> Refused(buf, id)
  BY SeenRingIs DEF SeenRing!Refuses, Refused

\* Nothing is held before anything arrived.
LEMMA SeenEmpty ==
  ASSUME IdEpoch, NEW new, new = Seen!with_capacity
  PROVE  /\ new \in Filters /\ new.sequence = 0
         /\ \A id \in Ids : ~ Seen!exists(new, id)
  <1>1. /\ new \in SeenRing!BuffersOver(Ids, {Yes, No}) /\ new.sequence = 0
        /\ \A i \in 0 .. SeenSize - 1 : new.tag[i] = IdMod
    <2>1. 0 \in Ids /\ No \in {Yes, No}
      BY IdFacts DEF Ids
    <2>2. /\ SeenRing!with_capacity \in SeenRing!BuffersOver(Ids, {Yes, No})
          /\ SeenRing!with_capacity.sequence = 0
          /\ \A i \in SeenRing!Slots : SeenRing!with_capacity.tag[i] = SeenRing!NoSeq
      BY <2>1, IdFacts, SeenRing!EmptyBuffer, Zenon
    <2> QED
      BY <2>2, SeenRingIs
  <1>2. \A id \in Ids : id % SeenSize \in 0 .. SeenSize - 1 /\ id # IdMod
    BY IdFacts DEF Ids
  <1>3. \A id \in Ids : ~ Seen!exists(new, id)
    BY <1>1, <1>2 DEF Seen!exists, Seen!index
  <1> QED
    BY <1>1, <1>3, SeenRingIs DEF Filters, Ids, SeenRing!FiltersOver

\* Inside the epoch, an id is too old when SeenSize newer ones came in.
LEMMA WindowExact ==
  ASSUME IdEpoch, NEW buf \in Filters, NEW id \in Ids
  PROVE  Seen!check_sequence(buf, id) <=> id + SeenSize > buf.sequence
  <1>1. buf.sequence \in 0 .. MaxMessages
    BY DEF Filters, SeenRing!FiltersOver, SeenRing!BuffersOver
  <1>2. SeenRing!check_sequence(buf, id) <=> id + SeenSize > buf.sequence
    BY <1>1, IdFacts, SeenRingIs, SeenRing!EpochWindow DEF IdEpoch, Ids
  <1> QED
    BY <1>2, SeenRingIs

LEMMA SeenInsert ==
  ASSUME IdEpoch, NEW buf \in Filters, NEW s \in Ids, ~ Refused(buf, s),
         NEW new, new = insert_seen(buf, s)
  PROVE  /\ new \in Filters
         /\ Refused(new, s)
         /\ \A t \in Ids : Refused(buf, t) => Refused(new, t)
         /\ \A t \in Ids : Seen!exists(new, t) => t = s \/ Seen!exists(buf, t)
         /\ new.sequence \in {s, buf.sequence}
  <1>1. /\ MaxMessages \in Nat /\ MaxMessages + SeenSize < SeenRing!Half
        /\ s \in 0 .. MaxMessages
    BY IdFacts, SeenRingIs DEF IdEpoch, Ids
  <1>2. /\ buf \in SeenRing!FiltersOver(MaxMessages, {Yes, No}) /\ ~ SeenRing!Refuses(buf, s)
        /\ Yes \in {Yes, No} /\ No \in {Yes, No}
    BY RefusedIs, Zenon DEF Filters
  <1>3. new = SeenRing!insert(buf, s, Yes)
    BY SeenRingIs, Zenon DEF insert_seen, Yes
  <1>4. /\ new \in SeenRing!FiltersOver(MaxMessages, {Yes, No})
        /\ SeenRing!Refuses(new, s)
        /\ \A t \in 0 .. MaxMessages : SeenRing!Refuses(buf, t) => SeenRing!Refuses(new, t)
        /\ \A t \in 0 .. MaxMessages : SeenRing!exists(new, t) => t = s \/ SeenRing!exists(buf, t)
        /\ new.sequence \in {s, buf.sequence}
    BY <1>1, <1>2, <1>3, IdFacts, SeenRing!FilterInsert, Zenon
  <1> QED
    BY <1>4, RefusedIs, SeenRingIs, Zenon DEF Filters, Ids

-----------------------------------------------------------------------------
(* The messages of a packet, one after the other *)

LEMMA LeastNat ==
  ASSUME NEW T \in SUBSET Nat, T # {}
  PROVE  \E x \in T : \A y \in T : x <= y
  <1>1. PICK x \in T : \A y \in T : ~ (<<y, x>> \in OpToRel(<, Nat))
    BY NatLessThanWellFounded, WFMin
  <1>2. \A y \in T : ~ (y < x)
    BY <1>1 DEF OpToRel
  <1> QED
    BY <1>2

\* The filter b after id k - 1, if that is in S.
taken_next(b, S, k) == IF k - 1 \in S THEN insert_seen(b, k - 1) ELSE b

\* f has the filters before, between and after the ids below n.
Steps(f, buf, S, n) ==
  f = [k \in 0 .. n |-> IF k = 0 THEN buf ELSE taken_next(f[k - 1], S, k)]

LEMMA StepsMore ==
  ASSUME NEW buf, NEW S, NEW n \in Nat, NEW f, Steps(f, buf, S, n)
  PROVE  \E g : Steps(g, buf, S, n + 1)
  <1> DEFINE last == taken_next(f[n], S, n + 1)
             g == [k \in 0 .. n + 1 |-> IF k = n + 1 THEN last ELSE f[k]]
  <1>1. \A k \in 0 .. n : f[k] = IF k = 0 THEN buf ELSE taken_next(f[k - 1], S, k)
    BY DEF Steps
  <1>2. \A k \in 0 .. n + 1 : g[k] = IF k = 0 THEN buf ELSE taken_next(g[k - 1], S, k)
    <2> TAKE k \in 0 .. n + 1
    <2>1. CASE k = n + 1
      <3>1. g[k] = last /\ k # 0 /\ k - 1 = n /\ g[k - 1] = f[n]
        BY <2>1
      <3> QED
        BY <2>1, <3>1
    <2>2. CASE k # n + 1
      <3>1. k \in 0 .. n /\ g[k] = f[k]
        BY <2>2
      <3>2. k # 0 => k - 1 \in 0 .. n + 1 /\ k - 1 # n + 1
        BY <2>2
      <3>3. k # 0 => g[k - 1] = f[k - 1]
        BY <3>2
      <3> QED
        BY <1>1, <3>1, <3>3
    <2> QED
      BY <2>1, <2>2
  <1> HIDE DEF last
  <1>3. Steps(g, buf, S, n + 1)
    BY <1>2 DEF Steps
  <1> QED
    BY <1>3

LEMMA StepsExist ==
  ASSUME NEW buf, NEW S, NEW n \in Nat
  PROVE  \E f : Steps(f, buf, S, n)
  <1> DEFINE bad == {l \in Nat : ~ \E f : Steps(f, buf, S, l)}
  <1>1. 0 \notin bad
    <2>1. Steps([k \in 0 .. 0 |-> buf], buf, S, 0)
      BY DEF Steps
    <2> QED
      BY <2>1
  <1>2. \A l \in Nat : l \notin bad => l + 1 \notin bad
    BY StepsMore
  <1>3. bad = {}
    <2> SUFFICES ASSUME bad # {} PROVE FALSE
      OBVIOUS
    <2>1. bad \in SUBSET Nat
      OBVIOUS
    <2> HIDE DEF bad
    <2>2. PICK x \in bad : \A y \in bad : x <= y
      BY <2>1, LeastNat
    <2>3. x \in Nat /\ x # 0
      BY <1>1, <2>1
    <2>4. x - 1 \in Nat /\ (x - 1) + 1 = x /\ ~ (x <= x - 1)
      BY <2>3
    <2> QED
      BY <1>2, <2>2, <2>4
  <1> QED
    BY <1>3

LEMMA TakingSteps ==
  ASSUME IdEpoch, NEW buf, NEW S
  PROVE  \A k \in Ids : taking(buf, S)[k] =
           IF k = 0 THEN buf ELSE taken_next(taking(buf, S)[k - 1], S, k)
  <1>1. \E f : f = [k \in 0 .. MaxMessages |-> IF k = 0 THEN buf ELSE taken_next(f[k - 1], S, k)]
    <2>1. PICK f : Steps(f, buf, S, MaxMessages)
      BY IdFacts, StepsExist
    <2> QED
      BY <2>1 DEF Steps
  <1>2. taking(buf, S) =
          CHOOSE f : f = [k \in 0 .. MaxMessages |-> IF k = 0 THEN buf ELSE taken_next(f[k - 1], S, k)]
    BY DEF taking, taken_next
  <1>3. Steps(taking(buf, S), buf, S, MaxMessages)
    BY <1>1, <1>2, Zenon DEF Steps
  <1> QED
    BY <1>3 DEF Steps, Ids

\* f is the filter after the ids of S below n were taken into buf.
TookBelow(buf, S, n, f) ==
  /\ f \in Filters
  /\ f.sequence = buf.sequence \/ (f.sequence \in S /\ f.sequence < n)
  /\ \A t \in S : t < n => Refused(f, t)
  /\ \A t \in Ids : Refused(buf, t) => Refused(f, t)
  /\ \A t \in Ids : Seen!exists(f, t) => (t \in S /\ t < n) \/ Seen!exists(buf, t)

LEMMA TakeNext ==
  ASSUME IdEpoch, NEW buf \in Filters, NEW S \in SUBSET Ids, \A t \in S : ~ Refused(buf, t),
         NEW n \in 1 .. MaxMessages, NEW f, TookBelow(buf, S, n - 1, f),
         NEW g, g = taken_next(f, S, n)
  PROVE  TookBelow(buf, S, n, g)
  <1>1. \A t \in S : t < n => t = n - 1 \/ t < n - 1
    BY IdFacts DEF Ids
  <1>2. CASE n - 1 \notin S
    <2>1. g = f
      BY <1>2 DEF taken_next
    <2>2. \A t \in Ids : t < n - 1 => t < n
      BY IdFacts DEF Ids
    <2> QED
      BY <1>1, <1>2, <2>1, <2>2 DEF TookBelow
  <1>3. CASE n - 1 \in S
    <2>1. PICK s \in Ids : s = n - 1 /\ s \in S
      BY <1>3
    <2>2. f \in Filters /\ ~ Refused(buf, s) /\ buf.sequence \in Int
      BY <2>1, IdFacts DEF TookBelow, Filters, SeenRing!FiltersOver, SeenRing!BuffersOver
    <2>3. s + SeenSize > f.sequence
      <3>1. s + SeenSize > buf.sequence
        BY <2>1, <2>2, WindowExact DEF Refused
      <3>2. f.sequence = buf.sequence \/ (f.sequence \in Ids /\ f.sequence < s)
        BY <2>1 DEF TookBelow
      <3> QED
        BY <3>1, <3>2, IdFacts DEF Ids
    <2>4. ~ Seen!exists(f, s)
      BY <2>1, <2>2 DEF TookBelow, Refused
    <2>5. ~ Refused(f, s)
      BY <2>2, <2>3, <2>4, WindowExact DEF Refused
    <2>6. g = insert_seen(f, s)
      BY <2>1 DEF taken_next
    <2>7. /\ g \in Filters
          /\ Refused(g, s)
          /\ \A t \in Ids : Refused(f, t) => Refused(g, t)
          /\ \A t \in Ids : Seen!exists(g, t) => t = s \/ Seen!exists(f, t)
          /\ g.sequence \in {s, f.sequence}
      BY <2>2, <2>5, <2>6, SeenInsert
    <2>8. s < n
      BY <2>1
    <2>9. \A t \in Ids : t < n - 1 => t < n
      BY IdFacts DEF Ids
    <2>10. g.sequence = buf.sequence \/ (g.sequence \in S /\ g.sequence < n)
      BY <2>1, <2>7, <2>8, <2>9 DEF TookBelow
    <2>11. \A t \in S : t < n => Refused(g, t)
      BY <1>1, <2>1, <2>7 DEF TookBelow
    <2>12. \A t \in Ids : Refused(buf, t) => Refused(g, t)
      BY <2>7 DEF TookBelow
    <2>13. \A t \in Ids : Seen!exists(g, t) => (t \in S /\ t < n) \/ Seen!exists(buf, t)
      BY <2>1, <2>7, <2>8, <2>9 DEF TookBelow
    <2> QED
      BY <2>7, <2>10, <2>11, <2>12, <2>13 DEF TookBelow
  <1> QED
    BY <1>2, <1>3

\* A packet's messages are taken, each of them for the first and last time.
LEMMA TakeAll ==
  ASSUME IdEpoch, NEW buf \in Filters, NEW S \in SUBSET Ids, \A t \in S : ~ Refused(buf, t)
  PROVE  TookBelow(buf, S, MaxMessages, take_all(buf, S))
  <1> DEFINE f == taking(buf, S)
             bad == {n \in Ids : ~ TookBelow(buf, S, n, f[n])}
  <1>1. \A k \in Ids : f[k] = IF k = 0 THEN buf ELSE taken_next(f[k - 1], S, k)
    BY TakingSteps
  <1> HIDE DEF f
  <1>2. TookBelow(buf, S, 0, f[0])
    <2>1. f[0] = buf /\ \A t \in S : ~ (t < 0)
      BY <1>1, IdFacts DEF Ids
    <2> QED
      BY <2>1 DEF TookBelow
  <1>3. \A n \in 1 .. MaxMessages : TookBelow(buf, S, n - 1, f[n - 1]) => TookBelow(buf, S, n, f[n])
    <2> TAKE n \in 1 .. MaxMessages
    <2>1. f[n] = taken_next(f[n - 1], S, n)
      BY <1>1, IdFacts DEF Ids
    <2> QED
      BY <2>1, TakeNext
  <1>4. bad = {}
    <2> SUFFICES ASSUME bad # {} PROVE FALSE
      OBVIOUS
    <2>1. bad \in SUBSET Ids /\ \A n \in Ids : n \notin bad <=> TookBelow(buf, S, n, f[n])
      OBVIOUS
    <2> HIDE DEF bad
    <2>2. bad \in SUBSET Nat
      BY <2>1, IdFacts DEF Ids
    <2>3. PICK x \in bad : \A y \in bad : x <= y
      BY <2>2, LeastNat
    <2>4. x \in 1 .. MaxMessages
      BY <1>2, <2>1, IdFacts DEF Ids
    <2>5. x - 1 \in Ids /\ ~ (x <= x - 1)
      BY <2>4, IdFacts DEF Ids
    <2> QED
      BY <1>3, <2>1, <2>3, <2>4, <2>5
  <1>5. TookBelow(buf, S, MaxMessages, f[MaxMessages])
    BY <1>4, IdFacts DEF Ids
  <1> QED
    BY <1>5 DEF take_all, f
-----------------------------------------------------------------------------
(* The inductive invariant *)

\* The ids of the messages sent so far.
SentIds == 0 .. next_message_id - 1

QueueTyped ==
  /\ next_message_id \in Ids
  /\ q \in SUBSET [id : SentIds, age : Nat]

\* Only messages that were sent are in flight, and only those are outstanding.
CopiesSent == (\A p \in net : p.payload \subseteq SentIds) /\ outstanding \subseteq SentIds

FilterTyped ==
  /\ seen_buf \in Filters
  /\ seen_buf.sequence = 0 \/ seen_buf.sequence < next_message_id

\* What the filter holds was delivered, ...
HeldDelivered ==
  \A id \in Ids : Seen!exists(seen_buf, id) => id \in SentIds /\ id \notin outstanding

\* ... and what was delivered is refused, held or too old.
DeliveredRefused ==
  \A id \in SentIds : id \notin outstanding => Refused(seen_buf, id)

FilterInv ==
  QueueTyped /\ CopiesSent /\ FilterTyped /\ HeldDelivered /\ DeliveredRefused

LEMMA InitFilter ==
  ASSUME IdEpoch, Init
  PROVE  FilterInv
  <1>1. /\ seen_buf \in Filters /\ seen_buf.sequence = 0
        /\ \A id \in Ids : ~ Seen!exists(seen_buf, id)
    BY SeenEmpty DEF Init
  <1>2. /\ next_message_id = 0 /\ q = {} /\ net = {} /\ outstanding = {} /\ 0 \in Ids
        /\ 0 .. 0 - 1 = {}
    BY IdFacts DEF Init, Ids
  <1> QED
    BY <1>1, <1>2 DEF FilterInv, QueueTyped, CopiesSent, FilterTyped, HeldDelivered,
       DeliveredRefused, SentIds

LEMMA SendFilter ==
  ASSUME IdEpoch, FilterInv, send_message
  PROVE  FilterInv'
  <1>1. next_message_id \in Nat /\ next_message_id < MaxMessages
    BY IdFacts DEF FilterInv, QueueTyped, Ids, send_message
  <1>2. next_message_id' = next_message_id + 1
    BY <1>1, IdFacts DEF send_message, Seen!wrapping_add
  <1>3. SentIds' = SentIds \cup {next_message_id} /\ next_message_id' \in Ids
    BY <1>1, <1>2, IdFacts DEF SentIds, Ids
  <1>4. /\ q' = q \cup {[id |-> next_message_id, age |-> ResendTicks]}
        /\ outstanding' = outstanding \cup {next_message_id}
        /\ net' = net /\ seen_buf' = seen_buf
    BY DEF send_message
  <1>5. ResendTicks \in Nat
    BY DeliveryAssumption
  <1>6. QueueTyped'
    <2>1. q \in SUBSET [id : SentIds, age : Nat]
      BY DEF FilterInv, QueueTyped
    <2> QED
      BY <1>3, <1>4, <1>5, <2>1 DEF QueueTyped
  <1>7. CopiesSent'
    BY <1>3, <1>4 DEF FilterInv, CopiesSent
  <1>8. FilterTyped'
    <2>1. seen_buf.sequence \in Int
      BY DEF FilterInv, FilterTyped, Filters, SeenRing!FiltersOver, SeenRing!BuffersOver
    <2> QED
      BY <1>1, <1>2, <1>4, <2>1 DEF FilterInv, FilterTyped
  <1>9. HeldDelivered'
    <2>1. next_message_id \notin SentIds
      BY <1>1 DEF SentIds
    <2>2. \A id \in Ids : Seen!exists(seen_buf, id)' <=> Seen!exists(seen_buf, id)
      BY <1>4 DEF Seen!exists
    <2> QED
      BY <1>3, <1>4, <2>1, <2>2 DEF FilterInv, HeldDelivered
  <1>10. DeliveredRefused'
    BY <1>3, <1>4 DEF FilterInv, DeliveredRefused
  <1> QED
    BY <1>6, <1>7, <1>8, <1>9, <1>10 DEF FilterInv

\* A step that leaves the filter alone, resends and dismisses as it likes.
LEMMA KeepsFilter ==
  ASSUME FilterInv, QueueTyped', CopiesSent', UNCHANGED <<next_message_id, seen_buf, outstanding>>
  PROVE  FilterInv'
  BY DEF FilterInv, FilterTyped, HeldDelivered, DeliveredRefused, SentIds

LEMMA UpdateFilter ==
  ASSUME FilterInv, update
  PROVE  FilterInv'
  <1>1. /\ q' = {older(m) : m \in q} /\ net' = net
        /\ UNCHANGED <<next_message_id, seen_buf, outstanding>>
    BY DEF update
  <1>2. SentIds' = SentIds
    BY <1>1 DEF SentIds
  <1>3. ASSUME NEW m \in q PROVE older(m) \in [id : SentIds, age : Nat]
    <2>1. m \in [id : SentIds, age : Nat]
      BY DEF FilterInv, QueueTyped
    <2> QED
      BY <2>1, DeliveryAssumption DEF older
  <1>4. QueueTyped'
    BY <1>1, <1>2, <1>3 DEF FilterInv, QueueTyped
  <1>5. CopiesSent'
    BY <1>1, <1>2 DEF FilterInv, CopiesSent
  <1> QED
    BY <1>1, <1>4, <1>5, KeepsFilter

\* A packet that is made carries what it was given; a refused one leaves nothing.
LEMMA MadePacket ==
  ASSUME NEW e, NEW type, NEW payload, send_packet(e, type, payload)
  PROVE  \A p \in net' : p \in net \/ p.payload = payload
  <1>1. CASE refused(e)
    BY <1>1 DEF send_packet, P!RefusePacket
  <1>2. CASE ~ refused(e)
    <2>1. net' = net \cup {P!next_packet_header(e, type, payload)}
      BY <1>2 DEF send_packet, P!SendPacket
    <2>2. P!next_packet_header(e, type, payload).payload = payload
      BY DEF P!next_packet_header
    <2> QED
      BY <2>1, <2>2
  <1> QED
    BY <1>1, <1>2

LEMMA VisitFilter ==
  ASSUME FilterInv, NEW e \in Peers, visit(e)
  PROVE  FilterInv'
  <1>1. CASE visit_messages(e)
    <2>1. /\ send_packet(e, "Messages", {m.id : m \in ready})
          /\ UNCHANGED <<next_message_id, seen_buf, outstanding>>
          /\ \/ q' = (q \ ready) \cup {[m EXCEPT !.age = 0] : m \in ready}
             \/ q' = q
      BY <1>1 DEF visit_messages
    <2>2. SentIds' = SentIds
      BY <2>1 DEF SentIds
    <2>3. ready \subseteq q /\ q \subseteq [id : SentIds, age : Nat] /\ next_message_id \in Ids
      BY DEF FilterInv, QueueTyped, ready
    <2>4. {m.id : m \in ready} \subseteq SentIds
      BY <2>3
    <2>5. QueueTyped'
      <3>1. ASSUME NEW m \in ready PROVE [m EXCEPT !.age = 0] \in [id : SentIds, age : Nat]
        <4>1. m \in [id : SentIds, age : Nat]
          BY <2>3
        <4> QED
          BY <4>1
      <3>2. q' \subseteq [id : SentIds, age : Nat]
        BY <2>1, <2>3, <3>1
      <3> QED
        BY <2>1, <2>2, <2>3, <3>2 DEF QueueTyped
    <2>6. CopiesSent'
      <3>1. PICK ids : ids = {m.id : m \in ready}
        OBVIOUS
      <3>2. \A p \in net' : p \in net \/ p.payload = ids
        BY <2>1, <3>1, MadePacket
      <3> QED
        BY <2>1, <2>2, <2>4, <3>1, <3>2 DEF FilterInv, CopiesSent
    <2> QED
      BY <2>1, <2>5, <2>6, KeepsFilter
  <1>2. CASE keepalive(e)
    <2>1. /\ send_packet(e, "KeepAlive", {}) /\ q' = q
          /\ UNCHANGED <<next_message_id, seen_buf, outstanding>>
      BY <1>2 DEF keepalive, message_vars
    <2>2. SentIds' = SentIds
      BY <2>1 DEF SentIds
    <2>3. QueueTyped'
      BY <2>1, <2>2 DEF FilterInv, QueueTyped
    <2>4. CopiesSent'
      <3>1. \A p \in net' : p \in net \/ p.payload = {}
        BY <2>1, MadePacket
      <3> QED
        BY <2>1, <2>2, <3>1 DEF FilterInv, CopiesSent
    <2> QED
      BY <2>1, <2>3, <2>4, KeepsFilter
  <1> QED
    BY <1>1, <1>2 DEF visit

LEMMA LoseFilter ==
  ASSUME FilterInv, NEW p \in net, lose(p)
  PROVE  FilterInv'
  <1>1. /\ net' \subseteq net /\ q' = q /\ UNCHANGED <<next_message_id, seen_buf, outstanding>>
    BY DEF lose, message_vars
  <1>2. SentIds' = SentIds
    BY <1>1 DEF SentIds
  <1>3. QueueTyped' /\ CopiesSent'
    BY <1>1, <1>2 DEF FilterInv, QueueTyped, CopiesSent
  <1> QED
    BY <1>1, <1>3, KeepsFilter
LEMMA AcceptsIs == \A id : accepts_message(id) <=> ~ Refused(seen_buf, id)
  BY DEF accepts_message, Refused

\* The receiver takes the messages of a packet.
LEMMA TakeFilter ==
  ASSUME IdEpoch, FilterInv, NEW p \in net, net' \subseteq net,
         seen_buf' = take_all(seen_buf, accepted(p)),
         outstanding' = outstanding \ accepted(p),
         UNCHANGED <<next_message_id, q>>
  PROVE  FilterInv'
  <1>1. PICK S : S = accepted(p)
    OBVIOUS
  <1>2. SentIds' = SentIds /\ SentIds \subseteq Ids /\ \A id \in SentIds : id < next_message_id
    BY IdFacts DEF SentIds, FilterInv, QueueTyped, Ids
  <1>3. S \subseteq SentIds /\ \A id \in S : ~ Refused(seen_buf, id)
    BY <1>1, AcceptsIs DEF accepted, FilterInv, CopiesSent
  <1>4. TookBelow(seen_buf, S, MaxMessages, seen_buf')
    <2>1. seen_buf \in Filters /\ S \in SUBSET Ids
      BY <1>2, <1>3 DEF FilterInv, FilterTyped
    <2> QED
      BY <1>1, <1>3, <2>1, TakeAll
  <1>5. \A id \in SentIds : id < MaxMessages
    BY IdFacts DEF SentIds, FilterInv, QueueTyped, Ids
  <1>6. QueueTyped' /\ CopiesSent'
    BY <1>2 DEF FilterInv, QueueTyped, CopiesSent
  <1>7. FilterTyped'
    <2>1. seen_buf'.sequence = seen_buf.sequence \/ seen_buf'.sequence \in S
      BY <1>4 DEF TookBelow
    <2>2. seen_buf.sequence = 0 \/ seen_buf.sequence < next_message_id
      BY DEF FilterInv, FilterTyped
    <2>3. seen_buf'.sequence = 0 \/ seen_buf'.sequence < next_message_id
      BY <1>2, <1>3, <2>1, <2>2
    <2> QED
      BY <1>4, <2>3 DEF FilterTyped, TookBelow
  <1>8. HeldDelivered'
    <2> SUFFICES ASSUME NEW id \in Ids, Seen!exists(seen_buf', id)
                 PROVE  id \in SentIds /\ id \notin outstanding'
      BY <1>2 DEF HeldDelivered
    <2>1. id \in S \/ Seen!exists(seen_buf, id)
      BY <1>4 DEF TookBelow
    <2> QED
      BY <1>1, <1>3, <2>1 DEF FilterInv, HeldDelivered
  <1>9. DeliveredRefused'
    <2> SUFFICES ASSUME NEW id \in SentIds, id \notin outstanding'
                 PROVE  Refused(seen_buf', id)
      BY <1>2 DEF DeliveredRefused
    <2>1. CASE id \in S
      BY <1>4, <1>5, <2>1 DEF TookBelow
    <2>2. CASE id \notin S
      <3>1. Refused(seen_buf, id)
        BY <1>1, <2>2 DEF FilterInv, DeliveredRefused
      <3> QED
        BY <1>2, <1>4, <3>1 DEF TookBelow
    <2> QED
      BY <2>1, <2>2
  <1> QED
    BY <1>6, <1>7, <1>8, <1>9 DEF FilterInv

LEMMA ReceiveFilter ==
  ASSUME IdEpoch, FilterInv, NEW e \in Peers, NEW p \in net, receive(e, p)
  PROVE  FilterInv'
  <1>1. net' \subseteq net /\ next_message_id' = next_message_id
    BY DEF receive
  <1>2. SentIds' = SentIds
    BY <1>1 DEF SentIds
  <1>3. CopiesSent' \/ outstanding' # outstanding
    BY <1>1, <1>2 DEF FilterInv, CopiesSent
  <1>4. CASE ~ P!fresh_packet(e, p)
    <2>1. q' = q /\ UNCHANGED <<next_message_id, seen_buf, outstanding>>
      BY <1>1, <1>4 DEF receive
    <2>2. QueueTyped'
      BY <1>2, <2>1 DEF FilterInv, QueueTyped
    <2> QED
      BY <1>3, <2>1, <2>2, KeepsFilter
  <1>5. CASE P!fresh_packet(e, p) /\ e = Sender
    <2>1. q' \subseteq q /\ UNCHANGED <<next_message_id, seen_buf, outstanding>>
      BY <1>1, <1>5 DEF receive, process_incoming_packet
    <2>2. QueueTyped'
      BY <1>2, <2>1 DEF FilterInv, QueueTyped
    <2> QED
      BY <1>3, <2>1, <2>2, KeepsFilter
  <1>6. CASE P!fresh_packet(e, p) /\ e # Sender
    <2>1. /\ seen_buf' = take_all(seen_buf, accepted(p))
          /\ outstanding' = outstanding \ accepted(p)
          /\ UNCHANGED <<next_message_id, q>>
      BY <1>1, <1>6 DEF receive, process_incoming_packet
    <2> QED
      BY <1>1, <2>1, TakeFilter
  <1> QED
    BY <1>4, <1>5, <1>6

LEMMA NextFilter ==
  ASSUME IdEpoch, FilterInv, [Next]_vars
  PROVE  FilterInv'
  <1>1. CASE send_message
    BY <1>1, SendFilter
  <1>2. CASE update
    BY <1>2, UpdateFilter
  <1>3. ASSUME NEW e \in Peers, visit(e) PROVE FilterInv'
    BY <1>3, VisitFilter
  <1>4. ASSUME NEW e \in Peers, arrive(e) PROVE FilterInv'
    BY <1>4, ReceiveFilter DEF arrive
  <1>5. ASSUME NEW p \in net, lose(p) PROVE FilterInv'
    BY <1>5, LoseFilter
  <1>6. CASE UNCHANGED vars
    <2>1. UNCHANGED <<next_message_id, seen_buf, outstanding, q, net>>
      BY <1>6 DEF vars, message_vars
    <2>2. QueueTyped' /\ CopiesSent'
      BY <2>1 DEF FilterInv, QueueTyped, CopiesSent, SentIds
    <2> QED
      BY <2>1, <2>2, KeepsFilter
  <1> QED
    BY <1>1, <1>2, <1>3, <1>4, <1>5, <1>6 DEF Next

LEMMA FilterInvariant ==
  ASSUME IdEpoch
  PROVE  Spec => []FilterInv
  <1>1. Init => FilterInv
    BY InitFilter
  <1>2. FilterInv /\ [Next]_vars => FilterInv'
    BY NextFilter
  <1> QED
    BY <1>1, <1>2, PTL DEF Spec

-----------------------------------------------------------------------------
(* Theorems *)

\* No copy in flight is accepted after the delivery of its message.
NoSecondDelivery == \A p \in net : accepted(p) \subseteq outstanding

\* No message waits while SeenSize newer ones are sent. Nothing in the code sees to
\* that: a reliable channel takes any number of messages.
NotOvertaken ==
  \A id \in queued : id \in outstanding => next_message_id <= id + SeenSize

\* Unconditionally within the epoch of message ids, a message is delivered at most
\* once: however often it was resent, and however packet numbers wrapped meanwhile.
THEOREM DeliveredAtMostOnce ==
  ASSUME IdEpoch
  PROVE  Spec => []NoSecondDelivery
  <1>1. FilterInv => NoSecondDelivery
    BY AcceptsIs DEF FilterInv, CopiesSent, DeliveredRefused, NoSecondDelivery, accepted
  <1> QED
    BY <1>1, FilterInvariant, PTL

\* And it is accepted for as long as it was not delivered: the filter loses none of
\* the messages that keep up with the channel.
THEOREM ExactUnlessOvertaken ==
  ASSUME IdEpoch
  PROVE  Spec /\ []NotOvertaken => []FilterExact
  <1>1. FilterInv => NoSecondDelivery
    BY AcceptsIs DEF FilterInv, CopiesSent, DeliveredRefused, NoSecondDelivery, accepted
  <1>2. ASSUME FilterInv, NotOvertaken, NEW id \in queued
        PROVE  accepts_message(id) <=> id \in outstanding
    <2>1. id \in SentIds /\ id \in Ids /\ id \in Nat /\ next_message_id \in Nat
      BY <1>2, IdFacts DEF queued, FilterInv, QueueTyped, SentIds, Ids
    <2>2. accepts_message(id) => id \in outstanding
      BY <1>2, <2>1, AcceptsIs DEF FilterInv, DeliveredRefused
    <2>3. ASSUME id \in outstanding PROVE accepts_message(id)
      <3>1. ~ Seen!exists(seen_buf, id)
        BY <1>2, <2>1, <2>3 DEF FilterInv, HeldDelivered
      <3>2. seen_buf \in Filters /\ (seen_buf.sequence = 0 \/ seen_buf.sequence < next_message_id)
        BY <1>2 DEF FilterInv, FilterTyped
      <3>3. seen_buf.sequence \in Int
        BY <3>2, IdFacts DEF Filters, SeenRing!FiltersOver, SeenRing!BuffersOver
      <3>4. next_message_id <= id + SeenSize
        BY <1>2, <2>3 DEF NotOvertaken
      <3>5. id + SeenSize > seen_buf.sequence
        BY <2>1, <3>2, <3>3, <3>4, IdFacts
      <3> QED
        BY <2>1, <3>1, <3>2, <3>5, WindowExact DEF accepts_message
    <2> QED
      BY <2>2, <2>3
  <1>3. FilterInv /\ NotOvertaken => FilterExact
    BY <1>1, <1>2 DEF FilterExact, NoSecondDelivery
  <1> QED
    BY <1>3, FilterInvariant, PTL

\* In particular the first SeenSize messages (10000 in the code) can be
\* resent, delayed and reordered in any way.
THEOREM ExactFromTheStart ==
  ASSUME IdEpoch, MaxMessages <= SeenSize
  PROVE  Spec => []FilterExact
  <1>1. FilterInv => NotOvertaken
    BY IdFacts DEF FilterInv, QueueTyped, NotOvertaken, queued, SentIds, Ids
  <1> QED
    BY <1>1, FilterInvariant, ExactUnlessOvertaken, PTL
=============================================================================
