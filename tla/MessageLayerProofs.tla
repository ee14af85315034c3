------------------------- MODULE MessageLayerProofs -------------------------
(***************************************************************************)
(* What the application gets from two whole Picklebacks: messages arrive   *)
(* once and whole, an ack is only reported for a message that arrived, a   *)
(* reliable message is kept until it has and reported when it leaves its   *)
(* queue, no table is ever behind what is looked up in it, and handles     *)
(* outlive the wait for their ack. All in all, they implement              *)
(* MessageService. For any workload, channels, buffer sizes, limits and    *)
(* any splitting of messages over packets, within one epoch of message ids *)
(* and packet numbers.                                                     *)
(***************************************************************************)
EXTENDS MessageLayer, FiniteSetTheorems, WellFoundedInduction, TLAPS

\* No message id is greater.
MaxId == Len(Workload) * MaxParts

Ids == 0 .. MaxId

\* The ids used and the windows behind them fit in half the number space.
Epoch == MaxId + SeenSize < SeqMod \div 2

\* The values a seen_buf holds, which nothing reads.
Yes == TRUE
No == FALSE

SeenRing == INSTANCE SequenceBufferProofs WITH Size <- SeenSize, Default <- No

-----------------------------------------------------------------------------
(* The duplicate filter of a channel *)

\* A seen_buf whose numbers are in the epoch and not beyond the greatest one.
SeenBuffers ==
  {buf \in SeenRing!BuffersOver(Ids, {Yes, No}) :
     \A i \in 0 .. SeenSize - 1 : buf.tag[i] # SeqMod => buf.tag[i] <= buf.sequence}

\* An id that is refused.
Taken(buf, id) == ~ (Seen!check_sequence(buf, id) /\ ~ Seen!exists(buf, id))

LEMMA IdFacts ==
  /\ MaxId \in Nat /\ MaxParts \in Nat /\ MaxParts >= 1 /\ Len(Workload) \in Nat
  /\ SeqMod \in Nat /\ SeqMod >= 2 /\ SeenSize \in Nat /\ SeenSize >= 1
  /\ SeqMod \div 2 \in Nat /\ 2 * (SeqMod \div 2) <= SeqMod
  /\ Ids \in SUBSET Int /\ 0 \in Ids
  <1>1. MaxParts \in Nat /\ MaxParts >= 1 /\ Len(Workload) \in Nat
    BY WorkloadAssumption
  <1>2. MaxId \in Nat
    BY <1>1, SMT DEF MaxId
  <1>3. SeqMod \in Nat /\ SeqMod >= 2 /\ SeenSize \in Nat /\ SeenSize >= 1
    BY BufferAssumption
  <1>4. SeqMod \div 2 \in Nat /\ 2 * (SeqMod \div 2) <= SeqMod
    BY <1>3
  <1> QED
    BY <1>1, <1>2, <1>3, <1>4 DEF Ids

LEMMA SeenRingIs ==
  /\ \A buf, s, data : SeenRing!insert(buf, s, data) = Seen!insert(buf, s, data)
  /\ \A buf, s : SeenRing!check_sequence(buf, s) = Seen!check_sequence(buf, s)
  /\ \A buf, s : SeenRing!exists(buf, s) = Seen!exists(buf, s)
  /\ SeenRing!with_capacity = Seen!with_capacity
  /\ SeenRing!Slots = 0 .. SeenSize - 1 /\ SeenRing!NoSeq = SeqMod
  /\ SeenRing!Half = SeqMod \div 2
  BY DEF SeenRing!insert, SeenRing!advance, SeenRing!remove_range, SeenRing!clear,
     SeenRing!Slots, SeenRing!index, SeenRing!NoSeq, SeenRing!wrapping_add,
     SeenRing!sequence_greater_than, SeenRing!Half, SeenRing!check_sequence,
     SeenRing!window_start, SeenRing!wrapping_sub, SeenRing!exists, SeenRing!with_capacity,
     Seen!insert, Seen!advance, Seen!remove_range, Seen!clear,
     Seen!Slots, Seen!index, Seen!NoSeq, Seen!wrapping_add,
     Seen!sequence_greater_than, Seen!Half, Seen!check_sequence,
     Seen!window_start, Seen!wrapping_sub, Seen!exists, Seen!with_capacity, No

\* What the filter holds before anything arrived: nothing.
LEMMA SeenEmpty ==
  ASSUME Epoch
  PROVE  /\ Seen!with_capacity \in SeenBuffers
         /\ \A id \in Ids : ~ Seen!exists(Seen!with_capacity, id)
  <1> DEFINE new == Seen!with_capacity
  <1>1. /\ new \in SeenRing!BuffersOver(Ids, {Yes, No})
        /\ \A i \in 0 .. SeenSize - 1 : new.tag[i] = SeqMod
    BY IdFacts, SeenRingIs, SeenRing!EmptyBuffer
  <1>2. \A id \in Ids : id % SeenSize \in 0 .. SeenSize - 1 /\ id # SeqMod
    BY IdFacts DEF Epoch, Ids
  <1> HIDE DEF new
  <1>3. \A id \in Ids : new.tag[id % SeenSize] # id
    BY <1>1, <1>2
  <1> QED
    BY <1>1, <1>3 DEF SeenBuffers, Seen!exists, Seen!index, new

\* What was refused stays refused, what is taken is refused from then on, and
\* nothing else comes to be held.
LEMMA RingInsert ==
  ASSUME Epoch, NEW buf \in SeenBuffers, NEW s \in Ids, ~ Taken(buf, s),
         NEW new, new = SeenRing!insert(buf, s, Yes)
  PROVE  /\ new \in SeenBuffers
         /\ Taken(new, s)
         /\ \A id \in Ids : Taken(buf, id) => Taken(new, id)
         /\ \A id \in Ids : Seen!exists(new, id) => id = s \/ Seen!exists(buf, id)
  <1>1. \A b, id : SeenRing!Refuses(b, id) <=> Taken(b, id)
    BY SeenRingIs DEF SeenRing!Refuses, Taken
  <1>2. \A b : b \in SeenRing!FiltersOver(MaxId, {Yes, No}) <=> b \in SeenBuffers
    BY SeenRingIs DEF SeenBuffers, Ids, SeenRing!FiltersOver
  <1>3. MaxId \in Nat /\ MaxId + SeenSize < SeenRing!Half /\ s \in 0 .. MaxId
    BY IdFacts, SeenRingIs DEF Epoch, Ids
  <1>4. /\ buf \in SeenRing!FiltersOver(MaxId, {Yes, No}) /\ ~ SeenRing!Refuses(buf, s)
        /\ Yes \in {Yes, No} /\ No \in {Yes, No}
    BY <1>1, <1>2, Zenon
  <1>5. /\ new \in SeenRing!FiltersOver(MaxId, {Yes, No})
        /\ SeenRing!Refuses(new, s)
        /\ \A t \in 0 .. MaxId : SeenRing!Refuses(buf, t) => SeenRing!Refuses(new, t)
        /\ \A t \in 0 .. MaxId : SeenRing!exists(new, t) => t = s \/ SeenRing!exists(buf, t)
    BY <1>3, <1>4, IdFacts, SeenRing!FilterInsert, Zenon
  <1> QED
    BY <1>1, <1>2, <1>5, SeenRingIs, Zenon DEF Ids

LEMMA SeenInsert ==
  ASSUME Epoch, NEW buf \in SeenBuffers, NEW s \in Ids, ~ Taken(buf, s),
         NEW new, new = Seen!insert(buf, s, TRUE)
  PROVE  /\ new \in SeenBuffers
         /\ Taken(new, s)
         /\ \A id \in Ids : Taken(buf, id) => Taken(new, id)
         /\ \A id \in Ids : Seen!exists(new, id) => id = s \/ Seen!exists(buf, id)
  <1>1. new = SeenRing!insert(buf, s, Yes)
    BY SeenRingIs, Zenon DEF Yes
  <1> QED
    BY <1>1, RingInsert, Zenon

-----------------------------------------------------------------------------
(* Messages and their parts *)

Calls == [id : Ids, channel : Channels, parts : 1 .. MaxParts, ok : BOOLEAN]

\* The calls of send_message at one end: each has ids of its own, in order.
CallList(sq) ==
  /\ sq \in Seq(Calls)
  /\ \A k \in 1 .. Len(sq) : sq[k].id + sq[k].parts <= MaxId
  /\ \A k, l \in 1 .. Len(sq) : k < l => sq[k].id + sq[k].parts <= sq[l].id

fragment_of(call, i) ==
  IF call.parts = 1 THEN NoFrag
  ELSE [index |-> i, num_fragments |-> call.parts, parent_id |-> call.id]

\* Part i of call k, as it is on the wire.
part_of(sq, k, i) ==
  [id |-> sq[k].id + i, channel |-> sq[k].channel, fragment |-> fragment_of(sq[k], i),
   body |-> [msg |-> k, part |-> i]]

PartsOf(sq, k) == 0 .. sq[k].parts - 1

\* m is a part of some call.
IsPart(sq, m) == \E k \in 1 .. Len(sq) : \E i \in PartsOf(sq, k) : m = part_of(sq, k, i)

bodies(k, D) == [i \in D |-> [msg |-> k, part |-> i]]

\* Call k, as it should arrive.
whole_of(sq, k) == [channel |-> sq[k].channel, parts |-> bodies(k, PartsOf(sq, k))]

\* What the reassembler keeps of call k when it has the parts D.
pieces(sq, k, D) == [num_fragments |-> sq[k].parts, fragments |-> bodies(k, D)]

LEMMA CallFacts ==
  ASSUME NEW sq, CallList(sq), NEW k \in 1 .. Len(sq)
  PROVE  /\ sq[k].id \in Ids /\ sq[k].id \in Nat /\ sq[k].channel \in Channels
         /\ sq[k].parts \in Nat /\ sq[k].parts >= 1 /\ sq[k].parts <= MaxParts
         /\ \A i \in PartsOf(sq, k) : i \in Nat /\ sq[k].id + i \in Ids /\ i < sq[k].parts
         /\ 0 \in PartsOf(sq, k)
  <1>1. sq[k] \in Calls /\ sq[k].id + sq[k].parts <= MaxId
    BY DEF CallList
  <1>2. /\ sq[k].id \in Ids /\ sq[k].channel \in Channels
        /\ sq[k].parts \in Nat /\ sq[k].parts >= 1 /\ sq[k].parts <= MaxParts
    BY <1>1, IdFacts DEF Calls
  <1>3. PICK s, n : s = sq[k].id /\ n = sq[k].parts
    OBVIOUS
  <1>4. s \in 0 .. MaxId /\ n \in Nat /\ n >= 1 /\ s + n <= MaxId /\ MaxId \in Nat
    BY <1>1, <1>2, <1>3, IdFacts DEF Ids
  <1>5. \A i \in 0 .. n - 1 : i \in Nat /\ s + i \in 0 .. MaxId /\ i < n
    BY <1>4
  <1>6. 0 \in 0 .. n - 1
    BY <1>4
  <1> QED
    BY <1>2, <1>3, <1>4, <1>5, <1>6 DEF PartsOf, Ids

\* An id is that of one part of one call.
LEMMA UniqueId ==
  ASSUME NEW sq, CallList(sq), NEW k \in 1 .. Len(sq), NEW i \in PartsOf(sq, k),
         NEW l \in 1 .. Len(sq), NEW j \in PartsOf(sq, l), sq[k].id + i = sq[l].id + j
  PROVE  k = l /\ i = j
  <1>1. /\ sq[k].id \in Nat /\ sq[k].parts \in Nat /\ i \in Nat /\ i < sq[k].parts
        /\ sq[l].id \in Nat /\ sq[l].parts \in Nat /\ j \in Nat /\ j < sq[l].parts
        /\ k \in Int /\ l \in Int
    BY CallFacts
  <1>2. /\ k < l => sq[k].id + sq[k].parts <= sq[l].id
        /\ l < k => sq[l].id + sq[l].parts <= sq[k].id
    BY DEF CallList
  <1>3. PICK s, m, t, n : s = sq[k].id /\ m = sq[k].parts /\ t = sq[l].id /\ n = sq[l].parts
    OBVIOUS
  <1>4. /\ s \in Nat /\ m \in Nat /\ i \in Nat /\ i < m
        /\ t \in Nat /\ n \in Nat /\ j \in Nat /\ j < n /\ s + i = t + j
    BY <1>1, <1>3
  <1>5. ~ (k < l)
    <2>1. k < l => s + m <= t
      BY <1>2, <1>3
    <2> QED
      BY <1>4, <2>1
  <1>6. ~ (l < k)
    <2>1. l < k => t + n <= s
      BY <1>2, <1>3
    <2> QED
      BY <1>4, <2>1
  <1>7. k = l
    BY <1>1, <1>5, <1>6
  <1> QED
    BY <1>3, <1>4, <1>7

LEMMA WholeUnique ==
  ASSUME NEW sq, CallList(sq), NEW k \in 1 .. Len(sq), NEW l \in 1 .. Len(sq),
         whole_of(sq, k) = whole_of(sq, l)
  PROVE  k = l
  <1>1. bodies(k, PartsOf(sq, k)) = bodies(l, PartsOf(sq, l))
    BY DEF whole_of
  <1>2. 0 \in PartsOf(sq, k) /\ 0 \in PartsOf(sq, l)
    BY CallFacts
  <1>3. bodies(k, PartsOf(sq, k))[0] = [msg |-> k, part |-> 0]
    BY <1>2 DEF bodies
  <1>4. bodies(l, PartsOf(sq, l))[0] = [msg |-> l, part |-> 0]
    BY <1>2 DEF bodies
  <1> QED
    BY <1>1, <1>3, <1>4

-----------------------------------------------------------------------------
(* The receiving end of one direction *)

\* Part i of call k was accepted: it is with the reassembler, or the whole
\* message with the application.
Got(sq, ip, inbox, k, i) ==
  \/ whole_of(sq, k) \in DOMAIN inbox
  \/ sq[k].id \in DOMAIN ip /\ i \in DOMAIN ip[sq[k].id].fragments

TakenPart(sq, seen, k, i) == Taken(seen[sq[k].channel], sq[k].id + i)

\* Every entry of the reassembler has some parts of one call, not all of them,
\* and none of these can be accepted again.
PiecesOf(sq, seen, p, x) ==
  \E k \in 1 .. Len(sq) : \E D \in SUBSET PartsOf(sq, k) :
    /\ sq[k].id = p /\ x = pieces(sq, k, D) /\ D # PartsOf(sq, k)
    /\ \A i \in D : TakenPart(sq, seen, k, i)

InProgress(sq, seen, ip) ==
  /\ ip = [p \in DOMAIN ip |-> ip[p]]
  /\ \A p \in DOMAIN ip : PiecesOf(sq, seen, p, ip[p])

\* What the application got is whole, is there once, and no part of it can be
\* accepted again.
Inbox(sq, seen, inbox) ==
  /\ inbox = [x \in DOMAIN inbox |-> 1]
  /\ \A x \in DOMAIN inbox : \E k \in 1 .. Len(sq) :
       /\ x = whole_of(sq, k)
       /\ \A i \in PartsOf(sq, k) : TakenPart(sq, seen, k, i)

\* What the filter holds was not dropped.
Accounted(sq, seen, ip, inbox) ==
  \A c \in Channels, id \in Ids :
    Seen!exists(seen[c], id) =>
      \E k \in 1 .. Len(sq) : \E i \in PartsOf(sq, k) :
        c = sq[k].channel /\ id = sq[k].id + i /\ Got(sq, ip, inbox, k, i)

Receiver(sq, seen, ip, inbox) ==
  /\ seen \in [Channels -> SeenBuffers]
  /\ InProgress(sq, seen, ip)
  /\ Inbox(sq, seen, inbox)
  /\ Accounted(sq, seen, ip, inbox)

\* The filters go forward: what was refused is refused.
Forward(seen, new) ==
  /\ new \in [Channels -> SeenBuffers]
  /\ \A c \in Channels, id \in Ids : Taken(seen[c], id) => Taken(new[c], id)

\* Nothing but id s of channel ch was added.
OnlyAdded(seen, new, ch, s) ==
  \A c \in Channels, id \in Ids :
    Seen!exists(new[c], id) => (c = ch /\ id = s) \/ Seen!exists(seen[c], id)

LEMMA SeenForward ==
  ASSUME Epoch, NEW seen \in [Channels -> SeenBuffers], NEW ch \in Channels, NEW s \in Ids,
         ~ Taken(seen[ch], s),
         NEW new, new = [seen EXCEPT ![ch] = Seen!insert(@, s, TRUE)]
  PROVE  Forward(seen, new) /\ OnlyAdded(seen, new, ch, s) /\ Taken(new[ch], s)
  <1>1. PICK b : b = Seen!insert(seen[ch], s, TRUE)
    OBVIOUS
  <1>2. new = [seen EXCEPT ![ch] = b]
    BY <1>1, Zenon
  <1>3. seen[ch] \in SeenBuffers
    BY Zenon
  <1>4. /\ b \in SeenBuffers
        /\ Taken(b, s)
        /\ \A id \in Ids : Taken(seen[ch], id) => Taken(b, id)
        /\ \A id \in Ids : Seen!exists(b, id) => id = s \/ Seen!exists(seen[ch], id)
    BY <1>1, <1>3, SeenInsert, Zenon
  <1>5. new \in [Channels -> SeenBuffers]
    BY <1>2, <1>4, Zenon
  <1>6. new[ch] = b /\ \A c \in Channels : c # ch => new[c] = seen[c]
    BY <1>2, Zenon
  <1>7. Forward(seen, new)
    BY <1>4, <1>5, <1>6, Zenon DEF Forward
  <1>8. OnlyAdded(seen, new, ch, s)
    BY <1>4, <1>6, Zenon DEF OnlyAdded
  <1> QED
    BY <1>4, <1>6, <1>7, <1>8

\* The entries that do not change stay right.
LEMMA PiecesKept ==
  ASSUME NEW sq, CallList(sq), NEW seen, NEW new, Forward(seen, new), NEW p, NEW x,
         PiecesOf(sq, seen, p, x)
  PROVE  PiecesOf(sq, new, p, x)
  <1>1. PICK k \in 1 .. Len(sq) : \E D \in SUBSET PartsOf(sq, k) :
          /\ sq[k].id = p /\ x = pieces(sq, k, D) /\ D # PartsOf(sq, k)
          /\ \A i \in D : TakenPart(sq, seen, k, i)
    BY DEF PiecesOf
  <1>2. PICK D \in SUBSET PartsOf(sq, k) :
          /\ sq[k].id = p /\ x = pieces(sq, k, D) /\ D # PartsOf(sq, k)
          /\ \A i \in D : TakenPart(sq, seen, k, i)
    BY <1>1
  <1>3. \A i \in D : TakenPart(sq, new, k, i)
    BY <1>2, CallFacts DEF TakenPart, Forward
  <1> QED
    BY <1>2, <1>3 DEF PiecesOf

LEMMA InboxKept ==
  ASSUME NEW sq, CallList(sq), NEW seen, NEW new, Forward(seen, new), NEW inbox,
         Inbox(sq, seen, inbox)
  PROVE  Inbox(sq, new, inbox)
  BY CallFacts DEF Inbox, TakenPart, Forward

\* A message that was complete before none of whose parts can be accepted again.
LEMMA NotDeliveredYet ==
  ASSUME NEW sq, CallList(sq), NEW seen, NEW inbox, Inbox(sq, seen, inbox),
         NEW k \in 1 .. Len(sq), NEW i \in PartsOf(sq, k), ~ TakenPart(sq, seen, k, i)
  PROVE  whole_of(sq, k) \notin DOMAIN inbox
  <1> SUFFICES ASSUME whole_of(sq, k) \in DOMAIN inbox PROVE FALSE
    OBVIOUS
  <1>1. PICK l \in 1 .. Len(sq) : /\ whole_of(sq, k) = whole_of(sq, l)
                                  /\ \A j \in PartsOf(sq, l) : TakenPart(sq, seen, l, j)
    BY DEF Inbox
  <1>2. l = k
    BY <1>1, WholeUnique
  <1> QED
    BY <1>1, <1>2

one_more(inbox, w) == inbox (+) SetToBag({w})

Gains(inbox, more, w) == \A x : x \in DOMAIN more <=> x \in DOMAIN inbox \/ x = w

\* Call k, all of whose parts are taken now, is handed up for the first time.
Delivers(sq, seen, k, inbox, more) ==
  /\ CallList(sq) /\ k \in 1 .. Len(sq) /\ Inbox(sq, seen, inbox)
  /\ whole_of(sq, k) \notin DOMAIN inbox
  /\ \A i \in PartsOf(sq, k) : TakenPart(sq, seen, k, i)
  /\ more = one_more(inbox, whole_of(sq, k))

\* One more whole message.
LEMMA InboxMore ==
  ASSUME NEW sq, NEW seen, NEW k, NEW inbox, NEW more, Delivers(sq, seen, k, inbox, more)
  PROVE  Inbox(sq, seen, more) /\ Gains(inbox, more, whole_of(sq, k))
  <1>1. PICK w : w = whole_of(sq, k)
    OBVIOUS
  <1>2. inbox = [x \in DOMAIN inbox |-> 1]
    BY DEF Inbox, Delivers
  <1>3. more = [x \in DOMAIN inbox \cup {w} |->
                  (IF x \in DOMAIN inbox THEN inbox[x] ELSE 0) + (IF x \in {w} THEN 1 ELSE 0)]
    BY <1>1 DEF (+), SetToBag, Delivers, one_more
  <1>4. \A x \in DOMAIN inbox : inbox[x] = 1 /\ x # w
    BY <1>1, <1>2 DEF Delivers
  <1>5. \A x \in DOMAIN inbox \cup {w} :
          (IF x \in DOMAIN inbox THEN inbox[x] ELSE 0) + (IF x \in {w} THEN 1 ELSE 0) = 1
    <2> TAKE x \in DOMAIN inbox \cup {w}
    <2>1. CASE x = w
      <3>1. x \notin DOMAIN inbox /\ x \in {w}
        BY <1>1, <2>1 DEF Delivers
      <3>2. 0 + 1 = 1
        OBVIOUS
      <3> QED BY <3>1, <3>2
    <2>2. CASE x # w
      <3>1. inbox[x] = 1 /\ x \in DOMAIN inbox /\ x \notin {w}
        BY <1>4, <2>2
      <3>2. 1 + 0 = 1
        OBVIOUS
      <3> QED BY <3>1, <3>2
    <2> QED BY <2>1, <2>2
  <1>6. DOMAIN more = DOMAIN inbox \cup {w} /\ more = [x \in DOMAIN more |-> 1]
    BY <1>3, <1>5
  <1>7. \A x \in DOMAIN more : \E l \in 1 .. Len(sq) :
          /\ x = whole_of(sq, l)
          /\ \A i \in PartsOf(sq, l) : TakenPart(sq, seen, l, i)
    BY <1>1, <1>6 DEF Inbox, Delivers
  <1> QED
    BY <1>1, <1>6, <1>7 DEF Inbox, Gains

-----------------------------------------------------------------------------
(* One message arrives *)

\* No part that was accepted gets lost.
GotKept(sq, ip, inbox, ip2, inbox2) ==
  \A l \in 1 .. Len(sq) : \A j \in PartsOf(sq, l) :
    Got(sq, ip, inbox, l, j) => Got(sq, ip2, inbox2, l, j)

\* Part i of call k passes the filter.
Accepts(sq, seen, new, k, i) ==
  /\ CallList(sq) /\ k \in 1 .. Len(sq) /\ i \in PartsOf(sq, k)
  /\ ~ TakenPart(sq, seen, k, i) /\ TakenPart(sq, new, k, i)
  /\ Forward(seen, new) /\ OnlyAdded(seen, new, sq[k].channel, sq[k].id + i)

LEMMA AccountedMore ==
  ASSUME NEW sq, NEW seen, NEW new, NEW k, NEW i, Accepts(sq, seen, new, k, i),
         NEW ip, NEW inbox, Accounted(sq, seen, ip, inbox),
         NEW ip2, NEW inbox2, Got(sq, ip2, inbox2, k, i), GotKept(sq, ip, inbox, ip2, inbox2)
  PROVE  Accounted(sq, new, ip2, inbox2)
  <1> SUFFICES ASSUME NEW c \in Channels, NEW id \in Ids, Seen!exists(new[c], id)
               PROVE  \E l \in 1 .. Len(sq) : \E j \in PartsOf(sq, l) :
                        c = sq[l].channel /\ id = sq[l].id + j /\ Got(sq, ip2, inbox2, l, j)
    BY DEF Accounted
  <1>1. CASE Seen!exists(seen[c], id)
    BY <1>1 DEF Accounted, GotKept
  <1>2. CASE c = sq[k].channel /\ id = sq[k].id + i
    BY <1>2 DEF Accepts
  <1> QED
    BY <1>1, <1>2 DEF OnlyAdded, Accepts

\* A call's id belongs to no other call.
LEMMA UniqueParent ==
  ASSUME NEW sq, CallList(sq), NEW k \in 1 .. Len(sq), NEW l \in 1 .. Len(sq),
         sq[k].id = sq[l].id
  PROVE  k = l
  <1>1. 0 \in PartsOf(sq, k) /\ 0 \in PartsOf(sq, l)
    BY CallFacts
  <1>2. sq[k].id + 0 = sq[l].id + 0
    OBVIOUS
  <1> QED
    BY <1>1, <1>2, UniqueId

\* What the reassembler has of a call.
LEMMA PiecesAre ==
  ASSUME NEW sq, CallList(sq), NEW seen, NEW ip, InProgress(sq, seen, ip),
         NEW k \in 1 .. Len(sq), sq[k].id \in DOMAIN ip
  PROVE  \E D \in SUBSET PartsOf(sq, k) :
           /\ ip[sq[k].id] = pieces(sq, k, D) /\ D # PartsOf(sq, k)
           /\ \A i \in D : TakenPart(sq, seen, k, i)
  <1>1. PiecesOf(sq, seen, sq[k].id, ip[sq[k].id])
    BY DEF InProgress
  <1>2. PICK l \in 1 .. Len(sq) : \E D \in SUBSET PartsOf(sq, l) :
          /\ sq[l].id = sq[k].id /\ ip[sq[k].id] = pieces(sq, l, D) /\ D # PartsOf(sq, l)
          /\ \A i \in D : TakenPart(sq, seen, l, i)
    BY <1>1 DEF PiecesOf
  <1>3. l = k
    BY <1>2, UniqueParent
  <1> QED
    BY <1>2, <1>3

\* A message that is one packet's worth is handed up at once.
LEMMA AcceptWhole ==
  ASSUME NEW sq, NEW seen, NEW new, NEW k, NEW i, Accepts(sq, seen, new, k, i),
         NEW ip, NEW inbox, Receiver(sq, seen, ip, inbox),
         PartsOf(sq, k) = {i},
         NEW more, more = one_more(inbox, whole_of(sq, k))
  PROVE  Receiver(sq, new, ip, more)
  <1>1. InProgress(sq, new, ip)
    BY PiecesKept DEF Receiver, InProgress, Accepts
  <1>2. whole_of(sq, k) \notin DOMAIN inbox
    BY NotDeliveredYet DEF Receiver, Accepts
  <1>3. Inbox(sq, new, inbox)
    BY InboxKept DEF Receiver, Accepts
  <1>4. Inbox(sq, new, more) /\ Gains(inbox, more, whole_of(sq, k))
    <2>1. Delivers(sq, new, k, inbox, more)
      BY <1>2, <1>3 DEF Delivers, Accepts
    <2> QED
      BY <2>1, InboxMore
  <1>5. Got(sq, ip, more, k, i)
    BY <1>4 DEF Got, Gains
  <1>6. GotKept(sq, ip, inbox, ip, more) /\ Accounted(sq, seen, ip, inbox)
    BY <1>4 DEF Got, Gains, GotKept, Receiver
  <1>7. Accounted(sq, new, ip, more)
    BY <1>5, <1>6, AccountedMore
  <1> QED
    BY <1>1, <1>4, <1>7 DEF Receiver, Forward, Accepts

\* The last part: the message is handed up and leaves the reassembler.
LEMMA AcceptLast ==
  ASSUME NEW sq, NEW seen, NEW new, NEW k, NEW i, Accepts(sq, seen, new, k, i),
         NEW ip, NEW inbox, Receiver(sq, seen, ip, inbox),
         NEW D \in SUBSET PartsOf(sq, k), D \cup {i} = PartsOf(sq, k),
         \A j \in D : TakenPart(sq, seen, k, j),
         NEW left, left = [p \in DOMAIN ip \ {sq[k].id} |-> ip[p]],
         NEW more, more = one_more(inbox, whole_of(sq, k))
  PROVE  Receiver(sq, new, left, more)
  <1>1. DOMAIN left = DOMAIN ip \ {sq[k].id} /\ \A p \in DOMAIN left : left[p] = ip[p]
    OBVIOUS
  <1>2. InProgress(sq, new, left)
    <2>1. \A p \in DOMAIN left : PiecesOf(sq, new, p, left[p])
      BY <1>1, PiecesKept DEF Receiver, InProgress, Accepts
    <2>2. left = [p \in DOMAIN left |-> left[p]]
      OBVIOUS
    <2> QED
      BY <2>1, <2>2 DEF InProgress
  <1>3. whole_of(sq, k) \notin DOMAIN inbox
    BY NotDeliveredYet DEF Receiver, Accepts
  <1>4. Inbox(sq, new, inbox)
    BY InboxKept DEF Receiver, Accepts
  <1>5. \A j \in PartsOf(sq, k) : TakenPart(sq, new, k, j)
    <2>1. \A j \in D : TakenPart(sq, new, k, j)
      BY CallFacts DEF TakenPart, Forward, Accepts
    <2> QED
      BY <2>1 DEF Accepts
  <1>6. Inbox(sq, new, more) /\ Gains(inbox, more, whole_of(sq, k))
    <2>1. Delivers(sq, new, k, inbox, more)
      BY <1>3, <1>4, <1>5 DEF Delivers, Accepts
    <2> QED
      BY <2>1, InboxMore
  <1>7. Got(sq, left, more, k, i)
    BY <1>6 DEF Got, Gains
  <1>8. ASSUME NEW l \in 1 .. Len(sq), NEW j \in PartsOf(sq, l), Got(sq, ip, inbox, l, j)
        PROVE  Got(sq, left, more, l, j)
    <2>1. CASE l = k
      BY <1>6, <2>1 DEF Got, Gains
    <2>2. CASE l # k
      <3>1. sq[l].id # sq[k].id
        BY <2>2, UniqueParent DEF Accepts
      <3> QED
        BY <1>1, <1>6, <1>8, <3>1 DEF Got, Gains
    <2> QED
      BY <2>1, <2>2
  <1>9. GotKept(sq, ip, inbox, left, more) /\ Accounted(sq, seen, ip, inbox)
    BY <1>8 DEF GotKept, Receiver
  <1>10. Accounted(sq, new, left, more)
    BY <1>7, <1>9, AccountedMore
  <1> QED
    BY <1>2, <1>6, <1>10 DEF Receiver, Forward, Accepts

\* Any other part waits with the reassembler.
LEMMA AcceptPiece ==
  ASSUME NEW sq, NEW seen, NEW new, NEW k, NEW i, Accepts(sq, seen, new, k, i),
         NEW ip, NEW inbox, Receiver(sq, seen, ip, inbox),
         NEW D \in SUBSET PartsOf(sq, k), D \cup {i} # PartsOf(sq, k),
         \A j \in D : TakenPart(sq, seen, k, j),
         sq[k].id \in DOMAIN ip => ip[sq[k].id] = pieces(sq, k, D),
         NEW ip2, ip2 = with(ip, sq[k].id, pieces(sq, k, D \cup {i}))
  PROVE  Receiver(sq, new, ip2, inbox)
  <1>1. PICK parent, x : parent = sq[k].id /\ x = pieces(sq, k, D \cup {i})
    OBVIOUS
  <1>2. ip2 = [p \in DOMAIN ip \cup {parent} |-> IF p = parent THEN x ELSE ip[p]]
    BY <1>1 DEF with
  <1>3. /\ DOMAIN ip2 = DOMAIN ip \cup {parent} /\ ip2[parent] = x
        /\ \A p \in DOMAIN ip2 : p # parent => p \in DOMAIN ip /\ ip2[p] = ip[p]
        /\ ip2 = [p \in DOMAIN ip2 |-> ip2[p]]
    BY <1>2
  <1>4. PiecesOf(sq, new, parent, x)
    <2>1. \A j \in D \cup {i} : TakenPart(sq, new, k, j)
      BY CallFacts DEF TakenPart, Forward, Accepts
    <2>2. D \cup {i} \in SUBSET PartsOf(sq, k)
      BY DEF Accepts
    <2> QED
      BY <1>1, <2>1, <2>2 DEF PiecesOf, Accepts
  <1>5. InProgress(sq, new, ip2)
    <2>1. \A p \in DOMAIN ip : PiecesOf(sq, new, p, ip[p])
      BY PiecesKept DEF Receiver, InProgress, Accepts
    <2> QED
      BY <1>3, <1>4, <2>1 DEF InProgress
  <1>6. Inbox(sq, new, inbox)
    BY InboxKept DEF Receiver, Accepts
  <1>7. x.fragments = bodies(k, D \cup {i}) /\ DOMAIN x.fragments = D \cup {i}
    BY <1>1 DEF pieces, bodies
  <1>8. Got(sq, ip2, inbox, k, i)
    BY <1>1, <1>3, <1>7 DEF Got
  <1>9. ASSUME NEW l \in 1 .. Len(sq), NEW j \in PartsOf(sq, l), Got(sq, ip, inbox, l, j)
        PROVE  Got(sq, ip2, inbox, l, j)
    <2>1. CASE l = k
      <3>1. parent \in DOMAIN ip => DOMAIN ip[parent].fragments = D
        BY <1>1 DEF pieces, bodies
      <3> QED
        BY <1>1, <1>3, <1>7, <1>9, <2>1, <3>1 DEF Got
    <2>2. CASE l # k
      <3>1. sq[l].id # parent
        BY <1>1, <2>2, UniqueParent DEF Accepts
      <3> QED
        BY <1>3, <1>9, <3>1 DEF Got
    <2> QED
      BY <2>1, <2>2
  <1>10. GotKept(sq, ip, inbox, ip2, inbox) /\ Accounted(sq, seen, ip, inbox)
    BY <1>9 DEF GotKept, Receiver
  <1>11. Accounted(sq, new, ip2, inbox)
    BY <1>8, <1>10, AccountedMore
  <1> QED
    BY <1>5, <1>6, <1>11 DEF Receiver, Forward, Accepts

\* The state that process_received_message works on.
state(seen, ip, inbox, panic) ==
  [seen |-> seen, in_progress |-> ip, inbox |-> inbox, panic |-> panic]

LEMMA StateFields ==
  ASSUME NEW seen, NEW ip, NEW inbox, NEW panic, NEW x, NEW r, r = state(seen, ip, inbox, panic)
  PROVE  /\ r.seen = seen /\ r.in_progress = ip /\ r.inbox = inbox /\ r.panic = panic
         /\ [r EXCEPT !.seen = x] = state(x, ip, inbox, panic)
         /\ [r EXCEPT !.in_progress = x] = state(seen, x, inbox, panic)
         /\ [r EXCEPT !.inbox = x] = state(seen, ip, x, panic)
  BY DEF state

LEMMA DeliverState ==
  ASSUME NEW seen, NEW ip, NEW inbox, NEW panic, NEW r, r = state(seen, ip, inbox, panic),
         NEW c, NEW parts
  PROVE  deliver(r, c, parts) =
           state(seen, ip, one_more(inbox, [channel |-> c, parts |-> parts]), panic)
  <1>1. PICK x : x = one_more(inbox, [channel |-> c, parts |-> parts])
    OBVIOUS
  <1>2. r.inbox (+) SetToBag({[channel |-> c, parts |-> parts]}) = x
    BY <1>1, StateFields DEF one_more
  <1>3. deliver(r, c, parts) = [r EXCEPT !.inbox = x]
    BY <1>2 DEF deliver
  <1> QED
    BY <1>1, <1>3, StateFields

\* The fields of a part on the wire.
LEMMA PartFields ==
  ASSUME NEW sq, CallList(sq), NEW k \in 1 .. Len(sq), NEW i \in PartsOf(sq, k),
         NEW m, m = part_of(sq, k, i)
  PROVE  /\ m.id = sq[k].id + i /\ m.channel = sq[k].channel
         /\ m.body = [msg |-> k, part |-> i]
         /\ m.fragment = NoFrag <=> sq[k].parts = 1
         /\ m.fragment # NoFrag =>
              /\ m.fragment.index = i /\ m.fragment.num_fragments = sq[k].parts
              /\ m.fragment.parent_id = sq[k].id
  <1>1. m.fragment = fragment_of(sq[k], i)
    BY DEF part_of
  <1>2. ASSUME sq[k].parts # 1
        PROVE  /\ m.fragment = [index |-> i, num_fragments |-> sq[k].parts, parent_id |-> sq[k].id]
               /\ m.fragment # NoFrag
    <2>1. m.fragment = [index |-> i, num_fragments |-> sq[k].parts, parent_id |-> sq[k].id]
      BY <1>1, <1>2 DEF fragment_of
    <2>2. m.fragment.index = i /\ i # -1
      BY <2>1, CallFacts
    <2>3. NoFrag.index = -1
      BY DEF NoFrag
    <2> QED
      BY <2>1, <2>2, <2>3
  <1>3. sq[k].parts = 1 => m.fragment = NoFrag
    BY <1>1 DEF fragment_of
  <1> QED
    BY <1>2, <1>3 DEF part_of

LEMMA BodiesMore ==
  ASSUME NEW k, NEW D, NEW i
  PROVE  with(bodies(k, D), i, [msg |-> k, part |-> i]) = bodies(k, D \cup {i})
  BY DEF with, bodies

LEMMA NoBodies ==
  ASSUME NEW k
  PROVE  << >> = bodies(k, {})
  BY DEF bodies

\* The set of all parts is the only one of its size.
LEMMA AllParts ==
  ASSUME NEW sq, CallList(sq), NEW k \in 1 .. Len(sq), NEW D \in SUBSET PartsOf(sq, k)
  PROVE  Cardinality(D) = sq[k].parts <=> D = PartsOf(sq, k)
  <1>1. sq[k].parts \in Nat /\ sq[k].parts >= 1
    BY CallFacts
  <1>2. IsFiniteSet(PartsOf(sq, k)) /\ Cardinality(PartsOf(sq, k)) = sq[k].parts
    <2>1. 0 \in Int /\ sq[k].parts - 1 \in Int /\ ~ (0 > sq[k].parts - 1)
          /\ (sq[k].parts - 1) - 0 + 1 = sq[k].parts
      BY <1>1
    <2> QED
      BY <2>1, FS_Interval DEF PartsOf
  <1>3. PICK S : S = PartsOf(sq, k)
    OBVIOUS
  <1>4. D \in SUBSET S /\ IsFiniteSet(S)
    BY <1>2, <1>3
  <1>5. Cardinality(D) = Cardinality(S) => D = S
    BY <1>4, FS_Subset
  <1> QED
    BY <1>2, <1>3, <1>5

\* What the reassembler has of a call, as add_fragment finds it or makes it.
found(sq, ip, k) ==
  IF sq[k].id \in DOMAIN ip THEN ip[sq[k].id]
  ELSE [num_fragments |-> sq[k].parts, fragments |-> << >>]

LEMMA FoundPieces ==
  ASSUME NEW sq, CallList(sq), NEW seen, NEW ip, InProgress(sq, seen, ip), NEW k \in 1 .. Len(sq)
  PROVE  \E D \in SUBSET PartsOf(sq, k) :
           /\ found(sq, ip, k) = pieces(sq, k, D) /\ D # PartsOf(sq, k)
           /\ \A i \in D : TakenPart(sq, seen, k, i)
  <1>1. CASE sq[k].id \in DOMAIN ip
    BY <1>1, PiecesAre DEF found
  <1>2. CASE sq[k].id \notin DOMAIN ip
    <2>1. found(sq, ip, k) = pieces(sq, k, {})
      BY <1>2, NoBodies DEF found, pieces
    <2>2. {} # PartsOf(sq, k)
      BY CallFacts
    <2> QED
      BY <2>1, <2>2
  <1> QED
    BY <1>1, <1>2

\* add_fragment, on a part that was not accepted before: no assertion fails.
NewPiece(sq, ip, k, i, D) ==
  /\ CallList(sq) /\ k \in 1 .. Len(sq) /\ i \in PartsOf(sq, k) /\ sq[k].parts # 1
  /\ D \in SUBSET PartsOf(sq, k) /\ found(sq, ip, k) = pieces(sq, k, D) /\ i \notin D

LastPiece(sq, k, i, D) == D \cup {i} = PartsOf(sq, k)

without(ip, p) == [x \in DOMAIN ip \ {p} |-> ip[x]]

after_piece(sq, seen, ip, inbox, panic, k, i, D) ==
  IF LastPiece(sq, k, i, D)
    THEN state(seen, without(ip, sq[k].id), one_more(inbox, whole_of(sq, k)), panic)
    ELSE state(seen, with(ip, sq[k].id, pieces(sq, k, D \cup {i})), inbox, panic)

LEMMA AddFragmentIs ==
  ASSUME NEW sq, NEW ip, NEW k, NEW i, NEW D, NewPiece(sq, ip, k, i, D),
         NEW seen, NEW inbox, NEW panic,
         NEW r, r = state(seen, ip, inbox, panic), NEW m, m = part_of(sq, k, i)
  PROVE  add_fragment(r, m) = after_piece(sq, seen, ip, inbox, panic, k, i, D)
  <1> USE DEF NewPiece
  <1>1. /\ m.channel = sq[k].channel /\ m.body = [msg |-> k, part |-> i]
        /\ m.fragment.index = i /\ m.fragment.num_fragments = sq[k].parts
        /\ m.fragment.parent_id = sq[k].id
    BY PartFields
  <1>2. r.in_progress = ip
    BY StateFields
  <1>3. PICK inc : inc = pieces(sq, k, D)
    OBVIOUS
  <1>4. /\ inc.num_fragments = sq[k].parts /\ inc.fragments = bodies(k, D)
        /\ DOMAIN inc.fragments = D
    BY <1>3 DEF pieces, bodies
  <1>5. PICK parts : parts = with(inc.fragments, m.fragment.index, m.body)
    OBVIOUS
  <1>6. parts = bodies(k, D \cup {i}) /\ DOMAIN parts = D \cup {i}
    <2>1. parts = bodies(k, D \cup {i})
      BY <1>1, <1>4, <1>5, BodiesMore
    <2> QED
      BY <2>1 DEF bodies
  <1>7. ~ bad_index(inc, m) /\ m.fragment.index \notin DOMAIN inc.fragments
    BY <1>1, <1>4, CallFacts DEF bad_index
  <1>8. is_complete(inc, parts) <=> D \cup {i} = PartsOf(sq, k)
    <2>1. D \cup {i} \in SUBSET PartsOf(sq, k)
      OBVIOUS
    <2> QED
      BY <1>4, <1>6, <2>1, AllParts DEF is_complete
  <1>9. [inc EXCEPT !.fragments = parts] = pieces(sq, k, D \cup {i})
    BY <1>3, <1>6 DEF pieces
  <1>10. inc = IF m.fragment.parent_id \in DOMAIN r.in_progress
                 THEN r.in_progress[m.fragment.parent_id]
                 ELSE [num_fragments |-> m.fragment.num_fragments, fragments |-> << >>]
    BY <1>1, <1>2, <1>3 DEF found
  <1>11. add_fragment(r, m) =
           IF is_complete(inc, parts)
             THEN deliver([r EXCEPT !.in_progress =
                             [p \in DOMAIN @ \ {m.fragment.parent_id} |-> @[p]]],
                          m.channel, parts)
             ELSE [r EXCEPT !.in_progress =
                     with(@, m.fragment.parent_id, [inc EXCEPT !.fragments = parts])]
    BY <1>5, <1>7, <1>10, Zenon DEF add_fragment
  <1>12. ASSUME D \cup {i} = PartsOf(sq, k)
         PROVE  add_fragment(r, m) =
                  state(seen, without(ip, sq[k].id), one_more(inbox, whole_of(sq, k)), panic)
    <2>1. PICK s : s = [r EXCEPT !.in_progress = without(ip, sq[k].id)]
      OBVIOUS
    <2>2. s = state(seen, without(ip, sq[k].id), inbox, panic)
      BY <2>1, StateFields
    <2>3. add_fragment(r, m) = deliver(s, sq[k].channel, bodies(k, PartsOf(sq, k)))
      BY <1>1, <1>2, <1>6, <1>8, <1>11, <1>12, <2>1 DEF without
    <2> QED
      BY <2>2, <2>3, DeliverState DEF whole_of
  <1>13. ASSUME D \cup {i} # PartsOf(sq, k)
         PROVE  add_fragment(r, m) =
                  state(seen, with(ip, sq[k].id, pieces(sq, k, D \cup {i})), inbox, panic)
    <2>1. PICK x : x = with(ip, sq[k].id, pieces(sq, k, D \cup {i}))
      OBVIOUS
    <2>2. PICK s : s = [r EXCEPT !.in_progress = x]
      OBVIOUS
    <2>3. s = state(seen, x, inbox, panic)
      BY <2>2, StateFields
    <2>4. add_fragment(r, m) = s
      BY <1>1, <1>2, <1>8, <1>9, <1>11, <1>13, <2>1, <2>2
    <2> QED
      BY <2>1, <2>3, <2>4
  <1> QED
    BY <1>12, <1>13 DEF LastPiece, after_piece

\* r is a receiver's state in order.
Fits(sq, r, seen, panic) ==
  \E ip, inbox : r = state(seen, ip, inbox, panic) /\ Receiver(sq, seen, ip, inbox)

LEMMA AddFragment ==
  ASSUME NEW sq, NEW seen, NEW new, NEW k, NEW i, Accepts(sq, seen, new, k, i),
         NEW ip, NEW inbox, Receiver(sq, seen, ip, inbox), sq[k].parts # 1,
         NEW m, m = part_of(sq, k, i), NEW panic, NEW r, r = state(new, ip, inbox, panic)
  PROVE  Fits(sq, add_fragment(r, m), new, panic)
  <1>1. CallList(sq) /\ k \in 1 .. Len(sq) /\ i \in PartsOf(sq, k) /\ ~ TakenPart(sq, seen, k, i)
    BY DEF Accepts
  <1>2. InProgress(sq, seen, ip)
    BY DEF Receiver
  <1>3. PICK D \in SUBSET PartsOf(sq, k) :
          /\ found(sq, ip, k) = pieces(sq, k, D) /\ D # PartsOf(sq, k)
          /\ \A j \in D : TakenPart(sq, seen, k, j)
    BY <1>1, <1>2, FoundPieces
  <1>4. i \notin D
    BY <1>1, <1>3
  <1>5. NewPiece(sq, ip, k, i, D)
    BY <1>1, <1>3, <1>4 DEF NewPiece
  <1> DEFINE left == without(ip, sq[k].id)
             more == one_more(inbox, whole_of(sq, k))
             ip2 == with(ip, sq[k].id, pieces(sq, k, D \cup {i}))
  <1>6. add_fragment(r, m) =
          IF LastPiece(sq, k, i, D) THEN state(new, left, more, panic)
          ELSE state(new, ip2, inbox, panic)
    <2>1. add_fragment(r, m) = after_piece(sq, new, ip, inbox, panic, k, i, D)
      BY <1>5, AddFragmentIs
    <2> QED
      BY <2>1 DEF after_piece
  <1> HIDE DEF left, more, ip2
  <1>7. CASE LastPiece(sq, k, i, D)
    <2>1. Receiver(sq, new, left, more)
      BY <1>3, <1>7, AcceptLast DEF without, LastPiece, left, more
    <2> QED
      BY <1>7, <1>6, <2>1 DEF Fits
  <1>8. CASE ~ LastPiece(sq, k, i, D)
    <2>1. sq[k].id \in DOMAIN ip => ip[sq[k].id] = pieces(sq, k, D)
      BY <1>3 DEF found
    <2>2. Receiver(sq, new, ip2, inbox)
      BY <1>3, <1>8, <2>1, AcceptPiece DEF LastPiece, ip2
    <2> QED
      BY <1>8, <1>6, <2>2 DEF Fits
  <1> QED
    BY <1>7, <1>8

\* A message that arrives leaves the receiver in order, whether it is new, a
\* duplicate or too old, and cannot be accepted again.
LEMMA ProcessOne ==
  ASSUME Epoch, NEW sq, CallList(sq), NEW k \in 1 .. Len(sq), NEW i \in PartsOf(sq, k),
         NEW m, m = part_of(sq, k, i),
         NEW seen, NEW panic, NEW r, Fits(sq, r, seen, panic)
  PROVE  \E new : /\ Fits(sq, process_received_message(r, m), new, panic)
                  /\ Forward(seen, new) /\ TakenPart(sq, new, k, i)
  <1>1. PICK ip, inbox : r = state(seen, ip, inbox, panic) /\ Receiver(sq, seen, ip, inbox)
    BY DEF Fits
  <1>2. /\ m.id = sq[k].id + i /\ m.channel = sq[k].channel /\ m.body = [msg |-> k, part |-> i]
        /\ m.fragment = NoFrag <=> sq[k].parts = 1
    BY PartFields
  <1>3. r.seen = seen
    BY <1>1, StateFields
  <1>4. accepts_message(r.seen[m.channel], m) <=> ~ TakenPart(sq, seen, k, i)
    BY <1>2, <1>3 DEF accepts_message, TakenPart, Taken
  <1>5. CASE TakenPart(sq, seen, k, i)
    <2>1. process_received_message(r, m) = r
      BY <1>4, <1>5, Zenon DEF process_received_message
    <2>2. Forward(seen, seen)
      BY <1>1 DEF Forward, Receiver
    <2> QED
      BY <1>5, <2>1, <2>2
  <1>6. CASE ~ TakenPart(sq, seen, k, i)
    <2>1. PICK new : new = [seen EXCEPT ![sq[k].channel] = Seen!insert(@, sq[k].id + i, TRUE)]
      OBVIOUS
    <2>2. /\ seen \in [Channels -> SeenBuffers] /\ sq[k].channel \in Channels
          /\ sq[k].id + i \in Ids /\ ~ Taken(seen[sq[k].channel], sq[k].id + i)
      BY <1>1, <1>6, CallFacts DEF Receiver, TakenPart
    <2>3. /\ Forward(seen, new) /\ OnlyAdded(seen, new, sq[k].channel, sq[k].id + i)
          /\ Taken(new[sq[k].channel], sq[k].id + i)
      BY <2>1, <2>2, SeenForward, Zenon
    <2>4. Accepts(sq, seen, new, k, i)
      BY <1>6, <2>3, Zenon DEF Accepts, TakenPart
    <2>5. PICK s : s = [r EXCEPT !.seen = new]
      OBVIOUS
    <2>6. s = state(new, ip, inbox, panic)
      BY <1>1, <2>5, StateFields
    <2>7. process_received_message(r, m) =
            IF m.fragment = NoFrag THEN deliver(s, m.channel, [j \in {0} |-> m.body])
            ELSE add_fragment(s, m)
      <3>1. [r EXCEPT !.seen[m.channel] = Seen!insert(@, m.id, TRUE)] = s
        BY <1>2, <1>3, <2>1, <2>5, Zenon
      <3> QED
        BY <1>4, <1>6, <3>1, Zenon DEF process_received_message
    <2>8. CASE m.fragment = NoFrag
      <3>1. sq[k].parts = 1 /\ PartsOf(sq, k) = {0} /\ i = 0
        <4>1. sq[k].parts = 1
          BY <1>2, <2>8
        <4> QED
          BY <4>1 DEF PartsOf
      <3>2. PICK more : more = one_more(inbox, whole_of(sq, k))
        OBVIOUS
      <3>3. Receiver(sq, new, ip, more)
        BY <1>1, <2>4, <3>1, <3>2, AcceptWhole
      <3>4. [j \in {0} |-> m.body] = bodies(k, PartsOf(sq, k))
        BY <1>2, <3>1 DEF bodies
      <3>5. process_received_message(r, m) = state(new, ip, more, panic)
        BY <1>2, <2>6, <2>7, <2>8, <3>2, <3>4, DeliverState DEF whole_of
      <3>6. Fits(sq, process_received_message(r, m), new, panic)
        BY <3>3, <3>5 DEF Fits
      <3> QED
        BY <2>3, <2>4, <3>6 DEF Accepts
    <2>9. CASE m.fragment # NoFrag
      <3>1. process_received_message(r, m) = add_fragment(s, m) /\ sq[k].parts # 1
        BY <1>2, <2>7, <2>9
      <3>2. Fits(sq, add_fragment(s, m), new, panic)
        BY <1>1, <2>4, <2>6, <3>1, AddFragment
      <3> QED
        BY <2>3, <2>4, <3>1, <3>2 DEF Accepts
    <2> QED
      BY <2>8, <2>9
  <1> QED
    BY <1>5, <1>6

-----------------------------------------------------------------------------
(* The messages of a packet, one after the other *)

LEMMA LeastNat ==
  ASSUME NEW T \in SUBSET Nat, T # {}
  PROVE  \E x \in T : \A y \in T : x <= y
  <1>1. PICK x \in T : \A y \in T : ~ (<<y, x>> \in OpToRel(<, Nat))
    BY NatLessThanWellFounded, WFMin
  <1>2. \A y \in T : ~ (y < x)
    BY <1>1 DEF OpToRel
  <1> QED
    BY <1>2

\* f has the states before, between and after the first n messages.
Steps(f, r, msgs, n) ==
  f = [k \in 0 .. n |-> IF k = 0 THEN r ELSE process_received_message(f[k - 1], msgs[k])]

LEMMA StepsMore ==
  ASSUME NEW r, NEW msgs, NEW n \in Nat, NEW f, Steps(f, r, msgs, n)
  PROVE  \E g : Steps(g, r, msgs, n + 1)
  <1> DEFINE last == process_received_message(f[n], msgs[n + 1])
             g == [k \in 0 .. n + 1 |-> IF k = n + 1 THEN last ELSE f[k]]
  <1>1. /\ \A k \in 0 .. n : f[k] = IF k = 0 THEN r ELSE process_received_message(f[k - 1], msgs[k])
        /\ DOMAIN f = 0 .. n
    BY DEF Steps
  <1>2. \A k \in 0 .. n + 1 :
          g[k] = IF k = 0 THEN r ELSE process_received_message(g[k - 1], msgs[k])
    <2> TAKE k \in 0 .. n + 1
    <2>1. CASE k = n + 1
      <3>1. g[k] = last /\ k # 0 /\ k - 1 = n /\ g[k - 1] = f[n]
        BY <2>1
      <3> QED
        BY <2>1, <3>1
    <2>2. CASE k # n + 1
      <3>1. k \in 0 .. n /\ g[k] = f[k]
        BY <2>2
      <3>2. k # 0 => k - 1 \in 0 .. n + 1 /\ k - 1 # n + 1
        BY <2>2
      <3>3. k # 0 => g[k - 1] = f[k - 1]
        BY <3>2
      <3> QED
        BY <1>1, <3>1, <3>3
    <2> QED
      BY <2>1, <2>2
  <1> HIDE DEF last
  <1>3. Steps(g, r, msgs, n + 1)
    BY <1>2 DEF Steps
  <1> QED
    BY <1>3

LEMMA StepsExist ==
  ASSUME NEW r, NEW msgs, NEW n \in Nat
  PROVE  \E f : Steps(f, r, msgs, n)
  <1> DEFINE bad == {l \in Nat : ~ \E f : Steps(f, r, msgs, l)}
  <1>1. 0 \notin bad
    <2>1. Steps([k \in 0 .. 0 |-> r], r, msgs, 0)
      BY DEF Steps
    <2> QED
      BY <2>1
  <1>2. \A l \in Nat : l \notin bad => l + 1 \notin bad
    BY StepsMore
  <1>3. bad = {}
    <2> SUFFICES ASSUME bad # {} PROVE FALSE
      OBVIOUS
    <2>1. bad \in SUBSET Nat
      OBVIOUS
    <2> HIDE DEF bad
    <2>2. PICK x \in bad : \A y \in bad : x <= y
      BY <2>1, LeastNat
    <2>3. x \in Nat /\ x # 0
      BY <1>1, <2>1
    <2>4. x - 1 \in Nat /\ (x - 1) + 1 = x /\ ~ (x <= x - 1)
      BY <2>3
    <2> QED
      BY <1>2, <2>2, <2>4
  <1> QED
    BY <1>3

LEMMA ProcessingSteps ==
  ASSUME NEW r, NEW msgs, Len(msgs) \in Nat
  PROVE  Steps(processing(r, msgs), r, msgs, Len(msgs))
  <1>1. \E f : f = [k \in 0 .. Len(msgs) |->
                      IF k = 0 THEN r ELSE process_received_message(f[k - 1], msgs[k])]
    <2>1. PICK n \in Nat : n = Len(msgs)
      OBVIOUS
    <2>2. PICK f : Steps(f, r, msgs, n)
      BY StepsExist
    <2> QED
      BY <2>1, <2>2 DEF Steps
  <1>2. processing(r, msgs) =
          CHOOSE f : f = [k \in 0 .. Len(msgs) |->
                      IF k = 0 THEN r ELSE process_received_message(f[k - 1], msgs[k])]
    BY DEF processing
  <1> QED
    BY <1>1, <1>2, Zenon DEF Steps

\* Message m cannot be accepted any more.
TakenMessage(seen, m) == Taken(seen[m.channel], m.id)

LEMMA PartTaken ==
  ASSUME NEW sq, CallList(sq), NEW k \in 1 .. Len(sq), NEW i \in PartsOf(sq, k),
         NEW m, m = part_of(sq, k, i), NEW seen
  PROVE  TakenMessage(seen, m) <=> TakenPart(sq, seen, k, i)
  <1>1. m.id = sq[k].id + i /\ m.channel = sq[k].channel
    BY DEF part_of
  <1> QED
    BY <1>1 DEF TakenMessage, TakenPart

LEMMA PartIds ==
  ASSUME NEW sq, CallList(sq), NEW m, IsPart(sq, m)
  PROVE  m.channel \in Channels /\ m.id \in Ids
  <1>1. PICK k \in 1 .. Len(sq) : \E i \in PartsOf(sq, k) : m = part_of(sq, k, i)
    BY DEF IsPart
  <1>2. PICK i \in PartsOf(sq, k) : m = part_of(sq, k, i)
    BY <1>1
  <1>3. m.id = sq[k].id + i /\ m.channel = sq[k].channel
    BY <1>2 DEF part_of
  <1> QED
    BY <1>3, CallFacts

LEMMA ProcessAll ==
  ASSUME Epoch, NEW sq, CallList(sq), NEW msgs, Len(msgs) \in Nat,
         \A j \in 1 .. Len(msgs) : IsPart(sq, msgs[j]),
         NEW seen, NEW panic, NEW r, Fits(sq, r, seen, panic)
  PROVE  \E new : /\ Fits(sq, process_received_messages(r, msgs), new, panic)
                  /\ Forward(seen, new)
                  /\ \A j \in 1 .. Len(msgs) : TakenMessage(new, msgs[j])
  <1> DEFINE f == processing(r, msgs)
             Good(n) == \E new : /\ Fits(sq, f[n], new, panic) /\ Forward(seen, new)
                                 /\ \A j \in 1 .. n : TakenMessage(new, msgs[j])
             bad == {n \in 0 .. Len(msgs) : ~ Good(n)}
  <1>1. \A k \in 0 .. Len(msgs) :
          f[k] = IF k = 0 THEN r ELSE process_received_message(f[k - 1], msgs[k])
    BY ProcessingSteps DEF Steps
  <1> HIDE DEF f
  <1>2. Good(0)
    <2>1. Forward(seen, seen)
      BY DEF Forward, Fits, Receiver
    <2>2. f[0] = r
      BY <1>1
    <2> QED
      BY <2>1, <2>2
  <1>3. ASSUME NEW n \in 1 .. Len(msgs), Good(n - 1) PROVE Good(n)
    <2>1. PICK mid : /\ Fits(sq, f[n - 1], mid, panic) /\ Forward(seen, mid)
                     /\ \A j \in 1 .. n - 1 : TakenMessage(mid, msgs[j])
      BY <1>3
    <2>2. PICK k \in 1 .. Len(sq) : \E i \in PartsOf(sq, k) : msgs[n] = part_of(sq, k, i)
      BY DEF IsPart
    <2>3. PICK i \in PartsOf(sq, k) : msgs[n] = part_of(sq, k, i)
      BY <2>2
    <2>4. PICK new : /\ Fits(sq, process_received_message(f[n - 1], msgs[n]), new, panic)
                     /\ Forward(mid, new) /\ TakenPart(sq, new, k, i)
      BY <2>1, <2>3, ProcessOne
    <2>5. f[n] = process_received_message(f[n - 1], msgs[n])
      BY <1>1
    <2>6. Forward(seen, new)
      BY <2>1, <2>4 DEF Forward
    <2>7. \A j \in 1 .. n : TakenMessage(new, msgs[j])
      <3> TAKE j \in 1 .. n
      <3>1. CASE j = n
        BY <2>3, <2>4, <3>1, PartTaken
      <3>2. CASE j # n
        <4>1. j \in 1 .. n - 1 /\ j \in 1 .. Len(msgs)
          BY <3>2
        <4>2. TakenMessage(mid, msgs[j]) /\ IsPart(sq, msgs[j])
          BY <2>1, <4>1
        <4>3. msgs[j].channel \in Channels /\ msgs[j].id \in Ids
          BY <4>2, PartIds
        <4> QED
          BY <2>4, <4>2, <4>3 DEF TakenMessage, Forward
      <3> QED
        BY <3>1, <3>2
    <2> QED
      BY <2>4, <2>5, <2>6, <2>7
  <1>4. bad = {}
    <2> SUFFICES ASSUME bad # {} PROVE FALSE
      OBVIOUS
    <2>1. bad \in SUBSET (0 .. Len(msgs)) /\ \A n \in 0 .. Len(msgs) : n \notin bad <=> Good(n)
      OBVIOUS
    <2> HIDE DEF bad, Good
    <2>2. PICK x \in bad : \A y \in bad : x <= y
      BY <2>1, LeastNat
    <2>3. x \in 1 .. Len(msgs)
      BY <1>2, <2>1
    <2>4. x - 1 \in 0 .. Len(msgs) /\ ~ (x <= x - 1)
      BY <2>3
    <2> QED
      BY <1>3, <2>1, <2>2, <2>3, <2>4
  <1>5. Good(Len(msgs))
    BY <1>4
  <1> QED
    BY <1>5 DEF process_received_messages, f

-----------------------------------------------------------------------------
(* More calls *)

\* sq2 has the calls of sq, and perhaps more.
Longer(sq, sq2) == Len(sq) <= Len(sq2) /\ \A k \in 1 .. Len(sq) : sq2[k] = sq[k]

LEMMA LongerSame ==
  ASSUME NEW sq, NEW sq2, CallList(sq), CallList(sq2), Longer(sq, sq2), NEW k \in 1 .. Len(sq)
  PROVE  /\ k \in 1 .. Len(sq2) /\ sq2[k] = sq[k] /\ PartsOf(sq2, k) = PartsOf(sq, k)
         /\ whole_of(sq2, k) = whole_of(sq, k)
         /\ \A D : pieces(sq2, k, D) = pieces(sq, k, D)
         /\ \A i : part_of(sq2, k, i) = part_of(sq, k, i)
         /\ \A seen, i : TakenPart(sq2, seen, k, i) <=> TakenPart(sq, seen, k, i)
         /\ \A ip, inbox, i : Got(sq2, ip, inbox, k, i) <=> Got(sq, ip, inbox, k, i)
  <1>1. Len(sq) \in Nat /\ Len(sq2) \in Nat
    BY DEF CallList
  <1>2. k \in 1 .. Len(sq2) /\ sq2[k] = sq[k]
    BY <1>1 DEF Longer
  <1>3. PartsOf(sq2, k) = PartsOf(sq, k)
    BY <1>2 DEF PartsOf
  <1>4. whole_of(sq2, k) = whole_of(sq, k)
    BY <1>2, <1>3 DEF whole_of
  <1>5. \A D : pieces(sq2, k, D) = pieces(sq, k, D)
    BY <1>2 DEF pieces
  <1>6. \A i : part_of(sq2, k, i) = part_of(sq, k, i)
    BY <1>2 DEF part_of
  <1>7. \A seen, i : TakenPart(sq2, seen, k, i) <=> TakenPart(sq, seen, k, i)
    BY <1>2 DEF TakenPart
  <1>8. \A ip, inbox, i : Got(sq2, ip, inbox, k, i) <=> Got(sq, ip, inbox, k, i)
    BY <1>2, <1>4 DEF Got
  <1> QED
    BY <1>2, <1>3, <1>4, <1>5, <1>6, <1>7, <1>8

LEMMA PartKept ==
  ASSUME NEW sq, NEW sq2, CallList(sq), CallList(sq2), Longer(sq, sq2), NEW m, IsPart(sq, m)
  PROVE  IsPart(sq2, m)
  <1>1. PICK k \in 1 .. Len(sq) : \E i \in PartsOf(sq, k) : m = part_of(sq, k, i)
    BY DEF IsPart
  <1>2. PICK i \in PartsOf(sq, k) : m = part_of(sq, k, i)
    BY <1>1
  <1>3. k \in 1 .. Len(sq2) /\ i \in PartsOf(sq2, k) /\ m = part_of(sq2, k, i)
    BY <1>2, LongerSame
  <1> QED
    BY <1>3 DEF IsPart

\* A call the receiver has seen nothing of.
LEMMA ReceiverKept ==
  ASSUME NEW sq, NEW sq2, CallList(sq), CallList(sq2), Longer(sq, sq2),
         NEW seen, NEW ip, NEW inbox, Receiver(sq, seen, ip, inbox)
  PROVE  Receiver(sq2, seen, ip, inbox)
  <1>1. ASSUME NEW p, NEW x, PiecesOf(sq, seen, p, x) PROVE PiecesOf(sq2, seen, p, x)
    <2>1. PICK k \in 1 .. Len(sq) : \E D \in SUBSET PartsOf(sq, k) :
            /\ sq[k].id = p /\ x = pieces(sq, k, D) /\ D # PartsOf(sq, k)
            /\ \A i \in D : TakenPart(sq, seen, k, i)
      BY <1>1 DEF PiecesOf
    <2>2. PICK D \in SUBSET PartsOf(sq, k) :
            /\ sq[k].id = p /\ x = pieces(sq, k, D) /\ D # PartsOf(sq, k)
            /\ \A i \in D : TakenPart(sq, seen, k, i)
      BY <2>1
    <2>3. /\ k \in 1 .. Len(sq2) /\ D \in SUBSET PartsOf(sq2, k)
          /\ sq2[k].id = p /\ x = pieces(sq2, k, D) /\ D # PartsOf(sq2, k)
      BY <2>2, LongerSame
    <2>4. \A i \in D : TakenPart(sq2, seen, k, i)
      BY <2>2, LongerSame
    <2> QED
      BY <2>3, <2>4 DEF PiecesOf
  <1>2. InProgress(sq2, seen, ip)
    BY <1>1 DEF Receiver, InProgress
  <1>3. Inbox(sq2, seen, inbox)
    <2>1. ASSUME NEW x \in DOMAIN inbox
          PROVE  \E k \in 1 .. Len(sq2) :
                   /\ x = whole_of(sq2, k)
                   /\ \A i \in PartsOf(sq2, k) : TakenPart(sq2, seen, k, i)
      <3>1. PICK k \in 1 .. Len(sq) :
              /\ x = whole_of(sq, k)
              /\ \A i \in PartsOf(sq, k) : TakenPart(sq, seen, k, i)
        BY DEF Receiver, Inbox
      <3>2. k \in 1 .. Len(sq2) /\ x = whole_of(sq2, k)
        BY <3>1, LongerSame
      <3>3. \A i \in PartsOf(sq2, k) : TakenPart(sq2, seen, k, i)
        BY <3>1, LongerSame
      <3> QED
        BY <3>2, <3>3
    <2> QED
      BY <2>1 DEF Receiver, Inbox
  <1>4. Accounted(sq2, seen, ip, inbox)
    <2> SUFFICES ASSUME NEW c \in Channels, NEW id \in Ids, Seen!exists(seen[c], id)
                 PROVE  \E k \in 1 .. Len(sq2) : \E i \in PartsOf(sq2, k) :
                          c = sq2[k].channel /\ id = sq2[k].id + i /\ Got(sq2, ip, inbox, k, i)
      BY DEF Accounted
    <2>1. PICK k \in 1 .. Len(sq) : \E i \in PartsOf(sq, k) :
            c = sq[k].channel /\ id = sq[k].id + i /\ Got(sq, ip, inbox, k, i)
      BY DEF Receiver, Accounted
    <2>2. PICK i \in PartsOf(sq, k) :
            c = sq[k].channel /\ id = sq[k].id + i /\ Got(sq, ip, inbox, k, i)
      BY <2>1
    <2>3. /\ k \in 1 .. Len(sq2) /\ i \in PartsOf(sq2, k)
          /\ c = sq2[k].channel /\ id = sq2[k].id + i
      BY <2>2, LongerSame
    <2>4. Got(sq2, ip, inbox, k, i)
      BY <2>2, LongerSame
    <2> QED
      BY <2>3, <2>4
  <1> QED
    BY <1>2, <1>3, <1>4 DEF Receiver

LEMMA ReceiverStart ==
  ASSUME Epoch
  PROVE  Receiver(<< >>, [c \in Channels |-> Seen!with_capacity], << >>, EmptyBag)
  <1> DEFINE seen == [c \in Channels |-> Seen!with_capacity]
  <1>1. /\ seen \in [Channels -> SeenBuffers]
        /\ \A c \in Channels, id \in Ids : ~ Seen!exists(seen[c], id)
    BY SeenEmpty, Zenon
  <1> HIDE DEF seen
  <1>2. InProgress(<< >>, seen, << >>)
    BY DEF InProgress
  <1>3. Inbox(<< >>, seen, EmptyBag)
    BY DEF Inbox, EmptyBag, SetToBag
  <1>4. Accounted(<< >>, seen, << >>, EmptyBag)
    BY <1>1 DEF Accounted
  <1> QED
    BY <1>1, <1>2, <1>3, <1>4 DEF Receiver, seen

-----------------------------------------------------------------------------
(* The sending end of one direction *)

\* Part i of call k, as it is in a queue.
queued(sq, k, i, age) ==
  [id |-> sq[k].id + i, channel |-> sq[k].channel, fragment |-> fragment_of(sq[k], i),
   body |-> [msg |-> k, part |-> i], age |-> age]

IsQueued(sq, m) ==
  \E k \in 1 .. Len(sq) : \E i \in PartsOf(sq, k) : \E age \in 0 .. ResendTicks :
    m = queued(sq, k, i, age)

Queue(sq, queue) == IsFiniteSet(queue) /\ \A m \in queue : IsQueued(sq, m)

\* The calls so far, the next id and the queue of one end.
Sender(sq, next, queue) ==
  /\ CallList(sq)
  /\ next \in Nat /\ next <= MaxParts * Len(sq)
  /\ \A k \in 1 .. Len(sq) : sq[k].id + sq[k].parts <= next
  /\ Queue(sq, queue)

LEMMA FiniteImage ==
  ASSUME NEW S, IsFiniteSet(S), NEW f, DOMAIN f = S, f = [x \in S |-> f[x]]
  PROVE  IsFiniteSet({f[x] : x \in S})
  <1>1. f \in Surjection(S, {f[x] : x \in S})
    BY DEF Surjection
  <1> QED
    BY <1>1, FS_Surjection

LEMMA QueuedFields ==
  ASSUME NEW sq, NEW k, NEW i, NEW age, NEW m, m = queued(sq, k, i, age)
  PROVE  on_wire(m) = part_of(sq, k, i) /\ m.age = age
  BY DEF queued, on_wire, part_of

LEMMA QueuedExcept ==
  ASSUME NEW sq, NEW k, NEW i, NEW age, NEW m, m = queued(sq, k, i, age),
         NEW x, NEW aged, aged = [m EXCEPT !.age = x]
  PROVE  aged = queued(sq, k, i, x)
  BY DEF queued

LEMMA QueuedIsPart ==
  ASSUME NEW sq, NEW m, IsQueued(sq, m)
  PROVE  m.age \in 0 .. ResendTicks /\ IsPart(sq, on_wire(m))
  <1>1. PICK k \in 1 .. Len(sq) : \E i \in PartsOf(sq, k) : \E age \in 0 .. ResendTicks :
          m = queued(sq, k, i, age)
    BY DEF IsQueued
  <1>2. PICK i \in PartsOf(sq, k) : \E age \in 0 .. ResendTicks : m = queued(sq, k, i, age)
    BY <1>1
  <1>3. PICK age \in 0 .. ResendTicks : m = queued(sq, k, i, age)
    BY <1>2
  <1>4. on_wire(m) = part_of(sq, k, i) /\ m.age = age
    BY <1>3, QueuedFields
  <1> QED
    BY <1>4 DEF IsPart

\* A message keeps its place when its age changes.
LEMMA QueuedAged ==
  ASSUME NEW sq, NEW m, IsQueued(sq, m), NEW x \in 0 .. ResendTicks,
         NEW aged, aged = [m EXCEPT !.age = x]
  PROVE  IsQueued(sq, aged)
  <1>1. PICK k \in 1 .. Len(sq) : \E i \in PartsOf(sq, k) : \E age \in 0 .. ResendTicks :
          m = queued(sq, k, i, age)
    BY DEF IsQueued
  <1>2. PICK i \in PartsOf(sq, k) : \E age \in 0 .. ResendTicks : m = queued(sq, k, i, age)
    BY <1>1
  <1>3. PICK age \in 0 .. ResendTicks : m = queued(sq, k, i, age)
    BY <1>2
  <1>4. aged = queued(sq, k, i, x)
    BY <1>3, QueuedExcept
  <1> QED
    BY <1>4 DEF IsQueued

LEMMA QueuedKept ==
  ASSUME NEW sq, NEW sq2, CallList(sq), CallList(sq2), Longer(sq, sq2), NEW m, IsQueued(sq, m)
  PROVE  IsQueued(sq2, m)
  <1>1. PICK k \in 1 .. Len(sq) : \E i \in PartsOf(sq, k) : \E age \in 0 .. ResendTicks :
          m = queued(sq, k, i, age)
    BY DEF IsQueued
  <1>2. k \in 1 .. Len(sq2) /\ PartsOf(sq2, k) = PartsOf(sq, k) /\ sq2[k] = sq[k]
    BY LongerSame
  <1>3. \A i, age : queued(sq2, k, i, age) = queued(sq, k, i, age)
    BY <1>2 DEF queued
  <1> QED
    BY <1>1, <1>2, <1>3 DEF IsQueued

\* update.
LEMMA QueueAges ==
  ASSUME NEW sq, NEW queue, Queue(sq, queue)
  PROVE  Queue(sq, {older(m) : m \in queue})
  <1>1. ASSUME NEW m \in queue PROVE IsQueued(sq, older(m))
    <2>1. IsQueued(sq, m)
      BY DEF Queue
    <2>2. PICK x : x = IF m.age < ResendTicks THEN m.age + 1 ELSE m.age
      OBVIOUS
    <2>3. x \in 0 .. ResendTicks
      BY <2>1, <2>2, QueuedIsPart, ResendAssumption
    <2>4. older(m) = [m EXCEPT !.age = x]
      BY <2>2, Zenon DEF older
    <2> QED
      BY <2>1, <2>3, <2>4, QueuedAged
  <1>2. PICK f : f = [m \in queue |-> older(m)]
    OBVIOUS
  <1>3. DOMAIN f = queue /\ f = [x \in queue |-> f[x]]
    BY <1>2
  <1>4. IsFiniteSet({f[x] : x \in queue})
    BY <1>3, FiniteImage DEF Queue
  <1>5. {f[x] : x \in queue} = {older(m) : m \in queue}
    BY <1>2
  <1> QED
    BY <1>1, <1>4, <1>5 DEF Queue

\* compose_packets.
LEMMA QueueWritten ==
  ASSUME NEW sq, NEW queue, Queue(sq, queue), NEW batch \in SUBSET queue
  PROVE  Queue(sq, after_writing(queue, batch))
  <1> DEFINE kept == {b \in batch : b.channel \in Reliable}
  <1>1. PICK f : f = [m \in kept |-> [m EXCEPT !.age = 0]]
    OBVIOUS
  <1>2. DOMAIN f = kept /\ f = [x \in kept |-> f[x]]
    BY <1>1
  <1>3. IsFiniteSet(kept) /\ IsFiniteSet(queue \ batch)
    <2>1. kept \in SUBSET queue /\ queue \ batch \in SUBSET queue
      OBVIOUS
    <2> QED
      BY <2>1, FS_Subset DEF Queue
  <1>4. IsFiniteSet({f[x] : x \in kept})
    BY <1>2, <1>3, FiniteImage
  <1>5. {f[x] : x \in kept} = {[m EXCEPT !.age = 0] : m \in kept}
    BY <1>1
  <1>6. after_writing(queue, batch) = (queue \ batch) \cup {f[x] : x \in kept}
    BY <1>5 DEF after_writing
  <1>7. IsFiniteSet(after_writing(queue, batch))
    BY <1>3, <1>4, <1>6, FS_Union
  <1>8. ASSUME NEW m \in kept PROVE IsQueued(sq, f[m])
    <2>1. IsQueued(sq, m)
      BY DEF Queue
    <2>2. 0 \in 0 .. ResendTicks
      BY ResendAssumption
    <2>3. f[m] = [m EXCEPT !.age = 0]
      BY <1>1, Zenon
    <2> QED
      BY <2>1, <2>2, <2>3, QueuedAged
  <1>9. \A m \in after_writing(queue, batch) : IsQueued(sq, m)
    BY <1>6, <1>8 DEF Queue
  <1> QED
    BY <1>7, <1>9 DEF Queue

LEMMA BatchParts ==
  ASSUME NEW sq, NEW queue, Queue(sq, queue), NEW batch \in SUBSET queue
  PROVE  /\ IsFiniteSet({on_wire(m) : m \in batch})
         /\ \A m \in {on_wire(b) : b \in batch} : IsPart(sq, m)
  <1>1. PICK f : f = [m \in batch |-> on_wire(m)]
    OBVIOUS
  <1>2. DOMAIN f = batch /\ f = [x \in batch |-> f[x]]
    BY <1>1
  <1>3. IsFiniteSet(batch)
    BY FS_Subset DEF Queue
  <1>4. IsFiniteSet({f[x] : x \in batch})
    BY <1>2, <1>3, FiniteImage
  <1>5. {f[x] : x \in batch} = {on_wire(m) : m \in batch}
    BY <1>1
  <1>6. ASSUME NEW b \in batch PROVE IsPart(sq, on_wire(b))
    <2>1. IsQueued(sq, b)
      BY DEF Queue
    <2> QED
      BY <2>1, QueuedIsPart
  <1> QED
    BY <1>4, <1>5, <1>6

LEMMA QueueSubset ==
  ASSUME NEW sq, NEW queue, Queue(sq, queue), NEW some \in SUBSET queue
  PROVE  Queue(sq, some)
  BY FS_Subset DEF Queue

\* One more call has ids that are free.
LEMMA MoreIds ==
  ASSUME NEW next \in Nat, NEW calls_made \in Nat, next <= MaxParts * calls_made,
         calls_made < Len(Workload), NEW n \in 1 .. MaxParts
  PROVE  next + n <= MaxId /\ next + n <= MaxParts * (calls_made + 1)
  <1>1. MaxParts \in Nat /\ Len(Workload) \in Nat
    BY IdFacts
  <1>2. MaxParts * (calls_made + 1) = MaxParts * calls_made + MaxParts
    BY <1>1
  <1>3. MaxParts * (calls_made + 1) <= MaxParts * Len(Workload)
    BY <1>1
  <1>4. MaxParts * Len(Workload) = MaxId
    BY <1>1 DEF MaxId
  <1>5. MaxParts * calls_made \in Nat /\ MaxId \in Nat /\ MaxParts * (calls_made + 1) \in Nat
    BY <1>1, <1>2, IdFacts
  <1> QED
    BY <1>1, <1>2, <1>3, <1>4, <1>5

\* send_message with n parts on channel c makes sq2 of sq.
MakesCall(sq, next, queue, c, n, sq2) ==
  /\ Sender(sq, next, queue) /\ Len(sq) < Len(Workload)
  /\ c \in Channels /\ n \in 1 .. MaxParts
  /\ \E ok \in BOOLEAN :
       sq2 = Append(sq, [id |-> next, channel |-> c, parts |-> n, ok |-> ok])

LEMMA CallMade ==
  ASSUME NEW sq, NEW next, NEW queue, NEW c, NEW n, NEW sq2,
         MakesCall(sq, next, queue, c, n, sq2)
  PROVE  /\ CallList(sq2) /\ Longer(sq, sq2)
         /\ Len(sq2) = Len(sq) + 1 /\ next + n <= MaxParts * Len(sq2) /\ next + n \in Nat
         /\ \A k \in 1 .. Len(sq2) : sq2[k].id + sq2[k].parts <= next + n
         /\ sq2[Len(sq2)].id = next /\ sq2[Len(sq2)].parts = n /\ sq2[Len(sq2)].channel = c
  <1>made. PICK ok \in BOOLEAN :
        sq2 = Append(sq, [id |-> next, channel |-> c, parts |-> n, ok |-> ok])
    BY DEF MakesCall
  <1>given. c \in Channels /\ n \in 1 .. MaxParts /\ Len(sq) < Len(Workload)
    BY DEF MakesCall
  <1>1. PICK call : call = [id |-> next, channel |-> c, parts |-> n, ok |-> ok]
    OBVIOUS
  <1>2. /\ CallList(sq) /\ next \in Nat /\ next <= MaxParts * Len(sq)
        /\ \A k \in 1 .. Len(sq) : sq[k].id + sq[k].parts <= next
    BY DEF Sender, MakesCall
  <1>3. sq \in Seq(Calls) /\ Len(sq) \in Nat
    BY <1>2 DEF CallList
  <1>4. next + n <= MaxId /\ next + n <= MaxParts * (Len(sq) + 1)
    BY <1>given, <1>2, <1>3, MoreIds
  <1>5. n \in Nat /\ n >= 1 /\ MaxId \in Nat /\ MaxParts \in Nat
    BY <1>given, IdFacts
  <1>6. call.id = next /\ call.parts = n /\ call.channel = c
    BY <1>1
  <1>7. call \in Calls
    <2>1. next \in Ids
      BY <1>2, <1>4, <1>5 DEF Ids
    <2> QED
      BY <1>given, <1>1, <2>1 DEF Calls
  <1>8. sq2 = Append(sq, call)
    BY <1>made, <1>1
  <1>9. /\ sq2 \in Seq(Calls) /\ Len(sq2) = Len(sq) + 1 /\ sq2[Len(sq) + 1] = call
        /\ \A k \in 1 .. Len(sq) : sq2[k] = sq[k]
    BY <1>3, <1>7, <1>8
  <1>10. \A k \in 1 .. Len(sq) : sq[k].id \in Nat /\ sq[k].parts \in Nat /\ sq[k].parts >= 1
    BY <1>2, CallFacts
  <1>11. \A k \in 1 .. Len(sq2) : k \in 1 .. Len(sq) \/ k = Len(sq) + 1
    BY <1>3, <1>9
  <1>12. \A k \in 1 .. Len(sq2) :
           /\ sq2[k].id + sq2[k].parts <= next + n
           /\ sq2[k].id + sq2[k].parts <= MaxId
    <2> TAKE k \in 1 .. Len(sq2)
    <2>1. CASE k \in 1 .. Len(sq)
      <3>1. sq2[k] = sq[k] /\ sq[k].id + sq[k].parts <= next
        BY <1>2, <1>9, <2>1
      <3>2. sq[k].id + sq[k].parts \in Nat
        BY <1>10, <2>1
      <3> QED
        BY <1>2, <1>4, <1>5, <3>1, <3>2
    <2>2. CASE k = Len(sq) + 1
      BY <1>2, <1>4, <1>5, <1>6, <1>9, <2>2
    <2> QED
      BY <1>11, <2>1, <2>2
  <1>13. ASSUME NEW k \in 1 .. Len(sq2), NEW l \in 1 .. Len(sq2), k < l
         PROVE  sq2[k].id + sq2[k].parts <= sq2[l].id
    <2>1. k \in 1 .. Len(sq)
      BY <1>3, <1>9, <1>13
    <2>2. CASE l \in 1 .. Len(sq)
      BY <1>2, <1>9, <1>13, <2>1, <2>2 DEF CallList
    <2>3. CASE l = Len(sq) + 1
      BY <1>2, <1>6, <1>9, <2>1, <2>3
    <2> QED
      BY <1>11, <2>2, <2>3
  <1>14. CallList(sq2)
    BY <1>9, <1>12, <1>13 DEF CallList
  <1>15. Longer(sq, sq2)
    BY <1>3, <1>9 DEF Longer
  <1>16. next + n <= MaxParts * Len(sq2)
    BY <1>4, <1>9
  <1> QED
    BY <1>2, <1>5, <1>6, <1>9, <1>12, <1>14, <1>15, <1>16

\* What send_message puts in the queue.
enqueued_parts(sq, k, n) == {queued(sq, k, i, ResendTicks) : i \in 0 .. n - 1}

LEMMA QueueMore ==
  ASSUME NEW sq, NEW sq2, CallList(sq), CallList(sq2), Longer(sq, sq2),
         NEW queue, Queue(sq, queue), Len(sq2) >= 1
  PROVE  Queue(sq2, queue \cup enqueued_parts(sq2, Len(sq2), sq2[Len(sq2)].parts))
  <1>1. PICK k : k = Len(sq2)
    OBVIOUS
  <1>2. k \in 1 .. Len(sq2)
    BY <1>1 DEF CallList
  <1>3. PICK S : S = PartsOf(sq2, k)
    OBVIOUS
  <1>4. IsFiniteSet(S)
    <2>1. sq2[k].parts - 1 \in Int /\ 0 \in Int
      BY <1>2, CallFacts
    <2> QED
      BY <1>3, <2>1, FS_Interval DEF PartsOf
  <1>5. PICK f : f = [i \in S |-> queued(sq2, k, i, ResendTicks)]
    OBVIOUS
  <1>6. DOMAIN f = S /\ f = [x \in S |-> f[x]]
    BY <1>5
  <1>7. IsFiniteSet({f[x] : x \in S})
    BY <1>4, <1>6, FiniteImage
  <1>8. enqueued_parts(sq2, k, sq2[k].parts) = {f[x] : x \in S}
    BY <1>3, <1>5 DEF enqueued_parts, PartsOf
  <1>9. ResendTicks \in 0 .. ResendTicks
    BY ResendAssumption
  <1>10. \A x \in S : IsQueued(sq2, f[x])
    BY <1>2, <1>3, <1>5, <1>9 DEF IsQueued
  <1>11. \A m \in queue : IsQueued(sq2, m)
    BY QueuedKept DEF Queue
  <1>12. IsFiniteSet(queue \cup {f[x] : x \in S})
    BY <1>7, FS_Union DEF Queue
  <1> QED
    BY <1>1, <1>8, <1>10, <1>11, <1>12 DEF Queue

\* In an epoch, ids do not wrap.
LEMMA NoWrap ==
  ASSUME Epoch, NEW s \in Nat, NEW n \in Nat, s + n <= MaxId
  PROVE  P!wrapping_add(s, n) = s + n
  BY IdFacts DEF Epoch, P!wrapping_add

-----------------------------------------------------------------------------
(* The invariant *)

\* A packet carries parts of calls of its sender.
Carries(sent, p) ==
  /\ p.src \in Peers /\ IsFiniteSet(p.payload)
  /\ \A m \in p.payload : IsPart(sent[p.src], m)

Tables ==
  /\ DOMAIN sends = Peers /\ DOMAIN next_message_id = Peers /\ DOMAIN q = Peers
  /\ DOMAIN seen_buf = Peers /\ DOMAIN in_progress = Peers /\ DOMAIN delivered = Peers

\* Each end has used its ids once, only parts of its calls are queued and on
\* the wire, and the other end's receiver is in order with its calls.
MessageInv ==
  /\ Tables
  /\ \A e \in Peers : Sender(sends[e], next_message_id[e], q[e])
  /\ \A p \in net : Carries(sends, p)
  /\ \A e \in Peers : Receiver(sends[other(e)], seen_buf[e], in_progress[e], delivered[e])

LEMMA OtherPeer ==
  /\ \A e \in Peers : other(e) \in Peers /\ other(e) # e
  /\ \A e \in Peers : other(other(e)) = e
  /\ \A e, f \in Peers : f = e \/ f = other(e)
  /\ (CHOOSE e \in Peers : TRUE) \in Peers
  <1>1. PICK a, b \in Peers : a # b /\ Peers = {a, b}
    BY PeersAssumption
  <1>2. \A e \in Peers : \E p \in Peers : p # e
    BY <1>1
  <1>3. \A e \in Peers : other(e) \in Peers /\ other(e) # e
    BY <1>2 DEF other, P!other
  <1>4. \A e, f \in Peers : f = e \/ f = other(e)
    BY <1>1, <1>3
  <1>5. \A e \in Peers : other(other(e)) = e
    BY <1>3, <1>4
  <1>6. (CHOOSE e \in Peers : TRUE) \in Peers
    BY <1>1, Zenon
  <1> QED
    BY <1>3, <1>4, <1>5, <1>6

LEMMA InitInv ==
  ASSUME Epoch, Init
  PROVE  MessageInv
  <1> USE DEF Init
  <1>1. Tables
    BY DEF Tables
  <1>2. CallList(<< >>)
    BY DEF CallList
  <1>3. Sender(<< >>, 0, {})
    BY <1>2, IdFacts, FS_EmptySet DEF Sender, Queue
  <1>4. \A e \in Peers : Sender(sends[e], next_message_id[e], q[e])
    BY <1>3
  <1>5. \A p \in net : Carries(sends, p)
    BY DEF P!Init
  <1>6. Receiver(<< >>, [c \in Channels |-> Seen!with_capacity], << >>, EmptyBag)
    BY ReceiverStart
  <1>7. \A e \in Peers : Receiver(sends[other(e)], seen_buf[e], in_progress[e], delivered[e])
    <2> TAKE e \in Peers
    <2>1. sends[other(e)] = << >> /\ in_progress[e] = << >> /\ delivered[e] = EmptyBag
      BY OtherPeer
    <2>2. seen_buf[e] = [c \in Channels |-> Seen!with_capacity]
      BY Zenon
    <2> QED
      BY <1>6, <2>1, <2>2
  <1> QED
    BY <1>1, <1>4, <1>5, <1>7 DEF MessageInv

\* The peers' calls, together no more than the workload.
LEMMA CallsLeft ==
  ASSUME MessageInv, NEW e \in Peers, calls < Len(Workload)
  PROVE  /\ Len(sends[e]) < Len(Workload)
         /\ Workload[calls + 1][2] \in Channels /\ Workload[calls + 1][3] \in 1 .. MaxParts
  <1> DEFINE x == CHOOSE f \in Peers : TRUE
  <1>1. x \in Peers /\ other(x) \in Peers /\ (e = x \/ e = other(x))
    BY OtherPeer
  <1>2. \A f \in Peers : Len(sends[f]) \in Nat
    BY DEF MessageInv, Sender, CallList
  <1>3. calls = Len(sends[x]) + Len(sends[other(x)])
    BY DEF calls
  <1>4. calls \in Nat /\ Len(sends[e]) <= calls
    <2>1. PICK a, b : a = Len(sends[x]) /\ b = Len(sends[other(x)])
      OBVIOUS
    <2>2. a \in Nat /\ b \in Nat /\ calls = a + b
      BY <1>1, <1>2, <1>3, <2>1
    <2>3. Len(sends[e]) = a \/ Len(sends[e]) = b
      BY <1>1, <2>1
    <2> QED
      BY <2>2, <2>3
  <1>5. Len(sends[e]) < Len(Workload)
    BY <1>2, <1>4, IdFacts
  <1>6. calls + 1 \in 1 .. Len(Workload)
    BY <1>4, IdFacts
  <1>7. Workload[calls + 1] \in Peers \X Channels \X (1 .. MaxParts)
    BY <1>6, WorkloadAssumption
  <1> QED
    BY <1>5, <1>7

\* What send_message does, with the ids it takes.
LEMMA SendMessageIs ==
  ASSUME Epoch, MessageInv, NEW e \in Peers, NEW c \in Channels, NEW n \in 1 .. MaxParts,
         Len(sends[e]) < Len(Workload), send_message(e, c, n)
  PROVE  \E sq2 :
           /\ MakesCall(sends[e], next_message_id[e], q[e], c, n, sq2)
           /\ sends' = [sends EXCEPT ![e] = sq2]
           /\ next_message_id' = [next_message_id EXCEPT ![e] = next_message_id[e] + n]
           /\ enqueued(e, c, n) = enqueued_parts(sq2, Len(sq2), n)
  <1>1. PICK ok \in BOOLEAN : ok = (n = 1 \/ ~ parent_refused(e))
    BY Zenon
  <1>2. PICK sq, next, queue : sq = sends[e] /\ next = next_message_id[e] /\ queue = q[e]
    OBVIOUS
  <1>3. Sender(sq, next, queue)
    BY <1>2 DEF MessageInv
  <1>4. PICK sq2 : sq2 = Append(sq, [id |-> next, channel |-> c, parts |-> n, ok |-> ok])
    OBVIOUS
  <1>5. MakesCall(sq, next, queue, c, n, sq2)
    BY <1>2, <1>3, <1>4 DEF MakesCall
  <1>6. /\ Len(sq2) = Len(sq) + 1
        /\ sq2[Len(sq2)].id = next /\ sq2[Len(sq2)].parts = n /\ sq2[Len(sq2)].channel = c
    BY <1>5, CallMade
  <1>7. sends' = [sends EXCEPT ![e] = sq2]
    BY <1>1, <1>2, <1>4, Zenon DEF send_message
  <1>8. n \in Nat /\ next \in Nat /\ next + n <= MaxId
    <2>1. Len(sq) \in Nat
      BY <1>3 DEF Sender, CallList
    <2> QED
      BY <1>2, <1>3, <2>1, MoreIds DEF Sender
  <1>9. next_message_id' = [next_message_id EXCEPT ![e] = next + n]
    BY <1>2, <1>8, NoWrap DEF send_message
  <1>10. enqueued(e, c, n) = enqueued_parts(sq2, Len(sq2), n)
    <2>1. PICK k : k = Len(sq2)
      OBVIOUS
    <2>2. ASSUME NEW i \in 0 .. n - 1
          PROVE  [id |-> P!wrapping_add(next, i), channel |-> c,
                  fragment |-> fragment_header(next, i, n),
                  body |-> [msg |-> Len(sq) + 1, part |-> i], age |-> ResendTicks]
                 = queued(sq2, k, i, ResendTicks)
      <3>1. P!wrapping_add(next, i) = next + i
        BY <1>8, NoWrap, IdFacts
      <3>2. fragment_of(sq2[k], i) = fragment_header(next, i, n)
        BY <1>6, <2>1 DEF fragment_of, fragment_header
      <3> QED
        BY <1>6, <2>1, <3>1, <3>2 DEF queued
    <2> QED
      BY <1>2, <2>1, <2>2 DEF enqueued, enqueued_parts
  <1> QED
    BY <1>2, <1>5, <1>7, <1>9, <1>10

\* One peer's calls grow, the other's stay.
LEMMA CallsGrow ==
  ASSUME MessageInv, NEW e \in Peers, NEW c, NEW n, NEW sq2,
         MakesCall(sends[e], next_message_id[e], q[e], c, n, sq2),
         sends' = [sends EXCEPT ![e] = sq2]
  PROVE  \A f \in Peers : /\ f # e => sends'[f] = sends[f]
                          /\ f = e => sends'[f] = sq2
                          /\ CallList(sends[f]) /\ CallList(sends'[f])
                          /\ Longer(sends[f], sends'[f])
  <1>1. CallList(sq2) /\ Longer(sends[e], sq2)
    BY CallMade
  <1>2. \A f \in Peers : CallList(sends[f]) /\ Longer(sends[f], sends[f])
    BY DEF MessageInv, Sender, Longer, CallList
  <1>3. DOMAIN sends = Peers
    BY DEF MessageInv, Tables
  <1> QED
    BY <1>1, <1>2, <1>3

LEMMA SendMessageInv ==
  ASSUME Epoch, MessageInv, NEW e \in Peers, NEW c \in Channels, NEW n \in 1 .. MaxParts,
         Len(sends[e]) < Len(Workload), send_message(e, c, n)
  PROVE  MessageInv'
  <1>1. PICK sq2 :
          /\ MakesCall(sends[e], next_message_id[e], q[e], c, n, sq2)
          /\ sends' = [sends EXCEPT ![e] = sq2]
          /\ next_message_id' = [next_message_id EXCEPT ![e] = next_message_id[e] + n]
          /\ enqueued(e, c, n) = enqueued_parts(sq2, Len(sq2), n)
    BY SendMessageIs
  <1>2. PICK sq, next, queue : sq = sends[e] /\ next = next_message_id[e] /\ queue = q[e]
    OBVIOUS
  <1>3. CallList(sq) /\ Queue(sq, queue)
    BY <1>2 DEF MessageInv, Sender
  <1>4. /\ CallList(sq2) /\ Longer(sq, sq2)
        /\ Len(sq2) = Len(sq) + 1 /\ next + n <= MaxParts * Len(sq2) /\ next + n \in Nat
        /\ \A k \in 1 .. Len(sq2) : sq2[k].id + sq2[k].parts <= next + n
        /\ sq2[Len(sq2)].parts = n
    BY <1>1, <1>2, CallMade
  <1>5. q' = [q EXCEPT ![e] = queue \cup enqueued_parts(sq2, Len(sq2), n)]
    BY <1>1, <1>2, Zenon DEF send_message
  <1>6. Len(sq2) >= 1
    BY <1>3, <1>4 DEF CallList
  <1>7. Queue(sq2, queue \cup enqueued_parts(sq2, Len(sq2), n))
    BY <1>3, <1>4, <1>6, QueueMore
  <1>8. Sender(sq2, next + n, queue \cup enqueued_parts(sq2, Len(sq2), n))
    BY <1>4, <1>7 DEF Sender
  <1>9. /\ DOMAIN sends = Peers /\ DOMAIN next_message_id = Peers /\ DOMAIN q = Peers
    BY DEF MessageInv, Tables
  <1>10. UNCHANGED <<net, seen_buf, in_progress, delivered>>
    BY DEF send_message, packet_vars, receiver_vars
  <1>11. Tables'
    BY <1>1, <1>5, <1>10 DEF MessageInv, Tables
  <1>12. \A f \in Peers : /\ f # e => sends'[f] = sends[f]
                          /\ f = e => sends'[f] = sq2
                          /\ CallList(sends[f]) /\ CallList(sends'[f])
                          /\ Longer(sends[f], sends'[f])
    BY <1>1, CallsGrow
  <1>13. \A f \in Peers : Sender(sends'[f], next_message_id'[f], q'[f])
    BY <1>1, <1>2, <1>5, <1>8, <1>9, <1>12 DEF MessageInv
  <1>14. \A p \in net' : Carries(sends', p)
    <2> SUFFICES ASSUME NEW p \in net PROVE Carries(sends', p)
      BY <1>10
    <2>1. Carries(sends, p)
      BY DEF MessageInv
    <2>2. \A m \in p.payload : IsPart(sends'[p.src], m)
      BY <1>12, <2>1, PartKept DEF Carries
    <2> QED
      BY <2>1, <2>2 DEF Carries
  <1>15. \A f \in Peers :
           Receiver(sends'[other(f)], seen_buf'[f], in_progress'[f], delivered'[f])
    <2> SUFFICES ASSUME NEW f \in Peers
                 PROVE  Receiver(sends'[other(f)], seen_buf[f], in_progress[f], delivered[f])
      BY <1>10
    <2>1. Receiver(sends[other(f)], seen_buf[f], in_progress[f], delivered[f])
      BY DEF MessageInv
    <2>2. other(f) \in Peers
      BY OtherPeer
    <2> QED
      BY <1>12, <2>1, <2>2, ReceiverKept
  <1> QED
    BY <1>11, <1>13, <1>14, <1>15 DEF MessageInv

\* A step of one end's queue.
LEMMA QueueStep ==
  ASSUME MessageInv, NEW e \in Peers, NEW queue, Queue(sends[e], queue),
         q' = [q EXCEPT ![e] = queue],
         UNCHANGED <<next_message_id, sends>>
  PROVE  \A f \in Peers : Sender(sends'[f], next_message_id'[f], q'[f])
  <1>1. DOMAIN q = Peers
    BY DEF MessageInv, Tables
  <1>2. ASSUME NEW f \in Peers PROVE Sender(sends[f], next_message_id[f], q'[f])
    <2>1. Sender(sends[f], next_message_id[f], q[f])
      BY DEF MessageInv
    <2>2. CASE f = e
      BY <1>1, <2>1, <2>2 DEF Sender
    <2>3. CASE f # e
      BY <1>1, <2>1, <2>3
    <2> QED
      BY <2>2, <2>3
  <1> QED
    BY <1>2

LEMMA UpdateInv ==
  ASSUME MessageInv, NEW e \in Peers, update(e)
  PROVE  MessageInv'
  <1>1. /\ q' = [q EXCEPT ![e] = {older(m) : m \in q[e]}]
        /\ UNCHANGED <<net, seen_buf, in_progress, delivered, next_message_id, sends>>
    BY DEF update, packet_vars, receiver_vars
  <1>2. Queue(sends[e], {older(m) : m \in q[e]})
    BY QueueAges DEF MessageInv, Sender
  <1>3. \A f \in Peers : Sender(sends'[f], next_message_id'[f], q'[f])
    BY <1>1, <1>2, QueueStep
  <1>4. Tables'
    BY <1>1 DEF MessageInv, Tables
  <1> QED
    BY <1>1, <1>3, <1>4 DEF MessageInv

\* A packet with parts of its sender's calls.
LEMMA SendPacketCarries ==
  ASSUME MessageInv, NEW e \in Peers, NEW type, NEW payload, IsFiniteSet(payload),
         \A m \in payload : IsPart(sends[e], m), P!SendPacket(e, type, payload)
  PROVE  \A p \in net' : Carries(sends, p)
  <1>1. PICK p : p = P!next_packet_header(e, type, payload)
    OBVIOUS
  <1>2. p.src = e /\ p.payload = payload
    BY <1>1 DEF P!next_packet_header
  <1>3. net' = net \cup {p}
    BY <1>1, Zenon DEF P!SendPacket
  <1>4. Carries(sends, p)
    BY <1>2 DEF Carries
  <1> QED
    BY <1>3, <1>4 DEF MessageInv

LEMMA ComposeInv ==
  ASSUME MessageInv, NEW e \in Peers, NEW batch \in SUBSET ready(q[e]), compose_packets(e, batch)
  PROVE  MessageInv'
  <1>1. /\ q' = [q EXCEPT ![e] = after_writing(q[e], batch)]
        /\ UNCHANGED <<seen_buf, in_progress, delivered, next_message_id, sends>>
        /\ P!SendPacket(e, "Messages", {on_wire(m) : m \in batch})
    BY Zenon DEF compose_packets, receiver_vars
  <1>2. batch \in SUBSET q[e]
    BY DEF ready
  <1>3. Queue(sends[e], q[e])
    BY DEF MessageInv, Sender
  <1>4. Queue(sends[e], after_writing(q[e], batch))
    BY <1>2, <1>3, QueueWritten
  <1>5. \A f \in Peers : Sender(sends'[f], next_message_id'[f], q'[f])
    BY <1>1, <1>4, QueueStep
  <1>6. /\ IsFiniteSet({on_wire(m) : m \in batch})
        /\ \A m \in {on_wire(b) : b \in batch} : IsPart(sends[e], m)
    BY <1>2, <1>3, BatchParts
  <1>7. \A p \in net' : Carries(sends, p)
    BY <1>1, <1>6, SendPacketCarries
  <1>8. Tables'
    BY <1>1 DEF MessageInv, Tables
  <1> QED
    BY <1>1, <1>5, <1>7, <1>8 DEF MessageInv

LEMMA RefusedInv ==
  ASSUME MessageInv, NEW e \in Peers, compose_refused(e)
  PROVE  MessageInv'
  <1>1. UNCHANGED <<net, seen_buf, in_progress, delivered, next_message_id, sends, q>>
    BY DEF compose_refused, P!RefusePacket, sender_vars, receiver_vars
  <1> QED
    BY <1>1 DEF MessageInv, Tables

LEMMA KeepaliveInv ==
  ASSUME MessageInv, NEW e \in Peers, send_keepalive(e)
  PROVE  MessageInv'
  <1>1. UNCHANGED <<seen_buf, in_progress, delivered, next_message_id, sends, q>>
    BY DEF send_keepalive, sender_vars, receiver_vars
  <1>2. \A p \in net' : Carries(sends, p)
    <2>1. CASE P!SendPacket(e, "KeepAlive", {})
      BY <2>1, FS_EmptySet, SendPacketCarries
    <2>2. CASE P!RefusePacket(e, "KeepAlive")
      BY <2>2 DEF P!RefusePacket, MessageInv
    <2> QED
      BY <2>1, <2>2 DEF send_keepalive
  <1> QED
    BY <1>1, <1>2 DEF MessageInv, Tables

\* A packet that is processed: the receiver takes all its messages.
LEMMA ReceiveIs ==
  ASSUME Epoch, MessageInv, NEW e \in Peers, NEW p \in net, receive(e, p)
  PROVE  \E new, ip2, inbox2 :
           /\ seen_buf' = [seen_buf EXCEPT ![e] = new]
           /\ in_progress' = [in_progress EXCEPT ![e] = ip2]
           /\ delivered' = [delivered EXCEPT ![e] = inbox2]
           /\ Receiver(sends[other(e)], new, ip2, inbox2)
           /\ Forward(seen_buf[e], new) /\ \A m \in p.payload : TakenMessage(new, m)
           /\ ~ ack_panics(e, P!newly_acked(e, p.acks)) => panicked' = [panicked EXCEPT ![e] = FALSE]
  <1> DEFINE before == [seen |-> seen_buf[e], in_progress |-> in_progress[e],
                        inbox |-> delivered[e], panic |-> FALSE]
  <1>1. PICK msgs \in in_order(p.payload) :
          /\ seen_buf' = [seen_buf EXCEPT ![e] = process_received_messages(before, msgs).seen]
          /\ in_progress' = [in_progress EXCEPT ![e] =
               process_received_messages(before, msgs).in_progress]
          /\ delivered' = [delivered EXCEPT ![e] = process_received_messages(before, msgs).inbox]
          /\ panicked' = [panicked EXCEPT ![e] =
               process_received_messages(before, msgs).panic \/ ack_panics(e, P!newly_acked(e, p.acks))]
    BY Zenon DEF receive
  <1>2. p.src = other(e)
    <2>1. P!process_incoming_packet(e, p)
      BY Zenon DEF receive
    <2>2. p.src = P!other(e)
      BY <2>1, Zenon DEF P!process_incoming_packet
    <2> QED
      BY <2>2 DEF other
  <1>3. PICK sq, seen, ip, inbox, panic :
          /\ sq = sends[other(e)] /\ seen = seen_buf[e] /\ ip = in_progress[e]
          /\ inbox = delivered[e] /\ panic = FALSE
    OBVIOUS
  <1>4. before = state(seen, ip, inbox, panic)
    BY <1>3, Zenon DEF state
  <1> HIDE DEF before
  <1>5. Receiver(sq, seen, ip, inbox)
    BY <1>3 DEF MessageInv
  <1>6. Fits(sq, before, seen, panic)
    BY <1>4, <1>5 DEF Fits
  <1>7. CallList(sq)
    BY <1>3, OtherPeer DEF MessageInv, Sender
  <1>8. Carries(sends, p)
    BY DEF MessageInv
  <1>9. /\ Len(msgs) \in Nat /\ \A j \in 1 .. Len(msgs) : IsPart(sq, msgs[j])
        /\ \A m \in p.payload : \E j \in 1 .. Len(msgs) : msgs[j] = m
    <2>1. PICK n : n = Cardinality(p.payload)
      OBVIOUS
    <2>2. n \in Nat
      BY <1>8, <2>1, FS_CardinalityType DEF Carries
    <2>3. /\ msgs \in [1 .. n -> p.payload]
          /\ \A m \in p.payload : \E j \in DOMAIN msgs : msgs[j] = m
      BY <1>1, <2>1 DEF in_order
    <2>4. Len(msgs) = n
      BY <2>2, <2>3
    <2> QED
      BY <1>2, <1>3, <1>8, <2>2, <2>3, <2>4 DEF Carries
  <1>10. PICK new : /\ Fits(sq, process_received_messages(before, msgs), new, panic)
                    /\ Forward(seen, new)
                    /\ \A j \in 1 .. Len(msgs) : TakenMessage(new, msgs[j])
    BY <1>6, <1>7, <1>9, ProcessAll
  <1>11. PICK ip2, inbox2 :
           /\ process_received_messages(before, msgs) = state(new, ip2, inbox2, panic)
           /\ Receiver(sq, new, ip2, inbox2)
    BY <1>10 DEF Fits
  <1>12. /\ seen_buf' = [seen_buf EXCEPT ![e] = new]
         /\ in_progress' = [in_progress EXCEPT ![e] = ip2]
         /\ delivered' = [delivered EXCEPT ![e] = inbox2]
    <2>1. /\ process_received_messages(before, msgs).seen = new
          /\ process_received_messages(before, msgs).in_progress = ip2
          /\ process_received_messages(before, msgs).inbox = inbox2
      <3>1. PICK r : r = process_received_messages(before, msgs)
        OBVIOUS
      <3>2. r.seen = new /\ r.in_progress = ip2 /\ r.inbox = inbox2
        BY <1>11, <3>1 DEF state
      <3> QED
        BY <3>1, <3>2
    <2> QED
      BY <1>1, <2>1, Zenon
  <1>13. \A m \in p.payload : TakenMessage(new, m)
    BY <1>9, <1>10
  <1>14. ASSUME ~ ack_panics(e, P!newly_acked(e, p.acks))
         PROVE  panicked' = [panicked EXCEPT ![e] = FALSE]
    <2>1. PICK r : r = process_received_messages(before, msgs)
      OBVIOUS
    <2>2. r.panic = FALSE
      BY <1>3, <1>11, <2>1, StateFields
    <2>3. (r.panic \/ ack_panics(e, P!newly_acked(e, p.acks))) = FALSE
      BY <1>14, <2>2
    <2> QED
      BY <1>1, <2>1, <2>3, Zenon
  <1> QED
    BY <1>3, <1>10, <1>11, <1>12, <1>13, <1>14

LEMMA ReceiveInv ==
  ASSUME Epoch, MessageInv, NEW e \in Peers, NEW p \in net, receive(e, p)
  PROVE  MessageInv'
  <1> DEFINE fresh == P!newly_acked(e, p.acks)
             handles == handles_acked(messages_in_packets[e], fresh)
             left == {m \in q[e] : \A h \in handles : ~ dismissed_by_ack(m, h)}
  <1>1. PICK new, ip2, inbox2 :
          /\ seen_buf' = [seen_buf EXCEPT ![e] = new]
          /\ in_progress' = [in_progress EXCEPT ![e] = ip2]
          /\ delivered' = [delivered EXCEPT ![e] = inbox2]
          /\ Receiver(sends[other(e)], new, ip2, inbox2)
    BY ReceiveIs
  <1>2. q' = [q EXCEPT ![e] = left]
    BY Zenon DEF receive, acked_packets
  <1>3. UNCHANGED <<next_message_id, sends, net>>
    <2>1. UNCHANGED <<next_message_id, sends, visiting>> /\ P!process_incoming_packet(e, p)
      BY Zenon DEF receive
    <2>2. UNCHANGED <<sequence_id, net>>
      BY <2>1, Zenon DEF P!process_incoming_packet
    <2> QED
      BY <2>1, <2>2
  <1>4. left \in SUBSET q[e]
    OBVIOUS
  <1> HIDE DEF left
  <1>5. Queue(sends[e], left)
    BY <1>4, QueueSubset DEF MessageInv, Sender
  <1>6. \A f \in Peers : Sender(sends'[f], next_message_id'[f], q'[f])
    BY <1>2, <1>3, <1>5, QueueStep
  <1>7. Tables'
    BY <1>1, <1>2, <1>3 DEF MessageInv, Tables
  <1>8. ASSUME NEW f \in Peers
        PROVE  Receiver(sends[other(f)], seen_buf'[f], in_progress'[f], delivered'[f])
    <2>1. DOMAIN seen_buf = Peers /\ DOMAIN in_progress = Peers /\ DOMAIN delivered = Peers
      BY DEF MessageInv, Tables
    <2>2. CASE f = e
      BY <1>1, <2>1, <2>2
    <2>3. CASE f # e
      BY <1>1, <2>1, <2>3 DEF MessageInv
    <2> QED
      BY <2>2, <2>3
  <1> QED
    BY <1>3, <1>6, <1>7, <1>8 DEF MessageInv

LEMMA NextInv ==
  ASSUME Epoch, MessageInv, [Next]_vars
  PROVE  MessageInv'
  <1>1. CASE UNCHANGED vars
    BY <1>1 DEF vars, packet_vars, sender_vars, receiver_vars, MessageInv, Tables
  <1>2. ASSUME NEW e \in Peers, calls < Len(Workload),
               send_message(e, Workload[calls + 1][2], Workload[calls + 1][3])
        PROVE  MessageInv'
    BY <1>2, CallsLeft, SendMessageInv
  <1>3. ASSUME NEW e \in Peers, update(e) PROVE MessageInv'
    BY <1>3, UpdateInv
  <1>4. ASSUME NEW e \in Peers, NEW batch \in SUBSET ready(q[e]), compose_packets(e, batch)
        PROVE  MessageInv'
    BY <1>4, ComposeInv
  <1>5. ASSUME NEW e \in Peers, compose_refused(e) PROVE MessageInv'
    BY <1>5, RefusedInv
  <1>6. ASSUME NEW e \in Peers, send_keepalive(e) PROVE MessageInv'
    BY <1>6, KeepaliveInv
  <1>7. ASSUME NEW e \in Peers, NEW p \in net, receive(e, p) PROVE MessageInv'
    BY <1>7, ReceiveInv
  <1> QED
    BY <1>1, <1>2, <1>3, <1>4, <1>5, <1>6, <1>7 DEF Next

\* MessageInv is inductive.
THEOREM MessageInvariant ==
  ASSUME Epoch
  PROVE  Spec => []MessageInv
  <1>1. Init => MessageInv
    BY InitInv
  <1>2. MessageInv /\ [Next]_vars => MessageInv'
    BY NextInv
  <1> QED
    BY <1>1, <1>2, PTL DEF Spec

\* What arrives was sent, whole and on its channel: whatever is lost, repeated
\* or reordered, the reassembler never mixes messages and never hands up a
\* message without all its parts.
THEOREM Intact ==
  ASSUME Epoch
  PROVE  Spec => []DeliveredIntact
  <1>1. MessageInv => DeliveredIntact
    <2> SUFFICES ASSUME MessageInv, NEW e \in Peers, NEW item \in BagToSet(delivered[e])
                 PROVE  \E k \in 1 .. Len(sends[other(e)]) : item = whole_message(other(e), k)
      BY DEF DeliveredIntact
    <2>1. Inbox(sends[other(e)], seen_buf[e], delivered[e]) /\ item \in DOMAIN delivered[e]
      BY DEF MessageInv, Receiver, BagToSet
    <2>2. PICK k \in 1 .. Len(sends[other(e)]) : item = whole_of(sends[other(e)], k)
      BY <2>1 DEF Inbox
    <2>3. whole_of(sends[other(e)], k) = whole_message(other(e), k)
      BY DEF whole_of, whole_message, bodies, PartsOf
    <2> QED
      BY <2>2, <2>3
  <1> QED
    BY <1>1, MessageInvariant, PTL

\* No message is handed to the application twice.
THEOREM Once ==
  ASSUME Epoch
  PROVE  Spec => []DeliveredOnce
  <1>1. MessageInv => DeliveredOnce
    <2> SUFFICES ASSUME MessageInv, NEW e \in Peers, NEW item \in BagToSet(delivered[e])
                 PROVE  delivered[e][item] = 1
      BY DEF DeliveredOnce
    <2>1. item \in DOMAIN delivered[e] /\ delivered[e] = [x \in DOMAIN delivered[e] |-> 1]
      BY DEF MessageInv, Receiver, Inbox, BagToSet
    <2> QED
      BY <2>1
  <1> QED
    BY <1>1, MessageInvariant, PTL

-----------------------------------------------------------------------------
(* The packet layer below *)

\* What a packet may carry.
Parts ==
  [id : Ids, channel : Channels, body : [msg : Nat, part : Nat],
   fragment : {NoFrag} \cup [index : Nat, num_fragments : Nat, parent_id : Ids]]

Service == INSTANCE PacketLayerProofs WITH Payloads <- SUBSET Parts

\* The packet numbers used and the windows behind them fit in half the number
\* space.
PacketEpoch == MaxSeq + SentSize < SeqMod \div 2 /\ MaxSeq + RecvSize < SeqMod \div 2

LEMMA PacketFacts ==
  ASSUME PacketEpoch
  PROVE  /\ SeqMod \in Nat /\ SeqMod >= 2
         /\ \E a, b \in Peers : a # b /\ Peers = {a, b}
         /\ /\ MaxUnacked \in Nat \ {0}
            /\ AckBitsPerByte \in Nat \ {0}
            /\ SentSize \in Nat \ {0}
            /\ RecvSize \in Nat \ {0}
         /\ MaxSeq \in Nat /\ MaxSeq <= SeqMod
         /\ /\ MaxSeq + SentSize < Service!Half
            /\ MaxSeq + RecvSize < Service!Half
  <1>1. /\ SeqMod \in Nat /\ SeqMod >= 2 /\ RecvSize \in Nat \ {0}
        /\ MaxUnacked \in Nat \ {0} /\ AckBitsPerByte \in Nat \ {0} /\ SentSize \in Nat \ {0}
        /\ MaxSeq \in Nat /\ MaxSeq <= SeqMod
    BY BufferAssumption, PacketAssumption
  <1>2. MaxSeq + SentSize < Service!Half /\ MaxSeq + RecvSize < Service!Half
    BY DEF PacketEpoch, Service!Half
  <1> QED
    BY <1>1, <1>2, PeersAssumption, Zenon

LEMMA PartInParts ==
  ASSUME NEW sq, CallList(sq), NEW m, IsPart(sq, m)
  PROVE  m \in Parts
  <1>1. PICK k \in 1 .. Len(sq) : \E i \in PartsOf(sq, k) : m = part_of(sq, k, i)
    BY DEF IsPart
  <1>2. PICK i \in PartsOf(sq, k) : m = part_of(sq, k, i)
    BY <1>1
  <1>3. /\ sq[k].id \in Ids /\ sq[k].channel \in Channels /\ sq[k].parts \in Nat
        /\ sq[k].id + i \in Ids /\ i \in Nat /\ k \in Nat
    BY CallFacts
  <1>4. fragment_of(sq[k], i) \in
          {NoFrag} \cup [index : Nat, num_fragments : Nat, parent_id : Ids]
    BY <1>3 DEF fragment_of
  <1> QED
    BY <1>2, <1>3, <1>4 DEF part_of, Parts

\* The packet layer's actions are those that are proved about.
LEMMA SameReceive ==
  ASSUME NEW e, NEW p, P!process_incoming_packet(e, p)
  PROVE  Service!process_incoming_packet(e, p)
  BY Zenon DEF P!process_incoming_packet, Service!process_incoming_packet,
     P!other, Service!other, P!fresh_packet, Service!fresh_packet,
     P!process_packet_acks, Service!process_packet_acks,
     P!newly_acked, Service!newly_acked, P!newest_of, Service!newest_of,
     P!mark_acked, Service!mark_acked, P!None, Service!None,
     P!Sent!exists, Service!Sent!exists, P!Sent!get, Service!Sent!get,
     P!Sent!index, Service!Sent!index, P!Sent!Slots, Service!Sent!Slots,
     P!sequence_greater_than, Service!sequence_greater_than, P!Half, Service!Half,
     P!Recv!exists, Service!Recv!exists, P!Recv!index, Service!Recv!index,
     P!Recv!check_sequence, Service!Recv!check_sequence,
     P!Recv!window_start, Service!Recv!window_start,
     P!Recv!wrapping_sub, Service!Recv!wrapping_sub,
     P!Recv!sequence_greater_than, Service!Recv!sequence_greater_than,
     P!Recv!Half, Service!Recv!Half,
     P!Recv!insert, Service!Recv!insert, P!Recv!advance, Service!Recv!advance,
     P!Recv!remove_range, Service!Recv!remove_range, P!Recv!clear, Service!Recv!clear,
     P!Recv!wrapping_add, Service!Recv!wrapping_add, P!Recv!Slots, Service!Recv!Slots,
     P!Recv!NoSeq, Service!Recv!NoSeq

LEMMA SameSend ==
  ASSUME NEW e, NEW type, NEW payload, P!SendPacket(e, type, payload)
  PROVE  Service!SendPacket(e, type, payload)
  BY Zenon DEF P!SendPacket, Service!SendPacket, P!may_send, Service!may_send,
     P!header_refused, Service!header_refused, P!record_refused, Service!record_refused,
     P!next_packet_header, Service!next_packet_header, P!sent_meta, Service!sent_meta,
     P!sent_unacked_packets, Service!sent_unacked_packets,
     P!received_unacked_packets, Service!received_unacked_packets,
     P!unwrap_or_default, Service!unwrap_or_default, P!None, Service!None,
     P!with_minimum_length, Service!with_minimum_length,
     P!ack_field_length, Service!ack_field_length,
     P!wrapping_add, Service!wrapping_add, P!wrapping_sub, Service!wrapping_sub,
     P!Recv!exists, Service!Recv!exists, P!Recv!index, Service!Recv!index,
     P!Sent!insert_too_old, Service!Sent!insert_too_old,
     P!Sent!check_sequence, Service!Sent!check_sequence,
     P!Sent!window_start, Service!Sent!window_start,
     P!Sent!wrapping_sub, Service!Sent!wrapping_sub,
     P!Sent!sequence_greater_than, Service!Sent!sequence_greater_than,
     P!Sent!sequence_less_than, Service!Sent!sequence_less_than,
     P!Sent!Half, Service!Sent!Half,
     P!Sent!insert, Service!Sent!insert, P!Sent!advance, Service!Sent!advance,
     P!Sent!remove_range, Service!Sent!remove_range, P!Sent!clear, Service!Sent!clear,
     P!Sent!wrapping_add, Service!Sent!wrapping_add, P!Sent!Slots, Service!Sent!Slots,
     P!Sent!NoSeq, Service!Sent!NoSeq, P!Sent!index, Service!Sent!index

LEMMA SameRefuse ==
  ASSUME NEW e, NEW type, P!RefusePacket(e, type)
  PROVE  Service!RefusePacket(e, type)
  BY Zenon DEF P!RefusePacket, Service!RefusePacket, P!may_send, Service!may_send,
     P!header_refused, Service!header_refused, P!record_refused, Service!record_refused,
     P!sent_unacked_packets, Service!sent_unacked_packets,
     P!received_unacked_packets, Service!received_unacked_packets,
     P!unwrap_or_default, Service!unwrap_or_default, P!None, Service!None,
     P!wrapping_add, Service!wrapping_add, P!wrapping_sub, Service!wrapping_sub,
     P!Sent!insert_too_old, Service!Sent!insert_too_old,
     P!Sent!check_sequence, Service!Sent!check_sequence,
     P!Sent!window_start, Service!Sent!window_start,
     P!Sent!wrapping_sub, Service!Sent!wrapping_sub,
     P!Sent!sequence_greater_than, Service!Sent!sequence_greater_than,
     P!Sent!sequence_less_than, Service!Sent!sequence_less_than,
     P!Sent!Half, Service!Sent!Half

LEMMA SameInit ==
  ASSUME P!Init
  PROVE  Service!Init
  BY Zenon DEF P!Init, Service!Init, P!None, Service!None,
     P!Sent!with_capacity, Service!Sent!with_capacity, P!Sent!Slots, Service!Sent!Slots,
     P!Sent!NoSeq, Service!Sent!NoSeq, 
     P!Recv!with_capacity, Service!Recv!with_capacity, P!Recv!Slots, Service!Recv!Slots,
     P!Recv!NoSeq, Service!Recv!NoSeq

LEMMA ServiceStart ==
  ASSUME PacketEpoch, P!Init
  PROVE  Service!ServiceInv
  BY PacketFacts, SameInit, Service!InitService, Zenon

LEMMA ServiceSend ==
  ASSUME PacketEpoch, Service!ServiceInv, NEW e \in Peers, NEW type \in PacketTypes,
         NEW payload \in SUBSET Parts, P!SendPacket(e, type, payload)
  PROVE  Service!ServiceInv'
  BY PacketFacts, SameSend, Service!SendService, Zenon

LEMMA ServiceRefuse ==
  ASSUME PacketEpoch, Service!ServiceInv, NEW e \in Peers, NEW type \in PacketTypes,
         P!RefusePacket(e, type)
  PROVE  Service!ServiceInv'
  BY PacketFacts, SameRefuse, Service!RefuseService, Zenon

LEMMA ServiceReceive ==
  ASSUME PacketEpoch, Service!ServiceInv, NEW e \in Peers, NEW p \in net,
         P!process_incoming_packet(e, p)
  PROVE  Service!ServiceInv'
  BY PacketFacts, SameReceive, Service!ReceiveService, Zenon

-----------------------------------------------------------------------------
(* The handles recorded for each packet *)

PacketIds == 0 .. MaxSeq

HandleRing == INSTANCE SequenceBufferProofs WITH Size <- RecvSize, Default <- {}

HandleBuffers == HandleRing!BuffersOver(PacketIds, SUBSET {handle(m) : m \in Parts})

\* h is the handle of a message in packet s of e.
Known(ps, e, s, h) == \E p \in ps : p.src = e /\ p.id = s /\ \E m \in p.payload : h = handle(m)

HandlesKnown(ps, e, buf) ==
  /\ buf \in HandleBuffers
  /\ \A i \in 0 .. RecvSize - 1 :
       buf.tag[i] # SeqMod => \A h \in buf.entry[i] : Known(ps, e, buf.tag[i], h)

LEMMA HandleRingIs ==
  /\ \A buf, s, data : HandleRing!insert(buf, s, data) = Handles!insert(buf, s, data)
  /\ \A buf, slots : HandleRing!clear(buf, slots) = Handles!clear(buf, slots)
  /\ HandleRing!with_capacity = Handles!with_capacity
  /\ HandleRing!Slots = 0 .. RecvSize - 1 /\ HandleRing!NoSeq = SeqMod
  /\ \A s : HandleRing!index(s) = s % RecvSize /\ Handles!index(s) = s % RecvSize
  BY DEF HandleRing!insert, HandleRing!advance, HandleRing!remove_range, HandleRing!clear,
     HandleRing!Slots, HandleRing!index, HandleRing!NoSeq, HandleRing!wrapping_add,
     HandleRing!sequence_greater_than, HandleRing!Half, HandleRing!with_capacity,
     Handles!insert, Handles!advance, Handles!remove_range, Handles!clear,
     Handles!Slots, Handles!index, Handles!NoSeq, Handles!wrapping_add,
     Handles!sequence_greater_than, Handles!Half, Handles!with_capacity

LEMMA RingFacts ==
  /\ SeqMod \in Nat /\ SeqMod >= 2 /\ RecvSize \in Nat /\ RecvSize >= 1
  /\ FragSize \in Nat /\ FragSize >= 1 /\ MaxSeq \in Nat
  /\ PacketIds \in SUBSET Int /\ 0 \in PacketIds
  BY BufferAssumption, PacketAssumption DEF PacketIds

LEMMA HandlesStart ==
  ASSUME NEW e
  PROVE  HandlesKnown({}, e, Handles!with_capacity)
  <1>1. {} \in SUBSET {handle(m) : m \in Parts}
    OBVIOUS
  <1>2. /\ HandleRing!with_capacity \in HandleBuffers
        /\ \A i \in 0 .. RecvSize - 1 : HandleRing!with_capacity.tag[i] = SeqMod
    BY <1>1, RingFacts, HandleRingIs, HandleRing!EmptyBuffer DEF HandleBuffers
  <1> QED
    BY <1>2, HandleRingIs DEF HandlesKnown

LEMMA KnownMore ==
  ASSUME NEW ps, NEW more, ps \subseteq more, NEW e, NEW s, NEW h, Known(ps, e, s, h)
  PROVE  Known(more, e, s, h)
  BY DEF Known

LEMMA HandlesMore ==
  ASSUME NEW ps, NEW more, ps \subseteq more, NEW e, NEW buf, HandlesKnown(ps, e, buf)
  PROVE  HandlesKnown(more, e, buf)
  BY KnownMore DEF HandlesKnown

LEMMA HandlesInsert ==
  ASSUME NEW ps, NEW e, NEW buf, HandlesKnown(ps, e, buf), NEW s \in PacketIds,
         NEW hs \in SUBSET {handle(m) : m \in Parts}, \A h \in hs : Known(ps, e, s, h),
         NEW new, new = Handles!insert(buf, s, hs)
  PROVE  HandlesKnown(ps, e, new)
  <1>1. /\ new = HandleRing!insert(buf, s, hs) /\ buf \in HandleBuffers
        /\ {} \in SUBSET {handle(m) : m \in Parts}
    BY HandleRingIs DEF HandlesKnown
  <1>2. /\ new \in HandleBuffers
        /\ new.tag[HandleRing!index(s)] = s /\ new.entry[HandleRing!index(s)] = hs
        /\ \A i \in HandleRing!Slots \ {HandleRing!index(s)} :
             /\ i \in HandleRing!swept(buf, s) =>
                  new.tag[i] = HandleRing!NoSeq /\ new.entry[i] = {}
             /\ i \notin HandleRing!swept(buf, s) =>
                  new.tag[i] = buf.tag[i] /\ new.entry[i] = buf.entry[i]
    BY <1>1, RingFacts, HandleRing!InsertSlots DEF HandleBuffers
  <1>3. ASSUME NEW i \in 0 .. RecvSize - 1, new.tag[i] # SeqMod, NEW h \in new.entry[i]
        PROVE  Known(ps, e, new.tag[i], h)
    <2>1. CASE i = HandleRing!index(s)
      BY <1>2, <1>3, <2>1
    <2>2. CASE i # HandleRing!index(s)
      <3>1. new.tag[i] = buf.tag[i] /\ new.entry[i] = buf.entry[i]
        BY <1>2, <1>3, <2>2, HandleRingIs
      <3> QED
        BY <1>3, <3>1 DEF HandlesKnown
    <2> QED
      BY <2>1, <2>2
  <1> QED
    BY <1>2, <1>3 DEF HandlesKnown

LEMMA HandlesClear ==
  ASSUME NEW ps, NEW e, NEW buf, HandlesKnown(ps, e, buf), NEW slots,
         NEW new, new = Handles!clear(buf, slots)
  PROVE  HandlesKnown(ps, e, new)
  <1>1. /\ new = HandleRing!clear(buf, slots) /\ buf \in HandleBuffers
        /\ {} \in SUBSET {handle(m) : m \in Parts}
    BY HandleRingIs DEF HandlesKnown
  <1>2. /\ new \in HandleBuffers
        /\ \A i \in HandleRing!Slots : i \in slots =>
             new.tag[i] = HandleRing!NoSeq /\ new.entry[i] = {}
        /\ \A i \in HandleRing!Slots : i \notin slots =>
             new.tag[i] = buf.tag[i] /\ new.entry[i] = buf.entry[i]
    BY <1>1, RingFacts, HandleRing!ClearSlots DEF HandleBuffers
  <1> QED
    BY <1>2, HandleRingIs DEF HandlesKnown

\* What is looked up for an acked packet is what the packet carried.
LEMMA HandlesFound ==
  ASSUME PacketEpoch, NEW ps, NEW e, NEW buf, HandlesKnown(ps, e, buf),
         NEW fresh \in SUBSET PacketIds, NEW h \in handles_acked(buf, fresh)
  PROVE  \E s \in fresh : Known(ps, e, s, h)
  <1>1. PICK s \in fresh : Handles!exists(buf, s) /\ h \in Handles!get(buf, s)
    BY DEF handles_acked
  <1>2. PICK i : i = s % RecvSize
    OBVIOUS
  <1>3. buf.tag[i] = s /\ h \in buf.entry[i]
    BY <1>1, <1>2, HandleRingIs DEF Handles!exists, Handles!get
  <1>4. i \in 0 .. RecvSize - 1 /\ s # SeqMod
    BY <1>2, RingFacts DEF PacketIds, PacketEpoch
  <1> QED
    BY <1>3, <1>4 DEF HandlesKnown

-----------------------------------------------------------------------------
(* The parts that are to be acked *)

FragRing == INSTANCE SequenceBufferProofs
              WITH Size <- FragSize, Default <- [status |-> "Unknown", remaining |-> {}]

FragStatuses == [status : {"Unknown", "Partial", "Complete"}, remaining : SUBSET Ids]

FragBuffers == FragRing!BuffersOver(Ids, FragStatuses)

\* The parts of a call that are not awaited any more are with the peer.
FragStatus(sq, seen, t, x) ==
  \E k \in 1 .. Len(sq) :
    /\ sq[k].id = t
    /\ x.status = "Partial" =>
         \A j \in PartsOf(sq, k) : sq[k].id + j \in x.remaining \/ TakenPart(sq, seen, k, j)

FragsKnown(sq, seen, map) ==
  /\ map \in FragBuffers
  /\ \A i \in 0 .. FragSize - 1 :
       map.tag[i] # SeqMod => FragStatus(sq, seen, map.tag[i], map.entry[i])

LEMMA FragRingIs ==
  /\ \A buf, s, data : FragRing!insert(buf, s, data) = Frags!insert(buf, s, data)
  /\ FragRing!with_capacity = Frags!with_capacity
  /\ FragRing!Slots = 0 .. FragSize - 1 /\ FragRing!NoSeq = SeqMod
  /\ \A s : FragRing!index(s) = s % FragSize /\ Frags!index(s) = s % FragSize
  BY DEF FragRing!insert, FragRing!advance, FragRing!remove_range, FragRing!clear,
     FragRing!Slots, FragRing!index, FragRing!NoSeq, FragRing!wrapping_add,
     FragRing!sequence_greater_than, FragRing!Half, FragRing!with_capacity,
     Frags!insert, Frags!advance, Frags!remove_range, Frags!clear,
     Frags!Slots, Frags!index, Frags!NoSeq, Frags!wrapping_add,
     Frags!sequence_greater_than, Frags!Half, Frags!with_capacity

LEMMA FragsStart ==
  ASSUME NEW sq, NEW seen
  PROVE  FragsKnown(sq, seen, Frags!with_capacity)
  <1>1. [status |-> "Unknown", remaining |-> {}] \in FragStatuses
    BY DEF FragStatuses
  <1>2. /\ FragRing!with_capacity \in FragBuffers
        /\ \A i \in 0 .. FragSize - 1 : FragRing!with_capacity.tag[i] = SeqMod
    BY <1>1, IdFacts, RingFacts, FragRingIs, FragRing!EmptyBuffer DEF FragBuffers
  <1> QED
    BY <1>2, FragRingIs DEF FragsKnown

\* More calls, and more parts that are with the peer, disturb nothing.
LEMMA FragsKept ==
  ASSUME NEW sq, NEW sq2, CallList(sq), CallList(sq2), Longer(sq, sq2),
         NEW seen, NEW new, Forward(seen, new), NEW map, FragsKnown(sq, seen, map)
  PROVE  FragsKnown(sq2, new, map)
  <1>1. ASSUME NEW t, NEW x, FragStatus(sq, seen, t, x) PROVE FragStatus(sq2, new, t, x)
    <2>1. PICK k \in 1 .. Len(sq) :
            /\ sq[k].id = t
            /\ x.status = "Partial" =>
                 \A j \in PartsOf(sq, k) :
                   sq[k].id + j \in x.remaining \/ TakenPart(sq, seen, k, j)
      BY <1>1 DEF FragStatus
    <2>2. k \in 1 .. Len(sq2) /\ sq2[k] = sq[k] /\ PartsOf(sq2, k) = PartsOf(sq, k)
      BY LongerSame
    <2>3. \A j \in PartsOf(sq, k) : TakenPart(sq, seen, k, j) => TakenPart(sq2, new, k, j)
      <3>1. \A j \in PartsOf(sq, k) : sq[k].id + j \in Ids /\ sq[k].channel \in Channels
        BY CallFacts
      <3> QED
        BY <2>2, <3>1 DEF TakenPart, Forward
    <2> QED
      BY <2>1, <2>2, <2>3 DEF FragStatus
  <1> QED
    BY <1>1 DEF FragsKnown

\* A call with several parts begins with all of them awaited.
LEMMA FragsInsert ==
  ASSUME NEW sq, CallList(sq), NEW seen, NEW map, FragsKnown(sq, seen, map),
         NEW k \in 1 .. Len(sq), NEW ids \in SUBSET Ids,
         \A j \in PartsOf(sq, k) : sq[k].id + j \in ids,
         NEW new, new = Frags!insert(map, sq[k].id, [status |-> "Partial", remaining |-> ids])
  PROVE  FragsKnown(sq, seen, new)
  <1>1. PICK s, x : s = sq[k].id /\ x = [status |-> "Partial", remaining |-> ids]
    OBVIOUS
  <1>2. /\ x \in FragStatuses /\ x.remaining = ids
        /\ [status |-> "Unknown", remaining |-> {}] \in FragStatuses
    BY <1>1 DEF FragStatuses
  <1>3. new = FragRing!insert(map, s, x) /\ map \in FragBuffers
    BY <1>1, FragRingIs DEF FragsKnown
  <1>4. s \in Ids
    BY <1>1, CallFacts
  <1>5. /\ new \in FragBuffers
        /\ new.tag[FragRing!index(s)] = s /\ new.entry[FragRing!index(s)] = x
        /\ \A i \in FragRing!Slots \ {FragRing!index(s)} :
             /\ i \in FragRing!swept(map, s) =>
                  /\ new.tag[i] = FragRing!NoSeq
                  /\ new.entry[i] = [status |-> "Unknown", remaining |-> {}]
             /\ i \notin FragRing!swept(map, s) =>
                  new.tag[i] = map.tag[i] /\ new.entry[i] = map.entry[i]
    BY <1>2, <1>3, <1>4, IdFacts, RingFacts, FragRing!InsertSlots DEF FragBuffers
  <1>6. ASSUME NEW i \in 0 .. FragSize - 1, new.tag[i] # SeqMod
        PROVE  FragStatus(sq, seen, new.tag[i], new.entry[i])
    <2>1. CASE i = FragRing!index(s)
      BY <1>1, <1>2, <1>5, <2>1 DEF FragStatus
    <2>2. CASE i # FragRing!index(s)
      <3>1. new.tag[i] = map.tag[i] /\ new.entry[i] = map.entry[i]
        BY <1>5, <1>6, <2>2, FragRingIs
      <3> QED
        BY <1>6, <3>1 DEF FragsKnown
    <2> QED
      BY <2>1, <2>2
  <1> QED
    BY <1>5, <1>6 DEF FragsKnown

\* h is the handle of a part that is with the peer.
TakenHandle(sq, seen, h) ==
  \E k \in 1 .. Len(sq) : \E i \in PartsOf(sq, k) :
    h = handle(part_of(sq, k, i)) /\ TakenPart(sq, seen, k, i)

LEMMA HandleFields ==
  ASSUME NEW sq, CallList(sq), NEW k \in 1 .. Len(sq), NEW i \in PartsOf(sq, k),
         NEW h, h = handle(part_of(sq, k, i))
  PROVE  /\ h.id = sq[k].id + i /\ h.msg = k /\ h.channel = sq[k].channel
         /\ h.fragment = NoFrag <=> sq[k].parts = 1
         /\ h.fragment # NoFrag => h.fragment.parent_id = sq[k].id
  <1>1. PICK m : m = part_of(sq, k, i)
    OBVIOUS
  <1>2. /\ m.id = sq[k].id + i /\ m.channel = sq[k].channel
        /\ m.body = [msg |-> k, part |-> i]
        /\ m.fragment = NoFrag <=> sq[k].parts = 1
        /\ m.fragment # NoFrag => m.fragment.parent_id = sq[k].id
    BY <1>1, PartFields
  <1>3. /\ h.id = m.id /\ h.fragment = m.fragment /\ h.channel = m.channel
        /\ h.msg = m.body.msg
    BY <1>1 DEF handle
  <1> QED
    BY <1>2, <1>3

\* A part with the id of such a handle is with the peer.
LEMMA TakenById ==
  ASSUME NEW sq, CallList(sq), NEW seen, NEW h, TakenHandle(sq, seen, h),
         NEW k \in 1 .. Len(sq), NEW i \in PartsOf(sq, k), h.id = sq[k].id + i
  PROVE  TakenPart(sq, seen, k, i)
  <1>1. PICK l \in 1 .. Len(sq) : \E j \in PartsOf(sq, l) :
          h = handle(part_of(sq, l, j)) /\ TakenPart(sq, seen, l, j)
    BY DEF TakenHandle
  <1>2. PICK j \in PartsOf(sq, l) :
          h = handle(part_of(sq, l, j)) /\ TakenPart(sq, seen, l, j)
    BY <1>1
  <1>3. h.id = sq[l].id + j
    BY <1>2, HandleFields
  <1>4. l = k /\ j = i
    BY <1>3, UniqueId
  <1> QED
    BY <1>2, <1>4

\* Parent t is awaited, of call k.
LEMMA AwaitedCall ==
  ASSUME Epoch, NEW sq, CallList(sq), NEW seen, NEW map, FragsKnown(sq, seen, map),
         NEW handles, \A h \in handles : TakenHandle(sq, seen, h),
         NEW t \in awaited(map, handles)
  PROVE  /\ frag_status(map, t).remaining \in SUBSET Ids
         /\ \E k \in 1 .. Len(sq) :
              /\ sq[k].id = t
              /\ \A j \in PartsOf(sq, k) : \/ sq[k].id + j \in still_remaining(map, t, handles)
                                           \/ TakenPart(sq, seen, k, j)
  <1>1. PICK h \in handles : /\ h.fragment # NoFrag /\ t = h.fragment.parent_id
                             /\ Frags!exists(map, t) /\ frag_status(map, t).status = "Partial"
    BY DEF awaited
  <1>2. t \in Ids
    <2>1. PICK k \in 1 .. Len(sq) : \E i \in PartsOf(sq, k) : h = handle(part_of(sq, k, i))
      BY <1>1 DEF TakenHandle
    <2>2. PICK i \in PartsOf(sq, k) : h = handle(part_of(sq, k, i))
      BY <2>1
    <2>3. t = sq[k].id
      BY <1>1, <2>2, HandleFields
    <2> QED
      BY <2>3, CallFacts
  <1>3. PICK i : i = t % FragSize
    OBVIOUS
  <1>4. i \in 0 .. FragSize - 1 /\ t # SeqMod
    BY <1>2, <1>3, RingFacts, IdFacts DEF Ids, Epoch
  <1>5. map.tag[i] = t /\ frag_status(map, t) = map.entry[i]
    BY <1>1, <1>3, FragRingIs DEF Frags!exists, Frags!get, frag_status
  <1>6. map.entry[i].remaining \in SUBSET Ids
    BY <1>4, FragRingIs DEF FragsKnown, FragBuffers, FragRing!BuffersOver, FragStatuses
  <1>7. FragStatus(sq, seen, t, map.entry[i])
    BY <1>4, <1>5 DEF FragsKnown
  <1>8. PICK k \in 1 .. Len(sq) :
          /\ sq[k].id = t
          /\ \A j \in PartsOf(sq, k) :
               sq[k].id + j \in map.entry[i].remaining \/ TakenPart(sq, seen, k, j)
    BY <1>1, <1>5, <1>7 DEF FragStatus
  <1>9. ASSUME NEW j \in PartsOf(sq, k), sq[k].id + j \notin still_remaining(map, t, handles)
        PROVE  TakenPart(sq, seen, k, j)
    <2>1. CASE sq[k].id + j \notin map.entry[i].remaining
      BY <1>8, <2>1
    <2>2. CASE \E g \in handles : sq[k].id + j = g.id
      BY <2>2, TakenById
    <2> QED
      BY <1>5, <1>9, <2>1, <2>2 DEF still_remaining
  <1> QED
    BY <1>5, <1>6, <1>8, <1>9

LEMMA FragsAcked ==
  ASSUME Epoch, NEW sq, CallList(sq), NEW seen, NEW map, FragsKnown(sq, seen, map),
         NEW handles, \A h \in handles : TakenHandle(sq, seen, h)
  PROVE  FragsKnown(sq, seen, ack_fragments(map, handles))
  <1> DEFINE done(i) == map.tag[i] \in completed(map, handles)
             waits(i) == map.tag[i] \in awaited(map, handles)
             less(i) == [status |-> "Partial",
                         remaining |-> still_remaining(map, map.tag[i], handles)]
  <1>1. PICK entry : entry = [i \in 0 .. FragSize - 1 |->
          IF done(i) THEN [status |-> "Complete", remaining |-> {}]
          ELSE IF waits(i) THEN less(i) ELSE map.entry[i]]
    OBVIOUS
  <1>2. map \in FragBuffers /\ DOMAIN map.entry = 0 .. FragSize - 1
    BY FragRingIs DEF FragsKnown, FragBuffers, FragRing!BuffersOver
  <1>3. ack_fragments(map, handles) = [map EXCEPT !.entry = entry]
    BY <1>1, <1>2 DEF ack_fragments
  <1> HIDE DEF done, waits, less
  <1>4. ASSUME NEW i \in 0 .. FragSize - 1
        PROVE  /\ entry[i] \in FragStatuses
               /\ map.tag[i] # SeqMod => FragStatus(sq, seen, map.tag[i], entry[i])
    <2>1. CASE done(i)
      <3>1. entry[i] = [status |-> "Complete", remaining |-> {}]
        BY <1>1, <2>1
      <3>2. map.tag[i] # SeqMod => \E k \in 1 .. Len(sq) : sq[k].id = map.tag[i]
        BY DEF FragsKnown, FragStatus
      <3> QED
        BY <3>1, <3>2 DEF FragStatus, FragStatuses
    <2>2. CASE ~ done(i) /\ waits(i)
      <3>1. entry[i] = less(i)
        BY <1>1, <2>2
      <3>2. less(i).status = "Partial" /\ less(i).remaining = still_remaining(map, map.tag[i], handles)
            /\ less(i) = [status |-> "Partial", remaining |-> less(i).remaining]
        BY DEF less
      <3>3. /\ frag_status(map, map.tag[i]).remaining \in SUBSET Ids
            /\ \E k \in 1 .. Len(sq) :
                 /\ sq[k].id = map.tag[i]
                 /\ \A j \in PartsOf(sq, k) :
                      \/ sq[k].id + j \in still_remaining(map, map.tag[i], handles)
                      \/ TakenPart(sq, seen, k, j)
        BY <2>2, AwaitedCall DEF waits
      <3>4. less(i).remaining \in SUBSET Ids
        BY <3>2, <3>3 DEF still_remaining
      <3>5. less(i) \in FragStatuses
        BY <3>2, <3>4 DEF FragStatuses
      <3> QED
        BY <3>1, <3>2, <3>3, <3>5 DEF FragStatus
    <2>3. CASE ~ done(i) /\ ~ waits(i)
      <3>1. entry[i] = map.entry[i]
        BY <1>1, <2>3
      <3> QED
        BY <1>2, <3>1, FragRingIs DEF FragsKnown, FragBuffers, FragRing!BuffersOver
    <2> QED
      BY <2>1, <2>2, <2>3
  <1>5. PICK new : new = [map EXCEPT !.entry = entry]
    OBVIOUS
  <1>6. new.tag = map.tag /\ new.entry = entry /\ new.sequence = map.sequence
        /\ new = [sequence |-> map.sequence, tag |-> map.tag, entry |-> entry]
    BY <1>2, <1>5 DEF FragBuffers, FragRing!BuffersOver
  <1>7. entry \in [0 .. FragSize - 1 -> FragStatuses]
    BY <1>1, <1>4
  <1>8. new \in FragBuffers
    BY <1>2, <1>6, <1>7, FragRingIs DEF FragBuffers, FragRing!BuffersOver
  <1>9. FragsKnown(sq, seen, new)
    BY <1>4, <1>6, <1>8 DEF FragsKnown
  <1> QED
    BY <1>3, <1>5, <1>9

\* All parts of call k are with the peer.
AllTaken(sq, seen, k) ==
  k \in 1 .. Len(sq) /\ \A i \in PartsOf(sq, k) : TakenPart(sq, seen, k, i)

\* A message is reported as acked when all its parts are with the peer.
LEMMA WholeAcked ==
  ASSUME Epoch, NEW sq, CallList(sq), NEW seen, NEW map, FragsKnown(sq, seen, map),
         NEW handles, \A h \in handles : TakenHandle(sq, seen, h),
         NEW h \in handles,
         h.fragment = NoFrag \/ h.fragment.parent_id \in completed(map, handles)
  PROVE  AllTaken(sq, seen, h.msg)
  <1>1. PICK k \in 1 .. Len(sq) : \E i \in PartsOf(sq, k) :
          h = handle(part_of(sq, k, i)) /\ TakenPart(sq, seen, k, i)
    BY DEF TakenHandle
  <1>2. PICK i \in PartsOf(sq, k) : h = handle(part_of(sq, k, i)) /\ TakenPart(sq, seen, k, i)
    BY <1>1
  <1>3. /\ h.msg = k
        /\ h.fragment = NoFrag => sq[k].parts = 1
        /\ h.fragment # NoFrag => h.fragment.parent_id = sq[k].id
    BY <1>2, HandleFields
  <1>4. CASE h.fragment = NoFrag
    <2>1. sq[k].parts = 1
      BY <1>3, <1>4
    <2>2. \A j \in PartsOf(sq, k) : j = i
      BY <2>1 DEF PartsOf
    <2> QED
      BY <1>2, <1>3, <2>2 DEF AllTaken
  <1>5. CASE h.fragment # NoFrag
    <2>1. PICK t : t = sq[k].id
      OBVIOUS
    <2>2. t \in awaited(map, handles) /\ still_remaining(map, t, handles) = {}
      BY <1>3, <1>5, <2>1 DEF completed
    <2>3. PICK l \in 1 .. Len(sq) :
            /\ sq[l].id = t
            /\ \A j \in PartsOf(sq, l) : \/ sq[l].id + j \in still_remaining(map, t, handles)
                                         \/ TakenPart(sq, seen, l, j)
      BY <2>2, AwaitedCall
    <2>4. l = k
      BY <2>1, <2>3, UniqueParent
    <2> QED
      BY <1>3, <2>2, <2>3, <2>4 DEF AllTaken
  <1> QED
    BY <1>4, <1>5

-----------------------------------------------------------------------------
(* What acks mean *)

\* The calls reported as acked are with the peer.
Reported(sq, seen, done) == \A k \in done : AllTaken(sq, seen, k)

InQueue(queue, k, i) == \E m \in queue : m.body = [msg |-> k, part |-> i]

\* A part of a reliable message that left the queue is with the peer.
Kept(sq, seen, queue) ==
  \A k \in 1 .. Len(sq) : sq[k].channel \in Reliable =>
    \A i \in PartsOf(sq, k) : TakenPart(sq, seen, k, i) \/ InQueue(queue, k, i)

LEMMA TakenStays ==
  ASSUME NEW sq, NEW sq2, CallList(sq), CallList(sq2), Longer(sq, sq2),
         NEW seen, NEW new, Forward(seen, new),
         NEW k \in 1 .. Len(sq), NEW i \in PartsOf(sq, k), TakenPart(sq, seen, k, i)
  PROVE  TakenPart(sq2, new, k, i)
  <1>1. sq2[k] = sq[k]
    BY LongerSame
  <1>2. sq[k].id + i \in Ids /\ sq[k].channel \in Channels
    BY CallFacts
  <1> QED
    BY <1>1, <1>2 DEF TakenPart, Forward

LEMMA ReportedStays ==
  ASSUME NEW sq, NEW sq2, CallList(sq), CallList(sq2), Longer(sq, sq2),
         NEW seen, NEW new, Forward(seen, new), NEW done, Reported(sq, seen, done)
  PROVE  Reported(sq2, new, done)
  <1> SUFFICES ASSUME NEW k \in done PROVE AllTaken(sq2, new, k)
    BY DEF Reported
  <1>1. k \in 1 .. Len(sq) /\ \A i \in PartsOf(sq, k) : TakenPart(sq, seen, k, i)
    BY DEF Reported, AllTaken
  <1>2. k \in 1 .. Len(sq2) /\ PartsOf(sq2, k) = PartsOf(sq, k)
    BY <1>1, LongerSame
  <1>3. \A i \in PartsOf(sq, k) : TakenPart(sq2, new, k, i)
    BY <1>1, TakenStays
  <1> QED
    BY <1>2, <1>3 DEF AllTaken

\* A queue that loses only parts that are with the peer, and gets those of new
\* calls.
Covers(sq, seen, queue, queue2) ==
  \A k \in 1 .. Len(sq) : sq[k].channel \in Reliable =>
    \A i \in PartsOf(sq, k) :
      InQueue(queue, k, i) => TakenPart(sq, seen, k, i) \/ InQueue(queue2, k, i)

LEMMA KeptStays ==
  ASSUME NEW sq, NEW sq2, CallList(sq), CallList(sq2), Longer(sq, sq2),
         NEW seen, NEW new, Forward(seen, new), NEW queue, Kept(sq, seen, queue),
         NEW queue2, Covers(sq2, new, queue, queue2),
         \A k \in 1 .. Len(sq2) : k \notin 1 .. Len(sq) =>
           \A i \in PartsOf(sq2, k) : InQueue(queue2, k, i)
  PROVE  Kept(sq2, new, queue2)
  <1> SUFFICES ASSUME NEW k \in 1 .. Len(sq2), sq2[k].channel \in Reliable,
                      NEW i \in PartsOf(sq2, k)
               PROVE  TakenPart(sq2, new, k, i) \/ InQueue(queue2, k, i)
    BY DEF Kept
  <1>1. CASE k \in 1 .. Len(sq)
    <2>1. sq2[k] = sq[k] /\ PartsOf(sq2, k) = PartsOf(sq, k)
      BY <1>1, LongerSame
    <2>2. TakenPart(sq, seen, k, i) \/ InQueue(queue, k, i)
      BY <1>1, <2>1 DEF Kept
    <2>3. TakenPart(sq, seen, k, i) => TakenPart(sq2, new, k, i)
      BY <1>1, <2>1, TakenStays
    <2> QED
      BY <2>2, <2>3 DEF Covers
  <1>2. CASE k \notin 1 .. Len(sq)
    BY <1>2
  <1> QED
    BY <1>1, <1>2

\* A queue that loses no part of a reliable message.
Keeps(sq, queue, queue2) ==
  \A k \in 1 .. Len(sq) : sq[k].channel \in Reliable =>
    \A i \in PartsOf(sq, k) : InQueue(queue, k, i) => InQueue(queue2, k, i)

LEMMA KeepsCovers ==
  ASSUME NEW sq, NEW seen, NEW queue, NEW queue2, Keeps(sq, queue, queue2)
  PROVE  Covers(sq, seen, queue, queue2)
  BY DEF Keeps, Covers

\* update.
LEMMA KeepsOlder ==
  ASSUME NEW sq, NEW queue, Queue(sq, queue)
  PROVE  Keeps(sq, queue, {older(m) : m \in queue})
  <1>1. ASSUME NEW m \in queue PROVE older(m).body = m.body
    <2>1. PICK x : x = IF m.age < ResendTicks THEN m.age + 1 ELSE m.age
      OBVIOUS
    <2>2. PICK aged : aged = [m EXCEPT !.age = x]
      OBVIOUS
    <2>3. older(m) = aged
      BY <2>1, <2>2, Zenon DEF older
    <2>4. aged.body = m.body
      BY <2>2
    <2> QED
      BY <2>3, <2>4
  <1> QED
    BY <1>1 DEF Keeps, InQueue

LEMMA QueuedBody ==
  ASSUME NEW sq, NEW m, IsQueued(sq, m), NEW k, NEW i, m.body = [msg |-> k, part |-> i]
  PROVE  /\ k \in 1 .. Len(sq) /\ i \in PartsOf(sq, k)
         /\ m.id = sq[k].id + i /\ m.channel = sq[k].channel
  <1>1. PICK l \in 1 .. Len(sq) : \E j \in PartsOf(sq, l) : \E age \in 0 .. ResendTicks :
          m = queued(sq, l, j, age)
    BY DEF IsQueued
  <1>2. PICK j \in PartsOf(sq, l) : \E age \in 0 .. ResendTicks : m = queued(sq, l, j, age)
    BY <1>1
  <1>3. PICK age \in 0 .. ResendTicks : m = queued(sq, l, j, age)
    BY <1>2
  <1>4. m.body = [msg |-> l, part |-> j] /\ m.id = sq[l].id + j /\ m.channel = sq[l].channel
    BY <1>3 DEF queued
  <1>5. l = k /\ j = i
    BY <1>4
  <1> QED
    BY <1>4, <1>5

\* compose_packets: a reliable message stays queued.
LEMMA KeepsWritten ==
  ASSUME NEW sq, NEW queue, Queue(sq, queue), NEW batch \in SUBSET queue
  PROVE  Keeps(sq, queue, after_writing(queue, batch))
  <1> SUFFICES ASSUME NEW k \in 1 .. Len(sq), sq[k].channel \in Reliable,
                      NEW i \in PartsOf(sq, k), InQueue(queue, k, i)
               PROVE  InQueue(after_writing(queue, batch), k, i)
    BY DEF Keeps
  <1>1. PICK m \in queue : m.body = [msg |-> k, part |-> i]
    BY DEF InQueue
  <1>2. m.channel \in Reliable
    BY <1>1, QueuedBody DEF Queue
  <1>3. CASE m \in batch
    <2>1. PICK new : new = [m EXCEPT !.age = 0]
      OBVIOUS
    <2>2. new \in after_writing(queue, batch)
      BY <1>2, <1>3, <2>1 DEF after_writing
    <2>3. new.body = m.body
      BY <2>1
    <2> QED
      BY <1>1, <2>2, <2>3 DEF InQueue
  <1>4. CASE m \notin batch
    BY <1>1, <1>4 DEF InQueue, after_writing
  <1> QED
    BY <1>3, <1>4

\* acked_packet: what leaves the queue is with the peer.
LEMMA CoversDismissed ==
  ASSUME NEW sq, CallList(sq), NEW seen, NEW queue, Queue(sq, queue),
         NEW handles, \A h \in handles : TakenHandle(sq, seen, h)
  PROVE  Covers(sq, seen, queue, {m \in queue : \A h \in handles : ~ dismissed_by_ack(m, h)})
  <1> SUFFICES ASSUME NEW k \in 1 .. Len(sq), NEW i \in PartsOf(sq, k), InQueue(queue, k, i),
                      ~ TakenPart(sq, seen, k, i)
               PROVE  InQueue({m \in queue : \A h \in handles : ~ dismissed_by_ack(m, h)}, k, i)
    BY DEF Covers
  <1>1. PICK m \in queue : m.body = [msg |-> k, part |-> i]
    BY DEF InQueue
  <1>2. m.id = sq[k].id + i
    BY <1>1, QueuedBody DEF Queue
  <1>3. \A h \in handles : ~ dismissed_by_ack(m, h)
    BY <1>2, TakenById DEF dismissed_by_ack
  <1> QED
    BY <1>1, <1>3 DEF InQueue

\* send_message: the new parts are queued.
LEMMA CoversMore ==
  ASSUME NEW sq, NEW seen, NEW queue, NEW more
  PROVE  Covers(sq, seen, queue, queue \cup more)
  BY DEF Covers, InQueue

LEMMA EnqueuedIn ==
  ASSUME NEW sq, NEW k, NEW queue, NEW i \in PartsOf(sq, k)
  PROVE  InQueue(queue \cup enqueued_parts(sq, k, sq[k].parts), k, i)
  <1>1. PICK m : m = queued(sq, k, i, ResendTicks)
    OBVIOUS
  <1>2. m \in enqueued_parts(sq, k, sq[k].parts)
    BY <1>1 DEF enqueued_parts, PartsOf
  <1>3. m.body = [msg |-> k, part |-> i]
    BY <1>1 DEF queued
  <1> QED
    BY <1>2, <1>3 DEF InQueue

LEMMA EnqueuedIds ==
  ASSUME NEW sq, CallList(sq), NEW k \in 1 .. Len(sq), NEW S,
         S = enqueued_parts(sq, k, sq[k].parts)
  PROVE  /\ {m.id : m \in S} \in SUBSET Ids
         /\ \A j \in PartsOf(sq, k) : sq[k].id + j \in {m.id : m \in S}
  <1>1. \A i, age : queued(sq, k, i, age).id = sq[k].id + i
    BY DEF queued
  <1>2. S = {queued(sq, k, i, ResendTicks) : i \in PartsOf(sq, k)}
    BY DEF enqueued_parts, PartsOf
  <1>3. ASSUME NEW m \in S PROVE m.id \in Ids
    <2>1. PICK i \in PartsOf(sq, k) : m = queued(sq, k, i, ResendTicks)
      BY <1>2
    <2> QED
      BY <1>1, <2>1, CallFacts
  <1>4. ASSUME NEW j \in PartsOf(sq, k) PROVE \E m \in S : m.id = sq[k].id + j
    BY <1>1, <1>2
  <1> QED
    BY <1>3, <1>4

-----------------------------------------------------------------------------
(* The invariant about acks *)

\* The number names the packet.
UniquePackets == \A p, r \in net : p.src = r.src /\ p.id = r.id => p = r

\* The messages of a packet that was processed are with the receiver.
Read(p, numbers, seen) == p.id \in numbers => \A m \in p.payload : TakenMessage(seen, m)

AckTables ==
  /\ DOMAIN messages_in_packets = Peers /\ DOMAIN sent_frag_map = Peers
  /\ DOMAIN acked_messages = Peers

\* A packet's handles are those of its messages, and whatever the sender
\* believes to be with the peer, because of them, is.
AcksInv ==
  /\ MessageInv /\ Service!ServiceInv /\ UniquePackets /\ AckTables
  /\ \A p \in net : Read(p, received[other(p.src)], seen_buf[other(p.src)])
  /\ \A e \in Peers : HandlesKnown(net, e, messages_in_packets[e])
  /\ \A e \in Peers : FragsKnown(sends[e], seen_buf[other(e)], sent_frag_map[e])
  /\ \A e \in Peers : Reported(sends[e], seen_buf[other(e)], acked_messages[e])
  /\ \A e \in Peers : Kept(sends[e], seen_buf[other(e)], q[e])

LEMMA PacketView ==
  ASSUME PacketEpoch, Service!ServiceInv
  PROVE  /\ sequence_id \in [Peers -> PacketIds]
         /\ received \in [Peers -> SUBSET PacketIds]
         /\ \A p \in net : /\ p.src \in Peers /\ p.id \in PacketIds
                           /\ p.id <= sequence_id[p.src] /\ p.acks \subseteq received[p.src]
         /\ \A e \in Peers : \A s \in received[e] :
              \E p \in net : p.src = other(e) /\ p.id = s
  <1>1. Service!EpochOK /\ Service!NetNumbered /\ Service!ReceivedSent /\ Service!AcksReceived
    BY DEF Service!ServiceInv, Service!AckInv
  <1>2. Service!Ids = PacketIds
    BY DEF Service!Ids, PacketIds
  <1>3. sequence_id \in [Peers -> PacketIds] /\ received \in [Peers -> SUBSET PacketIds]
    BY <1>1, <1>2 DEF Service!EpochOK
  <1>4. ASSUME NEW p \in net
        PROVE  /\ p.src \in Peers /\ p.id \in PacketIds
               /\ p.id <= sequence_id[p.src] /\ p.acks \subseteq received[p.src]
    <2>1. p \in Service!EpochPackets
      BY <1>1 DEF Service!EpochOK
    <2>2. p.src \in Peers /\ p.id \in PacketIds
      BY <1>2, <2>1 DEF Service!EpochPackets
    <2> QED
      BY <1>1, <2>2 DEF Service!NetNumbered, Service!AcksReceived
  <1>5. \A e \in Peers : \A s \in received[e] : \E p \in net : p.src = other(e) /\ p.id = s
    BY <1>1 DEF Service!ReceivedSent, Service!other, other, P!other
  <1> QED
    BY <1>3, <1>4, <1>5

LEMMA SentPacket ==
  ASSUME PacketEpoch, Service!ServiceInv, UniquePackets, NEW e \in Peers, NEW type, NEW payload,
         P!SendPacket(e, type, payload)
  PROVE  /\ UniquePackets' /\ received' = received
         /\ \E p : /\ net' = net \cup {p}
                   /\ p.src = e /\ p.id = packet_id(e) /\ p.payload = payload
                   /\ p.id \in PacketIds /\ p.id \notin received[other(e)]
  <1>1. PICK p : p = P!next_packet_header(e, type, payload)
    OBVIOUS
  <1>2. net' = net \cup {p} /\ received' = received /\ sequence_id[e] < MaxSeq
    BY <1>1, Zenon DEF P!SendPacket, P!may_send
  <1>3. p.src = e /\ p.id = packet_id(e) /\ p.payload = payload
    BY <1>1 DEF P!next_packet_header, packet_id
  <1>4. sequence_id[e] \in 0 .. MaxSeq
    BY PacketView DEF PacketIds
  <1>5. packet_id(e) = sequence_id[e] + 1 /\ packet_id(e) \in 0 .. MaxSeq
    BY <1>2, <1>4, RingFacts DEF packet_id, P!wrapping_add, PacketEpoch
  <1>6. ASSUME NEW r \in net, r.src = e PROVE r.id # p.id
    BY <1>3, <1>4, <1>5, <1>6, PacketView DEF PacketIds
  <1>7. p.id \notin received[other(e)]
    <2>1. other(e) \in Peers /\ other(other(e)) = e
      BY OtherPeer
    <2> QED
      BY <1>6, <2>1, PacketView
  <1>8. UniquePackets'
    BY <1>2, <1>3, <1>6 DEF UniquePackets
  <1> QED
    BY <1>2, <1>3, <1>5, <1>7, <1>8 DEF PacketIds

LEMMA InitAcks ==
  ASSUME Epoch, PacketEpoch, Init
  PROVE  AcksInv
  <1> USE DEF Init
  <1>1. MessageInv
    BY InitInv
  <1>2. Service!ServiceInv
    BY ServiceStart
  <1>3. net = {}
    BY DEF P!Init
  <1>4. AckTables /\ UniquePackets
    BY <1>3 DEF AckTables, UniquePackets
  <1>5. ASSUME NEW e \in Peers
        PROVE  /\ messages_in_packets[e] = Handles!with_capacity
               /\ sent_frag_map[e] = Frags!with_capacity
               /\ sends[e] = << >> /\ acked_messages[e] = {}
    BY Zenon
  <1>6. \A e \in Peers : HandlesKnown(net, e, messages_in_packets[e])
    BY <1>3, <1>5, HandlesStart
  <1>7. \A e \in Peers : FragsKnown(sends[e], seen_buf[other(e)], sent_frag_map[e])
    BY <1>5, FragsStart
  <1>8. \A e \in Peers : Reported(sends[e], seen_buf[other(e)], acked_messages[e])
    BY <1>5 DEF Reported
  <1>9. \A e \in Peers : Kept(sends[e], seen_buf[other(e)], q[e])
    <2>1. \A k : k \notin 1 .. Len(<< >>)
      OBVIOUS
    <2> QED
      BY <1>5, <2>1 DEF Kept
  <1> QED
    BY <1>1, <1>2, <1>3, <1>4, <1>6, <1>7, <1>8, <1>9 DEF AcksInv

LEMMA ServiceIdle ==
  ASSUME PacketEpoch, Service!ServiceInv, UNCHANGED packet_vars
  PROVE  Service!ServiceInv'
  <1>1. [Service!Next]_Service!vars
    BY DEF packet_vars, Service!vars
  <1> QED
    BY <1>1, PacketFacts, Service!NextService, Zenon

LEMMA SameForward ==
  ASSUME MessageInv, NEW e \in Peers
  PROVE  /\ CallList(sends[e]) /\ Longer(sends[e], sends[e])
         /\ Forward(seen_buf[other(e)], seen_buf[other(e)])
  <1>1. CallList(sends[e])
    BY DEF MessageInv, Sender
  <1>2. Longer(sends[e], sends[e])
    BY <1>1 DEF Longer, CallList
  <1>3. seen_buf[other(e)] \in [Channels -> SeenBuffers]
    BY OtherPeer DEF MessageInv, Receiver
  <1> QED
    BY <1>1, <1>2, <1>3 DEF Forward

LEMMA SendMessageAcks ==
  ASSUME Epoch, PacketEpoch, AcksInv, NEW e \in Peers, NEW c \in Channels,
         NEW n \in 1 .. MaxParts, Len(sends[e]) < Len(Workload), send_message(e, c, n)
  PROVE  AcksInv'
  <1>1. MessageInv /\ MessageInv'
    BY SendMessageInv DEF AcksInv
  <1>2. UNCHANGED <<packet_vars, receiver_vars, messages_in_packets, acked_messages>>
    BY Zenon DEF send_message
  <1>3. UNCHANGED <<net, received, seen_buf>>
    BY <1>2 DEF packet_vars, receiver_vars
  <1>4. Service!ServiceInv'
    BY <1>2, ServiceIdle DEF AcksInv
  <1>5. PICK sq2 :
          /\ MakesCall(sends[e], next_message_id[e], q[e], c, n, sq2)
          /\ sends' = [sends EXCEPT ![e] = sq2]
          /\ enqueued(e, c, n) = enqueued_parts(sq2, Len(sq2), n)
    BY <1>1, SendMessageIs
  <1>6. /\ CallList(sq2) /\ Len(sq2) = Len(sends[e]) + 1
        /\ sq2[Len(sq2)].id = next_message_id[e] /\ sq2[Len(sq2)].parts = n
    BY <1>5, CallMade
  <1>7. PICK k : k = Len(sq2)
    OBVIOUS
  <1>8. k \in 1 .. Len(sq2) /\ \A l \in 1 .. Len(sq2) : l \notin 1 .. Len(sends[e]) => l = k
    <2>1. Len(sends[e]) \in Nat
      BY <1>1 DEF MessageInv, Sender, CallList
    <2> QED
      BY <1>6, <1>7, <2>1
  <1>9. \A f \in Peers : /\ f # e => sends'[f] = sends[f]
                         /\ f = e => sends'[f] = sq2
                         /\ CallList(sends[f]) /\ CallList(sends'[f])
                         /\ Longer(sends[f], sends'[f])
    BY <1>1, <1>5, CallsGrow
  <1>10. ASSUME NEW f \in Peers
         PROVE  FragsKnown(sends'[f], seen_buf[other(f)], sent_frag_map[f])
    BY <1>1, <1>9, SameForward, FragsKept DEF AcksInv
  <1>11. PICK S, ids, new :
           /\ S = enqueued(e, c, n) /\ ids = {m.id : m \in S}
           /\ new = Frags!insert(sent_frag_map[e], next_message_id[e],
                                 [status |-> "Partial", remaining |-> ids])
    OBVIOUS
  <1>12. sent_frag_map' = sent_frag_map \/ sent_frag_map' = [sent_frag_map EXCEPT ![e] = new]
    BY <1>11, Zenon DEF send_message
  <1>13. FragsKnown(sq2, seen_buf[other(e)], new)
    <2>1. S = enqueued_parts(sq2, k, sq2[k].parts)
      BY <1>5, <1>6, <1>7, <1>11
    <2>3. ids \in SUBSET Ids /\ \A j \in PartsOf(sq2, k) : sq2[k].id + j \in ids
      BY <1>6, <1>8, <1>11, <2>1, EnqueuedIds
    <2>2. FragsKnown(sq2, seen_buf[other(e)], sent_frag_map[e])
      BY <1>9, <1>10
    <2> QED
      BY <1>6, <1>7, <1>8, <1>11, <2>2, <2>3, FragsInsert
  <1>14. DOMAIN sent_frag_map = Peers /\ DOMAIN q = Peers
    BY DEF AcksInv, AckTables, MessageInv, Tables
  <1>15. \A f \in Peers : FragsKnown(sends'[f], seen_buf'[other(f)], sent_frag_map'[f])
    <2> TAKE f \in Peers
    <2>1. CASE sent_frag_map'[f] = sent_frag_map[f]
      BY <1>3, <1>10, <2>1
    <2>2. CASE f = e /\ sent_frag_map'[f] = new
      BY <1>3, <1>9, <1>13, <2>2
    <2> QED
      BY <1>12, <1>14, <2>1, <2>2
  <1>16. AckTables' /\ UniquePackets'
    BY <1>2, <1>3, <1>12 DEF AcksInv, AckTables, UniquePackets
  <1>17. \A f \in Peers : Reported(sends'[f], seen_buf'[other(f)], acked_messages'[f])
    BY <1>1, <1>2, <1>3, <1>9, SameForward, ReportedStays DEF AcksInv
  <1>18. q' = [q EXCEPT ![e] = q[e] \cup enqueued_parts(sq2, k, sq2[k].parts)]
    BY <1>5, <1>6, <1>7, Zenon DEF send_message
  <1>19. \A f \in Peers : Kept(sends'[f], seen_buf'[other(f)], q'[f])
    <2> TAKE f \in Peers
    <2>1. CASE f # e
      BY <1>3, <1>9, <1>14, <1>18, <2>1 DEF AcksInv
    <2>2. CASE f = e
      <3>1. PICK queue2 : queue2 = q[e] \cup enqueued_parts(sq2, k, sq2[k].parts)
        OBVIOUS
      <3>2. Covers(sq2, seen_buf[other(e)], q[e], queue2)
        BY <3>1, CoversMore
      <3>3. \A i \in PartsOf(sq2, k) : InQueue(queue2, k, i)
        BY <3>1, EnqueuedIn
      <3>4. Kept(sends[e], seen_buf[other(e)], q[e])
        BY DEF AcksInv
      <3>5. /\ CallList(sends[e]) /\ Longer(sends[e], sq2)
            /\ Forward(seen_buf[other(e)], seen_buf[other(e)])
        BY <1>1, <1>9, SameForward
      <3>6. Kept(sq2, seen_buf[other(e)], queue2)
        BY <1>6, <1>8, <3>2, <3>3, <3>4, <3>5, KeptStays
      <3> QED
        BY <1>3, <1>9, <1>14, <1>18, <2>2, <3>1, <3>6
    <2> QED
      BY <2>1, <2>2
  <1> QED
    BY <1>1, <1>2, <1>3, <1>4, <1>15, <1>16, <1>17, <1>19 DEF AcksInv

\* A queue that changes without a call or an arrival.
LEMMA KeptStep ==
  ASSUME AcksInv, NEW e \in Peers, NEW queue2, q' = [q EXCEPT ![e] = queue2],
         Covers(sends[e], seen_buf[other(e)], q[e], queue2), UNCHANGED <<sends, seen_buf>>
  PROVE  \A f \in Peers : Kept(sends'[f], seen_buf'[other(f)], q'[f])
  <1> TAKE f \in Peers
  <1>1. DOMAIN q = Peers /\ Kept(sends[f], seen_buf[other(f)], q[f])
    BY DEF AcksInv, MessageInv, Tables
  <1>2. CASE f # e
    BY <1>1, <1>2
  <1>3. CASE f = e
    <2>1. MessageInv
      BY DEF AcksInv
    <2>2. Kept(sends[e], seen_buf[other(e)], queue2)
      BY <1>1, <1>3, <2>1, SameForward, KeptStays
    <2> QED
      BY <1>1, <1>3, <2>2
  <1> QED
    BY <1>2, <1>3

LEMMA UpdateAcks ==
  ASSUME PacketEpoch, AcksInv, NEW e \in Peers, update(e)
  PROVE  AcksInv'
  <1>1. MessageInv /\ MessageInv'
    BY UpdateInv DEF AcksInv
  <1>2. /\ q' = [q EXCEPT ![e] = {older(m) : m \in q[e]}]
        /\ UNCHANGED <<packet_vars, receiver_vars, messages_in_packets, sent_frag_map, sends,
                       acked_messages>>
    BY DEF update
  <1>3. UNCHANGED <<net, received, seen_buf>>
    BY <1>2 DEF packet_vars, receiver_vars
  <1>4. Service!ServiceInv'
    BY <1>2, ServiceIdle DEF AcksInv
  <1>5. Covers(sends[e], seen_buf[other(e)], q[e], {older(m) : m \in q[e]})
    BY <1>1, KeepsOlder, KeepsCovers DEF MessageInv, Sender
  <1>6. \A f \in Peers : Kept(sends'[f], seen_buf'[other(f)], q'[f])
    BY <1>2, <1>3, <1>5, KeptStep
  <1> QED
    BY <1>1, <1>2, <1>3, <1>4, <1>6 DEF AcksInv, AckTables, UniquePackets

\* One more packet.
LEMMA SendPacketAcks ==
  ASSUME PacketEpoch, AcksInv, NEW e \in Peers, NEW type \in PacketTypes, NEW payload,
         \A m \in payload : IsPart(sends[e], m), P!SendPacket(e, type, payload),
         seen_buf' = seen_buf
  PROVE  /\ Service!ServiceInv' /\ UniquePackets'
         /\ \A p \in net' : Read(p, received'[other(p.src)], seen_buf'[other(p.src)])
         /\ \A f \in Peers : HandlesKnown(net', f, messages_in_packets[f])
         /\ packet_id(e) \in PacketIds
         /\ \A h : (\E m \in payload : h = handle(m)) => Known(net', e, packet_id(e), h)
  <1>1. MessageInv /\ Service!ServiceInv /\ UniquePackets
    BY DEF AcksInv
  <1>2. payload \in SUBSET Parts
    BY <1>1, PartInParts DEF MessageInv, Sender
  <1>3. Service!ServiceInv'
    BY <1>1, <1>2, ServiceSend
  <1>4. UniquePackets' /\ received' = received
    BY <1>1, SentPacket
  <1>5. PICK p : /\ net' = net \cup {p}
                 /\ p.src = e /\ p.id = packet_id(e) /\ p.payload = payload
                 /\ p.id \in PacketIds /\ p.id \notin received[other(e)]
    BY <1>1, SentPacket
  <1>6. \A r \in net' : Read(r, received'[other(r.src)], seen_buf'[other(r.src)])
    BY <1>4, <1>5 DEF AcksInv, Read
  <1>7. \A f \in Peers : HandlesKnown(net', f, messages_in_packets[f])
    BY <1>5, HandlesMore DEF AcksInv
  <1>8. \A h : (\E m \in payload : h = handle(m)) => Known(net', e, packet_id(e), h)
    BY <1>5 DEF Known
  <1> QED
    BY <1>3, <1>4, <1>5, <1>6, <1>7, <1>8

LEMMA KeepaliveAcks ==
  ASSUME PacketEpoch, AcksInv, NEW e \in Peers, "KeepAlive" \in PacketTypes, send_keepalive(e)
  PROVE  AcksInv'
  <1>1. MessageInv /\ MessageInv'
    BY KeepaliveInv DEF AcksInv
  <1>2. UNCHANGED <<seen_buf, q, messages_in_packets, sent_frag_map, sends, acked_messages>>
    BY DEF send_keepalive, sender_vars, receiver_vars
  <1>3. CASE P!SendPacket(e, "KeepAlive", {})
    <2>1. /\ Service!ServiceInv' /\ UniquePackets'
          /\ \A p \in net' : Read(p, received'[other(p.src)], seen_buf'[other(p.src)])
          /\ \A f \in Peers : HandlesKnown(net', f, messages_in_packets[f])
      BY <1>2, <1>3, SendPacketAcks
    <2> QED
      BY <1>1, <1>2, <2>1 DEF AcksInv, AckTables
  <1>4. CASE P!RefusePacket(e, "KeepAlive")
    <2>1. UNCHANGED <<net, received>>
      BY <1>4 DEF P!RefusePacket
    <2>2. Service!ServiceInv'
      BY <1>4, ServiceRefuse DEF AcksInv
    <2> QED
      BY <1>1, <1>2, <2>1, <2>2 DEF AcksInv, AckTables, UniquePackets
  <1> QED
    BY <1>3, <1>4 DEF send_keepalive

LEMMA RefusedAcks ==
  ASSUME PacketEpoch, AcksInv, NEW e \in Peers, compose_refused(e)
  PROVE  AcksInv'
  <1>1. MessageInv /\ MessageInv'
    BY RefusedInv DEF AcksInv
  <1>2. UNCHANGED <<seen_buf, q, messages_in_packets, sent_frag_map, sends, acked_messages>>
    BY DEF compose_refused, sender_vars, receiver_vars
  <1>3. P!RefusePacket(e, "Messages") /\ "Messages" \in PacketTypes
    BY PacketAssumption DEF compose_refused
  <1>4. UNCHANGED <<net, received>>
    BY <1>3 DEF P!RefusePacket
  <1>5. Service!ServiceInv'
    BY <1>3, ServiceRefuse DEF AcksInv
  <1> QED
    BY <1>1, <1>2, <1>4, <1>5 DEF AcksInv, AckTables, UniquePackets

LEMMA HandleOnWire ==
  ASSUME NEW m
  PROVE  handle(on_wire(m)) = handle(m)
  BY DEF handle, on_wire

LEMMA ComposeAcks ==
  ASSUME PacketEpoch, AcksInv, NEW e \in Peers, NEW batch \in SUBSET ready(q[e]),
         compose_packets(e, batch)
  PROVE  AcksInv'
  <1>1. MessageInv /\ MessageInv'
    BY ComposeInv DEF AcksInv
  <1>2. /\ q' = [q EXCEPT ![e] = after_writing(q[e], batch)]
        /\ UNCHANGED <<seen_buf, sent_frag_map, sends, acked_messages>>
        /\ P!SendPacket(e, "Messages", {on_wire(m) : m \in batch})
    BY Zenon DEF compose_packets, receiver_vars
  <1>3. PICK hs, new :
          /\ hs = {handle(m) : m \in batch}
          /\ new = Handles!insert(messages_in_packets[e], packet_id(e), hs)
    OBVIOUS
  <1>4. \/ messages_in_packets' = messages_in_packets
        \/ messages_in_packets' = [messages_in_packets EXCEPT ![e] = new]
    BY <1>3, Zenon DEF compose_packets
  <1>5. PICK payload : payload = {on_wire(m) : m \in batch}
    OBVIOUS
  <1>6. batch \in SUBSET q[e] /\ Queue(sends[e], q[e]) /\ CallList(sends[e])
    BY <1>1 DEF ready, MessageInv, Sender
  <1>7. \A m \in payload : IsPart(sends[e], m)
    BY <1>5, <1>6, BatchParts
  <1>8. /\ Service!ServiceInv' /\ UniquePackets'
        /\ \A p \in net' : Read(p, received'[other(p.src)], seen_buf'[other(p.src)])
        /\ \A f \in Peers : HandlesKnown(net', f, messages_in_packets[f])
        /\ packet_id(e) \in PacketIds
        /\ \A h : (\E m \in payload : h = handle(m)) => Known(net', e, packet_id(e), h)
    BY <1>2, <1>5, <1>7, SendPacketAcks, PacketAssumption
  <1>9. HandlesKnown(net', e, new)
    <2>1. ASSUME NEW h \in hs
          PROVE  h \in {handle(m) : m \in Parts} /\ Known(net', e, packet_id(e), h)
      <3>1. PICK b \in batch : h = handle(b)
        BY <1>3
      <3>2. PICK m : m = on_wire(b)
        OBVIOUS
      <3>3. m \in payload /\ h = handle(m)
        BY <1>5, <3>1, <3>2, HandleOnWire
      <3>4. m \in Parts
        BY <1>6, <1>7, <3>3, PartInParts
      <3> QED
        BY <1>8, <3>3, <3>4
    <2>2. hs \in SUBSET {handle(m) : m \in Parts}
      BY <2>1
    <2> QED
      BY <1>3, <1>8, <2>1, <2>2, HandlesInsert
  <1>10. DOMAIN messages_in_packets = Peers
    BY DEF AcksInv, AckTables
  <1>11. \A f \in Peers : HandlesKnown(net', f, messages_in_packets'[f])
    BY <1>4, <1>8, <1>9, <1>10
  <1>12. AckTables'
    BY <1>2, <1>4 DEF AcksInv, AckTables
  <1>13. Covers(sends[e], seen_buf[other(e)], q[e], after_writing(q[e], batch))
    BY <1>6, KeepsWritten, KeepsCovers
  <1>14. \A f \in Peers : Kept(sends'[f], seen_buf'[other(f)], q'[f])
    BY <1>2, <1>13, KeptStep
  <1> QED
    BY <1>1, <1>2, <1>8, <1>11, <1>12, <1>14 DEF AcksInv

\* The handles of packets acked for the first time are those of messages that
\* are with the peer.
LEMMA HandlesTaken ==
  ASSUME PacketEpoch, AcksInv, NEW e \in Peers, NEW fresh \in SUBSET received[other(e)],
         NEW h \in handles_acked(messages_in_packets[e], fresh)
  PROVE  TakenHandle(sends[e], seen_buf[other(e)], h)
  <1>1. MessageInv /\ Service!ServiceInv /\ HandlesKnown(net, e, messages_in_packets[e])
    BY DEF AcksInv
  <1>2. fresh \in SUBSET PacketIds
    BY <1>1, PacketView, OtherPeer
  <1>3. PICK s \in fresh : Known(net, e, s, h)
    BY <1>1, <1>2, HandlesFound
  <1>4. PICK r \in net : r.src = e /\ r.id = s /\ \E m \in r.payload : h = handle(m)
    BY <1>3 DEF Known
  <1>5. PICK m \in r.payload : h = handle(m)
    BY <1>4
  <1>6. TakenMessage(seen_buf[other(e)], m)
    BY <1>3, <1>4 DEF AcksInv, Read
  <1>7. CallList(sends[e]) /\ IsPart(sends[e], m)
    BY <1>1, <1>4 DEF MessageInv, Sender, Carries
  <1>8. PICK k \in 1 .. Len(sends[e]) : \E i \in PartsOf(sends[e], k) :
          m = part_of(sends[e], k, i)
    BY <1>7 DEF IsPart
  <1>9. PICK i \in PartsOf(sends[e], k) : m = part_of(sends[e], k, i)
    BY <1>8
  <1>10. TakenPart(sends[e], seen_buf[other(e)], k, i)
    BY <1>6, <1>7, <1>9, PartTaken
  <1> QED
    BY <1>5, <1>9, <1>10 DEF TakenHandle

LEMMA ReadMore ==
  ASSUME Epoch, AcksInv, NEW e \in Peers, NEW p \in net, p.src = other(e), NEW new,
         Forward(seen_buf[e], new), \A m \in p.payload : TakenMessage(new, m),
         seen_buf' = [seen_buf EXCEPT ![e] = new],
         received' = [received EXCEPT ![e] = received[e] \cup {p.id}],
         DOMAIN received = Peers, net' = net
  PROVE  \A r \in net' : Read(r, received'[other(r.src)], seen_buf'[other(r.src)])
  <1> SUFFICES ASSUME NEW r \in net, r.id \in received'[other(r.src)], NEW m \in r.payload
               PROVE  TakenMessage(seen_buf'[other(r.src)], m)
    BY DEF Read
  <1>1. Carries(sends, r) /\ DOMAIN seen_buf = Peers
    BY DEF AcksInv, MessageInv, Tables
  <1>2. r.src \in Peers /\ other(r.src) \in Peers
    BY <1>1, OtherPeer DEF Carries
  <1>3. CASE other(r.src) # e
    <2>1. received'[other(r.src)] = received[other(r.src)]
          /\ seen_buf'[other(r.src)] = seen_buf[other(r.src)]
      BY <1>1, <1>2, <1>3
    <2> QED
      BY <2>1 DEF AcksInv, Read
  <1>4. CASE other(r.src) = e
    <2>1. r.src = p.src
      BY <1>2, <1>4, OtherPeer
    <2>2. seen_buf'[e] = new /\ received'[e] = received[e] \cup {p.id}
      BY <1>1
    <2>3. CASE r.id = p.id
      <3>1. r = p
        BY <2>1, <2>3 DEF AcksInv, UniquePackets
      <3> QED
        BY <1>4, <2>2, <3>1
    <2>4. CASE r.id \in received[e]
      <3>1. TakenMessage(seen_buf[e], m)
        BY <1>4, <2>4 DEF AcksInv, Read
      <3>2. CallList(sends[r.src]) /\ IsPart(sends[r.src], m)
        BY <1>1, <1>2 DEF AcksInv, MessageInv, Sender, Carries
      <3>3. m.channel \in Channels /\ m.id \in Ids
        BY <3>2, PartIds
      <3> QED
        BY <1>4, <2>2, <3>1, <3>3 DEF TakenMessage, Forward
    <2> QED
      BY <1>4, <2>2, <2>3, <2>4
  <1> QED
    BY <1>3, <1>4

\* What an ack does at its receiver.
LEMMA AckedStep ==
  ASSUME Epoch, PacketEpoch, AcksInv, NEW e \in Peers, NEW fresh \in SUBSET received[other(e)],
         acked_packets(e, fresh)
  PROVE  \E buf, map, queue, done :
           /\ messages_in_packets' = [messages_in_packets EXCEPT ![e] = buf]
           /\ sent_frag_map' = [sent_frag_map EXCEPT ![e] = map]
           /\ q' = [q EXCEPT ![e] = queue]
           /\ acked_messages' = [acked_messages EXCEPT ![e] = done]
           /\ HandlesKnown(net, e, buf)
           /\ FragsKnown(sends[e], seen_buf[other(e)], map)
           /\ Reported(sends[e], seen_buf[other(e)], done)
           /\ Kept(sends[e], seen_buf[other(e)], queue)
  <1>1. PICK handles : handles = handles_acked(messages_in_packets[e], fresh)
    OBVIOUS
  <1> DEFINE map == sent_frag_map[e]
             whole == {h \in handles : \/ h.fragment = NoFrag
                                       \/ h.fragment.parent_id \in completed(map, handles)}
             buf2 == Handles!clear(messages_in_packets[e], {Handles!index(s) : s \in fresh})
             queue2 == {m \in q[e] : \A h \in handles : ~ dismissed_by_ack(m, h)}
             map2 == ack_fragments(map, handles)
             done2 == acked_messages[e] \cup {h.msg : h \in whole}
  <1>2. /\ messages_in_packets' = [messages_in_packets EXCEPT ![e] = buf2]
        /\ sent_frag_map' = [sent_frag_map EXCEPT ![e] = map2]
        /\ q' = [q EXCEPT ![e] = queue2]
        /\ acked_messages' = [acked_messages EXCEPT ![e] = done2]
    BY <1>1, Zenon DEF acked_packets
  <1>3. PICK sq, seen : sq = sends[e] /\ seen = seen_buf[other(e)]
    OBVIOUS
  <1>4. \A h \in handles : TakenHandle(sq, seen, h)
    BY <1>1, <1>3, HandlesTaken
  <1>5. CallList(sq) /\ Queue(sq, q[e]) /\ FragsKnown(sq, seen, map)
    BY <1>3 DEF AcksInv, MessageInv, Sender
  <1>6. HandlesKnown(net, e, buf2)
    BY HandlesClear DEF AcksInv
  <1>7. FragsKnown(sq, seen, map2)
    BY <1>4, <1>5, FragsAcked
  <1>8. Reported(sq, seen, done2)
    <2>1. Reported(sq, seen, acked_messages[e])
      BY <1>3 DEF AcksInv
    <2>2. ASSUME NEW h \in whole PROVE AllTaken(sq, seen, h.msg)
      BY <1>4, <1>5, WholeAcked
    <2> HIDE DEF whole
    <2> QED
      BY <2>1, <2>2 DEF Reported
  <1>9. Kept(sq, seen, queue2)
    <2>1. Covers(sq, seen, q[e], queue2)
      BY <1>4, <1>5, CoversDismissed
    <2>2. MessageInv /\ Kept(sq, seen, q[e])
      BY <1>3 DEF AcksInv
    <2> HIDE DEF queue2
    <2> QED
      BY <1>3, <2>1, <2>2, SameForward, KeptStays
  <1> HIDE DEF buf2, map2, queue2, done2
  <1> QED
    BY <1>2, <1>3, <1>6, <1>7, <1>8, <1>9

LEMMA ReceiveAcks ==
  ASSUME Epoch, PacketEpoch, AcksInv, NEW e \in Peers, NEW p \in net, receive(e, p)
  PROVE  AcksInv'
  <1>1. MessageInv /\ MessageInv'
    BY ReceiveInv DEF AcksInv
  <1>2. PICK new :
          /\ seen_buf' = [seen_buf EXCEPT ![e] = new]
          /\ Forward(seen_buf[e], new) /\ \A m \in p.payload : TakenMessage(new, m)
    BY <1>1, ReceiveIs
  <1>3. PICK fresh : fresh = P!newly_acked(e, p.acks)
    OBVIOUS
  <1>4. /\ P!process_incoming_packet(e, p) /\ acked_packets(e, fresh)
        /\ UNCHANGED <<next_message_id, sends, visiting>>
    BY <1>3, Zenon DEF receive
  <1>5. /\ received' = [received EXCEPT ![e] = received[e] \cup {p.id}]
        /\ net' = net /\ p.src = other(e)
    BY <1>4, Zenon DEF P!process_incoming_packet, other
  <1>6. Service!ServiceInv /\ Service!ServiceInv'
    BY <1>4, ServiceReceive DEF AcksInv
  <1>7. other(e) \in Peers /\ other(e) # e /\ other(other(e)) = e
    BY OtherPeer
  <1>8. fresh \in SUBSET received[other(e)] /\ DOMAIN received = Peers
    <2>1. fresh \subseteq p.acks
      BY <1>3 DEF P!newly_acked
    <2> QED
      BY <1>5, <1>6, <2>1, PacketView
  <1>9. \A r \in net' : Read(r, received'[other(r.src)], seen_buf'[other(r.src)])
    BY <1>2, <1>5, <1>8, ReadMore
  <1>10. PICK buf, map, queue, done :
           /\ messages_in_packets' = [messages_in_packets EXCEPT ![e] = buf]
           /\ sent_frag_map' = [sent_frag_map EXCEPT ![e] = map]
           /\ q' = [q EXCEPT ![e] = queue]
           /\ acked_messages' = [acked_messages EXCEPT ![e] = done]
           /\ HandlesKnown(net, e, buf)
           /\ FragsKnown(sends[e], seen_buf[other(e)], map)
           /\ Reported(sends[e], seen_buf[other(e)], done)
           /\ Kept(sends[e], seen_buf[other(e)], queue)
    BY <1>4, <1>8, AckedStep
  <1>11. AckTables /\ DOMAIN q = Peers /\ DOMAIN seen_buf = Peers /\ UniquePackets
    BY DEF AcksInv, MessageInv, Tables
  <1>12. AckTables' /\ UniquePackets'
    BY <1>5, <1>10, <1>11 DEF AckTables, UniquePackets
  <1>13. ASSUME NEW f \in Peers
         PROVE  /\ HandlesKnown(net, f, messages_in_packets'[f])
                /\ FragsKnown(sends[f], seen_buf'[other(f)], sent_frag_map'[f])
                /\ Reported(sends[f], seen_buf'[other(f)], acked_messages'[f])
                /\ Kept(sends[f], seen_buf'[other(f)], q'[f])
    <2>1. CASE f = e
      <3>1. /\ messages_in_packets'[f] = buf /\ sent_frag_map'[f] = map /\ q'[f] = queue
            /\ acked_messages'[f] = done
        BY <1>10, <1>11, <2>1 DEF AckTables
      <3>2. seen_buf'[other(e)] = seen_buf[other(e)]
        BY <1>2, <1>7, <1>11
      <3> QED
        BY <1>10, <2>1, <3>1, <3>2
    <2>2. CASE f = other(e)
      <3>1. /\ messages_in_packets'[f] = messages_in_packets[f]
            /\ sent_frag_map'[f] = sent_frag_map[f]
            /\ q'[f] = q[f] /\ acked_messages'[f] = acked_messages[f]
        BY <1>7, <1>10, <1>11, <2>2 DEF AckTables
      <3>2. seen_buf'[other(f)] = new /\ Forward(seen_buf[other(f)], new)
        BY <1>2, <1>7, <1>11, <2>2
      <3>3. /\ HandlesKnown(net, f, messages_in_packets[f])
            /\ FragsKnown(sends[f], seen_buf[other(f)], sent_frag_map[f])
            /\ Reported(sends[f], seen_buf[other(f)], acked_messages[f])
            /\ Kept(sends[f], seen_buf[other(f)], q[f])
        BY DEF AcksInv
      <3>4. CallList(sends[f]) /\ Longer(sends[f], sends[f])
        BY <1>1, SameForward
      <3>5. FragsKnown(sends[f], new, sent_frag_map[f])
        BY <3>2, <3>3, <3>4, FragsKept
      <3>6. Reported(sends[f], new, acked_messages[f])
        BY <3>2, <3>3, <3>4, ReportedStays
      <3>7. Covers(sends[f], new, q[f], q[f])
        BY DEF Covers
      <3>8. Kept(sends[f], new, q[f])
        BY <3>2, <3>3, <3>4, <3>7, KeptStays
      <3> QED
        BY <3>1, <3>2, <3>3, <3>5, <3>6, <3>8
    <2> QED
      BY <2>1, <2>2, OtherPeer
  <1> QED
    BY <1>1, <1>4, <1>5, <1>6, <1>9, <1>12, <1>13 DEF AcksInv

LEMMA NextAcks ==
  ASSUME Epoch, PacketEpoch, AcksInv, [Next]_vars
  PROVE  AcksInv'
  <1>1. CASE UNCHANGED vars
    <2>1. UNCHANGED <<packet_vars, sender_vars, receiver_vars>>
      BY <1>1 DEF vars
    <2>2. Service!ServiceInv'
      BY <2>1, ServiceIdle DEF AcksInv
    <2>3. MessageInv'
      BY <1>1, NextInv DEF AcksInv
    <2>4. UNCHANGED <<net, received, seen_buf, messages_in_packets, sent_frag_map, sends, q,
                      acked_messages>>
      BY <2>1 DEF packet_vars, sender_vars, receiver_vars
    <2> QED
      BY <2>2, <2>3, <2>4 DEF AcksInv, AckTables, UniquePackets
  <1>2. ASSUME NEW e \in Peers, calls < Len(Workload),
               send_message(e, Workload[calls + 1][2], Workload[calls + 1][3])
        PROVE  AcksInv'
    <2>1. MessageInv
      BY DEF AcksInv
    <2> QED
      BY <1>2, <2>1, CallsLeft, SendMessageAcks
  <1>3. ASSUME NEW e \in Peers, update(e) PROVE AcksInv'
    BY <1>3, UpdateAcks
  <1>4. ASSUME NEW e \in Peers, NEW batch \in SUBSET ready(q[e]), compose_packets(e, batch)
        PROVE  AcksInv'
    BY <1>4, ComposeAcks
  <1>5. ASSUME NEW e \in Peers, compose_refused(e) PROVE AcksInv'
    BY <1>5, RefusedAcks
  <1>6. ASSUME NEW e \in Peers, "KeepAlive" \in PacketTypes, send_keepalive(e) PROVE AcksInv'
    BY <1>6, KeepaliveAcks
  <1>7. ASSUME NEW e \in Peers, NEW p \in net, receive(e, p) PROVE AcksInv'
    BY <1>7, ReceiveAcks
  <1> QED
    BY <1>1, <1>2, <1>3, <1>4, <1>5, <1>6, <1>7 DEF Next

\* AcksInv is inductive.
THEOREM AcksInvariant ==
  ASSUME Epoch, PacketEpoch
  PROVE  Spec => []AcksInv
  <1>1. Init => AcksInv
    BY InitAcks
  <1>2. AcksInv /\ [Next]_vars => AcksInv'
    BY NextAcks
  <1> QED
    BY <1>1, <1>2, PTL DEF Spec

\* Fewer ids than a seen_buf has slots: none is ever too old.
Recent == MaxId < SeenSize

\* What the filter refuses then, it has seen, and so it has been got.
LEMMA TakenGot ==
  ASSUME Epoch, Recent, NEW sq, CallList(sq), NEW seen, NEW ip, NEW inbox,
         Receiver(sq, seen, ip, inbox),
         NEW k \in 1 .. Len(sq), NEW i \in PartsOf(sq, k), TakenPart(sq, seen, k, i)
  PROVE  Got(sq, ip, inbox, k, i)
  <1>1. PICK c, id : c = sq[k].channel /\ id = sq[k].id + i
    OBVIOUS
  <1>2. c \in Channels /\ id \in Ids /\ id \in 0 .. MaxId
    BY <1>1, CallFacts DEF Ids
  <1>3. PICK buf : buf = seen[c]
    OBVIOUS
  <1>4. buf \in SeenBuffers
    BY <1>2, <1>3 DEF Receiver
  <1>5. buf.sequence \in 0 .. MaxId
    BY <1>4 DEF SeenBuffers, SeenRing!BuffersOver, Ids
  <1>6. MaxId + SeenSize < SeenRing!Half
    BY SeenRingIs DEF Epoch
  <1>7. SeenRing!check_sequence(buf, id) <=> id + SeenSize > buf.sequence
    BY <1>2, <1>5, <1>6, IdFacts, SeenRing!EpochWindow
  <1>8. Seen!check_sequence(buf, id)
    BY <1>2, <1>5, <1>7, IdFacts, SeenRingIs DEF Recent
  <1>9. Seen!exists(seen[c], id)
    BY <1>1, <1>3, <1>8 DEF TakenPart, Taken
  <1>10. PICK l \in 1 .. Len(sq) : \E j \in PartsOf(sq, l) :
           c = sq[l].channel /\ id = sq[l].id + j /\ Got(sq, ip, inbox, l, j)
    BY <1>2, <1>9 DEF Receiver, Accounted
  <1>11. PICK j \in PartsOf(sq, l) :
           c = sq[l].channel /\ id = sq[l].id + j /\ Got(sq, ip, inbox, l, j)
    BY <1>10
  <1>12. l = k /\ j = i
    BY <1>1, <1>11, UniqueId
  <1> QED
    BY <1>11, <1>12

\* A message all of whose parts were got is with the application: with fewer
\* parts than all it would still be in the reassembler.
LEMMA AllGotWhole ==
  ASSUME NEW sq, CallList(sq), NEW seen, NEW ip, NEW inbox, Receiver(sq, seen, ip, inbox),
         NEW k \in 1 .. Len(sq), \A i \in PartsOf(sq, k) : Got(sq, ip, inbox, k, i)
  PROVE  whole_of(sq, k) \in DOMAIN inbox
  <1> SUFFICES ASSUME whole_of(sq, k) \notin DOMAIN inbox PROVE FALSE
    OBVIOUS
  <1>1. \A i \in PartsOf(sq, k) : sq[k].id \in DOMAIN ip /\ i \in DOMAIN ip[sq[k].id].fragments
    BY DEF Got
  <1>2. 0 \in PartsOf(sq, k)
    BY CallFacts
  <1>3. InProgress(sq, seen, ip) /\ sq[k].id \in DOMAIN ip
    BY <1>1, <1>2 DEF Receiver
  <1>4. PICK D \in SUBSET PartsOf(sq, k) :
          ip[sq[k].id] = pieces(sq, k, D) /\ D # PartsOf(sq, k)
    BY <1>3, PiecesAre
  <1>5. DOMAIN ip[sq[k].id].fragments = D
    BY <1>4 DEF pieces, bodies
  <1> QED
    BY <1>1, <1>4, <1>5

\* What was reported is with the application.
LEMMA ReportedWhole ==
  ASSUME Epoch, Recent, NEW sq, CallList(sq), NEW seen, NEW ip, NEW inbox,
         Receiver(sq, seen, ip, inbox), NEW done, Reported(sq, seen, done), NEW k \in done
  PROVE  k \in 1 .. Len(sq) /\ whole_of(sq, k) \in DOMAIN inbox
  <1>1. k \in 1 .. Len(sq) /\ \A i \in PartsOf(sq, k) : TakenPart(sq, seen, k, i)
    BY DEF Reported, AllTaken
  <1>2. \A i \in PartsOf(sq, k) : Got(sq, ip, inbox, k, i)
    BY <1>1, TakenGot
  <1> QED
    BY <1>1, <1>2, AllGotWhole

LEMMA WholeIs ==
  ASSUME NEW e, NEW k
  PROVE  whole_message(e, k) = whole_of(sends[e], k)
  BY DEF whole_of, whole_message, bodies, PartsOf

\* The receiver of e's messages is in order with them.
LEMMA FarEnd ==
  ASSUME MessageInv, NEW e \in Peers
  PROVE  /\ CallList(sends[e])
         /\ Receiver(sends[e], seen_buf[other(e)], in_progress[other(e)], delivered[other(e)])
  <1>1. other(e) \in Peers /\ other(other(e)) = e
    BY OtherPeer
  <1> QED
    BY <1>1 DEF MessageInv, Sender

\* The application is told of an ack only when the peer's application has the
\* whole message, whatever acks, resends and duplicates cross.
THEOREM AckedIsDelivered ==
  ASSUME Epoch, PacketEpoch, Recent
  PROVE  Spec => []AckedWasDelivered
  <1>1. AcksInv => AckedWasDelivered
    <2> SUFFICES ASSUME AcksInv, NEW e \in Peers, NEW k \in acked_messages[e]
                 PROVE  BagIn(whole_message(e, k), delivered[other(e)])
      BY DEF AckedWasDelivered
    <2>1. PICK sq, seen, ip, inbox :
            /\ sq = sends[e] /\ seen = seen_buf[other(e)]
            /\ ip = in_progress[other(e)] /\ inbox = delivered[other(e)]
      OBVIOUS
    <2>2. CallList(sq) /\ Receiver(sq, seen, ip, inbox)
      BY <2>1, FarEnd DEF AcksInv
    <2>3. Reported(sq, seen, acked_messages[e])
      BY <2>1 DEF AcksInv
    <2>4. whole_of(sq, k) \in DOMAIN inbox
      BY <2>2, <2>3, ReportedWhole
    <2> QED
      BY <2>1, <2>4, WholeIs DEF BagIn, BagToSet
  <1> QED
    BY <1>1, AcksInvariant, PTL

\* A part of a reliable message leaves its queue only when the peer has it.
THEOREM ReliableIsKept ==
  ASSUME Epoch, PacketEpoch, Recent
  PROVE  Spec => []ReliableKept
  <1>1. AcksInv => ReliableKept
    <2> SUFFICES ASSUME AcksInv, NEW e \in Peers, NEW k \in 1 .. Len(sends[e]),
                        sends[e][k].channel \in Reliable, NEW i \in 0 .. sends[e][k].parts - 1
                 PROVE  \/ \E m \in q[e] : m.body = [msg |-> k, part |-> i]
                        \/ BagIn(whole_message(e, k), delivered[other(e)])
                        \/ \E p \in DOMAIN in_progress[other(e)] :
                             /\ i \in DOMAIN in_progress[other(e)][p].fragments
                             /\ in_progress[other(e)][p].fragments[i] = [msg |-> k, part |-> i]
      BY DEF ReliableKept
    <2>1. PICK sq, seen, ip, inbox :
            /\ sq = sends[e] /\ seen = seen_buf[other(e)]
            /\ ip = in_progress[other(e)] /\ inbox = delivered[other(e)]
      OBVIOUS
    <2>2. CallList(sq) /\ Receiver(sq, seen, ip, inbox)
      BY <2>1, FarEnd DEF AcksInv
    <2>3. k \in 1 .. Len(sq) /\ i \in PartsOf(sq, k) /\ sq[k].channel \in Reliable
      BY <2>1 DEF PartsOf
    <2>4. Kept(sq, seen, q[e])
      BY <2>1 DEF AcksInv
    <2>5. TakenPart(sq, seen, k, i) \/ InQueue(q[e], k, i)
      BY <2>3, <2>4 DEF Kept
    <2>6. CASE InQueue(q[e], k, i)
      BY <2>6 DEF InQueue
    <2>7. CASE TakenPart(sq, seen, k, i)
      <3>1. Got(sq, ip, inbox, k, i)
        BY <2>2, <2>3, <2>7, TakenGot
      <3>2. CASE whole_of(sq, k) \in DOMAIN inbox
        BY <2>1, <3>2, WholeIs DEF BagIn, BagToSet
      <3>3. CASE sq[k].id \in DOMAIN ip /\ i \in DOMAIN ip[sq[k].id].fragments
        <4>1. InProgress(sq, seen, ip)
          BY <2>2 DEF Receiver
        <4>2. PICK D \in SUBSET PartsOf(sq, k) : ip[sq[k].id] = pieces(sq, k, D)
          BY <2>2, <2>3, <3>3, <4>1, PiecesAre
        <4>3. ip[sq[k].id].fragments = bodies(k, D)
          BY <4>2 DEF pieces
        <4>4. ip[sq[k].id].fragments[i] = [msg |-> k, part |-> i]
          BY <3>3, <4>3 DEF bodies
        <4> QED
          BY <2>1, <3>3, <4>4
      <3> QED
        BY <3>1, <3>2, <3>3 DEF Got
    <2> QED
      BY <2>5, <2>6, <2>7
  <1> QED
    BY <1>1, AcksInvariant, PTL

-----------------------------------------------------------------------------
(* Nothing panics, and no call fails halfway *)

\* The ids used and the slots of sent_frag_map fit in half the number space.
FragEpoch == MaxId + FragSize < SeqMod \div 2

\* The parents in sent_frag_map are the newest ones.
FragsOrdered(next, map) == map.sequence <= next /\ FragRing!InWindow(map)

\* The tables are never behind what is looked up in them: no step of the code
\* that may fail on a table does.
CalmInv ==
  /\ AcksInv /\ Service!SentOrdered
  /\ panicked \in [Peers -> {FALSE}] /\ visiting \in [Peers -> BOOLEAN]
  /\ next_message_id \in [Peers -> Nat]
  /\ \A e \in Peers : messages_in_packets[e].sequence <= sequence_id[e]
  /\ \A e \in Peers : FragsOrdered(next_message_id[e], sent_frag_map[e])
  /\ \A e \in Peers : Len(sends[e]) <= Len(Workload)
  /\ \A e \in Peers : \A k \in 1 .. Len(sends[e]) : sends[e][k].ok

LEMMA SameRecord ==
  ASSUME NEW e
  PROVE  P!record_refused(e) <=> Service!record_refused(e)
  BY Zenon DEF P!record_refused, Service!record_refused,
     P!wrapping_add, Service!wrapping_add,
     P!Sent!insert_too_old, Service!Sent!insert_too_old,
     P!Sent!window_start, Service!Sent!window_start,
     P!Sent!wrapping_sub, Service!Sent!wrapping_sub,
     P!Sent!sequence_greater_than, Service!Sent!sequence_greater_than,
     P!Sent!sequence_less_than, Service!Sent!sequence_less_than,
     P!Sent!Half, Service!Sent!Half

LEMMA OrderedStart ==
  ASSUME PacketEpoch, P!Init
  PROVE  Service!SentOrdered
  BY PacketFacts, SameInit, Service!InitSentOrdered, Zenon

LEMMA OrderedSend ==
  ASSUME PacketEpoch, Service!ServiceInv, Service!SentOrdered, NEW e \in Peers, NEW type,
         NEW payload, P!SendPacket(e, type, payload)
  PROVE  Service!SentOrdered'
  BY PacketFacts, SameSend, Service!SendOrdered, Zenon

LEMMA OrderedRefuse ==
  ASSUME PacketEpoch, Service!ServiceInv, Service!SentOrdered, NEW e \in Peers, NEW type,
         P!RefusePacket(e, type)
  PROVE  Service!SentOrdered'
  BY PacketFacts, SameRefuse, Service!RefuseOrdered, Zenon

LEMMA OrderedReceive ==
  ASSUME PacketEpoch, Service!ServiceInv, Service!SentOrdered, NEW e \in Peers, NEW p,
         P!process_incoming_packet(e, p)
  PROVE  Service!SentOrdered'
  BY PacketFacts, SameReceive, Service!ReceiveOrdered, Zenon

LEMMA OrderedIdle ==
  ASSUME PacketEpoch, Service!SentOrdered, UNCHANGED packet_vars
  PROVE  Service!SentOrdered'
  <1>1. UNCHANGED <<sent_buffer, sequence_id, net>>
    BY DEF packet_vars
  <1> QED
    BY <1>1, PacketFacts, Service!IdleOrdered, Zenon

\* sent_buffer has a place for every packet.
LEMMA RecordTaken ==
  ASSUME PacketEpoch, Service!ServiceInv, Service!SentOrdered, NEW e \in Peers,
         sequence_id[e] < MaxSeq
  PROVE  ~ P!record_refused(e)
  <1>1. ~ Service!record_refused(e)
    BY PacketFacts, Service!AlwaysRecordedInOrder, Zenon
  <1> QED
    BY <1>1, SameRecord

\* The handles of the next packet have a place.
LEMMA HandlesTakeNext ==
  ASSUME PacketEpoch, NEW buf \in HandleBuffers, NEW s \in PacketIds, buf.sequence <= s
  PROVE  ~ Handles!insert_too_old(buf, s)
  <1>1. buf.sequence \in 0 .. MaxSeq /\ s \in 0 .. MaxSeq /\ MaxSeq + RecvSize < HandleRing!Half
    BY DEF HandleBuffers, HandleRing!BuffersOver, PacketIds, PacketEpoch, HandleRing!Half
  <1>2. HandleRing!insert_too_old(buf, s) <=> s + RecvSize < buf.sequence
    BY <1>1, RingFacts, HandleRing!EpochWindow
  <1>3. HandleRing!insert_too_old(buf, s) <=> Handles!insert_too_old(buf, s)
    BY DEF HandleRing!insert_too_old, Handles!insert_too_old,
       HandleRing!window_start, Handles!window_start,
       HandleRing!wrapping_sub, Handles!wrapping_sub,
       HandleRing!sequence_less_than, Handles!sequence_less_than,
       HandleRing!sequence_greater_than, Handles!sequence_greater_than,
       HandleRing!Half, Handles!Half
  <1> QED
    BY <1>1, <1>2, <1>3, RingFacts

LEMMA HandlesNext ==
  ASSUME PacketEpoch, NEW buf \in HandleBuffers, NEW s \in PacketIds, buf.sequence <= s,
         NEW hs \in SUBSET {handle(m) : m \in Parts}, NEW new, new = Handles!insert(buf, s, hs)
  PROVE  new.sequence = s
  <1>1. PICK T : T = SUBSET {handle(m) : m \in Parts}
    OBVIOUS
  <1>2. /\ buf.sequence \in 0 .. MaxSeq /\ s \in 0 .. MaxSeq
        /\ buf \in HandleRing!BuffersOver(0 .. MaxSeq, T)
        /\ MaxSeq + RecvSize < HandleRing!Half
    BY <1>1 DEF HandleBuffers, HandleRing!BuffersOver, PacketIds, PacketEpoch, HandleRing!Half
  <1>3. new = HandleRing!insert(buf, s, hs) /\ hs \in T /\ {} \in T
    BY <1>1, HandleRingIs
  <1>4. new.sequence = IF s > buf.sequence THEN s ELSE buf.sequence
    BY <1>2, <1>3, RingFacts, HandleRing!EpochInsert
  <1> QED
    BY <1>2, <1>4

\* A parent whose slot is not swept yet has a place in sent_frag_map.
LEMMA FragsTakeNext ==
  ASSUME FragEpoch, NEW map \in FragBuffers, NEW s \in Ids, s + FragSize >= map.sequence
  PROVE  ~ Frags!insert_too_old(map, s)
  <1>1. map.sequence \in 0 .. MaxId /\ s \in 0 .. MaxId /\ MaxId + FragSize < FragRing!Half
    BY DEF FragBuffers, FragRing!BuffersOver, Ids, FragEpoch, FragRing!Half
  <1>2. FragRing!insert_too_old(map, s) <=> s + FragSize < map.sequence
    BY <1>1, RingFacts, IdFacts, FragRing!EpochWindow
  <1>3. FragRing!insert_too_old(map, s) <=> Frags!insert_too_old(map, s)
    BY DEF FragRing!insert_too_old, Frags!insert_too_old,
       FragRing!window_start, Frags!window_start,
       FragRing!wrapping_sub, Frags!wrapping_sub,
       FragRing!sequence_less_than, Frags!sequence_less_than,
       FragRing!sequence_greater_than, Frags!sequence_greater_than,
       FragRing!Half, Frags!Half
  <1> QED
    BY <1>1, <1>2, <1>3, RingFacts, IdFacts

LEMMA FragsNext ==
  ASSUME FragEpoch, NEW map \in FragBuffers, NEW next \in Ids, FragsOrdered(next, map),
         NEW n \in Nat, NEW x \in FragStatuses, NEW new, new = Frags!insert(map, next, x)
  PROVE  FragsOrdered(next + n, new)
  <1>1. /\ map \in FragRing!BuffersOver(0 .. MaxId, FragStatuses)
        /\ next \in 0 .. MaxId /\ next >= map.sequence /\ map.sequence \in 0 .. MaxId
        /\ FragRing!InWindow(map) /\ MaxId + FragSize < FragRing!Half
    BY DEF FragBuffers, FragRing!BuffersOver, Ids, FragEpoch, FragRing!Half, FragsOrdered
  <1>2. new = FragRing!insert(map, next, x) /\ [status |-> "Unknown", remaining |-> {}] \in FragStatuses
    BY FragRingIs DEF FragStatuses
  <1>3. FragRing!InWindow(new) /\ new.sequence = next
    BY <1>1, <1>2, RingFacts, IdFacts, FragRing!NewerInWindow
  <1> QED
    BY <1>1, <1>3 DEF FragsOrdered

LEMMA InitCalm ==
  ASSUME Epoch, PacketEpoch, FragEpoch, Init
  PROVE  CalmInv
  <1> USE DEF Init
  <1>1. AcksInv /\ Service!SentOrdered
    BY InitAcks, OrderedStart
  <1>2. panicked \in [Peers -> {FALSE}] /\ visiting \in [Peers -> BOOLEAN]
    BY Zenon
  <1>3. ASSUME NEW e \in Peers
        PROVE  /\ messages_in_packets[e] = Handles!with_capacity
               /\ sent_frag_map[e] = Frags!with_capacity
               /\ sends[e] = << >> /\ next_message_id[e] = 0 /\ sequence_id[e] = 0
    BY Zenon DEF P!Init
  <1>4. Handles!with_capacity.sequence = 0 /\ Frags!with_capacity.sequence = 0
    BY DEF Handles!with_capacity, Frags!with_capacity
  <1>5. FragRing!InWindow(Frags!with_capacity)
    BY FragRingIs, RingFacts, FragRing!EmptyWindow
  <1>6. \A e \in Peers : /\ messages_in_packets[e].sequence <= sequence_id[e]
                         /\ FragsOrdered(next_message_id[e], sent_frag_map[e])
    BY <1>3, <1>4, <1>5 DEF FragsOrdered
  <1>7. \A e \in Peers : Len(sends[e]) = 0
    BY <1>3
  <1>8. \A e \in Peers : Len(sends[e]) <= Len(Workload)
    BY <1>7, IdFacts
  <1>9. \A e \in Peers : \A k \in 1 .. Len(sends[e]) : sends[e][k].ok
    BY <1>7
  <1>10. next_message_id \in [Peers -> Nat]
    OBVIOUS
  <1> QED
    BY <1>1, <1>2, <1>6, <1>8, <1>9, <1>10 DEF CalmInv

\* The call succeeds.
LEMMA SendMessageOk ==
  ASSUME Epoch, PacketEpoch, FragEpoch, CalmInv, NEW e \in Peers, NEW c \in Channels,
         NEW n \in 1 .. MaxParts, Len(sends[e]) < Len(Workload), send_message(e, c, n)
  PROVE  /\ sends' = [sends EXCEPT ![e] =
              Append(sends[e], [id |-> next_message_id[e], channel |-> c, parts |-> n, ok |-> TRUE])]
         /\ next_message_id' = [next_message_id EXCEPT ![e] = next_message_id[e] + n]
         /\ next_message_id[e] \in Ids /\ next_message_id[e] + n \in Ids
         /\ \/ sent_frag_map' = sent_frag_map /\ n = 1
            \/ /\ n # 1
               /\ sent_frag_map' = [sent_frag_map EXCEPT ![e] =
                    Frags!insert(sent_frag_map[e], next_message_id[e],
                      [status |-> "Partial", remaining |-> {m.id : m \in enqueued(e, c, n)}])]
  <1>1. PICK next, map : next = next_message_id[e] /\ map = sent_frag_map[e]
    OBVIOUS
  <1>2. AcksInv /\ MessageInv
    BY DEF CalmInv, AcksInv
  <1>3. next \in Nat /\ next <= MaxParts * Len(sends[e]) /\ Len(sends[e]) \in Nat
    BY <1>1, <1>2 DEF MessageInv, Sender, CallList
  <1>4. n \in Nat /\ next + n <= MaxId
    BY <1>3, MoreIds
  <1>5. next \in Ids /\ next + n \in Ids
    BY <1>3, <1>4, IdFacts DEF Ids
  <1>6. map \in FragBuffers /\ map.sequence <= next
    BY <1>1, <1>2 DEF AcksInv, FragsKnown, CalmInv, FragsOrdered
  <1>7. next + FragSize >= map.sequence
    <2>1. map.sequence \in Ids
      BY <1>6 DEF FragBuffers, FragRing!BuffersOver
    <2> QED
      BY <1>3, <1>6, <2>1, RingFacts, IdFacts DEF Ids
  <1>8. ~ Frags!insert_too_old(map, next)
    BY <1>5, <1>6, <1>7, FragsTakeNext
  <1>9. ~ parent_refused(e)
    BY <1>1, <1>8 DEF parent_refused
  <1>10. PICK ok : ok = (n = 1 \/ ~ parent_refused(e))
    OBVIOUS
  <1>11. ok = TRUE
    BY <1>9, <1>10
  <1>12. sends' = [sends EXCEPT ![e] =
           Append(sends[e], [id |-> next_message_id[e], channel |-> c, parts |-> n, ok |-> ok])]
    BY <1>10, Zenon DEF send_message
  <1>13. next_message_id' = [next_message_id EXCEPT ![e] = next_message_id[e] + n]
    BY <1>1, <1>3, <1>4, NoWrap DEF send_message
  <1>14. \/ sent_frag_map' = sent_frag_map /\ n = 1
         \/ /\ n # 1
            /\ sent_frag_map' = [sent_frag_map EXCEPT ![e] =
                 Frags!insert(sent_frag_map[e], next_message_id[e],
                   [status |-> "Partial", remaining |-> {m.id : m \in enqueued(e, c, n)}])]
    BY <1>9, Zenon DEF send_message
  <1> QED
    BY <1>1, <1>5, <1>11, <1>12, <1>13, <1>14, Zenon

LEMMA SendMessageCalm ==
  ASSUME Epoch, PacketEpoch, FragEpoch, CalmInv, NEW e \in Peers, NEW c \in Channels,
         NEW n \in 1 .. MaxParts, Len(sends[e]) < Len(Workload), send_message(e, c, n)
  PROVE  CalmInv'
  <1>1. AcksInv /\ AcksInv'
    BY SendMessageAcks DEF CalmInv
  <1>2. UNCHANGED <<packet_vars, visiting, panicked, messages_in_packets>>
    BY Zenon DEF send_message
  <1>3. Service!SentOrdered' /\ UNCHANGED sequence_id
    BY <1>2, OrderedIdle DEF CalmInv, packet_vars
  <1>4. PICK next, call, x, new :
          /\ next = next_message_id[e]
          /\ call = [id |-> next_message_id[e], channel |-> c, parts |-> n, ok |-> TRUE]
          /\ x = [status |-> "Partial", remaining |-> {m.id : m \in enqueued(e, c, n)}]
          /\ new = Frags!insert(sent_frag_map[e], next, x)
    OBVIOUS
  <1>5. /\ sends' = [sends EXCEPT ![e] = Append(sends[e], call)]
        /\ next_message_id' = [next_message_id EXCEPT ![e] = next + n]
        /\ next \in Ids /\ next + n \in Ids
        /\ \/ sent_frag_map' = sent_frag_map
           \/ sent_frag_map' = [sent_frag_map EXCEPT ![e] = new]
    BY <1>4, SendMessageOk
  <1>6. n \in Nat /\ next \in Nat
    BY <1>5, IdFacts DEF Ids
  <1>7. /\ DOMAIN sends = Peers /\ DOMAIN next_message_id = Peers /\ DOMAIN sent_frag_map = Peers
        /\ sends[e] \in Seq(Calls)
    BY <1>1 DEF AcksInv, AckTables, MessageInv, Tables, Sender, CallList
  <1>8. sent_frag_map[e] \in FragBuffers /\ FragsOrdered(next, sent_frag_map[e])
    BY <1>1, <1>4 DEF AcksInv, FragsKnown, CalmInv
  <1>9. FragsOrdered(next + n, new)
    <2>1. x \in FragStatuses
      <3>1. MessageInv
        BY <1>1 DEF AcksInv
      <3>2. PICK sq2 :
              /\ MakesCall(sends[e], next_message_id[e], q[e], c, n, sq2)
              /\ enqueued(e, c, n) = enqueued_parts(sq2, Len(sq2), n)
        BY <3>1, SendMessageIs
      <3>3. /\ CallList(sq2) /\ Len(sq2) = Len(sends[e]) + 1 /\ sq2[Len(sq2)].parts = n
        BY <3>2, CallMade
      <3>4. Len(sq2) \in 1 .. Len(sq2)
        BY <1>7, <3>3
      <3>5. {m.id : m \in enqueued(e, c, n)} \in SUBSET Ids
        BY <3>2, <3>3, <3>4, EnqueuedIds
      <3> QED
        BY <1>4, <3>5 DEF FragStatuses
    <2> QED
      BY <1>4, <1>5, <1>6, <1>8, <2>1, FragsNext
  <1>10. FragsOrdered(next + n, sent_frag_map[e])
    <2>1. sent_frag_map[e].sequence \in Nat
      BY <1>8, IdFacts DEF FragBuffers, FragRing!BuffersOver, Ids
    <2> QED
      BY <1>6, <1>8, <2>1 DEF FragsOrdered
  <1>11. \A f \in Peers : FragsOrdered(next_message_id'[f], sent_frag_map'[f])
    <2> TAKE f \in Peers
    <2>1. CASE f = e
      BY <1>5, <1>7, <1>9, <1>10, <2>1
    <2>2. CASE f # e
      BY <1>5, <1>7, <2>2 DEF CalmInv
    <2> QED
      BY <2>1, <2>2
  <1>12. ASSUME NEW f \in Peers
         PROVE  /\ Len(sends'[f]) <= Len(Workload)
                /\ \A k \in 1 .. Len(sends'[f]) : sends'[f][k].ok
    <2>1. CASE f = e
      <3>1. PICK sq, sq2 : sq = sends[e] /\ sq2 = Append(sq, call)
        OBVIOUS
      <3>2. sq \in Seq(Calls) /\ Len(sq) \in Nat
        BY <1>7, <3>1
      <3>3. call \in Calls
        BY <1>4, <1>5 DEF Calls
      <3>4. /\ Len(sq2) = Len(sq) + 1 /\ sq2[Len(sq) + 1] = call
            /\ \A k \in 1 .. Len(sq) : sq2[k] = sq[k]
        BY <3>1, <3>2, <3>3
      <3>5. Len(sq2) <= Len(Workload)
        BY <3>1, <3>2, <3>4, IdFacts
      <3>6. ASSUME NEW k \in 1 .. Len(sq2) PROVE sq2[k].ok
        <4>1. CASE k \in 1 .. Len(sq)
          BY <3>1, <3>4, <4>1 DEF CalmInv
        <4>2. CASE k = Len(sq) + 1
          BY <1>4, <3>4, <4>2
        <4> QED
          BY <3>2, <3>4, <4>1, <4>2
      <3> QED
        BY <1>5, <1>7, <2>1, <3>1, <3>5, <3>6
    <2>2. CASE f # e
      BY <1>5, <1>7, <2>2 DEF CalmInv
    <2> QED
      BY <2>1, <2>2
  <1>13. next_message_id' \in [Peers -> Nat]
    BY <1>5, <1>6 DEF CalmInv
  <1> QED
    BY <1>1, <1>2, <1>3, <1>11, <1>12, <1>13 DEF CalmInv

LEMMA UpdateCalm ==
  ASSUME PacketEpoch, CalmInv, NEW e \in Peers, update(e)
  PROVE  CalmInv'
  <1>1. AcksInv'
    BY UpdateAcks DEF CalmInv
  <1>2. UNCHANGED <<packet_vars, visiting, panicked, messages_in_packets, next_message_id,
                    sent_frag_map, sends>>
    BY DEF update
  <1>3. Service!SentOrdered' /\ UNCHANGED sequence_id
    BY <1>2, OrderedIdle DEF CalmInv, packet_vars
  <1> QED
    BY <1>1, <1>2, <1>3 DEF CalmInv

\* The numbers go up when a packet is made, or not made.
LEMMA SequenceGrows ==
  ASSUME PacketEpoch, Service!ServiceInv, NEW e \in Peers,
         sequence_id[e] < MaxSeq, sequence_id' = [sequence_id EXCEPT ![e] = packet_id(e)]
  PROVE  /\ packet_id(e) = sequence_id[e] + 1 /\ packet_id(e) \in PacketIds
         /\ sequence_id'[e] = packet_id(e)
         /\ \A f \in Peers : f # e => sequence_id'[f] = sequence_id[f]
         /\ \A f \in Peers : sequence_id[f] \in Nat /\ sequence_id[f] <= sequence_id'[f]
  <1>1. sequence_id \in [Peers -> 0 .. MaxSeq]
    BY PacketView DEF PacketIds
  <1>2. packet_id(e) = sequence_id[e] + 1 /\ packet_id(e) \in 0 .. MaxSeq
    BY <1>1, RingFacts DEF packet_id, P!wrapping_add, PacketEpoch
  <1> QED
    BY <1>1, <1>2 DEF PacketIds

LEMMA SendNumber ==
  ASSUME NEW e, NEW type, NEW payload, P!SendPacket(e, type, payload)
  PROVE  sequence_id[e] < MaxSeq /\ sequence_id' = [sequence_id EXCEPT ![e] = packet_id(e)]
  <1>1. PICK p : p = P!next_packet_header(e, type, payload)
    OBVIOUS
  <1>2. p.id = packet_id(e)
    BY <1>1 DEF P!next_packet_header, packet_id
  <1> QED
    BY <1>1, <1>2, Zenon DEF P!SendPacket, P!may_send

LEMMA RefuseNumber ==
  ASSUME NEW e, NEW type, P!RefusePacket(e, type)
  PROVE  sequence_id[e] < MaxSeq /\ sequence_id' = [sequence_id EXCEPT ![e] = packet_id(e)]
  BY Zenon DEF P!RefusePacket, P!may_send, packet_id

\* A step that makes no message packet.
LEMMA QuietCalm ==
  ASSUME PacketEpoch, CalmInv, AcksInv', Service!SentOrdered', NEW e \in Peers,
         sequence_id[e] < MaxSeq, sequence_id' = [sequence_id EXCEPT ![e] = packet_id(e)],
         panicked' = panicked, visiting' \in [Peers -> BOOLEAN],
         UNCHANGED <<messages_in_packets, next_message_id, sent_frag_map, sends>>
  PROVE  CalmInv'
  <1>1. Service!ServiceInv /\ \A f \in Peers : messages_in_packets[f] \in HandleBuffers
    BY DEF CalmInv, AcksInv, HandlesKnown
  <1>2. ASSUME NEW f \in Peers PROVE messages_in_packets'[f].sequence <= sequence_id'[f]
    <2>1. messages_in_packets[f].sequence \in 0 .. MaxSeq
      BY <1>1 DEF HandleBuffers, HandleRing!BuffersOver, PacketIds
    <2>2. sequence_id[f] \in Nat /\ sequence_id[f] <= sequence_id'[f] /\ sequence_id'[f] \in Int
      <3>1. sequence_id[f] \in Nat /\ sequence_id[f] <= sequence_id'[f]
        BY <1>1, SequenceGrows
      <3>2. packet_id(e) \in Int /\ (f = e => sequence_id'[f] = packet_id(e))
            /\ (f # e => sequence_id'[f] = sequence_id[f])
        BY <1>1, SequenceGrows, RingFacts
      <3> QED
        BY <3>1, <3>2
    <2>3. messages_in_packets[f].sequence <= sequence_id[f] /\ messages_in_packets' = messages_in_packets
      BY DEF CalmInv
    <2> QED
      BY <2>1, <2>2, <2>3
  <1> QED
    BY <1>2 DEF CalmInv

LEMMA KeepaliveCalm ==
  ASSUME PacketEpoch, CalmInv, NEW e \in Peers, "KeepAlive" \in PacketTypes, send_keepalive(e)
  PROVE  CalmInv'
  <1>1. AcksInv' /\ AcksInv /\ Service!ServiceInv /\ Service!SentOrdered
    BY KeepaliveAcks DEF CalmInv, AcksInv
  <1>2. /\ UNCHANGED <<messages_in_packets, next_message_id, sent_frag_map, sends>>
        /\ visiting' = visiting /\ panicked' = panicked
    BY DEF send_keepalive, sender_vars
  <1>3. visiting' \in [Peers -> BOOLEAN]
    BY <1>2 DEF CalmInv
  <1>4. CASE P!SendPacket(e, "KeepAlive", {})
    BY <1>1, <1>2, <1>3, <1>4, OrderedSend, SendNumber, QuietCalm
  <1>5. CASE P!RefusePacket(e, "KeepAlive")
    BY <1>1, <1>2, <1>3, <1>5, OrderedRefuse, RefuseNumber, QuietCalm
  <1> QED
    BY <1>4, <1>5 DEF send_keepalive

\* Backpressure, and nothing else, ends a visit early.
LEMMA RefusedCalm ==
  ASSUME PacketEpoch, CalmInv, NEW e \in Peers, compose_refused(e)
  PROVE  CalmInv'
  <1>1. AcksInv' /\ AcksInv /\ Service!ServiceInv /\ Service!SentOrdered
    BY RefusedAcks DEF CalmInv, AcksInv
  <1>2. /\ UNCHANGED <<messages_in_packets, next_message_id, sent_frag_map, sends>>
        /\ P!RefusePacket(e, "Messages")
    BY DEF compose_refused, sender_vars
  <1>3. sequence_id[e] < MaxSeq /\ sequence_id' = [sequence_id EXCEPT ![e] = packet_id(e)]
    BY <1>2, RefuseNumber
  <1>4. ~ P!record_refused(e)
    BY <1>1, <1>3, RecordTaken
  <1>5. P!header_refused(e)
    BY <1>2, <1>4 DEF P!RefusePacket
  <1>6. panicked' = panicked
    <2>1. (~ P!header_refused(e)) = FALSE
      BY <1>5
    <2>2. panicked' = [panicked EXCEPT ![e] = FALSE]
      BY <2>1, Zenon DEF compose_refused
    <2>3. panicked \in [Peers -> {FALSE}]
      BY DEF CalmInv
    <2> QED
      BY <2>2, <2>3
  <1>7. visiting' \in [Peers -> BOOLEAN]
    <2>1. visiting' = [visiting EXCEPT ![e] = FALSE] /\ visiting \in [Peers -> BOOLEAN]
      BY DEF compose_refused, CalmInv
    <2> QED
      BY <2>1
  <1> QED
    BY <1>1, <1>2, <1>3, <1>6, <1>7, OrderedRefuse, QuietCalm

\* A message packet, whose handles are recorded.
LEMMA ComposeIs ==
  ASSUME PacketEpoch, CalmInv, NEW e \in Peers, NEW batch \in SUBSET ready(q[e]),
         compose_packets(e, batch)
  PROVE  /\ P!SendPacket(e, "Messages", {on_wire(m) : m \in batch})
         /\ messages_in_packets' = [messages_in_packets EXCEPT ![e] =
              Handles!insert(messages_in_packets[e], packet_id(e), {handle(m) : m \in batch})]
         /\ panicked' = [panicked EXCEPT ![e] = FALSE]
         /\ messages_in_packets[e] \in HandleBuffers
         /\ packet_id(e) \in PacketIds /\ messages_in_packets[e].sequence <= packet_id(e)
         /\ {handle(m) : m \in batch} \in SUBSET {handle(m) : m \in Parts}
  <1>1. MessageInv /\ Service!ServiceInv /\ messages_in_packets[e] \in HandleBuffers
    BY DEF CalmInv, AcksInv, HandlesKnown
  <1>2. P!SendPacket(e, "Messages", {on_wire(m) : m \in batch})
    BY Zenon DEF compose_packets
  <1>3. /\ packet_id(e) = sequence_id[e] + 1 /\ packet_id(e) \in PacketIds
        /\ sequence_id[e] \in Nat
    BY <1>1, <1>2, SendNumber, SequenceGrows
  <1>4. messages_in_packets[e].sequence <= packet_id(e)
    <2>1. messages_in_packets[e].sequence \in 0 .. MaxSeq
      BY <1>1 DEF HandleBuffers, HandleRing!BuffersOver, PacketIds
    <2>2. messages_in_packets[e].sequence <= sequence_id[e]
      BY DEF CalmInv
    <2> QED
      BY <1>3, <2>1, <2>2
  <1>5. ~ Handles!insert_too_old(messages_in_packets[e], packet_id(e))
    BY <1>1, <1>3, <1>4, HandlesTakeNext
  <1>6. Handles!insert_too_old(messages_in_packets[e], packet_id(e)) = FALSE
    BY <1>5 DEF Handles!insert_too_old, Handles!sequence_less_than, Handles!sequence_greater_than
  <1>7. messages_in_packets' = [messages_in_packets EXCEPT ![e] =
          Handles!insert(messages_in_packets[e], packet_id(e), {handle(m) : m \in batch})]
    BY <1>5, Zenon DEF compose_packets
  <1>8. panicked' = [panicked EXCEPT ![e] = FALSE]
    BY <1>6, Zenon DEF compose_packets
  <1>9. {handle(m) : m \in batch} \in SUBSET {handle(m) : m \in Parts}
    <2> SUFFICES ASSUME NEW b \in batch PROVE handle(b) \in {handle(m) : m \in Parts}
      OBVIOUS
    <2>1. b \in q[e] /\ CallList(sends[e]) /\ Queue(sends[e], q[e])
      BY <1>1 DEF ready, MessageInv, Sender
    <2>2. IsPart(sends[e], on_wire(b))
      BY <2>1, QueuedIsPart DEF Queue
    <2>3. on_wire(b) \in Parts /\ handle(on_wire(b)) = handle(b)
      BY <2>1, <2>2, PartInParts, HandleOnWire
    <2> QED
      BY <2>3
  <1> QED
    BY <1>1, <1>2, <1>3, <1>4, <1>7, <1>8, <1>9

LEMMA ComposeCalm ==
  ASSUME PacketEpoch, CalmInv, NEW e \in Peers, NEW batch \in SUBSET ready(q[e]),
         compose_packets(e, batch)
  PROVE  CalmInv'
  <1>1. AcksInv' /\ AcksInv /\ Service!ServiceInv /\ Service!SentOrdered
    BY ComposeAcks DEF CalmInv, AcksInv
  <1>2. PICK hs, new : /\ hs = {handle(m) : m \in batch}
                       /\ new = Handles!insert(messages_in_packets[e], packet_id(e), hs)
    OBVIOUS
  <1>3. /\ P!SendPacket(e, "Messages", {on_wire(m) : m \in batch})
        /\ messages_in_packets' = [messages_in_packets EXCEPT ![e] = new]
        /\ panicked' = [panicked EXCEPT ![e] = FALSE]
        /\ messages_in_packets[e] \in HandleBuffers
        /\ packet_id(e) \in PacketIds /\ messages_in_packets[e].sequence <= packet_id(e)
        /\ hs \in SUBSET {handle(m) : m \in Parts}
    BY <1>2, ComposeIs
  <1>4. new.sequence = packet_id(e)
    BY <1>2, <1>3, HandlesNext
  <1>5. /\ sequence_id'[e] = packet_id(e) /\ packet_id(e) \in Int
        /\ \A f \in Peers : f # e => sequence_id'[f] = sequence_id[f]
    BY <1>1, <1>3, SendNumber, SequenceGrows, RingFacts
  <1>6. Service!SentOrdered'
    BY <1>1, <1>3, OrderedSend
  <1>7. DOMAIN messages_in_packets = Peers
    BY <1>1 DEF AcksInv, AckTables
  <1>8. \A f \in Peers : messages_in_packets'[f].sequence <= sequence_id'[f]
    BY <1>3, <1>4, <1>5, <1>7 DEF CalmInv
  <1>9. panicked' \in [Peers -> {FALSE}]
    BY <1>3 DEF CalmInv
  <1>10. visiting' \in [Peers -> BOOLEAN]
    <2>1. \E b \in BOOLEAN : visiting' = [visiting EXCEPT ![e] = b]
      BY Zenon DEF compose_packets
    <2> QED
      BY <2>1 DEF CalmInv
  <1>11. UNCHANGED <<next_message_id, sent_frag_map, sends>>
    BY Zenon DEF compose_packets
  <1> QED
    BY <1>1, <1>6, <1>8, <1>9, <1>10, <1>11 DEF CalmInv

LEMMA QueuedWhole ==
  ASSUME NEW sq, CallList(sq), NEW k \in 1 .. Len(sq), NEW i \in PartsOf(sq, k), NEW age,
         NEW m, m = queued(sq, k, i, age)
  PROVE  m.fragment = NoFrag <=> sq[k].parts = 1
  <1>1. PICK w : w = part_of(sq, k, i)
    OBVIOUS
  <1>2. /\ w.id = sq[k].id + i /\ w.channel = sq[k].channel
        /\ w.body = [msg |-> k, part |-> i]
        /\ w.fragment = NoFrag <=> sq[k].parts = 1
        /\ w.fragment # NoFrag => w.fragment.parent_id = sq[k].id
    BY <1>1, PartFields
  <1>3. m.fragment = w.fragment
    BY <1>1 DEF queued, part_of
  <1> QED
    BY <1>2, <1>3

\* An ack finds its message as it was sent.
LEMMA NotConfused ==
  ASSUME NEW sq, CallList(sq), NEW seen, NEW m, IsQueued(sq, m), NEW h, TakenHandle(sq, seen, h)
  PROVE  ~ confused(m, h)
  <1> SUFFICES ASSUME m.id = h.id, m.fragment = NoFrag, h.fragment # NoFrag PROVE FALSE
    BY DEF confused
  <1>1. PICK k \in 1 .. Len(sq) : \E i \in PartsOf(sq, k) : \E age \in 0 .. ResendTicks :
          m = queued(sq, k, i, age)
    BY DEF IsQueued
  <1>2. PICK i \in PartsOf(sq, k) : \E age \in 0 .. ResendTicks : m = queued(sq, k, i, age)
    BY <1>1
  <1>3. PICK age \in 0 .. ResendTicks : m = queued(sq, k, i, age)
    BY <1>2
  <1>4. m.id = sq[k].id + i /\ m.fragment = part_of(sq, k, i).fragment
    BY <1>3 DEF queued, part_of
  <1>5. sq[k].parts = 1
    <2>1. m.fragment = NoFrag <=> sq[k].parts = 1
      BY <1>3, QueuedWhole
    <2> QED
      BY <2>1
  <1>6. PICK l \in 1 .. Len(sq) : \E j \in PartsOf(sq, l) : h = handle(part_of(sq, l, j))
    BY DEF TakenHandle
  <1>7. PICK j \in PartsOf(sq, l) : h = handle(part_of(sq, l, j))
    BY <1>6
  <1>8. h.id = sq[l].id + j /\ sq[l].parts # 1
    BY <1>7, HandleFields
  <1>9. k = l
    BY <1>4, <1>8, UniqueId
  <1> QED
    BY <1>5, <1>8, <1>9

\* A parent that is found has a place.
LEMMA CompletedFits ==
  ASSUME Epoch, FragEpoch, NEW sq, CallList(sq), NEW seen, NEW map, FragsKnown(sq, seen, map),
         NEW next, FragsOrdered(next, map),
         NEW handles, \A h \in handles : TakenHandle(sq, seen, h),
         NEW t \in completed(map, handles)
  PROVE  ~ Frags!insert_too_old(map, t)
  <1>1. t \in awaited(map, handles)
    BY DEF completed
  <1>2. Frags!exists(map, t)
    BY <1>1 DEF awaited
  <1>3. PICK k \in 1 .. Len(sq) : sq[k].id = t
    BY <1>1, AwaitedCall
  <1>4. t \in Ids
    BY <1>3, CallFacts
  <1>5. PICK i : i = t % FragSize
    OBVIOUS
  <1>6. i \in 0 .. FragSize - 1 /\ t # SeqMod
    BY <1>4, <1>5, RingFacts, IdFacts DEF Ids, Epoch
  <1>7. map.tag[i] = t
    BY <1>2, <1>5, FragRingIs DEF Frags!exists
  <1>8. t + FragSize > map.sequence
    BY <1>6, <1>7, FragRingIs DEF FragsOrdered, FragRing!InWindow
  <1>9. map \in FragBuffers /\ map.sequence \in Ids
    BY DEF FragsKnown, FragBuffers, FragRing!BuffersOver
  <1>10. t + FragSize >= map.sequence
    BY <1>4, <1>8, <1>9, RingFacts, IdFacts DEF Ids
  <1> QED
    BY <1>4, <1>9, <1>10, FragsTakeNext

\* Neither table moves when an ack is applied.
LEMMA AckedTables ==
  ASSUME NEW map \in FragBuffers, NEW handles, NEW buf \in HandleBuffers, NEW slots
  PROVE  /\ ack_fragments(map, handles).sequence = map.sequence
         /\ ack_fragments(map, handles).tag = map.tag
         /\ Handles!clear(buf, slots).sequence = buf.sequence
  <1>1. PICK entry : entry = [i \in DOMAIN map.entry |->
          IF map.tag[i] \in completed(map, handles) THEN [status |-> "Complete", remaining |-> {}]
          ELSE IF map.tag[i] \in awaited(map, handles)
          THEN [status |-> "Partial", remaining |-> still_remaining(map, map.tag[i], handles)]
          ELSE map.entry[i]]
    OBVIOUS
  <1>2. ack_fragments(map, handles) = [map EXCEPT !.entry = entry]
    BY <1>1 DEF ack_fragments
  <1>3. [map EXCEPT !.entry = entry].sequence = map.sequence
        /\ [map EXCEPT !.entry = entry].tag = map.tag
    BY DEF FragBuffers, FragRing!BuffersOver
  <1>4. PICK T : T = SUBSET {handle(m) : m \in Parts}
    OBVIOUS
  <1>5. buf \in HandleRing!BuffersOver(PacketIds, T) /\ {} \in T
    BY <1>4 DEF HandleBuffers
  <1>6. HandleRing!clear(buf, slots).sequence = buf.sequence
    BY <1>5, RingFacts, HandleRing!ClearSlots
  <1> QED
    BY <1>2, <1>3, <1>6, HandleRingIs

LEMMA ReceiveCalm ==
  ASSUME Epoch, PacketEpoch, FragEpoch, CalmInv, NEW e \in Peers, NEW p \in net, receive(e, p)
  PROVE  CalmInv'
  <1>1. AcksInv' /\ AcksInv /\ MessageInv /\ Service!ServiceInv /\ Service!SentOrdered
    BY ReceiveAcks DEF CalmInv, AcksInv
  <1>2. PICK fresh, handles : /\ fresh = P!newly_acked(e, p.acks)
                              /\ handles = handles_acked(messages_in_packets[e], fresh)
    OBVIOUS
  <1>3. /\ P!process_incoming_packet(e, p) /\ acked_packets(e, fresh)
        /\ UNCHANGED <<next_message_id, sends, visiting>>
    BY <1>2, Zenon DEF receive
  <1>4. sequence_id' = sequence_id /\ p.src = other(e)
    BY <1>3, Zenon DEF P!process_incoming_packet, other
  <1>5. fresh \in SUBSET received[other(e)]
    <2>1. fresh \subseteq p.acks
      BY <1>2 DEF P!newly_acked
    <2> QED
      BY <1>1, <1>4, <2>1, PacketView
  <1>6. PICK sq, seen, map, buf : /\ sq = sends[e] /\ seen = seen_buf[other(e)]
                                  /\ map = sent_frag_map[e] /\ buf = messages_in_packets[e]
    OBVIOUS
  <1>7. \A h \in handles : TakenHandle(sq, seen, h)
    BY <1>1, <1>2, <1>5, <1>6, HandlesTaken
  <1>8. /\ CallList(sq) /\ Queue(sq, q[e]) /\ FragsKnown(sq, seen, map)
        /\ map \in FragBuffers /\ buf \in HandleBuffers
        /\ FragsOrdered(next_message_id[e], map) /\ buf.sequence <= sequence_id[e]
    BY <1>1, <1>6 DEF AcksInv, MessageInv, Sender, FragsKnown, HandlesKnown, CalmInv
  <1>9. ~ ack_panics(e, fresh)
    <2>1. \A m \in q[e], h \in handles : ~ confused(m, h)
      BY <1>7, <1>8, NotConfused DEF Queue
    <2>2. \A t \in completed(map, handles) : ~ Frags!insert_too_old(map, t)
      BY <1>7, <1>8, CompletedFits
    <2> QED
      BY <1>2, <1>6, <2>1, <2>2 DEF ack_panics
  <1>10. panicked' \in [Peers -> {FALSE}]
    <2>1. panicked' = [panicked EXCEPT ![e] = FALSE]
      BY <1>1, <1>2, <1>9, ReceiveIs
    <2> QED
      BY <2>1 DEF CalmInv
  <1>11. PICK map2, buf2 : /\ map2 = ack_fragments(map, handles)
                           /\ buf2 = Handles!clear(buf, {Handles!index(s) : s \in fresh})
    OBVIOUS
  <1>12. /\ messages_in_packets' = [messages_in_packets EXCEPT ![e] = buf2]
         /\ sent_frag_map' = [sent_frag_map EXCEPT ![e] = map2]
    BY <1>2, <1>3, <1>6, <1>11, Zenon DEF acked_packets
  <1>13. map2.sequence = map.sequence /\ map2.tag = map.tag /\ buf2.sequence = buf.sequence
    BY <1>8, <1>11, AckedTables
  <1>14. FragsOrdered(next_message_id[e], map2)
    BY <1>8, <1>13 DEF FragsOrdered, FragRing!InWindow
  <1>15. DOMAIN messages_in_packets = Peers /\ DOMAIN sent_frag_map = Peers
    BY <1>1 DEF AcksInv, AckTables
  <1>16. ASSUME NEW f \in Peers
         PROVE  /\ messages_in_packets'[f].sequence <= sequence_id'[f]
                /\ FragsOrdered(next_message_id'[f], sent_frag_map'[f])
    <2>1. CASE f = e
      BY <1>3, <1>4, <1>8, <1>12, <1>13, <1>14, <1>15, <2>1
    <2>2. CASE f # e
      BY <1>3, <1>4, <1>12, <1>15, <2>2 DEF CalmInv
    <2> QED
      BY <2>1, <2>2
  <1>17. Service!SentOrdered'
    BY <1>1, <1>3, OrderedReceive
  <1> QED
    BY <1>1, <1>3, <1>10, <1>16, <1>17 DEF CalmInv

LEMMA NextCalm ==
  ASSUME Epoch, PacketEpoch, FragEpoch, CalmInv, [Next]_vars
  PROVE  CalmInv'
  <1>1. CASE UNCHANGED vars
    <2>1. UNCHANGED <<packet_vars, sender_vars, visiting, panicked>>
      BY <1>1 DEF vars
    <2>2. AcksInv'
      BY <1>1, NextAcks DEF CalmInv
    <2>3. Service!SentOrdered' /\ UNCHANGED sequence_id
      BY <2>1, OrderedIdle DEF CalmInv, packet_vars
    <2> QED
      BY <2>1, <2>2, <2>3 DEF CalmInv, sender_vars
  <1>2. ASSUME NEW e \in Peers, calls < Len(Workload),
               send_message(e, Workload[calls + 1][2], Workload[calls + 1][3])
        PROVE  CalmInv'
    <2>1. MessageInv
      BY DEF CalmInv, AcksInv
    <2> QED
      BY <1>2, <2>1, CallsLeft, SendMessageCalm
  <1>3. ASSUME NEW e \in Peers, update(e) PROVE CalmInv'
    BY <1>3, UpdateCalm
  <1>4. ASSUME NEW e \in Peers, NEW batch \in SUBSET ready(q[e]), compose_packets(e, batch)
        PROVE  CalmInv'
    BY <1>4, ComposeCalm
  <1>5. ASSUME NEW e \in Peers, compose_refused(e) PROVE CalmInv'
    BY <1>5, RefusedCalm
  <1>6. ASSUME NEW e \in Peers, "KeepAlive" \in PacketTypes, send_keepalive(e) PROVE CalmInv'
    BY <1>6, KeepaliveCalm
  <1>7. ASSUME NEW e \in Peers, NEW p \in net, receive(e, p) PROVE CalmInv'
    BY <1>7, ReceiveCalm
  <1> QED
    BY <1>1, <1>2, <1>3, <1>4, <1>5, <1>6, <1>7 DEF Next

\* CalmInv is inductive: within an epoch the tables behind acks and fragments
\* are never behind what is looked up in them.
THEOREM CalmInvariant ==
  ASSUME Epoch, PacketEpoch, FragEpoch
  PROVE  Spec => []CalmInv
  <1>1. Init => CalmInv
    BY InitCalm
  <1>2. CalmInv /\ [Next]_vars => CalmInv'
    BY NextCalm
  <1> QED
    BY <1>1, <1>2, PTL DEF Spec

\* No assert, unwrap or panic! of the message layer is reached: those of
\* visit_packets_to_send, dismissed_by_ack, acked_packet and add_fragment.
THEOREM NothingPanics ==
  ASSUME Epoch, PacketEpoch, FragEpoch
  PROVE  Spec => []NeverPanics
  <1>1. CalmInv => NeverPanics
    BY DEF CalmInv, NeverPanics
  <1> QED
    BY <1>1, CalmInvariant, PTL

-----------------------------------------------------------------------------
(* When send_message fails *)

\* The k-th call is half the number space, less the slots of sent_frag_map, after
\* the first id and after every fragmented call that succeeded before.
Late(sq, k) ==
  /\ sq[k].id + FragSize >= SeqMod \div 2
  /\ \A j \in 1 .. k - 1 :
       sq[j].ok /\ sq[j].parts > 1 => sq[k].id - sq[j].id + FragSize >= SeqMod \div 2

\* sent_frag_map has followed every fragmented call that succeeded, and is not
\* ahead of the ids used.
Registered(sq, next, map) ==
  /\ map.sequence <= next
  /\ \A k \in 1 .. Len(sq) : sq[k].ok /\ sq[k].parts > 1 => sq[k].id <= map.sequence
  /\ \A k \in 1 .. Len(sq) : ~ sq[k].ok => Late(sq, k)

RefusalInv ==
  /\ AcksInv
  /\ \A e \in Peers : Registered(sends[e], next_message_id[e], sent_frag_map[e])

\* An id ahead of sent_frag_map is refused only if half the numbers lie between
\* it and the window.
LEMMA TooOldIsFar ==
  ASSUME NEW map, map.sequence \in Nat, NEW s \in Nat, map.sequence <= s,
         Frags!insert_too_old(map, s)
  PROVE  s - map.sequence + FragSize >= SeqMod \div 2
  BY RingFacts, IdFacts
     DEF Frags!insert_too_old, Frags!window_start, Frags!wrapping_sub,
         Frags!sequence_less_than, Frags!sequence_greater_than, Frags!Half

\* An id that is inserted becomes the greatest.
LEMMA FragsFollow ==
  ASSUME Epoch, NEW map \in FragBuffers, NEW s \in Ids, map.sequence <= s,
         NEW x \in FragStatuses, NEW new, new = Frags!insert(map, s, x)
  PROVE  new.sequence = s
  <1>1. /\ map \in FragRing!BuffersOver(Ids, FragStatuses)
        /\ [status |-> "Unknown", remaining |-> {}] \in FragStatuses
        /\ new = FragRing!insert(map, s, x)
    BY FragRingIs DEF FragBuffers, FragStatuses
  <1>2. new.sequence = IF FragRing!sequence_greater_than(s, map.sequence) THEN s ELSE map.sequence
    BY <1>1, RingFacts, IdFacts, FragRing!InsertSlots
  <1>3. map.sequence \in 0 .. MaxId /\ s \in 0 .. MaxId
    BY <1>1 DEF FragRing!BuffersOver, Ids
  <1>4. MaxId < FragRing!Half
    BY IdFacts DEF Epoch, FragRing!Half
  <1>5. FragRing!sequence_greater_than(s, map.sequence) <=> s > map.sequence
    BY <1>3, <1>4, RingFacts, IdFacts, FragRing!EpochGreater
  <1> QED
    BY <1>2, <1>3, <1>5, IdFacts

\* One more call, refused, accepted with an entry of its own, or unfragmented.
LEMMA CallRegistered ==
  ASSUME NEW sq, sq \in Seq(Calls), NEW next \in Ids, NEW map, map.sequence \in Nat,
         NEW map2, map2.sequence \in Nat, Registered(sq, next, map),
         NEW c \in Channels, NEW n \in 1 .. MaxParts, NEW ok \in BOOLEAN,
         NEW sq2, sq2 = Append(sq, [id |-> next, channel |-> c, parts |-> n, ok |-> ok]),
         map.sequence <= map2.sequence, map2.sequence <= next,
         ok /\ n > 1 => map2.sequence = next,
         ~ ok => next - map.sequence + FragSize >= SeqMod \div 2
  PROVE  Registered(sq2, next + n, map2)
  <1>1. PICK call : call = [id |-> next, channel |-> c, parts |-> n, ok |-> ok]
    OBVIOUS
  <1>2. call \in Calls /\ call.id = next /\ call.parts = n /\ call.ok = ok
    BY <1>1 DEF Calls
  <1>3. /\ Len(sq) \in Nat /\ Len(sq2) = Len(sq) + 1 /\ sq2[Len(sq) + 1] = call
        /\ \A k \in 1 .. Len(sq) : sq2[k] = sq[k] /\ sq[k] \in Calls
    BY <1>1, <1>2
  <1>4. next \in Nat /\ n \in Nat /\ FragSize \in Nat /\ SeqMod \div 2 \in Nat
    BY RingFacts, IdFacts DEF Ids
  <1>5. map2.sequence <= next + n
    BY <1>4
  <1>6. ASSUME NEW k \in 1 .. Len(sq2), sq2[k].ok, sq2[k].parts > 1
        PROVE  sq2[k].id <= map2.sequence
    <2>1. CASE k \in 1 .. Len(sq)
      <3>1. sq[k].id <= map.sequence /\ sq[k].id \in Nat
        BY <1>3, <1>6, <2>1, IdFacts DEF Registered, Calls, Ids
      <3> QED
        BY <1>3, <2>1, <3>1
    <2>2. CASE k = Len(sq) + 1
      BY <1>2, <1>3, <1>4, <1>6, <2>2
    <2> QED
      BY <1>3, <2>1, <2>2
  <1>7. ASSUME NEW k \in 1 .. Len(sq2), ~ sq2[k].ok
        PROVE  Late(sq2, k)
    <2>1. CASE k \in 1 .. Len(sq)
      <3>1. Late(sq, k)
        BY <1>3, <1>7, <2>1 DEF Registered
      <3>2. \A j \in 1 .. k - 1 : sq2[j] = sq[j]
        BY <1>3, <2>1
      <3> QED
        BY <1>3, <2>1, <3>1, <3>2 DEF Late
    <2>2. CASE k = Len(sq) + 1
      <3>1. next - map.sequence + FragSize >= SeqMod \div 2
        BY <1>2, <1>3, <1>7, <2>2
      <3>2. next + FragSize >= SeqMod \div 2
        BY <1>4, <3>1
      <3>3. ASSUME NEW j \in 1 .. k - 1, sq2[j].ok, sq2[j].parts > 1
            PROVE  next - sq2[j].id + FragSize >= SeqMod \div 2
        <4>1. j \in 1 .. Len(sq) /\ sq2[j] = sq[j]
          BY <1>3, <2>2
        <4>2. sq[j].id <= map.sequence /\ sq[j].id \in Nat
          BY <1>3, <3>3, <4>1, IdFacts DEF Registered, Calls, Ids
        <4> QED
          BY <1>4, <3>1, <4>1, <4>2
      <3> QED
        BY <1>2, <1>3, <2>2, <3>2, <3>3 DEF Late
    <2> QED
      BY <1>3, <2>1, <2>2
  <1> QED
    BY <1>5, <1>6, <1>7 DEF Registered

LEMMA SendMessageRefused ==
  ASSUME Epoch, PacketEpoch, RefusalInv, NEW e \in Peers, NEW c \in Channels,
         NEW n \in 1 .. MaxParts, Len(sends[e]) < Len(Workload), send_message(e, c, n)
  PROVE  RefusalInv'
  <1>1. AcksInv /\ AcksInv' /\ MessageInv
    BY SendMessageAcks DEF RefusalInv, AcksInv
  <1>2. PICK ok \in BOOLEAN : ok = (n = 1 \/ ~ parent_refused(e))
    BY Zenon
  <1>3. PICK sq, next, map, x, sq2 :
          /\ sq = sends[e] /\ next = next_message_id[e] /\ map = sent_frag_map[e]
          /\ x = [status |-> "Partial", remaining |-> {m.id : m \in enqueued(e, c, n)}]
          /\ sq2 = Append(sq, [id |-> next, channel |-> c, parts |-> n, ok |-> ok])
    OBVIOUS
  <1>4. /\ sends' = [sends EXCEPT ![e] = sq2]
        /\ \/ sent_frag_map' = sent_frag_map /\ (n = 1 \/ ~ ok)
           \/ sent_frag_map' = [sent_frag_map EXCEPT ![e] = Frags!insert(map, next, x)] /\ ok
    BY <1>2, <1>3, Zenon DEF send_message
  <1>5. /\ next \in Nat /\ next <= MaxParts * Len(sq) /\ Len(sq) \in Nat /\ sq \in Seq(Calls)
        /\ DOMAIN sends = Peers /\ DOMAIN next_message_id = Peers /\ DOMAIN sent_frag_map = Peers
    BY <1>1, <1>3 DEF AcksInv, AckTables, MessageInv, Tables, Sender, CallList
  <1>6. n \in Nat /\ next + n <= MaxId /\ next \in Ids
    <2>1. next + n <= MaxId
      BY <1>3, <1>5, MoreIds
    <2> QED
      BY <1>5, <2>1, IdFacts DEF Ids
  <1>7. next_message_id' = [next_message_id EXCEPT ![e] = next + n]
    BY <1>3, <1>5, <1>6, NoWrap DEF send_message
  <1>8. map \in FragBuffers /\ map.sequence \in Ids /\ Registered(sq, next, map)
    <2>1. map \in FragBuffers /\ Registered(sq, next, map)
      BY <1>1, <1>3 DEF AcksInv, FragsKnown, RefusalInv
    <2> QED
      BY <2>1 DEF FragBuffers, FragRing!BuffersOver
  <1>9. map.sequence \in Nat /\ map.sequence <= next
    BY <1>8, IdFacts DEF Ids, Registered
  <1>10. x \in FragStatuses
    <2>1. PICK sq3 :
            /\ MakesCall(sends[e], next_message_id[e], q[e], c, n, sq3)
            /\ enqueued(e, c, n) = enqueued_parts(sq3, Len(sq3), n)
      BY <1>1, SendMessageIs
    <2>2. CallList(sq3) /\ Len(sq3) = Len(sends[e]) + 1 /\ sq3[Len(sq3)].parts = n
      BY <2>1, CallMade
    <2>3. Len(sq3) \in 1 .. Len(sq3)
      BY <1>3, <1>5, <2>2
    <2>4. {m.id : m \in enqueued(e, c, n)} \in SUBSET Ids
      BY <2>1, <2>2, <2>3, EnqueuedIds
    <2> QED
      BY <1>3, <2>4 DEF FragStatuses
  <1>11. PICK map2 : map2 = sent_frag_map'[e]
    OBVIOUS
  <1>12. \/ map2 = map /\ (n = 1 \/ ~ ok)
         \/ map2.sequence = next /\ ok
    <2>1. Frags!insert(map, next, x).sequence = next
      BY <1>6, <1>8, <1>9, <1>10, FragsFollow
    <2> QED
      BY <1>3, <1>4, <1>5, <1>11, <2>1
  <1>13. ~ ok => next - map.sequence + FragSize >= SeqMod \div 2
    <2>1. ASSUME ~ ok PROVE Frags!insert_too_old(map, next)
      BY <1>2, <1>3, <2>1 DEF parent_refused
    <2> QED
      BY <1>5, <1>9, <2>1, TooOldIsFar
  <1>14. Registered(sq2, next + n, map2)
    <2>1. /\ map2.sequence \in Nat /\ map.sequence <= map2.sequence /\ map2.sequence <= next
          /\ (ok /\ n > 1 => map2.sequence = next)
      BY <1>5, <1>6, <1>9, <1>12
    <2> QED
      BY <1>3, <1>5, <1>6, <1>8, <1>9, <1>13, <2>1, CallRegistered
  <1>15. ASSUME NEW f \in Peers
         PROVE  Registered(sends'[f], next_message_id'[f], sent_frag_map'[f])
    <2>1. CASE f = e
      BY <1>4, <1>5, <1>7, <1>11, <1>14, <2>1
    <2>2. CASE f # e
      BY <1>4, <1>5, <1>7, <2>2 DEF RefusalInv
    <2> QED
      BY <2>1, <2>2
  <1> QED
    BY <1>1, <1>15 DEF RefusalInv

LEMMA ReceiveRefused ==
  ASSUME Epoch, PacketEpoch, RefusalInv, AcksInv', NEW e \in Peers, NEW p \in net, receive(e, p)
  PROVE  RefusalInv'
  <1>1. PICK map, buf, fresh, handles :
          /\ map = sent_frag_map[e] /\ buf = messages_in_packets[e]
          /\ fresh = P!newly_acked(e, p.acks) /\ handles = handles_acked(buf, fresh)
    OBVIOUS
  <1>2. acked_packets(e, fresh) /\ UNCHANGED <<next_message_id, sends>>
    BY <1>1, Zenon DEF receive
  <1>3. sent_frag_map' = [sent_frag_map EXCEPT ![e] = ack_fragments(map, handles)]
    BY <1>1, <1>2, Zenon DEF acked_packets
  <1>4. map \in FragBuffers /\ buf \in HandleBuffers /\ DOMAIN sent_frag_map = Peers
    BY <1>1 DEF RefusalInv, AcksInv, FragsKnown, HandlesKnown, AckTables
  <1>5. ack_fragments(map, handles).sequence = map.sequence
    BY <1>4, AckedTables
  <1>6. \A f \in Peers : sent_frag_map'[f].sequence = sent_frag_map[f].sequence
    BY <1>1, <1>3, <1>4, <1>5
  <1> QED
    BY <1>2, <1>6 DEF RefusalInv, Registered

LEMMA NextRefused ==
  ASSUME Epoch, PacketEpoch, RefusalInv, [Next]_vars
  PROVE  RefusalInv'
  <1>1. AcksInv'
    BY NextAcks DEF RefusalInv
  <1>2. ASSUME UNCHANGED <<sends, next_message_id, sent_frag_map>>
        PROVE  RefusalInv'
    BY <1>1, <1>2 DEF RefusalInv
  <1>3. ASSUME NEW e \in Peers, calls < Len(Workload),
               send_message(e, Workload[calls + 1][2], Workload[calls + 1][3])
        PROVE  RefusalInv'
    <2>1. MessageInv
      BY DEF RefusalInv, AcksInv
    <2> QED
      BY <1>3, <2>1, CallsLeft, SendMessageRefused
  <1>4. ASSUME NEW e \in Peers, update(e) PROVE RefusalInv'
    BY <1>2, <1>4, Zenon DEF update
  <1>5. ASSUME NEW e \in Peers, NEW batch \in SUBSET ready(q[e]), compose_packets(e, batch)
        PROVE  RefusalInv'
    BY <1>2, <1>5, Zenon DEF compose_packets
  <1>6. ASSUME NEW e \in Peers, compose_refused(e) PROVE RefusalInv'
    <2>1. UNCHANGED sender_vars
      BY <1>6, Zenon DEF compose_refused
    <2> QED
      BY <1>2, <2>1 DEF sender_vars
  <1>7. ASSUME NEW e \in Peers, send_keepalive(e) PROVE RefusalInv'
    <2>1. UNCHANGED sender_vars
      BY <1>7, Zenon DEF send_keepalive
    <2> QED
      BY <1>2, <2>1 DEF sender_vars
  <1>8. ASSUME NEW e \in Peers, NEW p \in net, receive(e, p) PROVE RefusalInv'
    BY <1>1, <1>8, ReceiveRefused
  <1>9. CASE UNCHANGED vars
    BY <1>2, <1>9 DEF vars, sender_vars
  <1> QED
    BY <1>3, <1>4, <1>5, <1>6, <1>7, <1>8, <1>9 DEF Next

\* send_message fails, with its fragments in the channel already, only when the
\* ids used since the newest entry of sent_frag_map and the slots of that reach half
\* the number space, for every workload and size of sent_frag_map.
THEOREM RefusedOnlyLate ==
  ASSUME Epoch, PacketEpoch
  PROVE  Spec => []RefusedLate
  <1>1. Init => RefusalInv
    <2> SUFFICES ASSUME Init PROVE RefusalInv
      OBVIOUS
    <2>1. AcksInv
      BY InitAcks
    <2>2. ASSUME NEW e \in Peers
          PROVE  sent_frag_map[e] = Frags!with_capacity /\ sends[e] = << >> /\ next_message_id[e] = 0
      BY Zenon DEF Init
    <2>3. Frags!with_capacity.sequence = 0
      BY DEF Frags!with_capacity
    <2>4. \A e \in Peers : Len(sends[e]) = 0 /\ sent_frag_map[e].sequence <= next_message_id[e]
      BY <2>2, <2>3
    <2> QED
      BY <2>1, <2>4 DEF RefusalInv, Registered
  <1>2. RefusalInv /\ [Next]_vars => RefusalInv'
    BY NextRefused
  <1>3. RefusalInv => RefusedLate
    BY DEF RefusalInv, Registered, Late, RefusedLate
  <1> QED
    BY <1>1, <1>2, <1>3, PTL DEF Spec

-----------------------------------------------------------------------------
(* Types *)

\* What is queued has the types of a message.
LEMMA QueuedTypes ==
  ASSUME Epoch, NEW sq, CallList(sq), Len(sq) <= Len(Workload), NEW m, IsQueued(sq, m)
  PROVE  /\ m.id \in MessageIds /\ m.channel \in Channels /\ m.fragment \in Fragments
         /\ m.body \in Bodies /\ m.age \in 0 .. ResendTicks
  <1>1. PICK k \in 1 .. Len(sq) : \E i \in PartsOf(sq, k) : \E age \in 0 .. ResendTicks :
          m = queued(sq, k, i, age)
    BY DEF IsQueued
  <1>2. PICK i \in PartsOf(sq, k) : \E age \in 0 .. ResendTicks : m = queued(sq, k, i, age)
    BY <1>1
  <1>3. PICK age \in 0 .. ResendTicks : m = queued(sq, k, i, age)
    BY <1>2
  <1>4. /\ m.id = sq[k].id + i /\ m.channel = sq[k].channel
        /\ m.fragment = fragment_of(sq[k], i) /\ m.body = [msg |-> k, part |-> i]
        /\ m.age = age
    BY <1>3 DEF queued
  <1>5. /\ sq[k].id \in Ids /\ sq[k].channel \in Channels /\ sq[k].parts \in Nat
        /\ sq[k].parts >= 1 /\ sq[k].parts <= MaxParts
        /\ i \in Nat /\ sq[k].id + i \in Ids
    BY CallFacts
  <1>6. PICK s, n : s = sq[k].id /\ n = sq[k].parts
    OBVIOUS
  <1>7. s \in MessageIds /\ s + i \in MessageIds /\ i \in MessageIds
    BY <1>5, <1>6, IdFacts DEF Ids, MessageIds, Epoch
  <1>8. k \in 1 .. Len(Workload)
    <2>1. Len(sq) \in Nat
      BY DEF CallList
    <2> QED
      BY <2>1, IdFacts
  <1>9. m.fragment \in Fragments
    <2>1. CASE n = 1
      BY <1>4, <1>6, <2>1 DEF fragment_of, Fragments
    <2>2. CASE n # 1
      <3>1. n \in 2 .. MaxParts
        BY <1>5, <1>6, <2>2, IdFacts
      <3>2. m.fragment = [index |-> i, num_fragments |-> n, parent_id |-> s]
        BY <1>4, <1>6, <2>2 DEF fragment_of
      <3> QED
        BY <1>7, <3>1, <3>2 DEF Fragments
    <2> QED
      BY <2>1, <2>2
  <1>10. m.body \in Bodies
    BY <1>4, <1>7, <1>8 DEF Bodies, MessageIds
  <1> QED
    BY <1>4, <1>5, <1>6, <1>7, <1>9, <1>10

\* The types of the Rust fields, the queues' message ids and the keys of the
\* reassembler included.
THEOREM MessageTypes ==
  ASSUME Epoch, PacketEpoch, FragEpoch
  PROVE  Spec => []TypeOK
  <1>1. CalmInv => TypeOK
    <2> SUFFICES ASSUME CalmInv PROVE TypeOK
      OBVIOUS
    <2>1. MessageInv /\ AcksInv
      BY DEF CalmInv, AcksInv
    <2>2. next_message_id \in [Peers -> MessageIds]
      <3>1. ASSUME NEW e \in Peers PROVE next_message_id[e] \in MessageIds
        <4>1. PICK next, n : next = next_message_id[e] /\ n = Len(sends[e])
          OBVIOUS
        <4>2. next \in Nat /\ next <= MaxParts * n /\ n \in Nat /\ n <= Len(Workload)
          BY <2>1, <4>1 DEF MessageInv, Sender, CallList, CalmInv
        <4>3. MaxParts * n <= MaxId
          BY <4>2, IdFacts DEF MaxId
        <4>4. MaxParts * n \in Nat
          BY <4>2, IdFacts
        <4> QED
          BY <4>1, <4>2, <4>3, <4>4, IdFacts DEF MessageIds, Epoch
      <3>2. next_message_id \in [Peers -> Nat]
        BY DEF CalmInv
      <3> QED
        BY <3>1, <3>2
    <2>3. ASSUME NEW e \in Peers, NEW m \in q[e]
          PROVE  /\ m.id \in MessageIds /\ m.channel \in Channels /\ m.fragment \in Fragments
                 /\ m.body \in Bodies /\ m.age \in 0 .. ResendTicks
      <3>1. CallList(sends[e]) /\ IsQueued(sends[e], m) /\ Len(sends[e]) <= Len(Workload)
        BY <2>1 DEF MessageInv, Sender, Queue, CalmInv
      <3> QED
        BY <3>1, QueuedTypes
    <2>4. visiting \in [Peers -> BOOLEAN] /\ panicked \in [Peers -> BOOLEAN]
      BY DEF CalmInv
    <2>5. ASSUME NEW e \in Peers, NEW i \in Frags!Slots
          PROVE  sent_frag_map[e].entry[i].remaining \subseteq MessageIds
      <3>1. sent_frag_map[e] \in FragBuffers
        BY <2>1 DEF AcksInv, FragsKnown
      <3>2. sent_frag_map[e].entry[i] \in FragStatuses
        BY <3>1 DEF FragBuffers, FragRing!BuffersOver, FragRing!Slots, Frags!Slots
      <3>3. Ids \subseteq MessageIds
        BY IdFacts DEF Ids, MessageIds, Epoch
      <3> QED
        BY <3>2, <3>3 DEF FragStatuses
    <2>6. ASSUME NEW e \in Peers PROVE DOMAIN in_progress[e] \subseteq MessageIds
      <3> SUFFICES ASSUME NEW x \in DOMAIN in_progress[e] PROVE x \in MessageIds
        OBVIOUS
      <3>1. PICK sq, seen, ip : sq = sends[other(e)] /\ seen = seen_buf[e] /\ ip = in_progress[e]
        OBVIOUS
      <3>2. CallList(sq) /\ Receiver(sq, seen, ip, delivered[e])
        BY <2>1, <3>1, OtherPeer DEF MessageInv, Sender
      <3>3. PiecesOf(sq, seen, x, ip[x])
        BY <3>1, <3>2 DEF Receiver, InProgress
      <3>4. PICK k \in 1 .. Len(sq) : sq[k].id = x
        BY <3>3 DEF PiecesOf
      <3>5. x \in Ids
        BY <3>2, <3>4, CallFacts
      <3> QED
        BY <3>5, IdFacts DEF Ids, MessageIds, Epoch
    <2> QED
      BY <2>2, <2>3, <2>4, <2>5, <2>6 DEF TypeOK
  <1> QED
    BY <1>1, CalmInvariant, PTL

-----------------------------------------------------------------------------
(* The handles of a packet outlive the wait for its ack *)

\* The handles are kept at least as long as the records of sent packets.
KeptLongEnough == SentSize <= RecvSize

\* Every message packet was recorded.
MessagesRecorded ==
  \A p \in net : p.type = "Messages" => p.id <= messages_in_packets[p.src].sequence

RetainedInv == CalmInv /\ MessagesRecorded /\ HandlesRetained

LEMMA HandlesExists ==
  ASSUME NEW buf, NEW s
  PROVE  Handles!exists(buf, s) <=> buf.tag[HandleRing!index(s)] = s
  BY DEF Handles!exists, Handles!index, HandleRing!index

\* What a packet that is made adds to the net.
LEMMA OnePacket ==
  ASSUME NEW e, NEW type, NEW payload, P!SendPacket(e, type, payload)
  PROVE  /\ acked' = acked
         /\ \E p : net' = net \cup {p} /\ p.src = e /\ p.id = packet_id(e) /\ p.type = type
  <1>1. PICK p : p = P!next_packet_header(e, type, payload)
    OBVIOUS
  <1>2. p.src = e /\ p.id = packet_id(e) /\ p.type = type
    BY <1>1 DEF P!next_packet_header, packet_id
  <1>3. net' = net \cup {p} /\ acked' = acked
    BY <1>1, Zenon DEF P!SendPacket
  <1> QED
    BY <1>2, <1>3

LEMMA InitRetained ==
  ASSUME Epoch, PacketEpoch, FragEpoch, Init
  PROVE  RetainedInv
  <1>1. net = {}
    BY DEF Init, P!Init
  <1> QED
    BY <1>1, InitCalm DEF RetainedInv, MessagesRecorded, HandlesRetained

\* A step that makes no message packet and acks none.
LEMMA QuietRetained ==
  ASSUME PacketEpoch, RetainedInv, CalmInv', messages_in_packets' = messages_in_packets,
         acked' = acked,
         \A f \in Peers : sequence_id[f] \in Nat /\ sequence_id'[f] \in Nat
                          /\ sequence_id[f] <= sequence_id'[f],
         \A p \in net' : p.type = "Messages" => p \in net
  PROVE  RetainedInv'
  <1>1. MessagesRecorded'
    BY DEF RetainedInv, MessagesRecorded
  <1>2. HandlesRetained'
    <2> SUFFICES ASSUME NEW f \in Peers, NEW p \in net', p.src = f, p.type = "Messages",
                        p.id \notin acked'[f], p.id > sequence_id'[f] - RecvSize
                 PROVE  Handles!exists(messages_in_packets'[f], p.id)
      BY Zenon DEF HandlesRetained
    <2>1. p \in net /\ p.id \in PacketIds /\ p.id \notin acked[f] /\ ~ panicked[f]
      BY PacketView DEF RetainedInv, CalmInv, AcksInv
    <2>2. p.id > sequence_id[f] - RecvSize
      BY <2>1, RingFacts DEF PacketIds
    <2>3. Handles!exists(messages_in_packets[f], p.id)
      BY <2>1, <2>2 DEF RetainedInv, HandlesRetained
    <2> QED
      BY <2>3
  <1> QED
    BY <1>1, <1>2 DEF RetainedInv

LEMMA NumberStays ==
  ASSUME PacketEpoch, CalmInv, sequence_id' = sequence_id
  PROVE  \A f \in Peers : /\ sequence_id[f] \in Nat /\ sequence_id'[f] \in Nat
                          /\ sequence_id[f] <= sequence_id'[f]
  <1>1. sequence_id \in [Peers -> 0 .. MaxSeq]
    BY PacketView DEF PacketIds, CalmInv, AcksInv
  <1> QED
    BY <1>1

LEMMA NumberGrows ==
  ASSUME PacketEpoch, CalmInv, NEW e \in Peers,
         sequence_id[e] < MaxSeq, sequence_id' = [sequence_id EXCEPT ![e] = packet_id(e)]
  PROVE  \A f \in Peers : /\ sequence_id[f] \in Nat /\ sequence_id'[f] \in Nat
                          /\ sequence_id[f] <= sequence_id'[f]
  <1>1. Service!ServiceInv
    BY DEF CalmInv, AcksInv
  <1>2. /\ packet_id(e) \in PacketIds /\ sequence_id'[e] = packet_id(e)
        /\ \A f \in Peers : f # e => sequence_id'[f] = sequence_id[f]
        /\ \A f \in Peers : sequence_id[f] \in Nat /\ sequence_id[f] <= sequence_id'[f]
    BY <1>1, SequenceGrows
  <1>3. packet_id(e) \in Nat
    BY <1>2 DEF PacketIds
  <1> QED
    BY <1>2, <1>3

LEMMA ComposeRetained ==
  ASSUME PacketEpoch, RetainedInv, NEW e \in Peers, NEW batch \in SUBSET ready(q[e]),
         compose_packets(e, batch)
  PROVE  RetainedInv'
  <1>1. CalmInv /\ CalmInv' /\ Service!ServiceInv /\ DOMAIN messages_in_packets = Peers
    BY ComposeCalm DEF RetainedInv, CalmInv, AcksInv, AckTables
  <1>2. PICK hs, buf, new, s : /\ hs = {handle(m) : m \in batch} /\ s = packet_id(e)
                               /\ buf = messages_in_packets[e]
                               /\ new = Handles!insert(buf, s, hs)
    OBVIOUS
  <1>3. /\ P!SendPacket(e, "Messages", {on_wire(m) : m \in batch})
        /\ messages_in_packets' = [messages_in_packets EXCEPT ![e] = new]
        /\ buf \in HandleBuffers /\ s \in PacketIds /\ buf.sequence <= s
        /\ hs \in SUBSET {handle(m) : m \in Parts}
    BY <1>1, <1>2, ComposeIs
  <1>4. PICK p : net' = net \cup {p} /\ p.src = e /\ p.id = s /\ p.type = "Messages"
    BY <1>2, <1>3, OnePacket
  <1>5. acked' = acked
    BY <1>3, OnePacket
  <1>6. /\ s = sequence_id[e] + 1 /\ sequence_id'[e] = s /\ sequence_id[e] \in Nat
        /\ \A f \in Peers : f # e => sequence_id'[f] = sequence_id[f]
    BY <1>1, <1>2, <1>3, SendNumber, SequenceGrows
  <1>7. new.sequence = s /\ buf.sequence \in 0 .. MaxSeq /\ s \in 0 .. MaxSeq
    BY <1>2, <1>3, HandlesNext DEF HandleBuffers, HandleRing!BuffersOver, PacketIds
  <1>8. PICK T : T = SUBSET {handle(m) : m \in Parts}
    OBVIOUS
  <1>9. /\ buf \in HandleRing!BuffersOver(0 .. MaxSeq, T) /\ hs \in T /\ {} \in T
        /\ new = HandleRing!insert(buf, s, hs) /\ MaxSeq + RecvSize < HandleRing!Half
    BY <1>2, <1>3, <1>8, HandleRingIs
       DEF HandleBuffers, PacketIds, PacketEpoch, HandleRing!Half
  <1>10. Handles!exists(new, s)
    <2>1. new.tag[HandleRing!index(s)] = s
      BY <1>7, <1>9, RingFacts, HandleRing!EpochInsert
    <2> QED
      BY <2>1, HandlesExists
  <1>11. ASSUME NEW t \in PacketIds, t # s, t <= buf.sequence, t + RecvSize > s,
                Handles!exists(buf, t)
         PROVE  Handles!exists(new, t)
    <2>1. s + RecvSize > buf.sequence /\ t \in 0 .. MaxSeq
      BY <1>3, <1>7, RingFacts DEF PacketIds
    <2>2. new.tag[HandleRing!index(t)] = buf.tag[HandleRing!index(t)]
      BY <1>7, <1>9, <1>11, <2>1, RingFacts, HandleRing!EpochInsertKeeps
    <2> QED
      BY <1>11, <2>2, HandlesExists
  <1>12. MessagesRecorded'
    <2> SUFFICES ASSUME NEW r \in net', r.type = "Messages"
                 PROVE  r.id <= messages_in_packets'[r.src].sequence
      BY DEF MessagesRecorded
    <2>1. CASE r = p
      BY <1>1, <1>3, <1>4, <1>7, <2>1
    <2>2. CASE r \in net
      <3>1. r.src \in Peers /\ r.id \in 0 .. MaxSeq /\ r.id <= messages_in_packets[r.src].sequence
        BY <1>1, <2>2, PacketView DEF RetainedInv, MessagesRecorded, PacketIds
      <3>2. CASE r.src = e
        BY <1>1, <1>2, <1>3, <1>7, <3>1, <3>2
      <3>3. CASE r.src # e
        BY <1>1, <1>3, <3>1, <3>3
      <3> QED
        BY <3>2, <3>3
    <2> QED
      BY <1>4, <2>1, <2>2
  <1>13. HandlesRetained'
    <2> SUFFICES ASSUME NEW f \in Peers, NEW r \in net', r.src = f, r.type = "Messages",
                        r.id \notin acked'[f], r.id > sequence_id'[f] - RecvSize
                 PROVE  Handles!exists(messages_in_packets'[f], r.id)
      BY Zenon DEF HandlesRetained
    <2>1. CASE r = p
      BY <1>1, <1>3, <1>4, <1>10, <2>1
    <2>2. CASE r \in net /\ f # e
      <3>1. Handles!exists(messages_in_packets[f], r.id)
        BY <1>1, <1>5, <1>6, <2>2 DEF RetainedInv, HandlesRetained, CalmInv
      <3> QED
        BY <1>1, <1>3, <2>2, <3>1
    <2>3. CASE r \in net /\ f = e
      <3>1. /\ r.id \in PacketIds /\ r.id <= sequence_id[e] /\ r.id <= buf.sequence
        BY <1>1, <1>2, <2>3, PacketView DEF RetainedInv, MessagesRecorded
      <3>2. r.id > sequence_id[e] - RecvSize /\ r.id + RecvSize > s /\ r.id # s
        BY <1>6, <2>3, <3>1, RingFacts DEF PacketIds
      <3>3. Handles!exists(buf, r.id)
        BY <1>1, <1>2, <1>5, <2>3, <3>2 DEF RetainedInv, HandlesRetained, CalmInv
      <3>4. Handles!exists(new, r.id)
        BY <1>11, <3>1, <3>2, <3>3
      <3> QED
        BY <1>1, <1>3, <2>3, <3>4
    <2> QED
      BY <1>4, <2>1, <2>2, <2>3
  <1> QED
    BY <1>1, <1>12, <1>13 DEF RetainedInv

\* The packets whose records are still there have slots of their own.
LEMMA RecordedApart ==
  ASSUME PacketEpoch, KeptLongEnough, CalmInv, NEW e \in Peers, NEW acks \in SUBSET PacketIds,
         NEW s \in P!newly_acked(e, acks), NEW r \in net, r.src = e, r.id # s,
         r.id > sequence_id[e] - RecvSize
  PROVE  Handles!index(r.id) # Handles!index(s)
  <1>1. Service!ServiceInv /\ Service!SentOrdered
    BY DEF CalmInv, AcksInv
  <1>2. PICK buf, i, t : buf = sent_buffer[e] /\ i = s % SentSize /\ t = r.id
    OBVIOUS
  <1>3. s \in 0 .. MaxSeq /\ buf.tag[i] = s
    BY <1>2 DEF P!newly_acked, P!Sent!exists, P!Sent!index, PacketIds
  <1>4. /\ SentSize \in Nat /\ SentSize >= 1 /\ i \in 0 .. SentSize - 1 /\ s # SeqMod
    BY <1>2, <1>3, PacketAssumption, RingFacts DEF PacketEpoch
  <1>5. s <= buf.sequence /\ s + SentSize > buf.sequence
    <2>1. Service!SentRing!InWindow(buf)
      BY <1>1, <1>2 DEF Service!SentOrdered
    <2> QED
      BY <1>3, <1>4, <2>1
         DEF Service!SentRing!InWindow, Service!SentRing!Slots, Service!SentRing!NoSeq
  <1>6. t <= buf.sequence /\ buf.sequence <= sequence_id[e]
    BY <1>1, <1>2 DEF Service!SentOrdered
  <1>7. buf.sequence \in 0 .. MaxSeq /\ sequence_id[e] \in 0 .. MaxSeq /\ t \in 0 .. MaxSeq
    <2>1. sequence_id[e] \in 0 .. MaxSeq /\ t \in 0 .. MaxSeq
      BY <1>1, <1>2, PacketView DEF PacketIds
    <2>2. buf \in Service!SentBuffers
      BY <1>1, <1>2 DEF Service!ServiceInv, Service!AckInv, Service!EpochOK
    <2> QED
      BY <2>1, <2>2 DEF Service!SentBuffers, Service!Ids
  <1>8. t + RecvSize > s /\ s + RecvSize > t /\ t # s
    BY <1>2, <1>3, <1>4, <1>5, <1>6, <1>7, RingFacts DEF KeptLongEnough
  <1>9. HandleRing!index(t) # HandleRing!index(s)
    <2>1. CASE t < s
      BY <1>3, <1>7, <1>8, <2>1, RingFacts, HandleRing!SlotsApart
    <2>2. CASE s < t
      BY <1>3, <1>7, <1>8, <2>2, RingFacts, HandleRing!SlotsApart
    <2> QED
      BY <1>3, <1>7, <1>8, <2>1, <2>2
  <1> QED
    BY <1>2, <1>9, HandleRingIs

LEMMA ReceiveRetained ==
  ASSUME Epoch, PacketEpoch, FragEpoch, KeptLongEnough, RetainedInv,
         NEW e \in Peers, NEW p \in net, receive(e, p)
  PROVE  RetainedInv'
  <1>1. CalmInv /\ CalmInv' /\ Service!ServiceInv /\ DOMAIN messages_in_packets = Peers
    BY ReceiveCalm DEF RetainedInv, CalmInv, AcksInv, AckTables
  <1>2. PICK fresh, slots, buf, buf2 :
          /\ fresh = P!newly_acked(e, p.acks) /\ slots = {Handles!index(s) : s \in fresh}
          /\ buf = messages_in_packets[e] /\ buf2 = Handles!clear(buf, slots)
    OBVIOUS
  <1>3. P!process_incoming_packet(e, p) /\ acked_packets(e, fresh)
    BY <1>2, Zenon DEF receive
  <1>4. messages_in_packets' = [messages_in_packets EXCEPT ![e] = buf2]
    BY <1>2, <1>3, Zenon DEF acked_packets
  <1>5. /\ sequence_id' = sequence_id /\ net' = net
        /\ acked' = [acked EXCEPT ![e] = acked[e] \cup fresh]
    BY <1>2, <1>3, Zenon DEF P!process_incoming_packet, P!process_packet_acks
  <1>6. DOMAIN acked = Peers
    BY <1>1 DEF Service!ServiceInv, Service!AckInv, Service!EpochOK
  <1>7. p.acks \in SUBSET PacketIds
    BY <1>1, PacketView
  <1>8. buf \in HandleBuffers
    BY <1>1, <1>2 DEF CalmInv, AcksInv, HandlesKnown
  <1>9. /\ buf2.sequence = buf.sequence
        /\ \A i \in 0 .. RecvSize - 1 : i \notin slots => buf2.tag[i] = buf.tag[i]
    <2>1. PICK T : T = SUBSET {handle(m) : m \in Parts}
      OBVIOUS
    <2>2. buf \in HandleRing!BuffersOver(PacketIds, T) /\ {} \in T /\ buf2 = HandleRing!clear(buf, slots)
      BY <1>2, <1>8, <2>1, HandleRingIs DEF HandleBuffers
    <2>3. /\ buf2.sequence = buf.sequence
          /\ \A i \in HandleRing!Slots : i \notin slots =>
               buf2.tag[i] = buf.tag[i] /\ buf2.entry[i] = buf.entry[i]
      BY <2>2, RingFacts, HandleRing!ClearSlots
    <2> QED
      BY <2>3, HandleRingIs
  <1>10. MessagesRecorded'
    BY <1>1, <1>2, <1>4, <1>5, <1>9 DEF RetainedInv, MessagesRecorded
  <1>11. HandlesRetained'
    <2> SUFFICES ASSUME NEW f \in Peers, NEW r \in net, r.src = f, r.type = "Messages",
                        r.id \notin acked'[f], r.id > sequence_id[f] - RecvSize
                 PROVE  Handles!exists(messages_in_packets'[f], r.id)
      BY <1>5, Zenon DEF HandlesRetained
    <2>1. r.id \notin acked[f] /\ (f = e => r.id \notin fresh)
      BY <1>5, <1>6
    <2>2. Handles!exists(messages_in_packets[f], r.id)
      BY <1>1, <2>1 DEF RetainedInv, HandlesRetained, CalmInv
    <2>3. CASE f # e
      BY <1>1, <1>4, <2>2, <2>3
    <2>4. CASE f = e
      <3>1. Handles!index(r.id) \notin slots
        BY <1>1, <1>2, <1>7, <2>1, <2>4, RecordedApart
      <3>2. Handles!index(r.id) \in 0 .. RecvSize - 1
        BY <1>1, PacketView, RingFacts DEF Handles!index, PacketIds
      <3>3. buf2.tag[Handles!index(r.id)] = buf.tag[Handles!index(r.id)]
        BY <1>9, <3>1, <3>2
      <3> QED
        BY <1>1, <1>2, <1>4, <2>2, <2>4, <3>3 DEF Handles!exists
    <2> QED
      BY <2>3, <2>4
  <1> QED
    BY <1>1, <1>10, <1>11 DEF RetainedInv

LEMMA NextRetained ==
  ASSUME Epoch, PacketEpoch, FragEpoch, KeptLongEnough, RetainedInv, [Next]_vars
  PROVE  RetainedInv'
  <1>1. CalmInv /\ CalmInv'
    BY NextCalm DEF RetainedInv
  <1>2. ASSUME messages_in_packets' = messages_in_packets, UNCHANGED packet_vars
        PROVE  RetainedInv'
    <2>1. acked' = acked /\ sequence_id' = sequence_id /\ net' = net
      BY <1>2 DEF packet_vars
    <2> QED
      BY <1>1, <1>2, <2>1, NumberStays, QuietRetained
  <1>3. CASE UNCHANGED vars
    BY <1>2, <1>3 DEF vars, sender_vars
  <1>4. ASSUME NEW e \in Peers, NEW c, NEW n, send_message(e, c, n) PROVE RetainedInv'
    BY <1>2, <1>4, Zenon DEF send_message
  <1>5. ASSUME NEW e \in Peers, update(e) PROVE RetainedInv'
    BY <1>2, <1>5, Zenon DEF update
  <1>6. ASSUME NEW e \in Peers, NEW batch \in SUBSET ready(q[e]), compose_packets(e, batch)
        PROVE  RetainedInv'
    BY <1>6, ComposeRetained
  <1>7. ASSUME NEW e \in Peers, NEW type, P!RefusePacket(e, type),
               messages_in_packets' = messages_in_packets
        PROVE  RetainedInv'
    <2>1. acked' = acked /\ net' = net
      BY <1>7, Zenon DEF P!RefusePacket
    <2> QED
      BY <1>1, <1>7, <2>1, RefuseNumber, NumberGrows, QuietRetained
  <1>8. ASSUME NEW e \in Peers, compose_refused(e) PROVE RetainedInv'
    BY <1>7, <1>8, Zenon DEF compose_refused, sender_vars
  <1>9. ASSUME NEW e \in Peers, send_keepalive(e) PROVE RetainedInv'
    <2>1. messages_in_packets' = messages_in_packets
      BY <1>9 DEF send_keepalive, sender_vars
    <2>2. CASE P!SendPacket(e, "KeepAlive", {})
      <3>1. PICK p : net' = net \cup {p} /\ p.type = "KeepAlive"
        BY <2>2, OnePacket
      <3>2. acked' = acked /\ \A r \in net' : r.type = "Messages" => r \in net
        BY <2>2, <3>1, OnePacket
      <3> QED
        BY <1>1, <2>1, <2>2, <3>2, SendNumber, NumberGrows, QuietRetained
    <2>3. CASE P!RefusePacket(e, "KeepAlive")
      BY <1>7, <2>1, <2>3
    <2> QED
      BY <1>9, <2>2, <2>3 DEF send_keepalive
  <1>10. ASSUME NEW e \in Peers, NEW p \in net, receive(e, p) PROVE RetainedInv'
    BY <1>10, ReceiveRetained
  <1> QED
    BY <1>3, <1>4, <1>5, <1>6, <1>8, <1>9, <1>10 DEF Next

\* A message packet among the last RecvSize ones that is not acked yet still
\* has its handles, whatever was acked, skipped or refused in between: no
\* look-up of acked_packet empties the slot of another packet that waits.
THEOREM HandlesAreRetained ==
  ASSUME Epoch, PacketEpoch, FragEpoch, KeptLongEnough
  PROVE  Spec => []HandlesRetained
  <1>1. Init => RetainedInv
    BY InitRetained
  <1>2. RetainedInv /\ [Next]_vars => RetainedInv'
    BY NextRetained
  <1>3. RetainedInv => HandlesRetained
    BY DEF RetainedInv
  <1> QED
    BY <1>1, <1>2, <1>3, PTL DEF Spec

-----------------------------------------------------------------------------
(* A reliable message leaves its queue when it is reported *)

\* sent_frag_map has a slot for every id.
FragsFit == MaxId <= FragSize

\* Call k has parts to be acked, and each of them is queued.
Awaits(sq, queue, map, k) ==
  LET status == frag_status(map, sq[k].id)
  IN  /\ Frags!exists(map, sq[k].id) /\ status.status = "Partial" /\ status.remaining # {}
      /\ \A id \in status.remaining :
           \E j \in PartsOf(sq, k) : id = sq[k].id + j /\ InQueue(queue, k, j)

\* Every reliable call that was not reported is in the queue, with the parts
\* that its entry in sent_frag_map names.
Outstanding(sq, queue, map, done) ==
  \A k \in 1 .. Len(sq) : sq[k].channel \in Reliable /\ k \notin done =>
    IF sq[k].parts = 1 THEN InQueue(queue, k, 0) ELSE Awaits(sq, queue, map, k)

GoneInv ==
  /\ CalmInv
  /\ \A e \in Peers : Outstanding(sends[e], q[e], sent_frag_map[e], acked_messages[e])

\* update and compose_packets.
LEMMA OutstandingKept ==
  ASSUME NEW sq, CallList(sq), NEW queue, NEW map, NEW done, Outstanding(sq, queue, map, done),
         NEW queue2, Keeps(sq, queue, queue2)
  PROVE  Outstanding(sq, queue2, map, done)
  <1> SUFFICES ASSUME NEW k \in 1 .. Len(sq), sq[k].channel \in Reliable, k \notin done
               PROVE  IF sq[k].parts = 1 THEN InQueue(queue2, k, 0)
                      ELSE Awaits(sq, queue2, map, k)
    BY DEF Outstanding
  <1>1. \A i \in PartsOf(sq, k) : InQueue(queue, k, i) => InQueue(queue2, k, i)
    BY DEF Keeps
  <1>2. CASE sq[k].parts = 1
    <2>1. InQueue(queue, k, 0) /\ 0 \in PartsOf(sq, k)
      BY <1>2, CallFacts DEF Outstanding
    <2> QED
      BY <1>1, <1>2, <2>1
  <1>3. CASE sq[k].parts # 1
    <2>1. Awaits(sq, queue, map, k)
      BY <1>3 DEF Outstanding
    <2>2. Awaits(sq, queue2, map, k)
      BY <1>1, <2>1 DEF Awaits
    <2> QED
      BY <1>3, <2>2
  <1> QED
    BY <1>2, <1>3

LEMMA FragExists ==
  ASSUME NEW map, NEW t
  PROVE  /\ Frags!exists(map, t) <=> map.tag[t % FragSize] = t
         /\ Frags!exists(map, t) => frag_status(map, t) = map.entry[t % FragSize]
  BY FragRingIs DEF Frags!exists, Frags!get, frag_status

\* The entries of the calls before are kept when a parent is inserted.
LEMMA ParentsKept ==
  ASSUME FragEpoch, FragsFit, NEW map \in FragBuffers, NEW next \in Ids, next < MaxId,
         FragsOrdered(next, map), NEW x \in FragStatuses,
         NEW new, new = Frags!insert(map, next, x)
  PROVE  /\ Frags!exists(new, next) /\ frag_status(new, next) = x
         /\ \A t \in Ids : t < next /\ Frags!exists(map, t) =>
              Frags!exists(new, t) /\ frag_status(new, t) = frag_status(map, t)
  <1>1. /\ map \in FragRing!BuffersOver(0 .. MaxId, FragStatuses)
        /\ next \in 0 .. MaxId /\ next >= map.sequence /\ map.sequence \in 0 .. MaxId
        /\ FragRing!InWindow(map) /\ MaxId + FragSize < FragRing!Half
    BY DEF FragBuffers, FragRing!BuffersOver, Ids, FragEpoch, FragRing!Half, FragsOrdered
  <1>2. new = FragRing!insert(map, next, x) /\ [status |-> "Unknown", remaining |-> {}] \in FragStatuses
    BY FragRingIs DEF FragStatuses
  <1>3. new.sequence = next
    BY <1>1, <1>2, RingFacts, IdFacts, FragRing!NewerInWindow
  <1>4. new.tag[next % FragSize] = next /\ new.entry[next % FragSize] = x
    <2>1. Ids \in SUBSET Int
      BY IdFacts
    <2> QED
      BY <1>2, <2>1, IdFacts, RingFacts, FragRingIs, FragRing!InsertSlots DEF FragBuffers
  <1>5. ASSUME NEW t \in Ids, t < next, Frags!exists(map, t)
        PROVE  Frags!exists(new, t) /\ frag_status(new, t) = frag_status(map, t)
    <2>1. PICK i : i = t % FragSize
      OBVIOUS
    <2>2. i \in 0 .. FragSize - 1 /\ t # SeqMod /\ t \in 0 .. MaxId
      BY <2>1, RingFacts, IdFacts DEF Ids, FragEpoch
    <2>3. map.tag[i] = t
      BY <1>5, <2>1, FragExists
    <2>4. t <= map.sequence
      BY <1>1, <2>2, <2>3, FragRingIs DEF FragRing!InWindow
    <2>5. next + FragSize > map.sequence /\ t + FragSize > new.sequence /\ t # next
      BY <1>1, <1>3, <1>5, <2>2, RingFacts, IdFacts DEF FragsFit
    <2>6. new.tag[FragRing!index(t)] = map.tag[FragRing!index(t)]
          /\ new.entry[FragRing!index(t)] = map.entry[FragRing!index(t)]
      BY <1>1, <1>2, <2>2, <2>4, <2>5, RingFacts, IdFacts, FragRing!EpochInsertKeeps
    <2>7. new.tag[i] = t /\ new.entry[i] = map.entry[i]
      BY <2>1, <2>3, <2>6, FragRingIs
    <2> QED
      BY <1>5, <2>1, <2>7, FragExists
  <1> QED
    BY <1>4, <1>5, FragExists

\* acked_packet.
LEMMA AckedEntry ==
  ASSUME Epoch, NEW map \in FragBuffers, NEW handles, NEW t \in Ids, Frags!exists(map, t),
         t \notin completed(map, handles), NEW new, new = ack_fragments(map, handles)
  PROVE  /\ Frags!exists(new, t)
         /\ t \in awaited(map, handles) => frag_status(new, t) =
              [status |-> "Partial", remaining |-> still_remaining(map, t, handles)]
         /\ t \notin awaited(map, handles) => frag_status(new, t) = frag_status(map, t)
  <1>1. PICK entry : entry = [i \in DOMAIN map.entry |->
          IF map.tag[i] \in completed(map, handles) THEN [status |-> "Complete", remaining |-> {}]
          ELSE IF map.tag[i] \in awaited(map, handles)
          THEN [status |-> "Partial", remaining |-> still_remaining(map, map.tag[i], handles)]
          ELSE map.entry[i]]
    OBVIOUS
  <1>2. ack_fragments(map, handles) = [map EXCEPT !.entry = entry]
    BY <1>1 DEF ack_fragments
  <1>3. new.tag = map.tag /\ new.entry = entry
    BY <1>2 DEF FragBuffers, FragRing!BuffersOver
  <1>4. PICK i : i = t % FragSize
    OBVIOUS
  <1>5. i \in 0 .. FragSize - 1 /\ DOMAIN map.entry = 0 .. FragSize - 1
    BY <1>4, RingFacts, IdFacts, FragRingIs DEF Ids, FragBuffers, FragRing!BuffersOver
  <1>6. map.tag[i] = t /\ frag_status(map, t) = map.entry[i]
    BY <1>4, FragExists
  <1>7. new.tag[i] = t /\ new.entry[i] = IF t \in awaited(map, handles)
          THEN [status |-> "Partial", remaining |-> still_remaining(map, t, handles)]
          ELSE map.entry[i]
    BY <1>1, <1>3, <1>5, <1>6
  <1>8. Frags!exists(new, t) /\ frag_status(new, t) = new.entry[i]
    BY <1>4, <1>7, FragExists
  <1> QED
    BY <1>6, <1>7, <1>8

\* The handles name parts of calls: one with the id of a part is of that part.
LEMMA HandleOfPart ==
  ASSUME NEW sq, CallList(sq), NEW seen, NEW h, TakenHandle(sq, seen, h)
  PROVE  \E k \in 1 .. Len(sq) : \E i \in PartsOf(sq, k) :
           /\ h.id = sq[k].id + i /\ h.msg = k
           /\ h.fragment = NoFrag <=> sq[k].parts = 1
           /\ h.fragment # NoFrag => h.fragment.parent_id = sq[k].id
  <1>1. PICK k \in 1 .. Len(sq) : \E i \in PartsOf(sq, k) : h = handle(part_of(sq, k, i))
    BY DEF TakenHandle
  <1>2. PICK i \in PartsOf(sq, k) : h = handle(part_of(sq, k, i))
    BY <1>1
  <1>3. /\ h.id = sq[k].id + i /\ h.msg = k /\ h.channel = sq[k].channel
        /\ h.fragment = NoFrag <=> sq[k].parts = 1
        /\ h.fragment # NoFrag => h.fragment.parent_id = sq[k].id
    BY <1>2, HandleFields
  <1> QED
    BY <1>3

LEMMA HandleById ==
  ASSUME NEW sq, CallList(sq), NEW seen, NEW h, TakenHandle(sq, seen, h),
         NEW k \in 1 .. Len(sq), NEW i \in PartsOf(sq, k), h.id = sq[k].id + i
  PROVE  /\ h.msg = k
         /\ h.fragment = NoFrag <=> sq[k].parts = 1
         /\ h.fragment # NoFrag => h.fragment.parent_id = sq[k].id
  <1>1. PICK l \in 1 .. Len(sq) : \E j \in PartsOf(sq, l) :
          /\ h.id = sq[l].id + j /\ h.msg = l
          /\ h.fragment = NoFrag <=> sq[l].parts = 1
          /\ h.fragment # NoFrag => h.fragment.parent_id = sq[l].id
    BY HandleOfPart
  <1>2. PICK j \in PartsOf(sq, l) :
          /\ h.id = sq[l].id + j /\ h.msg = l
          /\ h.fragment = NoFrag <=> sq[l].parts = 1
          /\ h.fragment # NoFrag => h.fragment.parent_id = sq[l].id
    BY <1>1
  <1>3. l = k
    BY <1>2, UniqueId
  <1> QED
    BY <1>2, <1>3

\* What one ack makes of the queue, the table and the reports.
reported_by(map, handles) ==
  {h \in handles : h.fragment = NoFrag \/ h.fragment.parent_id \in completed(map, handles)}

left(queue, handles) == {m \in queue : \A h \in handles : ~ dismissed_by_ack(m, h)}

\* A part stays queued unless its own handle is acked.
LEMMA LeftInQueue ==
  ASSUME NEW sq, NEW queue, Queue(sq, queue), NEW handles,
         NEW k \in 1 .. Len(sq), NEW i \in PartsOf(sq, k), InQueue(queue, k, i),
         \A h \in handles : h.id # sq[k].id + i
  PROVE  InQueue(left(queue, handles), k, i)
  <1>1. PICK m \in queue : m.body = [msg |-> k, part |-> i]
    BY DEF InQueue
  <1>2. m.id = sq[k].id + i
    BY <1>1, QueuedBody DEF Queue
  <1>3. \A h \in handles : ~ dismissed_by_ack(m, h)
    BY <1>2 DEF dismissed_by_ack
  <1> QED
    BY <1>1, <1>3 DEF InQueue, left

LEMMA OutstandingAcked ==
  ASSUME Epoch, NEW sq, CallList(sq), NEW seen, NEW queue, Queue(sq, queue),
         NEW map, FragsKnown(sq, seen, map), NEW done, Outstanding(sq, queue, map, done),
         NEW handles, \A h \in handles : TakenHandle(sq, seen, h)
  PROVE  Outstanding(sq, left(queue, handles), ack_fragments(map, handles),
                     done \cup {h.msg : h \in reported_by(map, handles)})
  <1>1. PICK new, done2 : /\ new = ack_fragments(map, handles)
                          /\ done2 = done \cup {h.msg : h \in reported_by(map, handles)}
    OBVIOUS
  <1> SUFFICES ASSUME NEW k \in 1 .. Len(sq), sq[k].channel \in Reliable, k \notin done2
               PROVE  IF sq[k].parts = 1 THEN InQueue(left(queue, handles), k, 0)
                      ELSE Awaits(sq, left(queue, handles), new, k)
    BY <1>1 DEF Outstanding
  <1>2. k \notin done /\ \A h \in reported_by(map, handles) : h.msg # k
    BY <1>1
  <1>3. CASE sq[k].parts = 1
    <2>1. InQueue(queue, k, 0) /\ 0 \in PartsOf(sq, k)
      BY <1>2, <1>3, CallFacts DEF Outstanding
    <2>2. ASSUME NEW h \in handles, h.id = sq[k].id + 0 PROVE FALSE
      <3>1. h.msg = k /\ h.fragment = NoFrag
        BY <1>3, <2>1, <2>2, HandleById
      <3> QED
        BY <1>2, <3>1 DEF reported_by
    <2>3. InQueue(left(queue, handles), k, 0)
      BY <2>1, <2>2, LeftInQueue
    <2> QED
      BY <1>3, <2>3
  <1>4. CASE sq[k].parts # 1
    <2>1. PICK t, x : t = sq[k].id /\ x = frag_status(map, t)
      OBVIOUS
    <2>2. /\ Frags!exists(map, t) /\ x.status = "Partial" /\ x.remaining # {}
          /\ \A id \in x.remaining :
               \E j \in PartsOf(sq, k) : id = sq[k].id + j /\ InQueue(queue, k, j)
      <3>1. Awaits(sq, queue, map, k)
        BY <1>2, <1>4 DEF Outstanding
      <3> QED
        BY <2>1, <3>1 DEF Awaits
    <2>3. t \in Ids /\ map \in FragBuffers
      BY <2>1, CallFacts DEF FragsKnown
    <2>4. t \notin completed(map, handles)
      <3> SUFFICES ASSUME t \in completed(map, handles) PROVE FALSE
        OBVIOUS
      <3>1. PICK h \in handles : h.fragment # NoFrag /\ t = h.fragment.parent_id
        BY DEF completed, awaited
      <3>2. PICK l \in 1 .. Len(sq) : h.msg = l /\ h.fragment.parent_id = sq[l].id
        BY <3>1, HandleOfPart
      <3>3. l = k
        BY <2>1, <3>1, <3>2, UniqueParent
      <3> QED
        BY <1>2, <3>1, <3>2, <3>3 DEF reported_by
    <2>5. /\ Frags!exists(new, t)
          /\ t \in awaited(map, handles) => frag_status(new, t) =
               [status |-> "Partial", remaining |-> still_remaining(map, t, handles)]
          /\ t \notin awaited(map, handles) => frag_status(new, t) = x
      BY <1>1, <2>1, <2>2, <2>3, <2>4, AckedEntry
    <2>6. PICK y : y = frag_status(new, t)
      OBVIOUS
    <2>7. /\ y.status = "Partial" /\ y.remaining # {}
          /\ \A id \in y.remaining : id \in x.remaining /\ \A h \in handles : h.id # id
      <3>1. CASE t \in awaited(map, handles)
        <4>1. y.status = "Partial" /\ y.remaining = still_remaining(map, t, handles)
          BY <2>5, <2>6, <3>1
        <4>2. still_remaining(map, t, handles) # {}
          BY <2>4, <3>1 DEF completed
        <4> QED
          BY <2>1, <4>1, <4>2 DEF still_remaining
      <3>2. CASE t \notin awaited(map, handles)
        <4>1. y = x
          BY <2>5, <2>6, <3>2
        <4>2. ASSUME NEW id \in x.remaining, NEW h \in handles, h.id = id PROVE FALSE
          <5>1. PICK j \in PartsOf(sq, k) : id = sq[k].id + j
            BY <2>2
          <5>2. h.fragment # NoFrag /\ h.fragment.parent_id = t
            BY <1>4, <2>1, <4>2, <5>1, HandleById
          <5> QED
            BY <2>1, <2>2, <3>2, <5>2 DEF awaited
        <4> QED
          BY <2>2, <4>1, <4>2
      <3> QED
        BY <3>1, <3>2
    <2>8. ASSUME NEW id \in y.remaining
          PROVE  \E j \in PartsOf(sq, k) :
                   id = sq[k].id + j /\ InQueue(left(queue, handles), k, j)
      <3>1. PICK j \in PartsOf(sq, k) : id = sq[k].id + j /\ InQueue(queue, k, j)
        BY <2>2, <2>7, <2>8
      <3>2. InQueue(left(queue, handles), k, j)
        BY <2>7, <2>8, <3>1, LeftInQueue
      <3> QED
        BY <3>1, <3>2
    <2>9. Awaits(sq, left(queue, handles), new, k)
      BY <2>1, <2>5, <2>6, <2>7, <2>8 DEF Awaits
    <2> QED
      BY <1>4, <2>9
  <1> QED
    BY <1>3, <1>4

\* No call loses its entry.
ParentsStay(sq, map, new) ==
  \A l \in 1 .. Len(sq) : Frags!exists(map, sq[l].id) =>
    Frags!exists(new, sq[l].id) /\ frag_status(new, sq[l].id) = frag_status(map, sq[l].id)

\* S are the parts of call k, and all of them are to be acked.
AllAwaited(sq, k, S, map) ==
  /\ S = enqueued_parts(sq, k, sq[k].parts)
  /\ sq[k].parts # 1 =>
       /\ Frags!exists(map, sq[k].id)
       /\ frag_status(map, sq[k].id).status = "Partial"
       /\ frag_status(map, sq[k].id).remaining = {m.id : m \in S}

\* send_message: the new call has all its parts to be acked, in the queue.
LEMMA OutstandingMore ==
  ASSUME NEW sq, NEW sq2, CallList(sq), CallList(sq2), Longer(sq, sq2),
         NEW k \in 1 .. Len(sq2), \A l \in 1 .. Len(sq2) : l \notin 1 .. Len(sq) => l = k,
         NEW queue, NEW map, NEW done, Outstanding(sq, queue, map, done),
         NEW new, ParentsStay(sq, map, new), NEW S, AllAwaited(sq2, k, S, new),
         NEW queue2, queue2 = queue \cup S
  PROVE  Outstanding(sq2, queue2, new, done)
  <1> SUFFICES ASSUME NEW l \in 1 .. Len(sq2), sq2[l].channel \in Reliable, l \notin done
               PROVE  IF sq2[l].parts = 1 THEN InQueue(queue2, l, 0)
                      ELSE Awaits(sq2, queue2, new, l)
    BY DEF Outstanding
  <1>1. CASE l \in 1 .. Len(sq)
    <2>1. sq2[l] = sq[l] /\ PartsOf(sq2, l) = PartsOf(sq, l)
      BY <1>1, LongerSame
    <2>2. \A i : InQueue(queue, l, i) => InQueue(queue2, l, i)
      BY DEF InQueue
    <2>3. CASE sq[l].parts = 1
      BY <1>1, <2>1, <2>2, <2>3 DEF Outstanding
    <2>4. CASE sq[l].parts # 1
      <3>1. Awaits(sq, queue, map, l)
        BY <1>1, <2>1, <2>4 DEF Outstanding
      <3>2. Awaits(sq2, queue2, new, l)
        BY <1>1, <2>1, <2>2, <3>1 DEF Awaits, ParentsStay
      <3> QED
        BY <2>1, <2>4, <3>2
    <2> QED
      BY <2>3, <2>4
  <1>2. CASE l \notin 1 .. Len(sq)
    <2>1. l = k /\ \A i \in PartsOf(sq2, k) : InQueue(queue2, k, i)
      BY <1>2, EnqueuedIn DEF AllAwaited
    <2>2. CASE sq2[k].parts = 1
      BY <2>1, <2>2, CallFacts
    <2>3. CASE sq2[k].parts # 1
      <3>1. S = enqueued_parts(sq2, k, sq2[k].parts)
        BY DEF AllAwaited
      <3>2. S = {queued(sq2, k, i, ResendTicks) : i \in PartsOf(sq2, k)}
        BY <3>1 DEF enqueued_parts, PartsOf
      <3>3. \A i, age : queued(sq2, k, i, age).id = sq2[k].id + i
        BY DEF queued
      <3>4. \A m \in S : \E j \in PartsOf(sq2, k) : m.id = sq2[k].id + j
        BY <3>2, <3>3
      <3>5. S # {}
        BY <3>2, CallFacts
      <3>6. PICK x : x = frag_status(new, sq2[k].id)
        OBVIOUS
      <3>7. x.status = "Partial" /\ x.remaining = {m.id : m \in S}
        BY <2>3, <3>6 DEF AllAwaited
      <3>8. x.remaining # {}
        BY <3>5, <3>7
      <3>9. \A id \in x.remaining :
              \E j \in PartsOf(sq2, k) : id = sq2[k].id + j /\ InQueue(queue2, k, j)
        BY <2>1, <3>4, <3>7
      <3>10. Frags!exists(new, sq2[k].id)
        BY <2>3 DEF AllAwaited
      <3>11. Awaits(sq2, queue2, new, k)
        BY <3>6, <3>7, <3>8, <3>9, <3>10, Zenon DEF Awaits
      <3> QED
        BY <2>1, <2>3, <3>11
    <2> QED
      BY <2>2, <2>3
  <1> QED
    BY <1>1, <1>2

LEMMA InitGone ==
  ASSUME Epoch, PacketEpoch, FragEpoch, Init
  PROVE  GoneInv
  <1>1. \A e \in Peers : sends[e] = << >>
    BY Zenon DEF Init
  <1>2. \A e \in Peers : Len(sends[e]) = 0
    BY <1>1
  <1> QED
    BY <1>2, InitCalm DEF GoneInv, Outstanding

LEMMA SendMessageGone ==
  ASSUME Epoch, PacketEpoch, FragEpoch, FragsFit, GoneInv, NEW e \in Peers, NEW c \in Channels,
         NEW n \in 1 .. MaxParts, Len(sends[e]) < Len(Workload), send_message(e, c, n)
  PROVE  GoneInv'
  <1>1. CalmInv /\ CalmInv' /\ AcksInv /\ MessageInv
    BY SendMessageCalm DEF GoneInv, CalmInv, AcksInv
  <1>2. PICK sq2 :
          /\ MakesCall(sends[e], next_message_id[e], q[e], c, n, sq2)
          /\ sends' = [sends EXCEPT ![e] = sq2]
          /\ enqueued(e, c, n) = enqueued_parts(sq2, Len(sq2), n)
    BY <1>1, SendMessageIs
  <1>3. PICK sq, k, next, map : /\ sq = sends[e] /\ k = Len(sq2)
                                /\ next = next_message_id[e] /\ map = sent_frag_map[e]
    OBVIOUS
  <1>4. /\ CallList(sq2) /\ Longer(sq, sq2) /\ Len(sq2) = Len(sq) + 1
        /\ sq2[k].id = next /\ sq2[k].parts = n
    BY <1>2, <1>3, CallMade
  <1>5. /\ CallList(sq) /\ Len(sq) \in Nat /\ next \in Nat
        /\ \A l \in 1 .. Len(sq) : sq[l].id + sq[l].parts <= next
    BY <1>1, <1>3 DEF MessageInv, Sender, CallList
  <1>6. k \in 1 .. Len(sq2) /\ \A l \in 1 .. Len(sq2) : l \notin 1 .. Len(sq) => l = k
    BY <1>3, <1>4, <1>5
  <1>7. PICK S, x, new :
          /\ S = enqueued(e, c, n)
          /\ x = [status |-> "Partial", remaining |-> {m.id : m \in enqueued(e, c, n)}]
          /\ new = Frags!insert(sent_frag_map[e], next_message_id[e], x)
    OBVIOUS
  <1>8. S = enqueued_parts(sq2, k, sq2[k].parts)
    BY <1>2, <1>3, <1>4, <1>7
  <1>9. /\ next \in Ids /\ next + n \in Ids
        /\ \/ sent_frag_map' = sent_frag_map /\ n = 1
           \/ sent_frag_map' = [sent_frag_map EXCEPT ![e] = new] /\ n # 1
    <2>1. PICK call : call = [id |-> next_message_id[e], channel |-> c, parts |-> n, ok |-> TRUE]
      OBVIOUS
    <2>2. /\ sends' = [sends EXCEPT ![e] = Append(sends[e], call)]
          /\ next_message_id' = [next_message_id EXCEPT ![e] = next + n]
          /\ next \in Ids /\ next + n \in Ids
          /\ \/ sent_frag_map' = sent_frag_map /\ n = 1
             \/ n # 1 /\ sent_frag_map' = [sent_frag_map EXCEPT ![e] = new]
      BY <1>1, <1>3, <1>7, <2>1, SendMessageOk
    <2> QED
      BY <2>2
  <1>10. map \in FragBuffers /\ FragsOrdered(next, map)
    BY <1>1, <1>3 DEF AcksInv, FragsKnown, CalmInv
  <1>11. x \in FragStatuses
    <2>1. {m.id : m \in S} \in SUBSET Ids
      BY <1>4, <1>6, <1>8, EnqueuedIds
    <2> QED
      BY <1>7, <2>1 DEF FragStatuses
  <1>12. next < MaxId
    BY <1>9, IdFacts DEF Ids
  <1>13. /\ Frags!exists(new, next) /\ frag_status(new, next) = x
         /\ \A t \in Ids : t < next /\ Frags!exists(map, t) =>
              Frags!exists(new, t) /\ frag_status(new, t) = frag_status(map, t)
    <2>1. next \in Ids /\ new = Frags!insert(map, next, x)
      BY <1>3, <1>7, <1>9
    <2> QED
      BY <1>10, <1>11, <1>12, <2>1, ParentsKept
  <1>14. ASSUME NEW l \in 1 .. Len(sq) PROVE sq[l].id \in Ids /\ sq[l].id < next
    <2>1. sq[l].id \in Ids /\ sq[l].id \in Nat /\ sq[l].parts \in Nat /\ sq[l].parts >= 1
      BY <1>5, CallFacts
    <2>2. sq[l].id + sq[l].parts <= next
      BY <1>5
    <2> QED
      BY <1>5, <2>1, <2>2
  <1>15. PICK map2 : map2 = sent_frag_map'[e]
    OBVIOUS
  <1>16. DOMAIN sent_frag_map = Peers /\ DOMAIN q = Peers /\ DOMAIN sends = Peers
    BY <1>1 DEF AcksInv, AckTables, MessageInv, Tables
  <1>17. ParentsStay(sq, map, map2)
    BY <1>3, <1>9, <1>13, <1>14, <1>15, <1>16 DEF ParentsStay
  <1>18. AllAwaited(sq2, k, S, map2)
    <2>1. x.status = "Partial" /\ x.remaining = {m.id : m \in S}
      BY <1>7
    <2>2. sq2[k].parts # 1 => Frags!exists(map2, sq2[k].id) /\ frag_status(map2, sq2[k].id) = x
      BY <1>4, <1>9, <1>13, <1>15, <1>16
    <2> QED
      BY <1>8, <2>1, <2>2 DEF AllAwaited
  <1>19. PICK queue2 : queue2 = q[e] \cup S
    OBVIOUS
  <1>20. q' = [q EXCEPT ![e] = queue2] /\ acked_messages' = acked_messages
    BY <1>7, <1>19, Zenon DEF send_message
  <1>21. Outstanding(sq2, queue2, map2, acked_messages[e])
    <2>1. Outstanding(sq, q[e], map, acked_messages[e])
      BY <1>3 DEF GoneInv
    <2> QED
      BY <1>4, <1>5, <1>6, <1>17, <1>18, <1>19, <2>1, OutstandingMore
  <1>22. ASSUME NEW f \in Peers
         PROVE  Outstanding(sends'[f], q'[f], sent_frag_map'[f], acked_messages'[f])
    <2>1. CASE f = e
      BY <1>2, <1>15, <1>16, <1>20, <1>21, <2>1
    <2>2. CASE f # e
      BY <1>2, <1>9, <1>16, <1>20, <2>2 DEF GoneInv
    <2> QED
      BY <2>1, <2>2
  <1> QED
    BY <1>1, <1>22 DEF GoneInv

\* A queue that changes without a call or an ack.
LEMMA QueueGone ==
  ASSUME GoneInv, CalmInv', NEW e \in Peers, NEW queue2, q' = [q EXCEPT ![e] = queue2],
         Keeps(sends[e], q[e], queue2), UNCHANGED <<sends, sent_frag_map, acked_messages>>
  PROVE  GoneInv'
  <1>1. MessageInv
    BY DEF GoneInv, CalmInv, AcksInv
  <1>2. DOMAIN q = Peers /\ CallList(sends[e])
    BY <1>1 DEF MessageInv, Tables, Sender
  <1>3. Outstanding(sends[e], queue2, sent_frag_map[e], acked_messages[e])
    BY <1>2, OutstandingKept DEF GoneInv
  <1>4. ASSUME NEW f \in Peers
        PROVE  Outstanding(sends'[f], q'[f], sent_frag_map'[f], acked_messages'[f])
    <2>1. CASE f = e
      BY <1>2, <1>3, <2>1
    <2>2. CASE f # e
      BY <1>2, <2>2 DEF GoneInv
    <2> QED
      BY <2>1, <2>2
  <1> QED
    BY <1>4 DEF GoneInv

LEMMA ReceiveGone ==
  ASSUME Epoch, PacketEpoch, FragEpoch, GoneInv, NEW e \in Peers, NEW p \in net, receive(e, p)
  PROVE  GoneInv'
  <1>1. CalmInv /\ CalmInv' /\ AcksInv /\ MessageInv /\ Service!ServiceInv
    BY ReceiveCalm DEF GoneInv, CalmInv, AcksInv
  <1>2. PICK fresh, handles : /\ fresh = P!newly_acked(e, p.acks)
                              /\ handles = handles_acked(messages_in_packets[e], fresh)
    OBVIOUS
  <1>3. /\ P!process_incoming_packet(e, p) /\ acked_packets(e, fresh)
        /\ UNCHANGED <<next_message_id, sends, visiting>>
    BY <1>2, Zenon DEF receive
  <1>4. p.src = other(e)
    BY <1>3, Zenon DEF P!process_incoming_packet, other
  <1>5. fresh \in SUBSET received[other(e)]
    <2>1. fresh \subseteq p.acks
      BY <1>2 DEF P!newly_acked
    <2> QED
      BY <1>1, <1>4, <2>1, PacketView
  <1>6. PICK sq, seen, map, queue, done :
          /\ sq = sends[e] /\ seen = seen_buf[other(e)] /\ map = sent_frag_map[e]
          /\ queue = q[e] /\ done = acked_messages[e]
    OBVIOUS
  <1>7. \A h \in handles : TakenHandle(sq, seen, h)
    BY <1>1, <1>2, <1>5, <1>6, HandlesTaken
  <1>8. /\ CallList(sq) /\ Queue(sq, queue) /\ FragsKnown(sq, seen, map)
        /\ Outstanding(sq, queue, map, done)
    BY <1>1, <1>6 DEF AcksInv, MessageInv, Sender, GoneInv
  <1>9. PICK queue2, map2, done2 :
          /\ queue2 = left(queue, handles) /\ map2 = ack_fragments(map, handles)
          /\ done2 = done \cup {h.msg : h \in reported_by(map, handles)}
    OBVIOUS
  <1>10. Outstanding(sq, queue2, map2, done2)
    BY <1>7, <1>8, <1>9, OutstandingAcked
  <1>11. /\ q' = [q EXCEPT ![e] = queue2]
         /\ sent_frag_map' = [sent_frag_map EXCEPT ![e] = map2]
         /\ acked_messages' = [acked_messages EXCEPT ![e] = done2]
    BY <1>2, <1>3, <1>6, <1>9, Zenon DEF acked_packets, left, reported_by
  <1>12. DOMAIN sent_frag_map = Peers /\ DOMAIN q = Peers /\ DOMAIN acked_messages = Peers
    BY <1>1 DEF AcksInv, AckTables, MessageInv, Tables
  <1>13. ASSUME NEW f \in Peers
         PROVE  Outstanding(sends'[f], q'[f], sent_frag_map'[f], acked_messages'[f])
    <2>1. CASE f = e
      BY <1>3, <1>6, <1>10, <1>11, <1>12, <2>1
    <2>2. CASE f # e
      BY <1>3, <1>11, <1>12, <2>2 DEF GoneInv
    <2> QED
      BY <2>1, <2>2
  <1> QED
    BY <1>1, <1>13 DEF GoneInv

LEMMA NextGone ==
  ASSUME Epoch, PacketEpoch, FragEpoch, FragsFit, GoneInv, [Next]_vars
  PROVE  GoneInv'
  <1>1. CalmInv /\ CalmInv' /\ MessageInv
    BY NextCalm DEF GoneInv, CalmInv, AcksInv
  <1>2. ASSUME UNCHANGED sender_vars PROVE GoneInv'
    BY <1>1, <1>2 DEF GoneInv, sender_vars
  <1>3. CASE UNCHANGED vars
    BY <1>2, <1>3 DEF vars
  <1>4. ASSUME NEW e \in Peers, calls < Len(Workload),
               send_message(e, Workload[calls + 1][2], Workload[calls + 1][3])
        PROVE  GoneInv'
    BY <1>1, <1>4, CallsLeft, SendMessageGone
  <1>5. ASSUME NEW e \in Peers, update(e) PROVE GoneInv'
    <2>1. PICK queue2 : queue2 = {older(m) : m \in q[e]}
      OBVIOUS
    <2>2. /\ q' = [q EXCEPT ![e] = queue2]
          /\ UNCHANGED <<sends, sent_frag_map, acked_messages>>
      BY <1>5, <2>1 DEF update
    <2>3. Keeps(sends[e], q[e], queue2)
      BY <1>1, <2>1, KeepsOlder DEF MessageInv, Sender
    <2> QED
      BY <1>1, <2>2, <2>3, QueueGone
  <1>6. ASSUME NEW e \in Peers, NEW batch \in SUBSET ready(q[e]), compose_packets(e, batch)
        PROVE  GoneInv'
    <2>1. PICK queue2 : queue2 = after_writing(q[e], batch)
      OBVIOUS
    <2>2. /\ q' = [q EXCEPT ![e] = queue2]
          /\ UNCHANGED <<sends, sent_frag_map, acked_messages>>
      BY <1>6, <2>1, Zenon DEF compose_packets
    <2>3. batch \in SUBSET q[e] /\ Queue(sends[e], q[e])
      BY <1>1 DEF ready, MessageInv, Sender
    <2>4. Keeps(sends[e], q[e], queue2)
      BY <2>1, <2>3, KeepsWritten
    <2> QED
      BY <1>1, <2>2, <2>4, QueueGone
  <1>7. ASSUME NEW e \in Peers, compose_refused(e) PROVE GoneInv'
    BY <1>2, <1>7 DEF compose_refused
  <1>8. ASSUME NEW e \in Peers, send_keepalive(e) PROVE GoneInv'
    BY <1>2, <1>8 DEF send_keepalive
  <1>9. ASSUME NEW e \in Peers, NEW p \in net, receive(e, p) PROVE GoneInv'
    BY <1>9, ReceiveGone
  <1> QED
    BY <1>3, <1>4, <1>5, <1>6, <1>7, <1>8, <1>9 DEF Next

\* The calls of which a part is queued.
calls_in(queue) == {m.body.msg : m \in queue}

\* A reliable call that was not reported is queued.
LEMMA UnreportedQueued ==
  ASSUME NEW sq, NEW queue, NEW map, NEW done, Outstanding(sq, queue, map, done),
         NEW k \in 1 .. Len(sq), sq[k].channel \in Reliable, k \notin done
  PROVE  k \in calls_in(queue)
  <1>1. PICK i : InQueue(queue, k, i)
    <2>1. CASE sq[k].parts = 1
      BY <2>1 DEF Outstanding
    <2>2. CASE sq[k].parts # 1
      <3>1. Awaits(sq, queue, map, k)
        BY <2>2 DEF Outstanding
      <3> QED
        BY <3>1 DEF Awaits
    <2> QED
      BY <2>1, <2>2
  <1>2. PICK m \in queue : m.body = [msg |-> k, part |-> i]
    BY <1>1 DEF InQueue
  <1>3. m.body.msg = k
    BY <1>2
  <1> QED
    BY <1>3 DEF calls_in

\* A reliable message of which nothing is queued any more was reported to the
\* application as acked: dismissed_by_ack and the count of fragments agree,
\* however acks of its fragments and of their resends arrive.
THEOREM NoSilentLoss ==
  ASSUME Epoch, PacketEpoch, FragEpoch, FragsFit
  PROVE  Spec => []GoneMeansReported
  <1>1. Init => GoneInv
    BY InitGone
  <1>2. GoneInv /\ [Next]_vars => GoneInv'
    BY NextGone
  <1>3. ASSUME GoneInv PROVE GoneMeansReported
    <2> SUFFICES ASSUME NEW e \in Peers, NEW k \in 1 .. Len(sends[e]),
                        sends[e][k].channel \in Reliable, k \notin acked_messages[e]
                 PROVE  \E m \in q[e] : m.body.msg = k
      BY DEF GoneMeansReported
    <2>1. Outstanding(sends[e], q[e], sent_frag_map[e], acked_messages[e])
      BY <1>3 DEF GoneInv
    <2> QED
      BY <2>1, UnreportedQueued DEF calls_in
  <1> QED
    BY <1>1, <1>2, <1>3, PTL DEF Spec


-----------------------------------------------------------------------------
(* Two Picklebacks implement MessageService *)

\* The calls as MessageService knows them.
asked(sq) == [k \in DOMAIN sq |-> [channel |-> sq[k].channel, parts |-> sq[k].parts]]

LEMMA AskedIs ==
  ASSUME NEW sq, CallList(sq)
  PROVE  /\ asked(sq) \in Seq([channel : Channels, parts : 1 .. MaxParts])
         /\ Len(asked(sq)) = Len(sq)
         /\ \A k \in 1 .. Len(sq) :
              asked(sq)[k] = [channel |-> sq[k].channel, parts |-> sq[k].parts]
  <1>1. sq \in Seq(Calls) /\ Len(sq) \in Nat /\ DOMAIN sq = 1 .. Len(sq)
    BY DEF CallList
  <1>2. \A k \in 1 .. Len(sq) : sq[k].channel \in Channels /\ sq[k].parts \in 1 .. MaxParts
    BY CallFacts, IdFacts
  <1> QED
    BY <1>1, <1>2 DEF asked

LEMMA AskedMore ==
  ASSUME NEW sq, NEW sq2, CallList(sq), CallList(sq2), Longer(sq, sq2), NEW c, NEW n,
         Len(sq2) = Len(sq) + 1, sq2[Len(sq2)].channel = c, sq2[Len(sq2)].parts = n
  PROVE  asked(sq2) = Append(asked(sq), [channel |-> c, parts |-> n])
  <1>1. PICK a, b, x : a = asked(sq) /\ b = asked(sq2) /\ x = [channel |-> c, parts |-> n]
    OBVIOUS
  <1>2. PICK T : T = [channel : Channels, parts : 1 .. MaxParts]
    OBVIOUS
  <1>3. a \in Seq(T) /\ b \in Seq(T) /\ Len(a) = Len(sq) /\ Len(b) = Len(a) + 1
    BY <1>1, <1>2, AskedIs
  <1>4. Len(sq) \in Nat
    BY DEF CallList
  <1>5. b[Len(a) + 1] = x
    BY <1>1, <1>3, <1>4, AskedIs
  <1>6. \A k \in 1 .. Len(a) : b[k] = a[k]
    <2> TAKE k \in 1 .. Len(a)
    <2>1. k \in 1 .. Len(sq) /\ k \in 1 .. Len(sq2) /\ sq2[k] = sq[k]
      BY <1>3, LongerSame
    <2>2. /\ asked(sq)[k] = [channel |-> sq[k].channel, parts |-> sq[k].parts]
          /\ asked(sq2)[k] = [channel |-> sq2[k].channel, parts |-> sq2[k].parts]
      BY <2>1, AskedIs
    <2> QED
      BY <1>1, <2>1, <2>2
  <1>7. x \in T
    BY <1>3, <1>4, <1>5
  <1>8. b = Append(a, x)
    BY <1>3, <1>5, <1>6, <1>7
  <1> QED
    BY <1>1, <1>8

\* What the applications have, in the terms of MessageService.
LEMMA PromiseTerms ==
  ASSUME MessageInv, NEW e \in Peers
  PROVE  /\ Promise!other(e) = other(e) /\ other(e) \in Peers
         /\ service_sends[e] = asked(sends[e]) /\ Len(service_sends[e]) = Len(sends[e])
         /\ \A k \in 1 .. Len(sends[e]) : Promise!arrival(e, k) = whole_of(sends[e], k)
         /\ Promise!arrived(e) = {k \in 1 .. Len(sends[e]) :
                                    whole_of(sends[e], k) \in DOMAIN delivered[other(e)]}
  <1>1. Promise!other(e) = other(e) /\ other(e) \in Peers
    BY OtherPeer DEF Promise!other, other, P!other
  <1>2. CallList(sends[e])
    BY DEF MessageInv, Sender
  <1>3. service_sends[e] = asked(sends[e])
    BY DEF service_sends, asked
  <1>4. /\ Len(service_sends[e]) = Len(sends[e])
        /\ \A k \in 1 .. Len(sends[e]) :
             service_sends[e][k] = [channel |-> sends[e][k].channel, parts |-> sends[e][k].parts]
    BY <1>2, <1>3, AskedIs
  <1>5. \A k \in 1 .. Len(sends[e]) : Promise!arrival(e, k) = whole_of(sends[e], k)
    <2> TAKE k \in 1 .. Len(sends[e])
    <2>1. PICK x, c, n : /\ x = service_sends[e][k]
                         /\ c = sends[e][k].channel /\ n = sends[e][k].parts
      OBVIOUS
    <2>2. x = [channel |-> c, parts |-> n]
      BY <1>4, <2>1
    <2>3. x.channel = c /\ x.parts = n
      BY <2>2
    <2> QED
      BY <2>1, <2>3 DEF Promise!arrival, whole_of, bodies, PartsOf
  <1>6. Promise!arrived(e) = {k \in 1 .. Len(sends[e]) :
                                whole_of(sends[e], k) \in DOMAIN delivered[other(e)]}
    BY <1>1, <1>4, <1>5 DEF Promise!arrived, Promise!BagIn, Promise!BagToSet
  <1> QED
    BY <1>1, <1>3, <1>4, <1>5, <1>6

\* Every item is in the bag once.
Single(B) == B = [x \in DOMAIN B |-> 1]

\* The bag with one more of each item in S.
joined(B, S) ==
  [x \in DOMAIN B \cup S |->
     (IF x \in DOMAIN B THEN B[x] ELSE 0) + (IF x \in S THEN 1 ELSE 0)]

LEMMA BagGrows ==
  ASSUME NEW B, NEW B2, Single(B), Single(B2), DOMAIN B \subseteq DOMAIN B2,
         NEW S, S = DOMAIN B2 \ DOMAIN B
  PROVE  B2 = joined(B, S)
  <1>1. DOMAIN B2 = DOMAIN B \cup S
    OBVIOUS
  <1>2. \A x \in DOMAIN B2 :
          (IF x \in DOMAIN B THEN B[x] ELSE 0) + (IF x \in S THEN 1 ELSE 0) = 1
    <2> TAKE x \in DOMAIN B2
    <2>1. CASE x \in DOMAIN B
      <3>1. B[x] = 1 /\ x \notin S
        BY <2>1 DEF Single
      <3>2. 1 + 0 = 1
        OBVIOUS
      <3> QED
        BY <2>1, <3>1, <3>2
    <2>2. CASE x \notin DOMAIN B
      <3>1. x \in S
        BY <2>2
      <3>2. 0 + 1 = 1
        OBVIOUS
      <3> QED
        BY <2>2, <3>1, <3>2
    <2> QED
      BY <2>1, <2>2
  <1> QED
    BY <1>1, <1>2 DEF Single, joined

\* Under Recent, what the application has it keeps: a part refused once is
\* refused for ever, and what is refused has been got.
LEMMA InboxGrows ==
  ASSUME Epoch, Recent, NEW sq, CallList(sq), NEW seen, NEW ip, NEW inbox,
         Receiver(sq, seen, ip, inbox), NEW new, NEW ip2, NEW inbox2,
         Receiver(sq, new, ip2, inbox2), Forward(seen, new)
  PROVE  DOMAIN inbox \subseteq DOMAIN inbox2
  <1> SUFFICES ASSUME NEW x \in DOMAIN inbox PROVE x \in DOMAIN inbox2
    OBVIOUS
  <1>1. PICK k \in 1 .. Len(sq) :
          x = whole_of(sq, k) /\ \A i \in PartsOf(sq, k) : TakenPart(sq, seen, k, i)
    BY DEF Receiver, Inbox
  <1>2. Longer(sq, sq)
    BY DEF Longer, CallList
  <1>3. \A i \in PartsOf(sq, k) : TakenPart(sq, new, k, i)
    BY <1>1, <1>2, TakenStays
  <1>4. \A i \in PartsOf(sq, k) : Got(sq, ip2, inbox2, k, i)
    BY <1>3, TakenGot
  <1> QED
    BY <1>1, <1>4, AllGotWhole

\* The calls queued are calls, on the channel of their parts.
LEMMA QueuedCall ==
  ASSUME NEW sq, NEW queue, Queue(sq, queue), NEW m \in queue
  PROVE  /\ m.body.msg \in 1 .. Len(sq) /\ m.channel = sq[m.body.msg].channel
         /\ \E i \in PartsOf(sq, m.body.msg) : m.body = [msg |-> m.body.msg, part |-> i]
  <1>1. IsQueued(sq, m)
    BY DEF Queue
  <1>2. PICK k \in 1 .. Len(sq) : \E i \in PartsOf(sq, k) : \E age \in 0 .. ResendTicks :
          m = queued(sq, k, i, age)
    BY <1>1 DEF IsQueued
  <1>3. PICK i \in PartsOf(sq, k) : \E age \in 0 .. ResendTicks : m = queued(sq, k, i, age)
    BY <1>2
  <1>4. PICK age \in 0 .. ResendTicks : m = queued(sq, k, i, age)
    BY <1>3
  <1>5. m.body = [msg |-> k, part |-> i] /\ m.channel = sq[k].channel
    BY <1>4 DEF queued
  <1>6. m.body.msg = k
    BY <1>5
  <1> QED
    BY <1>5, <1>6

\* The queues of MessageService follow from q.
LEMMA KeptCalls ==
  ASSUME MessageInv, NEW e \in Peers, NEW queue2, q' = [q EXCEPT ![e] = queue2]
  PROVE  /\ service_kept[e] = calls_in(q[e])
         /\ service_kept' = [service_kept EXCEPT ![e] = calls_in(queue2)]
  <1>1. DOMAIN q = Peers
    BY DEF MessageInv, Tables
  <1> QED
    BY <1>1 DEF service_kept, calls_in

\* send_message.
LEMMA EnqueuedCalls ==
  ASSUME NEW sq, NEW k, NEW n \in Nat \ {0}, NEW queue
  PROVE  calls_in(queue \cup enqueued_parts(sq, k, n)) = calls_in(queue) \cup {k}
  <1>1. \A i, age : queued(sq, k, i, age).body.msg = k
    <2> TAKE i, age
    <2>1. queued(sq, k, i, age).body = [msg |-> k, part |-> i]
      BY DEF queued
    <2> QED
      BY <2>1
  <1>2. \A m \in enqueued_parts(sq, k, n) : m.body.msg = k
    BY <1>1 DEF enqueued_parts
  <1>3. PICK m : m = queued(sq, k, 0, ResendTicks)
    OBVIOUS
  <1>4. 0 \in 0 .. n - 1
    OBVIOUS
  <1>5. m \in enqueued_parts(sq, k, n)
    BY <1>3, <1>4 DEF enqueued_parts
  <1> QED
    BY <1>2, <1>5 DEF calls_in

LEMMA SendPromise ==
  ASSUME Epoch, MessageInv, NEW e \in Peers, NEW c \in Channels, NEW n \in 1 .. MaxParts,
         Len(sends[e]) < Len(Workload), send_message(e, c, n)
  PROVE  Promise!Send(e, c, n)
  <1>1. PICK sq2 :
          /\ MakesCall(sends[e], next_message_id[e], q[e], c, n, sq2)
          /\ sends' = [sends EXCEPT ![e] = sq2]
          /\ next_message_id' = [next_message_id EXCEPT ![e] = next_message_id[e] + n]
          /\ enqueued(e, c, n) = enqueued_parts(sq2, Len(sq2), n)
    BY SendMessageIs
  <1>2. PICK sq, next, queue : sq = sends[e] /\ next = next_message_id[e] /\ queue = q[e]
    OBVIOUS
  <1>3. CallList(sq) /\ DOMAIN sends = Peers
    BY <1>2 DEF MessageInv, Sender, Tables
  <1>4. /\ CallList(sq2) /\ Longer(sq, sq2) /\ Len(sq2) = Len(sq) + 1
        /\ sq2[Len(sq2)].parts = n /\ sq2[Len(sq2)].channel = c
    BY <1>1, <1>2, CallMade
  <1>5. q' = [q EXCEPT ![e] = queue \cup enqueued_parts(sq2, Len(sq2), n)]
    BY <1>1, <1>2, Zenon DEF send_message
  <1>6. n \in Nat \ {0}
    BY IdFacts
  <1>7. service_kept' = [service_kept EXCEPT ![e] = service_kept[e] \cup {Len(sq2)}]
    <2>1. service_kept[e] = calls_in(queue)
          /\ service_kept' = [service_kept EXCEPT ![e] =
               calls_in(queue \cup enqueued_parts(sq2, Len(sq2), n))]
      BY <1>2, <1>5, KeptCalls
    <2>2. calls_in(queue \cup enqueued_parts(sq2, Len(sq2), n)) = calls_in(queue) \cup {Len(sq2)}
      BY <1>6, EnqueuedCalls
    <2> QED
      BY <2>1, <2>2
  <1>8. asked(sq2) = Append(asked(sq), [channel |-> c, parts |-> n])
    BY <1>3, <1>4, AskedMore
  <1>9. service_sends' = [service_sends EXCEPT ![e] = asked(sq2)]
    BY <1>1, <1>3 DEF service_sends, asked
  <1>10. service_sends[e] = asked(sq) /\ Len(service_sends[e]) = Len(sq)
    BY <1>2, PromiseTerms
  <1>11. UNCHANGED <<delivered, acked_messages>>
    BY DEF send_message, receiver_vars
  <1> QED
    BY <1>4, <1>7, <1>8, <1>9, <1>10, <1>11 DEF Promise!Send

\* update.
LEMMA OlderCalls ==
  ASSUME NEW queue
  PROVE  calls_in({older(m) : m \in queue}) = calls_in(queue)
  <1>1. \A m \in queue : older(m).body = m.body
    BY DEF older
  <1> QED
    BY <1>1 DEF calls_in

\* compose_packets: only calls on unreliable channels leave the queue.
LEMMA WrittenCalls ==
  ASSUME NEW sq, NEW queue, Queue(sq, queue), NEW batch \in SUBSET queue
  PROVE  /\ calls_in(after_writing(queue, batch)) \subseteq calls_in(queue)
         /\ \A k \in calls_in(queue) \ calls_in(after_writing(queue, batch)) :
              k \in 1 .. Len(sq) /\ sq[k].channel \notin Reliable
  <1>1. PICK queue2 : queue2 = after_writing(queue, batch)
    OBVIOUS
  <1>2. ASSUME NEW x \in queue2 PROVE \E m \in queue : m.body = x.body
    <2>1. CASE x \in queue
      BY <2>1
    <2>2. CASE x \notin queue
      <3>1. PICK m \in batch : x = [m EXCEPT !.age = 0]
        BY <1>1, <2>2 DEF after_writing
      <3>2. PICK aged : aged = [m EXCEPT !.age = 0]
        OBVIOUS
      <3>3. aged.body = m.body
        BY <3>2
      <3> QED
        BY <3>1, <3>2, <3>3
    <2> QED
      BY <2>1, <2>2
  <1>3. calls_in(queue2) \subseteq calls_in(queue)
    BY <1>2 DEF calls_in
  <1>4. ASSUME NEW k \in calls_in(queue), k \notin calls_in(queue2)
        PROVE  k \in 1 .. Len(sq) /\ sq[k].channel \notin Reliable
    <2>1. PICK m \in queue : m.body.msg = k
      BY DEF calls_in
    <2>2. PICK i \in PartsOf(sq, k) : m.body = [msg |-> k, part |-> i]
      BY <2>1, QueuedCall
    <2>3. k \in 1 .. Len(sq) /\ InQueue(queue, k, i)
      BY <2>1, <2>2, QueuedCall DEF InQueue
    <2>4. ~ InQueue(queue2, k, i)
      <3> SUFFICES ASSUME NEW x \in queue2, x.body = [msg |-> k, part |-> i] PROVE FALSE
        BY DEF InQueue
      <3>1. x.body.msg = k
        OBVIOUS
      <3> QED
        BY <1>4, <3>1 DEF calls_in
    <2>5. Keeps(sq, queue, queue2)
      BY <1>1, KeepsWritten
    <2> QED
      BY <2>3, <2>4, <2>5 DEF Keeps
  <1> QED
    BY <1>1, <1>3, <1>4

LEMMA ComposePromise ==
  ASSUME MessageInv, NEW e \in Peers, NEW batch \in SUBSET ready(q[e]),
         compose_packets(e, batch)
  PROVE  \E gone \in SUBSET service_kept[e] : Promise!Write(e, gone)
  <1>1. PICK sq, queue, queue2 :
          /\ sq = sends[e] /\ queue = q[e] /\ queue2 = after_writing(queue, batch)
    OBVIOUS
  <1>2. /\ q' = [q EXCEPT ![e] = queue2] /\ UNCHANGED <<sends, delivered, acked_messages>>
    BY <1>1, Zenon DEF compose_packets, receiver_vars
  <1>3. Queue(sq, queue) /\ batch \in SUBSET queue
    BY <1>1 DEF MessageInv, Sender, ready
  <1>4. /\ calls_in(queue2) \subseteq calls_in(queue)
        /\ \A k \in calls_in(queue) \ calls_in(queue2) :
             k \in 1 .. Len(sq) /\ sq[k].channel \notin Reliable
    BY <1>1, <1>3, WrittenCalls
  <1>5. /\ service_kept[e] = calls_in(queue)
        /\ service_kept' = [service_kept EXCEPT ![e] = calls_in(queue2)]
    BY <1>1, <1>2, KeptCalls
  <1>6. PICK gone : gone = calls_in(queue) \ calls_in(queue2)
    OBVIOUS
  <1>7. service_kept[e] \ gone = calls_in(queue2) /\ gone \in SUBSET service_kept[e]
    BY <1>4, <1>5, <1>6
  <1>8. ASSUME NEW k \in gone PROVE service_sends[e][k].channel \notin Reliable
    <2>1. k \in 1 .. Len(sq) /\ sq[k].channel \notin Reliable
      BY <1>4, <1>6, <1>8
    <2>2. CallList(sq) /\ service_sends[e] = asked(sq)
      BY <1>1, PromiseTerms DEF MessageInv, Sender
    <2>3. asked(sq)[k] = [channel |-> sq[k].channel, parts |-> sq[k].parts]
      BY <2>1, <2>2, AskedIs
    <2> QED
      BY <2>1, <2>2, <2>3
  <1>9. UNCHANGED service_sends
    BY <1>2 DEF service_sends
  <1> QED
    BY <1>2, <1>5, <1>7, <1>8, <1>9 DEF Promise!Write

\* A processed packet: what the application gets is new to it.
LEMMA ReceiveDelivers ==
  ASSUME Epoch, Recent, MessageInv, NEW e \in Peers, NEW p \in net, receive(e, p)
  PROVE  \E new \in SUBSET (1 .. Len(sends[other(e)]) \ Promise!arrived(other(e))) :
           delivered' = [delivered EXCEPT ![e] =
             Promise!(+)(delivered[e],
                         Promise!SetToBag({Promise!arrival(other(e), k) : k \in new}))]
  <1>1. PICK seen2, ip2, inbox2 :
          /\ delivered' = [delivered EXCEPT ![e] = inbox2]
          /\ Receiver(sends[other(e)], seen2, ip2, inbox2) /\ Forward(seen_buf[e], seen2)
    BY ReceiveIs
  <1>2. PICK sq, inbox : sq = sends[other(e)] /\ inbox = delivered[e]
    OBVIOUS
  <1>3. CallList(sq) /\ Receiver(sq, seen_buf[e], in_progress[e], inbox)
    BY <1>2, OtherPeer DEF MessageInv, Sender
  <1>4. DOMAIN inbox \subseteq DOMAIN inbox2
    BY <1>1, <1>2, <1>3, InboxGrows
  <1>5. /\ Single(inbox) /\ Single(inbox2)
        /\ \A x \in DOMAIN inbox2 : \E k \in 1 .. Len(sq) : x = whole_of(sq, k)
    BY <1>1, <1>2, <1>3 DEF Receiver, Inbox, Single
  <1>6. PICK new : new = {k \in 1 .. Len(sq) : whole_of(sq, k) \in DOMAIN inbox2 \ DOMAIN inbox}
    OBVIOUS
  <1>7. /\ \A k \in 1 .. Len(sq) : Promise!arrival(other(e), k) = whole_of(sq, k)
        /\ Promise!arrived(other(e)) = {k \in 1 .. Len(sq) : whole_of(sq, k) \in DOMAIN inbox}
    BY <1>2, OtherPeer, PromiseTerms
  <1>8. PICK S : S = {Promise!arrival(other(e), k) : k \in new}
    OBVIOUS
  <1>9. S = DOMAIN inbox2 \ DOMAIN inbox
    <2>1. S = {whole_of(sq, k) : k \in new}
      BY <1>6, <1>7, <1>8
    <2> QED
      BY <1>5, <1>6, <2>1
  <1>10. inbox2 = joined(inbox, S)
    BY <1>4, <1>5, <1>9, BagGrows
  <1>11. inbox2 = Promise!(+)(inbox, Promise!SetToBag(S))
    <2>1. PICK B : B = Promise!SetToBag(S)
      OBVIOUS
    <2>2. DOMAIN B = S /\ \A x \in S : B[x] = 1
      BY <2>1 DEF Promise!SetToBag
    <2>3. Promise!(+)(inbox, B) = [x \in DOMAIN inbox \cup DOMAIN B |->
                    (IF x \in DOMAIN inbox THEN inbox[x] ELSE 0)
                    + (IF x \in DOMAIN B THEN B[x] ELSE 0)]
      BY DEF Promise!(+)
    <2>4. \A x : (IF x \in DOMAIN B THEN B[x] ELSE 0) = (IF x \in S THEN 1 ELSE 0)
      BY <2>2
    <2>5. Promise!(+)(inbox, B) = inbox2
      BY <1>10, <2>2, <2>3, <2>4 DEF joined
    <2> QED
      BY <2>1, <2>5
  <1>12. new \in SUBSET (1 .. Len(sq) \ Promise!arrived(other(e)))
    BY <1>6, <1>7
  <1> QED
    BY <1>1, <1>2, <1>8, <1>11, <1>12

\* What it is told of its own calls is true, and no reliable one is dropped
\* that it was not told of.
LEMMA ReceiveReports ==
  ASSUME Epoch, PacketEpoch, FragEpoch, FragsFit, Recent, GoneInv,
         NEW e \in Peers, NEW p \in net, receive(e, p)
  PROVE  \E done \in SUBSET Promise!arrived(e), gone \in SUBSET service_kept[e] :
           /\ acked_messages' = [acked_messages EXCEPT ![e] = acked_messages[e] \cup done]
           /\ gone \subseteq acked_messages'[e]
           /\ service_kept' = [service_kept EXCEPT ![e] = service_kept[e] \ gone]
  <1>1. GoneInv' /\ AcksInv /\ AcksInv' /\ MessageInv /\ MessageInv'
    BY ReceiveGone DEF GoneInv, CalmInv, AcksInv
  <1>2. PICK handles, more :
          /\ q' = [q EXCEPT ![e] = left(q[e], handles)]
          /\ acked_messages' = [acked_messages EXCEPT ![e] = acked_messages[e] \cup more]
    BY Zenon DEF receive, acked_packets, left
  <1>3. PICK inbox2 : delivered' = [delivered EXCEPT ![e] = inbox2]
    BY <1>1, ReceiveIs
  <1>4. UNCHANGED sends
    BY Zenon DEF receive
  <1>5. /\ DOMAIN q = Peers /\ DOMAIN acked_messages = Peers /\ DOMAIN delivered = Peers
        /\ other(e) \in Peers /\ other(e) # e
    BY <1>1, OtherPeer DEF AcksInv, AckTables, MessageInv, Tables
  <1>6. PICK sq, queue, queue2, done :
          /\ sq = sends[e] /\ queue = q[e] /\ queue2 = left(queue, handles)
          /\ done = acked_messages'[e]
    OBVIOUS
  <1>7. queue2 = q'[e] /\ delivered'[other(e)] = delivered[other(e)] /\ sends'[e] = sq
        /\ acked_messages[e] \subseteq done
    BY <1>2, <1>3, <1>4, <1>5, <1>6
  <1>8. done \in SUBSET Promise!arrived(e)
    <2>1. /\ CallList(sq)
          /\ Receiver(sq, seen_buf'[other(e)], in_progress'[other(e)], delivered[other(e)])
      <3>1. other(other(e)) = e
        BY OtherPeer
      <3>2. CallList(sends'[e])
        BY <1>1 DEF MessageInv, Sender
      <3>3. Receiver(sends'[other(other(e))], seen_buf'[other(e)], in_progress'[other(e)],
                     delivered'[other(e)])
        BY <1>1, <1>5 DEF MessageInv
      <3> QED
        BY <1>7, <3>1, <3>2, <3>3
    <2>2. Reported(sq, seen_buf'[other(e)], done)
      BY <1>1, <1>6, <1>7 DEF AcksInv
    <2>3. \A k \in done : k \in 1 .. Len(sq) /\ whole_of(sq, k) \in DOMAIN delivered[other(e)]
      BY <2>1, <2>2, ReportedWhole
    <2>4. Promise!arrived(e) = {k \in 1 .. Len(sq) :
                                  whole_of(sq, k) \in DOMAIN delivered[other(e)]}
      BY <1>1, <1>6, PromiseTerms
    <2> QED
      BY <2>3, <2>4
  <1>9. acked_messages' = [acked_messages EXCEPT ![e] = acked_messages[e] \cup done]
    BY <1>2, <1>5, <1>6
  <1>10. /\ service_kept[e] = calls_in(queue)
         /\ service_kept' = [service_kept EXCEPT ![e] = calls_in(queue2)]
    BY <1>1, <1>2, <1>6, KeptCalls
  <1>11. PICK gone : gone = calls_in(queue) \ calls_in(queue2)
    OBVIOUS
  <1>12. calls_in(queue2) \subseteq calls_in(queue)
    BY <1>6 DEF left, calls_in
  <1>13. gone \in SUBSET service_kept[e] /\ service_kept[e] \ gone = calls_in(queue2)
    BY <1>10, <1>11, <1>12
  <1>14. gone \subseteq acked_messages'[e]
    <2> SUFFICES ASSUME NEW k \in gone, k \notin done PROVE FALSE
      BY <1>6
    <2>1. PICK m \in queue : m.body.msg = k
      BY <1>11 DEF calls_in
    <2>2. m \notin queue2
      BY <1>11, <2>1 DEF calls_in
    <2>3. m.channel \in Reliable
      BY <1>6, <2>1, <2>2 DEF left, dismissed_by_ack
    <2>4. Queue(sq, queue)
      BY <1>1, <1>6 DEF MessageInv, Sender
    <2>5. k \in 1 .. Len(sq) /\ sq[k].channel \in Reliable
      BY <2>1, <2>3, <2>4, QueuedCall
    <2>6. Outstanding(sq, queue2, sent_frag_map'[e], done)
      BY <1>1, <1>6, <1>7 DEF GoneInv
    <2>7. k \in calls_in(queue2)
      BY <2>5, <2>6, UnreportedQueued
    <2> QED
      BY <1>11, <2>7
  <1> QED
    BY <1>8, <1>9, <1>10, <1>13, <1>14

LEMMA ReceivePromise ==
  ASSUME Epoch, PacketEpoch, FragEpoch, FragsFit, Recent, GoneInv,
         NEW e \in Peers, NEW p \in net, receive(e, p)
  PROVE  Promise!Next
  <1>1. MessageInv
    BY DEF GoneInv, CalmInv, AcksInv
  <1>2. PICK new \in SUBSET (1 .. Len(sends[other(e)]) \ Promise!arrived(other(e))) :
          delivered' = [delivered EXCEPT ![e] =
            Promise!(+)(delivered[e],
                        Promise!SetToBag({Promise!arrival(other(e), k) : k \in new}))]
    BY <1>1, ReceiveDelivers
  <1>3. PICK done \in SUBSET Promise!arrived(e), gone \in SUBSET service_kept[e] :
          /\ acked_messages' = [acked_messages EXCEPT ![e] = acked_messages[e] \cup done]
          /\ gone \subseteq acked_messages'[e]
          /\ service_kept' = [service_kept EXCEPT ![e] = service_kept[e] \ gone]
    BY ReceiveReports
  <1>4. UNCHANGED service_sends
    <2>1. UNCHANGED sends
      BY Zenon DEF receive
    <2> QED
      BY <2>1 DEF service_sends
  <1>5. Promise!other(e) = other(e) /\ other(e) \in Peers
    BY <1>1, PromiseTerms
  <1>6. Promise!Receive(e, new, done, gone)
    BY <1>2, <1>3, <1>4, <1>5 DEF Promise!Receive
  <1>7. new \in SUBSET (1 .. Len(service_sends[Promise!other(e)])
                          \ Promise!arrived(Promise!other(e)))
    <2>1. Len(service_sends[other(e)]) = Len(sends[other(e)])
      BY <1>1, <1>5, PromiseTerms
    <2> QED
      BY <1>2, <1>5, <2>1
  <1> QED
    BY <1>3, <1>6, <1>7 DEF Promise!Next

LEMMA NextPromise ==
  ASSUME Epoch, PacketEpoch, FragEpoch, FragsFit, Recent, GoneInv, [Next]_vars
  PROVE  [Promise!Next]_(Promise!vars)
  <1>1. MessageInv
    BY DEF GoneInv, CalmInv, AcksInv
  <1>2. ASSUME UNCHANGED <<sends, delivered, acked_messages, q>>
        PROVE  UNCHANGED Promise!vars
    BY <1>2 DEF Promise!vars, service_sends, service_kept
  <1>3. CASE UNCHANGED vars
    BY <1>2, <1>3 DEF vars, sender_vars, receiver_vars
  <1>4. ASSUME NEW e \in Peers, calls < Len(Workload),
               send_message(e, Workload[calls + 1][2], Workload[calls + 1][3])
        PROVE  Promise!Next
    <2>1. PICK c, n : c = Workload[calls + 1][2] /\ n = Workload[calls + 1][3]
      OBVIOUS
    <2>2. c \in Channels /\ n \in 1 .. MaxParts /\ Len(sends[e]) < Len(Workload)
      BY <1>1, <1>4, <2>1, CallsLeft
    <2>3. Promise!Send(e, c, n)
      BY <1>1, <1>4, <2>1, <2>2, SendPromise
    <2> QED
      BY <2>2, <2>3 DEF Promise!Next
  <1>5. ASSUME NEW e \in Peers, update(e) PROVE UNCHANGED Promise!vars
    <2>1. /\ q' = [q EXCEPT ![e] = {older(m) : m \in q[e]}]
          /\ UNCHANGED <<sends, delivered, acked_messages>>
      BY <1>5 DEF update, receiver_vars
    <2>2. service_kept' = [service_kept EXCEPT ![e] = service_kept[e]]
      BY <1>1, <2>1, KeptCalls, OlderCalls
    <2>3. service_kept' = service_kept
      BY <2>2 DEF service_kept
    <2> QED
      BY <2>1, <2>3 DEF Promise!vars, service_sends
  <1>6. ASSUME NEW e \in Peers, NEW batch \in SUBSET ready(q[e]), compose_packets(e, batch)
        PROVE  Promise!Next
    <2>1. PICK gone \in SUBSET service_kept[e] : Promise!Write(e, gone)
      BY <1>1, <1>6, ComposePromise
    <2> QED
      BY <2>1 DEF Promise!Next
  <1>7. ASSUME NEW e \in Peers, compose_refused(e) PROVE UNCHANGED Promise!vars
    BY <1>2, <1>7 DEF compose_refused, sender_vars, receiver_vars
  <1>8. ASSUME NEW e \in Peers, send_keepalive(e) PROVE UNCHANGED Promise!vars
    BY <1>2, <1>8 DEF send_keepalive, sender_vars, receiver_vars
  <1>9. ASSUME NEW e \in Peers, NEW p \in net, receive(e, p) PROVE Promise!Next
    BY <1>9, ReceivePromise
  <1> QED
    BY <1>3, <1>4, <1>5, <1>6, <1>7, <1>8, <1>9 DEF Next

\* Two Picklebacks implement MessageService, step by step: each call reaches
\* the peer's application once and whole, acks are told only of calls that did,
\* and a reliable call is resent until it is reported, whatever happens to the
\* packets that carry its parts and their acks.
THEOREM MessagesRefinement ==
  ASSUME Epoch, PacketEpoch, FragEpoch, FragsFit, Recent
  PROVE  Spec => ImplementsMessages
  <1>1. Init => Promise!Init
    BY DEF Init, Promise!Init, Promise!EmptyBag, Promise!SetToBag, EmptyBag, SetToBag,
       service_sends, service_kept
  <1>2. Init => GoneInv
    BY InitGone
  <1>3. GoneInv /\ [Next]_vars => GoneInv'
    BY NextGone
  <1>4. GoneInv /\ [Next]_vars => [Promise!Next]_(Promise!vars)
    BY NextPromise
  <1> QED
    BY <1>1, <1>2, <1>3, <1>4, PTL DEF Spec, Promise!Spec, ImplementsMessages
=============================================================================
