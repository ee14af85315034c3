------------------------- MODULE PacketLayerProofs -------------------------
(***************************************************************************)
(* Theorems about PacketLayer, for any two peers, any buffer sizes, any    *)
(* limits and any number of packets within one epoch of packet numbers.    *)
(***************************************************************************)
EXTENDS PacketLayer, WellFoundedInduction, TLAPS

\* The numbers used, and the windows behind them, fit in half the number space:
\* comparisons of numbers mean what they should (an epoch).
ASSUME EpochAssumption ==
  /\ MaxSeq + SentSize < Half
  /\ MaxSeq + RecvSize < Half

\* The packet numbers of one epoch.
Ids == 0 .. MaxSeq

OptIds == Ids \cup {None}

SentEntry == [acked : BOOLEAN, acked_up_to : Ids]

SentBuffers == [sequence : Ids, tag : [0 .. SentSize - 1 -> Ids \cup {NoSeq}],
                entry : [0 .. SentSize - 1 -> SentEntry]]

RecvBuffers == [sequence : Ids, tag : [0 .. RecvSize - 1 -> Ids \cup {NoSeq}],
                entry : [0 .. RecvSize - 1 -> ReceivedMeta]]

EpochPackets == [src : Peers, id : Ids, type : PacketTypes, acks : SUBSET Ids,
                 payload : Payloads]

\* TypeOK with every number inside the epoch. Without it neither comparison of
\* numbers nor the maximum taken by newest_of would be known to make sense.
EpochOK ==
  /\ sequence_id \in [Peers -> Ids]
  /\ sent_buffer \in [Peers -> SentBuffers]
  /\ received_buffer \in [Peers -> RecvBuffers]
  /\ newest_ack \in [Peers -> OptIds]
  /\ ack_low_watermark \in [Peers -> OptIds]
  /\ net \subseteq EpochPackets
  /\ received \in [Peers -> SUBSET Ids]
  /\ handed_up \in [Peers -> Nat]
  /\ acked \in [Peers -> SUBSET Ids]

\* What a received_buffer vouches for was processed.
TagsReceived ==
  \A e \in Peers, i \in 0 .. RecvSize - 1 :
    received_buffer[e].tag[i] # NoSeq => received_buffer[e].tag[i] \in received[e]

\* So was what any packet, however old, acknowledges.
AcksReceived == \A p \in net : p.acks \subseteq received[p.src]

AckInv == EpochOK /\ TagsReceived /\ AcksReceived /\ AckedWasReceived

-----------------------------------------------------------------------------
(* Numbers *)

LEMMA EpochFacts ==
  /\ SeqMod \in Nat
  /\ Half \in Nat /\ 2 * Half <= SeqMod
  /\ MaxSeq \in Nat /\ SentSize \in Nat \ {0} /\ RecvSize \in Nat \ {0}
  /\ MaxSeq + SentSize < Half /\ MaxSeq + RecvSize < Half
  /\ Ids \subseteq SeqIds /\ NoSeq \notin Ids /\ None \notin Ids
  BY SeqModAssumption, SizesAssumption, MaxSeqAssumption, EpochAssumption
     DEF Half, Ids, SeqIds, NoSeq, None

LEMMA PeerFacts ==
  ASSUME NEW e \in Peers
  PROVE  other(e) \in Peers /\ other(e) # e /\ other(other(e)) = e
  <1>1. PICK a \in Peers, b \in Peers : a # b /\ Peers = {a, b}
    BY PeersAssumption
  <1>2. \E p \in Peers : p # e
    BY <1>1
  <1>3. other(e) \in Peers /\ other(e) # e
    BY <1>2 DEF other
  <1>4. \E p \in Peers : p # other(e)
    BY <1>3
  <1>5. other(other(e)) \in Peers /\ other(other(e)) # other(e)
    BY <1>4 DEF other
  <1> QED
    BY <1>1, <1>3, <1>5

LEMMA NatMin ==
  ASSUME NEW T, T \subseteq Nat, T # {}
  PROVE  \E x \in T : \A y \in T : x <= y
  <1>1. PICK x \in T : \A y \in T : ~ (<<y, x>> \in OpToRel(<, Nat))
    BY WFMin, NatLessThanWellFounded
  <1>2. \A y \in T : ~ (y < x)
    BY <1>1 DEF OpToRel
  <1> QED
    BY <1>2

LEMMA IdsMax ==
  ASSUME NEW T, T \subseteq Ids, T # {}
  PROVE  \E x \in T : \A y \in T : y <= x
  <1> DEFINE D == {MaxSeq - t : t \in T}
  <1>0. \A t \in T : MaxSeq - t \in Nat
    BY EpochFacts DEF Ids
  <1>1. D \subseteq Nat /\ D # {}
    BY <1>0
  <1>2. PICK d \in D : \A y \in D : d <= y
    BY <1>1, NatMin
  <1>3. PICK x \in T : d = MaxSeq - x
    OBVIOUS
  <1>4. \A y \in T : MaxSeq - x <= MaxSeq - y
    BY <1>2, <1>3
  <1> QED
    BY <1>4, EpochFacts DEF Ids

\* Inside an epoch the wrapping comparison is the ordinary one.
LEMMA EpochOrder ==
  ASSUME NEW s \in Ids, NEW t \in Ids
  PROVE  sequence_greater_than(s, t) <=> s > t
  BY EpochFacts DEF sequence_greater_than, Ids

\* newest_of is the maximum, whatever the order in which the acks are read.
LEMMA NewestOfMax ==
  ASSUME NEW mark \in OptIds, NEW S, S \subseteq Ids
  PROVE  /\ newest_of(mark, S) \in OptIds
         /\ mark # None => newest_of(mark, S) \in Ids /\ newest_of(mark, S) >= mark
         /\ \A s \in S : newest_of(mark, S) \in Ids /\ newest_of(mark, S) >= s
         /\ newest_of(mark, S) \in S \cup {mark}
  <1> DEFINE T == S \cup ({mark} \ {None})
  <1>1. T \subseteq Ids
    BY DEF OptIds
  <1>2. CASE T = {}
    BY <1>2 DEF newest_of, OptIds
  <1>3. CASE T # {}
    <2> DEFINE P(s) == \A t \in T : ~ sequence_greater_than(t, s)
    <2>1. PICK x \in T : \A y \in T : y <= x
      BY <1>1, <1>3, IdsMax
    <2>2. \A t \in T : ~ sequence_greater_than(t, x)
      BY <1>1, <2>1, EpochOrder DEF Ids
    <2>3. newest_of(mark, S) = CHOOSE s \in T : P(s)
      BY <1>3 DEF newest_of
    <2>4. newest_of(mark, S) \in T /\ P(newest_of(mark, S))
      BY <2>2, <2>3
    <2>5. \A t \in T : newest_of(mark, S) >= t
      BY <1>1, <2>4, EpochOrder, EpochFacts DEF Ids
    <2> QED
      BY <1>1, <2>4, <2>5, EpochFacts DEF OptIds
  <1> QED
    BY <1>2, <1>3

-----------------------------------------------------------------------------
(* Buffers *)

SentRing == INSTANCE SequenceBufferProofs
              WITH Size <- SentSize, Default <- [acked |-> FALSE, acked_up_to |-> 0]
RecvRing == INSTANCE SequenceBufferProofs WITH Size <- RecvSize, Default <- "meta"

\* The operators the lemmas of SequenceBufferProofs are about are those of the
\* packet layer's own buffers.
LEMMA SentRingIs ==
  /\ \A buf, s, data : SentRing!insert(buf, s, data) = Sent!insert(buf, s, data)
  /\ \A buf, s : SentRing!insert_too_old(buf, s) = Sent!insert_too_old(buf, s)
  /\ \A s : SentRing!index(s) = Sent!index(s)
  /\ SentRing!BuffersOver(0 .. MaxSeq, SentEntry) = SentBuffers
  /\ SentRing!Slots = 0 .. SentSize - 1 /\ SentRing!NoSeq = NoSeq /\ SentRing!Half = Half
  BY DEF SentRing!insert, SentRing!advance, SentRing!remove_range, SentRing!clear,
     SentRing!Slots, SentRing!index, SentRing!NoSeq, SentRing!wrapping_add,
     SentRing!sequence_greater_than, SentRing!Half, SentRing!insert_too_old,
     SentRing!window_start, SentRing!wrapping_sub, SentRing!sequence_less_than,
     Sent!insert, Sent!advance, Sent!remove_range, Sent!clear,
     Sent!Slots, Sent!index, Sent!NoSeq, Sent!wrapping_add,
     Sent!sequence_greater_than, Sent!Half, Sent!insert_too_old,
     Sent!window_start, Sent!wrapping_sub, Sent!sequence_less_than,
     SentRing!BuffersOver, SentBuffers, Ids, NoSeq, Half

LEMMA RecvRingIs ==
  /\ \A buf, s, data : RecvRing!insert(buf, s, data) = Recv!insert(buf, s, data)
  /\ \A buf, s : RecvRing!check_sequence(buf, s) = Recv!check_sequence(buf, s)
  /\ \A s : RecvRing!index(s) = Recv!index(s)
  /\ RecvRing!BuffersOver(0 .. MaxSeq, ReceivedMeta) = RecvBuffers
  /\ RecvRing!Slots = 0 .. RecvSize - 1 /\ RecvRing!NoSeq = NoSeq /\ RecvRing!Half = Half
  BY DEF RecvRing!insert, RecvRing!advance, RecvRing!remove_range, RecvRing!clear,
     RecvRing!Slots, RecvRing!index, RecvRing!NoSeq, RecvRing!wrapping_add,
     RecvRing!sequence_greater_than, RecvRing!Half, RecvRing!check_sequence,
     RecvRing!window_start, RecvRing!wrapping_sub,
     Recv!insert, Recv!advance, Recv!remove_range, Recv!clear,
     Recv!Slots, Recv!index, Recv!NoSeq, Recv!wrapping_add,
     Recv!sequence_greater_than, Recv!Half, Recv!check_sequence,
     Recv!window_start, Recv!wrapping_sub,
     RecvRing!BuffersOver, RecvBuffers, Ids, NoSeq, Half

\* Sent!insert and the window checks, inside the epoch.
LEMMA SentInsert ==
  ASSUME NEW buf \in SentBuffers, NEW s \in Ids, NEW data \in SentEntry,
         NEW new, new = Sent!insert(buf, s, data)
  PROVE  /\ new \in SentBuffers
         /\ new.sequence = IF s > buf.sequence THEN s ELSE buf.sequence
         /\ new.tag[Sent!index(s)] = s /\ new.entry[Sent!index(s)] = data
         /\ \A i \in 0 .. SentSize - 1 :
              \/ i = Sent!index(s)
              \/ new.tag[i] = NoSeq
              \/ new.tag[i] = buf.tag[i] /\ new.entry[i] = buf.entry[i]
  <1>1. buf \in SentRing!BuffersOver(0 .. MaxSeq, SentEntry) /\ new = SentRing!insert(buf, s, data)
    BY SentRingIs
  <1>2. MaxSeq + SentSize < SentRing!Half /\ s \in 0 .. MaxSeq /\ [acked |-> FALSE, acked_up_to |-> 0] \in SentEntry
    BY EpochFacts DEF SentRing!Half, Half, Ids, SentEntry
  <1> QED
    BY <1>1, <1>2, SentRingIs, SentRing!EpochInsert, EpochFacts, SeqModAssumption

\* Recv!insert and the window checks, inside the epoch.
LEMMA RecvInsert ==
  ASSUME NEW buf \in RecvBuffers, NEW s \in Ids, NEW data \in ReceivedMeta,
         NEW new, new = Recv!insert(buf, s, data)
  PROVE  /\ new \in RecvBuffers
         /\ new.sequence = IF s > buf.sequence THEN s ELSE buf.sequence
         /\ new.tag[Recv!index(s)] = s /\ new.entry[Recv!index(s)] = data
         /\ \A i \in 0 .. RecvSize - 1 :
              \/ i = Recv!index(s)
              \/ new.tag[i] = NoSeq
              \/ new.tag[i] = buf.tag[i] /\ new.entry[i] = buf.entry[i]
  <1>1. buf \in RecvRing!BuffersOver(0 .. MaxSeq, ReceivedMeta) /\ new = RecvRing!insert(buf, s, data)
    BY RecvRingIs
  <1>2. MaxSeq + RecvSize < RecvRing!Half /\ s \in 0 .. MaxSeq /\ "meta" \in ReceivedMeta
    BY EpochFacts DEF RecvRing!Half, Half, Ids, ReceivedMeta
  <1> QED
    BY <1>1, <1>2, RecvRingIs, RecvRing!EpochInsert, EpochFacts, SeqModAssumption

LEMMA MarkAcked ==
  ASSUME NEW buf \in SentBuffers, NEW fresh, NEW new, new = mark_acked(buf, fresh)
  PROVE  /\ new \in SentBuffers
         /\ new.tag = buf.tag
         /\ new.sequence = buf.sequence
         /\ \A i \in 0 .. SentSize - 1 :
              /\ new.entry[i].acked => buf.entry[i].acked \/ buf.tag[i] \in fresh
              /\ buf.entry[i].acked \/ buf.tag[i] \in fresh => new.entry[i].acked
              /\ new.entry[i].acked_up_to = buf.entry[i].acked_up_to
  <1> DEFINE mark(i) == IF buf.tag[i] \in fresh THEN [buf.entry[i] EXCEPT !.acked = TRUE]
                        ELSE buf.entry[i]
  <1>1. new = [buf EXCEPT !.entry = [i \in 0 .. SentSize - 1 |-> mark(i)]]
    BY DEF mark_acked, Sent!Slots
  <1>2. ASSUME NEW i \in 0 .. SentSize - 1
        PROVE  mark(i) \in SentEntry
    <2>1. buf.entry[i] \in SentEntry
      BY DEF SentBuffers
    <2>2. [buf.entry[i] EXCEPT !.acked = TRUE] \in SentEntry
      BY <2>1 DEF SentEntry
    <2> QED
      BY <2>1, <2>2
  <1>3. ASSUME NEW i \in 0 .. SentSize - 1, buf.tag[i] \notin fresh
        PROVE  mark(i) = buf.entry[i]
    BY <1>3
  <1>6. ASSUME NEW i \in 0 .. SentSize - 1, buf.tag[i] \in fresh
        PROVE  mark(i).acked
    <2>1. buf.entry[i] \in SentEntry
      BY DEF SentBuffers
    <2> QED
      BY <1>6, <2>1 DEF SentEntry
  <1>7. ASSUME NEW i \in 0 .. SentSize - 1
        PROVE  mark(i).acked_up_to = buf.entry[i].acked_up_to
    <2>1. buf.entry[i] \in SentEntry
      BY DEF SentBuffers
    <2> QED
      BY <2>1 DEF SentEntry
  <1> HIDE DEF mark
  <1>4. /\ new \in SentBuffers /\ new.tag = buf.tag /\ new.sequence = buf.sequence
        /\ new.entry = [i \in 0 .. SentSize - 1 |-> mark(i)]
    BY <1>1, <1>2 DEF SentBuffers
  <1>5. ASSUME NEW i \in 0 .. SentSize - 1, new.entry[i].acked, buf.tag[i] \notin fresh
        PROVE  buf.entry[i].acked
    <2>1. new.entry[i] = buf.entry[i]
      BY <1>3, <1>4, <1>5
    <2> QED
      BY <2>1, <1>5
  <1>8. ASSUME NEW i \in 0 .. SentSize - 1, buf.entry[i].acked \/ buf.tag[i] \in fresh
        PROVE  new.entry[i].acked
    BY <1>3, <1>4, <1>6, <1>8
  <1> QED
    BY <1>4, <1>5, <1>7, <1>8

-----------------------------------------------------------------------------
(* The invariant *)

LEMMA InitInv == Init => AckInv
  <1> SUFFICES ASSUME Init PROVE AckInv
    OBVIOUS
  <1>1. EpochOK
    BY EpochFacts DEF Init, EpochOK, SentBuffers, RecvBuffers, SentEntry, ReceivedMeta,
       Sent!with_capacity, Recv!with_capacity, Sent!Slots, Recv!Slots, Ids, OptIds,
       Sent!NoSeq, Recv!NoSeq, NoSeq
  <1>2. TagsReceived /\ AckedWasReceived
    BY EpochFacts DEF Init, TagsReceived, AckedWasReceived, Sent!with_capacity,
       Recv!with_capacity, Sent!Slots, Recv!Slots, Sent!NoSeq, Recv!NoSeq, NoSeq
  <1>3. AcksReceived
    BY DEF Init, AcksReceived
  <1> QED
    BY <1>1, <1>2, <1>3 DEF AckInv

\* The bits set in a new ack field are of packets received_buffer vouches for.
LEMMA AckField ==
  ASSUME AckInv, NEW e \in Peers, NEW n
  PROVE  with_minimum_length(received_buffer[e], n) \subseteq received[e]
  <1> DEFINE buf == received_buffer[e]
  <1> SUFFICES ASSUME NEW s \in with_minimum_length(buf, n)
               PROVE  s \in received[e]
    OBVIOUS
  <1>1. buf \in RecvBuffers
    BY DEF AckInv, EpochOK
  <1>2. buf.tag[Recv!index(s)] = s
    BY DEF with_minimum_length, Recv!exists
  <1>3. PICK k \in 0 .. ack_field_length(n) - 1 : s = wrapping_sub(buf.sequence, k)
    BY DEF with_minimum_length
  <1>4. s \in Int
    BY <1>1, <1>3, EpochFacts DEF wrapping_sub, RecvBuffers, Ids
  <1>5. Recv!index(s) \in 0 .. RecvSize - 1
    BY <1>4, EpochFacts DEF Recv!index
  <1>6. s # NoSeq
    BY <1>1, <1>3, EpochFacts DEF wrapping_sub, RecvBuffers, Ids, NoSeq
  <1> QED
    BY <1>2, <1>5, <1>6 DEF AckInv, TagsReceived

LEMMA SendInv ==
  ASSUME AckInv, NEW e \in Peers, NEW type \in PacketTypes, NEW payload \in Payloads,
         SendPacket(e, type, payload)
  PROVE  AckInv'
  <1> DEFINE p == next_packet_header(e, type, payload)
             data == [acked |-> FALSE, acked_up_to |-> received_buffer[e].sequence]
  <1> USE DEF AckInv
  <1>1. wrapping_add(sequence_id[e], 1) \in Ids
    BY EpochFacts DEF SendPacket, may_send, EpochOK, wrapping_add, Ids
  <1>2. with_minimum_length(received_buffer[e], received_unacked_packets(e)) \subseteq received[e]
    BY AckField
  <1>3. p \in EpochPackets /\ p.src = e /\ p.acks \subseteq received[e] /\ p.id \in Ids
    BY <1>1, <1>2 DEF next_packet_header, EpochPackets, EpochOK
  <1>4. data \in SentEntry
    BY DEF SentEntry, EpochOK, RecvBuffers
  <1>5. /\ sequence_id' = [sequence_id EXCEPT ![e] = p.id]
        /\ sent_buffer' = [sent_buffer EXCEPT ![e] = Sent!insert(sent_buffer[e], p.id, data)]
        /\ net' = net \cup {p}
        /\ UNCHANGED <<received_buffer, newest_ack, ack_low_watermark, received, handed_up, acked>>
    BY DEF SendPacket, sent_meta
  <1> HIDE DEF p, data
  <1>6. PICK new : new = Sent!insert(sent_buffer[e], p.id, data)
    OBVIOUS
  <1>7. /\ new \in SentBuffers
        /\ \A i \in 0 .. SentSize - 1 :
             \/ new.tag[i] = p.id /\ new.entry[i] = data
             \/ new.tag[i] = NoSeq
             \/ new.tag[i] = sent_buffer[e].tag[i] /\ new.entry[i] = sent_buffer[e].entry[i]
    <2>1. sent_buffer[e] \in SentBuffers
      BY DEF EpochOK
    <2> QED
      BY <1>3, <1>4, <1>6, <2>1, SentInsert
  <1>8. EpochOK'
    BY <1>3, <1>5, <1>6, <1>7 DEF EpochOK
  <1>9. TagsReceived'
    BY <1>5 DEF TagsReceived
  <1>10. AcksReceived'
    BY <1>3, <1>5 DEF AcksReceived
  <1>11. AckedWasReceived'
    <2> SUFFICES ASSUME NEW f \in Peers, NEW i \in 0 .. SentSize - 1,
                        sent_buffer'[f].tag[i] # NoSeq, sent_buffer'[f].entry[i].acked
                 PROVE  sent_buffer'[f].tag[i] \in received[other(f)]
      BY <1>5 DEF AckedWasReceived
    <2>1. CASE f # e
      <3>1. sent_buffer'[f] = sent_buffer[f]
        BY <1>5, <2>1 DEF EpochOK
      <3> QED
        BY <3>1 DEF AckedWasReceived
    <2>2. CASE f = e
      <3>1. sent_buffer'[f] = new
        BY <1>5, <1>6, <2>2 DEF EpochOK
      <3>2. new.entry[i] # data
        BY <3>1 DEF data
      <3>3. new.tag[i] = sent_buffer[e].tag[i] /\ new.entry[i] = sent_buffer[e].entry[i]
        BY <1>7, <3>1, <3>2
      <3> QED
        BY <2>2, <3>1, <3>3 DEF AckedWasReceived
    <2> QED
      BY <2>1, <2>2
  <1> QED
    BY <1>8, <1>9, <1>10, <1>11

LEMMA ReceiveInv ==
  ASSUME AckInv, NEW e \in Peers, NEW p \in net, process_incoming_packet(e, p)
  PROVE  AckInv'
  <1> DEFINE fresh == newly_acked(e, p.acks)
             up_to == {Sent!get(sent_buffer[e], s).acked_up_to : s \in fresh}
  <1> USE DEF AckInv
  <1>1. p \in EpochPackets /\ p.acks \subseteq received[other(e)] /\ p.src = other(e)
    BY DEF EpochOK, AcksReceived, process_incoming_packet
  <1>2. fresh \subseteq Ids /\ fresh \subseteq received[other(e)]
    BY <1>1 DEF newly_acked, EpochPackets
  <1>3. up_to \subseteq Ids
    <2> SUFFICES ASSUME NEW s \in fresh
                 PROVE  Sent!get(sent_buffer[e], s).acked_up_to \in Ids
      OBVIOUS
    <2>1. Sent!index(s) \in 0 .. SentSize - 1
      BY <1>2, EpochFacts DEF Sent!index, Ids
    <2>2. sent_buffer[e] \in SentBuffers
      BY DEF EpochOK
    <2>3. sent_buffer[e].entry \in [0 .. SentSize - 1 -> SentEntry]
      BY <2>2 DEF SentBuffers
    <2>4. Sent!get(sent_buffer[e], s) \in SentEntry
      BY <2>1, <2>3 DEF Sent!get
    <2> QED
      BY <2>4 DEF SentEntry
  <1>4. /\ received_buffer' =
             [received_buffer EXCEPT ![e] = Recv!insert(received_buffer[e], p.id, "meta")]
        /\ received' = [received EXCEPT ![e] = received[e] \cup {p.id}]
        /\ handed_up' = [handed_up EXCEPT ![e] = handed_up[e] + 1]
        /\ newest_ack' = [newest_ack EXCEPT ![e] = newest_of(newest_ack[e], fresh)]
        /\ ack_low_watermark' =
             [ack_low_watermark EXCEPT ![e] = newest_of(ack_low_watermark[e], up_to)]
        /\ sent_buffer' = [sent_buffer EXCEPT ![e] = mark_acked(sent_buffer[e], fresh)]
        /\ acked' = [acked EXCEPT ![e] = acked[e] \cup fresh]
        /\ UNCHANGED <<sequence_id, net>>
    BY DEF process_incoming_packet, process_packet_acks
  <1> HIDE DEF fresh, up_to
  <1>5. PICK rb : rb = Recv!insert(received_buffer[e], p.id, "meta")
    OBVIOUS
  <1>6. /\ rb \in RecvBuffers
        /\ \A i \in 0 .. RecvSize - 1 : rb.tag[i] \in {p.id, NoSeq, received_buffer[e].tag[i]}
    <2>1. received_buffer[e] \in RecvBuffers /\ p.id \in Ids /\ "meta" \in ReceivedMeta
      BY <1>1 DEF EpochOK, EpochPackets, ReceivedMeta
    <2> QED
      BY <1>5, <2>1, RecvInsert
  <1>7. PICK sb : sb = mark_acked(sent_buffer[e], fresh)
    OBVIOUS
  <1>8. /\ sb \in SentBuffers
        /\ sb.tag = sent_buffer[e].tag
        /\ \A i \in 0 .. SentSize - 1 :
             sb.entry[i].acked => sent_buffer[e].entry[i].acked \/ sb.tag[i] \in fresh
    BY <1>7, MarkAcked DEF EpochOK
  <1>9. EpochOK'
    <2>1. newest_of(newest_ack[e], fresh) \in OptIds
      BY <1>2, NewestOfMax DEF EpochOK
    <2>2. newest_of(ack_low_watermark[e], up_to) \in OptIds
      BY <1>3, NewestOfMax DEF EpochOK
    <2>3. received[e] \cup {p.id} \in SUBSET Ids /\ acked[e] \cup fresh \in SUBSET Ids
      BY <1>1, <1>2 DEF EpochOK, EpochPackets
    <2>4. handed_up' \in [Peers -> Nat]
      BY <1>4 DEF EpochOK
    <2> QED
      BY <1>4, <1>5, <1>6, <1>7, <1>8, <2>1, <2>2, <2>3, <2>4 DEF EpochOK
  <1>10. \A f \in Peers : received[f] \subseteq received'[f]
    BY <1>4 DEF EpochOK
  <1>11. TagsReceived'
    <2> SUFFICES ASSUME NEW f \in Peers, NEW i \in 0 .. RecvSize - 1,
                        received_buffer'[f].tag[i] # NoSeq
                 PROVE  received_buffer'[f].tag[i] \in received'[f]
      BY DEF TagsReceived
    <2>1. CASE f # e
      BY <1>4, <2>1 DEF EpochOK, TagsReceived
    <2>2. CASE f = e
      <3>1. received_buffer'[f] = rb /\ received'[f] = received[e] \cup {p.id}
        BY <1>4, <1>5, <2>2 DEF EpochOK
      <3> QED
        BY <1>6, <2>2, <3>1 DEF TagsReceived
    <2> QED
      BY <2>1, <2>2
  <1>12. AcksReceived'
    <2>1. \A q \in net : q.src \in Peers
      BY DEF EpochOK, EpochPackets
    <2> QED
      BY <1>4, <1>10, <2>1 DEF AcksReceived
  <1>13. AckedWasReceived'
    <2> SUFFICES ASSUME NEW f \in Peers, NEW i \in 0 .. SentSize - 1,
                        sent_buffer'[f].tag[i] # NoSeq, sent_buffer'[f].entry[i].acked
                 PROVE  sent_buffer'[f].tag[i] \in received'[other(f)]
      BY DEF AckedWasReceived
    <2>1. other(f) \in Peers
      BY PeerFacts
    <2>2. CASE f # e
      <3>1. sent_buffer'[f] = sent_buffer[f]
        BY <1>4, <2>2 DEF EpochOK
      <3> QED
        BY <1>10, <2>1, <3>1 DEF AckedWasReceived
    <2>3. CASE f = e
      <3>1. sent_buffer'[f] = sb
        BY <1>4, <1>7, <2>3 DEF EpochOK
      <3>2. CASE sb.tag[i] \in fresh
        BY <1>2, <1>10, <2>1, <2>3, <3>1, <3>2
      <3>3. CASE sent_buffer[e].entry[i].acked
        BY <1>8, <1>10, <2>1, <2>3, <3>1, <3>3 DEF AckedWasReceived
      <3> QED
        BY <1>8, <3>1, <3>2, <3>3
    <2> QED
      BY <2>2, <2>3
  <1> QED
    BY <1>9, <1>11, <1>12, <1>13

LEMMA NextInv == AckInv /\ [Next]_vars => AckInv'
  <1> SUFFICES ASSUME AckInv, [Next]_vars PROVE AckInv'
    OBVIOUS
  <1>1. CASE UNCHANGED vars
    BY <1>1 DEF vars, AckInv, EpochOK, TagsReceived, AcksReceived, AckedWasReceived
  <1>2. ASSUME NEW e \in Peers, NEW type \in PacketTypes, NEW payload \in Payloads,
               SendPacket(e, type, payload)
        PROVE  AckInv'
    BY <1>2, SendInv
  <1>3. ASSUME NEW e \in Peers, NEW type \in PacketTypes, RefusePacket(e, type)
        PROVE  AckInv'
    <2>1. wrapping_add(sequence_id[e], 1) \in Ids
      BY <1>3, EpochFacts DEF RefusePacket, may_send, AckInv, EpochOK, wrapping_add, Ids
    <2>2. /\ sequence_id' = [sequence_id EXCEPT ![e] = wrapping_add(sequence_id[e], 1)]
          /\ UNCHANGED <<sent_buffer, received_buffer, newest_ack, ack_low_watermark,
                          net, received, handed_up, acked>>
      BY <1>3 DEF RefusePacket
    <2> QED
      BY <2>1, <2>2 DEF AckInv, EpochOK, TagsReceived, AcksReceived, AckedWasReceived
  <1>4. ASSUME NEW e \in Peers, NEW p \in net, process_incoming_packet(e, p)
        PROVE  AckInv'
    BY <1>4, ReceiveInv
  <1>5. ASSUME NEW e \in Peers, NEW p \in net, RejectPacket(e, p)
        PROVE  AckInv'
    BY <1>1, <1>5 DEF RejectPacket
  <1> QED
    BY <1>1, <1>2, <1>3, <1>4, <1>5 DEF Next

-----------------------------------------------------------------------------
(* Theorems *)

\* The variables keep the types the code declares, and every packet number in
\* any buffer, header or watermark belongs to the epoch.
THEOREM TypeCorrect == Spec => []TypeOK
  <1>1. AckInv => TypeOK
    <2> SUFFICES ASSUME AckInv PROVE TypeOK
      OBVIOUS
    <2>1. Ids \subseteq SeqIds /\ OptIds \subseteq Opt /\ EpochPackets \subseteq Packets
      BY EpochFacts DEF OptIds, Opt, EpochPackets, Packets
    <2>2. SentBuffers \subseteq Sent!Buffers(SentMeta)
      BY EpochFacts DEF SentBuffers, Sent!Buffers, SentEntry, SentMeta, Sent!Slots,
         Sent!SeqIds, SeqIds, Sent!NoSeq, NoSeq
    <2>3. RecvBuffers \subseteq Recv!Buffers(ReceivedMeta)
      BY EpochFacts DEF RecvBuffers, Recv!Buffers, Recv!Slots, Recv!SeqIds, SeqIds,
         Recv!NoSeq, NoSeq
    <2> QED
      BY <2>1, <2>2, <2>3 DEF AckInv, EpochOK, TypeOK
  <1> QED
    BY <1>1, InitInv, NextInv, PTL DEF Spec

\* No packet is ever held for acked that the peer did not process, whatever the
\* network loses, duplicates, delays or reorders.
THEOREM AcksAreTrue == Spec => []AckedWasReceived
  <1>1. AckInv => AckedWasReceived
    BY DEF AckInv
  <1> QED
    BY <1>1, InitInv, NextInv, PTL DEF Spec

-----------------------------------------------------------------------------
(* The service of the packet layer: it hands every packet up at most once, *)
(* rejects none that it could still take, reports every ack at most once,  *)
(* and so implements PacketService.                                        *)

\* Packets are numbered from 1, in the order in which they are sent.
NetNumbered == \A p \in net : 1 <= p.id /\ p.id <= sequence_id[p.src]

\* What was processed was sent, ...
ReceivedSent ==
  \A e \in Peers : \A s \in received[e] : \E p \in net : p.src = other(e) /\ p.id = s

\* ... what was reported as acked was processed, ...
AckedReceived == \A e \in Peers : acked[e] \subseteq received[other(e)]

\* ... and sent_buffer remembers what was reported as long as it holds it.
AckedMarked ==
  \A e \in Peers, i \in 0 .. SentSize - 1 :
    sent_buffer[e].tag[i] \in acked[e] => sent_buffer[e].entry[i].acked

\* received_buffer holds every number processed that is inside its window:
\* neither a reused slot nor the sweep ever drops one of those.
ReceivedHeld ==
  \A e \in Peers : \A s \in received[e] :
    /\ s <= received_buffer[e].sequence
    /\ s + RecvSize > received_buffer[e].sequence => Recv!exists(received_buffer[e], s)

ServiceInv ==
  AckInv /\ NetNumbered /\ ReceivedSent /\ AckedReceived /\ AckedMarked /\ ReceivedHeld

-----------------------------------------------------------------------------
(* The received window *)

\* check_sequence compares with the start of the window as it should.
LEMMA RecvWindow ==
  ASSUME NEW buf \in RecvBuffers, NEW s \in Ids
  PROVE  Recv!check_sequence(buf, s) <=> s + RecvSize > buf.sequence
  <1>1. buf.sequence \in 0 .. MaxSeq
    BY DEF RecvBuffers, Ids
  <1>2. MaxSeq + RecvSize < RecvRing!Half /\ s \in 0 .. MaxSeq
    BY EpochFacts, RecvRingIs DEF Ids
  <1>3. RecvRing!check_sequence(buf, s) <=> s + RecvSize > buf.sequence
    BY <1>1, <1>2, RecvRing!EpochWindow, EpochFacts, SeqModAssumption
  <1> QED
    BY <1>3, RecvRingIs

LEMMA RecvInsertKeeps ==
  ASSUME NEW buf \in RecvBuffers, NEW s \in Ids, NEW data \in ReceivedMeta,
         NEW new, new = Recv!insert(buf, s, data), s + RecvSize > buf.sequence,
         NEW t \in Ids, t # s, t <= buf.sequence, t + RecvSize > new.sequence
  PROVE  new.tag[Recv!index(t)] = buf.tag[Recv!index(t)]
  <1>1. buf \in RecvRing!BuffersOver(0 .. MaxSeq, ReceivedMeta)
        /\ new = RecvRing!insert(buf, s, data)
    BY RecvRingIs
  <1>2. /\ MaxSeq + RecvSize < RecvRing!Half /\ "meta" \in ReceivedMeta
        /\ s \in 0 .. MaxSeq /\ t \in 0 .. MaxSeq
    BY EpochFacts, RecvRingIs DEF Ids, ReceivedMeta
  <1>3. new.tag[RecvRing!index(t)] = buf.tag[RecvRing!index(t)]
    BY <1>1, <1>2, RecvRing!EpochInsertKeeps, EpochFacts, SeqModAssumption
  <1> QED
    BY <1>3, RecvRingIs

\* The duplicate check is exact: a packet is fresh if and only if its number is
\* inside the window and was not processed before.
LEMMA FreshExact ==
  ASSUME ServiceInv, NEW e \in Peers, NEW p \in net
  PROVE  fresh_packet(e, p) <=>
           p.id \notin received[e] /\ p.id + RecvSize > received_buffer[e].sequence
  <1>1. received_buffer[e] \in RecvBuffers /\ p.id \in Ids
    BY DEF ServiceInv, AckInv, EpochOK, EpochPackets
  <1>2. Recv!check_sequence(received_buffer[e], p.id) <=>
          p.id + RecvSize > received_buffer[e].sequence
    BY <1>1, RecvWindow
  <1>3. ASSUME Recv!exists(received_buffer[e], p.id) PROVE p.id \in received[e]
    <2>1. Recv!index(p.id) \in 0 .. RecvSize - 1 /\ p.id # NoSeq
      BY <1>1, EpochFacts DEF Recv!index, Ids
    <2> QED
      BY <1>3, <2>1 DEF Recv!exists, ServiceInv, AckInv, TagsReceived
  <1>4. ASSUME p.id \in received[e], p.id + RecvSize > received_buffer[e].sequence
        PROVE  Recv!exists(received_buffer[e], p.id)
    BY <1>4 DEF ServiceInv, ReceivedHeld
  <1> QED
    BY <1>2, <1>3, <1>4 DEF fresh_packet

-----------------------------------------------------------------------------
(* The invariant *)

LEMMA InitService == Init => ServiceInv
  <1> SUFFICES ASSUME Init PROVE ServiceInv
    OBVIOUS
  <1>1. AckInv
    BY InitInv
  <1>2. NetNumbered /\ ReceivedSent /\ AckedReceived /\ AckedMarked /\ ReceivedHeld
    BY DEF Init, NetNumbered, ReceivedSent, AckedReceived, AckedMarked, ReceivedHeld
  <1> QED
    BY <1>1, <1>2 DEF ServiceInv

LEMMA SendService ==
  ASSUME ServiceInv, NEW e \in Peers, NEW type \in PacketTypes, NEW payload \in Payloads,
         SendPacket(e, type, payload)
  PROVE  ServiceInv'
  <1> DEFINE p == next_packet_header(e, type, payload)
             data == sent_meta(e)
  <1>1. AckInv /\ AckInv'
    BY SendInv DEF ServiceInv
  <1>2. EpochOK
    BY <1>1 DEF AckInv
  <1>3. p.src = e /\ p.id = sequence_id[e] + 1 /\ p.id \in Ids
    <2>1. sequence_id[e] \in Ids /\ sequence_id[e] < MaxSeq
      BY <1>2 DEF SendPacket, may_send, EpochOK
    <2> QED
      BY <2>1, EpochFacts DEF next_packet_header, wrapping_add, Ids
  <1>4. data \in SentEntry
    BY <1>2 DEF sent_meta, SentEntry, EpochOK, RecvBuffers
  <1>5. /\ sequence_id' = [sequence_id EXCEPT ![e] = p.id]
        /\ sent_buffer' = [sent_buffer EXCEPT ![e] = Sent!insert(sent_buffer[e], p.id, data)]
        /\ net' = net \cup {p}
        /\ UNCHANGED <<received_buffer, received, acked>>
    BY DEF SendPacket
  <1> HIDE DEF p, data
  <1>6. NetNumbered'
    <2> SUFFICES ASSUME NEW q \in net' PROVE 1 <= q.id /\ q.id <= sequence_id'[q.src]
      BY DEF NetNumbered
    <2>1. sequence_id[e] \in Nat /\ sequence_id'[e] = sequence_id[e] + 1
      BY <1>2, <1>3, <1>5 DEF EpochOK, Ids
    <2>2. CASE q = p
      BY <1>3, <2>1, <2>2
    <2>3. CASE q \in net
      <3>1. q.src \in Peers /\ q.id \in Nat /\ 1 <= q.id /\ q.id <= sequence_id[q.src]
        BY <1>2, <2>3 DEF ServiceInv, NetNumbered, EpochOK, EpochPackets, Ids
      <3>2. sequence_id'[q.src] >= sequence_id[q.src] /\ sequence_id[q.src] \in Nat
        BY <1>2, <1>5, <2>1, <3>1 DEF EpochOK, Ids
      <3>3. sequence_id'[q.src] \in Nat
        BY <1>1, <3>1 DEF AckInv, EpochOK, Ids
      <3> QED
        BY <3>1, <3>2, <3>3
    <2> QED
      BY <1>5, <2>2, <2>3
  <1>7. ReceivedSent' /\ AckedReceived' /\ ReceivedHeld'
    BY <1>5 DEF ServiceInv, ReceivedSent, AckedReceived, ReceivedHeld
  <1>8. p.id \notin acked[e]
    <2> SUFFICES ASSUME p.id \in acked[e] PROVE FALSE
      OBVIOUS
    <2>1. other(e) \in Peers /\ other(other(e)) = e
      BY PeerFacts
    <2>2. PICK q \in net : q.src = e /\ q.id = p.id
      BY <2>1 DEF ServiceInv, AckedReceived, ReceivedSent
    <2>3. p.id <= sequence_id[e] /\ sequence_id[e] \in Nat
      BY <1>2, <2>2 DEF ServiceInv, NetNumbered, EpochOK, Ids
    <2> QED
      BY <1>3, <2>3
  <1>9. AckedMarked'
    <2> SUFFICES ASSUME NEW f \in Peers, NEW i \in 0 .. SentSize - 1,
                        sent_buffer'[f].tag[i] \in acked[f]
                 PROVE  sent_buffer'[f].entry[i].acked
      BY <1>5 DEF AckedMarked
    <2>1. CASE f # e
      <3>1. sent_buffer'[f] = sent_buffer[f]
        BY <1>2, <1>5, <2>1 DEF EpochOK
      <3> QED
        BY <3>1 DEF ServiceInv, AckedMarked
    <2>2. CASE f = e
      <3>1. PICK new : new = Sent!insert(sent_buffer[e], p.id, data)
        OBVIOUS
      <3>2. sent_buffer'[f] = new /\ sent_buffer[e] \in SentBuffers
        BY <1>2, <1>5, <2>2, <3>1 DEF EpochOK
      <3>3. \/ new.tag[i] = p.id
            \/ new.tag[i] = NoSeq
            \/ new.tag[i] = sent_buffer[e].tag[i] /\ new.entry[i] = sent_buffer[e].entry[i]
        BY <1>3, <1>4, <3>1, <3>2, SentInsert
      <3>4. NoSeq \notin acked[e]
        BY <1>2, EpochFacts DEF EpochOK
      <3> QED
        BY <1>8, <2>2, <3>2, <3>3, <3>4 DEF ServiceInv, AckedMarked
    <2> QED
      BY <2>1, <2>2
  <1> QED
    BY <1>1, <1>6, <1>7, <1>9 DEF ServiceInv

LEMMA ReceiveService ==
  ASSUME ServiceInv, NEW e \in Peers, NEW p \in net, process_incoming_packet(e, p)
  PROVE  ServiceInv'
  <1> DEFINE fresh == newly_acked(e, p.acks)
  <1>1. AckInv /\ AckInv'
    BY ReceiveInv DEF ServiceInv
  <1>2. EpochOK /\ EpochOK'
    BY <1>1 DEF AckInv
  <1>3. /\ p.src = other(e) /\ p.id \in Ids /\ p.acks \subseteq received[other(e)]
        /\ other(e) \in Peers /\ other(e) # e
    BY <1>1, <1>2, PeerFacts
       DEF process_incoming_packet, EpochOK, EpochPackets, AckInv, AcksReceived
  <1>4. /\ received_buffer' =
             [received_buffer EXCEPT ![e] = Recv!insert(received_buffer[e], p.id, "meta")]
        /\ received' = [received EXCEPT ![e] = received[e] \cup {p.id}]
        /\ sent_buffer' = [sent_buffer EXCEPT ![e] = mark_acked(sent_buffer[e], fresh)]
        /\ acked' = [acked EXCEPT ![e] = acked[e] \cup fresh]
        /\ UNCHANGED <<sequence_id, net>>
    BY DEF process_incoming_packet, process_packet_acks
  <1>5. fresh \subseteq received[other(e)]
    BY <1>3 DEF newly_acked
  <1>6. p.id \notin received[e] /\ p.id + RecvSize > received_buffer[e].sequence
    BY FreshExact DEF process_incoming_packet
  <1> HIDE DEF fresh
  <1>7. \A f \in Peers : /\ received[f] \subseteq received'[f]
                         /\ f # e => /\ received'[f] = received[f] /\ acked'[f] = acked[f]
                                     /\ sent_buffer'[f] = sent_buffer[f]
                                     /\ received_buffer'[f] = received_buffer[f]
    BY <1>2, <1>4 DEF EpochOK
  <1>8. NetNumbered'
    BY <1>4 DEF ServiceInv, NetNumbered
  <1>9. ReceivedSent'
    <2> SUFFICES ASSUME NEW f \in Peers, NEW s \in received'[f]
                 PROVE  \E q \in net : q.src = other(f) /\ q.id = s
      BY <1>4 DEF ReceivedSent
    <2>1. s \in received[f] \/ (f = e /\ s = p.id)
      BY <1>2, <1>4 DEF EpochOK
    <2> QED
      BY <1>3, <2>1 DEF ServiceInv, ReceivedSent
  <1>10. AckedReceived'
    <2> SUFFICES ASSUME NEW f \in Peers PROVE acked'[f] \subseteq received'[other(f)]
      BY DEF AckedReceived
    <2>1. other(f) \in Peers
      BY PeerFacts
    <2>2. acked'[f] \subseteq acked[f] \/ (f = e /\ acked'[f] = acked[e] \cup fresh)
      BY <1>2, <1>4, <1>7 DEF EpochOK
    <2> QED
      BY <1>5, <1>7, <2>1, <2>2 DEF ServiceInv, AckedReceived
  <1>11. AckedMarked'
    <2> SUFFICES ASSUME NEW f \in Peers, NEW i \in 0 .. SentSize - 1,
                        sent_buffer'[f].tag[i] \in acked'[f]
                 PROVE  sent_buffer'[f].entry[i].acked
      BY DEF AckedMarked
    <2>1. CASE f # e
      BY <1>7, <2>1 DEF ServiceInv, AckedMarked
    <2>2. CASE f = e
      <3>1. PICK new : new = mark_acked(sent_buffer[e], fresh)
        OBVIOUS
      <3>2. sent_buffer'[f] = new /\ sent_buffer[e] \in SentBuffers
            /\ acked'[f] = acked[e] \cup fresh
        BY <1>2, <1>4, <2>2, <3>1 DEF EpochOK
      <3>3. /\ new.tag = sent_buffer[e].tag
            /\ sent_buffer[e].entry[i].acked \/ sent_buffer[e].tag[i] \in fresh
                 => new.entry[i].acked
        BY <3>1, <3>2, MarkAcked
      <3> QED
        BY <2>2, <3>2, <3>3 DEF ServiceInv, AckedMarked
    <2> QED
      BY <2>1, <2>2
  <1>12. ReceivedHeld'
    <2> SUFFICES ASSUME NEW f \in Peers, NEW s \in received'[f]
                 PROVE  /\ s <= received_buffer'[f].sequence
                        /\ s + RecvSize > received_buffer'[f].sequence
                             => Recv!exists(received_buffer'[f], s)
      BY DEF ReceivedHeld
    <2>1. CASE f # e
      BY <1>7, <2>1 DEF ServiceInv, ReceivedHeld
    <2>2. CASE f = e
      <3>1. PICK new : new = Recv!insert(received_buffer[e], p.id, "meta")
        OBVIOUS
      <3>2. /\ received_buffer'[f] = new /\ received_buffer[e] \in RecvBuffers
            /\ received_buffer[e].sequence \in Ids
            /\ "meta" \in ReceivedMeta /\ received'[f] = received[e] \cup {p.id}
        BY <1>2, <1>4, <2>2, <3>1 DEF EpochOK, ReceivedMeta, RecvBuffers
      <3>3. /\ new.sequence = IF p.id > received_buffer[e].sequence
                                THEN p.id ELSE received_buffer[e].sequence
            /\ new.tag[Recv!index(p.id)] = p.id
        BY <1>3, <3>1, <3>2, RecvInsert
      <3>4. CASE s = p.id
        BY <1>3, <3>2, <3>3, <3>4 DEF Recv!exists, Ids
      <3>5. CASE s # p.id
        <4>1. /\ s \in received[e] /\ s \in Ids /\ s <= received_buffer[e].sequence
              /\ s + RecvSize > received_buffer[e].sequence
                   => Recv!exists(received_buffer[e], s)
          BY <1>2, <3>2, <3>5 DEF ServiceInv, ReceivedHeld, EpochOK
        <4>2. s <= new.sequence
          BY <1>3, <3>2, <3>3, <4>1 DEF Ids
        <4>3. ASSUME s + RecvSize > new.sequence PROVE Recv!exists(new, s)
          <5>1. s + RecvSize > received_buffer[e].sequence
            BY <1>3, <3>2, <3>3, <4>1, <4>3, EpochFacts DEF Ids
          <5>2. new.tag[Recv!index(s)] = received_buffer[e].tag[Recv!index(s)]
            BY <1>3, <1>6, <3>1, <3>2, <3>5, <4>1, <4>3, RecvInsertKeeps
          <5> QED
            BY <4>1, <5>1, <5>2 DEF Recv!exists
        <4> QED
          BY <3>2, <4>2, <4>3
      <3> QED
        BY <3>4, <3>5
    <2> QED
      BY <2>1, <2>2
  <1> QED
    BY <1>1, <1>8, <1>9, <1>10, <1>11, <1>12 DEF ServiceInv

LEMMA RefuseService ==
  ASSUME ServiceInv, NEW e \in Peers, NEW type \in PacketTypes, RefusePacket(e, type)
  PROVE  ServiceInv'
  <1>1. AckInv /\ AckInv'
    BY NextInv DEF ServiceInv, Next
  <1>2. /\ sequence_id' = [sequence_id EXCEPT ![e] = wrapping_add(sequence_id[e], 1)]
        /\ UNCHANGED <<sent_buffer, received_buffer, net, received, acked>>
    BY DEF RefusePacket
  <1>3. sequence_id[e] \in Nat /\ sequence_id'[e] = sequence_id[e] + 1
    BY <1>1, <1>2, EpochFacts DEF RefusePacket, may_send, AckInv, EpochOK, wrapping_add, Ids
  <1>4. NetNumbered'
    <2> SUFFICES ASSUME NEW q \in net PROVE 1 <= q.id /\ q.id <= sequence_id'[q.src]
      BY <1>2 DEF NetNumbered
    <2>1. q.src \in Peers /\ q.id \in Nat /\ 1 <= q.id /\ q.id <= sequence_id[q.src]
      BY <1>1 DEF ServiceInv, NetNumbered, AckInv, EpochOK, EpochPackets, Ids
    <2>2. /\ sequence_id[q.src] \in Nat
          /\ sequence_id'[q.src] = sequence_id[q.src]
             \/ sequence_id'[q.src] = sequence_id[q.src] + 1
      BY <1>1, <1>2, <1>3, <2>1 DEF AckInv, EpochOK, Ids
    <2> QED
      BY <2>1, <2>2
  <1> QED
    BY <1>1, <1>2, <1>4
       DEF ServiceInv, ReceivedSent, AckedReceived, AckedMarked, ReceivedHeld

LEMMA NextService == ServiceInv /\ [Next]_vars => ServiceInv'
  <1> SUFFICES ASSUME ServiceInv, [Next]_vars PROVE ServiceInv'
    OBVIOUS
  <1>1. CASE UNCHANGED vars
    <2>1. AckInv'
      BY <1>1, NextInv DEF ServiceInv
    <2> QED
      BY <1>1, <2>1 DEF vars, ServiceInv, NetNumbered, ReceivedSent, AckedReceived,
         AckedMarked, ReceivedHeld
  <1>2. ASSUME NEW e \in Peers, NEW type \in PacketTypes, NEW payload \in Payloads,
               SendPacket(e, type, payload)
        PROVE  ServiceInv'
    BY <1>2, SendService
  <1>3. ASSUME NEW e \in Peers, NEW type \in PacketTypes, RefusePacket(e, type)
        PROVE  ServiceInv'
    BY <1>3, RefuseService
  <1>4. ASSUME NEW e \in Peers, NEW p \in net, process_incoming_packet(e, p)
        PROVE  ServiceInv'
    BY <1>4, ReceiveService
  <1>5. ASSUME NEW e \in Peers, NEW p \in net, RejectPacket(e, p)
        PROVE  ServiceInv'
    BY <1>1, <1>5 DEF RejectPacket
  <1> QED
    BY <1>1, <1>2, <1>3, <1>4, <1>5 DEF Next

\* Whatever the network does, the two ends agree: what an end holds for acked was
\* processed, once, by its peer, and what it holds for processed was sent.
THEOREM ServiceInvariant == Spec => []ServiceInv
  BY InitService, NextService, PTL DEF Spec

-----------------------------------------------------------------------------
(* Theorems *)

\* A packet that was processed once is refused from then on, whatever happened
\* to its slot in received_buffer since.
THEOREM ProcessedOnce == Spec => []NeverFreshAgain
  <1>1. ServiceInv => NeverFreshAgain
    BY FreshExact DEF NeverFreshAgain
  <1> QED
    BY <1>1, ServiceInvariant, PTL

\* A packet not processed before is refused only when it fell out of the
\* window: no slot another number left behind passes for it.
THEOREM RefusedOnlyIfStale == Spec => []NoFalseDuplicate
  <1>1. ServiceInv => NoFalseDuplicate
    <2> SUFFICES ASSUME ServiceInv, NEW e \in Peers, NEW p \in net, p.id \notin received[e]
                 PROVE  fresh_packet(e, p) \/ p.id + RecvSize <= received_buffer[e].sequence
      BY DEF NoFalseDuplicate
    <2>1. p.id \in Ids /\ received_buffer[e].sequence \in Ids
      BY DEF ServiceInv, AckInv, EpochOK, EpochPackets, RecvBuffers
    <2>2. fresh_packet(e, p) <=> p.id + RecvSize > received_buffer[e].sequence
      BY FreshExact
    <2> QED
      BY <2>1, <2>2, EpochFacts DEF Ids
  <1> QED
    BY <1>1, ServiceInvariant, PTL

\* The packet layer, over a network that loses, duplicates, delays and
\* reorders, implements the service the message layer is built on: a packet is
\* handed up at most once and only if it was sent, and reported as acked at
\* most once and only if the peer processed it.
THEOREM Refinement == Spec => ImplementsService
  <1>1. Init => Service!Init
    BY DEF Init, Service!Init, sent_ids
  <1>2. ServiceInv /\ [Next]_vars => [Service!Next]_(Service!vars)
    <2> SUFFICES ASSUME ServiceInv, [Next]_vars PROVE [Service!Next]_(Service!vars)
      OBVIOUS
    <2>1. EpochOK
      BY DEF ServiceInv, AckInv
    <2>2. CASE UNCHANGED <<net, received, handed_up, acked>>
      BY <2>2 DEF Service!vars, sent_ids
    <2>3. ASSUME NEW e \in Peers, NEW type \in PacketTypes, NEW payload \in Payloads,
                 SendPacket(e, type, payload)
          PROVE  Service!Next
      <3> DEFINE p == next_packet_header(e, type, payload)
      <3>1. p.src = e /\ p.id = sequence_id[e] + 1 /\ p.id \in 0 .. MaxSeq
            /\ sequence_id[e] \in Nat
        <4>1. sequence_id[e] \in Ids /\ sequence_id[e] < MaxSeq
          BY <2>1, <2>3 DEF SendPacket, may_send, EpochOK
        <4> QED
          BY <4>1, EpochFacts DEF next_packet_header, wrapping_add, Ids
      <3>2. net' = net \cup {p} /\ UNCHANGED <<received, handed_up, acked>>
        BY <2>3 DEF SendPacket
      <3> HIDE DEF p
      <3>3. p.id \notin sent_ids[e]
        <4> SUFFICES ASSUME NEW q \in net, q.src = e, q.id = p.id PROVE FALSE
          BY DEF sent_ids
        <4>1. q.id <= sequence_id[e]
          BY DEF ServiceInv, NetNumbered
        <4> QED
          BY <3>1, <4>1
      <3>4. sent_ids' = [sent_ids EXCEPT ![e] = sent_ids[e] \cup {p.id}]
        BY <3>1, <3>2 DEF sent_ids
      <3>5. Service!Send(e, p.id)
        BY <3>2, <3>3, <3>4 DEF Service!Send
      <3> QED
        BY <3>1, <3>5 DEF Service!Next
    <2>4. ASSUME NEW e \in Peers, NEW p \in net, process_incoming_packet(e, p)
          PROVE  Service!Next
      <3> DEFINE fresh == newly_acked(e, p.acks)
      <3>1. Service!other(e) = other(e) /\ other(e) \in Peers
        BY PeerFacts DEF other, Service!other
      <3>2. /\ p.id \in 0 .. MaxSeq /\ p.src = other(e) /\ p.acks \subseteq received[other(e)]
            /\ p.acks \subseteq Ids
        BY <2>1, <2>4 DEF EpochOK, EpochPackets, Ids, process_incoming_packet,
           ServiceInv, AckInv, AcksReceived
      <3>3. p.id \in sent_ids[other(e)] \ received[e]
        BY <2>4, <3>1, <3>2, FreshExact DEF sent_ids, process_incoming_packet
      <3>4. fresh \in SUBSET (received[other(e)] \ acked[e])
        <4> SUFFICES ASSUME NEW s \in fresh PROVE s \in received[other(e)] /\ s \notin acked[e]
          OBVIOUS
        <4>1. /\ s \in p.acks /\ s \in Ids
              /\ sent_buffer[e].tag[Sent!index(s)] = s
              /\ ~ sent_buffer[e].entry[Sent!index(s)].acked
          BY <3>2 DEF newly_acked, Sent!exists, Sent!get
        <4>2. Sent!index(s) \in 0 .. SentSize - 1
          BY <4>1, EpochFacts DEF Sent!index, Ids
        <4> QED
          BY <3>2, <4>1, <4>2 DEF ServiceInv, AckedMarked
      <3>5. /\ received' = [received EXCEPT ![e] = received[e] \cup {p.id}]
            /\ handed_up' = [handed_up EXCEPT ![e] = handed_up[e] + 1]
            /\ acked' = [acked EXCEPT ![e] = acked[e] \cup fresh]
            /\ net' = net
        BY <2>4 DEF process_incoming_packet, process_packet_acks
      <3> HIDE DEF fresh
      <3>6. sent_ids' = sent_ids
        BY <3>5 DEF sent_ids
      <3>7. Service!Deliver(e, p.id, fresh)
        BY <3>1, <3>3, <3>5, <3>6 DEF Service!Deliver
      <3> QED
        BY <3>1, <3>2, <3>4, <3>7 DEF Service!Next
    <2>5. ASSUME NEW e \in Peers, NEW type \in PacketTypes, RefusePacket(e, type)
          PROVE  UNCHANGED <<net, received, handed_up, acked>>
      BY <2>5 DEF RefusePacket
    <2>6. ASSUME NEW e \in Peers, NEW p \in net, RejectPacket(e, p)
          PROVE  UNCHANGED <<net, received, handed_up, acked>>
      BY <2>6 DEF RejectPacket, vars
    <2>7. CASE UNCHANGED vars
      BY <2>2, <2>7 DEF vars
    <2> QED
      BY <2>2, <2>3, <2>4, <2>5, <2>6, <2>7 DEF Next
  <1> QED
    BY <1>1, <1>2, ServiceInvariant, PTL DEF Spec, Service!Spec, ImplementsService

-----------------------------------------------------------------------------
(* sent_buffer takes every packet *)

\* The records are of the last SentSize numbers, and every packet that was made
\* had its record.
SentOrdered ==
  \A e \in Peers :
    /\ sent_buffer[e].sequence <= sequence_id[e]
    /\ SentRing!InWindow(sent_buffer[e])
    /\ \A p \in net : p.src = e => p.id <= sent_buffer[e].sequence

\* Within an epoch no record is ever refused as too old.
LEMMA AlwaysRecordedInOrder ==
  ASSUME ServiceInv, SentOrdered, NEW e \in Peers, sequence_id[e] < MaxSeq
  PROVE  ~ record_refused(e)
  <1>1. EpochOK
    BY DEF ServiceInv, AckInv
  <1>2. /\ sequence_id[e] \in 0 .. MaxSeq /\ sent_buffer[e].sequence \in 0 .. MaxSeq
        /\ sent_buffer[e].sequence <= sequence_id[e]
    BY <1>1 DEF EpochOK, SentBuffers, Ids, SentOrdered
  <1>3. PICK s : s = wrapping_add(sequence_id[e], 1)
    OBVIOUS
  <1>4. s = sequence_id[e] + 1 /\ s \in 0 .. MaxSeq
    BY <1>2, <1>3, EpochFacts DEF wrapping_add
  <1>5. MaxSeq + SentSize < SentRing!Half
    BY EpochFacts, SentRingIs
  <1>6. SentRing!insert_too_old(sent_buffer[e], s) <=> s + SentSize < sent_buffer[e].sequence
    BY <1>2, <1>4, <1>5, EpochFacts, SeqModAssumption, SentRing!EpochWindow
  <1> QED
    BY <1>2, <1>3, <1>4, <1>6, SentRingIs, EpochFacts DEF record_refused

LEMMA InitSentOrdered == Init => SentOrdered
  <1> SUFFICES ASSUME Init, NEW e \in Peers
               PROVE  /\ sent_buffer[e].sequence <= sequence_id[e]
                      /\ SentRing!InWindow(sent_buffer[e])
                      /\ \A p \in net : p.src = e => p.id <= sent_buffer[e].sequence
    BY DEF SentOrdered
  <1>1. sent_buffer[e] = Sent!with_capacity /\ sequence_id[e] = 0 /\ net = {}
    BY DEF Init
  <1>2. Sent!with_capacity = SentRing!with_capacity
    BY DEF Sent!with_capacity, SentRing!with_capacity, Sent!Slots, SentRing!Slots,
           Sent!NoSeq, SentRing!NoSeq
  <1>3. Sent!with_capacity.sequence = 0
    BY DEF Sent!with_capacity
  <1>4. SentRing!InWindow(SentRing!with_capacity)
    BY EpochFacts, SeqModAssumption, SentRing!EmptyWindow
  <1> QED
    BY <1>1, <1>2, <1>3, <1>4

LEMMA SendOrdered ==
  ASSUME ServiceInv, SentOrdered, NEW e \in Peers, NEW type, NEW payload,
         SendPacket(e, type, payload)
  PROVE  SentOrdered'
  <1>1. EpochOK
    BY DEF ServiceInv, AckInv
  <1>2. PICK p, data : p = next_packet_header(e, type, payload) /\ data = sent_meta(e)
    OBVIOUS
  <1>3. /\ sequence_id' = [sequence_id EXCEPT ![e] = p.id]
        /\ sent_buffer' = [sent_buffer EXCEPT ![e] = Sent!insert(sent_buffer[e], p.id, data)]
        /\ net' = net \cup {p} /\ sequence_id[e] < MaxSeq
    BY <1>2 DEF SendPacket, may_send
  <1>4. sequence_id[e] \in 0 .. MaxSeq
    BY <1>1 DEF EpochOK, Ids
  <1>5. p.src = e /\ p.id = sequence_id[e] + 1 /\ p.id \in 0 .. MaxSeq
    BY <1>2, <1>3, <1>4, EpochFacts DEF next_packet_header, wrapping_add
  <1>6. data \in SentEntry
    BY <1>1, <1>2 DEF sent_meta, SentEntry, EpochOK, RecvBuffers
  <1>7. PICK buf, new : buf = sent_buffer[e] /\ new = SentRing!insert(buf, p.id, data)
    OBVIOUS
  <1>8. /\ buf \in SentRing!BuffersOver(0 .. MaxSeq, SentEntry) /\ buf.sequence \in 0 .. MaxSeq
        /\ SentRing!InWindow(buf) /\ buf.sequence <= sequence_id[e]
        /\ [acked |-> FALSE, acked_up_to |-> 0] \in SentEntry
        /\ MaxSeq + SentSize < SentRing!Half
    <2>1. buf \in SentBuffers
      BY <1>1, <1>7 DEF EpochOK
    <2>2. buf.sequence \in 0 .. MaxSeq
      BY <2>1 DEF SentBuffers, Ids
    <2>3. SentRing!InWindow(buf) /\ buf.sequence <= sequence_id[e]
      BY <1>7 DEF SentOrdered
    <2>4. [acked |-> FALSE, acked_up_to |-> 0] \in SentEntry
      BY EpochFacts DEF SentEntry, Ids
    <2> QED
      BY <2>1, <2>2, <2>3, <2>4, SentRingIs, EpochFacts
  <1>9. p.id >= buf.sequence
    BY <1>4, <1>5, <1>8
  <1>10. SentRing!InWindow(new) /\ new.sequence = p.id
    BY <1>5, <1>6, <1>7, <1>8, <1>9, EpochFacts, SeqModAssumption, SentRing!NewerInWindow
  <1>11. sent_buffer'[e] = new /\ sequence_id'[e] = p.id
    BY <1>1, <1>3, <1>7, SentRingIs DEF EpochOK
  <1>12. \A r \in net : r.src = e => r.id <= p.id
    <2> SUFFICES ASSUME NEW r \in net, r.src = e PROVE r.id <= p.id
      OBVIOUS
    <2>1. r.id <= sequence_id[e] /\ r.id \in 0 .. MaxSeq
      BY <1>1 DEF ServiceInv, NetNumbered, EpochOK, EpochPackets, Ids
    <2> QED
      BY <1>4, <1>5, <2>1
  <1> SUFFICES ASSUME NEW f \in Peers
               PROVE  /\ sent_buffer'[f].sequence <= sequence_id'[f]
                      /\ SentRing!InWindow(sent_buffer'[f])
                      /\ \A r \in net' : r.src = f => r.id <= sent_buffer'[f].sequence
    BY DEF SentOrdered
  <1>13. CASE f = e
    BY <1>3, <1>5, <1>10, <1>11, <1>12, <1>13
  <1>14. CASE f # e
    <2>1. sent_buffer'[f] = sent_buffer[f] /\ sequence_id'[f] = sequence_id[f]
      BY <1>1, <1>3, <1>14 DEF EpochOK
    <2> QED
      BY <1>3, <1>5, <1>14, <2>1 DEF SentOrdered
  <1> QED
    BY <1>13, <1>14

LEMMA ReceiveOrdered ==
  ASSUME ServiceInv, SentOrdered, NEW e \in Peers, NEW p, process_incoming_packet(e, p)
  PROVE  SentOrdered'
  <1>1. EpochOK
    BY DEF ServiceInv, AckInv
  <1>2. PICK fresh, new : /\ fresh = newly_acked(e, p.acks)
                          /\ new = mark_acked(sent_buffer[e], fresh)
    OBVIOUS
  <1>3. /\ sent_buffer' = [sent_buffer EXCEPT ![e] = new]
        /\ UNCHANGED <<sequence_id, net>>
    BY <1>2 DEF process_incoming_packet, process_packet_acks
  <1>4. new.tag = sent_buffer[e].tag /\ new.sequence = sent_buffer[e].sequence
    BY <1>1, <1>2, MarkAcked DEF EpochOK
  <1>5. \A f \in Peers : /\ sent_buffer'[f].tag = sent_buffer[f].tag
                         /\ sent_buffer'[f].sequence = sent_buffer[f].sequence
    BY <1>1, <1>3, <1>4 DEF EpochOK
  <1> QED
    BY <1>3, <1>5 DEF SentOrdered, SentRing!InWindow

LEMMA RefuseOrdered ==
  ASSUME ServiceInv, SentOrdered, NEW e \in Peers, NEW type, RefusePacket(e, type)
  PROVE  SentOrdered'
  <1>1. EpochOK
    BY DEF ServiceInv, AckInv
  <1>2. /\ sequence_id' = [sequence_id EXCEPT ![e] = wrapping_add(sequence_id[e], 1)]
        /\ UNCHANGED <<sent_buffer, net>> /\ sequence_id[e] < MaxSeq
    BY DEF RefusePacket, may_send
  <1>3. \A f \in Peers : sequence_id[f] \in 0 .. MaxSeq /\ sent_buffer[f].sequence \in 0 .. MaxSeq
    BY <1>1 DEF EpochOK, SentBuffers, Ids
  <1>4. wrapping_add(sequence_id[e], 1) = sequence_id[e] + 1
    BY <1>2, <1>3, EpochFacts DEF wrapping_add
  <1>5. ASSUME NEW f \in Peers PROVE sent_buffer[f].sequence <= sequence_id'[f]
    BY <1>1, <1>2, <1>3, <1>4 DEF SentOrdered, EpochOK
  <1> QED
    BY <1>2, <1>5 DEF SentOrdered

LEMMA IdleOrdered ==
  ASSUME SentOrdered, UNCHANGED <<sent_buffer, sequence_id, net>>
  PROVE  SentOrdered'
  BY DEF SentOrdered
=============================================================================
