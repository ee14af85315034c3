-------------------------- MODULE PacketFlowProofs --------------------------
(***************************************************************************)
(* The limit on packets in flight, as long as only message packets are     *)
(* sent: the ack field never outgrows its header, no packet number is      *)
(* lost, and nothing that has still to be acked is ever forgotten. For any *)
(* limit no larger than the two buffers (350 and 512 in the code).         *)
(***************************************************************************)
EXTENDS PacketLayerProofs

\* What the limit allows to be in flight fits in both buffers.
LimitFits == MaxUnacked <= SentSize /\ MaxUnacked <= RecvSize

\* The newest own packet e knows arrived.
known(e) == unwrap_or_default(newest_ack[e])

\* Up to here e need not ack its peer's packets any more.
settled(e) == unwrap_or_default(ack_low_watermark[e])

-----------------------------------------------------------------------------
(* The sender *)

\* No number was lost: the newest packet made was sent and recorded.
AllRecorded ==
  \A e \in Peers :
    /\ sent_buffer[e].sequence = sequence_id[e]
    /\ \A i \in 0 .. SentSize - 1 :
         sent_buffer[e].tag[i] # NoSeq => sent_buffer[e].tag[i] <= sequence_id[e]

\* Every packet has a number of its own.
NumbersUnique == \A p, q \in net : p.src = q.src /\ p.id = q.id => p = q

\* sent_buffer holds every packet sent inside its window.
SentHeld ==
  \A p \in net :
    p.id + SentSize > sent_buffer[p.src].sequence => Sent!exists(sent_buffer[p.src], p.id)

\* The limit holds.
InFlightLimited == \A e \in Peers : sequence_id[e] <= known(e) + MaxUnacked

\* e knows of every packet marked as acked, or of a newer one.
MarkedKnown ==
  \A e \in Peers, i \in 0 .. SentSize - 1 :
    sent_buffer[e].tag[i] # NoSeq /\ sent_buffer[e].entry[i].acked =>
      sent_buffer[e].tag[i] <= known(e)

\* The newest packet known to have arrived was acked by a packet processed.
KnownFromPeer ==
  \A e \in Peers :
    known(e) # 0 =>
      \E q \in net : q.src = other(e) /\ q.id \in received[e] /\ known(e) \in q.acks

-----------------------------------------------------------------------------
(* What a record in sent_buffer says of the packet it is about *)

\* acked_up_to is not exceeded by what that packet, or one before it, acks; ...
RecordBounds ==
  \A e \in Peers, i \in 0 .. SentSize - 1 :
    sent_buffer[e].tag[i] # NoSeq =>
      /\ sent_buffer[e].entry[i].acked_up_to <= received_buffer[e].sequence
      /\ \A q \in net : q.src = e /\ q.id <= sent_buffer[e].tag[i] =>
           \A a \in q.acks : a <= sent_buffer[e].entry[i].acked_up_to

\* ... and it is acked by that packet, unless it needed no ack any more.
RecordCarried ==
  \A e \in Peers, i \in 0 .. SentSize - 1 :
    sent_buffer[e].tag[i] # NoSeq =>
      \/ sent_buffer[e].entry[i].acked_up_to <= settled(e)
      \/ \A q \in net : q.src = e /\ q.id = sent_buffer[e].tag[i] =>
           sent_buffer[e].entry[i].acked_up_to \in q.acks

-----------------------------------------------------------------------------
(* What the two peers know of each other *)

\* Whatever a processed packet acks, its receiver knows of.
AcksKnown ==
  \A p \in net : p.id \in received[other(p.src)] =>
    \A s \in p.acks : s <= known(other(p.src))

\* Whatever was acked by a packet known to have arrived needs no more acks.
KnownSettles ==
  \A q \in net : q.id <= known(q.src) => \A a \in q.acks : a <= settled(q.src)

\* The ack that allowed a packet to be sent travels back with it: what the
\* sender knew, a, is settled at the peer, or will be once the peer reads in
\* the packet that the sender has the packet q which told it of a.
AllowanceReturned ==
  \A p \in net : \E a \in Ids :
    /\ p.id <= a + MaxUnacked
    /\ \/ a <= settled(other(p.src))
       \/ \E q \in net : q.src = other(p.src) /\ q.id \in p.acks /\ a \in q.acks

\* So the receiver never falls behind with its acks by more than the limit.
BacklogLimited ==
  \A e \in Peers :
    /\ settled(e) <= received_buffer[e].sequence
    /\ received_buffer[e].sequence <= settled(e) + MaxUnacked
    /\ received_buffer[e].sequence # 0 => received_buffer[e].sequence \in received[e]

\* The watermark does not run ahead of the other side.
WatermarkBehind == \A e \in Peers : settled(e) <= known(other(e))

FlowInv ==
  /\ ServiceInv
  /\ AllRecorded /\ NumbersUnique /\ SentHeld
  /\ InFlightLimited /\ MarkedKnown /\ KnownFromPeer
  /\ RecordBounds /\ RecordCarried
  /\ AcksKnown /\ KnownSettles /\ AllowanceReturned /\ BacklogLimited
  /\ WatermarkBehind

-----------------------------------------------------------------------------
(* Consequences of the invariant *)

LEMMA FlowTypes ==
  ASSUME AckInv, NEW e \in Peers
  PROVE  /\ known(e) \in Ids /\ settled(e) \in Ids /\ sequence_id[e] \in Ids
         /\ sent_buffer[e] \in SentBuffers /\ sent_buffer[e].sequence \in Ids
         /\ received_buffer[e] \in RecvBuffers /\ received_buffer[e].sequence \in Ids
         /\ received[e] \subseteq Ids
         /\ other(e) \in Peers /\ other(e) # e /\ other(other(e)) = e
  <1>1. 0 \in Ids
    BY EpochFacts DEF Ids
  <1>2. newest_ack[e] \in OptIds /\ ack_low_watermark[e] \in OptIds
    BY DEF AckInv, EpochOK
  <1>3. known(e) \in Ids /\ settled(e) \in Ids
    BY <1>1, <1>2 DEF known, settled, unwrap_or_default, OptIds
  <1> QED
    BY <1>3, PeerFacts DEF AckInv, EpochOK, SentBuffers, RecvBuffers

LEMMA SentTypes ==
  ASSUME AckInv, NEW e \in Peers, NEW i \in 0 .. SentSize - 1
  PROVE  /\ sent_buffer[e].tag[i] \in Ids \cup {NoSeq}
         /\ sent_buffer[e].entry[i].acked_up_to \in Ids
  <1>1. sent_buffer[e] \in SentBuffers
    BY DEF AckInv, EpochOK
  <1>2. sent_buffer[e].entry[i] \in SentEntry /\ sent_buffer[e].tag[i] \in Ids \cup {NoSeq}
    BY <1>1 DEF SentBuffers
  <1> QED
    BY <1>2 DEF SentEntry

LEMMA NetTypes ==
  ASSUME AckInv, NEW p \in net
  PROVE  p.src \in Peers /\ p.id \in Ids /\ p.acks \subseteq Ids /\ p.acks \subseteq received[p.src]
  BY DEF AckInv, EpochOK, EpochPackets, AcksReceived

\* Whole bytes hold at least the bits asked for.
LEMMA FieldLength ==
  ASSUME NEW n \in Nat
  PROVE  ack_field_length(n) \in Int /\ ack_field_length(n) >= n
  <1> DEFINE m == n + AckBitsPerByte - 1
  <1>1. /\ m = AckBitsPerByte * (m \div AckBitsPerByte) + (m % AckBitsPerByte)
        /\ m % AckBitsPerByte < AckBitsPerByte
        /\ m \div AckBitsPerByte \in Int /\ m % AckBitsPerByte \in Int
    BY SizesAssumption
  <1> QED
    BY <1>1, SizesAssumption DEF ack_field_length

\* Packets a peer acks were sent.
LEMMA AckedSent ==
  ASSUME ServiceInv, NEW e \in Peers, NEW s \in received[other(e)]
  PROVE  s <= sequence_id[e] /\ \E r \in net : r.src = e /\ r.id = s
  <1>1. other(e) \in Peers /\ other(other(e)) = e
    BY PeerFacts
  <1>2. PICK r \in net : r.src = e /\ r.id = s
    BY <1>1 DEF ServiceInv, ReceivedSent
  <1> QED
    BY <1>2 DEF ServiceInv, NetNumbered

LEMMA KnownSent ==
  ASSUME FlowInv, NEW e \in Peers
  PROVE  known(e) <= sequence_id[e]
  <1>1. AckInv
    BY DEF FlowInv, ServiceInv
  <1>2. known(e) \in Ids /\ sequence_id[e] \in Ids
    BY <1>1, FlowTypes
  <1>3. CASE known(e) = 0
    BY <1>2, <1>3 DEF Ids
  <1>4. CASE known(e) # 0
    <2>1. PICK q \in net : q.src = other(e) /\ known(e) \in q.acks
      BY <1>4 DEF FlowInv, KnownFromPeer
    <2>2. known(e) \in received[other(e)]
      BY <1>1, <2>1, NetTypes
    <2> QED
      BY <2>2, AckedSent DEF FlowInv
  <1> QED
    BY <1>3, <1>4

\* The ack field is as long as the backlog, so it fits the header ...
LEMMA Backlog ==
  ASSUME FlowInv, NEW e \in Peers
  PROVE  /\ received_unacked_packets(e) = received_buffer[e].sequence - settled(e)
         /\ ~ header_refused(e)
  <1>1. settled(e) \in Ids /\ received_buffer[e].sequence \in Ids
    BY FlowTypes DEF FlowInv, ServiceInv
  <1>2. settled(e) <= received_buffer[e].sequence
        /\ received_buffer[e].sequence <= settled(e) + MaxUnacked
    BY DEF FlowInv, BacklogLimited
  <1>3. received_unacked_packets(e) = received_buffer[e].sequence - settled(e)
    BY <1>1, <1>2 DEF received_unacked_packets, settled, wrapping_sub, Ids
  <1> QED
    BY <1>1, <1>2, <1>3, SizesAssumption DEF header_refused, Ids

\* ... and reaches back to everything that is not settled yet.
LEMMA StillAcked ==
  ASSUME LimitFits, FlowInv, NEW e \in Peers, NEW s \in received[e], s > settled(e)
  PROVE  s \in with_minimum_length(received_buffer[e], received_unacked_packets(e))
  <1> DEFINE top == received_buffer[e].sequence
  <1>1. settled(e) \in Ids /\ top \in Ids /\ s \in Ids
    BY FlowTypes DEF FlowInv, ServiceInv
  <1>2. s <= top /\ (s + RecvSize > top => Recv!exists(received_buffer[e], s))
    BY DEF FlowInv, ServiceInv, ReceivedHeld
  <1>3. top <= settled(e) + MaxUnacked
    BY DEF FlowInv, BacklogLimited
  <1>4. Recv!exists(received_buffer[e], s)
    BY <1>1, <1>2, <1>3, SizesAssumption DEF LimitFits, Ids
  <1>5. received_unacked_packets(e) = top - settled(e)
    BY Backlog
  <1>6. top - settled(e) \in Nat
    BY <1>1, <1>2 DEF Ids
  <1>7. top - s \in 0 .. ack_field_length(received_unacked_packets(e)) - 1
    BY <1>1, <1>2, <1>5, <1>6, FieldLength DEF Ids
  <1>8. s = wrapping_sub(top, top - s)
    BY <1>1, <1>2 DEF wrapping_sub, Ids
  <1> QED
    BY <1>4, <1>7, <1>8 DEF with_minimum_length

\* sent_buffer always has a place for the next packet.
LEMMA AlwaysRecorded ==
  ASSUME FlowInv, NEW e \in Peers, sequence_id[e] < MaxSeq
  PROVE  ~ record_refused(e)
  <1>1. sent_buffer[e] \in SentBuffers /\ sequence_id[e] \in Ids
    BY FlowTypes DEF FlowInv, ServiceInv
  <1>2. sent_buffer[e].sequence = sequence_id[e]
    BY DEF FlowInv, AllRecorded
  <1>3. /\ wrapping_add(sequence_id[e], 1) = sequence_id[e] + 1
        /\ wrapping_add(sequence_id[e], 1) \in 0 .. MaxSeq
        /\ sent_buffer[e].sequence \in 0 .. MaxSeq
        /\ MaxSeq + SentSize < SentRing!Half
    BY <1>1, <1>2, EpochFacts, SentRingIs DEF wrapping_add, Ids
  <1>4. SentRing!insert_too_old(sent_buffer[e], wrapping_add(sequence_id[e], 1)) <=>
          wrapping_add(sequence_id[e], 1) + SentSize < sent_buffer[e].sequence
    BY <1>3, SentRing!EpochWindow, EpochFacts, SeqModAssumption
  <1>5. ~ Sent!insert_too_old(sent_buffer[e], wrapping_add(sequence_id[e], 1))
    BY <1>1, <1>2, <1>3, <1>4, SentRingIs, EpochFacts DEF Ids
  <1> QED
    BY <1>5 DEF record_refused

LEMMA SentInsertKeeps ==
  ASSUME NEW buf \in SentBuffers, NEW s \in Ids, NEW data \in SentEntry,
         NEW new, new = Sent!insert(buf, s, data), s + SentSize > buf.sequence,
         NEW t \in Ids, t # s, t <= buf.sequence, t + SentSize > new.sequence
  PROVE  new.tag[Sent!index(t)] = buf.tag[Sent!index(t)]
  <1>1. buf \in SentRing!BuffersOver(0 .. MaxSeq, SentEntry)
        /\ new = SentRing!insert(buf, s, data)
    BY SentRingIs
  <1>2. /\ MaxSeq + SentSize < SentRing!Half
        /\ s \in 0 .. MaxSeq /\ t \in 0 .. MaxSeq
    BY EpochFacts, SentRingIs DEF Ids
  <1>3. new.tag[SentRing!index(t)] = buf.tag[SentRing!index(t)]
    <2>1. MaxSeq \in Nat /\ SentSize \in Nat /\ SentSize >= 1
      BY EpochFacts
    <2> QED
      BY <1>1, <1>2, <2>1, SentRing!EpochInsertKeeps, SeqModAssumption
  <1> QED
    BY <1>3, SentRingIs

-----------------------------------------------------------------------------
(* The invariant *)

LEMMA InitFlow == Init => FlowInv
  <1> SUFFICES ASSUME Init PROVE FlowInv
    OBVIOUS
  <1>1. ServiceInv
    BY InitService
  <1>2. \A e \in Peers : known(e) = 0 /\ settled(e) = 0
    BY DEF Init, known, settled, unwrap_or_default
  <1>3. \A e \in Peers : /\ sent_buffer[e].sequence = 0 /\ received_buffer[e].sequence = 0
                         /\ sequence_id[e] = 0
                         /\ \A i \in 0 .. SentSize - 1 :
                              /\ sent_buffer[e].tag[i] = NoSeq
                              /\ sent_buffer[e].entry[i].acked_up_to = 0
    BY DEF Init, Sent!with_capacity, Recv!with_capacity, Sent!Slots, Sent!NoSeq, NoSeq
  <1>4. net = {}
    BY DEF Init
  <1>5. AllRecorded /\ NumbersUnique /\ SentHeld /\ InFlightLimited /\ MarkedKnown
        /\ KnownFromPeer
    BY <1>2, <1>3, <1>4, SizesAssumption
       DEF AllRecorded, NumbersUnique, SentHeld, InFlightLimited, MarkedKnown, KnownFromPeer
  <1>6. RecordBounds /\ RecordCarried
    BY <1>3, <1>4 DEF RecordBounds, RecordCarried
  <1>7. AcksKnown /\ KnownSettles /\ AllowanceReturned
    BY <1>4 DEF AcksKnown, KnownSettles, AllowanceReturned
  <1>8. BacklogLimited
    BY <1>2, <1>3, SizesAssumption DEF BacklogLimited
  <1>9. WatermarkBehind
    BY <1>2, PeerFacts DEF WatermarkBehind, known, settled
  <1> QED
    BY <1>1, <1>5, <1>6, <1>7, <1>8, <1>9 DEF FlowInv

LEMMA SendFlow ==
  ASSUME LimitFits, FlowInv, NEW e \in Peers, NEW type \in PacketTypes, type = "Messages",
         NEW payload \in Payloads, SendPacket(e, type, payload)
  PROVE  FlowInv'
  <1> DEFINE p == next_packet_header(e, type, payload)
             data == sent_meta(e)
             top == received_buffer[e].sequence
  <1>1. ServiceInv /\ ServiceInv' /\ AckInv /\ AckInv' /\ EpochOK
    BY SendService DEF FlowInv, ServiceInv, AckInv
  <1>2. /\ known(e) \in Ids /\ settled(e) \in Ids /\ sequence_id[e] \in Ids
        /\ sent_buffer[e] \in SentBuffers /\ top \in Ids
        /\ received[e] \subseteq Ids
        /\ other(e) \in Peers /\ other(e) # e /\ other(other(e)) = e
    BY <1>1, FlowTypes
  <1>3. /\ p.src = e /\ p.id = sequence_id[e] + 1 /\ p.id \in Ids
        /\ p.acks = with_minimum_length(received_buffer[e], received_unacked_packets(e))
        /\ p.acks \subseteq received[e]
    <2>1. sequence_id[e] < MaxSeq
      BY DEF SendPacket, may_send
    <2> QED
      BY <1>1, <1>2, <2>1, AckField, EpochFacts DEF next_packet_header, wrapping_add, Ids
  <1>4. data \in SentEntry /\ data.acked_up_to = top /\ ~ data.acked
    BY <1>2 DEF sent_meta, SentEntry
  <1>5. /\ sequence_id' = [sequence_id EXCEPT ![e] = p.id]
        /\ sent_buffer' = [sent_buffer EXCEPT ![e] = Sent!insert(sent_buffer[e], p.id, data)]
        /\ net' = net \cup {p}
        /\ UNCHANGED <<received_buffer, newest_ack, ack_low_watermark, received>>
    BY DEF SendPacket
  <1>6. sequence_id[e] - known(e) < MaxUnacked
    <2>1. sent_unacked_packets(e) < MaxUnacked
      BY DEF SendPacket, may_send
    <2>2. known(e) <= sequence_id[e] /\ sent_buffer[e].sequence = sequence_id[e]
      BY KnownSent DEF FlowInv, AllRecorded
    <2> QED
      BY <1>2, <2>1, <2>2 DEF sent_unacked_packets, known, wrapping_sub, Ids
  <1> HIDE DEF p, data
  <1>7. \A f \in Peers : /\ known(f)' = known(f) /\ settled(f)' = settled(f)
                         /\ f # e => /\ sent_buffer'[f] = sent_buffer[f]
                                     /\ sequence_id'[f] = sequence_id[f]
    BY <1>1, <1>5 DEF known, settled, EpochOK
  <1>8. PICK new : new = Sent!insert(sent_buffer[e], p.id, data)
    OBVIOUS
  <1>9. /\ sent_buffer'[e] = new /\ sequence_id'[e] = p.id
        /\ new \in SentBuffers
        /\ sent_buffer[e].sequence = sequence_id[e] /\ new.sequence = p.id
        /\ new.tag[Sent!index(p.id)] = p.id
        /\ new.entry[Sent!index(p.id)] = data
        /\ \A i \in 0 .. SentSize - 1 :
             \/ i = Sent!index(p.id)
             \/ new.tag[i] = NoSeq
             \/ new.tag[i] = sent_buffer[e].tag[i] /\ new.entry[i] = sent_buffer[e].entry[i]
    <2>1. sent_buffer[e].sequence = sequence_id[e]
      BY DEF FlowInv, AllRecorded
    <2>2. sent_buffer'[e] = new /\ sequence_id'[e] = p.id
      BY <1>1, <1>5, <1>8 DEF EpochOK
    <2>3. p.id > sent_buffer[e].sequence
      BY <1>2, <1>3, <2>1 DEF Ids
    <2>4. sent_buffer[e] \in SentBuffers /\ p.id \in Ids /\ data \in SentEntry
      BY <1>2, <1>3, <1>4
    <2>5. /\ new \in SentBuffers
          /\ new.sequence = IF p.id > sent_buffer[e].sequence
                              THEN p.id ELSE sent_buffer[e].sequence
      BY <1>8, <2>4, SentInsert
    <2>6. new.tag[Sent!index(p.id)] = p.id /\ new.entry[Sent!index(p.id)] = data
      BY <1>8, <2>4, SentInsert
    <2>7. \A i \in 0 .. SentSize - 1 :
            \/ i = Sent!index(p.id)
            \/ new.tag[i] = NoSeq
            \/ new.tag[i] = sent_buffer[e].tag[i] /\ new.entry[i] = sent_buffer[e].entry[i]
      BY <1>8, <2>4, SentInsert
    <2> QED
      BY <2>1, <2>2, <2>3, <2>5, <2>6, <2>7
  <1>10. ASSUME NEW q \in net PROVE q.src = e => q.id <= sequence_id[e] /\ q.id < p.id
    <2>1. q.id \in Ids
      BY <1>1, NetTypes
    <2> QED
      BY <1>2, <1>3, <2>1 DEF FlowInv, ServiceInv, NetNumbered, Ids
  <1>11. AllRecorded'
    <2> SUFFICES ASSUME NEW f \in Peers
                 PROVE  /\ sent_buffer'[f].sequence = sequence_id'[f]
                        /\ \A i \in 0 .. SentSize - 1 : sent_buffer'[f].tag[i] # NoSeq =>
                             sent_buffer'[f].tag[i] <= sequence_id'[f]
      BY DEF AllRecorded
    <2>1. CASE f # e
      BY <1>7, <2>1 DEF FlowInv, AllRecorded
    <2>2. CASE f = e
      <3> SUFFICES ASSUME NEW i \in 0 .. SentSize - 1, new.tag[i] # NoSeq
                   PROVE  new.tag[i] <= p.id
        BY <1>9, <2>2
      <3>1. CASE new.tag[i] = p.id
        BY <1>3, <3>1 DEF Ids
      <3>2. CASE new.tag[i] = sent_buffer[e].tag[i]
        <4>1. sent_buffer[e].tag[i] <= sequence_id[e] /\ sent_buffer[e].tag[i] \in Ids
          BY <1>1, <3>2, SentTypes DEF FlowInv, AllRecorded
        <4> QED
          BY <1>2, <1>3, <3>2, <4>1 DEF Ids
      <3> QED
        BY <1>9, <3>1, <3>2
    <2> QED
      BY <2>1, <2>2
  <1>12. SentHeld'
    <2> SUFFICES ASSUME NEW q \in net', q.id + SentSize > sent_buffer'[q.src].sequence
                 PROVE  Sent!exists(sent_buffer'[q.src], q.id)
      BY DEF SentHeld
    <2>1. CASE q = p
      BY <1>3, <1>9, <2>1 DEF Sent!exists
    <2>2. CASE q \in net /\ q.src # e
      <3>1. q.src \in Peers
        BY <1>1, <2>2, NetTypes
      <3> QED
        BY <1>7, <2>2, <3>1 DEF FlowInv, SentHeld
    <2>3. CASE q \in net /\ q.src = e
      <3>1. q.id \in Ids /\ q.id # p.id /\ q.id <= sent_buffer[e].sequence
        BY <1>1, <1>3, <1>9, <1>10, <2>3, NetTypes DEF Ids
      <3>2. q.id + SentSize > new.sequence /\ p.id + SentSize > sent_buffer[e].sequence
            /\ q.id + SentSize > sent_buffer[e].sequence
        BY <1>2, <1>3, <1>9, <2>3, <3>1, EpochFacts DEF Ids
      <3>3. new.tag[Sent!index(q.id)] = sent_buffer[e].tag[Sent!index(q.id)]
        BY <1>2, <1>3, <1>4, <1>8, <3>1, <3>2, SentInsertKeeps
      <3>4. Sent!exists(sent_buffer[e], q.id)
        BY <2>3, <3>2 DEF FlowInv, SentHeld
      <3> QED
        BY <1>9, <2>3, <3>3, <3>4 DEF Sent!exists
    <2> QED
      BY <1>5, <2>1, <2>2, <2>3
  <1>13. InFlightLimited'
    <2> SUFFICES ASSUME NEW f \in Peers PROVE sequence_id'[f] <= known(f)' + MaxUnacked
      BY DEF InFlightLimited
    <2>1. CASE f # e
      BY <1>7, <2>1 DEF FlowInv, InFlightLimited
    <2>2. CASE f = e
      BY <1>2, <1>3, <1>6, <1>7, <1>9, <2>2, SizesAssumption DEF Ids
    <2> QED
      BY <2>1, <2>2
  <1>14. MarkedKnown'
    <2> SUFFICES ASSUME NEW f \in Peers, NEW i \in 0 .. SentSize - 1,
                        sent_buffer'[f].tag[i] # NoSeq, sent_buffer'[f].entry[i].acked
                 PROVE  sent_buffer'[f].tag[i] <= known(f)
      BY <1>7 DEF MarkedKnown
    <2>1. CASE f # e
      BY <1>7, <2>1 DEF FlowInv, MarkedKnown
    <2>2. CASE f = e
      <3>1. new.entry[i] # data
        BY <1>4, <1>9, <2>2
      <3>2. new.tag[i] = sent_buffer[e].tag[i] /\ new.entry[i] = sent_buffer[e].entry[i]
        BY <1>9, <2>2, <3>1
      <3> QED
        BY <1>9, <2>2, <3>2 DEF FlowInv, MarkedKnown
    <2> QED
      BY <2>1, <2>2
  <1>15. KnownFromPeer'
    BY <1>5, <1>7 DEF FlowInv, KnownFromPeer
  <1>16. RecordBounds'
    <2> SUFFICES ASSUME NEW f \in Peers, NEW i \in 0 .. SentSize - 1,
                        sent_buffer'[f].tag[i] # NoSeq
                 PROVE  /\ sent_buffer'[f].entry[i].acked_up_to <= received_buffer[f].sequence
                        /\ \A q \in net' : q.src = f /\ q.id <= sent_buffer'[f].tag[i] =>
                             \A a \in q.acks : a <= sent_buffer'[f].entry[i].acked_up_to
      BY <1>5 DEF RecordBounds
    <2>1. CASE f # e
      BY <1>3, <1>5, <1>7, <2>1 DEF FlowInv, RecordBounds
    <2>2. CASE f = e /\ i = Sent!index(p.id)
      <3>1. ASSUME NEW q \in net', q.src = e, NEW a \in q.acks PROVE a <= top
        <4>1. a \in received[e]
          BY <1>1, <1>3, <1>5, <3>1, NetTypes
        <4> QED
          BY <4>1 DEF FlowInv, ServiceInv, ReceivedHeld
      <3> QED
        BY <1>2, <1>4, <1>9, <2>2, <3>1 DEF Ids
    <2>3. CASE f = e /\ i # Sent!index(p.id)
      <3>1. /\ new.tag[i] = sent_buffer[e].tag[i] /\ new.entry[i] = sent_buffer[e].entry[i]
            /\ sent_buffer[e].tag[i] # NoSeq
        BY <1>9, <2>3
      <3>2. ~ (p.id <= sent_buffer[e].tag[i])
        <4>1. sent_buffer[e].tag[i] \in Ids /\ sent_buffer[e].tag[i] <= sequence_id[e]
          BY <1>1, <3>1, SentTypes DEF FlowInv, AllRecorded
        <4> QED
          BY <1>2, <1>3, <4>1 DEF Ids
      <3> QED
        BY <1>5, <1>9, <2>3, <3>1, <3>2 DEF FlowInv, RecordBounds
    <2> QED
      BY <2>1, <2>2, <2>3
  <1>17. RecordCarried'
    <2> SUFFICES ASSUME NEW f \in Peers, NEW i \in 0 .. SentSize - 1,
                        sent_buffer'[f].tag[i] # NoSeq
                 PROVE  \/ sent_buffer'[f].entry[i].acked_up_to <= settled(f)
                        \/ \A q \in net' : q.src = f /\ q.id = sent_buffer'[f].tag[i] =>
                             sent_buffer'[f].entry[i].acked_up_to \in q.acks
      BY <1>7 DEF RecordCarried
    <2>1. CASE f # e
      BY <1>3, <1>5, <1>7, <2>1 DEF FlowInv, RecordCarried
    <2>2. CASE f = e /\ i = Sent!index(p.id)
      <3>1. top <= settled(e) \/ top \in p.acks
        <4>1. CASE top > settled(e)
          <5>1. top # 0
            BY <1>2, <4>1 DEF Ids
          <5>2. top \in received[e]
            BY <5>1 DEF FlowInv, BacklogLimited
          <5> QED
            BY <1>3, <4>1, <5>2, StillAcked
        <4> QED
          BY <1>2, <4>1 DEF Ids
      <3>2. ASSUME NEW q \in net', q.src = e, q.id = p.id PROVE q = p
        <4>1. q \notin net
          BY <1>1, <1>3, <1>10, <3>2, NetTypes DEF Ids
        <4> QED
          BY <1>5, <4>1
      <3> QED
        BY <1>4, <1>9, <2>2, <3>1, <3>2
    <2>3. CASE f = e /\ i # Sent!index(p.id)
      <3>1. /\ new.tag[i] = sent_buffer[e].tag[i] /\ new.entry[i] = sent_buffer[e].entry[i]
            /\ sent_buffer[e].tag[i] # NoSeq
        BY <1>9, <2>3
      <3>2. p.id # sent_buffer[e].tag[i]
        <4>1. sent_buffer[e].tag[i] \in Ids /\ sent_buffer[e].tag[i] <= sequence_id[e]
          BY <1>1, <3>1, SentTypes DEF FlowInv, AllRecorded
        <4> QED
          BY <1>2, <1>3, <4>1 DEF Ids
      <3> QED
        BY <1>5, <1>9, <2>3, <3>1, <3>2 DEF FlowInv, RecordCarried
    <2> QED
      BY <2>1, <2>2, <2>3
  <1>18. AcksKnown'
    <2> SUFFICES ASSUME NEW q \in net', q.id \in received[other(q.src)], NEW s \in q.acks
                 PROVE  s <= known(other(q.src))
      <3>1. \A q \in net' : q.src \in Peers
        BY <1>1, <1>3, <1>5, NetTypes
      <3> QED
        BY <1>5, <1>7, <3>1, PeerFacts DEF AcksKnown
    <2>1. q # p
      <3> SUFFICES ASSUME q = p PROVE FALSE
        OBVIOUS
      <3>1. p.id <= sequence_id[e]
        BY <1>1, <1>3, AckedSent
      <3> QED
        BY <1>2, <1>3, <3>1 DEF Ids
    <2> QED
      BY <1>5, <2>1 DEF FlowInv, AcksKnown
  <1>19. KnownSettles'
    <2> SUFFICES ASSUME NEW q \in net', q.id <= known(q.src), NEW a \in q.acks
                 PROVE  a <= settled(q.src)
      <3>1. \A q \in net' : q.src \in Peers
        BY <1>1, <1>3, <1>5, NetTypes
      <3> QED
        BY <1>7, <3>1 DEF KnownSettles
    <2>1. q # p
      <3>1. known(e) <= sequence_id[e]
        BY KnownSent
      <3> QED
        BY <1>2, <1>3, <3>1 DEF Ids
    <2> QED
      BY <1>5, <2>1 DEF FlowInv, KnownSettles
  <1>20. AllowanceReturned'
    <2> SUFFICES ASSUME NEW r \in net'
                 PROVE  \E a \in Ids :
                          /\ r.id <= a + MaxUnacked
                          /\ \/ a <= settled(other(r.src))
                             \/ \E q \in net' : q.src = other(r.src) /\ q.id \in r.acks /\ a \in q.acks
      <3>1. \A q \in net' : q.src \in Peers
        BY <1>1, <1>3, <1>5, NetTypes
      <3> QED
        BY <1>7, <3>1, PeerFacts DEF AllowanceReturned
    <2>1. CASE r \in net
      BY <1>5, <2>1 DEF FlowInv, AllowanceReturned
    <2>2. CASE r = p
      <3>1. p.id <= known(e) + MaxUnacked
        BY <1>2, <1>3, <1>6, SizesAssumption DEF Ids
      <3>2. \/ known(e) <= settled(other(e))
            \/ \E q \in net : q.src = other(e) /\ q.id \in p.acks /\ known(e) \in q.acks
        <4>1. CASE known(e) = 0
          <5>1. settled(other(e)) \in Ids
            BY <1>1, <1>2, FlowTypes
          <5> QED
            BY <4>1, <5>1 DEF Ids
        <4>2. CASE known(e) # 0
          <5>1. PICK q \in net : q.src = other(e) /\ q.id \in received[e] /\ known(e) \in q.acks
            BY <4>2 DEF FlowInv, KnownFromPeer
          <5>2. CASE q.id > settled(e)
            BY <1>3, <5>1, <5>2, StillAcked
          <5>3. CASE q.id <= settled(e)
            <6>1. settled(e) <= known(other(e))
              BY DEF FlowInv, WatermarkBehind
            <6>2. q.id \in Ids /\ known(other(e)) \in Ids
              BY <1>1, <1>2, NetTypes, FlowTypes
            <6>3. q.id <= known(other(e))
              BY <1>2, <5>3, <6>1, <6>2 DEF Ids
            <6> QED
              BY <5>1, <6>3 DEF FlowInv, KnownSettles
          <5>4. q.id \in Ids
            BY <1>1, NetTypes
          <5> QED
            BY <1>2, <5>2, <5>3, <5>4 DEF Ids
        <4> QED
          BY <4>1, <4>2
      <3> QED
        BY <1>2, <1>3, <1>5, <2>2, <3>1, <3>2
    <2> QED
      BY <1>5, <2>1, <2>2
  <1>21. BacklogLimited'
    BY <1>5, <1>7 DEF FlowInv, BacklogLimited
  <1>22. WatermarkBehind'
    BY <1>7, PeerFacts DEF FlowInv, WatermarkBehind
  <1>23. NumbersUnique'
    <2>1. \A q \in net : q.src = e => q.id # p.id
      BY <1>1, <1>3, <1>10, NetTypes DEF Ids
    <2> QED
      BY <1>3, <1>5, <2>1 DEF FlowInv, NumbersUnique
  <1> QED
    BY <1>1, <1>11, <1>12, <1>13, <1>14, <1>15, <1>16, <1>17, <1>18, <1>19, <1>20,
       <1>21, <1>22, <1>23 DEF FlowInv

\* What newest_of does to a watermark that counts as 0 while it is None.
LEMMA NewestMark ==
  ASSUME NEW mark \in OptIds, NEW S, S \subseteq Ids
  PROVE  LET new == unwrap_or_default(newest_of(mark, S))
         IN  /\ new \in Ids
             /\ new >= unwrap_or_default(mark)
             /\ \A s \in S : new >= s
             /\ new \in S \/ new = unwrap_or_default(mark)
  <1>1. PICK m : m = newest_of(mark, S)
    OBVIOUS
  <1>2. /\ m \in OptIds
        /\ mark # None => m \in Ids /\ m >= mark
        /\ \A s \in S : m \in Ids /\ m >= s
        /\ m \in S \cup {mark}
    BY <1>1, NewestOfMax
  <1>3. 0 \in Ids /\ None \notin Ids
    BY EpochFacts DEF Ids
  <1>4. unwrap_or_default(m) \in Ids /\ (m \in Ids => unwrap_or_default(m) = m)
    BY <1>2, <1>3 DEF unwrap_or_default, OptIds
  <1>5. unwrap_or_default(m) >= unwrap_or_default(mark)
    BY <1>2, <1>3, <1>4 DEF unwrap_or_default, OptIds, Ids
  <1>6. \A s \in S : unwrap_or_default(m) >= s
    BY <1>2, <1>4
  <1>7. unwrap_or_default(m) \in S \/ unwrap_or_default(m) = unwrap_or_default(mark)
    BY <1>2, <1>4
  <1> QED
    BY <1>1, <1>4, <1>5, <1>6, <1>7

LEMMA ReceiveFlow ==
  ASSUME LimitFits, FlowInv, NEW e \in Peers, NEW p \in net, process_incoming_packet(e, p)
  PROVE  FlowInv'
  <1> DEFINE fresh == newly_acked(e, p.acks)
             up_to == {Sent!get(sent_buffer[e], s).acked_up_to : s \in fresh}
             top == received_buffer[e].sequence
             sb == sent_buffer[e]
  <1>1. ServiceInv /\ ServiceInv' /\ AckInv /\ AckInv' /\ EpochOK
    BY ReceiveService DEF FlowInv, ServiceInv, AckInv
  <1>2. /\ known(e) \in Ids /\ settled(e) \in Ids /\ sequence_id[e] \in Ids
        /\ sb \in SentBuffers /\ sb.sequence \in Ids
        /\ received_buffer[e] \in RecvBuffers /\ top \in Ids
        /\ other(e) \in Peers /\ other(e) # e /\ other(other(e)) = e
    BY <1>1, FlowTypes
  <1>3. p.src = other(e) /\ p.id \in Ids /\ p.acks \subseteq Ids /\ p.acks \subseteq received[other(e)]
    BY <1>1, NetTypes DEF process_incoming_packet
  \* What a newly acked packet's slot holds.
  <1>4. ASSUME NEW m \in fresh
        PROVE  /\ m \in p.acks /\ m \in Ids /\ m # NoSeq
               /\ Sent!index(m) \in 0 .. SentSize - 1
               /\ sb.tag[Sent!index(m)] = m
               /\ sb.entry[Sent!index(m)].acked_up_to \in up_to
               /\ sb.entry[Sent!index(m)].acked_up_to \in Ids
    <2>1. m \in p.acks /\ m \in Ids /\ sb.tag[Sent!index(m)] = m /\ m # NoSeq
      BY <1>3, EpochFacts DEF newly_acked, Sent!exists
    <2>2. Sent!index(m) \in 0 .. SentSize - 1
      BY <2>1, EpochFacts DEF Sent!index, Ids
    <2>3. sb.entry[Sent!index(m)].acked_up_to \in up_to
      BY DEF Sent!get
    <2> QED
      BY <1>1, <2>1, <2>2, <2>3, SentTypes
  <1>5. fresh \subseteq Ids /\ up_to \subseteq Ids
    BY <1>4 DEF Sent!get
  <1>6. ASSUME NEW u \in up_to
        PROVE  \E m \in fresh : u = sb.entry[Sent!index(m)].acked_up_to
    BY DEF Sent!get
  <1>7. ASSUME NEW s \in p.acks, Sent!exists(sb, s)
        PROVE  s \in fresh \/ sb.entry[Sent!index(s)].acked
    BY <1>7 DEF newly_acked, Sent!get
  <1>8. /\ received_buffer' =
             [received_buffer EXCEPT ![e] = Recv!insert(received_buffer[e], p.id, "meta")]
        /\ received' = [received EXCEPT ![e] = received[e] \cup {p.id}]
        /\ newest_ack' = [newest_ack EXCEPT ![e] = newest_of(newest_ack[e], fresh)]
        /\ ack_low_watermark' =
             [ack_low_watermark EXCEPT ![e] = newest_of(ack_low_watermark[e], up_to)]
        /\ sent_buffer' = [sent_buffer EXCEPT ![e] = mark_acked(sent_buffer[e], fresh)]
        /\ UNCHANGED <<sequence_id, net>>
    BY DEF process_incoming_packet, process_packet_acks
  <1> HIDE DEF fresh, up_to
  <1>9. \A f \in Peers : f # e => /\ known(f)' = known(f) /\ settled(f)' = settled(f)
                                  /\ sent_buffer'[f] = sent_buffer[f]
                                  /\ received_buffer'[f] = received_buffer[f]
                                  /\ received'[f] = received[f]
    BY <1>1, <1>8 DEF known, settled, EpochOK
  <1>10. /\ known(e)' \in Ids /\ known(e)' >= known(e)
         /\ \A s \in fresh : known(e)' >= s
         /\ known(e)' \in fresh \/ known(e)' = known(e)
    <2>1. newest_ack'[e] = newest_of(newest_ack[e], fresh) /\ newest_ack[e] \in OptIds
      BY <1>1, <1>8 DEF EpochOK
    <2> QED
      BY <1>5, <2>1, NewestMark DEF known
  <1>11. /\ settled(e)' \in Ids /\ settled(e)' >= settled(e)
         /\ \A u \in up_to : settled(e)' >= u
         /\ settled(e)' \in up_to \/ settled(e)' = settled(e)
    <2>1. /\ ack_low_watermark'[e] = newest_of(ack_low_watermark[e], up_to)
          /\ ack_low_watermark[e] \in OptIds
      BY <1>1, <1>8 DEF EpochOK
    <2> QED
      BY <1>5, <2>1, NewestMark DEF settled
  <1>12. \A f \in Peers : /\ known(f) \in Ids /\ known(f)' \in Ids /\ known(f) <= known(f)'
                          /\ settled(f) \in Ids /\ settled(f)' \in Ids /\ settled(f) <= settled(f)'
                          /\ received[f] \subseteq received'[f]
    <2> SUFFICES ASSUME NEW f \in Peers
                 PROVE  /\ known(f) \in Ids /\ known(f)' \in Ids /\ known(f) <= known(f)'
                        /\ settled(f) \in Ids /\ settled(f)' \in Ids /\ settled(f) <= settled(f)'
                        /\ received[f] \subseteq received'[f]
      OBVIOUS
    <2>1. known(f) \in Ids /\ settled(f) \in Ids
      BY <1>1, FlowTypes
    <2>2. received[f] \subseteq received'[f]
      BY <1>1, <1>8 DEF EpochOK
    <2>3. CASE f # e
      BY <1>9, <2>1, <2>2, <2>3 DEF Ids
    <2>4. CASE f = e
      BY <1>10, <1>11, <2>1, <2>2, <2>4 DEF Ids
    <2> QED
      BY <2>3, <2>4
  <1>13. PICK new : new = mark_acked(sb, fresh)
    OBVIOUS
  <1>14. /\ sent_buffer'[e] = new
         /\ new.tag = sb.tag /\ new.sequence = sb.sequence
         /\ \A i \in 0 .. SentSize - 1 :
              /\ new.entry[i].acked => sb.entry[i].acked \/ sb.tag[i] \in fresh
              /\ new.entry[i].acked_up_to = sb.entry[i].acked_up_to
    <2>1. sent_buffer'[e] = new
      BY <1>1, <1>8, <1>13 DEF EpochOK
    <2> QED
      BY <1>2, <1>13, <2>1, MarkAcked
  <1>15. \A f \in Peers : /\ sent_buffer'[f].tag = sent_buffer[f].tag
                          /\ sent_buffer'[f].sequence = sent_buffer[f].sequence
                          /\ \A i \in 0 .. SentSize - 1 :
                               sent_buffer'[f].entry[i].acked_up_to
                                 = sent_buffer[f].entry[i].acked_up_to
    BY <1>9, <1>14
  <1>16. /\ received_buffer'[e].sequence = (IF p.id > top THEN p.id ELSE top)
         /\ received'[e] = received[e] \cup {p.id}
    <2>1. PICK rb : rb = Recv!insert(received_buffer[e], p.id, "meta")
      OBVIOUS
    <2>2. /\ received_buffer'[e] = rb /\ "meta" \in ReceivedMeta
          /\ received'[e] = received[e] \cup {p.id}
      BY <1>1, <1>8, <2>1 DEF EpochOK, ReceivedMeta
    <2>3. received_buffer[e] \in RecvBuffers /\ p.id \in Ids /\ "meta" \in ReceivedMeta
      BY <1>2, <1>3, <2>2
    <2>4. rb.sequence = IF p.id > top THEN p.id ELSE top
      BY <2>1, <2>3, RecvInsert
    <2> QED
      BY <2>2, <2>4
  \* After the packet is processed, whatever it acks is known.
  <1>17. ASSUME NEW s \in p.acks PROVE s <= known(e)'
    <2>1. s \in Ids /\ \E r \in net : r.src = e /\ r.id = s
      BY <1>1, <1>3, AckedSent
    <2>2. CASE s + SentSize > sb.sequence
      <3>1. Sent!exists(sb, s)
        BY <2>1, <2>2 DEF FlowInv, SentHeld
      <3>2. CASE s \in fresh
        BY <1>10, <2>1, <3>2 DEF Ids
      <3>3. CASE sb.entry[Sent!index(s)].acked
        <4>1. Sent!index(s) \in 0 .. SentSize - 1 /\ s # NoSeq
          BY <2>1, EpochFacts DEF Sent!index, Ids
        <4>2. s <= known(e)
          BY <3>1, <3>3, <4>1 DEF FlowInv, MarkedKnown, Sent!exists
        <4> QED
          BY <1>2, <1>10, <2>1, <4>2 DEF Ids
      <3> QED
        BY <1>7, <3>1, <3>2, <3>3
    <2>3. CASE ~ (s + SentSize > sb.sequence)
      <3>1. sb.sequence = sequence_id[e] /\ sequence_id[e] <= known(e) + MaxUnacked
        BY DEF FlowInv, AllRecorded, InFlightLimited
      <3> QED
        BY <1>2, <1>10, <2>1, <2>3, <3>1, SizesAssumption DEF LimitFits, Ids
    <2> QED
      BY <2>2, <2>3
  <1>18. AllRecorded' /\ NumbersUnique' /\ SentHeld'
    <2>1. \A q \in net : q.src \in Peers
      BY <1>1, NetTypes
    <2> QED
      BY <1>8, <1>15, <2>1 DEF FlowInv, AllRecorded, NumbersUnique, SentHeld, Sent!exists
  <1>19. InFlightLimited'
    <2> SUFFICES ASSUME NEW f \in Peers PROVE sequence_id[f] <= known(f)' + MaxUnacked
      BY <1>8 DEF InFlightLimited
    <2>1. sequence_id[f] <= known(f) + MaxUnacked /\ sequence_id[f] \in Ids
      BY <1>1, FlowTypes DEF FlowInv, InFlightLimited
    <2> QED
      BY <1>12, <2>1, SizesAssumption DEF Ids
  <1>20. MarkedKnown'
    <2> SUFFICES ASSUME NEW f \in Peers, NEW i \in 0 .. SentSize - 1,
                        sent_buffer[f].tag[i] # NoSeq, sent_buffer'[f].entry[i].acked
                 PROVE  sent_buffer[f].tag[i] <= known(f)'
      BY <1>15 DEF MarkedKnown
    <2>1. sent_buffer[f].tag[i] \in Ids
      BY <1>1, SentTypes
    <2>2. CASE f = e /\ sb.tag[i] \in fresh
      BY <1>10, <2>1, <2>2 DEF Ids
    <2>3. CASE sent_buffer[f].entry[i].acked
      <3>1. sent_buffer[f].tag[i] <= known(f)
        BY <2>3 DEF FlowInv, MarkedKnown
      <3> QED
        BY <1>12, <2>1, <3>1 DEF Ids
    <2> QED
      BY <1>9, <1>14, <2>2, <2>3
  <1>21. KnownFromPeer'
    <2> SUFFICES ASSUME NEW f \in Peers, known(f)' # 0
                 PROVE  \E q \in net : /\ q.src = other(f) /\ q.id \in received'[f]
                                       /\ known(f)' \in q.acks
      BY <1>8 DEF KnownFromPeer
    <2>1. CASE known(f)' = known(f)
      <3>1. PICK q \in net : q.src = other(f) /\ q.id \in received[f] /\ known(f) \in q.acks
        BY <2>1 DEF FlowInv, KnownFromPeer
      <3> QED
        BY <1>12, <2>1, <3>1
    <2>2. CASE f = e /\ known(e)' \in fresh
      BY <1>3, <1>4, <1>16, <2>2
    <2> QED
      BY <1>9, <1>10, <2>1, <2>2
  <1>22. RecordBounds'
    <2> SUFFICES ASSUME NEW f \in Peers, NEW i \in 0 .. SentSize - 1,
                        sent_buffer[f].tag[i] # NoSeq
                 PROVE  /\ sent_buffer[f].entry[i].acked_up_to <= received_buffer'[f].sequence
                        /\ \A q \in net : q.src = f /\ q.id <= sent_buffer[f].tag[i] =>
                             \A a \in q.acks : a <= sent_buffer[f].entry[i].acked_up_to
      BY <1>8, <1>15 DEF RecordBounds
    <2>1. /\ sent_buffer[f].entry[i].acked_up_to <= received_buffer[f].sequence
          /\ sent_buffer[f].entry[i].acked_up_to \in Ids /\ received_buffer[f].sequence \in Ids
      BY <1>1, SentTypes, FlowTypes DEF FlowInv, RecordBounds
    <2>2. /\ received_buffer'[f].sequence \in Ids
          /\ received_buffer[f].sequence <= received_buffer'[f].sequence
      BY <1>2, <1>3, <1>9, <1>16, <2>1 DEF Ids
    <2>3. sent_buffer[f].entry[i].acked_up_to <= received_buffer'[f].sequence
      BY <2>1, <2>2 DEF Ids
    <2> QED
      BY <2>3 DEF FlowInv, RecordBounds
  <1>23. RecordCarried'
    <2> SUFFICES ASSUME NEW f \in Peers, NEW i \in 0 .. SentSize - 1,
                        sent_buffer[f].tag[i] # NoSeq
                 PROVE  \/ sent_buffer[f].entry[i].acked_up_to <= settled(f)'
                        \/ \A q \in net : q.src = f /\ q.id = sent_buffer[f].tag[i] =>
                             sent_buffer[f].entry[i].acked_up_to \in q.acks
      BY <1>8, <1>15 DEF RecordCarried
    <2>1. sent_buffer[f].entry[i].acked_up_to \in Ids
      BY <1>1, SentTypes
    <2>2. CASE sent_buffer[f].entry[i].acked_up_to <= settled(f)
      BY <1>12, <2>1, <2>2 DEF Ids
    <2> QED
      BY <2>2 DEF FlowInv, RecordCarried
  <1>24. AcksKnown'
    <2> SUFFICES ASSUME NEW q \in net, q.id \in received'[other(q.src)], NEW s \in q.acks
                 PROVE  s <= known(other(q.src))'
      BY <1>8 DEF AcksKnown
    <2>1. q.src \in Peers /\ other(q.src) \in Peers /\ s \in Ids
      BY <1>1, NetTypes, PeerFacts
    <2>2. CASE q.id \in received[other(q.src)]
      <3>1. s <= known(other(q.src))
        BY <2>2 DEF FlowInv, AcksKnown
      <3> QED
        BY <1>12, <2>1, <3>1 DEF Ids
    <2>3. CASE q.id \notin received[other(q.src)]
      <3>1. other(q.src) = e /\ q.id = p.id
        BY <1>9, <1>16, <2>1, <2>3
      <3>2. q = p
        BY <1>3, <2>1, <3>1, PeerFacts DEF FlowInv, NumbersUnique
      <3> QED
        BY <1>17, <3>1, <3>2
    <2> QED
      BY <2>2, <2>3
  <1>25. KnownSettles'
    <2> SUFFICES ASSUME NEW q \in net, q.id <= known(q.src)', NEW a \in q.acks
                 PROVE  a <= settled(q.src)'
      BY <1>8 DEF KnownSettles
    <2>1. q.src \in Peers /\ q.id \in Ids /\ a \in Ids
      BY <1>1, NetTypes
    <2>2. CASE known(q.src)' = known(q.src)
      <3>1. a <= settled(q.src)
        BY <2>2 DEF FlowInv, KnownSettles
      <3> QED
        BY <1>12, <2>1, <3>1 DEF Ids
    <2>3. CASE q.src = e /\ known(e)' \in fresh
      <3>1. PICK m \in fresh : m = known(e)'
        BY <2>3
      <3>2. a <= sb.entry[Sent!index(m)].acked_up_to
        BY <1>4, <2>3, <3>1 DEF FlowInv, RecordBounds
      <3>3. sb.entry[Sent!index(m)].acked_up_to <= settled(e)'
        BY <1>4, <1>11 DEF Ids
      <3> QED
        BY <1>4, <1>11, <2>1, <2>3, <3>2, <3>3 DEF Ids
    <2> QED
      BY <1>9, <1>10, <2>1, <2>2, <2>3
  <1>26. AllowanceReturned'
    <2> SUFFICES ASSUME NEW r \in net
                 PROVE  \E a \in Ids :
                          /\ r.id <= a + MaxUnacked
                          /\ \/ a <= settled(other(r.src))'
                             \/ \E q \in net : q.src = other(r.src) /\ q.id \in r.acks /\ a \in q.acks
      BY <1>8 DEF AllowanceReturned
    <2>1. other(r.src) \in Peers
      BY <1>1, NetTypes, PeerFacts
    <2>2. PICK a \in Ids : /\ r.id <= a + MaxUnacked
                           /\ \/ a <= settled(other(r.src))
                              \/ \E q \in net : /\ q.src = other(r.src)
                                                /\ q.id \in r.acks /\ a \in q.acks
      BY DEF FlowInv, AllowanceReturned
    <2>3. a <= settled(other(r.src)) => a <= settled(other(r.src))'
      BY <1>12, <2>1 DEF Ids
    <2> QED
      BY <2>2, <2>3
  <1>27. BacklogLimited'
    <2> SUFFICES ASSUME NEW f \in Peers
                 PROVE  /\ settled(f)' <= received_buffer'[f].sequence
                        /\ received_buffer'[f].sequence <= settled(f)' + MaxUnacked
                        /\ received_buffer'[f].sequence # 0 =>
                             received_buffer'[f].sequence \in received'[f]
      BY DEF BacklogLimited
    <2>1. CASE f # e
      BY <1>9, <2>1 DEF FlowInv, BacklogLimited
    <2>2. CASE f = e
      <3>1. settled(e) <= top /\ top <= settled(e) + MaxUnacked /\ (top # 0 => top \in received[e])
        BY DEF FlowInv, BacklogLimited
      <3>2. settled(e)' <= top
        <4>1. CASE settled(e)' \in up_to
          <5>1. PICK m \in fresh : settled(e)' = sb.entry[Sent!index(m)].acked_up_to
            BY <1>6, <4>1
          <5> QED
            BY <1>4, <5>1 DEF FlowInv, RecordBounds
        <4> QED
          BY <1>11, <3>1, <4>1
      <3>3. p.id <= settled(e)' + MaxUnacked
        <4>1. PICK a \in Ids : /\ p.id <= a + MaxUnacked
                               /\ \/ a <= settled(e)
                                  \/ \E q \in net : q.src = e /\ q.id \in p.acks /\ a \in q.acks
          BY <1>2, <1>3 DEF FlowInv, AllowanceReturned
        <4>2. a <= settled(e)'
          <5>1. CASE a <= settled(e)
            BY <1>2, <1>11, <5>1 DEF Ids
          <5>2. CASE \E q \in net : q.src = e /\ q.id \in p.acks /\ a \in q.acks
            BY <1>8, <1>17, <1>25, <5>2 DEF KnownSettles
          <5> QED
            BY <4>1, <5>1, <5>2
        <4> QED
          BY <1>3, <1>11, <4>1, <4>2, SizesAssumption DEF Ids
      <3>4. top <= settled(e)' + MaxUnacked
        BY <1>2, <1>11, <3>1, SizesAssumption DEF Ids
      <3> QED
        BY <1>2, <1>3, <1>11, <1>16, <2>2, <3>1, <3>2, <3>3, <3>4 DEF Ids
    <2> QED
      BY <2>1, <2>2
  <1>28. WatermarkBehind'
    <2> SUFFICES ASSUME NEW f \in Peers PROVE settled(f)' <= known(other(f))'
      BY DEF WatermarkBehind
    <2>1. settled(f) <= known(other(f)) /\ other(f) \in Peers
      BY PeerFacts DEF FlowInv, WatermarkBehind
    <2>2. CASE settled(f)' = settled(f)
      BY <1>12, <2>1, <2>2 DEF Ids
    <2>3. CASE f = e /\ settled(e)' \in up_to
      <3>1. PICK m \in fresh : settled(e)' = sb.entry[Sent!index(m)].acked_up_to
        BY <1>6, <2>3
      <3>2. \/ settled(e)' <= settled(e)
            \/ \A q \in net : q.src = e /\ q.id = m => settled(e)' \in q.acks
        BY <1>4, <3>1 DEF FlowInv, RecordCarried
      <3>3. m \in received[other(e)] /\ \E q \in net : q.src = e /\ q.id = m
        BY <1>1, <1>3, <1>4, AckedSent
      <3>4. CASE settled(e)' <= settled(e)
        BY <1>12, <2>1, <2>3, <3>4 DEF Ids
      <3>5. CASE \E q \in net : q.src = e /\ q.id = m /\ settled(e)' \in q.acks
        <4>1. settled(e)' <= known(other(e))
          BY <3>3, <3>5 DEF FlowInv, AcksKnown
        <4> QED
          BY <1>12, <2>1, <2>3, <4>1 DEF Ids
      <3> QED
        BY <3>2, <3>3, <3>4, <3>5
    <2> QED
      BY <1>9, <1>11, <2>2, <2>3
  <1> QED
    BY <1>1, <1>18, <1>19, <1>20, <1>21, <1>22, <1>23, <1>24, <1>25, <1>26, <1>27, <1>28
       DEF FlowInv

LEMMA NextFlow ==
  ASSUME LimitFits
  PROVE  (OnlyMessages => FlowInv) /\ [Next]_vars => (OnlyMessages => FlowInv)'
  <1> SUFFICES ASSUME OnlyMessages => FlowInv, [Next]_vars, OnlyMessages' PROVE FlowInv'
    OBVIOUS
  <1>0. net \subseteq net'
    BY DEF Next, SendPacket, RefusePacket, process_incoming_packet, RejectPacket, vars
  <1> FlowInv
    BY <1>0 DEF OnlyMessages
  <1>1. CASE UNCHANGED vars
    <2>1. ServiceInv'
      BY <1>1, NextService DEF FlowInv
    <2>2. \A e \in Peers : known(e)' = known(e) /\ settled(e)' = settled(e)
      BY <1>1 DEF vars, known, settled
    <2>3. \A q \in net : q.src \in Peers /\ other(q.src) \in Peers
      BY NetTypes, PeerFacts DEF FlowInv, ServiceInv
    <2>4. AllRecorded' /\ NumbersUnique' /\ SentHeld' /\ InFlightLimited' /\ MarkedKnown'
      BY <1>1, <2>2 DEF vars, FlowInv, AllRecorded, NumbersUnique, SentHeld,
         InFlightLimited, MarkedKnown
    <2>5. KnownFromPeer' /\ RecordBounds' /\ RecordCarried'
      BY <1>1, <2>2 DEF vars, FlowInv, KnownFromPeer, RecordBounds, RecordCarried
    <2>6. AcksKnown' /\ KnownSettles'
      BY <1>1, <2>2, <2>3 DEF vars, FlowInv, AcksKnown, KnownSettles
    <2>7. AllowanceReturned' /\ BacklogLimited' /\ WatermarkBehind'
      BY <1>1, <2>2, <2>3, PeerFacts
         DEF vars, FlowInv, AllowanceReturned, BacklogLimited, WatermarkBehind
    <2> QED
      BY <2>1, <2>4, <2>5, <2>6, <2>7 DEF FlowInv
  <1>2. ASSUME NEW e \in Peers, NEW type \in PacketTypes, NEW payload \in Payloads,
               SendPacket(e, type, payload)
        PROVE  FlowInv'
    <2>1. type = "Messages"
      <3>1. next_packet_header(e, type, payload) \in net'
        BY <1>2 DEF SendPacket
      <3>2. next_packet_header(e, type, payload).type = type
        BY DEF next_packet_header
      <3> QED
        BY <3>1, <3>2 DEF OnlyMessages
    <2> QED
      BY <1>2, <2>1, SendFlow
  <1>3. ASSUME NEW e \in Peers, NEW type \in PacketTypes
        PROVE  ~ RefusePacket(e, type)
    BY <1>3, Backlog, AlwaysRecorded DEF RefusePacket, may_send
  <1>4. ASSUME NEW e \in Peers, NEW p \in net, process_incoming_packet(e, p)
        PROVE  FlowInv'
    BY <1>4, ReceiveFlow
  <1>5. ASSUME NEW e \in Peers, NEW p \in net, RejectPacket(e, p)
        PROVE  FlowInv'
    BY <1>1, <1>5 DEF RejectPacket
  <1> QED
    BY <1>1, <1>2, <1>3, <1>4, <1>5 DEF Next

LEMMA FlowInvariant ==
  ASSUME LimitFits
  PROVE  Spec => [](OnlyMessages => FlowInv)
  BY InitFlow, NextFlow, PTL DEF Spec

-----------------------------------------------------------------------------
(* Theorems *)

\* As long as only message packets are sent, the limit checked in compose_packets
\* does what the comment there says: no header is ever refused because the
\* ack field would not fit.
THEOREM HeadersFit ==
  ASSUME LimitFits
  PROVE  Spec => []AckFieldFits
  <1>1. (OnlyMessages => FlowInv) => AckFieldFits
    BY Backlog DEF AckFieldFits
  <1> QED
    BY <1>1, FlowInvariant, PTL

\* A peer stops acking a packet only when its sender knows that it arrived, or
\* that a newer one did: the watermark never runs ahead of the other side.
THEOREM WatermarkSafe ==
  ASSUME LimitFits
  PROVE  Spec => []WatermarkKnown
  <1>1. (OnlyMessages => FlowInv) => WatermarkKnown
    BY DEF FlowInv, WatermarkBehind, WatermarkKnown, settled, known
  <1> QED
    BY <1>1, FlowInvariant, PTL

\* Until then the next header carries its ack: received_buffer has not dropped
\* the packet, and the ack field reaches back far enough.
THEOREM NothingForgotten ==
  ASSUME LimitFits
  PROVE  Spec => []AckableStillHeld
  <1>1. (OnlyMessages => FlowInv) => AckableStillHeld
    BY StillAcked DEF AckableStillHeld, settled
  <1> QED
    BY <1>1, FlowInvariant, PTL
=============================================================================
