---------------------------- MODULE PacketLayer ----------------------------
(***************************************************************************)
(* The packet layer of two Pickleback endpoints: packet numbering, the     *)
(* sent and received buffers, the ack field of every packet header and the *)
(* limit on packets in flight.                                             *)
(*                                                                         *)
(* The network is the set of all packets ever sent. A packet may be        *)
(* received at any time after it was sent, any number of times or never,   *)
(* so loss, duplication and reordering need no actions of their own; the   *)
(* outbox, which only delays a packet, is part of the network.             *)
(*                                                                         *)
(* Here no packet number is used twice (MaxSeq < SeqMod): the comparisons  *)
(* cannot tell a number from one 2^16 later, so a network that remembers   *)
(* packets for ever makes no sense beyond that.                            *)
(***************************************************************************)
EXTENDS SeqNum

CONSTANTS Peers,           \* the two endpoints
          Payloads,        \* what a packet may carry; opaque at this layer
          PacketTypes,     \* "Messages" and the types that bypass the limit
          MaxUnacked,      \* MAX_UNACKED_PACKETS: 350 in the code
          AckBitsPerByte,  \* acks in one byte of the ack field: 7 in the code
          SentSize,        \* sent_packets_buffer_size: 512 by default
          RecvSize,        \* received_packets_buffer_size: 512 by default
          MaxSeq           \* bound: packet numbers an endpoint may use

ASSUME PeersAssumption == \E a, b \in Peers : a # b /\ Peers = {a, b}

ASSUME SizesAssumption ==
  /\ MaxUnacked \in Nat \ {0}
  /\ AckBitsPerByte \in Nat \ {0}
  /\ SentSize \in Nat \ {0}
  /\ RecvSize \in Nat \ {0}

\* MaxSeq = SeqMod lifts the bound, for a network that forgets (Delivery).
ASSUME MaxSeqAssumption == MaxSeq \in Nat /\ MaxSeq <= SeqMod

VARIABLES
  sequence_id,        \* number of the last packet header made
  sent_buffer,        \* SequenceBuffer<SentMeta>
  received_buffer,    \* SequenceBuffer<ReceivedMeta>
  newest_ack,         \* newest own packet known to have arrived, or None
  ack_low_watermark,  \* peer's packets up to here need no more acks, or None
  net,                \* every packet sent so far
  received,           \* history: numbers of the peer's packets processed
  handed_up,          \* history: how many packets were processed
  acked               \* history: numbers of own packets reported as acked

vars == <<sequence_id, sent_buffer, received_buffer, newest_ack,
          ack_low_watermark, net, received, handed_up, acked>>

other(e) == CHOOSE p \in Peers : p # e

None == -1

unwrap_or_default(opt) == IF opt = None THEN 0 ELSE opt

SentMeta == [acked : BOOLEAN, acked_up_to : SeqIds]

\* The code keeps arrival time and size; only the slot's tag matters here.
ReceivedMeta == {"meta"}

Sent == INSTANCE SequenceBuffer
          WITH Size <- SentSize, Default <- [acked |-> FALSE, acked_up_to |-> 0]
Recv == INSTANCE SequenceBuffer WITH Size <- RecvSize, Default <- "meta"

\* acks is the set of numbers whose bit is set in the ack field; it is empty
\* as well when the header has no ack field.
Packets == [src : Peers, id : SeqIds, type : PacketTypes,
            acks : SUBSET SeqIds, payload : Payloads]

-----------------------------------------------------------------------------
(* Headers *)

received_unacked_packets(e) ==
  wrapping_sub(received_buffer[e].sequence,
               unwrap_or_default(ack_low_watermark[e]))

sent_unacked_packets(e) ==
  wrapping_sub(sent_buffer[e].sequence, unwrap_or_default(newest_ack[e]))

\* The bits of the ack field: whole bytes, counted back from the greatest
\* number received.
\* Fault: the last, partial byte is left out.
ack_field_length_cut(n) == (n \div AckBitsPerByte) * AckBitsPerByte

ack_field_length(n) ==
  ((n + AckBitsPerByte - 1) \div AckBitsPerByte) * AckBitsPerByte

\* Fault: every bit of the field is set.
with_minimum_length_all_set(buf, n) ==
  {wrapping_sub(buf.sequence, i) : i \in 0 .. ack_field_length(n) - 1}

with_minimum_length(buf, n) ==
  {s \in {wrapping_sub(buf.sequence, i) : i \in 0 .. ack_field_length(n) - 1} :
     Recv!exists(buf, s)}

header_refused(e) == received_unacked_packets(e) > MaxUnacked

record_refused(e) ==
  Sent!insert_too_old(sent_buffer[e], wrapping_add(sequence_id[e], 1))

next_packet_header(e, type, payload) ==
  [src |-> e, id |-> wrapping_add(sequence_id[e], 1), type |-> type,
   acks |-> with_minimum_length(received_buffer[e], received_unacked_packets(e)),
   payload |-> payload]

-----------------------------------------------------------------------------
(* Acks *)

\* The newest of a watermark and some numbers that may move it up.
newest_of(mark, S) ==
  LET T == S \cup ({mark} \ {None})
  IN  IF T = {} THEN None
      ELSE CHOOSE s \in T : \A t \in T : ~ sequence_greater_than(t, s)

\* Fault: the slot is read whichever packet has it now.
newly_acked_any_slot(e, acks) == {s \in acks : ~ Sent!get(sent_buffer[e], s).acked}

\* The packets an ack field reports for the first time.
newly_acked(e, acks) ==
  {s \in acks : /\ Sent!exists(sent_buffer[e], s)
                /\ ~ Sent!get(sent_buffer[e], s).acked}

mark_acked(buf, fresh) ==
  [buf EXCEPT !.entry = [i \in Sent!Slots |->
     IF buf.tag[i] \in fresh THEN [@[i] EXCEPT !.acked = TRUE] ELSE @[i]]]

\* Everything is read before sent_buffer changes: an ack only touches the slot
\* of its own packet.
process_packet_acks(e, acks) ==
  LET fresh == newly_acked(e, acks)
      up_to == {Sent!get(sent_buffer[e], s).acked_up_to : s \in fresh}
  IN  /\ newest_ack' = [newest_ack EXCEPT ![e] = newest_of(@, fresh)]
      /\ ack_low_watermark' = [ack_low_watermark EXCEPT ![e] = newest_of(@, up_to)]
      /\ sent_buffer' = [sent_buffer EXCEPT ![e] = mark_acked(@, fresh)]
      /\ acked' = [acked EXCEPT ![e] = @ \cup fresh]

-----------------------------------------------------------------------------
Init ==
  /\ sequence_id       = [e \in Peers |-> 0]
  /\ sent_buffer       = [e \in Peers |-> Sent!with_capacity]
  /\ received_buffer   = [e \in Peers |-> Recv!with_capacity]
  /\ newest_ack        = [e \in Peers |-> None]
  /\ ack_low_watermark = [e \in Peers |-> None]
  /\ net               = {}
  /\ received          = [e \in Peers |-> {}]
  /\ handed_up         = [e \in Peers |-> 0]
  /\ acked             = [e \in Peers |-> {}]

\* Fault: messages are sent whatever is in flight.
may_send_unlimited(e, type) == sequence_id[e] < MaxSeq

\* compose_packets checks the limit before it allocates a packet; the packets
\* of the connection layer (send_packet) are not subject to it.
may_send(e, type) ==
  /\ sequence_id[e] < MaxSeq
  /\ type = "Messages" => sent_unacked_packets(e) < MaxUnacked

\* Fault: the watermark is recorded instead, while it may still be None.
sent_meta_watermark(e) == [acked |-> FALSE, acked_up_to |-> ack_low_watermark[e]]

\* Fault: the packet's own number is recorded as the newest one it acks.
sent_meta_own_id(e) == [acked |-> FALSE, acked_up_to |-> wrapping_add(sequence_id[e], 1)]

\* The SentMeta of the next packet: which of the peer's packets it acks.
sent_meta(e) == [acked |-> FALSE, acked_up_to |-> received_buffer[e].sequence]

\* Header, payload and the record in sent_buffer.
SendPacket(e, type, payload) ==
  /\ may_send(e, type)
  /\ ~ header_refused(e)
  /\ ~ record_refused(e)
  /\ LET p == next_packet_header(e, type, payload)
     IN  /\ sequence_id' = [sequence_id EXCEPT ![e] = p.id]
         /\ sent_buffer' = [sent_buffer EXCEPT ![e] =
              Sent!insert(@, p.id, sent_meta(e))]
         /\ net' = net \cup {p}
  /\ UNCHANGED <<received_buffer, newest_ack, ack_low_watermark, received, handed_up, acked>>

\* next_packet_header has taken the number before it finds that the ack field
\* would not fit, or send_raw_packet that sent_buffer has no place for it: the
\* number is lost.
RefusePacket(e, type) ==
  /\ may_send(e, type)
  /\ header_refused(e) \/ record_refused(e)
  /\ sequence_id' = [sequence_id EXCEPT ![e] = wrapping_add(@, 1)]
  /\ UNCHANGED <<sent_buffer, received_buffer, newest_ack, ack_low_watermark,
                 net, received, handed_up, acked>>

\* Fault: duplicates pass.
fresh_packet_no_exists(e, p) == Recv!check_sequence(received_buffer[e], p.id)

\* Fault: stale packets pass.
fresh_packet_no_window(e, p) == ~ Recv!exists(received_buffer[e], p.id)

\* Fault: a packet overtaken by a newer one counts as stale.
fresh_packet_in_order(e, p) ==
  sequence_greater_than(p.id, received_buffer[e].sequence)

\* A packet that is not stale and not a duplicate.
fresh_packet(e, p) ==
  /\ Recv!check_sequence(received_buffer[e], p.id)
  /\ ~ Recv!exists(received_buffer[e], p.id)

process_incoming_packet(e, p) ==
  /\ p.src = other(e)
  /\ fresh_packet(e, p)
  /\ received_buffer' = [received_buffer EXCEPT ![e] = Recv!insert(@, p.id, "meta")]
  /\ received' = [received EXCEPT ![e] = @ \cup {p.id}]
  /\ handed_up' = [handed_up EXCEPT ![e] = @ + 1]
  /\ process_packet_acks(e, p.acks)
  /\ UNCHANGED <<sequence_id, net>>

\* StalePacket or DuplicatePacket: reported to the caller, nothing kept.
RejectPacket(e, p) ==
  /\ p.src = other(e)
  /\ ~ fresh_packet(e, p)
  /\ UNCHANGED vars

Next ==
  \E e \in Peers :
    \/ \E type \in PacketTypes, payload \in Payloads : SendPacket(e, type, payload)
    \/ \E type \in PacketTypes : RefusePacket(e, type)
    \/ \E p \in net : process_incoming_packet(e, p)
    \/ \E p \in net : RejectPacket(e, p)

Spec == Init /\ [][Next]_vars

-----------------------------------------------------------------------------
(* Properties *)

Opt == SeqIds \cup {None}

\* Every variable has the type the code declares for it.
TypeOK ==
  /\ sequence_id \in [Peers -> SeqIds]
  /\ sent_buffer \in [Peers -> Sent!Buffers(SentMeta)]
  /\ received_buffer \in [Peers -> Recv!Buffers(ReceivedMeta)]
  /\ newest_ack \in [Peers -> Opt]
  /\ ack_low_watermark \in [Peers -> Opt]
  /\ net \subseteq Packets
  /\ received \in [Peers -> SUBSET SeqIds]
  /\ handed_up \in [Peers -> Nat]
  /\ acked \in [Peers -> SUBSET SeqIds]

\* An ack is the truth: whatever was lost, duplicated or reordered, a packet
\* that its sender holds for acked was processed by the peer
\* (process_packet_acks_and_rtt against the peer's ack field).
AckedWasReceived ==
  \A e \in Peers, i \in 0 .. SentSize - 1 :
    LET tag == sent_buffer[e].tag[i]
    IN  tag # NoSeq /\ sent_buffer[e].entry[i].acked => tag \in received[other(e)]

\* The ring behind the duplicate check: a packet that was processed once is
\* never fresh again, although its slot may have been reused or swept since.
NeverFreshAgain ==
  \A e \in Peers : \A p \in net :
    p.src = other(e) /\ p.id \in received[e] => ~ fresh_packet(e, p)

\* A packet the peer has not processed yet is rejected only if it fell out of
\* the window, RecvSize numbers behind the newest one: no slot left over from
\* an older packet passes for it.
NoFalseDuplicate ==
  \A e \in Peers : \A p \in net :
    p.src = other(e) /\ p.id \notin received[e] =>
      \/ fresh_packet(e, p)
      \/ p.id + RecvSize <= received_buffer[e].sequence

\* No packet has been sent that is not subject to the limit on packets in flight.
OnlyMessages == \A p \in net : p.type = "Messages"

\* The limit does what it is there for (the comment at the check in
\* compose_packets): as long as only message packets are sent, the ack field the
\* peer has to write never outgrows the header.
AckFieldFits == OnlyMessages => \A e \in Peers : ~ header_refused(e)

\* And the low watermark is safe to skip below: when e stops acking a packet, its
\* sender already knows of it, or of a newer one.
WatermarkKnown ==
  OnlyMessages =>
    \A e \in Peers :
      unwrap_or_default(ack_low_watermark[e]) <= unwrap_or_default(newest_ack[other(e)])

\* And what e has still to ack is what its received_buffer still holds: every
\* packet processed above the watermark has its bit in the next header.
AckableStillHeld ==
  OnlyMessages =>
    \A e \in Peers : \A s \in received[e] :
      s > unwrap_or_default(ack_low_watermark[e]) =>
        s \in with_minimum_length(received_buffer[e], received_unacked_packets(e))

sent_ids == [e \in Peers |-> {p.id : p \in {q \in net : q.src = e}}]

\* The packet layer implements the service the message layer relies on.
Service == INSTANCE PacketService WITH PacketIds <- 0 .. MaxSeq, sent <- sent_ids

ImplementsService == Service!Spec
=============================================================================
