------------------------------ MODULE Delivery ------------------------------
(***************************************************************************)
(* Reliable delivery over a link that keeps working: the sender's reliable *)
(* channel on top of the packet layers of both ends, with packet numbers   *)
(* that wrap around for ever.                                              *)
(*                                                                         *)
(* The link forgets: it holds at most LinkCapacity packets, in no order,   *)
(* and each is delivered once or lost, at most MaxLosses of one end in a   *)
(* row. Both ends send at comparable rates (MaxSkew), as they do with      *)
(* keep-alives at the same interval. The application keeps at most         *)
(* MaxQueued messages in the channel; they are small, so that one packet   *)
(* takes all that are ready.                                               *)
(***************************************************************************)
EXTENDS Integers, FiniteSets

CONSTANTS SeqMod,        \* number of packet ids: 2^16 in the code
          IdMod,         \* number of message ids: 2^16 in the code
          Peers, MaxUnacked, AckBitsPerByte, SentSize, RecvSize,
          Sender,        \* the end whose application sends messages
          SeenSize,      \* capacity of the channel's seen_buf
          ResendTicks,   \* resend_time, in calls of update
          MaxQueued,     \* bound: messages queued at a time
          MaxMessages,   \* bound: messages sent, below IdMod
          MaxIdle,       \* bound: packets without messages in a row
          LinkCapacity,  \* link: packets in flight
          MaxLosses,     \* link: packets of one end lost in a row
          MaxSkew,       \* packets one end makes between two of the other
          Watched        \* the message ids whose delivery is followed

ASSUME DeliveryAssumption ==
  /\ Sender \in Peers
  /\ {SeenSize, ResendTicks, MaxQueued, LinkCapacity, MaxSkew} \subseteq Nat \ {0}
  /\ MaxLosses \in Nat /\ MaxIdle \in Nat /\ IdMod \in Nat /\ IdMod >= 2
  /\ MaxQueued <= SeenSize /\ MaxMessages \in 0 .. IdMod - 1

VARIABLES sequence_id, sent_buffer, received_buffer, newest_ack,
          ack_low_watermark, net       \* net: the packets in flight

VARIABLES
  next_message_id,      \* id of the next message
  q,                    \* the channel's queue: [id, age]
  messages_in_packets,  \* SequenceBuffer of the ids in each packet
  seen_buf,             \* the receiver's SequenceBuffer<bool>
  panicked,             \* visit_packets_to_send panicked
  losses,               \* link: packets of each end lost in a row
  ahead,                \* packets each end made since the other's last
  outstanding           \* history: ids sent and not delivered yet

packet_vars == <<sequence_id, sent_buffer, received_buffer, newest_ack,
                 ack_low_watermark>>
message_vars == <<next_message_id, q, messages_in_packets, seen_buf, panicked,
                  outstanding>>
vars == <<packet_vars, net, message_vars, losses, ahead>>

\* The packet layer without its histories, which grow for ever.
P == INSTANCE PacketLayer
       WITH Payloads <- SUBSET (0 .. IdMod - 1), PacketTypes <- {"Messages", "KeepAlive"},
            MaxSeq <- SeqMod, received <- <<>>, handed_up <- <<>>, acked <- <<>>
Handles == INSTANCE SequenceBuffer WITH Size <- RecvSize, Default <- {}
Seen == INSTANCE SequenceBuffer WITH SeqMod <- IdMod, Size <- SeenSize, Default <- FALSE

other(e) == P!other(e)

-----------------------------------------------------------------------------
(* The sending application and its channel *)

send_message ==
  /\ ~ panicked
  /\ Cardinality(q) < MaxQueued /\ next_message_id < MaxMessages
  /\ P!sent_unacked_packets(Sender) < MaxUnacked
  /\ q' = q \cup {[id |-> next_message_id, age |-> ResendTicks]}
  /\ outstanding' = outstanding \cup {next_message_id}
  /\ next_message_id' = Seen!wrapping_add(next_message_id, 1)
  /\ UNCHANGED <<packet_vars, net, messages_in_packets, seen_buf, panicked, losses, ahead>>

\* Fault: a message that was sent once is not due again.
older_never(m) == m

older(m) == [m EXCEPT !.age = IF @ < ResendTicks THEN @ + 1 ELSE @]

update ==
  /\ ~ panicked
  /\ \E m \in q : m.age < ResendTicks
  /\ q' = {older(m) : m \in q}
  /\ UNCHANGED <<packet_vars, net, next_message_id, messages_in_packets, seen_buf,
                 panicked, outstanding, losses, ahead>>

ready == {m \in q : m.age = ResendTicks}

\* compose_packets takes messages while the limit allows another packet.
may_compose(e) ==
  /\ e = Sender /\ ready # {}
  /\ P!sent_unacked_packets(e) < MaxUnacked

-----------------------------------------------------------------------------
(* Sending packets *)

\* The link and the other end keep up with e.
keeping_pace(e) ==
  /\ Cardinality(net) < LinkCapacity
  /\ ahead[e] < MaxSkew

made_packet(e) == ahead' = [ahead EXCEPT ![e] = @ + 1, ![other(e)] = 0]

refused(e) == P!header_refused(e) \/ P!record_refused(e)

\* A packet and its record, or a number lost to a refusal.
send_packet(e, type, payload) ==
  /\ keeping_pace(e)
  /\ IF refused(e) THEN P!RefusePacket(e, type) ELSE P!SendPacket(e, type, payload)
  /\ made_packet(e)
  /\ UNCHANGED losses

handles_too_old ==
  Handles!insert_too_old(messages_in_packets, P!wrapping_add(sequence_id[Sender], 1))

\* visit_packets_to_send when there is something to write: all that is ready goes
\* into one packet, whose handles are recorded.
visit_messages(e) ==
  /\ ~ panicked
  /\ may_compose(e)
  /\ send_packet(e, "Messages", {m.id : m \in ready})
  /\ LET sent == ~ refused(e)
     IN  /\ panicked' = IF sent THEN handles_too_old ELSE ~ P!header_refused(e)
         /\ messages_in_packets' =
              IF ~ sent \/ handles_too_old THEN messages_in_packets
              ELSE Handles!insert(messages_in_packets, P!wrapping_add(sequence_id[e], 1),
                                  {m.id : m \in ready})
         /\ q' = IF sent THEN (q \ ready) \cup {[m EXCEPT !.age = 0] : m \in ready} ELSE q
  /\ UNCHANGED <<next_message_id, seen_buf, outstanding>>

\* The application is never so long idle that messages_in_packets falls behind.
not_idle(e) ==
  e = Sender =>
    P!wrapping_sub(sequence_id[e], messages_in_packets.sequence) < MaxIdle

\* A keep-alive is made when the visit sent nothing.
keepalive(e) ==
  /\ ~ panicked
  /\ ~ may_compose(e) \/ P!header_refused(e)
  /\ not_idle(e)
  /\ send_packet(e, "KeepAlive", {})
  /\ UNCHANGED message_vars

-----------------------------------------------------------------------------
(* Receiving packets *)

\* Fault: the watermark stays where it is.
raised_never(e, fresh) == ack_low_watermark[e]

\* The low watermark after acks for the packets in fresh.
raised(e, fresh) ==
  P!newest_of(ack_low_watermark[e],
              {P!Sent!get(sent_buffer[e], s).acked_up_to : s \in fresh})

\* The ids of the messages an ack dismisses from the queue.
dismissed(fresh) ==
  UNION {Handles!get(messages_in_packets, s) :
           s \in {t \in fresh : Handles!exists(messages_in_packets, t)}}

\* Fault: duplicates pass.
accepts_no_exists(id) == Seen!check_sequence(seen_buf, id)

accepts_message(id) == Seen!check_sequence(seen_buf, id) /\ ~ Seen!exists(seen_buf, id)

\* Ids are in a packet in the order in which they were queued, and taking an id
\* neither holds nor overtakes a later one: each is accepted or not on its own.
accepted(p) == {id \in p.payload : accepts_message(id)}

insert_seen(buf, id) == Seen!insert(buf, id, TRUE)

\* The filter before, between and after the ids in S, in their order.
taking(buf, S) ==
  LET after[k \in 0 .. MaxMessages] ==
        IF k = 0 THEN buf
        ELSE IF k - 1 \in S THEN insert_seen(after[k - 1], k - 1) ELSE after[k - 1]
  IN  after

take_all(buf, S) == taking(buf, S)[MaxMessages]

process_incoming_packet(e, p) ==
  LET fresh == P!newly_acked(e, p.acks)
  IN  /\ received_buffer' = [received_buffer EXCEPT ![e] = P!Recv!insert(@, p.id, "meta")]
      /\ newest_ack' = [newest_ack EXCEPT ![e] = P!newest_of(@, fresh)]
      /\ ack_low_watermark' = [ack_low_watermark EXCEPT ![e] = raised(e, fresh)]
      /\ sent_buffer' = [sent_buffer EXCEPT ![e] = P!mark_acked(@, fresh)]
      /\ IF e = Sender
         THEN /\ q' = {m \in q : m.id \notin dismissed(fresh)}
              /\ messages_in_packets' =
                   Handles!clear(messages_in_packets, {Handles!index(s) : s \in fresh})
              /\ UNCHANGED <<seen_buf, outstanding>>
         ELSE /\ seen_buf' = take_all(seen_buf, accepted(p))
              /\ outstanding' = outstanding \ accepted(p)
              /\ UNCHANGED <<q, messages_in_packets>>

receive(e, p) ==
  /\ e = Sender => ~ panicked
  /\ p.src = other(e)
  /\ net' = net \ {p}
  /\ losses' = [losses EXCEPT ![p.src] = 0]
  /\ IF P!fresh_packet(e, p)
     THEN process_incoming_packet(e, p)
     ELSE UNCHANGED <<sent_buffer, received_buffer, newest_ack, ack_low_watermark, q,
                      messages_in_packets, seen_buf, outstanding>>
  /\ UNCHANGED <<sequence_id, next_message_id, panicked, ahead>>

lose(p) ==
  /\ losses[p.src] < MaxLosses
  /\ losses' = [losses EXCEPT ![p.src] = @ + 1]
  /\ net' = net \ {p}
  /\ UNCHANGED <<packet_vars, message_vars, ahead>>

-----------------------------------------------------------------------------
Init ==
  /\ sequence_id         = [e \in Peers |-> 0]
  /\ sent_buffer         = [e \in Peers |-> P!Sent!with_capacity]
  /\ received_buffer     = [e \in Peers |-> P!Recv!with_capacity]
  /\ newest_ack          = [e \in Peers |-> P!None]
  /\ ack_low_watermark   = [e \in Peers |-> P!None]
  /\ net                 = {}
  /\ next_message_id     = 0
  /\ q                   = {}
  /\ messages_in_packets = Handles!with_capacity
  /\ seen_buf            = Seen!with_capacity
  /\ panicked            = FALSE
  /\ losses              = [e \in Peers |-> 0]
  /\ ahead               = [e \in Peers |-> 0]
  /\ outstanding         = {}

visit(e) == visit_messages(e) \/ keepalive(e)

arrive(e) == \E p \in net : receive(e, p)

Next ==
  \/ send_message
  \/ update
  \/ \E e \in Peers : visit(e) \/ arrive(e)
  \/ \E p \in net : lose(p)

\* Both ends call update and visit_packets_to_send from their loops, and read
\* what arrives. The link does not lose every packet of one kind.
Fairness ==
  /\ WF_vars(update)
  /\ SF_vars(\E p \in net : p.type = "Messages" /\ receive(other(Sender), p))
  /\ \A e \in Peers : WF_vars(visit(e)) /\ WF_vars(arrive(e))

Spec == Init /\ [][Next]_vars /\ Fairness

-----------------------------------------------------------------------------
(* Properties *)

queued == {m.id : m \in q}

\* Keep-alives are not subject to the limit on packets in flight, so the ack field
\* could outgrow the header and end all acking (client.rs: "probably no hope for
\* this connection"). It does not while no more than (MaxUnacked - 1) / 2 packets
\* in a row are lost each way: every header fits, at both ends, for ever.
NeverWedged == \A e \in Peers : ~ refused(e)

\* The duplicate filter of the channel is exact, however often a message is resent:
\* while queued it is accepted by the receiver if and only if it was not delivered
\* yet, and a copy in flight is not accepted after the delivery.
FilterExact ==
  /\ \A id \in queued : accepts_message(id) <=> id \in outstanding
  /\ \A p \in net : accepted(p) \subseteq outstanding

\* Every message queued in the reliable channel reaches the receiver, whatever
\* was lost before.
Delivered == \A id \in Watched : id \in outstanding ~> id \notin outstanding

\* Every message queued in the reliable channel leaves it: its ack gets through.
Acked == \A id \in Watched : id \in queued ~> id \notin queued
=============================================================================
