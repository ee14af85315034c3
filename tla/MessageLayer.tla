---------------------------- MODULE MessageLayer ----------------------------
(***************************************************************************)
(* Two whole Pickleback endpoints: the packet layer, and on top of it the  *)
(* dispatcher, the reliable and unreliable channels, fragmentation and     *)
(* reassembly, and the translation of packet acks into message acks.       *)
(*                                                                         *)
(* Byte sizes are abstracted: a message is as many fragments as it needs   *)
(* (one for an unfragmented message) and a packet takes any non-empty set  *)
(* of at most MaxPerPacket messages that are ready. An inbox and the       *)
(* application that drains it are one history variable.                    *)
(***************************************************************************)
EXTENDS Integers, Sequences, FiniteSets, Bags

CONSTANTS SeqMod, Peers, PacketTypes, MaxUnacked, AckBitsPerByte, SentSize,
          RecvSize, MaxSeq,  \* as in PacketLayer
          Reliable,          \* channels that resend until acked
          Unreliable,        \* channels that send once
          SeenSize,          \* capacity of a channel's seen_buf: 10000
          FragSize,          \* sent_frag_map_size: 25000 by default
          ResendTicks,       \* resend_time, in calls of update
          MaxParts,          \* MAX_FRAGMENTS: 1024 in the code
          MaxPerPacket,      \* bound: messages in a packet
          Workload           \* bound: <<sender, channel, fragments>> in order

Channels == Reliable \cup Unreliable

ASSUME PeersAssumption == \E a, b \in Peers : a # b /\ Peers = {a, b}

ASSUME BufferAssumption ==
  /\ SeqMod \in Nat /\ SeqMod >= 2
  /\ {RecvSize, SeenSize, FragSize} \subseteq Nat \ {0}

ASSUME PacketAssumption ==
  /\ {MaxUnacked, AckBitsPerByte, SentSize} \subseteq Nat \ {0}
  /\ MaxSeq \in Nat /\ MaxSeq <= SeqMod
  /\ "Messages" \in PacketTypes

ASSUME WorkloadAssumption ==
  MaxParts \in Nat \ {0} /\ Workload \in Seq(Peers \X Channels \X (1 .. MaxParts))

ASSUME ResendAssumption == ResendTicks \in Nat \ {0} /\ MaxPerPacket \in Nat \ {0}

VARIABLES sequence_id, sent_buffer, received_buffer, newest_ack,
          ack_low_watermark, net, received, handed_up, acked

VARIABLES
  next_message_id,      \* id of the next message or fragment
  q,                    \* messages queued in the channels
  visiting,             \* inside visit_packets_to_send: more to write
  messages_in_packets,  \* SequenceBuffer<Vec<MessageHandle>>, by packet number
  sent_frag_map,        \* SequenceBuffer<FragAckStatus>, by parent id
  seen_buf,             \* per channel, SequenceBuffer<bool> by message id
  in_progress,          \* the reassembler: parent id -> fragments so far
  panicked,             \* an assert, unwrap or panic! was hit
  sends,                \* history: the send_message calls, with their outcome
  delivered,            \* history: bag of what reached the application
  acked_messages        \* history: send_message calls reported as acked, at least once

packet_vars == <<sequence_id, sent_buffer, received_buffer, newest_ack,
                 ack_low_watermark, net, received, handed_up, acked>>
sender_vars == <<next_message_id, q, messages_in_packets, sent_frag_map, sends,
                 acked_messages>>
receiver_vars == <<seen_buf, in_progress, delivered>>
vars == <<packet_vars, sender_vars, receiver_vars, visiting, panicked>>

NoFrag == [index |-> -1, num_fragments |-> 1, parent_id |-> -1]

P == INSTANCE PacketLayer WITH Payloads <- {}
Handles == INSTANCE SequenceBuffer WITH Size <- RecvSize, Default <- {}
Frags == INSTANCE SequenceBuffer
           WITH Size <- FragSize, Default <- [status |-> "Unknown", remaining |-> {}]
Seen == INSTANCE SequenceBuffer WITH Size <- SeenSize, Default <- FALSE

other(e) == P!other(e)

running(e) == ~ panicked[e] /\ ~ visiting[e]

-----------------------------------------------------------------------------
(* Sending *)

\* Fault: the index of the last fragment in the place of their number.
fragment_header_last_index(parent, i, n) ==
  IF n = 1 THEN NoFrag
  ELSE [index |-> i, num_fragments |-> n - 1, parent_id |-> parent]

\* Fault: the parent id is left at its default.
fragment_header_default_parent(parent, i, n) ==
  IF n = 1 THEN NoFrag ELSE [index |-> i, num_fragments |-> n, parent_id |-> 0]

\* What the i-th of n parts of a message says of itself.
fragment_header(parent, i, n) ==
  IF n = 1 THEN NoFrag ELSE [index |-> i, num_fragments |-> n, parent_id |-> parent]

\* The messages a call of send_message puts in its channel. body says which
\* part of which call the payload bytes are.
enqueued(e, c, n) ==
  LET parent == next_message_id[e]
  IN  {[id |-> P!wrapping_add(parent, i), channel |-> c,
        fragment |-> fragment_header(parent, i, n),
        body |-> [msg |-> Len(sends[e]) + 1, part |-> i], age |-> ResendTicks] :
         i \in 0 .. n - 1}

\* Fault: a parent id that is not newer than all before it is refused.
parent_refused_unless_newest(e) ==
  ~ P!sequence_greater_than(next_message_id[e], sent_frag_map[e].sequence)

parent_refused(e) == Frags!insert_too_old(sent_frag_map[e], next_message_id[e])

\* Backpressure is the only refusal that leaves no trace. When sent_frag_map
\* refuses a parent id as too old, the fragments are in the channel already.
send_message(e, c, n) ==
  /\ running(e)
  /\ P!sent_unacked_packets(e) < MaxUnacked
  /\ LET new == enqueued(e, c, n)
         parent == next_message_id[e]
         ok == n = 1 \/ ~ parent_refused(e)
     IN  /\ q' = [q EXCEPT ![e] = @ \cup new]
         /\ next_message_id' = [next_message_id EXCEPT ![e] = P!wrapping_add(@, n)]
         /\ sent_frag_map' =
              IF n = 1 \/ ~ ok THEN sent_frag_map
              ELSE [sent_frag_map EXCEPT ![e] = Frags!insert(@, parent,
                      [status |-> "Partial", remaining |-> {m.id : m \in new}])]
         /\ sends' = [sends EXCEPT ![e] = Append(@,
              [id |-> parent, channel |-> c, parts |-> n, ok |-> ok])]
  /\ UNCHANGED <<packet_vars, receiver_vars, visiting, panicked,
                 messages_in_packets, acked_messages>>

\* A message one tick after; its age stops at the resend time.
older(m) == [m EXCEPT !.age = IF @ < ResendTicks THEN @ + 1 ELSE @]

\* update, as far as the channels notice.
update(e) ==
  /\ running(e)
  /\ \E m \in q[e] : m.age < ResendTicks
  /\ q' = [q EXCEPT ![e] = {older(m) : m \in @}]
  /\ UNCHANGED <<packet_vars, receiver_vars, visiting, panicked, next_message_id,
                 messages_in_packets, sent_frag_map, sends, acked_messages>>

\* A message never sent has the age of one that is due.
ready(queue) == {m \in queue : m.channel \in Reliable => m.age = ResendTicks}

\* Fault: a reliable message leaves its queue when written, too.
after_writing_forgotten(queue, batch) == queue \ batch

\* get_message_to_write_to_a_packet: an unreliable message leaves its queue, a
\* reliable one stays until acked.
after_writing(queue, batch) ==
  (queue \ batch) \cup {[m EXCEPT !.age = 0] : m \in {b \in batch : b.channel \in Reliable}}

handle(m) == [id |-> m.id, fragment |-> m.fragment, channel |-> m.channel, msg |-> m.body.msg]

on_wire(m) == [id |-> m.id, channel |-> m.channel, fragment |-> m.fragment, body |-> m.body]

\* The number of the packet being composed, under which its handles are kept.
packet_id(e) == P!wrapping_add(sequence_id[e], 1)

\* One round of the loop in compose_packets: a packet is allocated, filled,
\* sent and its handles recorded. The loop goes on, with nothing else happening
\* at e, until no message is ready or a limit is met. A record refused as too
\* old makes visit_packets_to_send panic, after the packet went to the outbox.
compose_packets(e, batch) ==
  /\ ~ panicked[e]
  /\ batch # {} /\ Cardinality(batch) <= MaxPerPacket
  /\ P!SendPacket(e, "Messages", {on_wire(m) : m \in batch})
  /\ LET id == packet_id(e)
         too_old == Handles!insert_too_old(messages_in_packets[e], id)
     IN  /\ messages_in_packets' =
              IF too_old THEN messages_in_packets
              ELSE [messages_in_packets EXCEPT ![e] =
                      Handles!insert(@, id, {handle(m) : m \in batch})]
         /\ panicked' = [panicked EXCEPT ![e] = too_old]
         /\ q' = [q EXCEPT ![e] = after_writing(@, batch)]
         /\ visiting' = [visiting EXCEPT ![e] =
              ~ too_old /\ ready(q'[e]) # {} /\ P!sent_unacked_packets(e)' < MaxUnacked]
  /\ UNCHANGED <<receiver_vars, next_message_id, sent_frag_map, sends, acked_messages>>

\* The header is refused: backpressure ends the visit. A refused record panics.
compose_refused(e) ==
  /\ ~ panicked[e]
  /\ ready(q[e]) # {}
  /\ P!RefusePacket(e, "Messages")
  /\ visiting' = [visiting EXCEPT ![e] = FALSE]
  /\ panicked' = [panicked EXCEPT ![e] = ~ P!header_refused(e)]
  /\ UNCHANGED <<sender_vars, receiver_vars>>

\* The packets the connection layer makes carry no messages and no handles.
send_keepalive(e) ==
  /\ running(e)
  /\ P!SendPacket(e, "KeepAlive", {}) \/ P!RefusePacket(e, "KeepAlive")
  /\ UNCHANGED <<sender_vars, receiver_vars, visiting, panicked>>

-----------------------------------------------------------------------------
(* Message acks *)

\* The packets acked for the first time are looked up newest first, and each
\* look-up empties a slot, whoever it belongs to.
handles_acked(buf, fresh) ==
  UNION {Handles!get(buf, s) :
           s \in {t \in fresh : /\ Handles!exists(buf, t)
                                /\ \A u \in fresh \ {t} :
                                     Handles!index(u) = Handles!index(t)
                                       => ~ P!sequence_greater_than(u, t)}}

dismissed_by_ack(m, h) ==
  /\ m.channel \in Reliable /\ m.channel = h.channel
  /\ m.id = h.id
  /\ m.fragment # NoFrag => m.fragment.parent_id = h.fragment.parent_id

\* The assert in dismissed_by_ack.
confused(m, h) ==
  /\ m.channel \in Reliable /\ m.channel = h.channel
  /\ m.id = h.id /\ m.fragment = NoFrag /\ h.fragment # NoFrag

\* SentFragMap: the fragments of a parent that are still to be acked.
frag_status(map, parent) == Frags!get(map, parent)

awaited(map, handles) ==
  {h.fragment.parent_id : h \in {g \in handles :
     /\ g.fragment # NoFrag
     /\ Frags!exists(map, g.fragment.parent_id)
     /\ frag_status(map, g.fragment.parent_id).status = "Partial"}}

\* Fault: an acked fragment is not taken off the list.
still_remaining_unchanged(map, parent, handles) == frag_status(map, parent).remaining

still_remaining(map, parent, handles) ==
  frag_status(map, parent).remaining \ {h.id : h \in handles}

\* Fault: the first fragment acked completes its parent.
completed_by_any(map, handles) == awaited(map, handles)

completed(map, handles) ==
  {p \in awaited(map, handles) : still_remaining(map, p, handles) = {}}

ack_fragments(map, handles) ==
  [map EXCEPT !.entry = [i \in DOMAIN @ |->
     IF map.tag[i] \in completed(map, handles) THEN [status |-> "Complete", remaining |-> {}]
     ELSE IF map.tag[i] \in awaited(map, handles)
     THEN [status |-> "Partial", remaining |-> still_remaining(map, map.tag[i], handles)]
     ELSE @[i]]]

\* acked_packet, for all the packets one header acks for the first time.
acked_packets(e, fresh) ==
  LET handles == handles_acked(messages_in_packets[e], fresh)
      map == sent_frag_map[e]
      whole == {h \in handles : \/ h.fragment = NoFrag
                                \/ h.fragment.parent_id \in completed(map, handles)}
  IN  /\ messages_in_packets' = [messages_in_packets EXCEPT ![e] =
           Handles!clear(@, {Handles!index(s) : s \in fresh})]
      /\ q' = [q EXCEPT ![e] = {m \in @ : \A h \in handles : ~ dismissed_by_ack(m, h)}]
      /\ sent_frag_map' = [sent_frag_map EXCEPT ![e] = ack_fragments(@, handles)]
      /\ acked_messages' = [acked_messages EXCEPT ![e] = @ \cup {h.msg : h \in whole}]

\* dismissed_by_ack's assert, and the unwrap when a parent is completed.
ack_panics(e, fresh) ==
  LET handles == handles_acked(messages_in_packets[e], fresh)
  IN  \/ \E m \in q[e], h \in handles : confused(m, h)
      \/ \E p \in completed(sent_frag_map[e], handles) :
           Frags!insert_too_old(sent_frag_map[e], p)

-----------------------------------------------------------------------------
(* Receiving: r is [seen, in_progress, inbox, panic] *)

\* Fault: duplicates pass.
accepts_message_no_exists(buf, m) == Seen!check_sequence(buf, m.id)

accepts_message(buf, m) == Seen!check_sequence(buf, m.id) /\ ~ Seen!exists(buf, m.id)

\* HashMap::insert, and the assignment of a fragment's slot.
with(f, x, y) == [z \in DOMAIN f \cup {x} |-> IF z = x THEN y ELSE f[z]]

deliver(r, c, parts) ==
  [r EXCEPT !.inbox = @ (+) SetToBag({[channel |-> c, parts |-> parts]})]

\* Fault: fragments are counted from 1 here, from 0 there.
bad_index_from_one(incomplete, m) == m.fragment.index + 1 >= incomplete.num_fragments

\* The assertion on the index of a fragment that arrives.
bad_index(incomplete, m) == m.fragment.index >= incomplete.num_fragments

is_complete(incomplete, parts) ==
  Cardinality(DOMAIN parts) = incomplete.num_fragments

\* MessageReassembler::add_fragment. An entry is removed only when complete.
add_fragment(r, m) ==
  LET parent == m.fragment.parent_id
      known == parent \in DOMAIN r.in_progress
      incomplete == IF known THEN r.in_progress[parent]
                    ELSE [num_fragments |-> m.fragment.num_fragments, fragments |-> <<>>]
      parts == with(incomplete.fragments, m.fragment.index, m.body)
  IN  IF bad_index(incomplete, m) THEN [r EXCEPT !.panic = TRUE]
      ELSE IF m.fragment.index \in DOMAIN incomplete.fragments THEN r
      ELSE IF is_complete(incomplete, parts)
      THEN deliver([r EXCEPT !.in_progress = [p \in DOMAIN @ \ {parent} |-> @[p]]],
                   m.channel, parts)
      ELSE [r EXCEPT !.in_progress = with(@, parent, [incomplete EXCEPT !.fragments = parts])]

process_received_message(r, m) ==
  IF ~ accepts_message(r.seen[m.channel], m) THEN r
  ELSE LET s == [r EXCEPT !.seen[m.channel] = Seen!insert(@, m.id, TRUE)]
       IN  IF m.fragment = NoFrag THEN deliver(s, m.channel, [i \in {0} |-> m.body])
           ELSE add_fragment(s, m)

\* The messages of a channel are in a packet in the order in which they were
\* queued; which channel comes first is left open.
queued_before(l, m) ==
  \/ l.body.msg < m.body.msg
  \/ l.body.msg = m.body.msg /\ l.body.part < m.body.part

in_order(payload) ==
  {s \in [1 .. Cardinality(payload) -> payload] :
     /\ \A m \in payload : \E i \in DOMAIN s : s[i] = m
     /\ \A i, j \in DOMAIN s :
          i < j /\ s[i].channel = s[j].channel => queued_before(s[i], s[j])}

\* The states before, between and after the messages of a packet.
processing(r, msgs) ==
  LET after[k \in 0 .. Len(msgs)] ==
        IF k = 0 THEN r ELSE process_received_message(after[k - 1], msgs[k])
  IN  after

process_received_messages(r, msgs) == processing(r, msgs)[Len(msgs)]

receive(e, p) ==
  /\ running(e)
  /\ P!process_incoming_packet(e, p)
  /\ LET fresh == P!newly_acked(e, p.acks)
         before == [seen |-> seen_buf[e], in_progress |-> in_progress[e],
                    inbox |-> delivered[e], panic |-> FALSE]
     IN  /\ acked_packets(e, fresh)
         /\ \E msgs \in in_order(p.payload) :
              LET r == process_received_messages(before, msgs)
              IN  /\ seen_buf' = [seen_buf EXCEPT ![e] = r.seen]
                  /\ in_progress' = [in_progress EXCEPT ![e] = r.in_progress]
                  /\ delivered' = [delivered EXCEPT ![e] = r.inbox]
                  /\ panicked' = [panicked EXCEPT ![e] = r.panic \/ ack_panics(e, fresh)]
  /\ UNCHANGED <<next_message_id, sends, visiting>>

-----------------------------------------------------------------------------
Init ==
  /\ P!Init
  /\ next_message_id     = [e \in Peers |-> 0]
  /\ q                   = [e \in Peers |-> {}]
  /\ visiting            = [e \in Peers |-> FALSE]
  /\ messages_in_packets = [e \in Peers |-> Handles!with_capacity]
  /\ sent_frag_map       = [e \in Peers |-> Frags!with_capacity]
  /\ seen_buf            = [e \in Peers |-> [c \in Channels |-> Seen!with_capacity]]
  /\ in_progress         = [e \in Peers |-> <<>>]
  /\ panicked            = [e \in Peers |-> FALSE]
  /\ sends               = [e \in Peers |-> <<>>]
  /\ delivered           = [e \in Peers |-> EmptyBag]
  /\ acked_messages      = [e \in Peers |-> {}]

\* The calls of send_message so far, of all peers.
calls == Len(sends[CHOOSE e \in Peers : TRUE])
         + Len(sends[other(CHOOSE e \in Peers : TRUE)])

Next ==
  \E e \in Peers :
    \/ /\ calls < Len(Workload)
       /\ Workload[calls + 1][1] = e
       /\ send_message(e, Workload[calls + 1][2], Workload[calls + 1][3])
    \/ update(e)
    \/ \E batch \in SUBSET ready(q[e]) : compose_packets(e, batch)
    \/ compose_refused(e)
    \/ "KeepAlive" \in PacketTypes /\ send_keepalive(e)
    \/ \E p \in net : receive(e, p)

Spec == Init /\ [][Next]_vars

-----------------------------------------------------------------------------
(* Properties *)

MessageIds == 0 .. SeqMod - 1
Bodies == [msg : 1 .. Len(Workload), part : 0 .. SeqMod - 1]
Fragments == {NoFrag} \cup
  [index : MessageIds, num_fragments : 2 .. MaxParts, parent_id : MessageIds]

\* The dispatcher's and the channels' state has the types of the Rust fields
\* (the packet layer's state has its type invariant in PacketLayer).
TypeOK ==
  /\ next_message_id \in [Peers -> MessageIds]
  /\ \A e \in Peers : \A m \in q[e] :
       /\ m.id \in MessageIds /\ m.channel \in Channels /\ m.fragment \in Fragments
       /\ m.body \in Bodies /\ m.age \in 0 .. ResendTicks
  /\ visiting \in [Peers -> BOOLEAN] /\ panicked \in [Peers -> BOOLEAN]
  /\ \A e \in Peers : \A i \in Frags!Slots :
       sent_frag_map[e].entry[i].remaining \subseteq MessageIds
  /\ \A e \in Peers : DOMAIN in_progress[e] \subseteq MessageIds

\* What the k-th send_message call of e should look like on arrival.
whole_message(e, k) ==
  [channel |-> sends[e][k].channel,
   parts |-> [i \in 0 .. sends[e][k].parts - 1 |-> [msg |-> k, part |-> i]]]

\* What arrives was sent: the parts of one message, all of them, in order, on
\* its channel. No resend, reordering or duplication makes the reassembler mix
\* fragments of different messages or hand up a partial one.
DeliveredIntact ==
  \A e \in Peers : \A item \in BagToSet(delivered[e]) :
    \E k \in 1 .. Len(sends[other(e)]) : item = whole_message(other(e), k)

\* No message reaches the application twice, however often its packet or the
\* message itself is sent.
DeliveredOnce ==
  \A e \in Peers : \A item \in BagToSet(delivered[e]) :
    delivered[e][item] = 1

\* An acked message was received (the doc of drain_message_acks): for every id
\* given to the application as acked, the peer's application got the message.
AckedWasDelivered ==
  \A e \in Peers : \A k \in acked_messages[e] :
    BagIn(whole_message(e, k), delivered[other(e)])

\* A reliable channel drops a message only when the peer took it: every part
\* of a reliable message is still queued, or is with the peer's reassembler, or
\* the whole message is with the peer's application.
ReliableKept ==
  \A e \in Peers : \A k \in 1 .. Len(sends[e]) :
    sends[e][k].channel \in Reliable =>
      \A i \in 0 .. sends[e][k].parts - 1 :
        \/ \E m \in q[e] : m.body = [msg |-> k, part |-> i]
        \/ BagIn(whole_message(e, k), delivered[other(e)])
        \/ \E p \in DOMAIN in_progress[other(e)] :
             /\ i \in DOMAIN in_progress[other(e)][p].fragments
             /\ in_progress[other(e)][p].fragments[i] = [msg |-> k, part |-> i]

\* The application always learns of the ack: a reliable message that left the
\* queue for good has been reported.
GoneMeansReported ==
  \A e \in Peers : \A k \in 1 .. Len(sends[e]) :
    sends[e][k].channel \in Reliable /\ (\A m \in q[e] : m.body.msg # k)
      => k \in acked_messages[e]

\* received_packets_buffer_size is "the number of previous packets we retain
\* message-id mappings for" (config.rs): a message packet among the last
\* RecvSize packets that is not acked yet still has its handles.
HandlesRetained ==
  \A e \in Peers : \A p \in net :
    /\ p.src = e /\ p.type = "Messages" /\ ~ panicked[e]
    /\ p.id \notin acked[e]
    /\ p.id > sequence_id[e] - RecvSize
    => Handles!exists(messages_in_packets[e], p.id)

\* No sequence of calls and arrivals reaches an assert, an unwrap of an error
\* or the panic! of visit_packets_to_send.
NeverPanics == \A e \in Peers : ~ panicked[e]

\* send_message fails for the caller only when it has to: when the ids used since
\* the newest message in sent_frag_map, and its slots, reach half the number
\* space (insert_fragmented_message). No earlier message, however old, and no
\* order in which fragments are acked is in the way.
RefusedLate ==
  \A e \in Peers : \A k \in 1 .. Len(sends[e]) :
    ~ sends[e][k].ok =>
      /\ sends[e][k].id + FragSize >= SeqMod \div 2
      /\ \A j \in 1 .. k - 1 :
           sends[e][j].ok /\ sends[e][j].parts > 1
             => sends[e][k].id - sends[e][j].id + FragSize >= SeqMod \div 2

\* The state of MessageService: of a call the channel and the parts matter, and
\* a call is kept while a part of it is queued.
service_sends ==
  [e \in Peers |-> [k \in DOMAIN sends[e] |->
     [channel |-> sends[e][k].channel, parts |-> sends[e][k].parts]]]
service_kept == [e \in Peers |-> {m.body.msg : m \in q[e]}]

Promise == INSTANCE MessageService WITH sends <- service_sends, kept <- service_kept

\* Two Picklebacks give the applications MessageService: every step, whatever
\* packets it splits, loses, repeats or reorders, delivers calls not delivered
\* before, reports calls that were, and drops a reliable one only if reported.
ImplementsMessages == Promise!Spec
=============================================================================
