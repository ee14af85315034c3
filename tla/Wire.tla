-------------------------------- MODULE Wire --------------------------------
(***************************************************************************)
(* One direction of traffic down to the bytes: messages are split, written *)
(* into pooled buffers, coalesced into packets, read back, reassembled and *)
(* handed to the application, with both endpoints' buffer pools.           *)
(*                                                                         *)
(* The packet layer (numbers, acks, limits: PacketLayer) is replaced by    *)
(* what it decides: a packet arrives once or never, one that arrived is    *)
(* acked or not, a packet may be refused, and any number of ack bytes may  *)
(* have to go into a header. Time is the step resend. Likewise the filter  *)
(* of message ids (ReceiveWindow) is the set of ids it has let pass.       *)
(* Integer arithmetic is that of a build without overflow checks.          *)
(***************************************************************************)
EXTENDS Codec, FiniteSets, TLC

CONSTANTS MaxPacketSize,   \* max_packet_size: 1150 by default
          Channels,        \* the channels in the order in which they are asked
          Reliable,        \* those that resend until acked
          FirstId,         \* next_message_id to begin with
          Lengths,         \* bound: for each call of send_message, the sizes tried
          AckBytes,        \* bound: sizes of an ack field, at most 50; 0: none
          Controls,        \* bound: other packets sent, a set of types
          MaxSetbacks      \* bound: refusals, resends and other packets, together

ASSUME WireAssumption ==
  /\ \A k \in DOMAIN Lengths : Lengths[k] \subseteq Nat
  /\ \A n \in AckBytes : n \in 0 .. 50
  /\ \A c \in Reliable : \E k \in DOMAIN Channels : Channels[k] = c

LOCAL INSTANCE SequencesExt

VARIABLES
  \* the sender
  next_message_id,
  q,            \* per channel, messages [id, channel, fragment, mode, buffer,
                \* ready] and, for the properties, [call, payload]
  outbox,       \* packets written, [buffer, packet, messages]
  visiting,     \* inside visit_packets_to_send
  pool,         \* its BufPool
  \* the network
  net,          \* packets on their way, and those that arrived and are not acked
  \* the receiver
  seen,         \* ids of the messages accepted
  in_progress,  \* parent id -> [num_fragments, fragments by index]
  inbox,        \* messages received, each the sequence of its fragments
  peer_pool,    \* its BufPool
  \* both
  panicked,
  \* history
  sends,        \* calls of send_message, as [channel, len]
  sent_count,   \* packets sent
  acks,         \* bytes of acks in the headers
  setbacks,
  clones,       \* buffers the sender made by cloning
  dropped       \* buffers given up without going back, [sender, receiver]

sender == <<next_message_id, q, outbox, visiting, pool, sends, sent_count, setbacks,
            clones, acks>>
receiver == <<seen, in_progress, inbox, peer_pool>>
vars == <<sender, net, receiver, panicked, dropped>>

-----------------------------------------------------------------------------
(* Sending messages *)

min_size(fragment, mode, len) == header_size(fragment, mode) + len

\* Message::new_outbound, into the buffer b.
outbound(b, id, channel, fragment, payload) ==
  LET len  == width(payload)
      mode == size_mode(len)
  IN  [id |-> id, channel |-> channel, fragment |-> fragment, mode |-> mode, ready |-> TRUE,
       call |-> Len(sends) + 1, payload |-> payload,
       buffer |-> written(b, write_headers(id, channel, fragment, mode, len) \o payload)]

\* enqueue_message for each fragment in turn: s is [pool, queue, panic].
enqueued(s, channel, sizes) ==
  LET enqueue(acc, k) ==
        LET id       == (next_message_id + k - 1) % 2^16
            fragment == fragment_of(next_message_id, k, Len(sizes))
            got      == get_buffer(acc.pool, min_size(fragment, size_mode(sizes[k]), sizes[k]))
            payload  == piece(Len(sends) + 1, (k - 1) * FragmentPayload, sizes[k])
        IN  [pool  |-> got.pool,
             queue |-> Append(acc.queue, outbound(got.buffer, id, channel, fragment, payload)),
             panic |-> acc.panic \/ outbound_panics(channel, fragment, sizes[k])]
  IN  FoldLeftDomain(enqueue, s, sizes)

send_message(channel, len) ==
  /\ ~ panicked /\ ~ visiting
  /\ Len(sends) < Len(Lengths) /\ len \in Lengths[Len(sends) + 1]
  /\ len <= max_message_size
  /\ LET sizes == payload_sizes(len)
         s == enqueued([pool |-> pool, queue |-> q[channel], panic |-> FALSE], channel, sizes)
     IN  /\ pool' = s.pool
         /\ q' = [q EXCEPT ![channel] = s.queue]
         /\ panicked' = s.panic
         /\ next_message_id' = (next_message_id + Len(sizes)) % 2^16
  /\ sends' = Append(sends, [channel |-> channel, len |-> len])
  /\ UNCHANGED <<outbox, visiting, sent_count, setbacks, clones, net, acks, receiver, dropped>>

any_ready_to_send(queue) == \E k \in DOMAIN queue : queue[k].ready

any_with_messages_to_send(queues) == \E c \in DOMAIN queues : any_ready_to_send(queues[c])

\* The resend time has passed for the messages of some calls.
resend(due) ==
  /\ ~ panicked /\ ~ visiting
  /\ setbacks < MaxSetbacks
  /\ \E c \in Reliable : \E k \in DOMAIN q[c] : ~ q[c][k].ready /\ q[c][k].call \in due
  /\ setbacks' = setbacks + 1
  /\ q' = [c \in DOMAIN q |-> [k \in DOMAIN q[c] |->
             [q[c][k] EXCEPT !.ready = @ \/ q[c][k].call \in due]]]
  /\ UNCHANGED <<next_message_id, outbox, visiting, pool, sends, sent_count, clones, net,
                 acks, receiver, panicked, dropped>>

-----------------------------------------------------------------------------
(* Composing packets *)

\* Fault: only the payload is counted.
size_payload_only(m) == width(m.payload)

size(m) == width(m.buffer.bytes) + size_overhead(m.fragment, m.mode)

\* write_channel_messages_to_packet: the messages of a queue that fit, in order,
\* each into the room the ones before it have left. overrun: a write failed for
\* want of room.
write_channel_messages(p, queue) ==
  LET write(acc, m) ==
        IF ~ m.ready \/ size(m) > acc.room \/ acc.room < 3 THEN acc
        ELSE [acc EXCEPT !.messages = Append(@, m),
                         !.overrun = @ \/ width(m.buffer.bytes) > acc.room,
                         !.room = IF width(m.buffer.bytes) > @ THEN 0
                                  ELSE @ - width(m.buffer.bytes)]
      upto[k \in 0 .. Len(queue)] == IF k = 0 THEN p ELSE write(upto[k - 1], queue[k])
  IN  upto[Len(queue)]

\* The channels in turn. The first with messages is asked again and again; when
\* it has one left that does not fit, the packet is closed.
fill_packet(room) ==
  LET fill(acc, c) ==
        IF acc.closed THEN acc
        ELSE LET p == write_channel_messages(acc, q[c])
                 written_here == Len(p.messages) - Len(acc.messages)
                 ready_here == Len(SelectSeq(q[c], LAMBDA m : m.ready))
             IN  [p EXCEPT !.closed = written_here < ready_here]
  IN  FoldLeft(fill, [room |-> room, messages |-> <<>>, overrun |-> FALSE, closed |-> FALSE],
               Channels)

messages_header ==
  [type |-> "Messages", id |-> sent_count % 2^16, ack_id |-> IF acks > 0 THEN 0 ELSE -1,
   acks |-> acks, fields |-> <<0>>]

\* What the peer should read: [id, channel, fragment, payload] in order.
contents(messages) ==
  [k \in DOMAIN messages |-> [id |-> messages[k].id, channel |-> messages[k].channel,
                              fragment |-> messages[k].fragment,
                              payload |-> messages[k].payload]]

\* get_message_to_write_to_a_packet takes an unreliable message off its queue. A
\* reliable one stays, and it is a clone that is written and goes to the pool.
after_writing(queue, ids) ==
  LET mark(m) == IF m.id \in ids THEN [m EXCEPT !.ready = FALSE] ELSE m
  IN  SelectSeq([k \in DOMAIN queue |-> mark(queue[k])],
                LAMBDA m : m.channel \in Reliable \/ m.id \notin ids)

buffer_written(m) == IF m.channel \in Reliable THEN clone(m.buffer) ELSE m.buffer

\* One round of the loop of compose_packets.
compose_packet ==
  /\ ~ panicked
  /\ any_with_messages_to_send(q)
  /\ LET packet == messages_header
         header == write_packet(packet)
         got    == get_buffer(pool, MaxPacketSize)
         filled == fill_packet(MaxPacketSize - width(header))
         ms     == filled.messages
         bytes  == FoldLeft(LAMBDA b, m : b \o m.buffer.bytes, header, ms)
     IN  /\ pool' = return_buffers(got.pool, [k \in DOMAIN ms |-> buffer_written(ms[k])])
         /\ outbox' = Append(outbox, [buffer |-> written(got.buffer, bytes),
                                      packet |-> packet, messages |-> contents(ms)])
         /\ q' = [c \in DOMAIN q |-> after_writing(q[c], {ms[k].id : k \in DOMAIN ms})]
         /\ clones' = clones + Len(SelectSeq(ms, LAMBDA m : m.channel \in Reliable))
         /\ panicked' = filled.overrun
  /\ sent_count' = sent_count + 1
  /\ visiting' = TRUE
  /\ UNCHANGED <<next_message_id, sends, setbacks, net, acks, receiver, dropped>>

\* Fault: the buffer of a packet that was sent is not returned.
drained_without_return(p) == p

\* The pool p when the outbox has been visited.
drained(p) == return_buffers(p, [k \in DOMAIN outbox |-> outbox[k].buffer])

visit_outbox(p) ==
  /\ net' = net \cup {[datagram |-> outbox[k], arrived |-> FALSE] : k \in DOMAIN outbox}
  /\ pool' = drained(p)
  /\ outbox' = <<>>
  /\ visiting' = FALSE

\* The end of visit_packets_to_send, when no message is left.
visit_packets ==
  /\ ~ panicked
  /\ outbox # <<>> /\ ~ any_with_messages_to_send(q)
  /\ visit_outbox(pool)
  /\ UNCHANGED <<next_message_id, q, sends, sent_count, setbacks, clones, acks, receiver,
                 panicked, dropped>>

\* Backpressure ends the loop, and what is in the outbox is visited. When it is
\* met as the header is written, the buffer just taken for the packet is dropped.
compose_refused(taken) ==
  /\ ~ panicked
  /\ any_with_messages_to_send(q)
  /\ setbacks < MaxSetbacks
  /\ setbacks' = setbacks + 1
  /\ visit_outbox(IF taken THEN get_buffer(pool, MaxPacketSize).pool ELSE pool)
  /\ dropped' = [dropped EXCEPT !.sender = @ + IF taken THEN 1 ELSE 0]
  /\ UNCHANGED <<next_message_id, q, sends, sent_count, clones, acks, receiver, panicked>>

\* send_packet, for a packet of the connection layer. The fields differ, so that
\* none can be read for another.
send_packet(type) ==
  /\ ~ panicked /\ ~ visiting
  /\ setbacks < MaxSetbacks
  /\ setbacks' = setbacks + 1
  /\ LET packet == [type |-> type, id |-> sent_count % 2^16,
                    ack_id |-> IF acks > 0 THEN 0 ELSE -1, acks |-> acks,
                    fields |-> [k \in DOMAIN body_of(type) |-> k]]
         got    == get_buffer(pool, MaxPacketSize)
     IN  /\ pool' = got.pool
         /\ outbox' = Append(outbox, [buffer |-> written(got.buffer, write_packet(packet)),
                                      packet |-> packet, messages |-> <<>>])
  /\ sent_count' = sent_count + 1
  /\ UNCHANGED <<next_message_id, q, visiting, sends, clones, net, acks, receiver, panicked,
                 dropped>>

\* acked_packet: the reliable messages in the packet leave their queues, and
\* their buffers go back.
acked_packet(d) ==
  /\ ~ panicked /\ ~ visiting
  /\ d \in net /\ d.arrived
  /\ LET ids == {d.datagram.messages[k].id : k \in DOMAIN d.datagram.messages}
         gone(c) == SelectSeq(q[c], LAMBDA m : m.id \in ids /\ c \in Reliable)
         buffers == FoldLeft(LAMBDA bs, c : bs \o [k \in DOMAIN gone(c) |-> gone(c)[k].buffer],
                             <<>>, Channels)
     IN  /\ q' = [c \in DOMAIN q |-> SelectSeq(q[c], LAMBDA m : m.id \notin ids \/ c \notin Reliable)]
         /\ pool' = return_buffers(pool, buffers)
  /\ net' = net \ {d}
  /\ UNCHANGED <<next_message_id, outbox, visiting, sends, sent_count, setbacks, clones,
                 acks, receiver, panicked, dropped>>

-----------------------------------------------------------------------------
(* Receiving: r is [pool, seen, in_progress, inbox, panic, dropped] *)

\* Fault: the fragments are chained as they came in.
assembled_as_received(fragments, m) == Append(SetToSeq({fragments[i] : i \in DOMAIN fragments
                                                         \ {m.fragment.index}}), m)

\* ReceivedMessage::new_fragmented: the fragments by index. m is the last to come.
assembled(fragments, m) == [k \in 1 .. Cardinality(DOMAIN fragments) |-> fragments[k - 1]]

\* The asserts of IncompleteMessage.
fragment_panics(incomplete, m) ==
  incomplete.num_fragments <= 1 \/ m.fragment.index >= incomplete.num_fragments

add_fragment(r, m) ==
  LET parent == m.fragment.parent_id
      known  == parent \in DOMAIN r.in_progress
      incomplete == IF known THEN r.in_progress[parent]
                    ELSE [num_fragments |-> m.fragment.num_fragments, fragments |-> <<>>]
      fragments == (m.fragment.index :> m) @@ incomplete.fragments
  IN  CASE m.fragment.num_fragments > MAX_FRAGMENTS -> [r EXCEPT !.dropped = @ + 1]
        [] fragment_panics(incomplete, m) -> [r EXCEPT !.panic = TRUE]
        [] m.fragment.index \in DOMAIN incomplete.fragments -> [r EXCEPT !.dropped = @ + 1]
        [] known /\ Cardinality(DOMAIN fragments) = incomplete.num_fragments ->
             [r EXCEPT !.in_progress = [p \in DOMAIN @ \ {parent} |-> @[p]],
                       !.inbox = Append(@, assembled(fragments, m))]
        [] OTHER ->
             [r EXCEPT !.in_progress =
                (parent :> [incomplete EXCEPT !.fragments = fragments]) @@ @]

\* A message read from a packet is copied into a buffer before the channel
\* decides on it. One that is refused takes its buffer with it.
process_received_message(r, m) ==
  LET got == get_buffer(r.pool, m.len)
      msg == [id |-> m.id, channel |-> m.channel, fragment |-> m.fragment, mode |-> m.mode,
              buffer |-> appended(got.buffer, m.payload)]
      s   == [r EXCEPT !.pool = got.pool]
  IN  IF m.channel \notin {Channels[k] : k \in DOMAIN Channels} \/ m.id \in r.seen
      THEN [s EXCEPT !.dropped = @ + 1]
      ELSE LET a == [s EXCEPT !.seen = @ \cup {m.id}]
           IN  IF m.fragment = NoFragment THEN [a EXCEPT !.inbox = Append(@, <<msg>>)]
               ELSE add_fragment(a, msg)

\* process_incoming_packet, for a packet the packet layer lets through.
process_incoming_packet(d) ==
  /\ ~ panicked
  /\ d \in net /\ ~ d.arrived
  /\ LET reading == read_packet(d.datagram.buffer.bytes)
         parsed  == IF reading.ok THEN parse_all(reading.after)
                    ELSE [messages |-> <<>>, ok |-> TRUE, len |-> -1]
         r == FoldLeft(process_received_message,
                       [pool |-> peer_pool, seen |-> seen, in_progress |-> in_progress,
                        inbox |-> inbox, panic |-> FALSE, dropped |-> dropped.receiver],
                       parsed.messages)
         \* a message that is cut short has its buffer already
         cut == ~ parsed.ok /\ parsed.len >= 0
     IN  /\ peer_pool' = IF cut THEN get_buffer(r.pool, parsed.len).pool ELSE r.pool
         /\ seen' = r.seen
         /\ in_progress' = r.in_progress
         /\ inbox' = r.inbox
         /\ dropped' = [dropped EXCEPT !.receiver = r.dropped + IF cut THEN 1 ELSE 0]
         /\ panicked' = r.panic
  /\ net' = (net \ {d}) \cup {[d EXCEPT !.arrived = TRUE]}
  /\ UNCHANGED sender

\* drain_received_messages: the application has read its messages, and the
\* container returns their buffers when it goes out of scope.
drain_received_messages ==
  /\ ~ panicked
  /\ inbox # <<>>
  /\ LET back(p, parts) == return_buffers(p, [k \in DOMAIN parts |-> parts[k].buffer])
     IN  peer_pool' = FoldLeft(back, peer_pool, inbox)
  /\ inbox' = <<>>
  /\ UNCHANGED <<sender, net, seen, in_progress, panicked, dropped>>

-----------------------------------------------------------------------------
Init ==
  /\ next_message_id = FirstId
  /\ q = [c \in {Channels[k] : k \in DOMAIN Channels} |-> <<>>]
  /\ outbox = <<>> /\ visiting = FALSE
  /\ pool = new /\ peer_pool = new
  /\ net = {}
  /\ seen = {} /\ in_progress = <<>> /\ inbox = <<>>
  /\ panicked = FALSE
  /\ acks \in AckBytes
  /\ sends = <<>> /\ sent_count = 0 /\ setbacks = 0 /\ clones = 0
  /\ dropped = [sender |-> 0, receiver |-> 0]

Next ==
  \/ \E c \in DOMAIN q, len \in UNION {Lengths[k] : k \in DOMAIN Lengths} : send_message(c, len)
  \/ \E due \in SUBSET DOMAIN sends : resend(due)
  \/ compose_packet
  \/ \E taken \in BOOLEAN : compose_refused(taken)
  \/ visit_packets
  \/ \E type \in Controls : send_packet(type)
  \/ \E d \in net : acked_packet(d) \/ process_incoming_packet(d)
  \/ drain_received_messages

Spec == Init /\ [][Next]_vars
-----------------------------------------------------------------------------
\* Every packet is read back as the one that was written: type, number, ack
\* field and fields, and the messages in it with their ids, channels, fragment
\* numbers and payloads, to the last byte.
ParsedAsWritten ==
  \A d \in net :
    LET reading == read_packet(d.datagram.buffer.bytes)
    IN  /\ reading.ok
        /\ reading.packet = d.datagram.packet
        /\ parse_all(reading.after).ok
        /\ contents(parse_all(reading.after).messages) = d.datagram.messages

\* A payload is the one of call s from the first to the last byte.
reads_as(bytes, s) ==
  /\ width(bytes) = sends[s].len
  /\ \A j \in DOMAIN bytes :
       /\ "msg" \in DOMAIN bytes[j] /\ bytes[j].msg = s
       /\ bytes[j].start = width(SubSeq(bytes, 1, j - 1))

\* What the application reads from a received message, however it was split,
\* is a payload that was sent, whole, in order and on the same channel.
DeliveredWhole ==
  \A k \in DOMAIN inbox :
    LET bytes == FoldLeft(LAMBDA b, m : b \o m.buffer.bytes, <<>>, inbox[k])
    IN  \E s \in DOMAIN sends : reads_as(bytes, s) /\ inbox[k][1].channel = sends[s].channel

\* compose_packets gets on: a packet of messages has at least one in it, however
\* many acks are in its header, it never exceeds max_packet_size, and no write
\* into it or assertion fails.
PacketsUseful ==
  /\ ~ panicked
  /\ \A p \in {d.datagram : d \in net} \cup {outbox[k] : k \in DOMAIN outbox} :
       /\ width(p.buffer.bytes) <= MaxPacketSize
       /\ p.packet.type = "Messages" => p.messages # <<>>

\* The buffers in a pool, a queue of messages, received messages and the
\* reassembler, each a sequence.
pooled(p) == FlattenSeq(p.buffers)
buffers_of(ms) == [k \in DOMAIN ms |-> ms[k].buffer]
held_by_sender ==
  FlattenSeq([k \in DOMAIN Channels |-> buffers_of(q[Channels[k]])]) \o buffers_of(outbox)
held_by_receiver ==
  FlattenSeq([k \in DOMAIN inbox |-> buffers_of(inbox[k])])
    \o FlattenSeq(SetToSeq({SetToSeq({in_progress[p].fragments[i].buffer :
                                         i \in DOMAIN in_progress[p].fragments}) :
                              p \in DOMAIN in_progress}))

starting == FoldLeft(LAMBDA n, c : n + c.starting_size, 0, Pools)

\* No buffer gets lost on the way between queue, packet and pool: each one that
\* was ever allocated is in use, in its pool, or was given up at one of the
\* places where the code drops it (a refused packet, a refused message, a full
\* pool).
BuffersAccounted ==
  /\ starting + pool.overflow_allocations + clones =
       Len(pooled(pool)) + Len(held_by_sender) + pool.discarded_checkins + dropped.sender
  /\ panicked \/ starting + peer_pool.overflow_allocations =
       Len(pooled(peer_pool)) + Len(held_by_receiver) + peer_pool.discarded_checkins
         + dropped.receiver
=============================================================================
