# Pickleback, specified

TLA+ modules for pickleback, a Rust library that multiplexes messages over an
unreliable stream of datagrams, with TLC runs over small instances and proofs
checked by TLAPS. Paths such as `endpoint.rs` are files of `src/src/`. The map
from every definition to the lines it models is in `PROJECT.json`.

## The system

| Component | State | Operations | Hard behaviour |
|---|---|---|---|
| `SequenceBuffer` (`sequence_buffer.rs`) | ring of slots, the number that wrote each, the greatest number | `insert`, `remove`, `remove_range`, `exists`, `get`, `check_sequence` | u16 comparisons and slot indexes across the wrap, skipped numbers |
| Packet layer (`endpoint.rs`) | `sequence_id`, `sent_buffer`, `received_buffer`, `newest_ack`, `ack_low_watermark` | `next_packet_header`, `send_raw_packet`, `process_incoming_packet`, `process_packet_acks_and_rtt` | acks lost, repeated, out of order; slots reused; the limit on packets in flight |
| Ack field (`protocol/ack_header.rs`) | bytes with continuation bits | `from_ack_iter`, `parse`, iterator | byte boundaries, wrap |
| Message layer (`dispatcher.rs`, `channel.rs`, `message_reassembler.rs`) | channel queues, `seen_buf`, `messages_in_packets`, `sent_frag_map`, `in_progress` | `send_message`, `compose_packets`, `update`, `acked_packet`, `accepts_message`, `add_fragment` | resends against late acks, fragments interleaved and resent, id counters that run away from a buffer |
| Client (`client.rs`) | `ClientState`, salts, times, a Pickleback | `connect`, `disconnect`, `update`, `visit_packets_to_send`, `receive` | handshake packets of earlier attempts, timeouts, resets |
| Server (`server.rs`) | pending and connected clients, each with a Pickleback, an outbox, events | `update`, `visit_packets_to_send`, `receive`, `disconnect_client`, `send_message` | duplicated requests and responses, several clients that expire at once |
| Codec (`protocol/packets.rs`, `protocol/message.rs`, `cursor.rs`) | none | writing and parsing packets and messages, splitting a payload into fragments | widths of fields at their limits, what fits into a packet |
| Buffer pool (`buffer_pool.rs`, `received_message.rs`) | stacks of buffers by capacity | `get_buffer`, `return_buffer`, drop of the received messages | buffers used again, lost, or returned to another pool |
| Statistics, jitter pipe, test harness | | | not modelled, see below |

The application calls a client or server; these make handshake packets and
keep-alives and hand everything else to their Pickleback. A Pickleback takes
messages from its channels into packets, records in `messages_in_packets` which
message went into which packet, and translates the packet acks of the peer's
headers back into message acks. Everything is single threaded: concurrency is
that of the two ends and the network between them.

What makes each part right: a buffer forgets nothing inside its window and takes
nothing for something else; a packet is processed once and acked only if
processed; a message is delivered once, whole, and a reliable one is kept until
the peer has it; an ack for a message is true and is always reported in the end;
both ends agree on a session, and nothing old opens or ends one; what is written
is what is read, and a buffer that is taken goes back. And things get done: a
reliable message arrives and its ack returns, an attempt to connect ends, a dead
session is noticed.

## Modules

| Module | Models | Notes |
|---|---|---|
| `SeqNum` | u16 arithmetic and comparison | `SeqMod` is 65536 in the code |
| `SequenceBuffer` | the ring, as operators on a record | instantiated for each use |
| `ReceiveWindow` | `received_buffer` as duplicate filter, across wraps | the sender's count does not wrap, the wire's does |
| `PacketService` | abstract: what a packet layer promises | sent, received, acked numbers, and how many packets were handed up, so that a packet handed up twice is not hidden by the sets |
| `PacketLayer` | two endpoints' packet layers and the network | implements `PacketService` |
| `AckHeader` | the ack field | writer, parser and iterator |
| `MessageService` | abstract: what two Picklebacks promise their applications | calls of `send_message`, a bag of what arrived, the reports, and which calls are still kept for sending |
| `MessageLayer` | dispatcher, channels, fragments on top of `PacketLayer`'s actions | composes `PacketLayer` and three more `SequenceBuffer`s; implements `MessageService` |
| `Delivery` | one reliable channel over both packet layers and a fair link, with numbers that wrap for ever | composes `PacketLayer` (without its histories) and two more `SequenceBuffer`s; for liveness |
| `Connection` | clients and the server | of a Pickleback only counter, duplicate filter and outbox; `Spec` for safety, `FairSpec` for liveness |
| `BufferPool` | `BufPool` and what it relies on of `Vec<u8>` | operators on a record |
| `Codec` | bytes of packets and messages, splitting and parsing | bytes are fields with a width |
| `Wire` | `Pickleback` from `send_message` to `drain_received_messages`, down to the bytes, with both pools | extends `Codec` and `BufferPool` |
| `FragmentCodec` | the fragments of one large message, one after the other | extends `Codec` |
| `SequenceBufferProofs`, `PacketLayerProofs`, `PacketFlowProofs`, `ReceiveWindowProofs`, `AckHeaderProofs`, `ConnectionProofs`, `MessageLayerProofs`, `DeliveryProofs` | theorems and their proofs | see Proofs; the inductive invariants are defined there |
| `MC...` | constants and workloads for TLC | |

Definitions named after a fault (each with a comment "Fault: ...") stand before
the definition they are a broken version of. No specification uses them: they
are what the runs are tested with, to see that each property would notice.

How state and actions correspond to the code:

- `PacketLayer`. One action per handler: `SendPacket` is `next_packet_header`
  with `send_raw_packet`, `RefusePacket` is their error paths, which have used up
  a number, `process_incoming_packet` includes the handling of the ack field and
  `RejectPacket` is its two early returns. The ack field is the set of numbers
  whose bit is set; that the bytes carry this set is what `AckHeader` checks.
- `MessageLayer`. `compose_packets` is one round of the loop of that name;
  `visiting` keeps all other actions of that endpoint out until the loop is done.
  Byte sizes are abstracted: a packet takes any non-empty set of ready messages,
  which includes what the code's first-fit filling does, and a few splits more.
  The messages of a packet are processed in the order they were queued, channel by
  channel, and any channel may come first. `acked_messages` is a set: that a message is
  reported at least once is seen, a second report of it is not.
- `Connection`. A tick of a clock is longer than the handshake and keep-alive
  intervals and shorter than the timeout; the clocks of client and server are
  independent. A clock and an age stop at the first value past the timeout, which
  no comparison can tell from later ones. With `Duplicating = FALSE` (liveness) the
  histories `opened` and `salts` and the packet numbers are left out, because they
  would make a session finite; a salt is used again only when nobody holds it. Salts are unique, the xor of two is the
  pair. Client sends are visited in the same call, as in the code; the server's
  packets wait in outboxes for `server_visit`. The duplicate filter `is_new` is the set
  of numbers processed: that a packet 512 numbers behind is stale (`endpoint.rs:479`) and
  that a header is refused with more than 350 packets unacked (`endpoint.rs:261`) is left
  out, since the at most `MaxPackets` packets of a session come nowhere near either;
  `PacketLayer` has both.

- `Delivery`. Messages are small, so a packet takes all that are ready;
  `visit_messages` is `compose_packets` in one step, with the refusals of a header
  and of its record and the panic of `set_packet_message_handles`. `keepalive` is
  the end of the client's and server's `visit_packets_to_send`. `MaxSkew` stands for
  the pace at which both applications call in: an end makes at most that many
  packets between two of the other. `MaxIdle` keeps out the panic that
  `messages_keepalives` shows.
- `BufferPool`, `Codec`, `Wire`. Bytes are a sequence of tokens with a width: an
  integer truncated to its width, a piece of a payload, an ack field, padding. A
  read that does not meet a token of its width fails; in the code it might go on
  with garbage, so a failure here is never hidden. `compose_packet` is one round of
  the loop, and `fill_packet` the order in which channels and messages are asked,
  with `WriteLimiter`'s room. What the packet layer decides (arrival, acks,
  refusals, number of ack bytes) is nondeterministic. Arithmetic wraps, as in a
  build without overflow checks.

In `PacketLayer`, `MessageLayer` and `Connection` with `Duplicating` the network is
the set of all packets ever sent. Any of them may arrive at any time, again, or
never, which covers loss, duplication, delay and reordering without actions of
their own. The links of `Delivery`, of `Connection` without `Duplicating`, and of
`Wire` forget: a packet arrives once, in any order, or is lost.

## Runs

| Run | Question | Result |
|---|---|---|
| `packets` | Is the packet layer a `PacketService`, although some packets bypass the limit, and does the duplicate check reject exactly what it should? As long as none does: does the limit on packets in flight keep the ack field in the header, and is it safe to stop acking at the watermark? | holds |
| `window_aligned` | Is `received_buffer`, whose size divides the number space, an exact duplicate filter across the wrap? | holds |
| `messages_fragments` | Delivered once and whole, acked only if delivered, kept until delivered, reported, no panic, no failure of `send_message` but for the age of `sent_frag_map`; and all of it at once, as a `MessageService`? | holds |
| `messages_keepalives` | Panics after long idling | `visit_packets_to_send` panics |
| `ack_header` | Is the ack field read as written, and cut out exactly? | holds |
| `connection_one` | Handshake against any old packet: agreement, no session twice, no session back, no numbers left over | holds |
| `connection_live` | Does every attempt to connect end, is a dead session noticed by the client, are sessions and handshakes nobody keeps up dropped by the server? | holds |
| `connection_disconnect` | Does a client that disconnects tell the server? | no packet is sent |
| `delivery` | Does every reliable message arrive and get acked over a fair link; can the ack field fill up for good; is the duplicate filter exact across resends? | holds |
| `wire` | Is every packet read as written and every payload delivered whole, does something fit into every packet, is every buffer accounted for? | holds |
| `codec_fragments` | Are the fragments of messages up to 1 MiB read back as they are? | not the last one, if it is small and there are more than 255 |
| `connection_panic` | Several expiries in one `update` | out of bounds |

Every disagreement is described under `findings` in `PROJECT.json`, with the
line of the documentation it contradicts.

Other deviations that the modules have and that no run of their own reports:

- A packet that arrives late, at or below the watermark (`endpoint.rs:550`), is
  processed and never acked, for the next header begins above the watermark. Its
  sender resends what was in it. `WatermarkKnown` and `AckableStillHeld` are about the
  packets above.
- `seen_buf` has 10000 slots (`channel.rs:161`), `sent_frag_map` 25000: neither divides
  65536, so at the wrap of the ids two ids inside the window share a slot, and the later
  takes it from the earlier. A duplicate of the earlier is then accepted, although
  `accepts_message` is documented as "false if we've already fully received this message
  id" (`channel.rs:24`). `ReceiveWindow` with `Size` = 6, which does not divide its 16
  numbers, makes the same checks: `AcceptedOnce` is false. (`MCReceiveWindow` assumes
  what the proofs assume, and refuses that size.)
- All channels share one id counter, `seen_buf` is per channel (`channel.rs:171`): after
  22768 ids went to other channels, the first message of an idle one is older than its
  window and dropped, but the packet it was in is acked, and so is the message, against
  `endpoint.rs:169`. `AckedWasDelivered` fails with 16 ids, a `seen_buf` of 4 slots and a
  workload of four small unreliable messages and a reliable one.
- `insert_fragmented_message` comes after the fragments are queued (`dispatcher.rs:185`).
  When it is refused, `send_message` returns an error and the message is sent all the
  same; with the default of 25000 slots that is after some 7768 ids of small messages.
  The second call of `messages_fragments` is one: its message arrives.
- `connect` does not set `last_receive_time` (`client.rs:152`), which is 0 until a
  packet arrives: a client that is older than the timeout when it connects is
  `TimedOut` by its next `update` (`client_update`, with `receive_age` at `Expired`).
- Keep-alives are not subject to the limit on packets in flight. With `MaxUnacked`
  = n, `NeverWedged` of `Delivery` holds exactly if no more than (n - 1) / 2 packets
  in a row are lost each way (n = 3 with `MaxLosses` 1 holds, n = 2 does not). For
  350 that is 174; at a keep-alive every 16 ms the timeout of 5 s allows 312. So two
  one-way outages after each other, of more than 2.8 s each, stop all acking for good
  although neither end would have timed out.
- The pools grow by one clone with every send of a reliable message (`channel.rs:234`,
  `endpoint.rs:381`), up to `max_size`. `BuffersAccounted` counts the clones. The capacity
  of a clone is the length of its message, and it goes to the first pool of at least that
  capacity, to be handed out for anything up to the capacity of that pool: it may have to
  grow then (`grown`), although `buffer_pool.rs:91` says "you'll never cause a vec to
  reallocate" and `buffer_pool.rs:176` promises a capacity of "at least `min_size`".
- Buffers are dropped, not returned, when a header is refused (`endpoint.rs:317`) and
  when a received message is refused (`endpoint.rs:517`).
- `payload_len` of a received message counts headers that are no longer in its
  buffer (`received_message.rs:52`); `size` of a message to be sent counts its header
  twice (`message.rs:216`), which only makes packets a few bytes emptier.
- The size of the last fragment is computed in u16 (`dispatcher.rs:166`): right
  modulo 2^16, but a panic in a build with overflow checks from 64 fragments on.
- With `max_packet_size` below 1106 a full fragment may not fit behind the header and
  `compose_packets` would not end; `PacketsUseful` shows that 1150 is enough.
- A reliable message overtaken by as many ids as `seen_buf` has slots is refused
  as too old when it is resent (`channel.rs:171`), and forgotten by its sender
  once that packet is acked: `ReliableKept` fails with a workload longer than
  `SeenSize`. It is the same refusal as that of an idle channel.
- `remove` empties the slot of an acked packet also when a newer packet owns it
  (`dispatcher.rs:93`): `HandlesRetained` fails when `SentSize > RecvSize`.
- `disconnect_client` queues its Disconnect packet on the Pickleback that goes with the
  client, so it is not sent either, and pushes no `ServerEvent` (`server.rs:169`).
- A late duplicate of a challenge response is answered with HandshakeTimeout
  (`server.rs:525`), which carries no salt and ends whatever attempt its client
  is making.

The passing runs choose sizes for which those that break one of their properties
do not happen.

Deadlock is not checked: an application may stop sending, every bound on numbers
makes a run end, and the field of `AckHeader` is read once.

### Bounds

- Packets: with rings of 2 slots and 4 numbers each slot is used twice and swept, with
  `MaxUnacked` 2 the limit, a full field and headers that are refused all happen. With
  `AckBitsPerByte` 2 the field is padded to whole bytes. The type of a packet is read by
  the limit alone, when it is made: states that differ in the types of packets on the
  network, but not in whether all are message packets, count as one (`MCView`). Packet
  numbers do not wrap here (`MaxSeq` below `SeqMod`): with a network that never forgets,
  nothing could be said after the wrap. The wrap is the subject of `ReceiveWindow`
  and, for packet numbers, of `Delivery`.
- Window: `SeqMod` 16 and 36 numbers wrap twice. Size 4 divides 16, as 512 divides
  65536. `MaxLate` is close to the most that half the number space allows.
- Messages: in `messages_fragments` a reliable and an unreliable message of two fragments
  each; three packets each way over rings of two slots, so that a packet takes the slot
  of an older one, in `sent_buffer`, `received_buffer` and `messages_in_packets`. The
  second call fails: with 32 ids and 15 slots in `sent_frag_map` an id two after the
  newest entry is half the number space away from the end of the ring. `seen_buf` is
  large enough for the workload. Small messages are those of `delivery` and `wire`.
  In `messages_keepalives` 8 packet numbers and rings of 2 stand for 65536 and 512.
- Connection: a timeout of one tick (a client is two ticks old when it expires),
  two attempts, three packets per Pickleback and two sessions: enough for a whole
  handshake in each attempt with packets of the other around. The client calls
  `connect` only while Disconnected (`ConnectFrom`). Of a client of another
  version (`OldClients`) the network holds a request from the start; it may arrive
  at any time and any number of times. It calls `disconnect` at any time
  (`DisconnectFrom`), except in `connection_disconnect`, where it calls it once: a second
  call ends the disconnect without a visit.
- Connection, liveness: one attempt, a timeout of two ticks and two server salts
  that are used again, so that a handshake is open while an old session is still
  there; sessions have no bound on their packets. An end sends when fewer than two
  packets are in flight (`MaxInFlight`): one for each direction, in any order, and more
  where a visit sends several.
- Delivery: 16 packet numbers, rings of 4, so that numbers wrap and slots are reused
  many times over; a limit of 3 with one loss in a row each way is the largest loss
  the limit allows. Two messages, one at a time in the queue and one packet at a time
  on the link; message ids do not wrap (`ReceiveWindow` does that). Liveness is stated
  for the first message: each is sent in the same way.
- Wire: the code's own sizes (packets of 1150 bytes, fragments of 1024, pools of 64,
  256, 1200 and 2048). The first message has 255, 1024, 1025 or 1300 bytes: the last
  that is Small, the largest that is not split, and two fragments of which the last is
  Small or Large. The second has 57 bytes: behind a full message and
  the longest header there is room for these, and not for their own header as well. Each goes to a reliable or an unreliable channel. Ack fields
  are absent or as long as they get. One setback (a refusal, a resend or a packet of
  another type) per behaviour. Ids begin at 65535, so that fragments wrap. The pools
  begin with fewer buffers than in the code, so that they run out and fill up.
- FragmentCodec: sizes around 64 KiB, 256 KiB and 1 MiB.

### Fairness

- `Delivery`. Weak fairness of `update`, of `visit_packets_to_send` at both ends and
  of reading what arrives: an application of this library calls them in a loop, as
  every example and test does. Strong fairness of the arrival of message packets: the
  link may lose any packet, but not all that carry messages. Nothing is assumed of
  sending messages. Without weak fairness of the receiver's visits there would be no
  acks; without strong fairness a link could lose each message packet and deliver
  each keep-alive.
- `Connection` (`FairSpec`). Weak fairness of `update` of client and server: time
  goes on at both. The network may lose everything, but it delivers a packet
  once: endless duplicates would be endless signs of life. Nothing
  is assumed of the calls of the applications, or of `visit_packets_to_send`.

## Proofs

All theorems hold for every value of the constants that the named assumptions of
the modules allow. A run whose module extends a proof module evaluates these
assumptions on its instance.

| Module | Theorem | States |
|---|---|---|
| `PacketLayerProofs` | `TypeCorrect`, `AcksAreTrue`, `ServiceInvariant`, `ProcessedOnce`, `RefusedOnlyIfStale`, `Refinement` | `TypeOK`, `AckedWasReceived`, `ServiceInv`, `NeverFreshAgain`, `NoFalseDuplicate`, `ImplementsService` |
| `PacketFlowProofs` | `HeadersFit`, `WatermarkSafe`, `NothingForgotten` | `AckFieldFits`, `WatermarkKnown`, `AckableStillHeld` |
| `ReceiveWindowProofs` | `WindowConsistent`, `WindowForward`, `DuplicatesRefused`, `NothingElseRefused` | `WindowInv`, `WindowFollowsNewest`, `AcceptedOnce`, `FreshAccepted` |
| `AckHeaderProofs` | `AcksReadAsWritten`, `FieldCutExactly` | `RoundTrip`, `FieldDelimited` |
| `MessageLayerProofs` | `Intact`, `Once`, `AckedIsDelivered`, `ReliableIsKept`, `NothingPanics`, `RefusedOnlyLate`, `MessageTypes`, `HandlesAreRetained`, `NoSilentLoss`, `MessagesRefinement` | `DeliveredIntact`, `DeliveredOnce`, `AckedWasDelivered`, `ReliableKept`, `NeverPanics`, `RefusedLate`, `TypeOK`, `HandlesRetained`, `GoneMeansReported`, `ImplementsMessages` |
| `DeliveryProofs` | `DeliveredAtMostOnce`, `ExactUnlessOvertaken`, `ExactFromTheStart` | `NoSecondDelivery`, `FilterExact` |
| `ConnectionProofs` | `TypesKept`, `SessionsOpenOnce`, `ClientsAgree`, `SessionsStayClosed`, `FiltersOfThisSession` | `TypeOK`, `OpenedOnce`, `SessionAgreed`, `NeverReopened`, `SeenWereSent` |

`SequenceBufferProofs` has the lemmas about the ring that the others share: two
numbers less than `Size` apart have different slots (`SlotsApart`), an insert
changes a slot to the new number, empties it or leaves it (`InsertSlots`), and
inside an epoch it empties only slots of numbers that leave the window
(`EpochInsertKeeps`), so that what it holds is less than `Size` behind its newest
(`InWindow`). As a duplicate filter it goes on refusing what it refused, refuses what
it takes from then on, and comes to hold nothing else (`FilterInsert`).

### Packet layer

Assumptions: those of `SeqNum` and `PacketLayer` on the constants, and
`EpochAssumption`: packet numbers plus a buffer's size stay below half the
number space, so that the u16 comparison is the order of the numbers. Without a
bound of this kind the statements are not true, since a packet may arrive 65536
packets late.

`AckedWasReceived` alone is not inductive: that an ack is true depends on the
headers in the network, and those on the receiver's ring. `AckInv` adds

- `EpochOK`: types, with all numbers inside the epoch;
- `TagsReceived`: a number that tags a slot of `received_buffer` was processed;
- `AcksReceived`: the ack field of every packet in the network names only packets
  its sender has processed.

`ServiceInv` adds what the duplicate check rests on: packets have numbers up to
`sequence_id`, what was processed or acked was sent, and `ReceivedHeld`, that a
packet processed inside the window still has its slot. A processed packet is then
either outside the window or found in its slot, and so never fresh; a slot's number
was processed, and so nothing else is refused. With this each step of the packet
layer is a step of `PacketService` or leaves its variables alone.

`PacketFlowProofs` is about behaviours up to the first packet that is not a message
packet (`OnlyMessages`), with rings no smaller than the limit (`LimitFits`; 350 and 512
in the code): once there are keep-alives, which bypass the limit, the ack field may
outgrow the header. The inductive invariant is `OnlyMessages => FlowInv`. The point of `FlowInv` is that the three
quantities of the two ends hang together in a circle: what the sender knows to have
arrived (`known`), how far the receiver has stopped acking (`settled`), and what each
record in `sent_buffer` says its packet acked (`RecordBounds` and the parts after it).
`WatermarkBehind` says that `settled` does not run ahead of `known`;
`AllowanceReturned`, the other half, that it does not fall behind by more than
`MaxUnacked`: the ack that allowed a packet to be sent is settled at the peer as soon
as the peer reads that packet. So the ack field stays short, no header is refused, no
number is lost, and every packet made is recorded, which closes the circle.

### Duplicate window across the wrap

`ReceiveWindow` has no epoch. Assumptions: the ring size divides the number space
(`AlignedAssumption`, true of `received_buffer`, not of `seen_buf`), and what arrives
stays within half the number space of the window (`ReachAssumption`). `WindowInv`
traces every slot to the number that wrote it: one accepted inside the window, or an
older one that was left when the newest number jumped over the wrap, where
`remove_range` of a range that wraps removes nothing. The proof shows that such a
leftover is a whole round or nearly behind, so that it never passes for a number that
may arrive.

### Ack field

For any number of acks per byte and any greatest length. `FieldInv` keeps the list
and the parsed field as the results of one call of `from_ack_iter` and `parse`, the
offsets as the number of acks read (`Position`) and what was read as the beginning of
the list. `ParseStops`: the first byte without continuation bit is the last one
written, whatever follows.

### Connections

For any number of clients, attempts, salts and packets, and with the faulty removal
loop of `update` as it is. `TypesKept` holds on either network, with `Answers` for the addresses of denials; the others on the one
that remembers every packet (`Duplicating`: histories are kept only there), and
`FiltersOfThisSession` if clients call `connect` only when disconnected
(`ConnectFrom`), without which it is not true.

Every step is the server's, which lets its entries grow or adds at most one fresh
one, or a client's, which does one of six things (`StartsOver`, `Begins`, `Sends`,
`TakesUp`, `Hears`, `Rests`), and the invariants are proved of these kinds of steps.
`HandshakeInv`: salts in the tables were given out and are there once (`SessionsOnce`);
a keep-alive or message packet made for a client is of a session that was opened
(`OpenAnnounced`); a client's salts are of its last attempt (`AttemptsAgree`).
`NumbersInv`: a session's salts belong to one client, and counters, filters and
packets of the two ends of a session bound each other.

`remove_in_turn` is written in closed form: which clients remain after a removal loop
that indexes the shrinking list. `MCConnection` compares it with the loop itself
(`RemovalAssumption`), for all lists of up to six clients. The first client that a
packet matches (`FirstIn`) exists because a set of naturals has a least element.

### Messages

For every workload, every division of messages into parts and of parts over packets,
every ring size and limit, with `Epoch`: the ids used and the slots of `seen_buf` fit
in half the number space. (At the wrap `DeliveredOnce` is not true: see the deviations.)
`MessageInv` says of each end that its calls have ids of their own, in order, and that
only parts of its calls are queued or on the wire (`Sender`, `Carries`), and of the
other end's receiver (`Receiver`):

- `InProgress`: an entry of the reassembler has some parts of one call, not all;
- `Inbox`: what the application got is whole calls, each once;
- of either, every part is refused from now on (`TakenPart`), because its id is in
  `seen_buf` or too old, and both last (`SeenForward`);
- `Accounted`: what `seen_buf` holds was not dropped.

`ProcessOne` is one message: new or refused, whole, last part or other part. The
messages of a packet follow one another (`ProcessAll`), by the least number of messages
after which the receiver would not be in order.

`AcksInv` joins this with what is proved of the packet layer: `Service` is
`PacketLayerProofs` with sets of messages for payloads, and each step of
`MessageLayer` that makes or reads a packet is one of its steps. Besides
`PacketEpoch` (packet numbers and rings fit in half the number space) it needs

- `UniquePackets`: an end's packets have numbers of their own;
- `Read`: every message of a packet that was processed is refused from now on;
- `HandlesKnown`: the handles recorded under a packet's number are those of
  messages in that packet;
- `FragsKnown`: a part that `sent_frag_map` no longer waits for is with the peer;
- `Reported`, `Kept`: so are all parts of a message that was reported as acked, and
  every part of a reliable message that is no longer queued.

An acked packet was processed (`ServiceInv`), its messages are therefore refused at
the peer, its handles are of these messages, and so only such messages leave the queue
or are reported. That "refused" means "received" is `TakenGot`: with fewer ids than
`seen_buf` has slots (`Recent`) nothing is refused for its age, what `seen_buf` holds
is `Accounted`, and a message all of whose parts were accepted is whole
(`AllGotWhole`). Without `Recent` both theorems are false, as the deviations above
say; `AcksInvariant` itself does not need it.

`CalmInv` is about the calls that may fail. Each of the three tables a message goes
through (`sent_buffer`, `messages_in_packets`, `sent_frag_map`) refuses an insert that
is too old for it; by `CalmInv` none of them is ever ahead of the next number to be
inserted, so none refuses, no `unwrap` meets an error, and every `send_message`
succeeds. It needs `FragEpoch`, the counterpart of `Epoch` for `sent_frag_map`. What
remains are the panics on arrival: of `acked_packet`, which finds the parent of an
acked fragment or finds nothing (`AckedTables`), and of the reassembler, which by
`Receiver` has only groups of one message, into which the part fits (`NotConfused`,
`CompletedFits`).

`RefusedOnlyLate` is about the calls that do fail, and so does without `FragEpoch`: a
call fails only when the ids used since every fragmented message before it that was
registered, and since the first id, together with the slots of `sent_frag_map`, reach
half the number space. The fragments are in the channel by then (see the deviations);
the theorem says that this is not met before the 7768th id, and that no ack, resend or
loss brings it on earlier. `RefusalInv` adds that `sent_frag_map` stands at
the newest registered message or where it began, since an ack never inserts in it
(`FragsFollow`). An insert behind which there is less than half the number space is not
refused (`TooOldIsFar`).

`HandlesRetained` needs `KeptLongEnough`: `sent_buffer` has no more slots than
`messages_in_packets` (512 each by default, `config.rs:58`). A packet can only be acked
while `sent_buffer` has it, hence while its handles are in their slot too, and taking
them out cannot touch the handles of another packet. `RetainedInv` adds that every
message packet on the wire was recorded (`MessagesRecorded`).

`GoneMeansReported` relates the queue to the reports, which the code updates apart: an
ack takes single fragments off the queue, while `sent_frag_map` counts them.
`Outstanding` ties the two: of a reliable call that was not reported, the whole message
is queued, or its entry in `sent_frag_map` is there, waits for at least one fragment,
and every fragment it waits for is queued. An ack removes a fragment from both or from
neither (`OutstandingAcked`). It needs `FragsFit`: `sent_frag_map` has a slot for every
id (25000 by default). Otherwise a later message may overwrite the entry of one that
still waits, which then leaves its queue unreported.

`MessagesRefinement` puts these together: every step of `MessageLayer` is a step of
`MessageService` or changes nothing that the applications can see. The mapping forgets
packets, ids, buffers and fragments. Of a call it keeps the channel and the number of
parts; a call is `kept` while one of its parts is in a queue. Then

- `send_message` appends a call and keeps it (`Send`);
- writing a packet lets go of calls on unreliable channels only, for a reliable message
  is resent until it is dismissed (`Write`);
- a packet that is processed adds to the receiver's bag whole calls of the peer that
  were not in it (`Receive`). This is more than that the bag is right before and after,
  which `Inbox` says: it must not shrink, nor trade one message for another
  (`InboxGrows`). Nothing that was delivered is forgotten because every part of it is
  refused from then on, and with `Recent` a part is refused only if it was received;
- the acks in that packet report calls that the peer has whole (`ReportedWhole`), and
  what leaves the queue with them is reported by then: a call that is not reported
  still has a part queued (`UnreportedQueued`).

The hypotheses are those of the theorems it joins: `Epoch`, `PacketEpoch`, `FragEpoch`,
`FragsFit` and `Recent`. With the code's sizes they are met for the first 7767 ids and
32255 packets of a connection.

### Reliable channel

`Delivery` has no epoch of packet numbers: they wrap for ever. `DeliveryProofs` needs
only that of message ids (`IdEpoch`), and nothing of the packet layer at all: whatever
packets are taken for fresh, acked or dropped, the filter is exact. `FilterInv` says
that what is queued, in flight or outstanding was sent, that the newest id in `seen_buf`
was sent, that what it holds was delivered, and that what was delivered is refused. A
packet's messages are taken one after the other (`TakeNext`, `TakeAll`): none of them
holds or overtakes a later one.

So a message is delivered at most once (`DeliveredAtMostOnce`). That it is accepted as
long as it was not delivered needs `NotOvertaken`: no message waits while as many newer
ones are sent as `seen_buf` has slots. Nothing in the code sees to that, and without it
the statement is false (see the deviations); the theorem therefore has it as a
hypothesis about the behaviour (`ExactUnlessOvertaken`). It cannot happen to the first
10000 messages (`ExactFromTheStart`).

### Only model-checked

- `NeverWedged`: that the ack field never fills up depends on the pace of both ends and
  on the losses in a row, and an invariant would have to follow two windows of packets
  across the wrap of their numbers. Its bound is exact in the run (see the deviations).
- Bytes (`Wire`, `FragmentCodec`): what is written and read is the result of folds over
  sequences of any length, and so a matter of induction over data.
- Liveness under fairness (`Delivered`, `Acked`, the liveness of `Connection`) is out
  of the prover's reach.

## Not modelled

- The order of the bytes of an integer, which the byteorder crate keeps the same for
  both ends; readers of a received message other than the one that chains its
  fragments.
- Round-trip time and packet loss estimates: floating point, read by no decision.
  The watermark for non-empty packets is only read by an estimate that is logged.
- The server's handlers for Disconnect and Messages packets: no client of this
  library can get one out (`client.rs:201`; a client has no `send_message`). The `confirmed` flag, which adds keep-alives between ticks.
- `send_empty_packet`, which nothing calls; `jitter_pipe.rs` and `test_utils.rs`, which
  simulate a bad link for the tests: the networks here allow more.

## Plan

1. `Delivery`: `FilterExact` when message ids wrap as well, from the lemmas of
   `ReceiveWindowProofs`, if it can be done without the ring dividing the number space.
2. `MessageLayer` over a network that forgets, so that the reassembler's entries that
   are never cleaned (`message_reassembler.rs:55`) meet ids that come round again.
3. `NeverWedged` for any number of losses in a row, first for two ends that take turns.
