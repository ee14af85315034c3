------------------------------- MODULE Codec -------------------------------
(***************************************************************************)
(* How packets and the messages in them become bytes and are read back.    *)
(*                                                                         *)
(* Bytes are a sequence of tokens with a width w: an integer field is      *)
(* [w, v], its value truncated to its width; a piece of a payload is       *)
(* [w, msg, start], w bytes of message msg from position start on; an ack  *)
(* field is [w, acks], whose inside is the subject of module AckHeader.    *)
(* A read that would begin or end inside a token fails. In the code it     *)
(* could also go on with garbage.                                          *)
(***************************************************************************)
EXTENDS BufferPool

u8(x) == [w |-> 1, v |-> x % 2^8]
u16(x) == [w |-> 2, v |-> x % 2^16]
field(w, x) == [w |-> w, v |-> x]

\* The integer of w bytes at position k of r, or -1.
read(r, k, w) ==
  IF k <= Len(r) /\ "v" \in DOMAIN r[k] /\ r[k].w = w THEN r[k].v ELSE -1

rest(r, k) == SubSeq(r, k + 1, Len(r))

-----------------------------------------------------------------------------
(* Messages. A fragment is [index, num_fragments, parent_id]. *)

FragmentPayload == 1024

NoFragment == [index |-> -1, num_fragments |-> 0, parent_id |-> -1]

\* u16 arithmetic without overflow checks.
is_last(index, num_fragments) == index = (num_fragments - 1) % 2^16

size_mode(len) == IF len > 255 THEN "Large" ELSE "Small"

\* An index, a count or the length of an unfragmented message.
number(mode, x) == IF mode = "Large" THEN u16(x) ELSE u8(x)
number_width(mode) == IF mode = "Large" THEN 2 ELSE 1

fragment_header(f, mode, len) ==
  <<number(mode, f.index), number(mode, f.num_fragments)>>
    \o IF is_last(f.index, f.num_fragments) THEN <<u16(len)>> ELSE <<>>

prefix_byte(channel, fragment, mode) ==
  u8(((channel * 8) % 2^8) + (IF mode = "Large" THEN 2 ELSE 0)
                         + (IF fragment # NoFragment THEN 1 ELSE 0))

write_headers(id, channel, fragment, mode, len) ==
  <<prefix_byte(channel, fragment, mode), u16(id)>>
    \o IF fragment = NoFragment THEN <<number(mode, len)>>
       ELSE fragment_header(fragment, mode, len)

header_size(fragment, mode) ==
  1 + 2 + IF fragment = NoFragment THEN number_width(mode)
          ELSE 2 * number_width(mode)
                 + IF is_last(fragment.index, fragment.num_fragments) THEN 2 ELSE 0

\* The asserts of new_outbound, and the errors of write_header it unwraps.
outbound_panics(channel, fragment, len) ==
  \/ channel >= 64 \/ len > FragmentPayload
  \/ fragment # NoFragment /\ ~ is_last(fragment.index, fragment.num_fragments)
       /\ len # FragmentPayload

\* What size() adds to the bytes in the buffer of a message to be sent, although
\* the header is among them already.
size_overhead(fragment, mode) ==
  1 + 2 + IF fragment = NoFragment THEN number_width(mode)
          ELSE 1 + 2 * number_width(mode)
                 + IF is_last(fragment.index, fragment.num_fragments) THEN 2 ELSE 0

Invalid == [ok |-> FALSE, len |-> -1]

\* Message::parse: the message at the head of r, and what follows it.
parse(r) ==
  LET prefix     == read(r, 1, 1)
      id         == read(r, 2, 2)
      fragmented == prefix % 2 = 1
      mode       == IF (prefix \div 2) % 2 = 1 THEN "Large" ELSE "Small"
      index      == read(r, 3, number_width(mode))
      num        == read(r, 4, number_width(mode))
      last       == is_last(index, num)
      header     == IF ~ fragmented THEN 3 ELSE IF last THEN 5 ELSE 4
      len        == IF ~ fragmented THEN read(r, 3, number_width(mode))
                    ELSE IF last THEN read(r, 5, 2) ELSE FragmentPayload
      fragment   == IF ~ fragmented THEN NoFragment
                    ELSE [index |-> index, num_fragments |-> num,
                          parent_id |-> (id - index) % 2^16]
      whole      == \/ len = 0
                    \/ Len(r) > header /\ r[header + 1].w = len
      pieces     == IF len = 0 THEN 0 ELSE 1
  IN  IF -1 \in {prefix, id, len} \/ (fragmented /\ -1 \in {index, num}) THEN Invalid
      ELSE [ok |-> whole, len |-> len, mode |-> mode, id |-> id,
            channel |-> prefix \div 8, fragment |-> fragment,
            payload |-> IF whole THEN SubSeq(r, header + 1, header + pieces) ELSE <<>>,
            rest |-> IF whole THEN rest(r, header + pieces) ELSE <<>>]

\* The loop of process_incoming_packet: messages up to the last byte or to the
\* first one that is invalid; len is the payload that one promises, if any.
parse_all(r) ==
  LET parsed[k \in 0 .. Len(r)] ==
        IF k = 0 THEN [messages |-> <<>>, rest |-> r, ok |-> TRUE, len |-> -1]
        ELSE LET s == parsed[k - 1]
                 m == parse(s.rest)
             IN  IF s.rest = <<>> \/ ~ s.ok THEN s
                 ELSE IF ~ m.ok THEN [s EXCEPT !.ok = FALSE, !.len = m.len]
                 ELSE [s EXCEPT !.messages = Append(@, m), !.rest = m.rest]
  IN  parsed[Len(r)]

-----------------------------------------------------------------------------
(* Splitting a message *)

MAX_FRAGMENTS == 1024
max_message_size == MAX_FRAGMENTS * FragmentPayload

\* len bytes of message msg from position start on.
piece(msg, start, len) ==
  IF len = 0 THEN <<>> ELSE <<[w |-> len, msg |-> msg, start |-> start]>>

num_fragments(len) ==
  (len \div FragmentPayload + IF len % FragmentPayload > 0 THEN 1 ELSE 0) % 2^16

\* The sizes of the payloads a message is split into. Only the last fragment of
\* a large one is not full; its size is computed in u16.
payload_sizes(len) ==
  IF len <= FragmentPayload THEN <<len>>
  ELSE [k \in 1 .. num_fragments(len) |->
          IF k = num_fragments(len) THEN (len - (k - 1) * FragmentPayload) % 2^16
          ELSE FragmentPayload]

\* The k-th of n fragments of the message whose first id is parent.
fragment_of(parent, k, n) ==
  IF n = 1 THEN NoFragment
  ELSE [index |-> k - 1, num_fragments |-> n, parent_id |-> parent]

-----------------------------------------------------------------------------
(* Packets: [type, id, ack_id, acks, fields], where acks is the number of *)
(* bytes of acks and 0 if there is no ack field.                          *)

\* In the order of their codes, from 1.
PacketType == <<"ConnectionRequest", "ConnectionChallenge", "ConnectionChallengeResponse",
                "ConnectionDenied", "Messages", "Disconnect", "KeepAlive">>

\* The widths of the fields behind the header.
body_of(type) ==
  CASE type \in {"ConnectionRequest", "ConnectionChallenge"} -> <<8, 8>>
    [] type = "ConnectionDenied"                             -> <<1>>
    [] type = "KeepAlive"                                    -> <<8, 4>>
    [] OTHER                                                 -> <<8>>

padded(type) ==
  type \in {"ConnectionRequest", "ConnectionChallenge", "ConnectionChallengeResponse"}

Zeros == [w |-> 500, zero |-> TRUE]

write_header(p) ==
  LET code == CHOOSE c \in DOMAIN PacketType : PacketType[c] = p.type
  IN  <<u8(code + IF p.acks > 0 THEN 2^7 ELSE 0), u16(p.id)>>
        \o IF p.acks > 0 THEN <<u16(p.ack_id), [w |-> p.acks, acks |-> p.acks]>> ELSE <<>>

write_packet(p) ==
  write_header(p) \o [k \in DOMAIN p.fields |-> field(body_of(p.type)[k], p.fields[k])]
                  \o IF padded(p.type) THEN <<Zeros>> ELSE <<>>

\* The packet, and the bytes of its messages.
read_packet(r) ==
  LET prefix == read(r, 1, 1)
      code   == prefix % 2^7
      acked  == prefix >= 2^7
      header == IF acked THEN 4 ELSE 2
      type   == PacketType[code]
      body   == body_of(type)
      fields == [k \in DOMAIN body |-> read(r, header + k, body[k])]
      after  == rest(r, header + Len(body))
      denied_wrongly == type = "ConnectionDenied" /\ fields[1] \notin 0 .. 4
  IN  IF \/ -1 \in {prefix, read(r, 2, 2)} \/ code \notin DOMAIN PacketType
         \/ acked /\ (Len(r) < 4 \/ read(r, 3, 2) = -1 \/ "acks" \notin DOMAIN r[4])
      THEN Invalid
      ELSE IF \/ \E k \in DOMAIN fields : fields[k] = -1
              \/ padded(type) /\ width(after) # Zeros.w
              \/ denied_wrongly
      THEN Invalid
      ELSE [ok |-> TRUE,
            packet |-> [type |-> type, id |-> read(r, 2, 2),
                        ack_id |-> IF acked THEN read(r, 3, 2) ELSE -1,
                        acks   |-> IF acked THEN r[4].acks ELSE 0,
                        fields |-> fields],
            after  |-> IF type = "Messages" THEN after ELSE <<>>]
=============================================================================
