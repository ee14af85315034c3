--------------------------- MODULE FragmentCodec ---------------------------
(***************************************************************************)
(* One large message on the wire: its fragments are written one after the  *)
(* other, as add_large_message_to_channel enqueues them, and each is read  *)
(* back by the peer.                                                       *)
(***************************************************************************)
EXTENDS Codec

CONSTANTS Lengths,    \* bound: sizes of the message
          FirstId     \* next_message_id when it is sent

VARIABLES len,        \* size of the message
          count,      \* fragments written
          written_as, \* the fragment written last: [id, fragment, payload]
          bytes       \* how it was written

vars == <<len, count, written_as, bytes>>

\* Fragment::write_header and the payload, on channel 0.
write_fragment(k) ==
  LET sizes    == payload_sizes(len)
      id       == (FirstId + k - 1) % 2^16
      fragment == fragment_of(FirstId, k, Len(sizes))
      payload  == piece(1, (k - 1) * FragmentPayload, sizes[k])
  IN  /\ count' = k
      /\ written_as' = [id |-> id, fragment |-> fragment, payload |-> payload]
      /\ bytes' = write_headers(id, 0, fragment, size_mode(sizes[k]), sizes[k]) \o payload
      /\ UNCHANGED len

Init == /\ len \in Lengths \cap 1 .. max_message_size
        /\ count = 0
        /\ written_as = [id |-> -1, fragment |-> NoFragment, payload |-> <<>>]
        /\ bytes = <<>>

Next == count < num_fragments(len) /\ write_fragment(count + 1)

Spec == Init /\ [][Next]_vars

\* "With a fragment size of 1kB, this gives 1MB" (lib.rs, MAX_FRAGMENTS): the
\* fragments of a message of any size up to max_message_size are read back as
\* the fragments they are.
FragmentsReadBack ==
  count > 0 =>
    LET m == parse(bytes)
    IN  /\ m.ok /\ m.rest = <<>>
        /\ m.id = written_as.id /\ m.fragment = written_as.fragment
        /\ m.payload = written_as.payload
=============================================================================
