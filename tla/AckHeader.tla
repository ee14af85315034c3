----------------------------- MODULE AckHeader -----------------------------
(***************************************************************************)
(* The ack field of a packet header: from_ack_iter packs the receiver's    *)
(* list of (packet number, received?) into bytes of BitsPerByte acks and a *)
(* continuation bit, parse cuts the bytes out of the datagram, and the     *)
(* iterator reads the list back one ack at a time.                         *)
(*                                                                         *)
(* A byte is [bits, more]: the positions of the ack bits that are set, and *)
(* the continuation bit. A behaviour encodes one field, parses it from a   *)
(* datagram with other bytes behind it, and iterates to the end.           *)
(***************************************************************************)
EXTENDS SeqNum, Sequences

CONSTANTS BitsPerByte,   \* 7 in the code
          MaxAckBytes    \* MAX_ACK_BYTES: 50 in the code

ASSUME FieldAssumption ==
  BitsPerByte \in Nat \ {0} /\ MaxAckBytes \in Nat \ {0}

MaxAcks == BitsPerByte * MaxAckBytes

VARIABLES acks,         \* what AckIter yields: sequence of <<number, received>>
          num_acks,     \* num_acks_required, before rounding up to bytes
          header,       \* the parsed AckHeader
          byte_offset,  \* position of the iterator over it
          bit_offset,
          out           \* what the iterator has yielded so far

vars == <<acks, num_acks, header, byte_offset, bit_offset, out>>

bytes_for(n) == (n + BitsPerByte - 1) \div BitsPerByte

\* AckIter::with_minimum_length over a buffer whose greatest number is ack_id,
\* of which the numbers in present exist.
ack_iter(ack_id, n, present) ==
  [k \in 1 .. bytes_for(n) * BitsPerByte |->
     LET s == wrapping_sub(ack_id, k - 1) IN <<s, s \in present>>]

\* Fault: the first ack is put in the highest bit of a byte.
from_ack_iter_reversed(n, iter) ==
  [ack_id |-> iter[1][1],
   bytes  |-> [k \in 1 .. bytes_for(n) |->
     [bits |-> {i \in 0 .. BitsPerByte - 1 : iter[k * BitsPerByte - i][2]},
      more |-> k * BitsPerByte < Len(iter)]]]

\* Fault: the last byte has its continuation bit set.
from_ack_iter_unended(n, iter) ==
  [ack_id |-> iter[1][1],
   bytes  |-> [k \in 1 .. bytes_for(n) |->
     [bits |-> {i \in 0 .. BitsPerByte - 1 : iter[(k - 1) * BitsPerByte + i + 1][2]},
      more |-> k * BitsPerByte <= Len(iter)]]]

\* num_acks is at least 1 here: a header that needs no acks has no field.
from_ack_iter(n, iter) ==
  [ack_id |-> iter[1][1],
   bytes  |-> [k \in 1 .. bytes_for(n) |->
     [bits |-> {i \in 0 .. BitsPerByte - 1 :
                  /\ (k - 1) * BitsPerByte + i + 1 <= Len(iter)
                  /\ iter[(k - 1) * BitsPerByte + i + 1][2]},
      more |-> k * BitsPerByte < Len(iter)]]]

\* Bytes are read up to the first one without continuation bit, at most
\* MaxAckBytes of them; fewer in the datagram would be an error.
parse(ack_id, datagram) ==
  LET last(k) == k = MaxAckBytes \/ ~ datagram[k].more
      n == CHOOSE k \in 1 .. Len(datagram) : last(k) /\ \A j \in 1 .. k - 1 : ~ last(j)
  IN  [ack_id |-> ack_id, bytes |-> SubSeq(datagram, 1, n)]

\* What follows the field in a datagram: bytes with every bit set.
Payload == [k \in 1 .. MaxAckBytes |-> [bits |-> 0 .. BitsPerByte - 1, more |-> TRUE]]

Init ==
  \E ack_id \in SeqIds, n \in 1 .. MaxAcks :
    \E present \in SUBSET {wrapping_sub(ack_id, i) : i \in 0 .. MaxAcks - 1} :
      /\ acks = ack_iter(ack_id, n, present)
      /\ num_acks = n
      /\ header = parse(from_ack_iter(n, acks).ack_id,
                        from_ack_iter(n, acks).bytes \o Payload)
      /\ byte_offset = 0
      /\ bit_offset = 0
      /\ out = <<>>

exhausted == byte_offset = Len(header.bytes) \/ byte_offset = MaxAckBytes

\* There are more ack bits in the byte at hand.
more_bits == bit_offset < BitsPerByte - 1

\* Iterator::next
next ==
  LET b == header.bytes[byte_offset + 1]
      offset == BitsPerByte * byte_offset + bit_offset
  IN  /\ ~ exhausted
      /\ out' = Append(out, <<wrapping_sub(header.ack_id, offset), bit_offset \in b.bits>>)
      /\ IF more_bits
         THEN bit_offset' = bit_offset + 1 /\ byte_offset' = byte_offset
         ELSE IF b.more
         THEN bit_offset' = 0 /\ byte_offset' = byte_offset + 1
         ELSE bit_offset' = bit_offset /\ byte_offset' = MaxAckBytes
      /\ UNCHANGED <<acks, num_acks, header>>

Spec == Init /\ [][next]_vars

\* The peer reads the very acks that were written, for every length up to the
\* greatest field and across the wrap of the numbers.
RoundTrip == /\ out = SubSeq(acks, 1, Len(out))
             /\ exhausted => out = acks

\* The field ends where its last byte ends: parse takes no byte of the messages
\* behind it, and leaves none of the field.
FieldDelimited == Len(header.bytes) = bytes_for(num_acks)
=============================================================================
