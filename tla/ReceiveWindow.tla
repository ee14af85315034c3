--------------------------- MODULE ReceiveWindow ---------------------------
(***************************************************************************)
(* A SequenceBuffer used as a filter against duplicates, across the wrap   *)
(* of the u16 numbers: the stale and duplicate checks at the beginning of  *)
(* process_incoming_packet, with received_buffer. Its size, 512 by default *)
(* (config.rs), divides the number space.                                  *)
(*                                                                         *)
(* Not modelled here: accepts_message of both channels, which makes the    *)
(* same two checks on message ids with a seen_buf of 10000 slots. That     *)
(* does not divide the number space, and the filter is not exact then.     *)
(*                                                                         *)
(* The sender counts without wrapping; only n % SeqMod goes on the wire.   *)
(* Numbers arrive in any order and any number of times, but not later than *)
(* MaxLate behind and not further than MaxAhead ahead of the greatest one  *)
(* accepted so far. The first packet has number 1.                         *)
(***************************************************************************)
EXTENDS SequenceBuffer

CONSTANTS MaxLate,    \* bound: how far behind the greatest number one arrives
          MaxAhead,   \* bound: how far ahead of it
          MaxNumber   \* bound: numbers the sender uses

ASSUME BoundsAssumption ==
  MaxLate \in Nat /\ MaxAhead \in Nat \ {0} /\ MaxNumber \in Nat

VARIABLES received_buffer,  \* the SequenceBuffer; what its entries hold is not read here
          newest,           \* history: the number its sequence stands for
          accepted          \* history: numbers accepted, those that may arrive again

vars == <<received_buffer, newest, accepted>>

\* sequence_id.wrapping_add: the u16 that numbers are on the wire.
wire(n) == n % SeqMod

\* The numbers that may arrive.
InFlight == {n \in newest - MaxLate .. newest + MaxAhead : n \in 0 .. MaxNumber}

\* Fault: numbers that fell out of the window pass.
fresh_packet_no_window(buf, s) == ~ exists(buf, s)

fresh_packet(buf, s) == check_sequence(buf, s) /\ ~ exists(buf, s)

Init ==
  /\ received_buffer = with_capacity
  /\ newest          = 0
  /\ accepted        = {}

\* check_sequence has passed, so the insert does not fail.
Accept(n) ==
  /\ n \in InFlight
  /\ fresh_packet(received_buffer, wire(n))
  /\ received_buffer' = insert(received_buffer, wire(n), TRUE)
  /\ newest'          = IF n > newest THEN n ELSE newest
  /\ accepted'        = {m \in accepted \cup {n} : m >= newest' - MaxLate}

Reject(n) ==
  /\ n \in InFlight
  /\ ~ fresh_packet(received_buffer, wire(n))
  /\ UNCHANGED vars

Next == \E n \in 0 .. MaxNumber : Accept(n) \/ Reject(n)

Spec == Init /\ [][Next]_vars

\* A packet number accepted once is refused from then on, before, at and after
\* the wrap: process_incoming_packet "Can return PicklebackError::DuplicatePacket"
\* (its doc) for a duplicate wherever the numbers are.
AcceptedOnce == \A n \in accepted : ~ fresh_packet(received_buffer, wire(n))

\* Nothing else is refused: a number not seen yet is accepted unless it is Size
\* or more behind the greatest one. In particular no leftover of 2^16 numbers
\* ago and no reused slot makes a new packet look like a duplicate.
FreshAccepted ==
  \A n \in InFlight \ accepted :
    n > newest - Size => fresh_packet(received_buffer, wire(n))

\* The greatest number inserted, as the buffer knows it, is the greatest one
\* accepted: a late arrival never drags the window back.
WindowFollowsNewest == received_buffer.sequence = wire(newest)
=============================================================================
