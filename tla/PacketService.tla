--------------------------- MODULE PacketService ---------------------------
(***************************************************************************)
(* What the packet layer promises the message layer above it, whatever the *)
(* network loses, duplicates or reorders:                                  *)
(*   - a packet is handed up at most once, and only if the peer sent it;   *)
(*   - a packet is reported as acked at most once, and only if the peer    *)
(*     received it.                                                        *)
(* Nothing is promised about arrival, nor that every arrival is acked.     *)
(***************************************************************************)
EXTENDS Integers

CONSTANTS Peers,     \* the two endpoints
          PacketIds  \* packet numbers

VARIABLES sent,      \* sent[e]: numbers of the packets e sent
          received,  \* received[e]: numbers of its peer's packets e processed
          handed_up, \* handed_up[e]: how many packets e processed
          acked      \* acked[e]: numbers of its own packets e knows arrived

vars == <<sent, received, handed_up, acked>>

other(e) == CHOOSE p \in Peers : p # e

Init ==
  /\ sent     = [e \in Peers |-> {}]
  /\ received = [e \in Peers |-> {}]
  /\ handed_up = [e \in Peers |-> 0]
  /\ acked    = [e \in Peers |-> {}]

Send(e, s) ==
  /\ s \notin sent[e]
  /\ sent' = [sent EXCEPT ![e] = @ \cup {s}]
  /\ UNCHANGED <<received, handed_up, acked>>

\* e processes packet s of its peer, and learns from it that the packets in
\* acks arrived there.
Deliver(e, s, acks) ==
  /\ s \in sent[other(e)] \ received[e]
  /\ received' = [received EXCEPT ![e] = @ \cup {s}]
  /\ handed_up' = [handed_up EXCEPT ![e] = @ + 1]
  /\ acked'    = [acked EXCEPT ![e] = @ \cup acks]
  /\ UNCHANGED sent

Next ==
  \E e \in Peers, s \in PacketIds :
    \/ Send(e, s)
    \/ \E acks \in SUBSET (received[other(e)] \ acked[e]) : Deliver(e, s, acks)

Spec == Init /\ [][Next]_vars
=============================================================================
