--------------------------- MODULE MessageService ---------------------------
(***************************************************************************)
(* What two Picklebacks promise the applications above them, whatever the  *)
(* network loses, duplicates or reorders and however messages are split:   *)
(*   - a call of send_message reaches the peer's application at most once, *)
(*     whole and on its channel;                                           *)
(*   - a call is reported as acked only when the peer's application has it;*)
(*   - a call on a reliable channel is kept for resending until it is      *)
(*     reported, one on an unreliable channel until it was written.        *)
(* Nothing is promised about arrival, nor about order.                     *)
(***************************************************************************)
EXTENDS Integers, Sequences, Bags

CONSTANTS Peers,    \* the two endpoints
          Channels, Reliable,
          MaxParts  \* fragments a message may have

VARIABLES sends,          \* sends[e]: the calls at e, [channel, parts]
          delivered,      \* delivered[e]: bag of what e's application got
          acked_messages, \* acked_messages[e]: calls of e reported as acked
          kept            \* kept[e]: calls of e of which a part is queued

vars == <<sends, delivered, acked_messages, kept>>

other(e) == CHOOSE p \in Peers : p # e

\* The k-th call of e, as its peer's application gets it: all parts of it.
arrival(e, k) ==
  [channel |-> sends[e][k].channel,
   parts |-> [i \in 0 .. sends[e][k].parts - 1 |-> [msg |-> k, part |-> i]]]

\* The calls of e that its peer's application has.
arrived(e) == {k \in 1 .. Len(sends[e]) : BagIn(arrival(e, k), delivered[other(e)])}

Init ==
  /\ sends          = [e \in Peers |-> <<>>]
  /\ delivered      = [e \in Peers |-> EmptyBag]
  /\ acked_messages = [e \in Peers |-> {}]
  /\ kept           = [e \in Peers |-> {}]

Send(e, c, n) ==
  /\ sends' = [sends EXCEPT ![e] = Append(@, [channel |-> c, parts |-> n])]
  /\ kept'  = [kept EXCEPT ![e] = @ \cup {Len(sends[e]) + 1}]
  /\ UNCHANGED <<delivered, acked_messages>>

\* The last parts of the calls in gone are written; nothing resends them.
Write(e, gone) ==
  /\ \A k \in gone : sends[e][k].channel \notin Reliable
  /\ kept' = [kept EXCEPT ![e] = @ \ gone]
  /\ UNCHANGED <<sends, delivered, acked_messages>>

\* The calls in new reach the application of e, and those in done, of its own,
\* are reported to it. With that the calls in gone need no more resends.
Receive(e, new, done, gone) ==
  /\ delivered' = [delivered EXCEPT ![e] =
                     @ (+) SetToBag({arrival(other(e), k) : k \in new})]
  /\ acked_messages' = [acked_messages EXCEPT ![e] = @ \cup done]
  /\ gone \subseteq acked_messages'[e]
  /\ kept' = [kept EXCEPT ![e] = @ \ gone]
  /\ UNCHANGED sends

Next ==
  \E e \in Peers :
    \/ \E c \in Channels, n \in 1 .. MaxParts : Send(e, c, n)
    \/ \E gone \in SUBSET kept[e] : Write(e, gone)
    \/ \E new \in SUBSET (1 .. Len(sends[other(e)]) \ arrived(other(e))),
          done \in SUBSET arrived(e), gone \in SUBSET kept[e] :
         Receive(e, new, done, gone)

Spec == Init /\ [][Next]_vars
=============================================================================
