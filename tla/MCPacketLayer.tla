--------------------------- MODULE MCPacketLayer ---------------------------
(* Small instances of PacketLayer, inside an epoch. *)
EXTENDS PacketFlowProofs

\* No step reads the type of a packet on the network, and no property more of
\* the types than OnlyMessages.
MCView ==
  <<sequence_id, sent_buffer, received_buffer, newest_ack, ack_low_watermark,
    {[p EXCEPT !.type = ""] : p \in net}, received, handed_up, acked, OnlyMessages>>
=============================================================================
