--------------------------- MODULE MCMessageLayer ---------------------------
(* Small instances of MessageLayer. *)
EXTENDS MessageLayer

CONSTANTS alice, bob

\* A fragmented message on each channel. With 32 ids, the second is too far from
\* the first for a sent_frag_map of 15 slots.
FragmentedWorkload == << <<alice, 1, 2>>, <<alice, 0, 2>> >>

OneMessage == << <<alice, 1, 1>> >>
=============================================================================
