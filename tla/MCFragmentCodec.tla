-------------------------- MODULE MCFragmentCodec --------------------------
(* Messages around the sizes at which a field of the header gets wider. *)
EXTENDS FragmentCodec

NoPools == <<[starting_size |-> 0, max_size |-> 0, buffer_capacity |-> 0]>>
=============================================================================
