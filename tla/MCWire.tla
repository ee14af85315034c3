------------------------------- MODULE MCWire -------------------------------
(* The default pools (buffer_pool.rs), with fewer buffers, and messages around *)
(* the sizes at which a header gets larger or a fragment more is needed.       *)
EXTENDS Wire

pool_config(first, max, capacity) ==
  [starting_size |-> first, max_size |-> max, buffer_capacity |-> capacity]

DefaultPools == <<pool_config(1, 2, 64), pool_config(0, 1, 256), pool_config(1, 2, 1200),
                  pool_config(0, 1, 2048)>>

DefaultChannels == <<0, 1>>

Boundaries == <<{255, 1024, 1025, 1300}, {57}>>
=============================================================================
