----------------------------- MODULE BufferPool -----------------------------
(***************************************************************************)
(* BufPool: pools of reusable byte buffers, one per capacity.              *)
(*                                                                         *)
(* A buffer is [capacity, bytes]. bytes is a sequence of tokens, each with *)
(* its width w in bytes (module Codec). A pool is a stack of buffers. The  *)
(* two counters, kept per pool in the code and only printed there, are     *)
(* kept here for the whole BufPool.                                        *)
(***************************************************************************)
EXTENDS Integers, Sequences

CONSTANT Pools   \* PoolConfigs [starting_size, max_size, buffer_capacity]

LOCAL INSTANCE SequencesExt

ASSUME PoolsAssumption ==
  /\ Len(Pools) > 0
  /\ \A i \in 1 .. Len(Pools) - 1 :
       Pools[i].buffer_capacity <= Pools[i + 1].buffer_capacity

width(bytes) ==
  LET upto[k \in 0 .. Len(bytes)] == IF k = 0 THEN 0 ELSE upto[k - 1] + bytes[k].w
  IN  upto[Len(bytes)]

with_capacity(n) == [capacity |-> n, bytes |-> <<>>]

new ==
  [buffers |-> [i \in DOMAIN Pools |->
     [k \in 1 .. Pools[i].starting_size |-> with_capacity(Pools[i].buffer_capacity)]],
   overflow_allocations |-> 0,
   discarded_checkins   |-> 0]

\* The pool that serves n bytes, and the one to which a buffer of capacity n
\* goes back: the first that is large enough, or else the last.
pool_for(n) ==
  LET enough == {i \in DOMAIN Pools : Pools[i].buffer_capacity >= n
                                        \/ Pools[i].buffer_capacity = 0}
  IN  IF enough = {} THEN Len(Pools) ELSE CHOOSE i \in enough : \A j \in enough : i <= j

\* Fault: what the last user wrote is still in the buffer.
cleared_not(b) == b

cleared(b) == [b EXCEPT !.bytes = <<>>]

checkout(pool, i) ==
  IF pool.buffers[i] = <<>>
  THEN [buffer |-> with_capacity(Pools[i].buffer_capacity),
        pool   |-> [pool EXCEPT !.overflow_allocations = @ + 1]]
  ELSE [buffer |-> cleared(Last(pool.buffers[i])),
        pool   |-> [pool EXCEPT !.buffers[i] = Front(@)]]

get_buffer(pool, min_size) == checkout(pool, pool_for(min_size))

\* Of what is left in a buffer in a pool, only the length matters.
leftover(n) == IF n > 0 THEN <<[w |-> n, stale |-> TRUE]>> ELSE <<>>

checkin(pool, i, b) ==
  IF Len(pool.buffers[i]) >= Pools[i].max_size
  THEN [pool EXCEPT !.discarded_checkins = @ + 1]
  ELSE [pool EXCEPT !.buffers[i] = Append(@, [b EXCEPT !.bytes = leftover(width(@))])]

return_buffer(pool, b) == checkin(pool, pool_for(b.capacity), b)

return_buffers(pool, bs) == FoldLeft(return_buffer, pool, bs)

-----------------------------------------------------------------------------
(* Vec<u8> *)

\* The capacity after n bytes have been stored: a vector that must grow at
\* least doubles.
grown(b, n) ==
  IF n <= b.capacity THEN b
  ELSE [b EXCEPT !.capacity = IF n <= 2 * @ THEN 2 * @ ELSE n]

\* Writing through a Cursor, which begins at 0: what the vector held behind the
\* bytes written stays.
written(b, bytes) ==
  [grown(b, width(bytes)) EXCEPT
     !.bytes = bytes \o leftover(width(b.bytes) - width(bytes))]

\* read_to_end puts the bytes behind those that are there.
appended(b, bytes) ==
  [grown(b, width(b.bytes) + width(bytes)) EXCEPT !.bytes = @ \o bytes]

\* Vec::clone allocates exactly what it needs.
clone(b) == [b EXCEPT !.capacity = width(b.bytes)]
=============================================================================
