---------------------------- MODULE MCConnection ----------------------------
(* Small instances of Connection, and its removal loop checked against the code's. *)
EXTENDS ConnectionProofs

Seqs == INSTANCE SequencesExt

\* The loop as it is written: one removal after the other, in ascending order.
remove_loop(list, indexes) ==
  Seqs!FoldLeft(LAMBDA r, i : IF r.panic \/ i > Len(r.list) THEN [r EXCEPT !.panic = TRUE]
                              ELSE [r EXCEPT !.list = drop(@, i)],
                [list |-> list, panic |-> FALSE],
                Seqs!SetToSortSeq(indexes, LAMBDA i, j : i < j))

\* remove_in_turn is what the loop leaves, for lists of up to six clients.
ASSUME RemovalAssumption ==
  \A n \in 0 .. 6 : \A indexes \in SUBSET (1 .. n) :
    LET list == [i \in 1 .. n |-> <<i>>]
    IN  remove_in_turn(list, indexes) = remove_loop(list, indexes)
=============================================================================
