---------------------------- MODULE MCHostFiles ----------------------------
(* HostFiles with contents of one block and of two. *)
EXTENDS HostFiles

CONSTANTS w1, w2, c1, c2

MCLength == [f \in Files |-> IF f \in {w1, c1} THEN 2 ELSE 1]
=============================================================================
