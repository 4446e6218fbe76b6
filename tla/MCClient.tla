------------------------------ MODULE MCClient -------------------------------
(* TLC instances of Client: connections are dialled in any order, so they   *)
(* are interchangeable in runs that check safety only.                      *)
EXTENDS Client, TLC

Symmetry == Permutations(Conns)
=============================================================================
