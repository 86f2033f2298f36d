---------------------------- MODULE MCConnection ----------------------------
(***************************************************************************)
(* Two connections of one peer that reuses one session id, and the scopes  *)
(* each configuration lists.                                               *)
(***************************************************************************)
EXTENDS Connection, TLC

Symmetry == Permutations(Conns)
=============================================================================
