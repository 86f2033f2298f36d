--------------------------- MODULE MCVideoService ---------------------------
(* Instances of VideoService for TLC. *)
EXTENDS VideoService, TLC

Perms == Permutations(Conns)
=============================================================================
