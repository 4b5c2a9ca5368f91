------------------------------ MODULE MCAccess ------------------------------
(* Small instances of Access for TLC. *)
EXTENDS Access, TLC

Symmetry == Permutations(Profiles) \cup Permutations(Requests)
=============================================================================
