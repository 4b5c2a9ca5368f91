----------------------------- MODULE MCThrottle -----------------------------
(* Small instances of Throttle for TLC. *)
EXTENDS Throttle, TLC

Symmetry == Permutations(Workers)
=============================================================================
