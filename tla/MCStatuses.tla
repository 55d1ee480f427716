----------------------------- MODULE MCStatuses -----------------------------
(***************************************************************************)
(* An instance of Statuses: two notes may be posted under one key, and one  *)
(* of the visibilities hides a note from the followers.                    *)
(***************************************************************************)
EXTENDS Statuses, TLC

Symmetry == Permutations(Workers) \cup Permutations(Notes)
=============================================================================
