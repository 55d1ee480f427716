------------------------------ MODULE MCReplies ------------------------------
(***************************************************************************)
(* An instance of Replies: a note of this instance, and two of another one  *)
(* that may answer it or each other.                                        *)
(***************************************************************************)
EXTENDS Replies, TLC

CONSTANTS here, r1, r2

MCReplyTo == (r1 :> {None, here}) @@ (r2 :> {r1, here})

Symmetry == Permutations(Workers)
=============================================================================
