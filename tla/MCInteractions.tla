--------------------------- MODULE MCInteractions ---------------------------
(***************************************************************************)
(* An instance of Interactions: a user and a remote actor, whose Announce   *)
(* of the same remote note may be delivered again and again.               *)
(***************************************************************************)
EXTENDS Interactions, TLC

CONSTANTS alice, rob, note, announce

MCAnnounceOf == [a \in Announces |-> <<rob, note>>]

Symmetry == Permutations(Workers) \cup Permutations(OutboxIds)
                \cup Permutations(LocalActivities)
=============================================================================
