--------------------------- MODULE MCFollowGraph ---------------------------
(***************************************************************************)
(* Instances of FollowGraph.  Two local accounts share the remote account   *)
(* bob; eve is the remote account that moves to alice.                      *)
(***************************************************************************)
EXTENDS FollowGraph

CONSTANTS alice, carol, bob, eve

MCLocals  == {alice, carol}
MCRemotes == {bob, eve}

Ask(kinds, a, b) == [kind : kinds, pair : {<<a, b>>}]

\* Everything alice and bob can do to each other while carol follows bob too.
MCRequests ==
    Ask({"follow", "unfollow", "block", "unblock", "authorize", "reject"}, alice, bob)
    \cup Ask({"Follow", "Accept"}, bob, alice)
    \cup Ask({"follow", "unfollow"}, carol, bob)
    \cup Ask({"Accept"}, bob, carol)
    \cup Ask({"Move"}, eve, alice)

MCLocked == {alice}
MCMoveLists == {{bob}}

\* bob follows alice, who is open, and carol, who is locked; each of them may
\* block bob meanwhile.
AnswerRequests ==
    Ask({"Follow"}, bob, alice) \cup Ask({"block", "unblock"}, alice, bob)
    \cup Ask({"Follow"}, bob, carol) \cup Ask({"authorize", "reject", "block"}, carol, bob)

AnswerLocked == {carol}

\* eve has moved to alice and brought carol and bob along; alice then unfollows.
MoveRequests ==
    Ask({"Move"}, eve, alice)
    \cup Ask({"unfollow"}, carol, alice)
    \cup Ask({"unfollow"}, alice, bob)
    \cup Ask({"follow"}, alice, bob) \cup Ask({"Accept"}, bob, alice)

MoveListsWithLocal == {{bob}, {carol}}
=============================================================================
