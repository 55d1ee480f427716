---------------------------- MODULE MCTimelines ----------------------------
(***************************************************************************)
(* An instance of Timelines: one note, which v may see on a home timeline,  *)
(* on a list or on a page, by itself or as reblogged by p or b.  p is an    *)
(* account of this server; a and b are not.  No followers URL of b is       *)
(* stored, and what a wrote is here because b brought it.                   *)
(***************************************************************************)
EXTENDS Timelines, TLC

CONSTANTS v, p, a, b

Post(author, to, cc, parent) ==
    [author |-> author, originalActor |-> author, to |-> to, cc |-> cc,
     parent |-> parent, local |-> author \in Locals]

\* A note of a that b brought here.
Brought(to, cc) == [Post(a, to, cc, None) EXCEPT !.originalActor = b]

MCFollowers == [x \in Accounts |-> <<x, "followers">>]

MCPosts ==
    {Post(p, {PUBLIC_GROUP}, {Followers[p]}, None),
     Post(p, {Followers[p]}, {v}, b),
     Post(b, {Followers[b]}, {}, None),
     Post(b, {p}, {v}, None),
     Post(b, {v}, {}, None),
     Brought({Followers[a]}, {PUBLIC_GROUP})}

MCAudiences == {[to |-> {PUBLIC_GROUP}, cc |-> None],
                [to |-> {v}, cc |-> {}]}

MCFollowPairs == {<<v, p>>, <<v, b>>}
MCBlockPairs  == {<<v, b>>, <<p, v>>}
MCMutePairs   == {<<v, a>>, <<v, b>>}

Symmetry == Permutations(Workers)
=============================================================================
