----------------------------- MODULE FollowGraph -----------------------------
(***************************************************************************)
(* The follow graph of a wildebeest instance: the rows of actor_following,  *)
(* the rows of blocks, the interaction_count column of the remote actors,   *)
(* and every handler that writes them.                                      *)
(*                                                                          *)
(* A handler (an API request of a local user, or an activity that a peer    *)
(* put in a local inbox) runs on a worker.  It is cut at every database     *)
(* call it awaits: what it read before an await may be stale after it,      *)
(* because the workers share nothing but the database.  A db.batch is one   *)
(* step.  The read of the actor rows that precedes the first database call  *)
(* of a handler is not a step: actor rows are never changed by these        *)
(* handlers.                                                                *)
(*                                                                          *)
(* Left out, because no property is about them: the URI, the mastodon id    *)
(* and the options of a row, the activities table, and the notifications.   *)
(***************************************************************************)
EXTENDS Integers, FiniteSets

CONSTANTS
    Locals,     \* the actors of this instance (they have a row in users)
    Remotes,    \* the cached actors of other instances
    Locked,     \* the local actors with manuallyApprovesFollowers
    Workers,    \* isolates that run handlers at the same time
    Requests,   \* the requests that clients and peers may issue, see Request
    MoveLists   \* the batches of account ids that a peer's collections may hold

Actors == Locals \cup Remotes
Pairs == Actors \X Actors
Reverse(p) == <<p[2], p[1]>>

\* A request is the name of an endpoint or of an inbox activity and the two
\* actors it is about: first the one who issues it, then its target.
Inbound  == Remotes \X Locals
Outbound == Locals \X Remotes
NotSelf  == {p \in Locals \X Actors : p[1] # p[2]}

Request ==
    [kind : {"follow"}, pair : Outbound] \cup
    [kind : {"unfollow"}, pair : Locals \X Actors] \cup
    [kind : {"block", "unblock"}, pair : NotSelf] \cup
    [kind : {"Follow", "Accept", "Move"}, pair : Inbound] \cup
    [kind : {"authorize", "reject"}, pair : NotSelf]

ASSUME ActorsAssumption ==
    /\ IsFiniteSet(Actors)
    /\ Locals \cap Remotes = {}
    /\ Locked \subseteq Locals

ASSUME RequestsAssumption ==
    /\ Requests \subseteq Request
    /\ MoveLists \subseteq SUBSET Actors

Requested(kind, p) == [kind |-> kind, pair |-> p] \in Requests

VARIABLES
    following,          \* state of the row (p[1] follows p[2]), "none" without a row
    blocks,             \* the pairs (account_id, target_account_id) of blocks
    interactionCount,   \* actors.interaction_count of the remote actors
    task,               \* what each worker is about to do, and for which pair
    \* History: no handler reads the variables below.
    moved,              \* rows that a Move inserted
    miscounted,         \* remote actors to whom a Move has added a follower
    abandoned,          \* rows that a block handler died before removing
    severed,            \* pairs whose last accepted row was removed again
    answered            \* accepted rows whose Accept was handed to the peer or the queue

database == <<following, blocks, interactionCount>>
history  == <<moved, miscounted, abandoned, severed, answered>>
vars     == <<database, task, history>>

Stages == {"lookup", "insert", "undo", "severOut", "severIn", "store", "reread",
           "reply", "accept", "removePending", "followers", "following"}

Idle == [at |-> "idle", pair |-> <<>>]
Task == [at : Stages, pair : Pairs] \cup {Idle}

TypeOK ==
    /\ following \in [Pairs -> {"none", "pending", "accepted"}]
    /\ blocks \subseteq Pairs
    /\ interactionCount \in [Remotes -> Nat]
    /\ task \in [Workers -> Task]
    /\ moved \subseteq Pairs
    /\ miscounted \subseteq Remotes
    /\ abandoned \subseteq Pairs
    /\ severed \subseteq Pairs
    /\ answered \subseteq Pairs

Init ==
    /\ following = [p \in Pairs |-> "none"]
    /\ blocks = {}
    /\ interactionCount = [r \in Remotes |-> 0]
    /\ task = [w \in Workers |-> Idle]
    /\ moved = {}
    /\ miscounted = {}
    /\ abandoned = {}
    /\ severed = {}
    /\ answered = {}

-----------------------------------------------------------------------------
(* Workers. *)

At(w, stage) == task[w].at = stage
Goto(w, stage, p) == task' = [task EXCEPT ![w] = [at |-> stage, pair |-> p]]
Finish(w) == task' = [task EXCEPT ![w] = Idle]

\* An idle worker receives a request and reads nothing that stops it.
Begin(w, kind, p, stage) ==
    /\ task[w] = Idle
    /\ Requested(kind, p)
    /\ Goto(w, stage, p)

-----------------------------------------------------------------------------
(* Rows. *)

\* Mutant of NoBlockBetween: only the block of the first account counts.
OneWayBlockOnly(p) == p \notin blocks

\* Both directions: a block by either party is a block between them.
NoBlockBetween(p) == p \notin blocks /\ Reverse(p) \notin blocks

Accepted(p) == following[p] = "accepted"
Exists(p)   == following[p] # "none"

SetRow(p, state) == following' = [following EXCEPT ![p] = state]

\* Mutant of Decremented: without the clamp.
DecrementedUnclamped(n) == n - 1

\* MAX(0, interaction_count - 1)
Decremented(n) == IF n > 0 THEN n - 1 ELSE 0

\* What every step that turns the row of p into an accepted one does to the history.
RecordAccepted(p) ==
    /\ severed' = severed \ {p}
    /\ UNCHANGED <<moved, miscounted, abandoned, answered>>

\* What every step that deletes the row of p does to the history.
RecordRemoved(p) ==
    /\ moved' = moved \ {p}
    /\ abandoned' = abandoned \ {p}
    /\ answered' = answered \ {p}
    /\ severed' = IF Accepted(p) THEN severed \cup {p} ELSE severed
    /\ UNCHANGED miscounted

\* Mutant of CountsPendingRow: a row is counted again each time it is accepted.
CountsAnyRow(p) == p[2] \in Remotes /\ Exists(p)

\* The batch of acceptFollowing.  Its first statement counts the row that its
\* second one accepts, when the target is not a user of this instance.
CountsPendingRow(p) ==
    /\ p[2] \in Remotes
    /\ following[p] = "pending"
    /\ NoBlockBetween(p)

Acceptable(p) == following[p] = "pending" /\ NoBlockBetween(p)

AcceptFollowing(p) ==
    /\ interactionCount' =
         IF CountsPendingRow(p)
         THEN [interactionCount EXCEPT ![p[2]] = @ + 1]
         ELSE interactionCount
    /\ IF Acceptable(p)
       THEN SetRow(p, "accepted") /\ RecordAccepted(p)
       ELSE UNCHANGED <<following, history>>
    /\ UNCHANGED blocks

\* The batch of removeFollowing: the row goes whatever its state, and only an
\* accepted one was counted.
RemoveFollowing(p) ==
    /\ interactionCount' =
         IF p[2] \in Remotes /\ Accepted(p)
         THEN [interactionCount EXCEPT ![p[2]] = Decremented(@)]
         ELSE interactionCount
    /\ SetRow(p, "none")
    /\ RecordRemoved(p)
    /\ UNCHANGED blocks

-----------------------------------------------------------------------------
(* POST /api/v1/accounts/:id/follow *)

BeginFollow(w, p) ==
    /\ NoBlockBetween(p)
    /\ Begin(w, "follow", p, "lookup")
    /\ UNCHANGED <<database, history>>

\* An existing row only gets its options updated.
FollowLookup(w) ==
    LET p == task[w].pair IN
    /\ At(w, "lookup")
    /\ IF Exists(p) THEN Finish(w) ELSE Goto(w, "insert", p)
    /\ UNCHANGED <<database, history>>

\* addFollowing is INSERT OR IGNORE and looks at no block.  The delivery that
\* follows it is wrapped in deliverSafely: it can fail, and nothing depends on it.
FollowInsert(w) ==
    LET p == task[w].pair IN
    /\ At(w, "insert")
    /\ IF Exists(p) THEN UNCHANGED following ELSE SetRow(p, "pending")
    /\ Finish(w)
    /\ UNCHANGED <<blocks, interactionCount, history>>

(* POST /api/v1/accounts/:id/unfollow.  The guard isLocalHandle is never true    *)
(* of what actorToHandle returns, so a local target is not refused.              *)

BeginUnfollow(w, p) ==
    /\ Exists(p)
    /\ Begin(w, "unfollow", p, "undo")
    /\ UNCHANGED <<database, history>>

\* Reached when the Undo has been delivered; a failed delivery is Fail.
UnfollowRemove(w) ==
    /\ At(w, "undo")
    /\ RemoveFollowing(task[w].pair)
    /\ Finish(w)

(* POST /api/v1/accounts/:id/block and unblock *)

BeginBlock(w, p) ==
    /\ Begin(w, "block", p, "severOut")
    /\ blocks' = blocks \cup {p}
    /\ UNCHANGED <<following, interactionCount, history>>

BlockSeverOut(w) ==
    LET p == task[w].pair IN
    /\ At(w, "severOut")
    /\ RemoveFollowing(p)
    /\ Goto(w, "severIn", p)

BlockSeverIn(w) ==
    /\ At(w, "severIn")
    /\ RemoveFollowing(Reverse(task[w].pair))
    /\ Finish(w)

Unblock(w, p) ==
    /\ task[w] = Idle
    /\ Requested("unblock", p)
    /\ blocks' = blocks \ {p}
    /\ UNCHANGED <<following, interactionCount, task, history>>

(* Follow in a local inbox: p[1] is the sender, p[2] the local followee. *)

BeginInboxFollow(w, p) ==
    /\ NoBlockBetween(p)
    /\ Begin(w, "Follow", p, "store")
    /\ UNCHANGED <<database, history>>

\* ensurePendingFollowingIfNotBlocked: insert unless blocked or already there.
\* A created row is a request that waits for its followee: only a notification follows.
StorePending(w) ==
    LET p == task[w].pair IN
    /\ At(w, "store")
    /\ p[2] \in Locked
    /\ IF ~Exists(p) /\ NoBlockBetween(p)
       THEN SetRow(p, "pending") /\ Finish(w)
       ELSE UNCHANGED following /\ Goto(w, "reread", p)
    /\ UNCHANGED <<blocks, interactionCount, history>>

\* Mutant of StoreAccepted: the upsert trusts the block check made before it.
StoreAcceptedUnguarded(w) ==
    LET p == task[w].pair IN
    /\ At(w, "store")
    /\ p[2] \notin Locked
    /\ IF ~Accepted(p)
       THEN SetRow(p, "accepted") /\ RecordAccepted(p) /\ Goto(w, "reply", p)
       ELSE UNCHANGED <<following, history>> /\ Goto(w, "reread", p)
    /\ UNCHANGED <<blocks, interactionCount>>

\* ensureAcceptedFollowingIfNotBlocked: an upsert that also accepts a pending row.
StoreAccepted(w) ==
    LET p == task[w].pair IN
    /\ At(w, "store")
    /\ p[2] \notin Locked
    /\ IF ~Accepted(p) /\ NoBlockBetween(p)
       THEN SetRow(p, "accepted") /\ RecordAccepted(p) /\ Goto(w, "reply", p)
       ELSE UNCHANGED <<following, history>> /\ Goto(w, "reread", p)
    /\ UNCHANGED <<blocks, interactionCount>>

\* Mutant of AnswersAgain: a Follow that changes no row is ignored.
AnswersAgainNever(p) == FALSE

\* The write changed nothing: a second query finds out why.  A Follow whose row
\* is already accepted is answered again, the first Accept may have been lost.
AnswersAgain(p) ==
    /\ Accepted(p)
    /\ p[2] \in Locked \/ NoBlockBetween(p)

Reread(w) ==
    LET p == task[w].pair IN
    /\ At(w, "reread")
    /\ IF AnswersAgain(p) THEN Goto(w, "reply", p) ELSE Finish(w)
    /\ UNCHANGED <<database, history>>

\* The Accept is delivered (inbox) or queued for delivery (authorize).  When that
\* throws, the handler ends without it: see Fail.
Reply(w) ==
    LET p == task[w].pair IN
    /\ At(w, "reply")
    /\ answered' = IF Accepted(p) THEN answered \cup {p} ELSE answered
    /\ Finish(w)
    /\ UNCHANGED <<database, moved, miscounted, abandoned, severed>>

(* Accept in a local inbox: p[1] accepts the Follow of the local p[2].  The row  *)
(* is looked for under the actor of the Accept, whatever its Follow names.       *)

InboxAccept(w, p) ==
    /\ task[w] = Idle
    /\ Requested("Accept", p)
    /\ AcceptFollowing(Reverse(p))
    /\ UNCHANGED task

(* POST /api/v1/follow_requests/:id/authorize and reject: p[1] decides on p[2]. *)

\* The request that is answered, with the URI of its Follow, while it is pending.
GetPendingInboundFollow(row) == following[row] = "pending"

BeginAuthorize(w, p) ==
    LET row == Reverse(p) IN
    /\ GetPendingInboundFollow(row)
    /\ task[w] = Idle
    /\ Requested("authorize", p)
    /\ Goto(w, "accept", row)
    /\ UNCHANGED <<database, history>>

\* Mutant of AuthorizeAccept: the result of acceptFollowing is ignored.
AuthorizeAcceptUnchecked(w) ==
    LET row == task[w].pair IN
    /\ At(w, "accept")
    /\ AcceptFollowing(row)
    /\ Goto(w, "reply", row)

\* An acceptFollowing that changed no row is a 404, and sends nothing.
AuthorizeAccept(w) ==
    LET row == task[w].pair IN
    /\ At(w, "accept")
    /\ AcceptFollowing(row)
    /\ IF Acceptable(row) THEN Goto(w, "reply", row) ELSE Finish(w)

BeginReject(w, p) ==
    LET row == Reverse(p) IN
    /\ GetPendingInboundFollow(row)
    /\ task[w] = Idle
    /\ Requested("reject", p)
    /\ Goto(w, "removePending", row)
    /\ UNCHANGED <<database, history>>

\* Mutant of RejectRemove: the DELETE without its condition on the state.
RejectRemoveAnyState(w) ==
    LET row == task[w].pair IN
    /\ At(w, "removePending")
    /\ SetRow(row, "none")
    /\ RecordRemoved(row)
    /\ Finish(w)
    /\ UNCHANGED <<blocks, interactionCount>>

\* removePendingFollowing, and the Reject that is queued when it deleted a row.
RejectRemove(w) ==
    LET row == task[w].pair IN
    /\ At(w, "removePending")
    /\ IF following[row] = "pending"
       THEN SetRow(row, "none") /\ RecordRemoved(row)
       ELSE UNCHANGED <<following, history>>
    /\ Finish(w)
    /\ UNCHANGED <<blocks, interactionCount>>

(* Move in a local inbox: p[1] moves its account to the local p[2].  Its two      *)
(* collections are imported in batches; each row is an INSERT OR IGNORE of an     *)
(* accepted one, whatever is blocked, and no interaction is counted.              *)

ImportRows(rows) ==
    LET new == {p \in rows : ~Exists(p)} IN
    /\ following' = [p \in Pairs |-> IF p \in new THEN "accepted" ELSE following[p]]
    /\ moved' = moved \cup new
    /\ miscounted' = miscounted \cup {r \in Remotes : \E p \in new : p[2] = r}
    /\ severed' = severed \ new
    /\ UNCHANGED <<blocks, interactionCount, abandoned, answered>>

BeginMove(w, p) ==
    /\ Begin(w, "Move", p, "followers")
    /\ UNCHANGED <<database, history>>

MoveFollowers(w) ==
    LET me == task[w].pair[2] IN
    /\ At(w, "followers")
    /\ \/ /\ \E batch \in MoveLists : ImportRows(batch \X {me})
          /\ UNCHANGED task
       \/ /\ Goto(w, "following", task[w].pair)
          /\ UNCHANGED <<database, history>>

MoveFollowing(w) ==
    LET me == task[w].pair[2] IN
    /\ At(w, "following")
    /\ \/ /\ \E batch \in MoveLists : ImportRows({me} \X batch)
          /\ UNCHANGED task
       \/ /\ Finish(w)
          /\ UNCHANGED <<database, history>>

-----------------------------------------------------------------------------
(* A handler ends before its next step: a database call, a delivery or a send   *)
(* to the queue throws, or the isolate is evicted.  What it has written stays.  *)

Undone(w) ==
    LET p == task[w].pair IN
    IF At(w, "severOut") THEN {p, Reverse(p)}
    ELSE IF At(w, "severIn") THEN {Reverse(p)}
    ELSE {}

Fail(w) ==
    /\ task[w] # Idle
    /\ abandoned' = abandoned \cup {p \in Undone(w) : Exists(p)}
    /\ Finish(w)
    /\ UNCHANGED <<database, moved, miscounted, severed, answered>>

-----------------------------------------------------------------------------

Arrive(w) ==
    \E p \in Pairs :
        \/ BeginFollow(w, p)
        \/ BeginUnfollow(w, p)
        \/ BeginBlock(w, p)
        \/ Unblock(w, p)
        \/ BeginInboxFollow(w, p)
        \/ InboxAccept(w, p)
        \/ BeginAuthorize(w, p)
        \/ BeginReject(w, p)
        \/ BeginMove(w, p)

Continue(w) ==
    \/ FollowLookup(w)
    \/ FollowInsert(w)
    \/ UnfollowRemove(w)
    \/ BlockSeverOut(w)
    \/ BlockSeverIn(w)
    \/ StorePending(w)
    \/ StoreAccepted(w)
    \/ Reread(w)
    \/ Reply(w)
    \/ AuthorizeAccept(w)
    \/ RejectRemove(w)
    \/ MoveFollowers(w)
    \/ MoveFollowing(w)

Next == \E w \in Workers : Arrive(w) \/ Continue(w) \/ Fail(w)

Spec == Init /\ [][Next]_vars

(* No handler stays where it is for ever: it goes on or it dies.  The queue and   *)
(* the peers deliver a Follow again and again until it is answered (the queue     *)
(* retries a batch whose handler threw), and of infinitely many attempts at a     *)
(* step of its handler some succeed.  Nothing else is fair: no client has to send *)
(* a request, and a block handler may die.                                        *)
On(w, p, A) == task[w].pair = p /\ A

Redelivery(p) ==
    /\ SF_vars(\E w \in Workers : BeginInboxFollow(w, p))
    /\ SF_vars(\E w \in Workers : On(w, p, StorePending(w) \/ StoreAccepted(w)))
    /\ SF_vars(\E w \in Workers : On(w, p, Reread(w)))
    /\ SF_vars(\E w \in Workers : On(w, p, Reply(w)))

InboxFollows == {p \in Pairs : Requested("Follow", p)}

FairSpec ==
    /\ Spec
    /\ \A w \in Workers : WF_vars(Continue(w) \/ Fail(w))
    /\ \A p \in InboxFollows : Redelivery(p)

-----------------------------------------------------------------------------
(* Properties. *)

\* One of the two blocks the other.
Blocked(p) == p \in blocks \/ Reverse(p) \in blocks

\* A block handler that runs will still remove the row of p.
RemovalAhead(p) ==
    \E w \in Workers :
        \/ At(w, "severOut") /\ task[w].pair \in {p, Reverse(p)}
        \/ At(w, "severIn") /\ task[w].pair = Reverse(p)

\* Between two actors of whom one blocks the other there is no accepted follow,
\* whichever handlers ran side by side with the block: the inbox Follow and Accept
\* and the authorize request test the block in the statement that accepts.  The
\* exceptions are the ones the code has: rows that a running block handler has yet
\* to remove or died before removing, and rows that a Move imported.
BlockSevers ==
    \A p \in Pairs :
        Accepted(p) /\ Blocked(p) => RemovalAhead(p) \/ p \in abandoned \cup moved

AcceptedFollowers(r) == {a \in Actors : Accepted(<<a, r>>)}

\* The interaction_count of a remote actor, which keeps it from being purged, is
\* the number of accepted follows it has from this instance: duplicated Accepts,
\* repeated unfollows and blocks racing them count each row once up and once down.
\* Rows imported by a Move are never counted, so after one it may only be too low.
InteractionCountSound ==
    \A r \in Remotes :
        /\ interactionCount[r] <= Cardinality(AcceptedFollowers(r))
        /\ r \notin miscounted => interactionCount[r] = Cardinality(AcceptedFollowers(r))

\* An Accept only leaves for a follow that was granted: its row is accepted, or was
\* and has since been removed by a block.  In particular a follow request that is
\* rejected or blocked while its authorization is in progress gets no Accept.
AcceptIsGranted ==
    \A w \in Workers :
        At(w, "reply") => Accepted(task[w].pair) \/ task[w].pair \in severed

\* An accepted follow ends only by an unfollow of its follower or a block by one of
\* the two, and never falls back to a request: not by a reject that lost the race
\* against authorize, nor by a repeated follow request or Follow activity.
EndsFollow(p) ==
    \E w \in Workers :
        \/ At(w, "undo") /\ task[w].pair = p
        \/ At(w, "severOut") /\ task[w].pair = p
        \/ At(w, "severIn") /\ task[w].pair = Reverse(p)

FollowEndsByItsParties ==
    [][\A p \in Pairs :
          Accepted(p) /\ ~Accepted(p)' => ~Exists(p)' /\ EndsFollow(p)]_vars

\* A follow of a local account that is granted but whose Accept got lost (its
\* delivery threw, the authorize request died before queueing it) is answered when
\* the peer repeats its Follow, unless the row goes or a block silences it.
AcceptedFollowIsAnswered ==
    \A p \in InboxFollows :
        Accepted(p) ~> (p \in answered \/ ~Accepted(p) \/ Blocked(p))

-----------------------------------------------------------------------------
(* What the documentation says, and the code does not do. *)

\* docs/cleanup-worker-spec.md: the interaction_count column MUST be kept accurate,
\* a follow being one of the interactions that increment it.  A row imported by a
\* Move is a follow that is not counted.
InteractionCountAccurate ==
    \A r \in Remotes : interactionCount[r] = Cardinality(AcceptedFollowers(r))

\* unfollow.ts: "Only allow to unfollow remote users".  The guard tests whether a
\* handle without a domain came out of actorToHandle, which always sets one.
UnfollowsRemoteOnly ==
    \A w \in Workers : At(w, "undo") => task[w].pair[2] \in Remotes
=============================================================================
