-------------------------- MODULE FollowGraphProofs --------------------------
(***************************************************************************)
(* What FollowGraph's runs check on small instances, proved for any number  *)
(* of actors, workers and kinds of requests.                                *)
(***************************************************************************)
EXTENDS FollowGraph, FiniteSetTheorems, TLAPS

\* Pairs can be reversed, and a pair reversed twice is the pair.
LEMMA ReversePairs ==
    \A p \in Pairs : Reverse(p) \in Pairs /\ Reverse(Reverse(p)) = p
BY DEF Pairs, Reverse

\* A worker that is at some stage works on a pair.
LEMMA BusyTask ==
    ASSUME TypeOK, NEW w \in Workers, task[w] # Idle
    PROVE  task[w].at \in Stages /\ task[w].pair \in Pairs
<1>1. task[w] \in Task
    BY DEF TypeOK
<1> QED
    BY <1>1 DEF Task

\* Moving a worker on keeps the type of the tasks.
LEMMA GotoType ==
    ASSUME TypeOK, NEW w \in Workers, NEW stage \in Stages, NEW p \in Pairs,
           Goto(w, stage, p)
    PROVE  task' \in [Workers -> Task]
BY DEF TypeOK, Goto, Task

\* So does ending its handler.
LEMMA FinishType ==
    ASSUME TypeOK, NEW w \in Workers, Finish(w)
    PROVE  task' \in [Workers -> Task]
BY DEF TypeOK, Finish, Task

\* The rows and the counters keep their types, whichever batch runs.
DataOK ==
    /\ following \in [Pairs -> {"none", "pending", "accepted"}]
    /\ blocks \subseteq Pairs
    /\ interactionCount \in [Remotes -> Nat]
    /\ moved \subseteq Pairs
    /\ miscounted \subseteq Remotes
    /\ abandoned \subseteq Pairs
    /\ severed \subseteq Pairs
    /\ answered \subseteq Pairs

\* The batch of acceptFollowing keeps the types of the database.
LEMMA AcceptFollowingType ==
    ASSUME DataOK, NEW p \in Pairs, AcceptFollowing(p)
    PROVE  DataOK'
BY DEF DataOK, AcceptFollowing, SetRow, RecordAccepted, CountsPendingRow, history

\* So does the batch of removeFollowing: the decrement is clamped at zero.
LEMMA RemoveFollowingType ==
    ASSUME DataOK, NEW p \in Pairs, RemoveFollowing(p)
    PROVE  DataOK'
<1>1. \A n \in Nat : Decremented(n) \in Nat
    BY DEF Decremented
<1> QED
    BY <1>1 DEF DataOK, RemoveFollowing, SetRow, RecordRemoved

\* So does a batch of imported rows.
LEMMA ImportRowsType ==
    ASSUME DataOK, NEW rows \in SUBSET Pairs, ImportRows(rows)
    PROVE  DataOK'
BY DEF DataOK, ImportRows

\* The batches that a Move imports are rows.
LEMMA BatchesAreRows ==
    ASSUME NEW batch \in MoveLists, NEW me \in Actors
    PROVE  batch \X {me} \in SUBSET Pairs /\ {me} \X batch \in SUBSET Pairs
<1>1. batch \subseteq Actors
    BY RequestsAssumption
<1> QED
    BY <1>1 DEF Pairs

\* Every step keeps the types.
LEMMA TypeStep == TypeOK /\ [Next]_vars => TypeOK'
<1> SUFFICES ASSUME TypeOK, [Next]_vars
             PROVE  TypeOK'
    OBVIOUS
<1>1. DataOK
    BY DEF TypeOK, DataOK
<1>2. SUFFICES DataOK' /\ task' \in [Workers -> Task]
    BY DEF TypeOK, DataOK
<1>3. CASE UNCHANGED vars
    BY <1>1, <1>3 DEF vars, database, history, DataOK, TypeOK
<1>4. ASSUME NEW w \in Workers, NEW p \in Pairs,
             \/ BeginFollow(w, p) \/ BeginUnfollow(w, p) \/ BeginBlock(w, p)
             \/ BeginInboxFollow(w, p) \/ BeginAuthorize(w, p)
             \/ BeginReject(w, p) \/ BeginMove(w, p)
      PROVE  DataOK' /\ task' \in [Workers -> Task]
    <2>1. DataOK'
        BY <1>1, <1>4 DEF BeginFollow, BeginUnfollow, BeginBlock, BeginInboxFollow,
            BeginAuthorize, BeginReject, BeginMove, DataOK, database, history
    <2>2. \E stage \in Stages, q \in Pairs : Goto(w, stage, q)
        BY <1>4, ReversePairs DEF BeginFollow, BeginUnfollow, BeginBlock, BeginInboxFollow,
            BeginAuthorize, BeginReject, BeginMove, Begin, Stages
    <2> QED
        BY <2>1, <2>2, GotoType
<1>5. ASSUME NEW w \in Workers, NEW p \in Pairs, Unblock(w, p) \/ InboxAccept(w, p)
      PROVE  DataOK' /\ task' \in [Workers -> Task]
    <2>1. CASE Unblock(w, p)
        BY <1>1, <2>1 DEF Unblock, DataOK, TypeOK, history
    <2>2. CASE InboxAccept(w, p)
        BY <1>1, <2>2, ReversePairs, AcceptFollowingType DEF InboxAccept, TypeOK
    <2> QED
        BY <1>5, <2>1, <2>2
<1>6. ASSUME NEW w \in Workers, Continue(w)
      PROVE  DataOK' /\ task' \in [Workers -> Task]
    <2>1. task[w] # Idle
        BY <1>6 DEF Continue, FollowLookup, FollowInsert, UnfollowRemove, BlockSeverOut,
            BlockSeverIn, StorePending, StoreAccepted, Reread, Reply, AuthorizeAccept,
            RejectRemove, MoveFollowers, MoveFollowing, At, Idle
    <2>2. task[w].pair \in Pairs
        BY <2>1, BusyTask
    <2>3. \/ Finish(w) \/ UNCHANGED task
          \/ \E stage \in Stages : Goto(w, stage, task[w].pair)
        BY <1>6 DEF Continue, FollowLookup, FollowInsert, UnfollowRemove, BlockSeverOut,
            BlockSeverIn, StorePending, StoreAccepted, Reread, Reply, AuthorizeAccept,
            RejectRemove, MoveFollowers, MoveFollowing, Stages
    <2>4. task' \in [Workers -> Task]
        BY <2>2, <2>3, GotoType, FinishType DEF TypeOK
    <2>5. DataOK'
        <3>1. CASE UnfollowRemove(w) \/ BlockSeverOut(w) \/ BlockSeverIn(w)
            BY <1>1, <2>2, <3>1, ReversePairs, RemoveFollowingType
                DEF UnfollowRemove, BlockSeverOut, BlockSeverIn
        <3>2. CASE AuthorizeAccept(w)
            BY <1>1, <2>2, <3>2, AcceptFollowingType DEF AuthorizeAccept
        <3>3. CASE FollowLookup(w) \/ FollowInsert(w) \/ StorePending(w) \/ Reread(w)
            BY <1>1, <2>2, <3>3 DEF FollowLookup, FollowInsert, StorePending, Reread,
                SetRow, DataOK, database, history
        <3>4. CASE StoreAccepted(w)
            BY <1>1, <2>2, <3>4 DEF StoreAccepted, SetRow, RecordAccepted, DataOK, history
        <3>5. CASE Reply(w)
            BY <1>1, <2>2, <3>5 DEF Reply, DataOK, database
        <3>6. CASE RejectRemove(w)
            BY <1>1, <2>2, <3>6 DEF RejectRemove, SetRow, RecordRemoved, DataOK, history
        <3>7. CASE MoveFollowers(w) \/ MoveFollowing(w)
            <4>1. task[w].pair[2] \in Actors
                BY <2>2 DEF Pairs
            <4>2. UNCHANGED <<database, history>> \/ \E rows \in SUBSET Pairs : ImportRows(rows)
                BY <3>7, <4>1, BatchesAreRows DEF MoveFollowers, MoveFollowing
            <4> QED
                BY <1>1, <4>2, ImportRowsType DEF DataOK, database, history
        <3> QED
            BY <1>6, <3>1, <3>2, <3>3, <3>4, <3>5, <3>6, <3>7 DEF Continue
    <2> QED
        BY <2>4, <2>5
<1>7. ASSUME NEW w \in Workers, Fail(w)
      PROVE  DataOK' /\ task' \in [Workers -> Task]
    <2>1. task[w].pair \in Pairs
        BY <1>7, BusyTask DEF Fail
    <2>2. Undone(w) \subseteq Pairs
        BY <2>1, ReversePairs DEF Undone, At
    <2> QED
        BY <1>1, <1>7, <2>2, FinishType DEF Fail, DataOK, database
<1> QED
    BY <1>3, <1>4, <1>5, <1>6, <1>7 DEF Next, Arrive

\* The follow graph stays well-typed: every row has one of the three states and no
\* interaction_count becomes negative.
THEOREM TypeCorrect == Spec => []TypeOK
<1>1. Init => TypeOK
    BY DEF Init, TypeOK, Task, Idle
<1> QED
    BY <1>1, TypeStep, PTL DEF Spec

-----------------------------------------------------------------------------
(* Blocks.  BlockSevers is inductive once the types are known.  What a step may  *)
(* do to a pair is: leave its row, its blocks and the removals ahead of it alone  *)
(* (or take a block away), accept it while there is no block between the two,     *)
(* block it and start a removal, remove its row, or mark it as an exception.      *)

\* A pair whose row is accepted although there is a block.
Exposed(p) == Accepted(p) /\ Blocked(p)

Excused(p) == RemovalAhead(p) \/ p \in abandoned \cup moved

\* A worker that is not the one who moves keeps its removal ahead.
LEMMA OthersKeepRemoval ==
    ASSUME TypeOK, NEW w \in Workers, NEW p \in Pairs, NEW v \in Workers \ {w},
           \/ At(v, "severOut") /\ task[v].pair \in {p, Reverse(p)}
           \/ At(v, "severIn") /\ task[v].pair = Reverse(p),
           \E t \in Task : task' = [task EXCEPT ![w] = t]
    PROVE  RemovalAhead(p)'
BY DEF TypeOK, RemovalAhead, At

\* A worker that starts or moves on while it is at no removal keeps all removals.
LEMMA KeepRemovals ==
    ASSUME TypeOK, NEW w \in Workers, NEW p \in Pairs, RemovalAhead(p),
           ~At(w, "severOut"), ~At(w, "severIn"),
           \/ UNCHANGED task
           \/ \E t \in Task : task' = [task EXCEPT ![w] = t]
    PROVE  RemovalAhead(p)'
<1>1. CASE UNCHANGED task
    BY <1>1 DEF RemovalAhead, At
<1>2. CASE \E t \in Task : task' = [task EXCEPT ![w] = t]
    BY <1>2, OthersKeepRemoval DEF RemovalAhead
<1> QED
    BY <1>1, <1>2

\* Accepting a row by acceptFollowing exposes no pair.
LEMMA AcceptExposesNothing ==
    ASSUME TypeOK, NEW q \in Pairs, NEW p \in Pairs, AcceptFollowing(q), Exposed(p)'
    PROVE  Exposed(p) /\ (p \in abandoned \cup moved => p \in (abandoned \cup moved)')
BY DEF TypeOK, AcceptFollowing, Exposed, Accepted, Blocked, NoBlockBetween, Acceptable,
    SetRow, RecordAccepted, history

\* removeFollowing exposes no pair, and hides the one it is about.
LEMMA RemoveExposesNothing ==
    ASSUME TypeOK, NEW q \in Pairs, NEW p \in Pairs, RemoveFollowing(q), Exposed(p)'
    PROVE  /\ Exposed(p) /\ p # q
           /\ p \in abandoned \cup moved => p \in (abandoned \cup moved)'
BY DEF TypeOK, RemoveFollowing, Exposed, Accepted, Blocked, NoBlockBetween, SetRow,
    RecordRemoved

\* An imported row is an exception from the start.
LEMMA ImportExposesMoved ==
    ASSUME TypeOK, NEW rows \in SUBSET Pairs, NEW p \in Pairs, ImportRows(rows), Exposed(p)'
    PROVE  \/ p \in moved'
           \/ Exposed(p) /\ (p \in abandoned \cup moved => p \in (abandoned \cup moved)')
BY DEF TypeOK, ImportRows, Exposed, Accepted, Exists, Blocked, NoBlockBetween

\* BlockSevers is kept by every step.
LEMMA BlockStep == TypeOK /\ BlockSevers /\ [Next]_vars => BlockSevers'
<1> SUFFICES ASSUME TypeOK, BlockSevers, [Next]_vars,
                    NEW p \in Pairs, Exposed(p)'
             PROVE  Excused(p)'
    BY DEF BlockSevers, Exposed, Excused
<1>1. Exposed(p) => Excused(p)
    BY DEF BlockSevers, Exposed, Excused
<1>2. CASE UNCHANGED vars
    BY <1>1, <1>2 DEF vars, database, history, Exposed, Excused, Accepted, Blocked,
        NoBlockBetween, RemovalAhead, At
<1>3. ASSUME NEW w \in Workers, NEW q \in Pairs,
             \/ BeginFollow(w, q) \/ BeginUnfollow(w, q) \/ BeginInboxFollow(w, q)
             \/ BeginAuthorize(w, q) \/ BeginReject(w, q) \/ BeginMove(w, q)
      PROVE  Excused(p)'
    <2>1. /\ UNCHANGED <<database, history>>
          /\ task[w] = Idle
          /\ \E stage \in Stages, r \in Pairs : Goto(w, stage, r)
        BY <1>3, ReversePairs DEF BeginFollow, BeginUnfollow, BeginInboxFollow,
            BeginAuthorize, BeginReject, BeginMove, Begin, Stages
    <2>2. ~At(w, "severOut") /\ ~At(w, "severIn")
        BY <2>1 DEF At, Idle
    <2>3. \E t \in Task : task' = [task EXCEPT ![w] = t]
        BY <2>1 DEF Goto, Task
    <2>4. Exposed(p)
        BY <2>1 DEF database, Exposed, Accepted, Blocked, NoBlockBetween
    <2> QED
        BY <1>1, <2>1, <2>2, <2>3, <2>4, KeepRemovals DEF Excused, history
<1>4. ASSUME NEW w \in Workers, NEW q \in Pairs, BeginBlock(w, q)
      PROVE  Excused(p)'
    <2>1. /\ task[w] = Idle
          /\ task' = [task EXCEPT ![w] = [at |-> "severOut", pair |-> q]]
        BY <1>4 DEF BeginBlock, Begin, Goto
    <2>2. CASE q \in {p, Reverse(p)}
        BY <2>1, <2>2 DEF Excused, RemovalAhead, At, TypeOK
    <2>3. CASE q \notin {p, Reverse(p)}
        <3>1. Exposed(p)
            BY <1>4, <2>3 DEF BeginBlock, Exposed, Accepted, Blocked, NoBlockBetween
        <3>2. ~At(w, "severOut") /\ ~At(w, "severIn")
            BY <2>1 DEF At, Idle
        <3>3. \E t \in Task : task' = [task EXCEPT ![w] = t]
            BY <2>1 DEF Task, Stages
        <3> QED
            BY <1>1, <1>4, <3>1, <3>2, <3>3, KeepRemovals DEF Excused, BeginBlock, history
    <2> QED
        BY <2>2, <2>3
<1>5. ASSUME NEW w \in Workers, NEW q \in Pairs, Unblock(w, q) \/ InboxAccept(w, q)
      PROVE  Excused(p)'
    <2>1. CASE Unblock(w, q)
        <3>1. Exposed(p)
            BY <2>1 DEF Unblock, Exposed, Accepted, Blocked, NoBlockBetween
        <3> QED
            BY <1>1, <2>1, <3>1 DEF Unblock, Excused, RemovalAhead, At, history
    <2>2. CASE InboxAccept(w, q)
        <3>1. Exposed(p) /\ (p \in abandoned \cup moved => p \in (abandoned \cup moved)')
            BY <2>2, ReversePairs, AcceptExposesNothing DEF InboxAccept
        <3> QED
            BY <1>1, <2>2, <3>1 DEF InboxAccept, Excused, RemovalAhead, At
    <2> QED
        BY <1>5, <2>1, <2>2
<1>6. ASSUME NEW w \in Workers, Continue(w)
      PROVE  Excused(p)'
    <2>1. task[w] # Idle
        BY <1>6 DEF Continue, FollowLookup, FollowInsert, UnfollowRemove, BlockSeverOut,
            BlockSeverIn, StorePending, StoreAccepted, Reread, Reply, AuthorizeAccept,
            RejectRemove, MoveFollowers, MoveFollowing, At, Idle
    <2>2. task[w].pair \in Pairs
        BY <2>1, BusyTask
    <2>3. \/ UNCHANGED task
          \/ \E t \in Task : task' = [task EXCEPT ![w] = t]
        <3>1. \/ Finish(w) \/ UNCHANGED task
              \/ \E stage \in Stages : Goto(w, stage, task[w].pair)
            BY <1>6 DEF Continue, FollowLookup, FollowInsert, UnfollowRemove, BlockSeverOut,
                BlockSeverIn, StorePending, StoreAccepted, Reread, Reply, AuthorizeAccept,
                RejectRemove, MoveFollowers, MoveFollowing, Stages
        <3> QED
            BY <2>2, <3>1 DEF Finish, Goto, Task
    <2>4. CASE BlockSeverOut(w)
        <3>1. /\ Exposed(p) /\ p # task[w].pair
              /\ p \in abandoned \cup moved => p \in (abandoned \cup moved)'
            BY <2>2, <2>4, RemoveExposesNothing DEF BlockSeverOut
        <3>2. CASE task[w].pair = Reverse(p)
            BY <2>4, <3>2 DEF BlockSeverOut, Goto, Excused, RemovalAhead, At, TypeOK
        <3>3. CASE task[w].pair # Reverse(p)
            BY <1>1, <2>3, <2>4, <3>1, <3>3, OthersKeepRemoval
                DEF BlockSeverOut, Excused, RemovalAhead, At
        <3> QED
            BY <3>2, <3>3
    <2>5. CASE BlockSeverIn(w)
        <3>1. /\ Exposed(p) /\ p # Reverse(task[w].pair)
              /\ p \in abandoned \cup moved => p \in (abandoned \cup moved)'
            BY <2>2, <2>5, ReversePairs, RemoveExposesNothing DEF BlockSeverIn
        <3>2. task[w].pair # Reverse(p)
            BY <2>2, <3>1, ReversePairs
        <3> QED
            BY <1>1, <2>3, <2>5, <3>1, <3>2, OthersKeepRemoval
                DEF BlockSeverIn, Excused, RemovalAhead, At
    <2>6. CASE UnfollowRemove(w)
        <3>1. Exposed(p) /\ (p \in abandoned \cup moved => p \in (abandoned \cup moved)')
            BY <2>2, <2>6, RemoveExposesNothing DEF UnfollowRemove
        <3> QED
            BY <1>1, <2>3, <2>6, <3>1, KeepRemovals DEF UnfollowRemove, Excused, At
    <2>7. CASE AuthorizeAccept(w)
        <3>1. Exposed(p) /\ (p \in abandoned \cup moved => p \in (abandoned \cup moved)')
            BY <2>2, <2>7, AcceptExposesNothing DEF AuthorizeAccept
        <3> QED
            BY <1>1, <2>3, <2>7, <3>1, KeepRemovals DEF AuthorizeAccept, Excused, At
    <2>8. CASE FollowLookup(w) \/ FollowInsert(w) \/ StorePending(w) \/ Reread(w) \/ Reply(w)
        <3>1. Exposed(p) /\ UNCHANGED <<abandoned, moved>>
            BY <2>2, <2>8 DEF FollowLookup, FollowInsert, StorePending, Reread, Reply, SetRow,
                Exposed, Accepted, Blocked, NoBlockBetween, TypeOK, database, history
        <3>2. ~At(w, "severOut") /\ ~At(w, "severIn")
            BY <2>8 DEF FollowLookup, FollowInsert, StorePending, Reread, Reply, At
        <3> QED
            BY <1>1, <2>3, <3>1, <3>2, KeepRemovals DEF Excused
    <2>9. CASE StoreAccepted(w)
        <3>1. Exposed(p) /\ UNCHANGED <<abandoned, moved>>
            BY <2>2, <2>9 DEF StoreAccepted, SetRow, RecordAccepted, Exposed, Accepted,
                Blocked, NoBlockBetween, TypeOK, history
        <3> QED
            BY <1>1, <2>3, <2>9, <3>1, KeepRemovals DEF StoreAccepted, Excused, At
    <2>10. CASE RejectRemove(w)
        <3>1. Exposed(p) /\ (p \in abandoned \cup moved => p \in (abandoned \cup moved)')
            BY <2>2, <2>10 DEF RejectRemove, SetRow, RecordRemoved, Exposed, Accepted,
                Blocked, NoBlockBetween, TypeOK, history
        <3> QED
            BY <1>1, <2>3, <2>10, <3>1, KeepRemovals DEF RejectRemove, Excused, At
    <2>11. CASE MoveFollowers(w) \/ MoveFollowing(w)
        <3>1. task[w].pair[2] \in Actors
            BY <2>2 DEF Pairs
        <3>2. UNCHANGED <<database, history>> \/ \E rows \in SUBSET Pairs : ImportRows(rows)
            BY <2>11, <3>1, BatchesAreRows DEF MoveFollowers, MoveFollowing
        <3>3. \/ p \in moved'
              \/ Exposed(p) /\ (p \in abandoned \cup moved => p \in (abandoned \cup moved)')
            <4>1. CASE UNCHANGED <<database, history>>
                BY <4>1 DEF database, history, Exposed, Accepted, Blocked, NoBlockBetween
            <4> QED
                BY <3>2, <4>1, ImportExposesMoved
        <3>4. ~At(w, "severOut") /\ ~At(w, "severIn")
            BY <2>11 DEF MoveFollowers, MoveFollowing, At
        <3> QED
            BY <1>1, <2>3, <3>3, <3>4, KeepRemovals DEF Excused
    <2> QED
        BY <1>6, <2>4, <2>5, <2>6, <2>7, <2>8, <2>9, <2>10, <2>11 DEF Continue
<1>7. ASSUME NEW w \in Workers, Fail(w)
      PROVE  Excused(p)'
    <2>1. Exposed(p) /\ Exists(p)
        BY <1>7 DEF Fail, database, Exposed, Accepted, Exists, Blocked, NoBlockBetween
    <2>2. task[w].pair \in Pairs
        BY <1>7, BusyTask DEF Fail
    <2>3. CASE p \in Undone(w)
        BY <1>7, <2>1, <2>3 DEF Fail, Excused
    <2>4. CASE p \notin Undone(w)
        <3>1. /\ ~(At(w, "severOut") /\ task[w].pair \in {p, Reverse(p)})
              /\ ~(At(w, "severIn") /\ task[w].pair = Reverse(p))
            BY <2>2, <2>4, ReversePairs DEF Undone, At
        <3>2. \E t \in Task : task' = [task EXCEPT ![w] = t]
            BY <1>7 DEF Fail, Finish, Task
        <3>3. RemovalAhead(p) => RemovalAhead(p)'
            BY <3>1, <3>2, OthersKeepRemoval DEF RemovalAhead
        <3> QED
            BY <1>1, <1>7, <2>1, <3>3 DEF Fail, Excused
    <2> QED
        BY <2>3, <2>4
<1> QED
    BY <1>2, <1>3, <1>4, <1>5, <1>6, <1>7 DEF Next, Arrive

\* There is no accepted follow across a block, but for the rows that a running
\* block handler still has to remove or died before removing, and imported ones.
THEOREM BlocksSever == Spec => []BlockSevers
<1>1. Init => BlockSevers
    BY DEF Init, BlockSevers, Accepted
<1> QED
    BY <1>1, TypeCorrect, BlockStep, PTL DEF Spec

-----------------------------------------------------------------------------
(* How a follow ends.  A step changes an accepted row only by the batch of       *)
(* removeFollowing, and that batch is a step of an unfollow or of a block.        *)

Granted(p) == Accepted(p) \/ p \in severed

\* removeFollowing removes its row, records it, and leaves the other rows alone.
LEMMA RemoveEnds ==
    ASSUME TypeOK, NEW q \in Pairs, NEW p \in Pairs, RemoveFollowing(q), Granted(p)
    PROVE  /\ Granted(p)'
           /\ Accepted(p) /\ ~Accepted(p)' => p = q /\ ~Exists(p)'
BY DEF TypeOK, RemoveFollowing, Granted, Accepted, Exists, SetRow, RecordRemoved

\* acceptFollowing takes no grant away and ends no follow.
LEMMA AcceptKeeps ==
    ASSUME TypeOK, NEW q \in Pairs, NEW p \in Pairs, AcceptFollowing(q)
    PROVE  (Granted(p) => Granted(p)') /\ (Accepted(p) => Accepted(p)')
BY DEF TypeOK, AcceptFollowing, Granted, Accepted, Acceptable, SetRow, RecordAccepted,
    history

\* Importing rows takes no grant away and ends no follow.
LEMMA ImportKeeps ==
    ASSUME TypeOK, NEW rows \in SUBSET Pairs, NEW p \in Pairs, ImportRows(rows)
    PROVE  (Granted(p) => Granted(p)') /\ (Accepted(p) => Accepted(p)')
BY DEF TypeOK, ImportRows, Granted, Accepted, Exists

\* What a step may do to a granted follow.
LEMMA RowStep ==
    ASSUME TypeOK, [Next]_vars, NEW p \in Pairs, Granted(p)
    PROVE  /\ Granted(p)'
           /\ Accepted(p) /\ ~Accepted(p)' => ~Exists(p)' /\ EndsFollow(p)
<1>1. CASE UNCHANGED <<following, severed>>
    BY <1>1 DEF Granted, Accepted
<1>2. ASSUME NEW w \in Workers, NEW q \in Pairs, InboxAccept(w, q)
      PROVE  Granted(p)' /\ (Accepted(p) => Accepted(p)')
    BY <1>2, ReversePairs, AcceptKeeps DEF InboxAccept
<1>3. ASSUME NEW w \in Workers, Continue(w)
      PROVE  /\ Granted(p)'
             /\ Accepted(p) /\ ~Accepted(p)' => ~Exists(p)' /\ EndsFollow(p)
    <2>1. task[w] # Idle
        BY <1>3 DEF Continue, FollowLookup, FollowInsert, UnfollowRemove, BlockSeverOut,
            BlockSeverIn, StorePending, StoreAccepted, Reread, Reply, AuthorizeAccept,
            RejectRemove, MoveFollowers, MoveFollowing, At, Idle
    <2>2. task[w].pair \in Pairs
        BY <2>1, BusyTask
    <2>3. CASE UnfollowRemove(w)
        BY <2>2, <2>3, RemoveEnds DEF UnfollowRemove, EndsFollow
    <2>4. CASE BlockSeverOut(w)
        BY <2>2, <2>4, RemoveEnds DEF BlockSeverOut, EndsFollow
    <2>5. CASE BlockSeverIn(w)
        <3>1. task[w].pair = Reverse(Reverse(task[w].pair))
            BY <2>2, ReversePairs
        <3> QED
            BY <2>2, <2>5, <3>1, ReversePairs, RemoveEnds DEF BlockSeverIn, EndsFollow
    <2>6. CASE AuthorizeAccept(w)
        BY <2>2, <2>6, AcceptKeeps DEF AuthorizeAccept
    <2>7. CASE FollowLookup(w) \/ Reread(w) \/ Reply(w)
        BY <1>1, <2>7 DEF FollowLookup, Reread, Reply, database, history
    <2>8. CASE FollowInsert(w) \/ StorePending(w)
        BY <2>2, <2>8 DEF FollowInsert, StorePending, SetRow, Granted, Accepted, Exists,
            TypeOK, history
    <2>9. CASE StoreAccepted(w)
        BY <2>2, <2>9 DEF StoreAccepted, SetRow, RecordAccepted, Granted, Accepted,
            TypeOK, history
    <2>10. CASE RejectRemove(w)
        BY <2>2, <2>10 DEF RejectRemove, SetRow, RecordRemoved, Granted, Accepted,
            TypeOK, history
    <2>11. CASE MoveFollowers(w) \/ MoveFollowing(w)
        <3>1. task[w].pair[2] \in Actors
            BY <2>2 DEF Pairs
        <3>2. UNCHANGED <<database, history>> \/ \E rows \in SUBSET Pairs : ImportRows(rows)
            BY <2>11, <3>1, BatchesAreRows DEF MoveFollowers, MoveFollowing
        <3> QED
            BY <1>1, <3>2, ImportKeeps DEF database, history
    <2> QED
        BY <1>3, <2>3, <2>4, <2>5, <2>6, <2>7, <2>8, <2>9, <2>10, <2>11 DEF Continue
<1>4. ASSUME NEW w \in Workers, NEW q \in Pairs,
             \/ BeginFollow(w, q) \/ BeginUnfollow(w, q) \/ BeginBlock(w, q)
             \/ Unblock(w, q) \/ BeginInboxFollow(w, q)
             \/ BeginAuthorize(w, q) \/ BeginReject(w, q) \/ BeginMove(w, q)
      PROVE  UNCHANGED <<following, severed>>
    BY <1>4 DEF BeginFollow, BeginUnfollow, BeginBlock, Unblock, BeginInboxFollow,
        BeginAuthorize, BeginReject, BeginMove, database, history
<1>5. ASSUME NEW w \in Workers, Fail(w)
      PROVE  UNCHANGED <<following, severed>>
    BY <1>5 DEF Fail, database
<1>6. UNCHANGED vars => UNCHANGED <<following, severed>>
    BY DEF vars, database, history
<1> QED
    BY <1>1, <1>2, <1>3, <1>4, <1>5, <1>6 DEF Next, Arrive

\* An accepted follow ends only by an unfollow or a block of its parties, and its
\* row is then gone: it never falls back to a request.
THEOREM FollowsEndByTheirParties == Spec => FollowEndsByItsParties
<1>1. TypeOK /\ [Next]_vars =>
         [\A p \in Pairs :
            Accepted(p) /\ ~Accepted(p)' => ~Exists(p)' /\ EndsFollow(p)]_vars
    BY RowStep DEF Granted
<1> QED
    BY <1>1, TypeCorrect, PTL DEF Spec, FollowEndsByItsParties

\* A worker that is about to reply works on a granted follow, after every step.
LEMMA GrantStep == TypeOK /\ AcceptIsGranted /\ [Next]_vars => AcceptIsGranted'
<1> SUFFICES ASSUME TypeOK, AcceptIsGranted, [Next]_vars,
                    NEW w \in Workers, At(w, "reply")'
             PROVE  Granted(task[w].pair)'
    BY DEF AcceptIsGranted, Granted
<1>1. CASE task'[w] = task[w]
    <2>1. At(w, "reply") /\ task[w] # Idle
        BY <1>1 DEF At, Idle
    <2>2. task[w].pair \in Pairs /\ Granted(task[w].pair)
        BY <2>1, BusyTask DEF AcceptIsGranted, Granted
    <2> QED
        BY <1>1, <2>2, RowStep DEF Granted, Accepted
<1>2. CASE task'[w] # task[w]
    <2>1. \A v \in Workers \ {w} : ~Continue(v) \/ task'[w] = task[w]
        BY DEF Continue, FollowLookup, FollowInsert, UnfollowRemove, BlockSeverOut,
            BlockSeverIn, StorePending, StoreAccepted, Reread, Reply, AuthorizeAccept,
            RejectRemove, MoveFollowers, MoveFollowing, Goto, Finish, TypeOK
    <2>2. \A v \in Workers : ~Fail(v)
        BY <1>2 DEF Fail, Finish, TypeOK, At, Idle
    <2>3. \A v \in Workers : ~Arrive(v)
        BY <1>2 DEF Arrive, BeginFollow, BeginUnfollow, BeginBlock, Unblock,
            BeginInboxFollow, InboxAccept, BeginAuthorize, BeginReject, BeginMove, Begin,
            Goto, TypeOK, At
    <2>4. Continue(w)
        BY <1>2, <2>1, <2>2, <2>3 DEF Next, vars
    <2>5. task[w].pair \in Pairs /\ task'[w].pair = task[w].pair
          /\ (StoreAccepted(w) \/ Reread(w) \/ AuthorizeAccept(w))
        <3>1. task[w] # Idle
            BY <2>4 DEF Continue, FollowLookup, FollowInsert, UnfollowRemove, BlockSeverOut,
                BlockSeverIn, StorePending, StoreAccepted, Reread, Reply, AuthorizeAccept,
                RejectRemove, MoveFollowers, MoveFollowing, At, Idle
        <3>2. StoreAccepted(w) \/ Reread(w) \/ AuthorizeAccept(w)
            BY <1>2, <2>4 DEF Continue, FollowLookup, FollowInsert, UnfollowRemove,
                BlockSeverOut, BlockSeverIn, StorePending, Reply, RejectRemove,
                MoveFollowers, MoveFollowing, Goto, Finish, Idle, At, TypeOK
        <3>3. task'[w].pair = task[w].pair
            BY <3>2 DEF StoreAccepted, Reread, AuthorizeAccept, Goto, Finish, Idle, At, TypeOK
        <3> QED
            BY <3>1, <3>2, <3>3, BusyTask
    <2>6. Accepted(task[w].pair)'
        BY <2>5 DEF StoreAccepted, Reread, AnswersAgain, AuthorizeAccept, AcceptFollowing,
            Acceptable, SetRow, Accepted, Goto, Finish, Idle, At, TypeOK, database
    <2> QED
        BY <2>6 DEF Granted
<1> QED
    BY <1>1, <1>2

\* No Accept leaves for a follow that was not granted, whatever rejected or blocked
\* the request while its handler was on its way.
THEOREM AcceptsAreGranted == Spec => []AcceptIsGranted
<1>1. Init => AcceptIsGranted
    BY DEF Init, AcceptIsGranted, At, Idle
<1> QED
    BY <1>1, TypeCorrect, GrantStep, PTL DEF Spec

-----------------------------------------------------------------------------
(* The interaction_count.  InteractionCountSound alone is not inductive: the      *)
(* upsert of an inbox Follow accepts a row and counts nothing, which is right     *)
(* because its followee is a local account.  That a worker about to run it works  *)
(* for such a Follow is the strengthening.                                        *)

StoresForLocals == \A w \in Workers : At(w, "store") => task[w].pair[2] \in Locals

\* Only an inbox Follow, whose target is a local account, leads to the upsert.
LEMMA StoreStep == TypeOK /\ StoresForLocals /\ [Next]_vars => StoresForLocals'
<1> SUFFICES ASSUME TypeOK, StoresForLocals, [Next]_vars,
                    NEW w \in Workers, At(w, "store")'
             PROVE  task'[w].pair[2] \in Locals
    BY DEF StoresForLocals
<1>1. CASE task'[w] = task[w]
    BY <1>1 DEF StoresForLocals, At
<1>2. CASE task'[w] # task[w]
    <2>1. \A v \in Workers : ~Continue(v)
        BY <1>2 DEF Continue, FollowLookup, FollowInsert, UnfollowRemove, BlockSeverOut,
            BlockSeverIn, StorePending, StoreAccepted, Reread, Reply, AuthorizeAccept,
            RejectRemove, MoveFollowers, MoveFollowing, Goto, Finish, Idle, At, TypeOK
    <2>2. \A v \in Workers : ~Fail(v)
        BY <1>2 DEF Fail, Finish, TypeOK, At, Idle
    <2>3. PICK p \in Pairs : BeginInboxFollow(w, p)
        BY <1>2, <2>1, <2>2 DEF Next, vars, Arrive, BeginFollow, BeginUnfollow, BeginBlock,
            Unblock, InboxAccept, BeginAuthorize, BeginReject, BeginMove, BeginInboxFollow,
            Begin, Goto, TypeOK, At
    <2>4. [kind |-> "Follow", pair |-> p] \in Request
        BY <2>3, RequestsAssumption DEF BeginInboxFollow, Begin, Requested
    <2>5. p[2] \in Locals
        BY <2>4 DEF Request, Inbound, Outbound, NotSelf
    <2> QED
        BY <2>3, <2>5 DEF BeginInboxFollow, Begin, Goto, TypeOK
<1> QED
    BY <1>1, <1>2

Followers(r) == Cardinality(AcceptedFollowers(r))

\* The followers of an actor are finitely many, so that they can be counted.
LEMMA FollowersFinite ==
    ASSUME NEW r
    PROVE  /\ IsFiniteSet(AcceptedFollowers(r))
           /\ IsFiniteSet(AcceptedFollowers(r)')
           /\ Followers(r) \in Nat
           /\ Followers(r)' \in Nat
<1>1. AcceptedFollowers(r) \subseteq Actors /\ AcceptedFollowers(r)' \subseteq Actors
    BY DEF AcceptedFollowers
<1>2. IsFiniteSet(AcceptedFollowers(r)) /\ IsFiniteSet(AcceptedFollowers(r)')
    BY <1>1, ActorsAssumption, FS_Subset
<1> QED
    BY <1>2, FS_CardinalityType DEF Followers

\* Where a step changes no accepted row and no counter of r, the count of r stays right.
CountRight(r) ==
    /\ interactionCount[r] <= Followers(r)
    /\ r \notin miscounted => interactionCount[r] = Followers(r)

\* acceptFollowing counts the follower that it adds.
LEMMA AcceptCounts ==
    ASSUME TypeOK, NEW q \in Pairs, NEW r \in Remotes, AcceptFollowing(q), CountRight(r)
    PROVE  CountRight(r)'
<1>1. interactionCount[r] \in Nat /\ miscounted' = miscounted
    BY DEF TypeOK, AcceptFollowing, RecordAccepted, history
<1>2. CASE Acceptable(q) /\ q[2] = r
    <2>1. interactionCount'[r] = interactionCount[r] + 1
        BY <1>2 DEF TypeOK, AcceptFollowing, CountsPendingRow, Acceptable
    <2>2. AcceptedFollowers(r)' = AcceptedFollowers(r) \cup {q[1]} /\ q[1] \notin AcceptedFollowers(r)
        BY <1>2 DEF TypeOK, AcceptFollowing, Acceptable, SetRow, AcceptedFollowers, Accepted,
            Pairs, Actors
    <2>3. Followers(r)' = Followers(r) + 1
        BY <2>2, FollowersFinite, FS_AddElement DEF Followers
    <2> QED
        BY <1>1, <2>1, <2>3, FollowersFinite DEF CountRight
<1>3. CASE ~(Acceptable(q) /\ q[2] = r)
    <2>1. interactionCount'[r] = interactionCount[r]
        BY <1>3 DEF TypeOK, AcceptFollowing, CountsPendingRow, Acceptable
    <2>2. AcceptedFollowers(r)' = AcceptedFollowers(r)
        BY <1>3 DEF TypeOK, AcceptFollowing, Acceptable, SetRow, AcceptedFollowers, Accepted,
            Pairs, Actors
    <2> QED
        BY <1>1, <2>1, <2>2 DEF CountRight, Followers
<1> QED
    BY <1>2, <1>3

\* removeFollowing takes off the count the accepted follower that it removes.
LEMMA RemoveCounts ==
    ASSUME TypeOK, NEW q \in Pairs, NEW r \in Remotes, RemoveFollowing(q), CountRight(r)
    PROVE  CountRight(r)'
<1>1. interactionCount[r] \in Nat /\ miscounted' = miscounted
    BY DEF TypeOK, RemoveFollowing, RecordRemoved
<1>2. CASE Accepted(q) /\ q[2] = r
    <2>1. interactionCount'[r] = Decremented(interactionCount[r])
        BY <1>2 DEF TypeOK, RemoveFollowing
    <2>2. AcceptedFollowers(r)' = AcceptedFollowers(r) \ {q[1]} /\ q[1] \in AcceptedFollowers(r)
        BY <1>2 DEF TypeOK, RemoveFollowing, SetRow, AcceptedFollowers, Accepted, Pairs, Actors
    <2>3. Followers(r)' = Followers(r) - 1
        BY <2>2, FollowersFinite, FS_RemoveElement DEF Followers
    <2> QED
        BY <1>1, <2>1, <2>3, FollowersFinite DEF CountRight, Decremented
<1>3. CASE ~(Accepted(q) /\ q[2] = r)
    <2>1. interactionCount'[r] = interactionCount[r]
        BY <1>3 DEF TypeOK, RemoveFollowing
    <2>2. AcceptedFollowers(r)' = AcceptedFollowers(r)
        BY <1>3 DEF TypeOK, RemoveFollowing, SetRow, AcceptedFollowers, Accepted, Pairs, Actors
    <2> QED
        BY <1>1, <2>1, <2>2 DEF CountRight, Followers
<1> QED
    BY <1>2, <1>3

\* An imported follower is not counted, and its followee is then marked as miscounted.
LEMMA ImportMiscounts ==
    ASSUME TypeOK, NEW rows \in SUBSET Pairs, NEW r \in Remotes, ImportRows(rows), CountRight(r)
    PROVE  CountRight(r)'
<1>1. interactionCount'[r] = interactionCount[r] /\ interactionCount[r] \in Nat
    BY DEF TypeOK, ImportRows
<1>2. AcceptedFollowers(r) \subseteq AcceptedFollowers(r)'
    BY DEF TypeOK, ImportRows, AcceptedFollowers, Accepted, Exists, Pairs, Actors
<1>3. Followers(r) <= Followers(r)'
    BY <1>2, FollowersFinite, FS_Subset DEF Followers
<1>4. r \notin miscounted' => r \notin miscounted /\ AcceptedFollowers(r)' = AcceptedFollowers(r)
    BY DEF TypeOK, ImportRows, AcceptedFollowers, Accepted, Exists, Pairs, Actors
<1> QED
    BY <1>1, <1>3, <1>4, FollowersFinite DEF CountRight, Followers

\* Every step keeps the count of every remote actor right.
LEMMA CountStep ==
    ASSUME TypeOK, StoresForLocals, [Next]_vars, NEW r \in Remotes, CountRight(r)
    PROVE  CountRight(r)'
<1>1. ASSUME UNCHANGED <<interactionCount, miscounted>>,
             \A p \in Pairs : p[2] = r => (Accepted(p)' <=> Accepted(p))
      PROVE  CountRight(r)'
    <2>1. AcceptedFollowers(r)' = AcceptedFollowers(r)
        BY <1>1 DEF AcceptedFollowers, Pairs, Actors
    <2> QED
        BY <1>1, <2>1 DEF CountRight, Followers
<1>2. ASSUME UNCHANGED <<following, interactionCount, miscounted>>
      PROVE  CountRight(r)'
    BY <1>1, <1>2 DEF Accepted
<1>3. ASSUME NEW w \in Workers, NEW q \in Pairs, InboxAccept(w, q)
      PROVE  CountRight(r)'
    BY <1>3, ReversePairs, AcceptCounts DEF InboxAccept
<1>4. ASSUME NEW w \in Workers, Continue(w)
      PROVE  CountRight(r)'
    <2>1. task[w] # Idle
        BY <1>4 DEF Continue, FollowLookup, FollowInsert, UnfollowRemove, BlockSeverOut,
            BlockSeverIn, StorePending, StoreAccepted, Reread, Reply, AuthorizeAccept,
            RejectRemove, MoveFollowers, MoveFollowing, At, Idle
    <2>2. task[w].pair \in Pairs
        BY <2>1, BusyTask
    <2>3. CASE UnfollowRemove(w) \/ BlockSeverOut(w) \/ BlockSeverIn(w)
        BY <2>2, <2>3, ReversePairs, RemoveCounts DEF UnfollowRemove, BlockSeverOut, BlockSeverIn
    <2>4. CASE AuthorizeAccept(w)
        BY <2>2, <2>4, AcceptCounts DEF AuthorizeAccept
    <2>5. CASE FollowLookup(w) \/ Reread(w) \/ Reply(w)
        BY <1>2, <2>5 DEF FollowLookup, Reread, Reply, database, history
    <2>6. CASE FollowInsert(w) \/ StorePending(w)
        <3>1. \A p \in Pairs : Accepted(p)' <=> Accepted(p)
            BY <2>2, <2>6 DEF FollowInsert, StorePending, SetRow, Accepted, Exists, TypeOK
        <3> QED
            BY <1>1, <2>6, <3>1 DEF FollowInsert, StorePending, history
    <2>7. CASE StoreAccepted(w)
        <3>1. task[w].pair[2] # r
            BY <2>7, ActorsAssumption DEF StoreAccepted, StoresForLocals
        <3>2. \A p \in Pairs : p[2] = r => (Accepted(p)' <=> Accepted(p))
            BY <2>2, <2>7, <3>1 DEF StoreAccepted, SetRow, Accepted, TypeOK
        <3> QED
            BY <1>1, <2>7, <3>2 DEF StoreAccepted, RecordAccepted, history
    <2>8. CASE RejectRemove(w)
        <3>1. \A p \in Pairs : Accepted(p)' <=> Accepted(p)
            BY <2>2, <2>8 DEF RejectRemove, SetRow, Accepted, TypeOK
        <3> QED
            BY <1>1, <2>8, <3>1 DEF RejectRemove, RecordRemoved, history
    <2>9. CASE MoveFollowers(w) \/ MoveFollowing(w)
        <3>1. task[w].pair[2] \in Actors
            BY <2>2 DEF Pairs
        <3>2. UNCHANGED <<database, history>> \/ \E rows \in SUBSET Pairs : ImportRows(rows)
            BY <2>9, <3>1, BatchesAreRows DEF MoveFollowers, MoveFollowing
        <3> QED
            BY <1>2, <3>2, ImportMiscounts DEF database, history
    <2> QED
        BY <1>4, <2>3, <2>4, <2>5, <2>6, <2>7, <2>8, <2>9 DEF Continue
<1>5. ASSUME NEW w \in Workers, NEW q \in Pairs,
             \/ BeginFollow(w, q) \/ BeginUnfollow(w, q) \/ BeginBlock(w, q)
             \/ Unblock(w, q) \/ BeginInboxFollow(w, q)
             \/ BeginAuthorize(w, q) \/ BeginReject(w, q) \/ BeginMove(w, q)
      PROVE  UNCHANGED <<following, interactionCount, miscounted>>
    BY <1>5 DEF BeginFollow, BeginUnfollow, BeginBlock, Unblock, BeginInboxFollow,
        BeginAuthorize, BeginReject, BeginMove, database, history
<1>6. ASSUME NEW w \in Workers, Fail(w)
      PROVE  UNCHANGED <<following, interactionCount, miscounted>>
    BY <1>6 DEF Fail, database
<1>7. UNCHANGED vars => UNCHANGED <<following, interactionCount, miscounted>>
    BY DEF vars, database, history
<1> QED
    BY <1>2, <1>3, <1>4, <1>5, <1>6, <1>7 DEF Next, Arrive

CountInv == TypeOK /\ StoresForLocals /\ InteractionCountSound

\* The interaction_count of a remote actor never exceeds the number of its accepted
\* followers, and is equal to it unless a Move added some.
THEOREM InteractionCountsAreSound == Spec => []InteractionCountSound
<1>1. Init => CountInv
    <2> SUFFICES ASSUME Init PROVE CountInv
        OBVIOUS
    <2>1. TypeOK /\ StoresForLocals
        BY DEF Init, TypeOK, Task, Idle, StoresForLocals, At
    <2>2. \A r \in Remotes : AcceptedFollowers(r) = {} /\ interactionCount[r] = 0
        BY DEF Init, AcceptedFollowers, Accepted, Pairs, Actors
    <2>3. \A r \in Remotes : Cardinality(AcceptedFollowers(r)) = 0
        BY <2>2, FS_EmptySet
    <2> QED
        BY <2>1, <2>2, <2>3 DEF CountInv, InteractionCountSound
<1>2. CountInv /\ [Next]_vars => CountInv'
    <2> SUFFICES ASSUME CountInv, [Next]_vars PROVE CountInv'
        OBVIOUS
    <2>1. TypeOK' /\ StoresForLocals'
        BY TypeStep, StoreStep DEF CountInv
    <2>2. \A r \in Remotes : CountRight(r)'
        BY CountStep DEF CountInv, InteractionCountSound, CountRight, Followers
    <2> QED
        BY <2>1, <2>2 DEF CountInv, InteractionCountSound, CountRight, Followers
<1>3. CountInv => InteractionCountSound
    BY DEF CountInv
<1> QED
    BY <1>1, <1>2, <1>3, PTL DEF Spec
=============================================================================
