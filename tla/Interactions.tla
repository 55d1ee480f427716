----------------------------- MODULE Interactions -----------------------------
(***************************************************************************)
(* Favourites, bookmarks and reblogs of notes, with the two counters that   *)
(* the rows of objects carry: reblogs_count, and interaction_count, which   *)
(* keeps a remote note from being cleaned up while a local account has      *)
(* interacted with it.                                                      *)
(*                                                                          *)
(* As in FollowGraph, a handler runs on a worker and is cut at its database *)
(* calls.  A favourite and a bookmark count themselves in the batch that    *)
(* inserts the row, and recount in a statement of its own; a reblog is only *)
(* recounted.  A reblog is two rows, inserted one after the other.          *)
(*                                                                          *)
(* Left out: who may see a note (Timelines), and the notifications.         *)
(***************************************************************************)
EXTENDS Integers, FiniteSets

CONSTANTS
    Locals,             \* actors with a row in users
    Remotes,            \* cached actors of other instances
    Notes,              \* the rows of objects that there may be
    RemoteNotes,        \* those with local = 0
    LocalActivities,    \* ids for the Announces of local actors, each used once
    Announces,          \* ids of the Announces that peers send, any number of times
    AnnounceOf,         \* the actor and the note of such an Announce
    OutboxIds,          \* ids for rows of outbox_objects that announce a note
    Workers,
    None

Actors     == Locals \cup Remotes
Pairs      == Actors \X Notes
Activities == LocalActivities \cup Announces

ASSUME InteractionsAssumption ==
    /\ IsFiniteSet(Actors) /\ IsFiniteSet(Notes)
    /\ Locals \cap Remotes = {}
    /\ RemoteNotes \subseteq Notes
    /\ LocalActivities \cap Announces = {}
    /\ AnnounceOf \in [Announces -> Remotes \X Notes]
    /\ None \notin Pairs \cup Activities \cup OutboxIds

VARIABLES
    notes,              \* the objects that exist
    favourites,         \* rows of actor_favourites
    bookmarks,          \* rows of bookmarks
    reblogs,            \* the row of actor_reblogs of a pair, or NoReblog
    outbox,             \* the pair that a row of outbox_objects announces, or None
    activities,         \* rows of actor_activities that are Announces
    reblogsCount,       \* objects.reblogs_count
    interactionCount,   \* objects.interaction_count
    task,               \* what a worker is about to do
    \* History: no handler reads the variables below.
    spent,              \* ids of LocalActivities that were given out
    uncounted,          \* notes whose recount died with its handler
    orphaned,           \* outbox rows whose handler died before it had a reblog for them
    undone              \* Announces of local actors for which an Undo was handed out

rows     == <<favourites, bookmarks, reblogs, outbox, activities>>
counters == <<reblogsCount, interactionCount>>
history  == <<spent, uncounted, orphaned, undone>>
vars     == <<notes, rows, counters, task, history>>

NoReblog == [activity |-> None, outbox |-> None]
Reblog   == [activity : Activities, outbox : OutboxIds] \cup {NoReblog}

Stages == {"recount", "announce", "insert", "recountInserted", "compensate", "deliver",
           "select", "remove", "recountRemoved", "undo"}

Idle == [at |-> "idle", pair |-> None, activity |-> None, outbox |-> None, found |-> FALSE]
Task == [at : Stages, pair : Pairs, activity : Activities \cup {None},
         outbox : OutboxIds \cup {None}, found : BOOLEAN] \cup {Idle}

TypeOK ==
    /\ notes \subseteq Notes
    /\ favourites \subseteq Pairs
    /\ bookmarks \subseteq Locals \X Notes
    /\ reblogs \in [Pairs -> Reblog]
    /\ outbox \in [OutboxIds -> Pairs \cup {None}]
    /\ activities \subseteq LocalActivities
    /\ reblogsCount \in [Notes -> Nat]
    /\ interactionCount \in [Notes -> Nat]
    /\ task \in [Workers -> Task]
    /\ spent \subseteq LocalActivities
    /\ uncounted \subseteq Notes
    /\ orphaned \subseteq OutboxIds
    /\ undone \subseteq LocalActivities

Init ==
    /\ notes = Notes
    /\ favourites = {}
    /\ bookmarks = {}
    /\ reblogs = [p \in Pairs |-> NoReblog]
    /\ outbox = [i \in OutboxIds |-> None]
    /\ activities = {}
    /\ reblogsCount = [n \in Notes |-> 0]
    /\ interactionCount = [n \in Notes |-> 0]
    /\ task = [w \in Workers |-> Idle]
    /\ spent = {}
    /\ uncounted = {}
    /\ orphaned = {}
    /\ undone = {}

-----------------------------------------------------------------------------
(* Rows and counters. *)

Local(p)      == p[1] \in Locals
Reblogged(p)  == reblogs[p] # NoReblog
NoteOf(p)     == p[2]
RebloggersOf(n) == {a \in Actors : Reblogged(<<a, n>>)}

\* The rows that remoteInteractionCountSql counts: those of users only.
LocalFavouritesOf(n) == {a \in Locals : <<a, n>> \in favourites}
LocalBookmarksOf(n)  == {a \in Locals : <<a, n>> \in bookmarks}
LocalRebloggersOf(n) == {a \in Locals : Reblogged(<<a, n>>)}

LocalInteractions(n) ==
    Cardinality(LocalRebloggersOf(n)) + Cardinality(LocalFavouritesOf(n))
        + Cardinality(LocalBookmarksOf(n))

\* The second statement of the batches counts rows of users on remote notes only.
Counts(p) == Local(p) /\ NoteOf(p) \in RemoteNotes

\* Mutant of Incremented: a row that was there already counts again.
IncrementedTwice(p, isNew) ==
    [interactionCount EXCEPT ![NoteOf(p)] = IF Counts(p) THEN @ + 1 ELSE @]

\* The UPDATE of insertLike and insertBookmark: only when this call inserted the row.
Incremented(p, isNew) ==
    [interactionCount EXCEPT ![NoteOf(p)] = IF Counts(p) /\ isNew THEN @ + 1 ELSE @]

\* Mutant of Decremented: without the test that there is a row to delete.
DecrementedBlindly(p, exists) ==
    [interactionCount EXCEPT ![NoteOf(p)] = IF Counts(p) /\ @ > 0 THEN @ - 1 ELSE @]

\* Mutant of Decremented: without that test and without MAX(0, ...).
DecrementedBelowZero(p, exists) ==
    [interactionCount EXCEPT ![NoteOf(p)] = IF Counts(p) THEN @ - 1 ELSE @]

\* The UPDATE of deleteLike and deleteBookmark: MAX(0, interaction_count - 1).
Decremented(p, exists) ==
    [interactionCount EXCEPT ![NoteOf(p)] = IF Counts(p) /\ exists /\ @ > 0 THEN @ - 1 ELSE @]

\* refreshRemoteObjectInteractionCount; a note that is gone is not updated.
Recount(n) ==
    /\ interactionCount' = [interactionCount EXCEPT ![n] =
           IF n \in RemoteNotes \cap notes THEN LocalInteractions(n) ELSE @]
    /\ UNCHANGED reblogsCount

\* refreshReblogAndRemoteInteractionCounts
RecountReblogs(n) ==
    /\ interactionCount' = [interactionCount EXCEPT ![n] =
           IF n \in RemoteNotes \cap notes THEN LocalInteractions(n) ELSE @]
    /\ reblogsCount' = [reblogsCount EXCEPT ![n] =
           IF n \in notes THEN Cardinality(RebloggersOf(n)) ELSE @]

-----------------------------------------------------------------------------
(* Workers. *)

At(w, stage) == task[w].at = stage
Stay(w, t)   == task' = [task EXCEPT ![w] = t]
Goto(w, stage) == Stay(w, [task[w] EXCEPT !.at = stage])
Finish(w)    == Stay(w, Idle)

\* A handler finds the note and goes on to its first statement that writes.
Begin(w, p, stage, activity) ==
    /\ task[w] = Idle
    /\ NoteOf(p) \in notes
    /\ Stay(w, [Idle EXCEPT !.at = stage, !.pair = p, !.activity = activity])

-----------------------------------------------------------------------------
(* Favourites and bookmarks. *)

\* A handler finds the note and runs its batch.  In between the note may go: the foreign
\* key fails then, or there is no row to delete, and nothing is written.
Batch(w, p) ==
    /\ Begin(w, p, "recount", None)
    /\ UNCHANGED <<notes, reblogs, outbox, activities, reblogsCount, history>>

\* The batch of insertLike.
InsertLike(w, p) ==
    /\ Batch(w, p)
    /\ favourites' = favourites \cup {p}
    /\ interactionCount' = Incremented(p, p \notin favourites)
    /\ UNCHANGED bookmarks

\* The batch of deleteLike.
DeleteLike(w, p) ==
    /\ Batch(w, p)
    /\ interactionCount' = Decremented(p, p \in favourites)
    /\ favourites' = favourites \ {p}
    /\ UNCHANGED bookmarks

\* The batch of insertBookmark.
InsertBookmark(w, p) ==
    /\ Batch(w, p)
    /\ bookmarks' = bookmarks \cup {p}
    /\ interactionCount' = Incremented(p, p \notin bookmarks)
    /\ UNCHANGED favourites

\* The batch of deleteBookmark.
DeleteBookmark(w, p) ==
    /\ Batch(w, p)
    /\ interactionCount' = Decremented(p, p \in bookmarks)
    /\ bookmarks' = bookmarks \ {p}
    /\ UNCHANGED favourites

\* The routes, each for the account that is logged in, and the inbox handler.  A Like is
\* delivered, at most once, when the row is new; the Undo of a Like is neither sent nor
\* handled.
Favourite(w, p)   == Local(p) /\ InsertLike(w, p)
Unfavourite(w, p) == Local(p) /\ DeleteLike(w, p)
Bookmark(w, p)    == Local(p) /\ InsertBookmark(w, p)
Unbookmark(w, p)  == Local(p) /\ DeleteBookmark(w, p)
HandleLike(w, p)  == ~Local(p) /\ InsertLike(w, p)

\* The last statement of all five.  What follows it writes nothing.
RecountInteractions(w) ==
    LET n == NoteOf(task[w].pair) IN
    /\ At(w, "recount")
    /\ Recount(n)
    /\ Finish(w)
    /\ UNCHANGED <<notes, rows, history>>

-----------------------------------------------------------------------------
(* Reblogs. *)

\* reblog.ts: hasReblog; then insertActivity gives the Announce its id.
BeginReblog(w) ==
    /\ \E p \in Locals \X Notes, a \in LocalActivities \ spent :
          /\ ~Reblogged(p)
          /\ Begin(w, p, "announce", a)
          /\ activities' = activities \cup {a}
          /\ spent' = spent \cup {a}
    /\ UNCHANGED <<notes, favourites, bookmarks, reblogs, outbox, counters, uncounted,
                   orphaned, undone>>

\* handleAnnounceActivity: hasReblog.
HandleAnnounce(w) ==
    /\ \E a \in Announces :
          /\ ~Reblogged(AnnounceOf[a])
          /\ Begin(w, AnnounceOf[a], "announce", a)
    /\ UNCHANGED <<notes, rows, counters, history>>

\* addObjectInOutbox takes a random id.
Fresh(i) == outbox[i] = None /\ \A w \in Workers : task[w].outbox # i

AddObjectInOutbox(w) ==
    /\ At(w, "announce")
    /\ NoteOf(task[w].pair) \in notes
    /\ \E i \in OutboxIds :
          /\ Fresh(i)
          /\ outbox' = [outbox EXCEPT ![i] = task[w].pair]
          /\ Stay(w, [task[w] EXCEPT !.at = "insert", !.outbox = i])
    /\ UNCHANGED <<notes, favourites, bookmarks, reblogs, activities, counters, history>>

\* Mutant of Ignored: without the unique index on actor and object the newer row wins.
IgnoredById(p, a) == \E q \in Pairs : reblogs[q].activity = a

\* INSERT OR IGNORE: the id of the activity is the primary key, and one actor may have
\* one row for a note.
Ignored(p, a) == Reblogged(p) \/ \E q \in Pairs : reblogs[q].activity = a

\* insertReblog.  The foreign keys fail when the note or the outbox row is gone.
InsertReblog(w) ==
    LET t == task[w] IN
    /\ At(w, "insert")
    /\ NoteOf(t.pair) \in notes
    /\ outbox[t.outbox] = t.pair
    /\ IF Ignored(t.pair, t.activity)
       THEN /\ Stay(w, [t EXCEPT !.at = "recountInserted", !.found = FALSE])
            /\ UNCHANGED reblogs
       ELSE /\ Stay(w, [t EXCEPT !.at = "recountInserted", !.found = TRUE])
            /\ reblogs' = [reblogs EXCEPT ![t.pair] =
                   [activity |-> t.activity, outbox |-> t.outbox]]
    /\ UNCHANGED <<notes, favourites, bookmarks, outbox, activities, counters, history>>

\* The second statement of insertReblog, whether it inserted a row or not.
RecountInserted(w) ==
    LET t == task[w] IN
    /\ At(w, "recountInserted")
    /\ RecountReblogs(NoteOf(t.pair))
    /\ uncounted' = uncounted \ {NoteOf(t.pair)}
    /\ Stay(w, IF t.found THEN [t EXCEPT !.at = "deliver", !.outbox = None]
               ELSE [t EXCEPT !.at = "compensate"])
    /\ UNCHANGED <<notes, rows, spent, orphaned, undone>>

\* Mutant of Compensated: the row of the activity is deleted, the outbox row stays.
CompensatedInPart(i) == outbox

\* The batch of createReblog when the row was there already.
Compensated(i) == [outbox EXCEPT ![i] = None]

Compensate(w) ==
    /\ At(w, "compensate")
    /\ outbox' = Compensated(task[w].outbox)
    /\ activities' = activities \ {task[w].activity}
    /\ Finish(w)
    /\ UNCHANGED <<notes, favourites, bookmarks, reblogs, counters, history>>

\* deliverCreatedAnnounce, which loses what it cannot deliver; or the notification of an
\* Announce of a peer.
DeliverAnnounce(w) ==
    /\ At(w, "deliver")
    /\ Finish(w)
    /\ UNCHANGED <<notes, rows, counters, history>>

-----------------------------------------------------------------------------
(* Withdrawn reblogs. *)

\* The id of the Announce, or None.
GetReblogActivity(p) == reblogs[p].activity

\* unreblog.ts reads the Announce first, and then finds and deletes the reblog.
BeginUnreblog(w) ==
    /\ \E p \in Locals \X Notes : Begin(w, p, "select", GetReblogActivity(p))
    /\ UNCHANGED <<notes, rows, counters, history>>

\* The SELECT of deleteReblogWhere, with the condition 'object_id = ?'.
SelectByNote(w) ==
    /\ At(w, "select")
    /\ IF Reblogged(task[w].pair) THEN Goto(w, "remove") ELSE Finish(w)
    /\ UNCHANGED <<notes, rows, counters, history>>

\* handleUndoActivity: the SELECT of deleteReblogWhere, with the condition 'id = ?'.
HandleUndo(w) ==
    /\ task[w] = Idle
    /\ \E a \in Announces, p \in Remotes \X Notes :
          /\ reblogs[p].activity = a
          /\ Stay(w, [Idle EXCEPT !.at = "remove", !.pair = p, !.activity = a])
    /\ UNCHANGED <<notes, rows, counters, history>>

\* The row that the batch of deleteReblogWhere will find: an Undo names it by id.
Doomed(t) == Reblogged(t.pair) /\ (Local(t.pair) \/ reblogs[t.pair].activity = t.activity)

\* The batch of deleteReblogWhere: the outbox row that the reblog names, and the reblog.
RemoveReblog(w) ==
    LET t == task[w] IN
    /\ At(w, "remove")
    /\ IF Doomed(t)
       THEN /\ outbox' = [outbox EXCEPT ![reblogs[t.pair].outbox] = None]
            /\ reblogs' = [reblogs EXCEPT ![t.pair] = NoReblog]
       ELSE UNCHANGED <<outbox, reblogs>>
    /\ Goto(w, "recountRemoved")
    /\ UNCHANGED <<notes, favourites, bookmarks, activities, counters, history>>

\* Mutant of AfterRemoval: the Undo is handed out for whatever was looked up last.
AfterRemovalStale(t) ==
    IF Local(t.pair) /\ Reblogged(t.pair)
    THEN [t EXCEPT !.at = "undo", !.activity = reblogs[t.pair].activity] ELSE Idle

\* The Undo is made from the Announce that was looked up first.
AfterRemoval(t) ==
    IF Local(t.pair) /\ t.activity # None THEN [t EXCEPT !.at = "undo"] ELSE Idle

RecountRemoved(w) ==
    LET n == NoteOf(task[w].pair) IN
    /\ At(w, "recountRemoved")
    /\ RecountReblogs(n)
    /\ uncounted' = uncounted \ {n}
    /\ Stay(w, AfterRemoval(task[w]))
    /\ UNCHANGED <<notes, rows, spent, orphaned, undone>>

\* deliverUndoAnnounce
DeliverUndo(w) ==
    /\ At(w, "undo")
    /\ undone' = undone \cup {task[w].activity}
    /\ Finish(w)
    /\ UNCHANGED <<notes, rows, counters, spent, uncounted, orphaned>>

-----------------------------------------------------------------------------
(* The end of a note, and of a handler. *)

\* deleteObjectProjectionStatements in one batch.
DeleteNote(n) ==
    /\ n \in notes
    /\ notes' = notes \ {n}
    /\ favourites' = {p \in favourites : NoteOf(p) # n}
    /\ bookmarks' = {p \in bookmarks : NoteOf(p) # n}
    /\ reblogs' = [p \in Pairs |-> IF NoteOf(p) = n THEN NoReblog ELSE reblogs[p]]
    /\ outbox' = [i \in OutboxIds |-> IF outbox[i] # None /\ NoteOf(outbox[i]) = n
                                      THEN None ELSE outbox[i]]
    /\ reblogsCount' = [reblogsCount EXCEPT ![n] = 0]
    /\ interactionCount' = [interactionCount EXCEPT ![n] = 0]
    /\ orphaned' = {i \in orphaned : NoteOf(outbox[i]) # n}
    /\ UNCHANGED <<activities, task, spent, uncounted, undone>>

\* The handler has an outbox row that no reblog names.
Owned(t) ==
    /\ t.at \in {"insert", "recountInserted", "compensate"}
    /\ ~t.found
    /\ outbox[t.outbox] # None

\* Anything awaited throws, or the isolate dies.
Fail(w) ==
    LET t == task[w] IN
    /\ t # Idle
    /\ Finish(w)
    /\ uncounted' = IF t.at \in {"recountInserted", "recountRemoved"}
                    THEN uncounted \cup {NoteOf(t.pair)} ELSE uncounted
    /\ orphaned' = orphaned \cup (IF Owned(t) THEN {t.outbox} ELSE {})
    /\ UNCHANGED <<notes, rows, counters, spent, undone>>

Next ==
    \/ \E w \in Workers :
          \/ \E p \in Pairs : \/ Favourite(w, p) \/ Unfavourite(w, p) \/ HandleLike(w, p)
                             \/ Bookmark(w, p) \/ Unbookmark(w, p)
          \/ RecountInteractions(w)
          \/ BeginReblog(w) \/ HandleAnnounce(w) \/ AddObjectInOutbox(w) \/ InsertReblog(w)
          \/ RecountInserted(w) \/ Compensate(w) \/ DeliverAnnounce(w)
          \/ BeginUnreblog(w) \/ SelectByNote(w) \/ HandleUndo(w)
          \/ RemoveReblog(w) \/ RecountRemoved(w) \/ DeliverUndo(w)
          \/ Fail(w)
    \/ \E n \in Notes : DeleteNote(n)

Spec == Init /\ [][Next]_vars

-----------------------------------------------------------------------------
(* Properties. *)

\* A remote note that users have favourited or bookmarked is never counted lower than
\* they are, whatever handlers are at work or have died: the cleanup of remote notes
\* (interaction_count = 0) cannot take it from under them.
InteractionsProtect ==
    \A n \in RemoteNotes \cap notes :
        interactionCount[n] >=
            Cardinality(LocalFavouritesOf(n)) + Cardinality(LocalBookmarksOf(n))

RecountOwed(n) ==
    \/ n \in uncounted
    \/ \E w \in Workers : /\ task[w].at \in {"recountInserted", "recountRemoved"}
                          /\ NoteOf(task[w].pair) = n

\* Both counters are exact once no handler of a reblog still has to recount, or has died
\* before it did.  Favourites and bookmarks need no such exception: their batches alone
\* keep the counter, and a recount that reads what another handler is doing puts it right.
CountersSettle ==
    \A n \in notes :
        ~RecountOwed(n) =>
            /\ reblogsCount[n] = Cardinality(RebloggersOf(n))
            /\ n \in RemoteNotes => interactionCount[n] = LocalInteractions(n)

\* A reblog has its outbox row, and, when it is local, the row of its activity, so that
\* it is in timelines and can be dereferenced.  An outbox row that announces a note has
\* a reblog, or a handler that will give it one or remove it, or lost that handler.
ReblogsArePublished ==
    /\ \A p \in Pairs : Reblogged(p) =>
          /\ outbox[reblogs[p].outbox] = p
          /\ Local(p) => reblogs[p].activity \in activities
    /\ \A i \in OutboxIds \ orphaned : outbox[i] # None =>
          \/ reblogs[outbox[i]].outbox = i
          \/ \E w \in Workers : task[w].outbox = i

\* An Undo never names a reblog that still stands: who receives it may delete the row.
UndoneIsGone ==
    \A p \in Pairs : Reblogged(p) => reblogs[p].activity \notin undone
=============================================================================
