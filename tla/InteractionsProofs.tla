---------------------------- MODULE InteractionsProofs ----------------------------
(***************************************************************************)
(* The safety of Interactions for any actors, notes, activities and number  *)
(* of workers: the types of the variables, the two counters of a note, and  *)
(* the two rows of a reblog.                                                *)
(*                                                                          *)
(* BaseInv says what a handler holds at each of its stages.  CountInv adds  *)
(* the counters.  ReblogInv adds who holds what: an activity or an outbox   *)
(* row that is not yet part of a reblog belongs to one handler.             *)
(***************************************************************************)
EXTENDS Interactions, FiniteSetTheorems, TLAPS

\* The activities that a reblog of p can have.
ActivitiesOf(p) == IF Local(p) THEN LocalActivities ELSE Announces

Holding == {"insert", "recountInserted", "compensate"}

\* What a handler at work holds at its stage.
FitsStage(t) ==
    /\ t.activity \in ActivitiesOf(t.pair) \cup {None}
    /\ t.at \in Holding \cup {"announce", "undo"} => t.activity # None
    /\ t.at = "undo" => Local(t.pair)
    /\ t.at \in Holding <=> t.outbox # None
    /\ t.found => t.at \in {"recountInserted", "deliver"}

FitTask == {t \in Task : t = Idle \/ FitsStage(t)}

BaseInv ==
    /\ TypeOK
    /\ task \in [Workers -> FitTask]
    /\ \A p \in Pairs : Reblogged(p) => reblogs[p].activity \in ActivitiesOf(p)

-----------------------------------------------------------------------------
(* Tasks. *)

LEMMA IdleFits == Idle \in FitTask
BY DEF FitTask, Task

\* A handler at a stage.
LEMMA AtWork ==
    ASSUME BaseInv, NEW w \in Workers, task[w].at \in Stages
    PROVE  /\ task[w] \in Task /\ task[w] # Idle /\ FitsStage(task[w])
           /\ task[w] \in [at : Stages, pair : Pairs, activity : Activities \cup {None},
                           outbox : OutboxIds \cup {None}, found : BOOLEAN]
           /\ task[w].pair \in Pairs /\ NoteOf(task[w].pair) \in Notes
           /\ task[w].outbox \in OutboxIds \cup {None}
           /\ task[w].at \in Holding => task[w].outbox \in OutboxIds
<1>1. task[w] \in FitTask
  BY DEF BaseInv
<1>2. task[w] # Idle
  BY DEF Idle, Stages
<1>3. task[w] \in [at : Stages, pair : Pairs, activity : Activities \cup {None},
                   outbox : OutboxIds \cup {None}, found : BOOLEAN]
  BY <1>1, <1>2 DEF FitTask, Task
<1>4. NoteOf(task[w].pair) \in Notes
  BY <1>3 DEF NoteOf, Pairs
<1> QED
  BY <1>1, <1>2, <1>3, <1>4 DEF FitTask, FitsStage

LEMMA AtFits ==
    ASSUME BaseInv, NEW w \in Workers, task[w] # Idle
    PROVE  task[w].at \in Stages
BY DEF BaseInv, FitTask, Task

\* The tasks that handlers begin with.
FirstTask(stage, p, a) == [Idle EXCEPT !.at = stage, !.pair = p, !.activity = a]

LEMMA NewTask ==
    ASSUME NEW stage \in {"recount", "announce", "select", "remove"}, NEW p \in Pairs,
           NEW a \in ActivitiesOf(p) \cup {None}, stage = "announce" => a # None
    PROVE  LET t == FirstTask(stage, p, a) IN
           /\ t \in FitTask /\ t.at = stage /\ t.pair = p /\ t.activity = a
           /\ t.outbox = None /\ ~t.found
<1> DEFINE t == FirstTask(stage, p, a)
           Tasks == [at : Stages \cup {"idle"}, pair : Pairs \cup {None},
                     activity : Activities \cup {None}, outbox : OutboxIds \cup {None},
                     found : BOOLEAN]
<1>1. Idle \in Tasks
  BY DEF Idle
<1>2. a \in Activities \cup {None}
  BY DEF ActivitiesOf, Activities
<1>3. /\ t \in Tasks /\ t.at = stage /\ t.pair = p /\ t.activity = a
      /\ t.outbox = None /\ ~t.found
  BY <1>1, <1>2 DEF FirstTask, Idle, Stages
<1>4. t \in Task /\ FitsStage(t)
  BY <1>3 DEF Task, Stages, FitsStage, Holding
<1> QED
  BY <1>3, <1>4 DEF FitTask

LEMMA StayFits ==
    ASSUME BaseInv, NEW w \in Workers, NEW t \in FitTask, Stay(w, t)
    PROVE  /\ task' \in [Workers -> FitTask] /\ task' \in [Workers -> Task]
           /\ task'[w] = t /\ \A v \in Workers : v # w => task'[v] = task[v]
BY DEF BaseInv, Stay, FitTask

LEMMA FinishFits ==
    ASSUME BaseInv, NEW w \in Workers, Finish(w)
    PROVE  /\ task' \in [Workers -> FitTask] /\ task' \in [Workers -> Task]
           /\ task'[w] = Idle /\ \A v \in Workers : v # w => task'[v] = task[v]
BY IdleFits, StayFits DEF Finish

\* The steps from one stage of a handler to the next.
LEMMA NextTask ==
    ASSUME BaseInv, NEW w \in Workers, task[w].at \in Stages
    PROVE  LET t == task[w] IN
           /\ \A i \in OutboxIds : t.at = "announce" =>
                 [t EXCEPT !.at = "insert", !.outbox = i] \in FitTask
           /\ \A b \in BOOLEAN : t.at = "insert" =>
                 [t EXCEPT !.at = "recountInserted", !.found = b] \in FitTask
           /\ t.at = "recountInserted" /\ t.found =>
                 [t EXCEPT !.at = "deliver", !.outbox = None] \in FitTask
           /\ t.at = "recountInserted" /\ ~t.found => [t EXCEPT !.at = "compensate"] \in FitTask
           /\ t.at = "select" => [t EXCEPT !.at = "remove"] \in FitTask
           /\ t.at = "remove" => [t EXCEPT !.at = "recountRemoved"] \in FitTask
           /\ t.at = "recountRemoved" /\ Local(t.pair) /\ t.activity # None =>
                 [t EXCEPT !.at = "undo"] \in FitTask
<1> DEFINE t == task[w]
           Tasks == [at : Stages, pair : Pairs, activity : Activities \cup {None},
                     outbox : OutboxIds \cup {None}, found : BOOLEAN]
<1>1. t \in Tasks /\ FitsStage(t)
  BY AtWork
<1> HIDE DEF t
<1>2. ASSUME NEW i \in OutboxIds, t.at = "announce"
      PROVE  [t EXCEPT !.at = "insert", !.outbox = i] \in FitTask
  <2> DEFINE u == [t EXCEPT !.at = "insert", !.outbox = i]
  <2>1. u \in Tasks /\ u.at = "insert" /\ u.pair = t.pair /\ u.activity = t.activity
        /\ u.outbox = i /\ u.found = t.found
    BY <1>1 DEF Stages
  <2> QED
    BY <1>1, <1>2, <2>1, InteractionsAssumption DEF FitTask, Task, FitsStage, Holding
<1>3. ASSUME NEW b \in BOOLEAN, t.at = "insert"
      PROVE  [t EXCEPT !.at = "recountInserted", !.found = b] \in FitTask
  <2> DEFINE u == [t EXCEPT !.at = "recountInserted", !.found = b]
  <2>1. u \in Tasks /\ u.at = "recountInserted" /\ u.pair = t.pair /\ u.activity = t.activity
        /\ u.outbox = t.outbox /\ u.found = b
    BY <1>1 DEF Stages
  <2> QED
    BY <1>1, <1>3, <2>1 DEF FitTask, Task, FitsStage, Holding
<1>4. ASSUME t.at = "recountInserted", t.found
      PROVE  [t EXCEPT !.at = "deliver", !.outbox = None] \in FitTask
  <2> DEFINE u == [t EXCEPT !.at = "deliver", !.outbox = None]
  <2>1. u \in Tasks /\ u.at = "deliver" /\ u.pair = t.pair /\ u.activity = t.activity
        /\ u.outbox = None /\ u.found = t.found
    BY <1>1 DEF Stages
  <2> QED
    BY <1>1, <1>4, <2>1 DEF FitTask, Task, FitsStage, Holding
<1>5. ASSUME NEW stage \in {"compensate", "remove", "recountRemoved", "undo"}
      PROVE  LET u == [t EXCEPT !.at = stage] IN
             u \in Tasks /\ u.at = stage /\ u.pair = t.pair /\ u.activity = t.activity
             /\ u.outbox = t.outbox /\ u.found = t.found
  BY <1>1 DEF Stages
<1>6. t.at = "recountInserted" /\ ~t.found => [t EXCEPT !.at = "compensate"] \in FitTask
  BY <1>1, <1>5 DEF FitTask, Task, FitsStage, Holding
<1>7. t.at = "select" => [t EXCEPT !.at = "remove"] \in FitTask
  BY <1>1, <1>5 DEF FitTask, Task, FitsStage, Holding
<1>8. t.at = "remove" => [t EXCEPT !.at = "recountRemoved"] \in FitTask
  BY <1>1, <1>5 DEF FitTask, Task, FitsStage, Holding
<1>9. t.at = "recountRemoved" /\ Local(t.pair) /\ t.activity # None =>
         [t EXCEPT !.at = "undo"] \in FitTask
  BY <1>1, <1>5 DEF FitTask, Task, FitsStage, Holding
<1> QED
  BY <1>2, <1>3, <1>4, <1>6, <1>7, <1>8, <1>9 DEF t

-----------------------------------------------------------------------------
(* Types. *)

\* How a handler begins.
LEMMA BeginFits ==
    ASSUME BaseInv, NEW w \in Workers, NEW stage \in {"recount", "announce", "select", "remove"},
           NEW p \in Pairs, NEW a \in ActivitiesOf(p) \cup {None}, stage = "announce" => a # None,
           Begin(w, p, stage, a)
    PROVE  /\ task' \in [Workers -> FitTask] /\ task' \in [Workers -> Task]
           /\ task[w] = Idle /\ NoteOf(p) \in notes
           /\ task'[w].at = stage /\ task'[w].pair = p /\ task'[w].activity = a
           /\ task'[w].outbox = None /\ ~task'[w].found
           /\ \A v \in Workers : v # w => task'[v] = task[v]
<1> DEFINE t == FirstTask(stage, p, a)
<1>1. /\ t \in FitTask /\ t.at = stage /\ t.pair = p /\ t.activity = a
      /\ t.outbox = None /\ ~t.found
  BY NewTask
<1>2. task[w] = Idle /\ NoteOf(p) \in notes /\ Stay(w, t)
  BY DEF Begin, FirstTask
<1> HIDE DEF t
<1> QED
  BY <1>1, <1>2, StayFits

\* The counts of the rows are numbers.
LEMMA CountTypes ==
    ASSUME NEW n
    PROVE  /\ Cardinality(RebloggersOf(n)) \in Nat /\ Cardinality(LocalRebloggersOf(n)) \in Nat
           /\ Cardinality(LocalFavouritesOf(n)) \in Nat /\ Cardinality(LocalBookmarksOf(n)) \in Nat
           /\ IsFiniteSet(RebloggersOf(n)) /\ IsFiniteSet(LocalRebloggersOf(n))
           /\ IsFiniteSet(LocalFavouritesOf(n)) /\ IsFiniteSet(LocalBookmarksOf(n))
           /\ LocalInteractions(n) \in Nat
<1>1. \A S : S \subseteq Actors => IsFiniteSet(S) /\ Cardinality(S) \in Nat
  BY InteractionsAssumption, FS_Subset, FS_CardinalityType
<1>2. /\ RebloggersOf(n) \subseteq Actors /\ LocalRebloggersOf(n) \subseteq Actors
      /\ LocalFavouritesOf(n) \subseteq Actors /\ LocalBookmarksOf(n) \subseteq Actors
  BY DEF RebloggersOf, LocalRebloggersOf, LocalFavouritesOf, LocalBookmarksOf, Actors
<1> QED
  BY <1>1, <1>2 DEF LocalInteractions

CounterType ==
    reblogsCount \in [Notes -> Nat] /\ interactionCount \in [Notes -> Nat]

LEMMA BatchCounters ==
    ASSUME CounterType, NEW p \in Pairs, NEW b \in BOOLEAN,
           interactionCount' = Incremented(p, b) \/ interactionCount' = Decremented(p, b)
    PROVE  /\ interactionCount' \in [Notes -> Nat]
           /\ \A n \in Notes : n # NoteOf(p) => interactionCount'[n] = interactionCount[n]
           /\ interactionCount' = Incremented(p, b) =>
                 interactionCount'[NoteOf(p)] =
                    interactionCount[NoteOf(p)] + (IF Counts(p) /\ b THEN 1 ELSE 0)
           /\ interactionCount' = Decremented(p, b) =>
                 interactionCount'[NoteOf(p)] =
                    IF Counts(p) /\ b /\ interactionCount[NoteOf(p)] > 0
                    THEN interactionCount[NoteOf(p)] - 1 ELSE interactionCount[NoteOf(p)]
<1>1. NoteOf(p) \in Notes
  BY DEF NoteOf, Pairs
<1> QED
  BY <1>1 DEF CounterType, Incremented, Decremented

LEMMA RecountCounters ==
    ASSUME CounterType, NEW n \in Notes, Recount(n) \/ RecountReblogs(n)
    PROVE  /\ CounterType'
           /\ \A m \in Notes : m # n => interactionCount'[m] = interactionCount[m]
                                       /\ reblogsCount'[m] = reblogsCount[m]
           /\ n \in RemoteNotes \cap notes => interactionCount'[n] = LocalInteractions(n)
           /\ n \in notes /\ RecountReblogs(n) =>
                 reblogsCount'[n] = Cardinality(RebloggersOf(n))
           /\ Recount(n) => UNCHANGED reblogsCount
<1>1. LocalInteractions(n) \in Nat /\ Cardinality(RebloggersOf(n)) \in Nat
  BY CountTypes
<1> QED
  BY <1>1 DEF CounterType, Recount, RecountReblogs

\* The handlers of favourites and bookmarks.
BatchStep(w, p) ==
    \/ Favourite(w, p) \/ Unfavourite(w, p) \/ HandleLike(w, p) \/ Bookmark(w, p) \/ Unbookmark(w, p)

LEMMA BatchEffect ==
    ASSUME BaseInv, NEW w \in Workers, NEW p \in Pairs, BatchStep(w, p)
    PROVE  /\ task' \in [Workers -> FitTask] /\ task' \in [Workers -> Task]
           /\ task[w] = Idle /\ NoteOf(p) \in notes
           /\ task'[w].at = "recount" /\ task'[w].pair = p /\ task'[w].activity = None
           /\ task'[w].outbox = None /\ ~task'[w].found
           /\ \A v \in Workers : v # w => task'[v] = task[v]
           /\ UNCHANGED <<notes, reblogs, outbox, activities, reblogsCount, history>>
           /\ interactionCount' \in [Notes -> Nat]
           /\ \/ /\ favourites' = favourites \cup {p} /\ bookmarks' = bookmarks
                 /\ interactionCount' = Incremented(p, p \notin favourites)
              \/ /\ favourites' = favourites \ {p} /\ bookmarks' = bookmarks
                 /\ interactionCount' = Decremented(p, p \in favourites)
              \/ /\ bookmarks' = bookmarks \cup {p} /\ favourites' = favourites /\ Local(p)
                 /\ interactionCount' = Incremented(p, p \notin bookmarks)
              \/ /\ bookmarks' = bookmarks \ {p} /\ favourites' = favourites
                 /\ interactionCount' = Decremented(p, p \in bookmarks)
<1>1. /\ Begin(w, p, "recount", None)
      /\ UNCHANGED <<notes, reblogs, outbox, activities, reblogsCount, history>>
  BY DEF BatchStep, Favourite, Unfavourite, HandleLike, Bookmark, Unbookmark, InsertLike,
     DeleteLike, InsertBookmark, DeleteBookmark, Batch
<1>2. \/ /\ favourites' = favourites \cup {p} /\ bookmarks' = bookmarks
         /\ interactionCount' = Incremented(p, p \notin favourites)
      \/ /\ favourites' = favourites \ {p} /\ bookmarks' = bookmarks
         /\ interactionCount' = Decremented(p, p \in favourites)
      \/ /\ bookmarks' = bookmarks \cup {p} /\ favourites' = favourites /\ Local(p)
         /\ interactionCount' = Incremented(p, p \notin bookmarks)
      \/ /\ bookmarks' = bookmarks \ {p} /\ favourites' = favourites
         /\ interactionCount' = Decremented(p, p \in bookmarks)
  BY DEF BatchStep, Favourite, Unfavourite, HandleLike, Bookmark, Unbookmark, InsertLike,
     DeleteLike, InsertBookmark, DeleteBookmark
<1>3. interactionCount' \in [Notes -> Nat]
  <2>1. CounterType
    BY DEF CounterType, BaseInv, TypeOK
  <2>2. \A b \in BOOLEAN : interactionCount' = Incremented(p, b) \/ interactionCount' = Decremented(p, b)
                            => interactionCount' \in [Notes -> Nat]
    BY <2>1, BatchCounters
  <2> DEFINE counted(b) ==
               interactionCount' = Incremented(p, b) \/ interactionCount' = Decremented(p, b)
  <2>3. /\ (p \notin favourites) \in BOOLEAN /\ (p \in favourites) \in BOOLEAN
        /\ (p \notin bookmarks) \in BOOLEAN /\ (p \in bookmarks) \in BOOLEAN
    OBVIOUS
  <2>4. \/ counted(p \notin favourites) \/ counted(p \in favourites)
        \/ counted(p \notin bookmarks) \/ counted(p \in bookmarks)
    BY <1>2, Zenon
  <2> QED
    BY <2>2, <2>3, <2>4, Zenon
<1> QED
  BY <1>1, <1>2, <1>3, BeginFits

\* A handler that goes on keeps its note and its activity.
Continues(w, stage) ==
    /\ task' \in [Workers -> FitTask]
    /\ task'[w].at = stage /\ task'[w].pair = task[w].pair
    /\ task'[w].activity = task[w].activity
    /\ \A v \in Workers : v # w => task'[v] = task[v]

Ends(w) ==
    /\ task' \in [Workers -> FitTask] /\ task'[w] = Idle
    /\ \A v \in Workers : v # w => task'[v] = task[v]

LEMMA FinishEnds ==
    ASSUME BaseInv, NEW w \in Workers, Finish(w)
    PROVE  Ends(w)
BY FinishFits DEF Ends

LEMMA GotoContinues ==
    ASSUME BaseInv, NEW w \in Workers, task[w].at \in Stages,
           NEW stage \in {"compensate", "remove", "recountRemoved", "undo"},
           Goto(w, stage), [task[w] EXCEPT !.at = stage] \in FitTask
    PROVE  Continues(w, stage) /\ task'[w].outbox = task[w].outbox
           /\ task'[w].found = task[w].found
<1> DEFINE u == [task[w] EXCEPT !.at = stage]
<1>1. u.at = stage /\ u.pair = task[w].pair /\ u.activity = task[w].activity
      /\ u.outbox = task[w].outbox /\ u.found = task[w].found
  BY AtWork
<1>2. u \in FitTask /\ Stay(w, u)
  BY DEF Goto
<1> HIDE DEF u
<1> QED
  BY <1>1, <1>2, StayFits DEF Continues

LEMMA AddObjectEffect ==
    ASSUME BaseInv, NEW w \in Workers, AddObjectInOutbox(w)
    PROVE  /\ task[w].at = "announce" /\ NoteOf(task[w].pair) \in notes
           /\ Continues(w, "insert") /\ task'[w].found = task[w].found
           /\ task'[w].outbox \in OutboxIds /\ Fresh(task'[w].outbox)
           /\ outbox' = [outbox EXCEPT ![task'[w].outbox] = task[w].pair]
           /\ UNCHANGED <<notes, favourites, bookmarks, reblogs, activities, counters, history>>
<1>1. task[w].at = "announce"
  BY DEF AddObjectInOutbox, At
<1>2. PICK i \in OutboxIds :
         /\ Fresh(i) /\ outbox' = [outbox EXCEPT ![i] = task[w].pair]
         /\ Stay(w, [task[w] EXCEPT !.at = "insert", !.outbox = i])
  BY DEF AddObjectInOutbox
<1> DEFINE u == [task[w] EXCEPT !.at = "insert", !.outbox = i]
<1>3. u \in FitTask
  BY <1>1, NextTask DEF Stages
<1>4. u.at = "insert" /\ u.pair = task[w].pair /\ u.activity = task[w].activity
      /\ u.outbox = i /\ u.found = task[w].found
  BY <1>1, AtWork DEF Stages
<1>5. Stay(w, u)
  BY <1>2
<1> HIDE DEF u
<1>6. task'[w] = u /\ Continues(w, "insert")
  BY <1>3, <1>4, <1>5, StayFits DEF Continues
<1> QED
  BY <1>1, <1>2, <1>4, <1>6 DEF AddObjectInOutbox

LEMMA InsertReblogEffect ==
    ASSUME BaseInv, NEW w \in Workers, InsertReblog(w)
    PROVE  LET t == task[w] IN
           /\ t.at = "insert" /\ NoteOf(t.pair) \in notes /\ outbox[t.outbox] = t.pair
           /\ Continues(w, "recountInserted") /\ task'[w].outbox = t.outbox
           /\ \/ Ignored(t.pair, t.activity) /\ ~task'[w].found /\ UNCHANGED reblogs
              \/ /\ ~Ignored(t.pair, t.activity) /\ task'[w].found
                 /\ reblogs' = [reblogs EXCEPT ![t.pair] =
                                   [activity |-> t.activity, outbox |-> t.outbox]]
           /\ UNCHANGED <<notes, favourites, bookmarks, outbox, activities, counters, history>>
<1> DEFINE t == task[w]
<1>1. t.at = "insert"
  BY DEF InsertReblog, At
<1>2. ASSUME NEW b \in BOOLEAN, Stay(w, [t EXCEPT !.at = "recountInserted", !.found = b])
      PROVE  Continues(w, "recountInserted") /\ task'[w].outbox = t.outbox /\ task'[w].found = b
  <2> DEFINE u == [t EXCEPT !.at = "recountInserted", !.found = b]
  <2>1. u \in FitTask
    BY <1>1, NextTask DEF Stages
  <2>2. u.at = "recountInserted" /\ u.pair = t.pair /\ u.activity = t.activity
        /\ u.outbox = t.outbox /\ u.found = b
    BY <1>1, AtWork DEF Stages
  <2>3. Stay(w, u)
    BY <1>2
  <2> HIDE DEF u
  <2> QED
    BY <2>1, <2>2, <2>3, StayFits DEF Continues
<1>3. CASE Ignored(t.pair, t.activity)
  <2>1. Stay(w, [t EXCEPT !.at = "recountInserted", !.found = FALSE]) /\ UNCHANGED reblogs
    BY <1>3 DEF InsertReblog
  <2> QED
    BY <1>1, <1>2, <1>3, <2>1 DEF InsertReblog
<1>4. CASE ~Ignored(t.pair, t.activity)
  <2>1. /\ Stay(w, [t EXCEPT !.at = "recountInserted", !.found = TRUE])
        /\ reblogs' = [reblogs EXCEPT ![t.pair] =
                          [activity |-> t.activity, outbox |-> t.outbox]]
    BY <1>4 DEF InsertReblog
  <2> QED
    BY <1>1, <1>2, <1>4, <2>1 DEF InsertReblog
<1> QED
  BY <1>3, <1>4

LEMMA RecountInsertedEffect ==
    ASSUME BaseInv, NEW w \in Workers, RecountInserted(w)
    PROVE  LET t == task[w] IN
           /\ t.at = "recountInserted" /\ RecountReblogs(NoteOf(t.pair))
           /\ \/ t.found /\ Continues(w, "deliver") /\ task'[w].outbox = None /\ task'[w].found
              \/ ~t.found /\ Continues(w, "compensate") /\ task'[w].outbox = t.outbox
                 /\ ~task'[w].found
           /\ uncounted' = uncounted \ {NoteOf(t.pair)}
           /\ UNCHANGED <<notes, rows, spent, orphaned, undone>>
<1> DEFINE t == task[w]
<1>1. /\ t.at = "recountInserted" /\ RecountReblogs(NoteOf(t.pair))
      /\ uncounted' = uncounted \ {NoteOf(t.pair)}
      /\ UNCHANGED <<notes, rows, spent, orphaned, undone>>
  BY DEF RecountInserted, At
<1>2. CASE t.found
  <2> DEFINE u == [t EXCEPT !.at = "deliver", !.outbox = None]
  <2>1. u \in FitTask
    BY <1>1, <1>2, NextTask DEF Stages
  <2>2. u.at = "deliver" /\ u.pair = t.pair /\ u.activity = t.activity
        /\ u.outbox = None /\ u.found = t.found
    BY <1>1, AtWork DEF Stages
  <2>3. Stay(w, u)
    BY <1>2 DEF RecountInserted
  <2> HIDE DEF u
  <2> QED
    BY <1>1, <1>2, <2>1, <2>2, <2>3, StayFits DEF Continues
<1>3. CASE ~t.found
  <2>1. Goto(w, "compensate") /\ [t EXCEPT !.at = "compensate"] \in FitTask
    BY <1>1, <1>3, NextTask DEF RecountInserted, Goto, Stages
  <2> QED
    BY <1>1, <1>3, <2>1, GotoContinues DEF Stages
<1> QED
  BY <1>2, <1>3

LEMMA RemoveReblogEffect ==
    ASSUME BaseInv, NEW w \in Workers, RemoveReblog(w)
    PROVE  LET t == task[w] IN
           /\ t.at = "remove" /\ Continues(w, "recountRemoved")
           /\ task'[w].outbox = t.outbox /\ task'[w].found = t.found
           /\ \/ /\ Doomed(t)
                 /\ outbox' = [outbox EXCEPT ![reblogs[t.pair].outbox] = None]
                 /\ reblogs' = [reblogs EXCEPT ![t.pair] = NoReblog]
              \/ ~Doomed(t) /\ UNCHANGED <<outbox, reblogs>>
           /\ UNCHANGED <<notes, favourites, bookmarks, activities, counters, history>>
<1>1. task[w].at = "remove" /\ Goto(w, "recountRemoved")
  BY DEF RemoveReblog, At
<1>2. [task[w] EXCEPT !.at = "recountRemoved"] \in FitTask
  BY <1>1, NextTask DEF Stages
<1>3. Continues(w, "recountRemoved") /\ task'[w].outbox = task[w].outbox
      /\ task'[w].found = task[w].found
  BY <1>1, <1>2, GotoContinues DEF Stages
<1> QED
  BY <1>1, <1>3 DEF RemoveReblog

LEMMA SelectEffect ==
    ASSUME BaseInv, NEW w \in Workers, SelectByNote(w)
    PROVE  /\ task[w].at = "select" /\ UNCHANGED <<notes, rows, counters, history>>
           /\ \/ /\ Continues(w, "remove")
                 /\ task'[w].outbox = task[w].outbox /\ task'[w].found = task[w].found
              \/ Ends(w)
<1>1. task[w].at = "select" /\ (Goto(w, "remove") \/ Finish(w))
  BY DEF SelectByNote, At
<1>2. [task[w] EXCEPT !.at = "remove"] \in FitTask
  BY <1>1, NextTask DEF Stages
<1> QED
  BY <1>1, <1>2, GotoContinues, FinishEnds DEF Stages, SelectByNote

LEMMA RecountRemovedEffect ==
    ASSUME BaseInv, NEW w \in Workers, RecountRemoved(w)
    PROVE  LET t == task[w] IN
           /\ t.at = "recountRemoved" /\ RecountReblogs(NoteOf(t.pair))
           /\ \/ /\ Local(t.pair) /\ t.activity # None /\ Continues(w, "undo")
                 /\ task'[w].outbox = t.outbox /\ task'[w].found = t.found
              \/ Ends(w)
           /\ uncounted' = uncounted \ {NoteOf(t.pair)}
           /\ UNCHANGED <<notes, rows, spent, orphaned, undone>>
<1> DEFINE t == task[w]
<1>1. /\ t.at = "recountRemoved" /\ RecountReblogs(NoteOf(t.pair))
      /\ uncounted' = uncounted \ {NoteOf(t.pair)}
      /\ UNCHANGED <<notes, rows, spent, orphaned, undone>>
  BY DEF RecountRemoved, At
<1>2. CASE Local(t.pair) /\ t.activity # None
  <2>1. Goto(w, "undo") /\ [t EXCEPT !.at = "undo"] \in FitTask
    BY <1>1, <1>2, NextTask DEF RecountRemoved, AfterRemoval, Goto, Stages
  <2> QED
    BY <1>1, <1>2, <2>1, GotoContinues DEF Stages
<1>3. CASE ~(Local(t.pair) /\ t.activity # None)
  <2>1. Finish(w)
    BY <1>3 DEF RecountRemoved, AfterRemoval, Finish
  <2> QED
    BY <1>1, <2>1, FinishEnds
<1> QED
  BY <1>2, <1>3

Begins(w, p, stage, a) ==
    /\ task' \in [Workers -> FitTask] /\ task[w] = Idle
    /\ task'[w].at = stage /\ task'[w].pair = p /\ task'[w].activity = a
    /\ task'[w].outbox = None /\ ~task'[w].found
    /\ \A v \in Workers : v # w => task'[v] = task[v]

LEMMA BeginReblogEffect ==
    ASSUME BaseInv, NEW w \in Workers, BeginReblog(w)
    PROVE  /\ \E p \in Locals \X Notes, a \in LocalActivities \ spent :
                 /\ p \in Pairs /\ Local(p) /\ Begins(w, p, "announce", a)
                 /\ activities' = activities \cup {a} /\ spent' = spent \cup {a}
           /\ UNCHANGED <<notes, favourites, bookmarks, reblogs, outbox, counters, uncounted,
                          orphaned, undone>>
<1>1. PICK p \in Locals \X Notes, a \in LocalActivities \ spent :
         /\ Begin(w, p, "announce", a)
         /\ activities' = activities \cup {a} /\ spent' = spent \cup {a}
  BY DEF BeginReblog
<1>2. p \in Pairs /\ Local(p)
  BY DEF Pairs, Actors, Local
<1>3. a \in ActivitiesOf(p) /\ a # None
  BY <1>2, InteractionsAssumption DEF ActivitiesOf, Activities
<1>4. Begins(w, p, "announce", a)
  BY <1>1, <1>2, <1>3, BeginFits DEF Begins
<1> QED
  BY <1>1, <1>2, <1>4 DEF BeginReblog

LEMMA HandleAnnounceEffect ==
    ASSUME BaseInv, NEW w \in Workers, HandleAnnounce(w)
    PROVE  /\ \E p \in Pairs, a \in Announces : ~Local(p) /\ Begins(w, p, "announce", a)
           /\ UNCHANGED <<notes, rows, counters, history>>
<1>1. PICK a \in Announces : Begin(w, AnnounceOf[a], "announce", a)
  BY DEF HandleAnnounce
<1>2. AnnounceOf[a] \in Pairs /\ ~Local(AnnounceOf[a])
  BY InteractionsAssumption DEF Pairs, Actors, Local
<1>3. a \in ActivitiesOf(AnnounceOf[a]) /\ a # None
  BY <1>2, InteractionsAssumption DEF ActivitiesOf, Activities
<1>4. Begins(w, AnnounceOf[a], "announce", a)
  BY <1>1, <1>2, <1>3, BeginFits DEF Begins
<1> QED
  BY <1>2, <1>4 DEF HandleAnnounce

\* The activity of a reblog, if there is one.
LEMMA ReblogType ==
    ASSUME BaseInv, NEW p \in Pairs
    PROVE  /\ reblogs[p].activity \in ActivitiesOf(p) \cup {None}
           /\ reblogs[p].activity = None <=> ~Reblogged(p)
           /\ Reblogged(p) => reblogs[p].outbox \in OutboxIds
           /\ ~Reblogged(p) => reblogs[p].outbox = None
<1>1. reblogs[p] \in Reblog
  BY DEF BaseInv, TypeOK
<1>2. CASE Reblogged(p)
  BY <1>1, <1>2, InteractionsAssumption DEF BaseInv, Reblogged, Reblog
<1>3. CASE ~Reblogged(p)
  BY <1>3 DEF Reblogged, NoReblog
<1> QED
  BY <1>2, <1>3

LEMMA BeginUnreblogEffect ==
    ASSUME BaseInv, NEW w \in Workers, BeginUnreblog(w)
    PROVE  /\ \E p \in Pairs : Local(p) /\ Begins(w, p, "select", reblogs[p].activity)
           /\ UNCHANGED <<notes, rows, counters, history>>
<1>1. PICK p \in Locals \X Notes : Begin(w, p, "select", reblogs[p].activity)
  BY DEF BeginUnreblog, GetReblogActivity
<1>2. p \in Pairs /\ Local(p)
  BY DEF Pairs, Actors, Local
<1>3. reblogs[p].activity \in ActivitiesOf(p) \cup {None}
  BY <1>2, ReblogType
<1>4. Begins(w, p, "select", reblogs[p].activity)
  BY <1>1, <1>2, <1>3, BeginFits DEF Begins
<1> QED
  BY <1>2, <1>4 DEF BeginUnreblog

LEMMA HandleUndoEffect ==
    ASSUME BaseInv, NEW w \in Workers, HandleUndo(w)
    PROVE  /\ \E p \in Pairs, a \in Announces : ~Local(p) /\ Begins(w, p, "remove", a)
           /\ UNCHANGED <<notes, rows, counters, history>>
<1>1. PICK a \in Announces, p \in Remotes \X Notes :
         task[w] = Idle /\ Stay(w, FirstTask("remove", p, a))
  BY DEF HandleUndo, FirstTask
<1>2. p \in Pairs /\ ~Local(p)
  BY InteractionsAssumption DEF Pairs, Actors, Local
<1>3. a \in ActivitiesOf(p)
  BY <1>2 DEF ActivitiesOf
<1> DEFINE t == FirstTask("remove", p, a)
<1>4. /\ t \in FitTask /\ t.at = "remove" /\ t.pair = p /\ t.activity = a
      /\ t.outbox = None /\ ~t.found
  BY <1>2, <1>3, NewTask
<1>5. Stay(w, t)
  BY <1>1
<1> HIDE DEF t
<1>6. Begins(w, p, "remove", a)
  BY <1>1, <1>4, <1>5, StayFits DEF Begins
<1> QED
  BY <1>2, <1>6 DEF HandleUndo

-----------------------------------------------------------------------------
(* BaseInv. *)

\* The handlers of reblogs that change neither notes nor counters nor reblogs.
LEMMA SameReblogs ==
    ASSUME BaseInv, task' \in [Workers -> FitTask], UNCHANGED <<notes, favourites, bookmarks, reblogs>>,
           outbox' \in [OutboxIds -> Pairs \cup {None}], CounterType',
           activities' \subseteq LocalActivities, spent' \subseteq LocalActivities,
           uncounted' \subseteq Notes, orphaned' \subseteq OutboxIds, undone' \subseteq LocalActivities
    PROVE  BaseInv'
<1>1. task' \in [Workers -> Task]
  BY DEF FitTask
<1>2. \A p : Reblogged(p)' <=> Reblogged(p)
  BY DEF Reblogged
<1> QED
  BY <1>1, <1>2 DEF BaseInv, TypeOK, CounterType

LEMMA BaseTypes ==
    ASSUME BaseInv
    PROVE  /\ CounterType /\ outbox \in [OutboxIds -> Pairs \cup {None}]
           /\ activities \subseteq LocalActivities /\ spent \subseteq LocalActivities
           /\ uncounted \subseteq Notes /\ orphaned \subseteq OutboxIds
           /\ undone \subseteq LocalActivities
BY DEF BaseInv, TypeOK, CounterType

LEMMA BatchBase ==
    ASSUME BaseInv, NEW w \in Workers, NEW p \in Pairs, BatchStep(w, p)
    PROVE  BaseInv'
<1>1. bookmarks' \subseteq Locals \X Notes /\ favourites' \subseteq Pairs
  BY BatchEffect DEF BaseInv, TypeOK, Local, Pairs
<1>2. \A q : Reblogged(q)' <=> Reblogged(q)
  BY BatchEffect DEF Reblogged
<1> QED
  BY <1>1, <1>2, BatchEffect DEF BaseInv, TypeOK, history

\* The steps after which a handler recounts nothing and holds nothing new.
LEMMA QuietBase ==
    ASSUME BaseInv, UNCHANGED <<notes, rows, counters, history>>, task' \in [Workers -> FitTask]
    PROVE  BaseInv'
BY BaseTypes, SameReblogs DEF rows, counters, history, CounterType

LEMMA RecountBase ==
    ASSUME BaseInv, NEW n \in Notes, Recount(n) \/ RecountReblogs(n), task' \in [Workers -> FitTask],
           UNCHANGED <<notes, rows, spent, orphaned, undone>>, uncounted' \subseteq uncounted
    PROVE  BaseInv'
BY BaseTypes, RecountCounters, SameReblogs DEF rows

LEMMA InsertReblogBase ==
    ASSUME BaseInv, NEW w \in Workers, InsertReblog(w)
    PROVE  BaseInv'
<1> DEFINE t == task[w]
<1>1. /\ t.at = "insert" /\ task' \in [Workers -> FitTask]
      /\ UNCHANGED <<notes, favourites, bookmarks, outbox, activities, counters, history>>
      /\ reblogs' = reblogs \/ reblogs' = [reblogs EXCEPT ![t.pair] =
                                  [activity |-> t.activity, outbox |-> t.outbox]]
  BY InsertReblogEffect DEF Continues
<1>2. /\ t.pair \in Pairs /\ t.outbox \in OutboxIds /\ t.activity \in ActivitiesOf(t.pair)
      /\ t.activity \in Activities
  BY <1>1, AtWork DEF Stages, Holding, FitsStage, ActivitiesOf, Activities
<1>3. reblogs' \in [Pairs -> Reblog]
  BY <1>1, <1>2 DEF BaseInv, TypeOK, Reblog
<1>4. \A p \in Pairs : reblogs'[p] # NoReblog => reblogs'[p].activity \in ActivitiesOf(p)
  BY <1>1, <1>2 DEF BaseInv, TypeOK, Reblogged
<1>5. task' \in [Workers -> Task]
  BY <1>1 DEF FitTask
<1> QED
  BY <1>1, <1>3, <1>4, <1>5 DEF BaseInv, TypeOK, Reblogged, counters, history

LEMMA RemoveReblogBase ==
    ASSUME BaseInv, NEW w \in Workers, RemoveReblog(w)
    PROVE  BaseInv'
<1> DEFINE t == task[w]
<1>1. /\ t.at = "remove" /\ task' \in [Workers -> FitTask]
      /\ UNCHANGED <<notes, favourites, bookmarks, activities, counters, history>>
      /\ outbox' \in [OutboxIds -> Pairs \cup {None}]
      /\ reblogs' = reblogs \/ reblogs' = [reblogs EXCEPT ![t.pair] = NoReblog]
  BY RemoveReblogEffect, BaseTypes DEF Continues
<1>2. reblogs' \in [Pairs -> Reblog]
  BY <1>1 DEF BaseInv, TypeOK, Reblog
<1>3. \A p \in Pairs : reblogs'[p] # NoReblog => reblogs'[p] = reblogs[p]
  BY <1>1 DEF BaseInv, TypeOK
<1>4. task' \in [Workers -> Task]
  BY <1>1 DEF FitTask
<1> QED
  BY <1>1, <1>2, <1>3, <1>4 DEF BaseInv, TypeOK, Reblogged, counters, history

LEMMA DeleteNoteBase ==
    ASSUME BaseInv, NEW n \in Notes, DeleteNote(n)
    PROVE  BaseInv'
<1>1. reblogs' \in [Pairs -> Reblog]
  BY DEF DeleteNote, BaseInv, TypeOK, Reblog
<1>2. \A p \in Pairs : reblogs'[p] # NoReblog => reblogs'[p] = reblogs[p]
  BY DEF DeleteNote
<1>3. /\ outbox' \in [OutboxIds -> Pairs \cup {None}]
      /\ reblogsCount' \in [Notes -> Nat] /\ interactionCount' \in [Notes -> Nat]
  BY DEF DeleteNote, BaseInv, TypeOK
<1> QED
  BY <1>1, <1>2, <1>3 DEF DeleteNote, BaseInv, TypeOK, Reblogged

LEMMA FailBase ==
    ASSUME BaseInv, NEW w \in Workers, Fail(w)
    PROVE  BaseInv'
<1>1. task[w].at \in Stages
  BY AtFits DEF Fail
<1>2. task' \in [Workers -> FitTask] /\ UNCHANGED <<notes, rows, counters, spent, undone>>
  BY FinishEnds DEF Ends, Fail
<1>3. uncounted' \subseteq Notes
  BY <1>1, AtWork, BaseTypes DEF Fail
<1>4. orphaned' \subseteq OutboxIds
  BY <1>1, AtWork, BaseTypes DEF Fail, Owned, Holding
<1> QED
  BY <1>2, <1>3, <1>4, BaseTypes, SameReblogs DEF rows, counters, CounterType

LEMMA BaseNext ==
    ASSUME BaseInv, [Next]_vars
    PROVE  BaseInv'
<1>1. CASE UNCHANGED vars
  BY <1>1, QuietBase DEF vars, BaseInv
<1>2. ASSUME NEW w \in Workers, NEW p \in Pairs, BatchStep(w, p)
      PROVE  BaseInv'
  BY <1>2, BatchBase
<1>3. ASSUME NEW w \in Workers, RecountInteractions(w)
      PROVE  BaseInv'
  <2>1. /\ task[w].at = "recount" /\ Recount(NoteOf(task[w].pair))
        /\ UNCHANGED <<notes, rows, history>> /\ task' \in [Workers -> FitTask]
    BY <1>3, FinishEnds DEF RecountInteractions, At, Ends
  <2>2. NoteOf(task[w].pair) \in Notes
    BY <2>1, AtWork DEF Stages
  <2> QED
    BY <2>1, <2>2, RecountBase DEF history
<1>4. ASSUME NEW w \in Workers, BeginReblog(w)
      PROVE  BaseInv'
  <2>1. /\ activities' \subseteq LocalActivities /\ spent' \subseteq LocalActivities
        /\ task' \in [Workers -> FitTask]
        /\ UNCHANGED <<notes, favourites, bookmarks, reblogs, outbox, counters, uncounted,
                       orphaned, undone>>
    BY <1>4, BeginReblogEffect, BaseTypes DEF Begins
  <2> QED
    BY <2>1, BaseTypes, SameReblogs DEF counters, CounterType
<1>5. ASSUME NEW w \in Workers, HandleAnnounce(w) \/ BeginUnreblog(w) \/ HandleUndo(w)
      PROVE  BaseInv'
  BY <1>5, HandleAnnounceEffect, BeginUnreblogEffect, HandleUndoEffect, QuietBase DEF Begins
<1>6. ASSUME NEW w \in Workers, AddObjectInOutbox(w)
      PROVE  BaseInv'
  <2>1. outbox' \in [OutboxIds -> Pairs \cup {None}]
    BY <1>6, AddObjectEffect, AtWork, BaseTypes DEF Stages
  <2> QED
    BY <1>6, <2>1, AddObjectEffect, BaseTypes, SameReblogs DEF Continues, counters, history, CounterType
<1>7. ASSUME NEW w \in Workers, RecountInserted(w) \/ RecountRemoved(w)
      PROVE  BaseInv'
  <2>1. /\ task[w].at \in Stages /\ RecountReblogs(NoteOf(task[w].pair))
        /\ UNCHANGED <<notes, rows, spent, orphaned, undone>> /\ task' \in [Workers -> FitTask]
        /\ uncounted' \subseteq uncounted
    BY <1>7, RecountInsertedEffect, RecountRemovedEffect DEF Continues, Ends, Stages
  <2> QED
    BY <2>1, AtWork, RecountBase
<1>8. ASSUME NEW w \in Workers, Compensate(w) \/ DeliverAnnounce(w)
      PROVE  BaseInv'
  <2>1. /\ task' \in [Workers -> FitTask] /\ outbox' \in [OutboxIds -> Pairs \cup {None}]
        /\ activities' \subseteq LocalActivities
        /\ UNCHANGED <<notes, favourites, bookmarks, reblogs, counters, history>>
    BY <1>8, FinishEnds, BaseTypes DEF Compensate, DeliverAnnounce, Compensated, Ends, rows
  <2> QED
    BY <2>1, BaseTypes, SameReblogs DEF counters, history, CounterType
<1>9. ASSUME NEW w \in Workers, SelectByNote(w)
      PROVE  BaseInv'
  BY <1>9, SelectEffect, QuietBase DEF Continues, Ends
<1>10. ASSUME NEW w \in Workers, DeliverUndo(w)
       PROVE  BaseInv'
  <2>1. /\ task[w].at = "undo" /\ task' \in [Workers -> FitTask]
        /\ undone' = undone \cup {task[w].activity}
        /\ UNCHANGED <<notes, rows, counters, spent, uncounted, orphaned>>
    BY <1>10, FinishEnds DEF DeliverUndo, At, Ends
  <2>2. task[w].activity \in LocalActivities
    BY <2>1, AtWork DEF Stages, FitsStage, ActivitiesOf
  <2> QED
    BY <2>1, <2>2, BaseTypes, SameReblogs DEF rows, counters, CounterType
<1> QED
  BY <1>1, <1>2, <1>3, <1>4, <1>5, <1>6, <1>7, <1>8, <1>9, <1>10, InsertReblogBase,
     RemoveReblogBase, FailBase, DeleteNoteBase DEF Next, BatchStep

LEMMA BaseInit ==
    ASSUME Init
    PROVE  BaseInv
<1>1. task \in [Workers -> FitTask] /\ task \in [Workers -> Task]
  BY IdleFits DEF Init, FitTask
<1>2. reblogs \in [Pairs -> Reblog] /\ \A p \in Pairs : ~Reblogged(p)
  BY DEF Init, Reblog, Reblogged
<1> QED
  BY <1>1, <1>2 DEF Init, BaseInv, TypeOK

LEMMA BaseHolds == Spec => []BaseInv
<1>1. Init => BaseInv
  BY BaseInit
<1>2. BaseInv /\ [Next]_vars => BaseInv'
  BY BaseNext
<1> QED
  BY <1>1, <1>2, PTL DEF Spec

\* The variables have their types.
THEOREM InteractionsTypeOK == Spec => []TypeOK
<1>1. BaseInv => TypeOK
  BY DEF BaseInv
<1> QED
  BY <1>1, BaseHolds, PTL

-----------------------------------------------------------------------------
(* The counters of a note. *)

CountRight(n) ==
    /\ n \in RemoteNotes =>
          interactionCount[n] >=
              Cardinality(LocalFavouritesOf(n)) + Cardinality(LocalBookmarksOf(n))
    /\ ~RecountOwed(n) =>
          /\ reblogsCount[n] = Cardinality(RebloggersOf(n))
          /\ n \in RemoteNotes => interactionCount[n] = LocalInteractions(n)

CountInv ==
    /\ BaseInv
    /\ \A n \in notes : CountRight(n)

\* A handler leaves it to nobody to recount n, or does so.
OwedStays(n) == RecountOwed(n) => RecountOwed(n)'

LEMMA OwedByOthers ==
    ASSUME NEW w \in Workers, \A v \in Workers : v # w => task'[v] = task[v],
           task[w].at \notin {"recountInserted", "recountRemoved"}, NEW n, n \in uncounted => n \in uncounted'
    PROVE  OwedStays(n)
BY DEF OwedStays, RecountOwed

\* A step that changes no row of a note that counts.
LEMMA SameCounts ==
    ASSUME NEW n, CountRight(n), OwedStays(n), n \in Notes,
           interactionCount'[n] = interactionCount[n], reblogsCount'[n] = reblogsCount[n],
           \A a \in Actors :
              /\ <<a, n>> \in favourites' <=> <<a, n>> \in favourites
              /\ <<a, n>> \in bookmarks' <=> <<a, n>> \in bookmarks
              /\ reblogs'[<<a, n>>] = reblogs[<<a, n>>]
    PROVE  CountRight(n)'
<1>1. /\ LocalFavouritesOf(n)' = LocalFavouritesOf(n) /\ LocalBookmarksOf(n)' = LocalBookmarksOf(n)
      /\ RebloggersOf(n)' = RebloggersOf(n) /\ LocalRebloggersOf(n)' = LocalRebloggersOf(n)
  BY DEF LocalFavouritesOf, LocalBookmarksOf, RebloggersOf, LocalRebloggersOf, Reblogged, Actors
<1>2. LocalInteractions(n)' = LocalInteractions(n)
  BY <1>1 DEF LocalInteractions
<1> QED
  BY <1>1, <1>2 DEF CountRight, OwedStays

LEMMA QuietCounts ==
    ASSUME CountInv, BaseInv', NEW w \in Workers, \A v \in Workers : v # w => task'[v] = task[v],
           task[w].at \notin {"recountInserted", "recountRemoved"}, uncounted \subseteq uncounted',
           UNCHANGED <<notes, favourites, bookmarks, reblogs, counters>>
    PROVE  CountInv'
<1>1. ASSUME NEW n \in notes
      PROVE  CountRight(n)'
  <2>1. n \in Notes /\ OwedStays(n) /\ CountRight(n)
    BY OwedByOthers DEF CountInv, BaseInv, TypeOK
  <2> QED
    BY <2>1, SameCounts DEF counters
<1> QED
  BY <1>1 DEF CountInv

\* A step that changes the reblogs of a note and goes on to recount them.
LEMMA ReblogCounts ==
    ASSUME CountInv, BaseInv', NEW w \in Workers, NEW p \in Pairs,
           \A v \in Workers : v # w => task'[v] = task[v],
           task[w].at \notin {"recountInserted", "recountRemoved"},
           task'[w].at \in {"recountInserted", "recountRemoved"}, task'[w].pair = p,
           \A q \in Pairs : q # p => reblogs'[q] = reblogs[q],
           UNCHANGED <<notes, favourites, bookmarks, counters, uncounted>>
    PROVE  CountInv'
<1>1. ASSUME NEW n \in notes
      PROVE  CountRight(n)'
  <2>1. n \in Notes /\ OwedStays(n) /\ CountRight(n)
    BY OwedByOthers DEF CountInv, BaseInv, TypeOK
  <2>2. CASE n = NoteOf(p)
    <3>1. RecountOwed(n)'
      BY <2>2 DEF RecountOwed
    <3>2. LocalFavouritesOf(n)' = LocalFavouritesOf(n) /\ LocalBookmarksOf(n)' = LocalBookmarksOf(n)
      BY DEF LocalFavouritesOf, LocalBookmarksOf
    <3> QED
      BY <2>1, <3>1, <3>2 DEF CountRight, counters
  <2>3. CASE n # NoteOf(p)
    <3>1. \A a \in Actors : <<a, n>> \in Pairs /\ <<a, n>> # p
      BY <2>1, <2>3 DEF NoteOf, Pairs
    <3> QED
      BY <2>1, <3>1, SameCounts DEF counters
  <2> QED
    BY <2>2, <2>3
<1> QED
  BY <1>1 DEF CountInv

\* A recount makes the counters of its note right, and lets those of others be.
LEMMA RecountRight ==
    ASSUME CountInv, BaseInv', NEW w \in Workers, task[w].at \in Stages,
           \A v \in Workers : v # w => task'[v] = task[v],
           UNCHANGED <<notes, rows>>,
           \/ /\ Recount(NoteOf(task[w].pair)) /\ task[w].at = "recount"
              /\ UNCHANGED uncounted
           \/ /\ RecountReblogs(NoteOf(task[w].pair))
              /\ uncounted' = uncounted \ {NoteOf(task[w].pair)}
    PROVE  CountInv'
<1> PICK m \in Notes : m = NoteOf(task[w].pair)
  BY AtWork DEF CountInv
<1>1. m \in Notes /\ CounterType
  BY BaseTypes DEF CountInv
<1>2. ASSUME NEW n \in notes, n # m
      PROVE  CountRight(n)'
  <2>1. n \in Notes /\ CountRight(n) /\ OwedStays(n)
    BY <1>2 DEF CountInv, BaseInv, TypeOK, OwedStays, RecountOwed
  <2>2. interactionCount'[n] = interactionCount[n] /\ reblogsCount'[n] = reblogsCount[n]
    BY <1>1, <1>2, <2>1, RecountCounters
  <2> QED
    BY <2>1, <2>2, SameCounts DEF rows
<1>3. ASSUME m \in notes
      PROVE  CountRight(m)'
  <2>1. /\ LocalFavouritesOf(m)' = LocalFavouritesOf(m) /\ LocalBookmarksOf(m)' = LocalBookmarksOf(m)
        /\ RebloggersOf(m)' = RebloggersOf(m) /\ LocalInteractions(m)' = LocalInteractions(m)
    BY DEF LocalFavouritesOf, LocalBookmarksOf, RebloggersOf, LocalRebloggersOf, Reblogged,
       LocalInteractions, rows
  <2>2. m \in RemoteNotes => interactionCount'[m] = LocalInteractions(m)
    BY <1>1, <1>3, RecountCounters
  <2>3. ~RecountOwed(m)' => reblogsCount'[m] = Cardinality(RebloggersOf(m))
    <3>1. CASE RecountReblogs(m)
      BY <1>1, <1>3, <3>1, RecountCounters
    <3>2. CASE Recount(m) /\ task[w].at = "recount" /\ UNCHANGED uncounted
      <4>1. OwedStays(m)
        BY <3>2, OwedByOthers
      <4>2. UNCHANGED reblogsCount
        BY <3>2 DEF Recount
      <4> QED
        BY <1>3, <4>1, <4>2 DEF CountInv, CountRight, OwedStays
    <3> QED
      BY <3>1, <3>2
  <2>4. /\ Cardinality(LocalRebloggersOf(m)) \in Nat /\ Cardinality(LocalFavouritesOf(m)) \in Nat
        /\ Cardinality(LocalBookmarksOf(m)) \in Nat
    BY CountTypes
  <2>5. LocalInteractions(m) >= Cardinality(LocalFavouritesOf(m)) + Cardinality(LocalBookmarksOf(m))
    BY <2>4 DEF LocalInteractions
  <2> QED
    BY <2>1, <2>2, <2>3, <2>5 DEF CountRight
<1> QED
  BY <1>2, <1>3 DEF CountInv

\* The users among some rows of a note.
UsersOf(pairs, n) == {a \in Locals : <<a, n>> \in pairs}

Favourites(n) == Cardinality(UsersOf(favourites, n))
Bookmarks(n)  == Cardinality(UsersOf(bookmarks, n))

LEMMA UsersCount ==
    ASSUME NEW p \in Pairs, NEW n, n = NoteOf(p), n \in RemoteNotes, NEW pairs
    PROVE  /\ Cardinality(UsersOf(pairs, n)) \in Nat
           /\ Cardinality(UsersOf(pairs \cup {p}, n)) =
                 Cardinality(UsersOf(pairs, n)) + (IF Counts(p) /\ p \notin pairs THEN 1 ELSE 0)
           /\ Cardinality(UsersOf(pairs \ {p}, n)) =
                 Cardinality(UsersOf(pairs, n)) - (IF Counts(p) /\ p \in pairs THEN 1 ELSE 0)
           /\ Counts(p) /\ p \in pairs => Cardinality(UsersOf(pairs, n)) > 0
<1> DEFINE S == UsersOf(pairs, n)
<1>1. p = <<p[1], n>> /\ (Counts(p) <=> p[1] \in Locals)
  BY DEF NoteOf, Pairs, Counts, Local
<1>2. IsFiniteSet(S) /\ Cardinality(S) \in Nat
  <2>1. S \subseteq Actors
    BY DEF UsersOf, Actors
  <2> QED
    BY <2>1, InteractionsAssumption, FS_Subset, FS_CardinalityType
<1>3. p[1] \in S <=> p[1] \in Locals /\ p \in pairs
  BY <1>1 DEF UsersOf
<1>4. p[1] \in S => Cardinality(S) > 0
  BY <1>2, FS_EmptySet
<1>5. /\ Cardinality(S \cup {p[1]}) = IF p[1] \in S THEN Cardinality(S) ELSE Cardinality(S) + 1
      /\ Cardinality(S \ {p[1]}) = IF p[1] \in S THEN Cardinality(S) - 1 ELSE Cardinality(S)
  BY <1>2, FS_AddElement, FS_RemoveElement
<1>6. Cardinality(UsersOf(pairs \cup {p}, n)) =
         Cardinality(S) + (IF Counts(p) /\ p \notin pairs THEN 1 ELSE 0)
  <2>1. CASE Counts(p)
    <3>1. UsersOf(pairs \cup {p}, n) = S \cup {p[1]}
      BY <1>1, <2>1 DEF UsersOf
    <3>2. Cardinality(UsersOf(pairs \cup {p}, n)) = Cardinality(S \cup {p[1]})
      BY <3>1, Zenon
    <3> QED
      BY <1>1, <1>2, <1>3, <1>5, <2>1, <3>2
  <2>2. CASE ~Counts(p)
    <3>1. UsersOf(pairs \cup {p}, n) = S
      BY <1>1, <2>2 DEF UsersOf
    <3> QED
      BY <1>2, <2>2, <3>1
  <2> QED
    BY <2>1, <2>2
<1>7. Cardinality(UsersOf(pairs \ {p}, n)) =
         Cardinality(S) - (IF Counts(p) /\ p \in pairs THEN 1 ELSE 0)
  <2>1. CASE Counts(p)
    <3>1. UsersOf(pairs \ {p}, n) = S \ {p[1]}
      BY <1>1, <2>1 DEF UsersOf
    <3>2. Cardinality(UsersOf(pairs \ {p}, n)) = Cardinality(S \ {p[1]})
      BY <3>1, Zenon
    <3> QED
      BY <1>1, <1>2, <1>3, <1>5, <2>1, <3>2
  <2>2. CASE ~Counts(p)
    <3>1. UsersOf(pairs \ {p}, n) = S
      BY <1>1, <2>2 DEF UsersOf
    <3> QED
      BY <1>2, <2>2, <3>1
  <2> QED
    BY <2>1, <2>2
<1> QED
  BY <1>1, <1>2, <1>3, <1>4, <1>6, <1>7

LEMMA FavouritesAfter ==
    ASSUME NEW p \in Pairs, NEW n, n = NoteOf(p), n \in RemoteNotes
    PROVE  /\ favourites' = favourites => Favourites(n)' = Favourites(n)
           /\ favourites' = favourites \cup {p} => Favourites(n)' =
                 Favourites(n) + (IF Counts(p) /\ p \notin favourites THEN 1 ELSE 0)
           /\ favourites' = favourites \ {p} => Favourites(n)' =
                 Favourites(n) - (IF Counts(p) /\ p \in favourites THEN 1 ELSE 0)
           /\ Counts(p) /\ p \in favourites => Favourites(n) > 0
           /\ Favourites(n) \in Nat /\ Favourites(n)' \in Nat
<1>1. /\ Favourites(n) = Cardinality(UsersOf(favourites, n))
      /\ Favourites(n)' = Cardinality(UsersOf(favourites', n))
  BY DEF Favourites, UsersOf
<1>2. /\ favourites' = favourites \cup {p} => Favourites(n)' = Cardinality(UsersOf(favourites \cup {p}, n))
      /\ favourites' = favourites \ {p} => Favourites(n)' = Cardinality(UsersOf(favourites \ {p}, n))
      /\ favourites' = favourites => Favourites(n)' = Favourites(n)
  BY <1>1, Zenon
<1>3. /\ Favourites(n) \in Nat
      /\ Cardinality(UsersOf(favourites \cup {p}, n)) =
            Favourites(n) + (IF Counts(p) /\ p \notin favourites THEN 1 ELSE 0)
      /\ Cardinality(UsersOf(favourites \ {p}, n)) =
            Favourites(n) - (IF Counts(p) /\ p \in favourites THEN 1 ELSE 0)
      /\ Counts(p) /\ p \in favourites => Favourites(n) > 0
  <2>1. /\ Cardinality(UsersOf(favourites, n)) \in Nat
        /\ Cardinality(UsersOf(favourites \cup {p}, n)) =
              Cardinality(UsersOf(favourites, n)) + (IF Counts(p) /\ p \notin favourites THEN 1 ELSE 0)
        /\ Cardinality(UsersOf(favourites \ {p}, n)) =
              Cardinality(UsersOf(favourites, n)) - (IF Counts(p) /\ p \in favourites THEN 1 ELSE 0)
        /\ Counts(p) /\ p \in favourites => Cardinality(UsersOf(favourites, n)) > 0
    BY UsersCount, Zenon
  <2> QED
    BY <2>1 DEF Favourites
<1>4. Favourites(n)' \in Nat
  BY <1>1, UsersCount
<1> QED
  BY <1>2, <1>3, <1>4

LEMMA BookmarksAfter ==
    ASSUME NEW p \in Pairs, NEW n, n = NoteOf(p), n \in RemoteNotes
    PROVE  /\ bookmarks' = bookmarks => Bookmarks(n)' = Bookmarks(n)
           /\ bookmarks' = bookmarks \cup {p} => Bookmarks(n)' =
                 Bookmarks(n) + (IF Counts(p) /\ p \notin bookmarks THEN 1 ELSE 0)
           /\ bookmarks' = bookmarks \ {p} => Bookmarks(n)' =
                 Bookmarks(n) - (IF Counts(p) /\ p \in bookmarks THEN 1 ELSE 0)
           /\ Counts(p) /\ p \in bookmarks => Bookmarks(n) > 0
           /\ Bookmarks(n) \in Nat /\ Bookmarks(n)' \in Nat
<1>1. /\ Bookmarks(n) = Cardinality(UsersOf(bookmarks, n))
      /\ Bookmarks(n)' = Cardinality(UsersOf(bookmarks', n))
  BY DEF Bookmarks, UsersOf
<1>2. /\ bookmarks' = bookmarks \cup {p} => Bookmarks(n)' = Cardinality(UsersOf(bookmarks \cup {p}, n))
      /\ bookmarks' = bookmarks \ {p} => Bookmarks(n)' = Cardinality(UsersOf(bookmarks \ {p}, n))
      /\ bookmarks' = bookmarks => Bookmarks(n)' = Bookmarks(n)
  BY <1>1, Zenon
<1>3. /\ Bookmarks(n) \in Nat
      /\ Cardinality(UsersOf(bookmarks \cup {p}, n)) =
            Bookmarks(n) + (IF Counts(p) /\ p \notin bookmarks THEN 1 ELSE 0)
      /\ Cardinality(UsersOf(bookmarks \ {p}, n)) =
            Bookmarks(n) - (IF Counts(p) /\ p \in bookmarks THEN 1 ELSE 0)
      /\ Counts(p) /\ p \in bookmarks => Bookmarks(n) > 0
  <2>1. /\ Cardinality(UsersOf(bookmarks, n)) \in Nat
        /\ Cardinality(UsersOf(bookmarks \cup {p}, n)) =
              Cardinality(UsersOf(bookmarks, n)) + (IF Counts(p) /\ p \notin bookmarks THEN 1 ELSE 0)
        /\ Cardinality(UsersOf(bookmarks \ {p}, n)) =
              Cardinality(UsersOf(bookmarks, n)) - (IF Counts(p) /\ p \in bookmarks THEN 1 ELSE 0)
        /\ Counts(p) /\ p \in bookmarks => Cardinality(UsersOf(bookmarks, n)) > 0
    BY UsersCount, Zenon
  <2> QED
    BY <2>1 DEF Bookmarks
<1>4. Bookmarks(n)' \in Nat
  BY <1>1, UsersCount
<1> QED
  BY <1>2, <1>3, <1>4

\* A batch changes the counter of its note by what it changes the rows of users.
LEMMA BatchRight ==
    ASSUME CountInv, NEW w \in Workers, NEW p \in Pairs, BatchStep(w, p),
           NEW n, n = NoteOf(p), n \in RemoteNotes
    PROVE  /\ Favourites(n) \in Nat /\ Favourites(n)' \in Nat
           /\ Bookmarks(n) \in Nat /\ Bookmarks(n)' \in Nat
           /\ interactionCount[n] \in Nat
           /\ interactionCount'[n] = interactionCount[n]
                 + (Favourites(n)' - Favourites(n)) + (Bookmarks(n)' - Bookmarks(n))
<1>1. n \in Notes /\ n \in notes /\ interactionCount \in [Notes -> Nat]
  BY BatchEffect, BaseTypes DEF NoteOf, Pairs, CountInv, CounterType
<1>2. interactionCount[n] \in Nat /\ interactionCount[n] >= Favourites(n) + Bookmarks(n)
  BY <1>1 DEF CountInv, CountRight, CounterType, Favourites, Bookmarks, UsersOf, LocalFavouritesOf, LocalBookmarksOf
<1>3. CASE /\ favourites' = favourites \cup {p} /\ bookmarks' = bookmarks
           /\ interactionCount' = Incremented(p, p \notin favourites)
  <2>1. interactionCount'[n] =
           interactionCount[n] + (IF Counts(p) /\ p \notin favourites THEN 1 ELSE 0)
    BY <1>1, <1>3 DEF Incremented
  <2> QED
    BY <1>2, <1>3, <2>1, FavouritesAfter, BookmarksAfter
<1>4. CASE /\ favourites' = favourites \ {p} /\ bookmarks' = bookmarks
           /\ interactionCount' = Decremented(p, p \in favourites)
  <2>1. interactionCount'[n] =
           IF Counts(p) /\ p \in favourites /\ interactionCount[n] > 0
           THEN interactionCount[n] - 1 ELSE interactionCount[n]
    BY <1>1, <1>4 DEF Decremented
  <2> QED
    BY <1>2, <1>4, <2>1, FavouritesAfter, BookmarksAfter
<1>5. CASE /\ bookmarks' = bookmarks \cup {p} /\ favourites' = favourites
           /\ interactionCount' = Incremented(p, p \notin bookmarks)
  <2>1. interactionCount'[n] =
           interactionCount[n] + (IF Counts(p) /\ p \notin bookmarks THEN 1 ELSE 0)
    BY <1>1, <1>5 DEF Incremented
  <2> QED
    BY <1>2, <1>5, <2>1, FavouritesAfter, BookmarksAfter
<1>6. CASE /\ bookmarks' = bookmarks \ {p} /\ favourites' = favourites
           /\ interactionCount' = Decremented(p, p \in bookmarks)
  <2>1. interactionCount'[n] =
           IF Counts(p) /\ p \in bookmarks /\ interactionCount[n] > 0
           THEN interactionCount[n] - 1 ELSE interactionCount[n]
    BY <1>1, <1>6 DEF Decremented
  <2> QED
    BY <1>2, <1>6, <2>1, FavouritesAfter, BookmarksAfter
<1> QED
  BY <1>3, <1>4, <1>5, <1>6, BatchEffect DEF CountInv

LEMMA BatchCounts ==
    ASSUME CountInv, BaseInv', NEW w \in Workers, NEW p \in Pairs, BatchStep(w, p)
    PROVE  CountInv'
<1>1. /\ UNCHANGED <<notes, reblogs, reblogsCount, history>> /\ task[w] = Idle
      /\ \A v \in Workers : v # w => task'[v] = task[v]
  BY BatchEffect DEF CountInv
<1>2. \A q \in Pairs : q # p => /\ q \in favourites' <=> q \in favourites
                                /\ q \in bookmarks' <=> q \in bookmarks
  BY BatchEffect DEF CountInv
<1>3. \A n \in Notes : n # NoteOf(p) => interactionCount'[n] = interactionCount[n]
  <2>1. NoteOf(p) \in Notes /\ interactionCount \in [Notes -> Nat]
    BY BaseTypes DEF CountInv, CounterType, NoteOf, Pairs
  <2> QED
    BY <2>1, BatchEffect DEF CountInv, Incremented, Decremented
<1>4. ASSUME NEW n \in notes, n # NoteOf(p)
      PROVE  CountRight(n)'
  <2>1. n \in Notes /\ OwedStays(n) /\ CountRight(n)
    BY <1>1, OwedByOthers DEF CountInv, BaseInv, TypeOK, Idle, history
  <2>2. \A a \in Actors : <<a, n>> \in Pairs /\ <<a, n>> # p
    BY <1>4, <2>1 DEF NoteOf, Pairs
  <2> QED
    BY <1>1, <1>2, <1>3, <1>4, <2>1, <2>2, SameCounts
<1>5. ASSUME NEW n \in notes, n = NoteOf(p)
      PROVE  CountRight(n)'
  <2>1. n \in Notes /\ OwedStays(n) /\ CountRight(n)
    BY <1>1, OwedByOthers DEF CountInv, BaseInv, TypeOK, Idle, history
  <2>2. RebloggersOf(n)' = RebloggersOf(n) /\ LocalRebloggersOf(n)' = LocalRebloggersOf(n)
    BY <1>1 DEF RebloggersOf, LocalRebloggersOf, Reblogged
  <2>3. ~RecountOwed(n)' => reblogsCount'[n] = Cardinality(RebloggersOf(n))'
    BY <1>1, <2>1, <2>2 DEF CountRight, OwedStays
  <2>4. ASSUME n \in RemoteNotes
        PROVE  /\ interactionCount'[n] >= Favourites(n)' + Bookmarks(n)'
               /\ ~RecountOwed(n)' => interactionCount'[n] = LocalInteractions(n)'
    <3> DEFINE R == Cardinality(LocalRebloggersOf(n))
    <3>1. /\ Favourites(n) \in Nat /\ Favourites(n)' \in Nat
          /\ Bookmarks(n) \in Nat /\ Bookmarks(n)' \in Nat
          /\ interactionCount[n] \in Nat
          /\ interactionCount'[n] = interactionCount[n]
                + (Favourites(n)' - Favourites(n)) + (Bookmarks(n)' - Bookmarks(n))
      BY <1>5, <2>4, BatchRight
    <3>2. /\ R \in Nat /\ R' = R
          /\ LocalInteractions(n) = R + Favourites(n) + Bookmarks(n)
          /\ LocalInteractions(n)' = R' + Favourites(n)' + Bookmarks(n)'
      BY <2>2, CountTypes DEF LocalInteractions, Favourites, Bookmarks, UsersOf,
         LocalFavouritesOf, LocalBookmarksOf
    <3>3. /\ interactionCount[n] >= Favourites(n) + Bookmarks(n)
          /\ ~RecountOwed(n)' => interactionCount[n] = LocalInteractions(n)
      BY <2>1, <2>4 DEF CountRight, OwedStays, Favourites, Bookmarks, UsersOf,
         LocalFavouritesOf, LocalBookmarksOf
    <3> HIDE DEF R
    <3> QED
      BY <3>1, <3>2, <3>3
  <2> QED
    BY <2>3, <2>4 DEF CountRight, Favourites, Bookmarks, UsersOf, LocalFavouritesOf,
       LocalBookmarksOf
<1> QED
  BY <1>1, <1>4, <1>5 DEF CountInv

LEMMA DeleteNoteCounts ==
    ASSUME CountInv, BaseInv', NEW m \in Notes, DeleteNote(m)
    PROVE  CountInv'
<1>1. ASSUME NEW n \in notes'
      PROVE  CountRight(n)'
  <2>1. n \in Notes /\ n # m /\ n \in notes /\ CountRight(n) /\ UNCHANGED <<task, uncounted>>
    BY DEF DeleteNote, CountInv, BaseInv, TypeOK
  <2>2. OwedStays(n)
    BY <2>1 DEF OwedStays, RecountOwed
  <2>3. interactionCount'[n] = interactionCount[n] /\ reblogsCount'[n] = reblogsCount[n]
    BY <2>1 DEF DeleteNote, CountInv, BaseInv, TypeOK
  <2>4. \A a \in Actors : /\ <<a, n>> \in favourites' <=> <<a, n>> \in favourites
                          /\ <<a, n>> \in bookmarks' <=> <<a, n>> \in bookmarks
                          /\ reblogs'[<<a, n>>] = reblogs[<<a, n>>]
    BY <2>1 DEF DeleteNote, NoteOf, Pairs
  <2> QED
    BY <2>1, <2>2, <2>3, <2>4, SameCounts
<1> QED
  BY <1>1 DEF CountInv

\* A handler that dies before its recount leaves the note uncounted.
LEMMA FailCounts ==
    ASSUME CountInv, BaseInv', NEW w \in Workers, Fail(w)
    PROVE  CountInv'
<1>1. /\ UNCHANGED <<notes, rows, counters>> /\ \A v \in Workers : v # w => task'[v] = task[v]
      /\ uncounted' = IF task[w].at \in {"recountInserted", "recountRemoved"}
                      THEN uncounted \cup {NoteOf(task[w].pair)} ELSE uncounted
  BY FinishEnds DEF Fail, CountInv, Ends
<1>2. ASSUME NEW n \in notes
      PROVE  CountRight(n)'
  <2>1. OwedStays(n)
    BY <1>1 DEF OwedStays, RecountOwed
  <2> QED
    BY <1>1, <2>1, SameCounts DEF CountInv, BaseInv, TypeOK, rows, counters
<1> QED
  BY <1>1, <1>2 DEF CountInv

LEMMA CountNext ==
    ASSUME CountInv, [Next]_vars
    PROVE  CountInv'
<1> BaseInv /\ BaseInv'
  BY BaseNext DEF CountInv
<1>1. CASE UNCHANGED vars
  <2>1. \A n \in notes : n \in Notes /\ OwedStays(n) /\ CountRight(n)
    BY <1>1 DEF CountInv, BaseInv, TypeOK, OwedStays, RecountOwed, vars, history
  <2>2. \A n \in notes : CountRight(n)'
    BY <1>1, <2>1, SameCounts DEF vars, rows, counters
  <2> QED
    BY <1>1, <2>2 DEF CountInv, vars
<1>2. ASSUME NEW w \in Workers, NEW p \in Pairs, BatchStep(w, p)
      PROVE  CountInv'
  BY <1>2, BatchCounts
<1>3. ASSUME NEW w \in Workers, RecountInteractions(w)
      PROVE  CountInv'
  <2>1. /\ task[w].at = "recount" /\ Recount(NoteOf(task[w].pair)) /\ UNCHANGED <<notes, rows, history>>
        /\ \A v \in Workers : v # w => task'[v] = task[v]
    BY <1>3, FinishEnds DEF RecountInteractions, At, Ends
  <2> QED
    BY <2>1, RecountRight DEF Stages, history
<1>4. ASSUME NEW w \in Workers,
             BeginReblog(w) \/ HandleAnnounce(w) \/ BeginUnreblog(w) \/ HandleUndo(w)
      PROVE  CountInv'
  <2>1. /\ task[w] = Idle /\ \A v \in Workers : v # w => task'[v] = task[v]
        /\ UNCHANGED <<notes, favourites, bookmarks, reblogs, counters, uncounted>>
    BY <1>4, BeginReblogEffect, HandleAnnounceEffect, BeginUnreblogEffect, HandleUndoEffect
       DEF Begins, rows, history
  <2> QED
    BY <2>1, QuietCounts DEF Idle
<1>5. ASSUME NEW w \in Workers, AddObjectInOutbox(w) \/ Compensate(w) \/ DeliverAnnounce(w)
                                \/ SelectByNote(w) \/ DeliverUndo(w)
      PROVE  CountInv'
  <2>1. /\ task[w].at \in {"announce", "compensate", "deliver", "select", "undo"}
        /\ \A v \in Workers : v # w => task'[v] = task[v]
        /\ UNCHANGED <<notes, favourites, bookmarks, reblogs, counters, uncounted>>
    BY <1>5, AddObjectEffect, SelectEffect, FinishEnds
       DEF Continues, Ends, Compensate, DeliverAnnounce, DeliverUndo, At, rows, history
  <2> QED
    BY <2>1, QuietCounts
<1>6. ASSUME NEW w \in Workers, InsertReblog(w)
      PROVE  CountInv'
  <2> PICK p \in Pairs : p = task[w].pair
    BY <1>6, InsertReblogEffect, AtWork DEF Stages
  <2>1. /\ task[w].at = "insert" /\ Continues(w, "recountInserted")
        /\ \A q \in Pairs : q # p => reblogs'[q] = reblogs[q]
        /\ UNCHANGED <<notes, favourites, bookmarks, counters, uncounted>>
    BY <1>6, InsertReblogEffect DEF BaseInv, TypeOK, history
  <2> QED
    BY <2>1, ReblogCounts DEF Continues
<1>7. ASSUME NEW w \in Workers, RemoveReblog(w)
      PROVE  CountInv'
  <2>1. /\ task[w].at = "remove" /\ Continues(w, "recountRemoved")
        /\ UNCHANGED <<notes, favourites, bookmarks, counters, uncounted>>
    BY <1>7, RemoveReblogEffect DEF history
  <2> PICK p \in Pairs : p = task[w].pair
    BY <2>1, AtWork DEF Stages
  <2>2. \A q \in Pairs : q # p => reblogs'[q] = reblogs[q]
    BY <1>7, RemoveReblogEffect DEF BaseInv, TypeOK
  <2> QED
    BY <2>1, <2>2, ReblogCounts DEF Continues
<1>8. ASSUME NEW w \in Workers, RecountInserted(w) \/ RecountRemoved(w)
      PROVE  CountInv'
  <2>1. /\ task[w].at \in {"recountInserted", "recountRemoved"}
        /\ RecountReblogs(NoteOf(task[w].pair)) /\ UNCHANGED <<notes, rows>>
        /\ \A v \in Workers : v # w => task'[v] = task[v]
        /\ uncounted' = uncounted \ {NoteOf(task[w].pair)}
    BY <1>8, RecountInsertedEffect, RecountRemovedEffect DEF Continues, Ends
  <2> QED
    BY <2>1, RecountRight DEF Stages
<1> QED
  BY <1>1, <1>2, <1>3, <1>4, <1>5, <1>6, <1>7, <1>8, DeleteNoteCounts, FailCounts
     DEF Next, BatchStep

LEMMA CountHolds == Spec => []CountInv
<1>1. Init => CountInv
  <2> SUFFICES ASSUME Init
               PROVE  CountInv
    OBVIOUS
  <2>1. BaseInv
    BY BaseInit
  <2>2. ASSUME NEW n \in notes
        PROVE  CountRight(n)
    <3>1. n \in Notes /\ reblogsCount[n] = 0 /\ interactionCount[n] = 0
      BY DEF Init
    <3>2. LocalFavouritesOf(n) = {} /\ LocalBookmarksOf(n) = {}
      BY DEF Init, LocalFavouritesOf, LocalBookmarksOf
    <3>3. RebloggersOf(n) = {} /\ LocalRebloggersOf(n) = {}
      BY <3>1 DEF Init, RebloggersOf, LocalRebloggersOf, Reblogged, Pairs, Actors
    <3>4. /\ Cardinality(LocalFavouritesOf(n)) = 0 /\ Cardinality(LocalBookmarksOf(n)) = 0
          /\ Cardinality(RebloggersOf(n)) = 0 /\ Cardinality(LocalRebloggersOf(n)) = 0
      BY <3>2, <3>3, FS_EmptySet, Zenon
    <3> QED
      BY <3>1, <3>4 DEF CountRight, LocalInteractions
  <2> QED
    BY <2>1, <2>2 DEF CountInv
<1>2. CountInv /\ [Next]_vars => CountInv'
  BY CountNext
<1> QED
  BY <1>1, <1>2, PTL DEF Spec

\* For any notes and handlers: the counter of a remote note is never lower than the number of
\* users who have favourited it plus the number of those who have bookmarked it.
THEOREM InteractionsAreProtected == Spec => []InteractionsProtect
<1>1. CountInv => InteractionsProtect
  BY DEF CountInv, CountRight, InteractionsProtect
<1> QED
  BY <1>1, CountHolds, PTL

\* Both counters are exact where no handler of a reblog still has to recount, or has died
\* before it did.
THEOREM InteractionsCountersSettle == Spec => []CountersSettle
<1>1. CountInv => CountersSettle
  BY DEF CountInv, CountRight, CountersSettle
<1> QED
  BY <1>1, CountHolds, PTL

-----------------------------------------------------------------------------
(* The rows of reblogs. *)

\* A handler has an activity, or an outbox row too, that is not part of a reblog.
Pending(t) == t.at \in Holding \cup {"announce"} /\ ~t.found

\* What a handler can rely on at its stage, whatever others do meanwhile.
Knows(t) ==
    /\ t.activity \in LocalActivities => t.activity \in spent
    /\ Pending(t) /\ Local(t.pair) =>
          /\ t.activity \in activities \ undone
          /\ \A q \in Pairs : reblogs[q].activity # t.activity
    /\ t.at \in Holding =>
          /\ outbox[t.outbox] \in {t.pair, None}
          /\ ~t.found => \A q \in Pairs : reblogs[q].outbox # t.outbox
          /\ t.found /\ outbox[t.outbox] # None => reblogs[t.pair].outbox = t.outbox
    /\ t.at \in {"select", "remove"} /\ Local(t.pair) /\ t.activity # None =>
          \A q \in Pairs : reblogs[q].activity = t.activity => q = t.pair
    /\ t.at \in {"recountRemoved", "undo"} /\ Local(t.pair) /\ t.activity # None =>
          \A q \in Pairs : reblogs[q].activity # t.activity

\* What one handler is about to insert, no other handler has.
Apart(s, t) ==
    /\ Pending(s) /\ Local(s.pair) => t.activity # s.activity
    /\ s.outbox # None => t.outbox # s.outbox

RowInv ==
    /\ ReblogsArePublished
    /\ UndoneIsGone
    /\ \A p, q \in Pairs : Reblogged(p) /\ reblogs[p].activity = reblogs[q].activity => p = q
    /\ activities \subseteq spent /\ undone \subseteq spent

ReblogInv ==
    /\ BaseInv
    /\ RowInv
    /\ \A w \in Workers : Knows(task[w])
    /\ \A v, w \in Workers : v # w => Apart(task[v], task[w])

LEMMA IdleKnows ==
    /\ Idle.activity = None /\ Idle.outbox = None /\ Idle.at = "idle" /\ ~Pending(Idle)
    /\ None \notin LocalActivities /\ None \notin Announces /\ None \notin OutboxIds /\ None \notin Pairs
BY InteractionsAssumption DEF Idle, Pending, Holding, Activities

\* A step of another handler leaves v what it relies on.
Undisturbed(v) ==
    LET t == task[v] IN
    /\ Pending(t) /\ Local(t.pair) => t.activity \in activities' \ undone'
    /\ \A q \in Pairs :
          \/ reblogs'[q] = reblogs[q]
          \/ reblogs'[q] = NoReblog
          \/ /\ Local(t.pair) => reblogs'[q].activity # t.activity
             /\ t.at \in Holding => reblogs'[q].outbox # t.outbox
    /\ t.at \in Holding =>
          /\ outbox'[t.outbox] \in {outbox[t.outbox], None}
          /\ t.found /\ outbox'[t.outbox] # None => reblogs'[t.pair] = reblogs[t.pair]

LEMMA KnowsStays ==
    ASSUME ReblogInv, NEW v \in Workers, task'[v] = task[v], spent \subseteq spent', Undisturbed(v)
    PROVE  Knows(task[v])'
<1>1. CASE task[v] = Idle
  BY <1>1, IdleKnows DEF Knows, Holding
<1>2. CASE task[v] # Idle
  <2>1. task[v].at \in Stages /\ FitsStage(task[v]) /\ Knows(task[v])
    BY <1>2, AtFits, AtWork DEF ReblogInv
  <2>2. task[v].at \in Holding => task[v].outbox # None
    BY <2>1 DEF FitsStage
  <2>3. Pending(task[v]) => task[v].activity # None
    BY <2>1 DEF FitsStage, Pending
  <2>4. NoReblog.activity = None /\ NoReblog.outbox = None
    BY DEF NoReblog
  <2> DEFINE t == task[v]
  <2>5. t.activity \in LocalActivities => t.activity \in spent'
    BY <2>1 DEF Knows
  <2>6. Pending(t) /\ Local(t.pair) =>
           /\ t.activity \in activities' \ undone'
           /\ \A q \in Pairs : reblogs'[q].activity # t.activity
    BY <2>1, <2>3, <2>4 DEF Knows, Undisturbed
  <2>7. t.at \in Holding =>
           /\ outbox'[t.outbox] \in {t.pair, None}
           /\ ~t.found => \A q \in Pairs : reblogs'[q].outbox # t.outbox
           /\ t.found /\ outbox'[t.outbox] # None => reblogs'[t.pair].outbox = t.outbox
    BY <2>1, <2>2, <2>4 DEF Knows, Undisturbed
  <2>8. t.at \in {"select", "remove"} /\ Local(t.pair) /\ t.activity # None =>
           \A q \in Pairs : reblogs'[q].activity = t.activity => q = t.pair
    BY <2>1, <2>4 DEF Knows, Undisturbed
  <2>9. t.at \in {"recountRemoved", "undo"} /\ Local(t.pair) /\ t.activity # None =>
           \A q \in Pairs : reblogs'[q].activity # t.activity
    BY <2>1, <2>4 DEF Knows, Undisturbed
  <2> QED
    BY <2>5, <2>6, <2>7, <2>8, <2>9 DEF Knows, Pending, Local
<1> QED
  BY <1>1, <1>2

\* Steps of a handler w, after which w knows what it should and has what no other has.
LEMMA ReblogStep ==
    ASSUME ReblogInv, BaseInv', RowInv', NEW w \in Workers, spent \subseteq spent',
           \A v \in Workers : v # w => task'[v] = task[v] /\ Undisturbed(v),
           Knows(task[w])',
           \A v \in Workers : v # w => Apart(task'[w], task[v]) /\ Apart(task[v], task'[w])
    PROVE  ReblogInv'
<1>1. \A v \in Workers : Knows(task[v])'
  BY KnowsStays
<1>2. ASSUME NEW u \in Workers, NEW v \in Workers, u # v
      PROVE  Apart(task'[u], task'[v])
  BY <1>2 DEF ReblogInv
<1> QED
  BY <1>1, <1>2 DEF ReblogInv, Apart, Pending, Local

LEMMA SteadyRows ==
    ASSUME ReblogInv, UNCHANGED <<reblogs, outbox, undone>>, activities \subseteq activities',
           NEW v \in Workers
    PROVE  Undisturbed(v)
BY DEF ReblogInv, Knows, Undisturbed

\* What a handler knows when it has ended, and when it goes on with what it has.
LEMMA EndsKnows ==
    ASSUME ReblogInv, NEW w \in Workers, Ends(w)
    PROVE  /\ Knows(task[w])'
           /\ \A v \in Workers : v # w => Apart(task'[w], task[v]) /\ Apart(task[v], task'[w])
<1>1. task'[w] = Idle
  BY DEF Ends
<1>2. Knows(task[w])'
  BY <1>1, IdleKnows DEF Knows, Holding, Pending
<1>3. ASSUME NEW v \in Workers
      PROVE  Apart(Idle, task[v]) /\ Apart(task[v], Idle)
  <2>1. Pending(task[v]) => task[v].activity # None
    <3>1. CASE task[v] = Idle
      BY <3>1, IdleKnows
    <3>2. CASE task[v] # Idle
      BY <3>2, AtFits, AtWork DEF ReblogInv, FitsStage, Pending
    <3> QED
      BY <3>1, <3>2
  <2> QED
    BY <2>1, IdleKnows DEF Apart
<1> QED
  BY <1>1, <1>2, <1>3

LEMMA KeepsApart ==
    ASSUME ReblogInv, NEW w \in Workers, task'[w].activity = task[w].activity,
           task'[w].pair = task[w].pair, task'[w].outbox \in {task[w].outbox, None},
           Pending(task'[w]) => Pending(task[w]), NEW v \in Workers, v # w
    PROVE  Apart(task'[w], task[v]) /\ Apart(task[v], task'[w])
BY DEF ReblogInv, Apart

\* Steps that change no row: the outbox row that w held stays held, or is part of a reblog, or
\* nobody will give it one.
LEMMA QuietRows ==
    ASSUME ReblogInv, BaseInv', NEW w \in Workers,
           UNCHANGED <<reblogs, outbox, activities, spent, undone>>, orphaned \subseteq orphaned',
           \A v \in Workers : v # w => task'[v] = task[v],
           Knows(task[w])',
           \A v \in Workers : v # w => Apart(task'[w], task[v]) /\ Apart(task[v], task'[w]),
           \/ task[w].outbox = None
           \/ task'[w].outbox = task[w].outbox
           \/ task[w].outbox \in orphaned'
           \/ outbox[task[w].outbox] = None
           \/ reblogs[outbox[task[w].outbox]].outbox = task[w].outbox
    PROVE  ReblogInv'
<1>1. \A i \in OutboxIds \ orphaned' : outbox[i] # None =>
         \/ reblogs[outbox[i]].outbox = i
         \/ \E v \in Workers : task'[v].outbox = i
  <2> SUFFICES ASSUME NEW i \in OutboxIds \ orphaned', outbox[i] # None,
                      reblogs[outbox[i]].outbox # i
               PROVE  \E v \in Workers : task'[v].outbox = i
    OBVIOUS
  <2>1. PICK v \in Workers : task[v].outbox = i
    BY DEF ReblogInv, RowInv, ReblogsArePublished
  <2>2. i # None
    BY IdleKnows
  <2> QED
    BY <2>1, <2>2
<1>2. RowInv'
  BY <1>1 DEF ReblogInv, RowInv, ReblogsArePublished, UndoneIsGone, Reblogged
<1> QED
  BY <1>2, SteadyRows, ReblogStep

LEMMA BatchRows ==
    ASSUME ReblogInv, BaseInv', NEW w \in Workers, NEW p \in Pairs, BatchStep(w, p)
    PROVE  ReblogInv'
<1>1. /\ task'[w].at = "recount" /\ task'[w].activity = None /\ task'[w].outbox = None
      /\ task[w] = Idle /\ \A v \in Workers : v # w => task'[v] = task[v]
      /\ UNCHANGED <<reblogs, outbox, activities, history>>
  BY BatchEffect DEF ReblogInv
<1>2. Knows(task[w])'
  BY <1>1, IdleKnows DEF Knows, Pending, Holding
<1>3. ~Pending(task'[w])
  BY <1>1 DEF Pending, Holding
<1>4. \A v \in Workers : Pending(task[v]) => task[v].activity # None
  BY AtFits, AtWork, IdleKnows DEF ReblogInv, FitsStage, Pending
<1>5. \A v \in Workers : v # w => Apart(task'[w], task[v]) /\ Apart(task[v], task'[w])
  BY <1>1, <1>3, <1>4 DEF Apart
<1> QED
  BY <1>1, <1>2, <1>5, QuietRows, IdleKnows DEF history

\* Handlers that end without a change of the rows.
LEMMA EndRows ==
    ASSUME ReblogInv, BaseInv', NEW w \in Workers,
           RecountInteractions(w) \/ DeliverAnnounce(w) \/ (SelectByNote(w) /\ Ends(w))
           \/ (RecountRemoved(w) /\ Ends(w)) \/ Fail(w)
    PROVE  ReblogInv'
<1>1. /\ Ends(w) /\ UNCHANGED <<reblogs, outbox, activities, spent, undone>>
      /\ orphaned \subseteq orphaned'
  BY FinishEnds DEF ReblogInv, RecountInteractions, DeliverAnnounce, SelectByNote, RecountRemoved,
     Fail, rows, history
<1>2. task[w].at \in Stages /\ FitsStage(task[w])
  <2>1. task[w].at \in Stages
    BY AtFits DEF ReblogInv, RecountInteractions, DeliverAnnounce, SelectByNote, RecountRemoved,
       Fail, At, Stages
  <2> QED
    BY <2>1, AtWork DEF ReblogInv
<1>3. \/ task[w].outbox = None
      \/ task[w].outbox \in orphaned'
      \/ outbox[task[w].outbox] = None
      \/ reblogs[outbox[task[w].outbox]].outbox = task[w].outbox
  <2>1. CASE task[w].at \notin Holding
    BY <1>2, <2>1 DEF FitsStage
  <2>2. CASE task[w].at \in Holding
    <3>1. Fail(w)
      BY <2>2 DEF Holding, RecountInteractions, DeliverAnnounce, SelectByNote, RecountRemoved, At
    <3>2. task[w].found /\ outbox[task[w].outbox] # None =>
             reblogs[outbox[task[w].outbox]].outbox = task[w].outbox
      BY <2>2 DEF ReblogInv, Knows
    <3>3. ~task[w].found /\ outbox[task[w].outbox] # None => task[w].outbox \in orphaned'
      BY <2>2, <3>1 DEF Fail, Owned, Holding
    <3> QED
      BY <3>2, <3>3
  <2> QED
    BY <2>1, <2>2
<1> QED
  BY <1>1, <1>3, EndsKnows, QuietRows DEF Ends

\* Handlers that go on without a change of the rows.
LEMMA ContinueRows ==
    ASSUME ReblogInv, BaseInv', NEW w \in Workers,
           \/ RecountInserted(w)
           \/ SelectByNote(w) /\ Continues(w, "remove")
           \/ RecountRemoved(w) /\ Continues(w, "undo")
    PROVE  ReblogInv'
<1>1. /\ task[w].at \in {"recountInserted", "select", "recountRemoved"}
      /\ UNCHANGED <<reblogs, outbox, activities, spent, undone, orphaned>>
      /\ \A v \in Workers : v # w => task'[v] = task[v]
      /\ task'[w].pair = task[w].pair /\ task'[w].activity = task[w].activity
  BY RecountInsertedEffect DEF ReblogInv, SelectByNote, RecountRemoved, At, Continues, rows, history
<1>2. FitsStage(task[w]) /\ Knows(task[w])
  BY <1>1, AtWork DEF ReblogInv, Stages
<1>3. CASE RecountInserted(w)
  <2>1. \/ /\ task[w].found /\ task'[w].at = "deliver" /\ task'[w].outbox = None /\ task'[w].found
        \/ /\ ~task[w].found /\ task'[w].at = "compensate" /\ ~task'[w].found
           /\ task'[w].outbox = task[w].outbox
    BY <1>3, RecountInsertedEffect DEF ReblogInv, Continues
  <2>2. task[w].at = "recountInserted"
    BY <1>3 DEF RecountInserted, At
  <2>3. Knows(task[w])'
    BY <1>1, <1>2, <2>1, <2>2 DEF Knows, Pending, Holding, Local
  <2>4. Pending(task'[w]) => Pending(task[w])
    BY <2>1, <2>2 DEF Pending, Holding
  <2>5. \A v \in Workers : v # w => Apart(task'[w], task[v]) /\ Apart(task[v], task'[w])
    BY <1>1, <2>1, <2>4, KeepsApart
  <2>6. \/ task'[w].outbox = task[w].outbox
        \/ outbox[task[w].outbox] = None
        \/ reblogs[outbox[task[w].outbox]].outbox = task[w].outbox
    BY <1>2, <2>1, <2>2 DEF Knows, Holding
  <2> QED
    BY <1>1, <2>3, <2>5, <2>6, QuietRows
<1>4. CASE ~RecountInserted(w)
  <2>1. /\ task'[w].outbox = task[w].outbox
        /\ \/ task[w].at = "select" /\ task'[w].at = "remove"
           \/ task[w].at = "recountRemoved" /\ task'[w].at = "undo"
    <3>1. CASE SelectByNote(w) /\ Continues(w, "remove")
      <4>1. task[w].at = "select" /\ task'[w].at = "remove" /\ task'[w] # Idle
        BY <3>1, IdleKnows DEF SelectByNote, At, Continues
      <4> QED
        BY <3>1, <4>1, SelectEffect DEF ReblogInv, Ends
    <3>2. CASE RecountRemoved(w) /\ Continues(w, "undo")
      <4>1. task[w].at = "recountRemoved" /\ task'[w].at = "undo" /\ task'[w] # Idle
        BY <3>2, IdleKnows DEF RecountRemoved, At, Continues
      <4> QED
        BY <3>2, <4>1, RecountRemovedEffect DEF ReblogInv, Ends
    <3> QED
      BY <1>4, <3>1, <3>2
  <2>2. Knows(task[w])'
    BY <1>1, <1>2, <2>1 DEF Knows, Pending, Holding, Local
  <2>3. Pending(task'[w]) => Pending(task[w])
    BY <2>1 DEF Pending, Holding
  <2>4. \A v \in Workers : v # w => Apart(task'[w], task[v]) /\ Apart(task[v], task'[w])
    BY <1>1, <2>1, <2>3, KeepsApart
  <2> QED
    BY <1>1, <2>1, <2>2, <2>4, QuietRows
<1> QED
  BY <1>3, <1>4

LEMMA PendingHas ==
    ASSUME ReblogInv, NEW v \in Workers, Pending(task[v]) /\ Local(task[v].pair)
    PROVE  /\ task[v].activity \in LocalActivities
           /\ \A q \in Pairs : reblogs[q].activity # task[v].activity
<1>1. task[v].at \in Stages
  BY DEF Pending, Holding, Stages
<1>2. FitsStage(task[v])
  BY <1>1, AtWork DEF ReblogInv
<1> QED
  BY <1>2 DEF ReblogInv, Knows, Pending, FitsStage, ActivitiesOf

\* Handlers that begin without a change of the rows.
LEMMA BeginRows ==
    ASSUME ReblogInv, BaseInv', NEW w \in Workers,
           HandleAnnounce(w) \/ BeginUnreblog(w) \/ HandleUndo(w)
    PROVE  ReblogInv'
<1>1. UNCHANGED <<reblogs, outbox, activities, spent, undone, orphaned>>
  BY DEF HandleAnnounce, BeginUnreblog, HandleUndo, rows, history
<1>2. ASSUME NEW p \in Pairs, NEW a, NEW stage,
             Begins(w, p, stage, a), Knows(task[w])', Local(p) => stage = "select",
             \A v \in Workers : Pending(task[v]) /\ Local(task[v].pair) => task[v].activity # a
      PROVE  ReblogInv'
  <2>1. Pending(task'[w]) => ~Local(task'[w].pair)
    BY <1>2 DEF Begins, Pending, Holding
  <2>2. \A v \in Workers : v # w => Apart(task'[w], task[v]) /\ Apart(task[v], task'[w])
    BY <1>2, <2>1 DEF Apart, Begins
  <2>3. task[w].outbox = None /\ \A v \in Workers : v # w => task'[v] = task[v]
    BY <1>2, IdleKnows DEF Begins
  <2> QED
    BY <1>1, <1>2, <2>2, <2>3, QuietRows
<1>3. ASSUME NEW p \in Pairs, NEW a \in Announces, NEW stage \in {"announce", "remove"}, ~Local(p),
             Begins(w, p, stage, a)
      PROVE  ReblogInv'
  <2>1. a \notin LocalActivities
    BY InteractionsAssumption
  <2>2. Knows(task[w])'
    BY <1>3, <2>1 DEF Knows, Begins, Pending, Holding, Local
  <2>3. \A v \in Workers : Pending(task[v]) /\ Local(task[v].pair) => task[v].activity # a
    BY <2>1, PendingHas
  <2> QED
    BY <1>2, <1>3, <2>2, <2>3
<1>4. ASSUME NEW p \in Pairs, Local(p), Begins(w, p, "select", reblogs[p].activity)
      PROVE  ReblogInv'
  <2> PICK a : a = reblogs[p].activity
    OBVIOUS
  <2>1. a \in LocalActivities => a \in spent /\ Reblogged(p)
    BY <1>4, IdleKnows, ReblogType DEF ReblogInv, RowInv, ReblogsArePublished, Reblogged, NoReblog
  <2>2. a # None => \A q \in Pairs : reblogs[q].activity = a => q = p
    BY ReblogType DEF ReblogInv, RowInv
  <2>3. Knows(task[w])'
    BY <1>1, <1>4, <2>1, <2>2 DEF Knows, Begins, Pending, Holding, Local
  <2>4. \A v \in Workers : Pending(task[v]) /\ Local(task[v].pair) => task[v].activity # a
    BY PendingHas
  <2> QED
    BY <1>2, <1>4, <2>3, <2>4
<1> QED
  BY <1>3, <1>4, HandleAnnounceEffect, BeginUnreblogEffect, HandleUndoEffect DEF ReblogInv

LEMMA BeginReblogRows ==
    ASSUME ReblogInv, BaseInv', NEW w \in Workers, BeginReblog(w)
    PROVE  ReblogInv'
<1>1. PICK p \in Pairs, a \in LocalActivities \ spent :
         /\ Local(p) /\ Begins(w, p, "announce", a)
         /\ activities' = activities \cup {a} /\ spent' = spent \cup {a}
         /\ UNCHANGED <<reblogs, outbox, orphaned, undone>>
  BY BeginReblogEffect DEF ReblogInv
<1>2. a \notin activities /\ a \notin undone
  BY DEF ReblogInv, RowInv
<1>3. \A q \in Pairs : reblogs[q].activity # a
  <2>1. ASSUME NEW q \in Pairs, Reblogged(q)
        PROVE  reblogs[q].activity # a
    BY <1>2, <2>1, ReblogType, InteractionsAssumption, IdleKnows DEF ReblogInv, RowInv,
       ReblogsArePublished, ActivitiesOf
  <2>2. ASSUME NEW q \in Pairs, ~Reblogged(q)
        PROVE  reblogs[q].activity # a
    BY <2>2, ReblogType, IdleKnows DEF ReblogInv
  <2> QED
    BY <2>1, <2>2
<1>4. Knows(task[w])'
  BY <1>1, <1>2, <1>3 DEF Knows, Begins, Pending, Holding, Local
<1>5. \A v \in Workers : task[v].activity # a
  BY DEF ReblogInv, Knows
<1>6. \A v \in Workers : v # w => Apart(task'[w], task[v]) /\ Apart(task[v], task'[w])
  BY <1>1, <1>5 DEF Apart, Begins
<1>7. RowInv'
  <2>1. \A i \in OutboxIds \ orphaned : outbox[i] # None =>
           \/ reblogs[outbox[i]].outbox = i
           \/ \E v \in Workers : task'[v].outbox = i
    BY <1>1, IdleKnows DEF ReblogInv, RowInv, ReblogsArePublished, Begins
  <2> QED
    BY <1>1, <2>1 DEF ReblogInv, RowInv, ReblogsArePublished, UndoneIsGone, Reblogged
<1>8. \A v \in Workers : v # w => task'[v] = task[v] /\ Undisturbed(v)
  BY <1>1, SteadyRows DEF Begins
<1> QED
  BY <1>1, <1>4, <1>6, <1>7, <1>8, ReblogStep

LEMMA AddObjectRows ==
    ASSUME ReblogInv, BaseInv', NEW w \in Workers, AddObjectInOutbox(w)
    PROVE  ReblogInv'
<1>1. PICK i \in OutboxIds :
         /\ i = task'[w].outbox /\ Fresh(i) /\ Continues(w, "insert")
         /\ outbox' = [outbox EXCEPT ![i] = task[w].pair]
         /\ task'[w].found = task[w].found /\ task[w].at = "announce"
         /\ UNCHANGED <<reblogs, activities, spent, orphaned, undone>>
  BY AddObjectEffect DEF ReblogInv, history
<1>2. /\ task[w].pair \in Pairs /\ FitsStage(task[w]) /\ Knows(task[w]) /\ ~task[w].found
      /\ outbox \in [OutboxIds -> Pairs \cup {None}]
  BY <1>1, AtWork, BaseTypes DEF ReblogInv, Stages, FitsStage
<1>3. outbox[i] = None /\ \A v \in Workers : task[v].outbox # i
  BY <1>1 DEF Fresh
<1>4. \A q \in Pairs : reblogs[q].outbox # i
  BY <1>3, ReblogType, IdleKnows DEF ReblogInv, RowInv, ReblogsArePublished
<1>5. Knows(task[w])'
  BY <1>1, <1>2, <1>4 DEF Knows, Continues, Pending, Holding, Local
<1>6. ASSUME NEW v \in Workers, v # w
      PROVE  Apart(task'[w], task[v]) /\ Apart(task[v], task'[w])
  BY <1>1, <1>2, <1>3, <1>6 DEF ReblogInv, Apart, Pending, Holding, Continues
<1>7. ASSUME NEW v \in Workers, v # w
      PROVE  task'[v] = task[v] /\ Undisturbed(v)
  <2>1. Undisturbed(v)
    <3>1. task[v].at \in Holding => task[v].outbox \in OutboxIds
      BY AtWork DEF ReblogInv, Holding, Stages
    <3> QED
      BY <1>1, <1>2, <1>3, <3>1 DEF ReblogInv, Knows, Undisturbed
  <2> QED
    BY <1>1, <1>7, <2>1 DEF Continues
<1>8. RowInv'
  <2>1. ASSUME NEW q \in Pairs, Reblogged(q)
        PROVE  outbox'[reblogs[q].outbox] = q
    BY <1>1, <1>2, <1>4, <2>1, ReblogType DEF ReblogInv, RowInv, ReblogsArePublished
  <2>2. ASSUME NEW j \in OutboxIds \ orphaned, outbox'[j] # None
        PROVE  \/ reblogs[outbox'[j]].outbox = j
               \/ \E v \in Workers : task'[v].outbox = j
    <3>1. CASE j = i
      BY <1>1, <3>1
    <3>2. CASE j # i
      <4>1. outbox'[j] = outbox[j]
        BY <1>1, <1>2, <3>2
      <4>2. task[w].outbox = None
        BY <1>1, <1>2 DEF FitsStage, Holding
      <4> QED
        BY <1>1, <2>2, <4>1, <4>2, IdleKnows DEF ReblogInv, RowInv, ReblogsArePublished, Continues
    <3> QED
      BY <3>1, <3>2
  <2> QED
    BY <1>1, <2>1, <2>2 DEF ReblogInv, RowInv, ReblogsArePublished, UndoneIsGone, Reblogged
<1> QED
  BY <1>1, <1>5, <1>6, <1>7, <1>8, ReblogStep

LEMMA InsertReblogRows ==
    ASSUME ReblogInv, BaseInv', NEW w \in Workers, InsertReblog(w)
    PROVE  ReblogInv'
<1> PICK p \in Pairs, a \in Activities, i \in OutboxIds :
       p = task[w].pair /\ a = task[w].activity /\ i = task[w].outbox
  BY InsertReblogEffect, AtWork DEF ReblogInv, Stages, Holding, FitsStage
<1>1. /\ task[w].at = "insert" /\ outbox[i] = p /\ Continues(w, "recountInserted")
      /\ task'[w].outbox = i
      /\ UNCHANGED <<outbox, activities, spent, orphaned, undone>>
      /\ \/ ~task'[w].found /\ UNCHANGED reblogs
         \/ /\ ~Ignored(p, a) /\ task'[w].found
            /\ reblogs' = [reblogs EXCEPT ![p] = [activity |-> a, outbox |-> i]]
  BY InsertReblogEffect DEF ReblogInv, history
<1>2. FitsStage(task[w]) /\ Knows(task[w]) /\ ~task[w].found /\ Pending(task[w])
  BY <1>1, AtWork DEF ReblogInv, Stages, FitsStage, Pending, Holding
<1>3. ASSUME NEW v \in Workers, v # w
      PROVE  /\ task'[v] = task[v]
             /\ Apart(task'[w], task[v]) /\ Apart(task[v], task'[w])
  BY <1>1, <1>2, <1>3, KeepsApart DEF Continues
<1>4. CASE UNCHANGED reblogs
  <2>1. ~task'[w].found
    <3>1. ~Ignored(p, a) => reblogs'[p].outbox = reblogs[p].outbox /\ ~Reblogged(p)
      BY <1>4 DEF Ignored
    <3>2. ~Ignored(p, a) => reblogs[p].outbox = None
      BY <3>1, ReblogType DEF ReblogInv
    <3>3. task'[w].found => reblogs' = [reblogs EXCEPT ![p] = [activity |-> a, outbox |-> i]]
                            /\ ~Ignored(p, a)
      BY <1>1
    <3>4. task'[w].found => reblogs'[p].outbox = i
      BY <3>3 DEF ReblogInv, BaseInv, TypeOK
    <3> QED
      BY <1>4, <3>2, <3>3, <3>4, IdleKnows
  <2>2. Knows(task[w])'
    BY <1>1, <1>2, <1>4, <2>1 DEF Knows, Continues, Pending, Holding, Local
  <2> QED
    BY <1>1, <1>3, <1>4, <2>2, QuietRows
<1>5. CASE ~Ignored(p, a) /\ task'[w].found
           /\ reblogs' = [reblogs EXCEPT ![p] = [activity |-> a, outbox |-> i]]
  <2>1. /\ reblogs'[p] = [activity |-> a, outbox |-> i] /\ ~Reblogged(p)
        /\ reblogs'[p].activity = a /\ reblogs'[p].outbox = i
        /\ \A q \in Pairs : q # p => reblogs'[q] = reblogs[q]
        /\ \A q \in Pairs : reblogs[q].activity # a
    BY <1>5 DEF ReblogInv, BaseInv, TypeOK, Ignored
  <2>2. Knows(task[w])'
    BY <1>1, <1>2, <1>5, <2>1 DEF Knows, Continues, Pending, Holding, Local
  <2>3. ASSUME NEW v \in Workers, v # w
        PROVE  Undisturbed(v)
    <3>1. Apart(task[w], task[v]) /\ Knows(task[v])
      BY <2>3 DEF ReblogInv
    <3>2. Local(task[v].pair) /\ Pending(task[v]) => task[v].activity \in activities \ undone
      BY <3>1 DEF Knows
    <3>3. task[v].activity # a \/ ~Local(task[v].pair)
      <4>1. CASE Local(p)
        BY <1>2, <3>1, <4>1 DEF Apart
      <4>2. CASE ~Local(p)
        <5>1. a \in Announces
          BY <1>1, <1>2, <4>2 DEF FitsStage, ActivitiesOf, Holding
        <5>2. task[v] = Idle => task[v].activity # a
          BY IdleKnows, InteractionsAssumption
        <5>3. task[v] # Idle /\ Local(task[v].pair) => task[v].activity \in LocalActivities \cup {None}
          BY AtFits, AtWork DEF ReblogInv, FitsStage, ActivitiesOf
        <5> QED
          BY <5>1, <5>2, <5>3, InteractionsAssumption, IdleKnows
      <4> QED
        BY <4>1, <4>2
    <3>4. task[v].outbox # i
      BY <3>1, IdleKnows DEF Apart
    <3>5. task[v].at \in Holding /\ task[v].found /\ outbox[task[v].outbox] # None
          => task[v].pair # p
      <4>1. task[v].at \in Holding => task[v].outbox \in OutboxIds
        BY AtWork DEF ReblogInv, Holding, Stages
      <4>2. reblogs[p].outbox = None
        BY <2>1, ReblogType DEF ReblogInv
      <4> QED
        BY <3>1, <4>1, <4>2, IdleKnows DEF Knows
    <3>6. task[v].at \in Holding => task[v].pair \in Pairs
      BY AtWork DEF ReblogInv, Holding, Stages
    <3> QED
      BY <1>1, <2>1, <3>2, <3>3, <3>4, <3>5, <3>6 DEF Undisturbed
  <2>4. RowInv'
    <3>1. ASSUME NEW q \in Pairs, reblogs'[q] # NoReblog
          PROVE  /\ outbox[reblogs'[q].outbox] = q
                 /\ Local(q) => reblogs'[q].activity \in activities
                 /\ reblogs'[q].activity \notin undone
      <4>1. CASE q # p
        BY <2>1, <3>1, <4>1 DEF ReblogInv, RowInv, ReblogsArePublished, UndoneIsGone, Reblogged
      <4>2. CASE q = p
        <5>1. CASE Local(p)
          BY <1>1, <1>2, <2>1, <4>2, <5>1 DEF Knows
        <5>2. CASE ~Local(p)
          <6>1. a \in Announces
            BY <1>1, <1>2, <5>2 DEF FitsStage, ActivitiesOf, Holding
          <6>2. a \notin undone
            BY <6>1, InteractionsAssumption DEF ReblogInv, BaseInv, TypeOK
          <6> QED
            BY <1>1, <2>1, <4>2, <5>2, <6>2
        <5> QED
          BY <5>1, <5>2
      <4> QED
        BY <4>1, <4>2
    <3>2. ASSUME NEW q \in Pairs, NEW r \in Pairs, reblogs'[q] # NoReblog,
                 reblogs'[q].activity = reblogs'[r].activity
          PROVE  q = r
      BY <2>1, <3>2 DEF ReblogInv, RowInv, Reblogged
    <3>3. ASSUME NEW j \in OutboxIds \ orphaned, outbox[j] # None
          PROVE  \/ reblogs'[outbox[j]].outbox = j
                 \/ \E v \in Workers : task'[v].outbox = j
      <4>1. CASE \E v \in Workers : task[v].outbox = j
        BY <1>1, <1>3, <4>1
      <4>2. CASE reblogs[outbox[j]].outbox = j
        <5>1. reblogs[p].outbox = None /\ outbox[j] \in Pairs
          BY <2>1, <3>3, ReblogType, BaseTypes DEF ReblogInv
        <5> QED
          BY <2>1, <4>2, <5>1, IdleKnows
      <4> QED
        BY <3>3, <4>1, <4>2 DEF ReblogInv, RowInv, ReblogsArePublished
    <3> QED
      BY <1>1, <3>1, <3>2, <3>3 DEF ReblogInv, RowInv, ReblogsArePublished, UndoneIsGone, Reblogged,
         Local
  <2> QED
    BY <1>1, <1>3, <2>2, <2>3, <2>4, ReblogStep
<1> QED
  BY <1>1, <1>4, <1>5
LEMMA CompensateRows ==
    ASSUME ReblogInv, BaseInv', NEW w \in Workers, Compensate(w)
    PROVE  ReblogInv'
<1> PICK a \in Activities, i \in OutboxIds : a = task[w].activity /\ i = task[w].outbox
  BY AtWork DEF ReblogInv, Compensate, At, Stages, Holding, FitsStage
<1>1. /\ task[w].at = "compensate" /\ Ends(w) /\ outbox' = [outbox EXCEPT ![i] = None]
      /\ activities' = activities \ {a}
      /\ UNCHANGED <<reblogs, spent, undone, orphaned>>
  BY FinishEnds DEF ReblogInv, Compensate, Compensated, At, history
<1>2. /\ FitsStage(task[w]) /\ Knows(task[w]) /\ ~task[w].found /\ Pending(task[w])
      /\ outbox \in [OutboxIds -> Pairs \cup {None}] /\ i # None
  BY <1>1, AtWork, BaseTypes, IdleKnows DEF ReblogInv, Stages, FitsStage, Pending, Holding
<1>3. \A q \in Pairs : reblogs[q].outbox # i
  BY <1>1, <1>2 DEF Knows, Holding
<1>4. Local(task[w].pair) \/ a \in Announces
  BY <1>1, <1>2 DEF FitsStage, ActivitiesOf, Holding
<1>5. ASSUME NEW q \in Pairs, Reblogged(q), Local(q)
      PROVE  reblogs[q].activity \in activities'
  <2>1. reblogs[q].activity \in activities /\ reblogs[q].activity \in LocalActivities
    BY <1>5 DEF ReblogInv, RowInv, ReblogsArePublished, BaseInv, TypeOK
  <2>2. Local(task[w].pair) => reblogs[q].activity # a
    BY <1>2 DEF Knows
  <2> QED
    BY <1>1, <1>4, <2>1, <2>2, InteractionsAssumption
<1>6. ASSUME NEW v \in Workers, v # w
      PROVE  task[v].outbox # i /\ Undisturbed(v)
  <2>1. Apart(task[w], task[v]) /\ Knows(task[v])
    BY <1>6 DEF ReblogInv
  <2>2. task[v].outbox # i
    BY <1>2, <2>1 DEF Apart
  <2>3. Pending(task[v]) /\ Local(task[v].pair) => task[v].activity # a
    BY <1>2, <1>4, <2>1, PendingHas, InteractionsAssumption DEF Apart
  <2>4. Pending(task[v]) /\ Local(task[v].pair) => task[v].activity \in activities' \ undone'
    BY <1>1, <2>1, <2>3 DEF Knows
  <2>5. task[v].at \in Holding => outbox'[task[v].outbox] = outbox[task[v].outbox]
    BY <1>1, <1>2, <2>2
  <2> QED
    BY <1>1, <2>2, <2>4, <2>5 DEF Undisturbed
<1>7. RowInv'
  <2>1. ASSUME NEW q \in Pairs, Reblogged(q)
        PROVE  outbox'[reblogs[q].outbox] = q
    BY <1>1, <1>2, <1>3, <2>1, ReblogType DEF ReblogInv, RowInv, ReblogsArePublished
  <2>2. ASSUME NEW j \in OutboxIds \ orphaned, outbox'[j] # None
        PROVE  \/ reblogs[outbox'[j]].outbox = j
               \/ \E v \in Workers : task'[v].outbox = j
    <3>1. j # i /\ outbox'[j] = outbox[j]
      BY <1>1, <1>2, <2>2
    <3>2. ASSUME NEW v \in Workers, task[v].outbox = j
          PROVE  task'[v].outbox = j
      BY <1>1, <3>1, <3>2 DEF Ends
    <3> QED
      BY <2>2, <3>1, <3>2 DEF ReblogInv, RowInv, ReblogsArePublished
  <2>3. activities' \subseteq spent'
    BY <1>1 DEF ReblogInv, RowInv
  <2> QED
    BY <1>1, <1>5, <2>1, <2>2, <2>3 DEF ReblogInv, RowInv, ReblogsArePublished, UndoneIsGone, Reblogged
<1> QED
  BY <1>1, <1>6, <1>7, EndsKnows, ReblogStep DEF Ends

LEMMA RemoveReblogRows ==
    ASSUME ReblogInv, BaseInv', NEW w \in Workers, RemoveReblog(w)
    PROVE  ReblogInv'
<1> PICK p \in Pairs : p = task[w].pair
  BY RemoveReblogEffect, AtWork DEF ReblogInv, Stages
<1>1. /\ task[w].at = "remove" /\ Continues(w, "recountRemoved")
      /\ task'[w].outbox = task[w].outbox
      /\ UNCHANGED <<activities, spent, orphaned, undone>>
      /\ \/ /\ Doomed(task[w]) /\ outbox' = [outbox EXCEPT ![reblogs[p].outbox] = None]
            /\ reblogs' = [reblogs EXCEPT ![p] = NoReblog]
         \/ ~Doomed(task[w]) /\ UNCHANGED <<outbox, reblogs>>
  BY RemoveReblogEffect DEF ReblogInv, history
<1>2. /\ FitsStage(task[w]) /\ Knows(task[w]) /\ task[w].outbox = None
      /\ ~Pending(task'[w]) /\ task'[w].at \notin Holding
  BY <1>1, AtWork DEF ReblogInv, Stages, FitsStage, Pending, Holding, Continues
<1>3. \A v \in Workers : v # w => Apart(task'[w], task[v]) /\ Apart(task[v], task'[w])
  BY <1>1, <1>2, KeepsApart DEF Continues
<1>4. \A v \in Workers : v # w => task'[v] = task[v]
  BY <1>1 DEF Continues
<1>5. ASSUME reblogs'[p] = NoReblog,
             \A q \in Pairs : q # p => reblogs'[q] = reblogs[q]
      PROVE  Knows(task[w])'
  <2>1. Local(p) /\ task[w].activity # None =>
           \A q \in Pairs : reblogs'[q].activity # task[w].activity
    BY <1>1, <1>2, <1>5 DEF Knows, NoReblog
  <2> QED
    BY <1>1, <1>2, <2>1 DEF Knows, Continues, Pending, Local
<1>6. CASE ~Doomed(task[w]) /\ UNCHANGED <<outbox, reblogs>>
  <2>1. Local(p) => ~Reblogged(p)
    BY <1>6 DEF Doomed
  <2>2. Knows(task[w])'
    <3>1. CASE Local(p)
      BY <1>5, <1>6, <2>1, <3>1 DEF Reblogged
    <3>2. CASE ~Local(p)
      BY <1>1, <1>2, <3>2 DEF Knows, Continues, Pending, Local
    <3> QED
      BY <3>1, <3>2
  <2> QED
    BY <1>1, <1>2, <1>3, <1>4, <1>6, <2>2, QuietRows
<1>7. CASE /\ Doomed(task[w]) /\ outbox' = [outbox EXCEPT ![reblogs[p].outbox] = None]
           /\ reblogs' = [reblogs EXCEPT ![p] = NoReblog]
  <2> PICK i \in OutboxIds : i = reblogs[p].outbox
    BY <1>7, ReblogType DEF ReblogInv, Doomed
  <2>1. /\ outbox[i] = p /\ outbox'[i] = None
        /\ \A j \in OutboxIds : j # i => outbox'[j] = outbox[j]
        /\ reblogs'[p] = NoReblog /\ \A q \in Pairs : q # p => reblogs'[q] = reblogs[q]
    BY <1>7, BaseTypes DEF ReblogInv, RowInv, ReblogsArePublished, Doomed, BaseInv, TypeOK
  <2>2. Knows(task[w])'
    BY <1>5, <2>1
  <2>3. ASSUME NEW v \in Workers, v # w
        PROVE  Undisturbed(v)
    <3>1. Knows(task[v])
      BY DEF ReblogInv
    <3>2. task[v].at \in Holding => task[v].outbox \in OutboxIds /\ task[v].pair \in Pairs
      BY AtWork DEF ReblogInv, Holding, Stages
    <3>3. task[v].at \in Holding => outbox'[task[v].outbox] \in {outbox[task[v].outbox], None}
      BY <2>1, <3>2
    <3>4. ASSUME task[v].at \in Holding, task[v].found, outbox'[task[v].outbox] # None
          PROVE  reblogs'[task[v].pair] = reblogs[task[v].pair]
      <4>1. task[v].outbox # i /\ outbox[task[v].outbox] # None
        BY <2>1, <3>2, <3>4
      <4>2. task[v].pair # p
        BY <3>1, <3>4, <4>1 DEF Knows
      <4> QED
        BY <2>1, <3>2, <3>4, <4>2
    <3> QED
      BY <1>1, <2>1, <3>1, <3>3, <3>4 DEF Undisturbed, Knows
  <2>4. RowInv'
    <3>1. ASSUME NEW q \in Pairs, reblogs'[q] # NoReblog
          PROVE  /\ outbox'[reblogs'[q].outbox] = q
                 /\ Local(q) => reblogs'[q].activity \in activities
                 /\ reblogs'[q].activity \notin undone
      <4>1. q # p /\ reblogs'[q] = reblogs[q] /\ Reblogged(q)
        BY <2>1, <3>1 DEF Reblogged
      <4>2. outbox[reblogs[q].outbox] = q /\ reblogs[q].outbox \in OutboxIds
        BY <4>1, ReblogType DEF ReblogInv, RowInv, ReblogsArePublished
      <4> QED
        BY <2>1, <4>1, <4>2 DEF ReblogInv, RowInv, ReblogsArePublished, UndoneIsGone
    <3>2. ASSUME NEW q \in Pairs, NEW r \in Pairs, reblogs'[q] # NoReblog,
                 reblogs'[q].activity = reblogs'[r].activity
          PROVE  q = r
      <4>1. q # p /\ reblogs'[q] = reblogs[q] /\ Reblogged(q)
        BY <2>1, <3>2 DEF Reblogged
      <4>2. reblogs[q].activity # None
        BY <4>1, ReblogType DEF ReblogInv
      <4>3. r # p
        BY <2>1, <3>2, <4>1, <4>2 DEF NoReblog
      <4> QED
        BY <2>1, <3>2, <4>1, <4>3 DEF ReblogInv, RowInv
    <3>3. ASSUME NEW j \in OutboxIds \ orphaned, outbox'[j] # None
          PROVE  \/ reblogs'[outbox'[j]].outbox = j
                 \/ \E v \in Workers : task'[v].outbox = j
      <4>1. j # i /\ outbox'[j] = outbox[j] /\ outbox[j] \in Pairs
        BY <2>1, <3>3, BaseTypes DEF ReblogInv
      <4>2. CASE \E v \in Workers : task[v].outbox = j
        BY <1>1, <1>4, <4>2
      <4>3. CASE reblogs[outbox[j]].outbox = j
        BY <2>1, <4>1, <4>3
      <4> QED
        BY <3>3, <4>1, <4>2, <4>3 DEF ReblogInv, RowInv, ReblogsArePublished
    <3> QED
      BY <1>1, <3>1, <3>2, <3>3 DEF ReblogInv, RowInv, ReblogsArePublished, UndoneIsGone, Reblogged,
         Local
  <2> QED
    BY <1>1, <1>3, <1>4, <2>2, <2>3, <2>4, ReblogStep
<1> QED
  BY <1>1, <1>6, <1>7

LEMMA DeliverUndoRows ==
    ASSUME ReblogInv, BaseInv', NEW w \in Workers, DeliverUndo(w)
    PROVE  ReblogInv'
<1>1. /\ task[w].at = "undo" /\ Ends(w) /\ undone' = undone \cup {task[w].activity}
      /\ UNCHANGED <<reblogs, outbox, activities, spent, orphaned>>
  BY FinishEnds DEF ReblogInv, DeliverUndo, At, rows
<1>2. FitsStage(task[w]) /\ Knows(task[w])
  BY <1>1, AtWork DEF ReblogInv, Stages
<1>3. /\ Local(task[w].pair) /\ task[w].outbox = None
      /\ task[w].activity \in LocalActivities /\ task[w].activity # None
  BY <1>1, <1>2 DEF FitsStage, Holding, ActivitiesOf
<1>4. /\ task[w].activity \in spent
      /\ \A q \in Pairs : reblogs[q].activity # task[w].activity
  BY <1>1, <1>2, <1>3 DEF Knows
<1>5. ASSUME NEW v \in Workers, v # w
      PROVE  Undisturbed(v)
  BY <1>1, <1>5 DEF ReblogInv, Apart, Knows, Undisturbed
<1>6. RowInv'
  <2>1. \A j \in OutboxIds \ orphaned : outbox[j] # None =>
           \/ reblogs[outbox[j]].outbox = j
           \/ \E v \in Workers : task'[v].outbox = j
    BY <1>1, <1>3, IdleKnows DEF ReblogInv, RowInv, ReblogsArePublished, Ends
  <2> QED
    BY <1>1, <1>4, <2>1 DEF ReblogInv, RowInv, ReblogsArePublished, UndoneIsGone, Reblogged
<1> QED
  BY <1>1, <1>5, <1>6, EndsKnows, ReblogStep DEF Ends

LEMMA DeleteNoteRows ==
    ASSUME ReblogInv, BaseInv', NEW n \in Notes, DeleteNote(n)
    PROVE  ReblogInv'
<1>1. /\ UNCHANGED <<task, activities, spent, undone>>
      /\ orphaned' = {i \in orphaned : NoteOf(outbox[i]) # n}
      /\ \A i \in OutboxIds : outbox'[i] = IF outbox[i] # None /\ NoteOf(outbox[i]) = n
                                           THEN None ELSE outbox[i]
      /\ \A q \in Pairs : reblogs'[q] = IF NoteOf(q) = n THEN NoReblog ELSE reblogs[q]
  BY DEF DeleteNote
<1>2. ASSUME NEW v \in Workers
      PROVE  Knows(task[v])'
  <2>1. task[v].at \in Holding => task[v].outbox \in OutboxIds /\ task[v].pair \in Pairs
    BY AtWork DEF ReblogInv, Holding, Stages
  <2>2. Knows(task[v])
    BY DEF ReblogInv
  <2>3. Undisturbed(v)
    BY <1>1, <2>1, <2>2 DEF Undisturbed, Knows
  <2> QED
    BY <1>1, <2>3, KnowsStays
<1>3. RowInv'
  <2>1. ASSUME NEW q \in Pairs, reblogs'[q] # NoReblog
        PROVE  /\ NoteOf(q) # n /\ reblogs'[q] = reblogs[q] /\ Reblogged(q)
               /\ outbox'[reblogs'[q].outbox] = q
    <3>1. NoteOf(q) # n /\ reblogs'[q] = reblogs[q] /\ Reblogged(q)
      BY <1>1, <2>1 DEF Reblogged
    <3>2. outbox[reblogs[q].outbox] = q /\ reblogs[q].outbox \in OutboxIds
      BY <3>1, ReblogType DEF ReblogInv, RowInv, ReblogsArePublished
    <3> QED
      BY <1>1, <3>1, <3>2
  <2>2. ASSUME NEW q \in Pairs, NEW r \in Pairs, reblogs'[q] # NoReblog,
               reblogs'[q].activity = reblogs'[r].activity
        PROVE  q = r
    <3>1. reblogs[q].activity # None
      BY <2>1, <2>2, ReblogType DEF ReblogInv
    <3>2. reblogs'[r] = reblogs[r]
      BY <1>1, <2>1, <2>2, <3>1 DEF NoReblog
    <3> QED
      BY <2>1, <2>2, <3>2 DEF ReblogInv, RowInv
  <2>3. ASSUME NEW j \in OutboxIds \ orphaned', outbox'[j] # None
        PROVE  \/ reblogs'[outbox'[j]].outbox = j
               \/ \E v \in Workers : task[v].outbox = j
    <3>1. outbox'[j] = outbox[j] /\ NoteOf(outbox[j]) # n /\ outbox[j] \in Pairs /\ j \notin orphaned
      BY <1>1, <2>3, BaseTypes DEF ReblogInv
    <3> QED
      BY <1>1, <2>3, <3>1 DEF ReblogInv, RowInv, ReblogsArePublished
  <2> QED
    BY <1>1, <2>1, <2>2, <2>3 DEF ReblogInv, RowInv, ReblogsArePublished, UndoneIsGone, Reblogged, Local
<1> QED
  BY <1>1, <1>2, <1>3 DEF ReblogInv, Apart, Pending, Local

LEMMA ReblogNext ==
    ASSUME ReblogInv, [Next]_vars
    PROVE  ReblogInv'
<1>1. BaseInv'
  BY BaseNext DEF ReblogInv
<1>2. CASE UNCHANGED vars
  BY <1>1, <1>2 DEF vars, rows, history, ReblogInv, RowInv, ReblogsArePublished, UndoneIsGone, Reblogged,
     Knows, Apart, Pending, Local
<1>3. ASSUME NEW w \in Workers, SelectByNote(w) \/ RecountRemoved(w)
      PROVE  ReblogInv'
  BY <1>1, <1>3, SelectEffect, RecountRemovedEffect, EndRows, ContinueRows DEF ReblogInv
<1> QED
  BY <1>1, <1>2, <1>3, BatchRows, EndRows, ContinueRows, BeginRows, BeginReblogRows, AddObjectRows,
     InsertReblogRows, CompensateRows, RemoveReblogRows, DeliverUndoRows, DeleteNoteRows
     DEF Next, BatchStep

LEMMA ReblogHolds == Spec => []ReblogInv
<1>1. Init => ReblogInv
  <2> SUFFICES ASSUME Init
               PROVE  ReblogInv
    OBVIOUS
  <2>1. /\ \A q \in Pairs : reblogs[q] = NoReblog /\ ~Reblogged(q)
        /\ \A i \in OutboxIds : outbox[i] = None
        /\ \A w \in Workers : task[w] = Idle
        /\ activities = {} /\ spent = {} /\ undone = {} /\ orphaned = {}
    BY DEF Init, Reblogged
  <2>2. \A w \in Workers : Knows(task[w])
    BY <2>1, IdleKnows DEF Knows, Holding
  <2>3. \A v, w \in Workers : Apart(task[v], task[w])
    BY <2>1, IdleKnows DEF Apart
  <2>4. RowInv
    BY <2>1 DEF RowInv, ReblogsArePublished, UndoneIsGone
  <2> QED
    BY <2>2, <2>3, <2>4, BaseInit DEF ReblogInv
<1>2. ReblogInv /\ [Next]_vars => ReblogInv'
  BY ReblogNext
<1> QED
  BY <1>1, <1>2, PTL DEF Spec

\* However the handlers of reblogs, of their withdrawal and of a note's deletion interleave, and
\* wherever they die: a reblog has its outbox row and its activity, and an outbox row that
\* announces a note has a reblog or a handler, or lost its handler.
THEOREM InteractionsReblogsArePublished == Spec => []ReblogsArePublished
<1>1. ReblogInv => ReblogsArePublished
  BY DEF ReblogInv, RowInv
<1> QED
  BY <1>1, ReblogHolds, PTL

\* An Undo that was handed out never names a reblog that stands, then or later: the id of an
\* Announce is given out once, and its row is gone before the Undo is made.
THEOREM InteractionsUndoneIsGone == Spec => []UndoneIsGone
<1>1. ReblogInv => UndoneIsGone
  BY DEF ReblogInv, RowInv
<1> QED
  BY <1>1, ReblogHolds, PTL
=============================================================================
