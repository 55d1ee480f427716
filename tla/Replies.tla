-------------------------------- MODULE Replies --------------------------------
(***************************************************************************)
(* Which note answers which, kept in three places: the inReplyTo of a       *)
(* note's properties, which names its parent as its origin does; the column *)
(* in_reply_to_id with the row of actor_replies, which name a row of        *)
(* objects; and the replies_count of the parent.                            *)
(*                                                                          *)
(* The last two are a projection of the first.  They are repaired whenever  *)
(* a note is read, and reading may fetch the parent and store it first; a   *)
(* reply is linked when it is posted, and unlinked with either of the notes.*)
(* A handler is cut at its database calls, a batch is one step.  The rest   *)
(* of posting and deleting is in Statuses, that of inbound notes in         *)
(* InboundNotes.                                                            *)
(***************************************************************************)
EXTENDS Integers, FiniteSets

CONSTANTS
    LocalNotes,         \* posted here, each once
    RemoteNotes,        \* of other instances: fetched again after they were deleted here
    ReplyTo,            \* the inReplyTo that the properties of a remote note may have
    MaxRows,            \* bound: how many rows a remote note may have, one after the other
    Workers,
    None

Notes == LocalNotes \cup RemoteNotes

\* A row of objects is a note and a number; the id of a row is never used again.
Rows == Notes \X (1..MaxRows)

ASSUME RepliesAssumption ==
    /\ IsFiniteSet(Notes)
    /\ LocalNotes \cap RemoteNotes = {}
    /\ None \notin Notes \cup Rows
    /\ ReplyTo \in [RemoteNotes -> SUBSET (Notes \cup {None})]
    /\ MaxRows \in Nat \ {0}

VARIABLES
    object,         \* the number of the row of a note in objects, 0 without one
    lastRow,        \* the last number given to a row of the note
    inReplyTo,      \* the note that the properties name, or None
    parent,         \* objects.in_reply_to_id: a row, or None
    replyRow,       \* the parent that the row of actor_replies names, or None without one
    repliesCount,   \* objects.replies_count
    task,           \* what a worker is about to do
    \* History: no handler reads it.
    overlooked      \* rows that lost a reply without a recount to come

projection == <<parent, replyRow, repliesCount>>
rows       == <<object, lastRow, inReplyTo, projection>>
vars       == <<rows, task, overlooked>>

Purposes == {"read", "create", "post", "update", "delete"}
Stages == {"findParent", "insertParent", "findGrandparent", "repairParent", "repair",
           "insertNote", "findPosted", "insertLocal", "insertReply",
           "updateNote", "readParent", "delete", "refresh"}

Idle == [at |-> "idle"]
Task == [at : Stages, why : Purposes, row : Rows, up : Rows \cup {None}, top : Rows \cup {None},
         named : Notes \cup {None}, answered : Rows \cup {None}] \cup {Idle}

TypeOK ==
    /\ object \in [Notes -> 0..MaxRows]
    /\ lastRow \in [Notes -> 0..MaxRows]
    /\ \A n \in Notes : object[n] \in {0, lastRow[n]}
    /\ inReplyTo \in [Notes -> Notes \cup {None}]
    /\ parent \in [Notes -> Rows \cup {None}]
    /\ replyRow \in [Notes -> Rows \cup {None}]
    /\ repliesCount \in [Notes -> 0..Cardinality(Notes)]
    /\ task \in [Workers -> Task]
    /\ overlooked \subseteq Rows

Init ==
    /\ object = [n \in Notes |-> 0]
    /\ lastRow = [n \in Notes |-> 0]
    /\ inReplyTo = [n \in Notes |-> None]
    /\ parent = [n \in Notes |-> None]
    /\ replyRow = [n \in Notes |-> None]
    /\ repliesCount = [n \in Notes |-> 0]
    /\ task = [w \in Workers |-> Idle]
    /\ overlooked = {}

-----------------------------------------------------------------------------
(* Rows. *)

RowOf(n)  == <<n, object[n]>>
NoteOf(r) == r[1]
Exists(r) == object[NoteOf(r)] = r[2]

RepliesTo(r) == {n \in Notes : object[n] # 0 /\ parent[n] = r}

\* The next row of a note, for a handler to insert.
NextRow(n) == <<n, lastRow[n] + 1>>
MayHaveRow(n) == lastRow[n] < (IF n \in LocalNotes THEN 1 ELSE MaxRows)

\* insertLocalObject and insertRemoteObject: original_object_id is unique.
Insert(r, answers) ==
    LET n == NoteOf(r) IN
    /\ object[n] = 0 /\ MayHaveRow(n) /\ r = NextRow(n)
    /\ object' = [object EXCEPT ![n] = r[2]]
    /\ lastRow' = [lastRow EXCEPT ![n] = r[2]]
    /\ inReplyTo' = [inReplyTo EXCEPT ![n] = answers]
    /\ repliesCount' = [repliesCount EXCEPT ![n] = 0]

-----------------------------------------------------------------------------
(* Workers. *)

At(w, stage) == task[w].at = stage
Stay(w, t)   == task' = [task EXCEPT ![w] = t]
Goto(w, stage) == Stay(w, [task[w] EXCEPT !.at = stage])
Finish(w)    == Stay(w, Idle)

NewTask(stage, why, r, name) ==
    [at |-> stage, why |-> why, row |-> r, up |-> None, top |-> None, named |-> name,
     answered |-> None]

NextStage == [delete |-> "readParent", update |-> "updateNote", post |-> "insertLocal"]

\* What the handler does once the note it is about is at hand.
Onward(w, t) ==
    IF t.why \in {"read", "create"} THEN Finish(w)
    ELSE Stay(w, [t EXCEPT !.at = NextStage[t.why], !.up = None, !.top = None, !.named = None])

-----------------------------------------------------------------------------
(* The link of a reply with its parent. *)

\* The column, the row and both counts, after the batch of insertReply.
Linked(c, p) == [parent EXCEPT ![NoteOf(c)] = p]

\* Mutant of Recounted: the new parent is counted as the old one is.
RecountedAlike(c, p) == [repliesCount EXCEPT ![NoteOf(p)] = Cardinality(RepliesTo(p)) - 1]

\* Mutant of Recounted: only the new parent is counted.
RecountedNewOnly(c, p) ==
    [repliesCount EXCEPT ![NoteOf(p)] = Cardinality(RepliesTo(p) \cup {NoteOf(c)})]

\* First statement: COUNT(*) - 1 for a parent that is another one; last statement: the
\* count of the new parent, of which the reply is one by then.
Recounted(c, p) ==
    LET old == parent[NoteOf(c)] IN
    [n \in Notes |->
        IF n = NoteOf(p) THEN Cardinality(RepliesTo(p) \cup {NoteOf(c)})
        ELSE IF old # None /\ old # p /\ n = NoteOf(old) THEN Cardinality(RepliesTo(old)) - 1
        ELSE repliesCount[n]]

\* The rows that Recounted has counted.
CountedBy(c, p) == {p} \cup {r \in Rows : r = parent[NoteOf(c)]}

\* insertReply, one batch.  The foreign keys of actor_replies need both notes.
InsertReply(c, p) ==
    /\ Exists(c) /\ Exists(p)
    /\ parent' = Linked(c, p)
    /\ replyRow' = [replyRow EXCEPT ![NoteOf(c)] = p]
    /\ repliesCount' = Recounted(c, p)
    /\ overlooked' = overlooked \ CountedBy(c, p)
    /\ UNCHANGED <<object, lastRow, inReplyTo>>

-----------------------------------------------------------------------------
(* getObjectBy: every read of a note repairs its link. *)

\* The row, and the properties in it, for a handler of the given purpose.
ReadNote(w, why) ==
    /\ task[w] = Idle
    /\ \E n \in Notes :
          /\ object[n] # 0
          /\ LET t == NewTask("findParent", why, RowOf(n), inReplyTo[n]) IN
             IF inReplyTo[n] = None THEN Onward(w, t) ELSE Stay(w, t)
    /\ UNCHANGED <<rows, overlooked>>

Read(w) == ReadNote(w, "read")

\* cacheReply: the row of the parent by its original id; without one, cacheObject.
FindParent(w) ==
    LET t == task[w] IN
    /\ At(w, "findParent")
    /\ IF object[t.named] # 0
       THEN IF t.why = "post" THEN Onward(w, t)
            ELSE Stay(w, [t EXCEPT !.at = "repair", !.up = RowOf(t.named), !.named = None])
       ELSE Stay(w, [t EXCEPT !.at = "insertParent"])
    /\ UNCHANGED <<rows, overlooked>>

\* fetchObject: the parent is gone at its origin, as a local note without a row is; or
\* the error of cacheReply is caught, which the handler of a Create does.
NoParent(w) ==
    /\ \/ At(w, "insertParent")
       \/ task[w] # Idle /\ task[w].why = "create"
             /\ task[w].at \in {"findParent", "findGrandparent", "repairParent"}
    /\ Onward(w, task[w])
    /\ UNCHANGED <<rows, overlooked>>

\* cacheObject for the parent, with what its origin says now.
InsertParent(w) ==
    LET t == task[w] IN
    /\ At(w, "insertParent")
    /\ t.named \in RemoteNotes
    /\ \E answers \in ReplyTo[t.named] :
          /\ Insert(NextRow(t.named), answers)
          /\ Stay(w, [t EXCEPT !.at = "findGrandparent", !.up = NextRow(t.named),
                               !.named = answers])
    /\ UNCHANGED <<parent, replyRow, overlooked>>

AfterParent(w, t) ==
    IF t.why = "post" THEN Onward(w, t) ELSE Stay(w, [t EXCEPT !.at = "repair"])

\* cacheReply at depth 0: the parent of the parent is looked up, and never fetched.
FindGrandparent(w) ==
    LET t == task[w] IN
    /\ At(w, "findGrandparent")
    /\ IF t.named # None /\ object[t.named] # 0
       THEN Stay(w, [t EXCEPT !.at = "repairParent", !.top = RowOf(t.named)])
       ELSE AfterParent(w, [t EXCEPT !.named = None])
    /\ UNCHANGED <<rows, overlooked>>

\* repairReplyProjection for the parent, and then for the note itself.
RepairParent(w) ==
    LET t == task[w] IN
    /\ At(w, "repairParent")
    /\ InsertReply(t.up, t.top)
    /\ AfterParent(w, [t EXCEPT !.top = None, !.named = None])

Repair(w) ==
    LET t == task[w] IN
    /\ At(w, "repair")
    /\ InsertReply(t.row, t.up)
    /\ Onward(w, t)

-----------------------------------------------------------------------------
(* New notes. *)

\* getAndCacheObject for a note without a row, by the handler of a Create.
BeginCreate(w) ==
    /\ task[w] = Idle
    /\ \E n \in RemoteNotes :
          /\ object[n] = 0 /\ MayHaveRow(n)
          /\ Stay(w, NewTask("insertNote", "create", NextRow(n), None))
    /\ UNCHANGED <<rows, overlooked>>

\* cacheObject for the note; its parent is looked for, and fetched, afterwards.
InsertNote(w) ==
    LET t == task[w] IN
    /\ At(w, "insertNote")
    /\ \E answers \in ReplyTo[NoteOf(t.row)] :
          /\ Insert(t.row, answers)
          /\ IF answers = None THEN Finish(w)
             ELSE Stay(w, [t EXCEPT !.at = "findParent", !.named = answers])
    /\ UNCHANGED <<parent, replyRow, overlooked>>

\* POST /api/v1/statuses with in_reply_to_id, when the parent has been read: createObject
\* looks for the parent by the name that the properties will have.
BeginPost(w) ==
    /\ task[w] = Idle
    /\ \E n \in LocalNotes, p \in Notes :
          /\ MayHaveRow(n) /\ \A v \in Workers : task[v] # Idle => task[v].row # NextRow(n)
          /\ object[p] # 0 /\ n # p
          /\ Stay(w, [NewTask("findParent", "post", NextRow(n), p)
                          EXCEPT !.answered = RowOf(p)])
    /\ UNCHANGED <<rows, overlooked>>

InsertLocal(w) ==
    LET t == task[w] IN
    /\ At(w, "insertLocal")
    /\ Insert(t.row, NoteOf(t.answered))
    /\ Goto(w, "insertReply")
    /\ UNCHANGED <<parent, replyRow, overlooked>>

\* insertReply, with the row of the parent that the route read at its start.
RecordReply(w) ==
    LET t == task[w] IN
    /\ At(w, "insertReply")
    /\ InsertReply(t.row, t.answered)
    /\ Finish(w)

-----------------------------------------------------------------------------
(* Changed and deleted notes. *)

\* handleUpdateActivity reads the note, and stores the properties that it was sent.
BeginUpdate(w) == ReadNote(w, "update")

UpdateNote(w) ==
    LET n == NoteOf(task[w].row) IN
    /\ At(w, "updateNote")
    /\ \E answers \in IF n \in RemoteNotes THEN ReplyTo[n] ELSE {inReplyTo[n]} :
          inReplyTo' = [inReplyTo EXCEPT ![n] = IF Exists(task[w].row) THEN answers ELSE @]
    /\ Finish(w)
    /\ UNCHANGED <<object, lastRow, projection, overlooked>>

\* The route and handleDeleteActivity read the note and call deleteObject, which reads
\* the parent that it will recount.
BeginDelete(w) == ReadNote(w, "delete")

GetReplyParentId(w) ==
    LET t == task[w] IN
    /\ At(w, "readParent")
    /\ Stay(w, [t EXCEPT !.at = "delete",
                         !.up = IF Exists(t.row) THEN parent[NoteOf(t.row)] ELSE None])
    /\ UNCHANGED <<rows, overlooked>>

\* Mutant of Unlinked: the column of the replies keeps the deleted note.
UnlinkedRowOnly(r) == [parent EXCEPT ![NoteOf(r)] = None]

\* in_reply_to_id after the batch of deleteObjectProjectionStatements.
Unlinked(r) ==
    [n \in Notes |-> IF n = NoteOf(r) \/ parent[n] = r THEN None ELSE parent[n]]

\* That batch; without the row it changes nothing.
DeleteBatch(w) ==
    LET r == task[w].row
        n == NoteOf(r)
    IN
    /\ At(w, "delete")
    /\ IF ~Exists(r) THEN UNCHANGED <<rows, overlooked>>
       ELSE /\ object' = [object EXCEPT ![n] = 0]
            /\ inReplyTo' = [inReplyTo EXCEPT ![n] = None]
            /\ parent' = Unlinked(r)
            /\ replyRow' = [m \in Notes |->
                   IF m = n \/ replyRow[m] = r THEN None ELSE replyRow[m]]
            /\ repliesCount' = [repliesCount EXCEPT ![n] = 0]
            /\ overlooked' = (overlooked \cup ({parent[n]} \ {None, task[w].up})) \ {r}
            /\ UNCHANGED lastRow
    /\ IF task[w].up = None THEN Finish(w) ELSE Goto(w, "refresh")

\* The UPDATE of refreshRepliesCount.
Refreshed(p) == [repliesCount EXCEPT ![NoteOf(p)] = Cardinality(RepliesTo(p))]

RefreshRepliesCount(w) ==
    LET p == task[w].up IN
    /\ At(w, "refresh")
    /\ IF Exists(p) THEN /\ repliesCount' = Refreshed(p)
                         /\ overlooked' = overlooked \ {p}
                    ELSE UNCHANGED <<repliesCount, overlooked>>
    /\ Finish(w)
    /\ UNCHANGED <<object, lastRow, inReplyTo, parent, replyRow>>

\* Anything awaited throws, or the isolate dies.
Fail(w) ==
    /\ task[w] # Idle
    /\ Finish(w)
    /\ overlooked' = IF At(w, "refresh") /\ Exists(task[w].up)
                     THEN overlooked \cup {task[w].up} ELSE overlooked
    /\ UNCHANGED rows

Next ==
    \E w \in Workers :
        \/ Read(w) \/ FindParent(w) \/ NoParent(w) \/ InsertParent(w)
        \/ FindGrandparent(w) \/ RepairParent(w) \/ Repair(w)
        \/ BeginCreate(w) \/ InsertNote(w)
        \/ BeginPost(w) \/ InsertLocal(w) \/ RecordReply(w)
        \/ BeginUpdate(w) \/ UpdateNote(w)
        \/ BeginDelete(w) \/ GetReplyParentId(w) \/ DeleteBatch(w) \/ RefreshRepliesCount(w)
        \/ Fail(w)

Spec == Init /\ [][Next]_vars

-----------------------------------------------------------------------------
(* Properties. *)

\* The column, the row of actor_replies and the table of notes agree: a link is in both
\* places or in none, and both of its notes are there.  Every reader of threads relies on
\* it, none of them checks.
LinksAgree ==
    \A n \in Notes :
        /\ parent[n] = replyRow[n]
        /\ parent[n] # None => object[n] # 0 /\ Exists(parent[n])

RecountToCome(r) == \E w \in Workers : At(w, "refresh") /\ task[w].up = r

\* The replies_count of a note is never too low, and it is right unless the deletion of a
\* reply still has to recount it, has died before it did, or did not know of the note
\* because the reply was linked, or linked elsewhere, after its parent had been read.
RepliesCounted ==
    \A n \in Notes : object[n] # 0 =>
        LET count == Cardinality(RepliesTo(RowOf(n))) IN
        /\ repliesCount[n] >= count
        /\ repliesCount[n] > count => RowOf(n) \in overlooked \/ RecountToCome(RowOf(n))
=============================================================================
