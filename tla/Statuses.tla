-------------------------------- MODULE Statuses --------------------------------
(***************************************************************************)
(* Posting, editing and deleting the statuses of one local account: the     *)
(* routes /api/v1/statuses and /api/v1/statuses/:id, and what they hand out *)
(* to the followers of the account and to the actors that a note mentions.  *)
(*                                                                          *)
(* A request runs on a worker and is cut at the database calls, at the      *)
(* sends to the queue and at the deliveries it awaits.  A client may repeat *)
(* a request under its idempotency key at any time.  Left out: attachments, *)
(* hashtags and the rows of actor_activities, which only make a request     *)
(* longer; links between replies (Replies); and the caches (Timelines).     *)
(***************************************************************************)
EXTENDS Integers, Sequences, FiniteSets

CONSTANTS
    Notes,              \* ids for the notes that are posted
    Keys,               \* idempotency keys that clients use
    Visibilities,       \* some of "public", "unlisted", "private", "direct"
    MaxVersions,        \* bound: versions of a note, the posted one included
    Workers,
    None

ASSUME StatusesAssumption ==
    /\ IsFiniteSet(Notes) /\ IsFiniteSet(Keys) /\ IsFiniteSet(Workers)
    /\ None \notin Notes \cup Keys
    /\ Visibilities \subseteq {"public", "unlisted", "private", "direct"}
    /\ MaxVersions \in Nat \ {0}

VARIABLES
    object,             \* "none", "stored" or "deleted": the row of a note in objects
    visibility,         \* of a stored note
    content,            \* the version that objects.properties hold
    revisions,          \* rows of object_revisions of a note, in the order of their ids
    outbox,             \* notes with a row in outbox_objects
    keyOf,              \* the note in the row of idempotency_keys of a key, or None
    expired,            \* keys whose row is past expires_at; no row is ever cleaned up
    handedOut,          \* the kinds of activities about a note that the queue took for the followers
    task,               \* the request of each worker
    \* History: no request reads the variables below.
    lastVersion,        \* the versions of a note that were stored are 1 to lastVersion
    answered,           \* <<key, note>>: the note in the answer to a request with the key
    raced,              \* notes with edits that overlapped, or a revision that got lost
    silent              \* deleted notes whose Delete died with its request

rows    == <<object, visibility, content, revisions, outbox, keyOf, expired>>
history == <<lastVersion, answered, raced, silent>>
vars    == <<rows, handedOut, task, history>>

Versions == 1..MaxVersions
Stages == {"create", "outbox", "followers", "mentions", "insertKey", "pregenerate",
           "update", "insertRevision", "sendUpdate", "delete", "sendDelete"}

Idle == [at |-> "idle", note |-> None, key |-> None, seen |-> 0]
Task == [at : Stages, note : Notes, key : Keys \cup {None},
         seen : 0..MaxVersions] \cup {Idle}

TypeOK ==
    /\ object \in [Notes -> {"none", "stored", "deleted"}]
    /\ visibility \in [Notes -> Visibilities \cup {None}]
    /\ content \in [Notes -> 0..MaxVersions]
    /\ revisions \in [Notes -> Seq(Versions)]
    /\ outbox \subseteq Notes
    /\ keyOf \in [Keys -> Notes \cup {None}]
    /\ expired \subseteq Keys
    /\ handedOut \in [Notes -> SUBSET {"Create", "Update", "Delete"}]
    /\ task \in [Workers -> Task]
    /\ lastVersion \in [Notes -> 0..MaxVersions]
    /\ answered \subseteq Keys \X Notes
    /\ raced \subseteq Notes /\ silent \subseteq Notes
    \* The foreign keys of the tables.
    /\ \A k \in Keys : keyOf[k] # None => object[keyOf[k]] = "stored"
    /\ \A n \in Notes : object[n] # "stored" => revisions[n] = <<>> /\ n \notin outbox

Init ==
    /\ object = [n \in Notes |-> "none"]
    /\ visibility = [n \in Notes |-> None]
    /\ content = [n \in Notes |-> 0]
    /\ revisions = [n \in Notes |-> <<>>]
    /\ outbox = {}
    /\ keyOf = [k \in Keys |-> None]
    /\ expired = {}
    /\ handedOut = [n \in Notes |-> {}]
    /\ task = [w \in Workers |-> Idle]
    /\ lastVersion = [n \in Notes |-> 0]
    /\ answered = {}
    /\ raced = {} /\ silent = {}

-----------------------------------------------------------------------------
(* Requests. *)

At(w, stage) == task[w].at = stage
Stay(w, t)   == task' = [task EXCEPT ![w] = t]
Goto(w, stage) == Stay(w, [task[w] EXCEPT !.at = stage])
Finish(w)    == Stay(w, Idle)
Stored(n)    == object[n] = "stored"

\* deliverFollowers: sendBatch succeeds, or is refused without the request noticing.
HandOut(n, activity) ==
    \/ handedOut' = [handedOut EXCEPT ![n] = @ \cup {activity}]
    \/ UNCHANGED handedOut

-----------------------------------------------------------------------------
(* Visibility. *)

\* The to and cc that createPublicNote, createUnlistedNote, createPrivateNote and
\* createDirectNote give a note; "mentions" stands for the actors it mentions.
PublicAudience   == [to |-> {"public"}, cc |-> {"followers", "mentions"}]
UnlistedAudience == [to |-> {"followers"}, cc |-> {"public", "mentions"}]
PrivateAudience  == [to |-> {"followers"}, cc |-> {"mentions"}]
DirectAudience   == [to |-> {"mentions"}, cc |-> {}]

Audience(n) ==
    CASE visibility[n] = "public"   -> PublicAudience
      [] visibility[n] = "unlisted" -> UnlistedAudience
      [] visibility[n] = "private"  -> PrivateAudience
      [] visibility[n] = "direct"   -> DirectAudience

ForFollowers(n) == "followers" \in Audience(n).to \cup Audience(n).cc

-----------------------------------------------------------------------------
(* POST /api/v1/statuses *)

\* hasKey: the note of a row that has not expired.
HasKey(k) == k # None /\ keyOf[k] # None /\ k \notin expired

\* A request is repeated: the note is answered again.  A request that is not starts to
\* make a note; a direct one needs a mention.
RepeatPost(w) ==
    /\ task[w] = Idle
    /\ \E k \in Keys :
          /\ HasKey(k)
          /\ answered' = answered \cup {<<k, keyOf[k]>>}
    /\ UNCHANGED <<rows, handedOut, task, lastVersion, raced, silent>>

BeginPost(w) ==
    /\ task[w] = Idle
    /\ \E k \in Keys \cup {None}, n \in Notes :
          /\ ~HasKey(k)
          /\ object[n] = "none" /\ \A v \in Workers : task[v].note # n
          /\ Stay(w, [Idle EXCEPT !.at = "create", !.note = n, !.key = k])
    /\ UNCHANGED <<rows, handedOut, history>>

\* createNote: the row in objects.  Hashtags and the link to a parent follow.
CreateNote(w) ==
    LET n == task[w].note IN
    /\ At(w, "create")
    /\ object' = [object EXCEPT ![n] = "stored"]
    /\ \E v \in Visibilities : visibility' = [visibility EXCEPT ![n] = v]
    /\ content' = [content EXCEPT ![n] = 1]
    /\ lastVersion' = [lastVersion EXCEPT ![n] = 1]
    /\ Goto(w, "outbox")
    /\ UNCHANGED <<revisions, outbox, keyOf, expired, handedOut, answered, raced, silent>>

\* Mutant of AfterOutbox: the followers hear of the note and then it is put in the outbox.
AfterOutboxLate(n) == outbox

AfterOutbox(n) == outbox \cup {n}

\* createCreateActivity, addObjectInOutbox: the foreign key needs the note.
AddObjectInOutbox(w) ==
    LET n == task[w].note IN
    /\ At(w, "outbox")
    /\ Stored(n)
    /\ outbox' = AfterOutbox(n)
    /\ Goto(w, IF ForFollowers(n) THEN "followers" ELSE "mentions")
    /\ UNCHANGED <<object, visibility, content, revisions, keyOf, expired, handedOut, history>>

DeliverFollowers(w) ==
    /\ At(w, "followers")
    /\ HandOut(task[w].note, "Create")
    /\ Goto(w, "mentions")
    /\ UNCHANGED <<rows, history>>

\* deliverToActor for each actor that is mentioned; it throws when a delivery fails.
DeliverToMentions(w) ==
    /\ At(w, "mentions")
    /\ Goto(w, IF task[w].key = None THEN "pregenerate" ELSE "insertKey")
    /\ UNCHANGED <<rows, handedOut, history>>

\* Mutant of MayInsertKey: INSERT OR REPLACE.
MayReplaceKey(k) == TRUE

\* insertKey is a plain INSERT, and the key is the primary key.
MayInsertKey(k) == keyOf[k] = None

InsertKey(w) ==
    LET t == task[w] IN
    /\ At(w, "insertKey")
    /\ Stored(t.note) /\ MayInsertKey(t.key)
    /\ keyOf' = [keyOf EXCEPT ![t.key] = t.note]
    /\ Goto(w, "pregenerate")
    /\ UNCHANGED <<object, visibility, content, revisions, outbox, expired, handedOut, history>>

\* The caches are filled, and the note is answered, though it may be gone again.
AnswerPost(w) ==
    LET t == task[w] IN
    /\ At(w, "pregenerate")
    /\ answered' = IF t.key # None /\ Stored(t.note)
                   THEN answered \cup {<<t.key, t.note>>} ELSE answered
    /\ Finish(w)
    /\ UNCHANGED <<rows, handedOut, lastVersion, raced, silent>>

\* An hour passes: hasKey no longer finds the row, which stays.
Expire(k) ==
    /\ keyOf[k] # None /\ k \notin expired
    /\ expired' = expired \cup {k}
    /\ UNCHANGED <<object, visibility, content, revisions, outbox, keyOf, handedOut, task, history>>

-----------------------------------------------------------------------------
(* PUT /api/v1/statuses/:id *)

Editing(w, n) == task[w].note = n /\ task[w].at \in {"update", "insertRevision"}

\* The note and its properties are read, and changed in memory.
BeginPut(w) ==
    /\ task[w] = Idle
    /\ \E n \in Notes :
          /\ Stored(n) /\ n \in outbox
          /\ Stay(w, [Idle EXCEPT !.at = "update", !.note = n, !.seen = content[n]])
          /\ raced' = IF \E v \in Workers : Editing(v, n) THEN raced \cup {n} ELSE raced
    /\ UNCHANGED <<rows, handedOut, lastVersion, answered, silent>>

\* updateObjectProperties; without the row it changes nothing.
UpdateNote(w) ==
    LET n == task[w].note IN
    /\ At(w, "update")
    /\ IF ~Stored(n) THEN UNCHANGED <<content, lastVersion>>
       ELSE /\ lastVersion[n] < MaxVersions
            /\ lastVersion' = [lastVersion EXCEPT ![n] = @ + 1]
            /\ content' = [content EXCEPT ![n] = lastVersion[n] + 1]
    /\ Goto(w, "insertRevision")
    /\ UNCHANGED <<object, visibility, revisions, outbox, keyOf, expired, handedOut,
                   answered, raced, silent>>

\* Mutant of Revised: the version that was stored becomes the revision.
RevisedToNew(t) == Append(revisions[t.note], content[t.note])

\* The version that the request read becomes the revision.
Revised(t) == Append(revisions[t.note], t.seen)

\* insertObjectRevision, whose error is caught.
InsertObjectRevision(w) ==
    LET t == task[w] IN
    /\ At(w, "insertRevision")
    /\ \/ /\ Stored(t.note)
          /\ revisions' = [revisions EXCEPT ![t.note] = Revised(t)]
          /\ UNCHANGED raced
       \/ /\ raced' = raced \cup {t.note}
          /\ UNCHANGED revisions
    /\ Goto(w, "sendUpdate")
    /\ UNCHANGED <<object, visibility, content, outbox, keyOf, expired, handedOut,
                   lastVersion, answered, silent>>

\* deliverFollowers, whatever the visibility of the note.
DeliverUpdate(w) ==
    /\ At(w, "sendUpdate")
    /\ HandOut(task[w].note, "Update")
    /\ Finish(w)
    /\ UNCHANGED <<rows, history>>

\* selectObjectRevisionsByObjectID has no ORDER BY: the rows come in the order of their ids.
SelectObjectRevisions(n) == revisions[n]

\* What GET /api/v1/statuses/:id/history answers: the revisions and then the note.
GetStatusRevisions(n) == Append(SelectObjectRevisions(n), content[n])

-----------------------------------------------------------------------------
(* DELETE /api/v1/statuses/:id *)

BeginDelete(w) ==
    /\ task[w] = Idle
    /\ \E n \in Notes :
          /\ Stored(n) /\ n \in outbox
          /\ Stay(w, [Idle EXCEPT !.at = "delete", !.note = n])
    /\ UNCHANGED <<rows, handedOut, history>>

\* Mutant of KeysAfterDelete: the keys keep the note.
KeysKept(n) == keyOf

\* A key whose note is gone is free again.
KeysAfterDelete(n) == [k \in Keys |-> IF keyOf[k] = n THEN None ELSE keyOf[k]]

\* The batch of deleteObject.
DeleteObject(w) ==
    LET n == task[w].note IN
    /\ At(w, "delete")
    /\ object' = [object EXCEPT ![n] = "deleted"]
    /\ visibility' = [visibility EXCEPT ![n] = None]
    /\ content' = [content EXCEPT ![n] = 0]
    /\ revisions' = [revisions EXCEPT ![n] = <<>>]
    /\ outbox' = outbox \ {n}
    /\ keyOf' = KeysAfterDelete(n)
    /\ expired' = {k \in expired : keyOf[k] # n}
    /\ answered' = {a \in answered : a[2] # n}
    /\ Goto(w, "sendDelete")
    /\ UNCHANGED <<handedOut, lastVersion, raced, silent>>

\* Mutant of DeliverDelete: only the actors that are mentioned are told.
DeliverDeleteToMentions(w) ==
    /\ At(w, "sendDelete")
    /\ Finish(w)
    /\ UNCHANGED <<rows, handedOut, history>>

\* deliverFollowers, whatever the visibility of the note; nobody else is told.
DeliverDelete(w) ==
    LET n == task[w].note IN
    /\ At(w, "sendDelete")
    /\ HandOut(n, "Delete")
    /\ silent' = IF handedOut' = handedOut /\ "Delete" \notin handedOut[n] THEN silent \cup {n} ELSE silent
    /\ Finish(w)
    /\ UNCHANGED <<rows, lastVersion, answered, raced>>

\* Anything awaited throws, or the isolate dies.
Fail(w) ==
    /\ task[w] # Idle
    /\ raced' = IF At(w, "insertRevision") THEN raced \cup {task[w].note} ELSE raced
    /\ silent' = IF At(w, "sendDelete") THEN silent \cup {task[w].note} ELSE silent
    /\ Finish(w)
    /\ UNCHANGED <<rows, handedOut, lastVersion, answered>>

Next ==
    \/ \E w \in Workers :
          \/ RepeatPost(w) \/ BeginPost(w) \/ CreateNote(w) \/ AddObjectInOutbox(w)
          \/ DeliverFollowers(w) \/ DeliverToMentions(w) \/ InsertKey(w) \/ AnswerPost(w)
          \/ BeginPut(w) \/ UpdateNote(w) \/ InsertObjectRevision(w) \/ DeliverUpdate(w)
          \/ BeginDelete(w) \/ DeleteObject(w) \/ DeliverDelete(w)
          \/ Fail(w)
    \/ \E k \in Keys : Expire(k)

Spec == Init /\ [][Next]_vars

-----------------------------------------------------------------------------
(* Properties. *)

\* All answers to requests with one key are one note, as long as that note is there, and
\* a later request with the key finds it until the key expires: of two requests that
\* made a note each, the slower one cannot store the key and is answered by an error.
AnswersAgree ==
    \A a \in answered : keyOf[a[1]] = a[2] /\ Stored(a[2])

\* What followers are told of is there to be fetched from the outbox, or deleted.
HandedOutIsPublished ==
    \A n \in Notes : handedOut[n] # {} => n \in outbox \/ object[n] = "deleted"

\* A deleted note is withdrawn from the followers, unless the request that deleted it
\* died, or the queue refused its Delete.
DeleteIsHandedOut ==
    \A n \in Notes : object[n] = "deleted" =>
        \/ "Delete" \in handedOut[n]
        \/ n \in silent
        \/ \E w \in Workers : task[w].note = n /\ At(w, "sendDelete")

\* The history of a note is complete: unless two edits overlapped or a revision was lost,
\* the endpoint answers all versions that were ever stored, each once and in their order.
HistoryIsComplete ==
    \A n \in Notes : Stored(n) /\ n \notin raced /\ ~(\E w \in Workers : Editing(w, n)) =>
        GetStatusRevisions(n) = [version \in 1..lastVersion[n] |-> version]
=============================================================================
