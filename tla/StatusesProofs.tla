------------------------------ MODULE StatusesProofs ------------------------------
(***************************************************************************)
(* The safety of Statuses for any notes, keys, workers and number of        *)
(* versions: what idempotency keys answer, what followers are handed out,   *)
(* and the history of edits.                                                *)
(*                                                                          *)
(* PostInv, the inductive invariant, adds to the properties what a request  *)
(* knows at its stages of the note that it is about, and that a note which  *)
(* is not yet created has one request only.  The history is proved on top   *)
(* of it, with what the request that is editing a note knows of it.         *)
(***************************************************************************)
EXTENDS Statuses, TLAPS

Published(n) == n \in outbox \/ object[n] = "deleted"

\* What a request knows of its note.
Knows(t) ==
    /\ t.at = "create" => object[t.note] = "none"
    /\ t.at \notin {"idle", "create"} => object[t.note] # "none"
    /\ t.at \in {"followers", "update", "insertRevision", "sendUpdate", "delete"} =>
          Published(t.note)
    /\ t.at = "sendDelete" => object[t.note] = "deleted"
    /\ t.at = "insertKey" => t.key # None
    /\ t.at = "pregenerate" /\ t.key # None /\ Stored(t.note) => keyOf[t.key] = t.note
    /\ t.at \in {"update", "insertRevision"} => t.seen \in Versions

\* A note that is about to be created has one request.
OneCreator ==
    \A w, v \in Workers : w # v /\ task[w].at = "create" => task[v].note # task[w].note

TaskInv == OneCreator /\ \A w \in Workers : Knows(task[w])

VersionsMatch == \A n \in Notes : Stored(n) => content[n] = lastVersion[n] /\ content[n] \in Versions

PostInv ==
    /\ TypeOK /\ TaskInv /\ VersionsMatch
    /\ AnswersAgree /\ HandedOutIsPublished /\ DeleteIsHandedOut

-----------------------------------------------------------------------------
(* What any step does to what requests know. *)

\* A note is created by its request, is stored until it is deleted, and stays published;
\* a key stays that of its note as long as the note is stored.
Progress(w) ==
    /\ \A n \in Notes :
          /\ object[n] = "none" => \/ object'[n] = "none"
                                   \/ task[w].at = "create" /\ task[w].note = n
          /\ object[n] # "none" => object'[n] # "none"
          /\ object[n] = "deleted" => object'[n] = "deleted"
          /\ Published(n) => Published(n)'
    /\ \A k \in Keys, n \in Notes : keyOf[k] = n /\ object'[n] = "stored" => keyOf'[k] = n

\* A request goes on with the same note, with one that is there, or with a new one.
MayTake(w, t) ==
    \/ t = Idle
    \/ t.note = task[w].note /\ t.at # "create"
    \/ object[t.note] # "none" /\ t.at # "create"
    \/ t.note \in Notes /\ \A v \in Workers : task[v].note # t.note

LEMMA TaskStep ==
    ASSUME TypeOK, TaskInv, NEW w \in Workers, NEW t \in Task, Stay(w, t), Progress(w),
           MayTake(w, t), Knows(task[w])'
    PROVE  TaskInv'
<1>1. ASSUME NEW v \in Workers, v # w
      PROVE  Knows(task[v])'
  <2>1. task'[v] = task[v] /\ task[v] \in Task /\ Knows(task[v])
    BY <1>1 DEF TypeOK, Stay, TaskInv
  <2>2. CASE task[v] = Idle
    BY <2>1, <2>2 DEF Knows, Idle
  <2>3. CASE task[v] # Idle
    <3>1. task[v].note \in Notes /\ task[v].key \in Keys \cup {None}
      BY <2>1, <2>3 DEF Task
    <3>2. task[v].at = "create" => object'[task[v].note] = "none"
      BY <3>1, <2>1, <1>1 DEF Knows, Progress, TaskInv, OneCreator
    <3>3. task[v].at = "pregenerate" /\ task[v].key # None /\ object'[task[v].note] = "stored"
          => keyOf'[task[v].key] = task[v].note
      BY <3>1, <2>1, StatusesAssumption DEF Knows, Progress, Stored, TypeOK
    <3> QED
      BY <2>1, <3>1, <3>2, <3>3 DEF Knows, Progress, Stored
  <2> QED
    BY <2>2, <2>3
<1>2. OneCreator'
  <2> SUFFICES ASSUME NEW u \in Workers, NEW v \in Workers, u # v, task'[u].at = "create"
               PROVE  task'[v].note # task'[u].note
    BY DEF OneCreator
  <2>1. CASE u # w /\ v # w
    BY <2>1 DEF TypeOK, Stay, TaskInv, OneCreator
  <2>2. CASE u = w
    BY <2>2, StatusesAssumption DEF TypeOK, Stay, MayTake, Idle
  <2>3. CASE v = w
    <3>1. task'[u] = task[u] /\ task'[v] = t /\ object[task[u].note] = "none" /\ task[u] \in Task
      BY <2>3 DEF TypeOK, Stay, TaskInv, Knows
    <3>2. task[u].note \in Notes
      BY <3>1 DEF Task, Idle
    <3> QED
      BY <2>3, <3>1, <3>2, StatusesAssumption DEF MayTake, Idle, TaskInv, OneCreator
  <2> QED
    BY <2>1, <2>2, <2>3
<1> QED
  BY <1>1, <1>2 DEF TaskInv

\* A step that leaves the tables alone is progress.
LEMMA SameRows ==
    ASSUME NEW w \in Workers, UNCHANGED rows
    PROVE  Progress(w)
BY DEF rows, Progress, Published

\* A request at a stage has a note.
LEMMA AtWork ==
    ASSUME TypeOK, TaskInv, NEW w \in Workers, task[w] # Idle
    PROVE  /\ task[w] \in Task /\ Knows(task[w])
           /\ task[w].at \in Stages /\ task[w].note \in Notes
           /\ task[w].key \in Keys \cup {None} /\ task[w].seen \in 0..MaxVersions
BY DEF TypeOK, TaskInv, Task

LEMMA AtStage ==
    ASSUME NEW w, NEW stage \in Stages, At(w, stage)
    PROVE  task[w] # Idle
BY DEF At, Stages, Idle

\* A request that goes on to a stage at which it has nothing new to know.
LEMMA GotoStep ==
    ASSUME TypeOK, TaskInv, NEW w \in Workers, task[w] # Idle, NEW stage \in Stages \ {"create"},
           Goto(w, stage), Progress(w), Knows(task[w])'
    PROVE  TaskInv' /\ task' \in [Workers -> Task]
<1> DEFINE t == [task[w] EXCEPT !.at = stage]
<1>1. t \in Task /\ t.note = task[w].note /\ t.at # "create"
  BY AtWork DEF Task, Stages, Idle
<1>2. MayTake(w, t)
  BY <1>1 DEF MayTake
<1> QED
  BY <1>1, <1>2, TaskStep DEF Goto, Stay, TypeOK

LEMMA FinishStep ==
    ASSUME TypeOK, TaskInv, NEW w \in Workers, Finish(w), Progress(w)
    PROVE  TaskInv' /\ task' \in [Workers -> Task]
<1>1. Idle \in Task /\ MayTake(w, Idle)
  BY DEF Task, MayTake
<1>2. Knows(task[w])'
  BY DEF TypeOK, Finish, Stay, Knows, Idle
<1> QED
  BY <1>1, <1>2, TaskStep DEF Finish, Stay, TypeOK

\* The tasks that requests begin with.
LEMMA NewTask ==
    ASSUME NEW stage \in Stages, NEW n \in Notes, NEW k \in Keys \cup {None},
           NEW s \in 0..MaxVersions
    PROVE  /\ [Idle EXCEPT !.at = stage, !.note = n, !.key = k] \in Task
           /\ [Idle EXCEPT !.at = stage, !.note = n, !.seen = s] \in Task
           /\ [Idle EXCEPT !.at = stage, !.note = n] \in Task
<1> DEFINE Tasks == [at : Stages \cup {"idle"}, note : Notes \cup {None},
                     key : Keys \cup {None}, seen : 0..MaxVersions]
<1>1. Idle \in Tasks
  BY StatusesAssumption DEF Idle
<1>2. ASSUME NEW t \in {[Idle EXCEPT !.at = stage, !.note = n, !.key = k],
                        [Idle EXCEPT !.at = stage, !.note = n, !.seen = s],
                        [Idle EXCEPT !.at = stage, !.note = n]}
      PROVE  t \in Task
  <2>1. t \in Tasks /\ t.at = stage /\ t.note = n
    BY <1>1
  <2> QED
    BY <2>1 DEF Task
<1> QED
  BY <1>2

-----------------------------------------------------------------------------
(* Posting. *)

LEMMA RepeatPostOK ==
    ASSUME PostInv, NEW w \in Workers, RepeatPost(w)
    PROVE  PostInv'
<1>1. UNCHANGED <<rows, handedOut, task, lastVersion, raced, silent>>
      /\ \E k \in Keys : HasKey(k) /\ answered' = answered \cup {<<k, keyOf[k]>>}
  BY DEF RepeatPost
<1>2. TypeOK'
  BY <1>1 DEF PostInv, TypeOK, rows, HasKey
<1>3. AnswersAgree'
  BY <1>1 DEF PostInv, TypeOK, AnswersAgree, rows, HasKey, Stored
<1> QED
  BY <1>1, <1>2, <1>3 DEF PostInv, TaskInv, OneCreator, Knows, VersionsMatch, Stored, Published,
         HandedOutIsPublished, DeleteIsHandedOut, At, rows

LEMMA BeginPostOK ==
    ASSUME PostInv, NEW w \in Workers, BeginPost(w)
    PROVE  PostInv'
<1>1. PICK k \in Keys \cup {None}, n \in Notes :
         /\ object[n] = "none" /\ \A v \in Workers : task[v].note # n
         /\ Stay(w, [Idle EXCEPT !.at = "create", !.note = n, !.key = k])
  BY DEF BeginPost
<1> DEFINE t == [Idle EXCEPT !.at = "create", !.note = n, !.key = k]
<1>2. UNCHANGED <<rows, handedOut, history>> /\ task[w] = Idle
  BY DEF BeginPost
<1>3. t \in Task /\ t.at = "create" /\ t.note = n
  <2>1. "create" \in Stages /\ 0 \in 0..MaxVersions
    BY StatusesAssumption DEF Stages
  <2>2. t.at = "create" /\ t.note = n
    BY DEF Idle
  <2> QED
    BY <2>1, <2>2, NewTask
<1>4. TaskInv'
  <2>1. Knows(task[w])'
    BY <1>1, <1>2, <1>3 DEF PostInv, TypeOK, Stay, Knows, rows
  <2> QED
    BY <1>1, <1>2, <1>3, <2>1, SameRows, TaskStep DEF PostInv, MayTake
<1>5. TypeOK'
  BY <1>1, <1>2, <1>3 DEF PostInv, TypeOK, Stay, rows, history
<1>6. DeleteIsHandedOut'
  BY <1>1, <1>2, StatusesAssumption DEF PostInv, TypeOK, DeleteIsHandedOut, Stay, At, rows, history, Idle
<1> QED
  BY <1>2, <1>4, <1>5, <1>6 DEF PostInv, VersionsMatch, Stored, AnswersAgree,
         HandedOutIsPublished, rows, history

LEMMA CreateNoteOK ==
    ASSUME PostInv, NEW w \in Workers, CreateNote(w)
    PROVE  PostInv'
<1> DEFINE n == task[w].note
<1>1. /\ object' = [object EXCEPT ![n] = "stored"] /\ content' = [content EXCEPT ![n] = 1]
      /\ lastVersion' = [lastVersion EXCEPT ![n] = 1] /\ Goto(w, "outbox")
      /\ \E v \in Visibilities : visibility' = [visibility EXCEPT ![n] = v]
      /\ UNCHANGED <<revisions, outbox, keyOf, expired, handedOut, answered, raced, silent>>
  BY DEF CreateNote
<1>2. task[w] # Idle /\ task[w].at = "create" /\ n \in Notes /\ object[n] = "none"
  BY AtStage, AtWork DEF PostInv, CreateNote, At, Stages, Knows
<1>3. Progress(w)
  BY <1>1, <1>2 DEF PostInv, TypeOK, Progress, Published
<1>4. TaskInv' /\ task' \in [Workers -> Task]
  <2>1. Knows(task[w])'
    BY <1>1, <1>2, AtWork DEF PostInv, TypeOK, Goto, Stay, Knows, Task
  <2> QED
    BY <1>1, <1>2, <1>3, <2>1, GotoStep DEF PostInv, Stages
<1>5. TypeOK'
  BY <1>1, <1>2, <1>4, StatusesAssumption DEF PostInv, TypeOK, Versions
<1>6. VersionsMatch'
  BY <1>1, <1>2, StatusesAssumption DEF PostInv, TypeOK, VersionsMatch, Stored, Versions
<1>7. AnswersAgree' /\ HandedOutIsPublished' /\ DeleteIsHandedOut'
  BY <1>1, <1>2 DEF PostInv, TypeOK, AnswersAgree, Stored, HandedOutIsPublished, DeleteIsHandedOut,
         Goto, Stay, At
<1> QED
  BY <1>4, <1>5, <1>6, <1>7 DEF PostInv

LEMMA AddObjectInOutboxOK ==
    ASSUME PostInv, NEW w \in Workers, AddObjectInOutbox(w)
    PROVE  PostInv'
<1> DEFINE n == task[w].note
           stage == IF ForFollowers(n) THEN "followers" ELSE "mentions"
<1>1. /\ outbox' = outbox \cup {n} /\ Goto(w, stage)
      /\ UNCHANGED <<object, visibility, content, revisions, keyOf, expired, handedOut, history>>
  BY DEF AddObjectInOutbox, AfterOutbox
<1>2. task[w] # Idle /\ n \in Notes /\ Stored(n)
  BY AtStage, AtWork DEF PostInv, AddObjectInOutbox, Stages
<1>3. Progress(w)
  BY <1>1, <1>2 DEF PostInv, TypeOK, Progress, Published
<1>4. TaskInv' /\ task' \in [Workers -> Task]
  <2>1. stage \in {"followers", "mentions"}
    OBVIOUS
  <2>2. Knows(task[w])'
    BY <1>1, <1>2, <2>1, AtWork DEF PostInv, TypeOK, Goto, Stay, Knows, Task, Stored, Published
  <2> QED
    BY <1>1, <1>2, <1>3, <2>1, <2>2, GotoStep DEF PostInv, Stages
<1>5. TypeOK'
  BY <1>1, <1>2, <1>4 DEF PostInv, TypeOK, history, Stored
<1>6. VersionsMatch' /\ AnswersAgree' /\ HandedOutIsPublished' /\ DeleteIsHandedOut'
  BY <1>1, <1>2 DEF PostInv, TypeOK, VersionsMatch, AnswersAgree, Stored, HandedOutIsPublished,
         DeleteIsHandedOut, Goto, Stay, At, history
<1> QED
  BY <1>4, <1>5, <1>6 DEF PostInv

\* What a request hands out about a note that is published.
LEMMA HandOutOK ==
    ASSUME PostInv, NEW n \in Notes, Published(n), NEW activity \in {"Create", "Update", "Delete"},
           HandOut(n, activity), UNCHANGED <<object, outbox>>
    PROVE  /\ handedOut' \in [Notes -> SUBSET {"Create", "Update", "Delete"}]
           /\ HandedOutIsPublished'
           /\ \A m \in Notes : handedOut[m] \subseteq handedOut'[m]
<1>1. \A m \in Notes :
         /\ handedOut'[m] \in SUBSET {"Create", "Update", "Delete"}
         /\ handedOut[m] \subseteq handedOut'[m]
         /\ m # n => handedOut'[m] = handedOut[m]
  BY DEF PostInv, TypeOK, HandOut
<1>2. handedOut' \in [Notes -> SUBSET {"Create", "Update", "Delete"}]
  BY <1>1 DEF PostInv, TypeOK, HandOut
<1>3. HandedOutIsPublished'
  BY <1>1 DEF PostInv, Published, HandedOutIsPublished
<1> QED
  BY <1>1, <1>2, <1>3

LEMMA DeliverFollowersOK ==
    ASSUME PostInv, NEW w \in Workers, DeliverFollowers(w)
    PROVE  PostInv'
<1>1. HandOut(task[w].note, "Create") /\ Goto(w, "mentions") /\ UNCHANGED <<rows, history>>
  BY DEF DeliverFollowers
<1>2. task[w] # Idle /\ task[w].note \in Notes /\ Published(task[w].note)
      /\ object[task[w].note] # "none" /\ task[w].at = "followers"
  BY AtStage, AtWork DEF PostInv, DeliverFollowers, At, Stages, Knows
<1>3. TaskInv' /\ task' \in [Workers -> Task]
  <2>1. Knows(task[w])'
    BY <1>1, <1>2, AtWork DEF PostInv, TypeOK, Goto, Stay, Knows, Task, rows
  <2> QED
    BY <1>1, <1>2, <2>1, SameRows, GotoStep DEF PostInv, Stages
<1>4. /\ handedOut' \in [Notes -> SUBSET {"Create", "Update", "Delete"}] /\ HandedOutIsPublished'
      /\ \A m \in Notes : handedOut[m] \subseteq handedOut'[m]
  BY <1>1, <1>2, HandOutOK DEF rows
<1>5. DeleteIsHandedOut'
  BY <1>1, <1>2, <1>4 DEF PostInv, TypeOK, DeleteIsHandedOut, Goto, Stay, At, rows, history
<1>6. TypeOK'
  BY <1>1, <1>3, <1>4 DEF PostInv, TypeOK, rows, history
<1> QED
  BY <1>1, <1>3, <1>4, <1>5, <1>6 DEF PostInv, VersionsMatch, AnswersAgree, Stored, rows, history

LEMMA DeliverToMentionsOK ==
    ASSUME PostInv, NEW w \in Workers, DeliverToMentions(w)
    PROVE  PostInv'
<1> DEFINE stage == IF task[w].key = None THEN "pregenerate" ELSE "insertKey"
<1>1. Goto(w, stage) /\ UNCHANGED <<rows, handedOut, history>>
  BY DEF DeliverToMentions
<1>2. task[w] # Idle /\ task[w].note \in Notes /\ object[task[w].note] # "none"
      /\ task[w].at = "mentions"
  BY AtStage, AtWork DEF PostInv, DeliverToMentions, At, Stages, Knows
<1>3. TaskInv' /\ task' \in [Workers -> Task]
  <2>1. stage \in {"pregenerate", "insertKey"}
    OBVIOUS
  <2>2. Knows(task[w])'
    BY <1>1, <1>2, AtWork DEF PostInv, TypeOK, Goto, Stay, Knows, Task, rows
  <2> QED
    BY <1>1, <1>2, <2>1, <2>2, SameRows, GotoStep DEF PostInv, Stages
<1>4. DeleteIsHandedOut'
  BY <1>1, <1>2 DEF PostInv, TypeOK, DeleteIsHandedOut, Goto, Stay, At, rows, history
<1>5. TypeOK'
  BY <1>1, <1>3 DEF PostInv, TypeOK, rows, history
<1> QED
  BY <1>1, <1>3, <1>4, <1>5 DEF PostInv, VersionsMatch, AnswersAgree, HandedOutIsPublished,
         Stored, rows, history

\* A key that is free gets the note, which is stored: nobody was answered the key before.
LEMMA InsertKeyOK ==
    ASSUME PostInv, NEW w \in Workers, InsertKey(w)
    PROVE  PostInv'
<1> DEFINE t == task[w]
<1>1. /\ Stored(t.note) /\ keyOf[t.key] = None
      /\ keyOf' = [keyOf EXCEPT ![t.key] = t.note] /\ Goto(w, "pregenerate")
      /\ UNCHANGED <<object, visibility, content, revisions, outbox, expired, handedOut, history>>
  BY DEF InsertKey, MayInsertKey
<1>2. t # Idle /\ t.note \in Notes /\ t.key \in Keys /\ t.at = "insertKey"
  BY AtStage, AtWork DEF PostInv, InsertKey, At, Stages, Knows
<1>3. Progress(w)
  BY <1>1, <1>2, StatusesAssumption DEF PostInv, TypeOK, Progress, Published
<1>4. TaskInv' /\ task' \in [Workers -> Task]
  <2>1. Knows(task[w])'
    BY <1>1, <1>2, AtWork DEF PostInv, TypeOK, Goto, Stay, Knows, Task, Stored
  <2> QED
    BY <1>1, <1>2, <1>3, <2>1, GotoStep DEF PostInv, Stages
<1>5. TypeOK'
  BY <1>1, <1>2, <1>4 DEF PostInv, TypeOK, Stored, history
<1>6. AnswersAgree'
  BY <1>1, <1>2, StatusesAssumption DEF PostInv, TypeOK, AnswersAgree, Stored, history
<1>7. DeleteIsHandedOut'
  BY <1>1, <1>2 DEF PostInv, TypeOK, DeleteIsHandedOut, Goto, Stay, At, history
<1> QED
  BY <1>1, <1>4, <1>5, <1>6, <1>7 DEF PostInv, VersionsMatch, HandedOutIsPublished, Stored, history

LEMMA AnswerPostOK ==
    ASSUME PostInv, NEW w \in Workers, AnswerPost(w)
    PROVE  PostInv'
<1> DEFINE t == task[w]
<1>1. /\ answered' = IF t.key # None /\ Stored(t.note)
                     THEN answered \cup {<<t.key, t.note>>} ELSE answered
      /\ Finish(w) /\ UNCHANGED <<rows, handedOut, lastVersion, raced, silent>>
  BY DEF AnswerPost
<1>2. t # Idle /\ t.note \in Notes /\ t.key \in Keys \cup {None} /\ t.at = "pregenerate"
      /\ (t.key # None /\ Stored(t.note) => keyOf[t.key] = t.note)
  BY AtStage, AtWork DEF PostInv, AnswerPost, At, Stages, Knows
<1>3. TaskInv' /\ task' \in [Workers -> Task]
  BY <1>1, SameRows, FinishStep DEF PostInv
<1>4. AnswersAgree'
  BY <1>1, <1>2 DEF PostInv, TypeOK, AnswersAgree, Stored, rows
<1>5. TypeOK'
  BY <1>1, <1>2, <1>3 DEF PostInv, TypeOK, rows
<1>6. DeleteIsHandedOut'
  BY <1>1, <1>2 DEF PostInv, TypeOK, DeleteIsHandedOut, Finish, Stay, At, rows
<1> QED
  BY <1>1, <1>3, <1>4, <1>5, <1>6 DEF PostInv, VersionsMatch, HandedOutIsPublished, Stored, rows

LEMMA ExpireOK ==
    ASSUME PostInv, NEW k \in Keys, Expire(k)
    PROVE  PostInv'
BY DEF PostInv, Expire, TypeOK, TaskInv, OneCreator, Knows, Stored, Published, VersionsMatch,
       AnswersAgree, HandedOutIsPublished, DeleteIsHandedOut, At, history

-----------------------------------------------------------------------------
(* Editing. *)

LEMMA BeginPutOK ==
    ASSUME PostInv, NEW w \in Workers, BeginPut(w)
    PROVE  PostInv'
<1>1. PICK n \in Notes :
         /\ Stored(n) /\ n \in outbox
         /\ Stay(w, [Idle EXCEPT !.at = "update", !.note = n, !.seen = content[n]])
         /\ raced' \in {raced, raced \cup {n}}
  BY DEF BeginPut
<1> DEFINE t == [Idle EXCEPT !.at = "update", !.note = n, !.seen = content[n]]
<1>2. task[w] = Idle /\ UNCHANGED <<rows, handedOut, lastVersion, answered, silent>>
  BY DEF BeginPut
<1>3. content[n] \in Versions /\ content[n] \in 0..MaxVersions /\ n \in Notes
  BY <1>1 DEF PostInv, TypeOK, VersionsMatch
<1>4. t \in Task /\ t.at = "update" /\ t.note = n
  <2>1. "update" \in Stages
    BY DEF Stages
  <2>2. t.at = "update" /\ t.note = n
    BY DEF Idle
  <2> QED
    BY <1>3, <2>1, <2>2, NewTask
<1>5. t.seen = content[n]
  BY DEF Idle
<1>6. TaskInv'
  <2>1. Knows(task[w])'
    BY <1>1, <1>2, <1>3, <1>4, <1>5 DEF PostInv, TypeOK, Stay, Knows, Stored, Published, rows
  <2> QED
    BY <1>1, <1>2, <1>4, <2>1, SameRows, TaskStep DEF PostInv, MayTake, Stored
<1>7. TypeOK'
  BY <1>1, <1>2, <1>4 DEF PostInv, TypeOK, Stay, rows
<1>8. DeleteIsHandedOut'
  BY <1>1, <1>2, StatusesAssumption DEF PostInv, TypeOK, DeleteIsHandedOut, Stay, At, rows, Idle
<1> QED
  BY <1>2, <1>6, <1>7, <1>8 DEF PostInv, VersionsMatch, Stored, AnswersAgree,
         HandedOutIsPublished, rows

\* What is stored gets the next version.
LEMMA UpdateNoteOK ==
    ASSUME PostInv, NEW w \in Workers, UpdateNote(w)
    PROVE  PostInv'
<1> DEFINE n == task[w].note
<1>1. /\ Goto(w, "insertRevision")
      /\ UNCHANGED <<object, visibility, revisions, outbox, keyOf, expired, handedOut,
                     answered, raced, silent>>
  BY DEF UpdateNote
<1>2. task[w] # Idle /\ n \in Notes /\ object[n] # "none" /\ Published(n)
      /\ task[w].seen \in Versions /\ task[w].at = "update"
  BY AtStage, AtWork DEF PostInv, UpdateNote, At, Stages, Knows
<1>3. TaskInv' /\ task' \in [Workers -> Task]
  <2>1. Knows(task[w])'
    BY <1>1, <1>2, AtWork DEF PostInv, TypeOK, Goto, Stay, Knows, Task, Published
  <2>2. Progress(w)
    BY <1>1 DEF Progress, Published
  <2> QED
    BY <1>1, <1>2, <2>1, <2>2, GotoStep DEF PostInv, Stages
<1>4. /\ content' \in [Notes -> 0..MaxVersions] /\ lastVersion' \in [Notes -> 0..MaxVersions]
      /\ VersionsMatch'
  <2>1. CASE ~Stored(n)
    BY <1>1, <2>1 DEF PostInv, TypeOK, UpdateNote, VersionsMatch, Stored
  <2>2. CASE Stored(n)
    <3>1. lastVersion[n] + 1 \in Versions
      BY <1>2, <2>2, StatusesAssumption DEF PostInv, TypeOK, UpdateNote, Versions
    <3>2. content' = [content EXCEPT ![n] = lastVersion[n] + 1]
          /\ lastVersion' = [lastVersion EXCEPT ![n] = lastVersion[n] + 1]
      BY <2>2 DEF UpdateNote
    <3> QED
      BY <1>1, <1>2, <3>1, <3>2 DEF PostInv, TypeOK, VersionsMatch, Stored, Versions
  <2> QED
    BY <2>1, <2>2
<1>5. TypeOK'
  BY <1>1, <1>3, <1>4 DEF PostInv, TypeOK
<1>6. DeleteIsHandedOut'
  BY <1>1, <1>2 DEF PostInv, TypeOK, DeleteIsHandedOut, Goto, Stay, At
<1> QED
  BY <1>1, <1>3, <1>4, <1>5, <1>6 DEF PostInv, AnswersAgree, HandedOutIsPublished, Stored

LEMMA InsertObjectRevisionOK ==
    ASSUME PostInv, NEW w \in Workers, InsertObjectRevision(w)
    PROVE  PostInv'
<1> DEFINE t == task[w]
<1>1. /\ Goto(w, "sendUpdate")
      /\ UNCHANGED <<object, visibility, content, outbox, keyOf, expired, handedOut,
                     lastVersion, answered, silent>>
      /\ raced' \in {raced, raced \cup {t.note}}
      /\ \/ Stored(t.note) /\ revisions' = [revisions EXCEPT ![t.note] = Revised(t)]
         \/ UNCHANGED revisions
  BY DEF InsertObjectRevision
<1>2. task[w] # Idle /\ t.note \in Notes /\ object[t.note] # "none" /\ Published(t.note)
      /\ t.seen \in Versions /\ t.at = "insertRevision"
  BY AtStage, AtWork DEF PostInv, InsertObjectRevision, At, Stages, Knows
<1>3. TaskInv' /\ task' \in [Workers -> Task]
  <2>1. Knows(task[w])'
    BY <1>1, <1>2, AtWork DEF PostInv, TypeOK, Goto, Stay, Knows, Task, Published
  <2>2. Progress(w)
    BY <1>1 DEF Progress, Published
  <2> QED
    BY <1>1, <1>2, <2>1, <2>2, GotoStep DEF PostInv, Stages
<1>4. Revised(t) \in Seq(Versions)
  BY <1>2 DEF PostInv, TypeOK, Revised
<1>5. TypeOK'
  <2>1. revisions' \in [Notes -> Seq(Versions)]
    BY <1>1, <1>2, <1>4 DEF PostInv, TypeOK
  <2>2. \A n \in Notes : object'[n] # "stored" => revisions'[n] = <<>> /\ n \notin outbox'
    BY <1>1, <1>2 DEF PostInv, TypeOK, Stored
  <2> QED
    BY <1>1, <1>2, <1>3, <2>1, <2>2 DEF PostInv, TypeOK
<1>6. DeleteIsHandedOut'
  BY <1>1, <1>2 DEF PostInv, TypeOK, DeleteIsHandedOut, Goto, Stay, At
<1> QED
  BY <1>1, <1>3, <1>5, <1>6 DEF PostInv, VersionsMatch, AnswersAgree, HandedOutIsPublished, Stored

LEMMA DeliverUpdateOK ==
    ASSUME PostInv, NEW w \in Workers, DeliverUpdate(w)
    PROVE  PostInv'
<1>1. HandOut(task[w].note, "Update") /\ Finish(w) /\ UNCHANGED <<rows, history>>
  BY DEF DeliverUpdate
<1>2. task[w] # Idle /\ task[w].note \in Notes /\ Published(task[w].note) /\ task[w].at = "sendUpdate"
  BY AtStage, AtWork DEF PostInv, DeliverUpdate, At, Stages, Knows
<1>3. TaskInv' /\ task' \in [Workers -> Task]
  BY <1>1, SameRows, FinishStep DEF PostInv
<1>4. /\ handedOut' \in [Notes -> SUBSET {"Create", "Update", "Delete"}] /\ HandedOutIsPublished'
      /\ \A m \in Notes : handedOut[m] \subseteq handedOut'[m]
  BY <1>1, <1>2, HandOutOK DEF rows
<1>5. DeleteIsHandedOut'
  BY <1>1, <1>2, <1>4 DEF PostInv, TypeOK, DeleteIsHandedOut, Finish, Stay, At, rows, history
<1>6. TypeOK'
  BY <1>1, <1>3, <1>4 DEF PostInv, TypeOK, rows, history
<1> QED
  BY <1>1, <1>3, <1>4, <1>5, <1>6 DEF PostInv, VersionsMatch, AnswersAgree, Stored, rows, history

-----------------------------------------------------------------------------
(* Deleting. *)

LEMMA BeginDeleteOK ==
    ASSUME PostInv, NEW w \in Workers, BeginDelete(w)
    PROVE  PostInv'
<1>1. PICK n \in Notes :
         /\ Stored(n) /\ n \in outbox
         /\ Stay(w, [Idle EXCEPT !.at = "delete", !.note = n])
  BY DEF BeginDelete
<1> DEFINE t == [Idle EXCEPT !.at = "delete", !.note = n]
<1>2. task[w] = Idle /\ UNCHANGED <<rows, handedOut, history>>
  BY DEF BeginDelete
<1>3. t \in Task /\ t.at = "delete" /\ t.note = n
  <2>1. "delete" \in Stages /\ 0 \in 0..MaxVersions
    BY StatusesAssumption DEF Stages
  <2>2. t.at = "delete" /\ t.note = n
    BY DEF Idle
  <2> QED
    BY <2>1, <2>2, NewTask
<1>4. TaskInv'
  <2>1. Knows(task[w])'
    BY <1>1, <1>2, <1>3 DEF PostInv, TypeOK, Stay, Knows, Stored, Published, rows
  <2> QED
    BY <1>1, <1>2, <1>3, <2>1, SameRows, TaskStep DEF PostInv, MayTake, Stored
<1>5. TypeOK'
  BY <1>1, <1>2, <1>3 DEF PostInv, TypeOK, Stay, rows, history
<1>6. DeleteIsHandedOut'
  BY <1>1, <1>2, StatusesAssumption DEF PostInv, TypeOK, DeleteIsHandedOut, Stay, At, rows,
         history, Idle
<1> QED
  BY <1>2, <1>4, <1>5, <1>6 DEF PostInv, VersionsMatch, Stored, AnswersAgree,
         HandedOutIsPublished, rows, history

\* With the note go the keys and what was answered for them.
LEMMA DeleteObjectOK ==
    ASSUME PostInv, NEW w \in Workers, DeleteObject(w)
    PROVE  PostInv'
<1> DEFINE n == task[w].note
<1>1. /\ object' = [object EXCEPT ![n] = "deleted"]
      /\ visibility' = [visibility EXCEPT ![n] = None] /\ content' = [content EXCEPT ![n] = 0]
      /\ revisions' = [revisions EXCEPT ![n] = <<>>] /\ outbox' = outbox \ {n}
      /\ keyOf' = [k \in Keys |-> IF keyOf[k] = n THEN None ELSE keyOf[k]]
      /\ expired' = {k \in expired : keyOf[k] # n}
      /\ answered' = {a \in answered : a[2] # n}
      /\ Goto(w, "sendDelete") /\ UNCHANGED <<handedOut, lastVersion, raced, silent>>
  BY DEF DeleteObject, KeysAfterDelete
<1>2. task[w] # Idle /\ n \in Notes /\ object[n] # "none" /\ task[w].at = "delete"
  BY AtStage, AtWork DEF PostInv, DeleteObject, At, Stages, Knows
<1>3. Progress(w)
  BY <1>1, <1>2 DEF PostInv, TypeOK, Progress, Published
<1>4. TaskInv' /\ task' \in [Workers -> Task]
  <2>1. Knows(task[w])'
    BY <1>1, <1>2, AtWork DEF PostInv, TypeOK, Goto, Stay, Knows, Task
  <2> QED
    BY <1>1, <1>2, <1>3, <2>1, GotoStep DEF PostInv, Stages
<1>5. TypeOK'
  <2>1. revisions' \in [Notes -> Seq(Versions)] /\ content' \in [Notes -> 0..MaxVersions]
    BY <1>1, <1>2, StatusesAssumption DEF PostInv, TypeOK
  <2>2. /\ keyOf' \in [Keys -> Notes \cup {None}]
        /\ \A k \in Keys : keyOf'[k] # None => object'[keyOf'[k]] = "stored"
    BY <1>1, <1>2 DEF PostInv, TypeOK
  <2>3. \A m \in Notes : object'[m] # "stored" => revisions'[m] = <<>> /\ m \notin outbox'
    BY <1>1, <1>2 DEF PostInv, TypeOK
  <2> QED
    BY <1>1, <1>2, <1>4, <2>1, <2>2, <2>3 DEF PostInv, TypeOK
<1>6. VersionsMatch' /\ AnswersAgree' /\ HandedOutIsPublished'
  BY <1>1, <1>2 DEF PostInv, TypeOK, VersionsMatch, AnswersAgree, Stored, HandedOutIsPublished
<1>7. DeleteIsHandedOut'
  BY <1>1, <1>2, AtWork DEF PostInv, TypeOK, DeleteIsHandedOut, Goto, Stay, At, Task
<1> QED
  BY <1>4, <1>5, <1>6, <1>7 DEF PostInv

LEMMA DeliverDeleteOK ==
    ASSUME PostInv, NEW w \in Workers, DeliverDelete(w)
    PROVE  PostInv'
<1> DEFINE n == task[w].note
<1>1. /\ HandOut(n, "Delete") /\ Finish(w) /\ UNCHANGED <<rows, lastVersion, answered, raced>>
      /\ silent' = IF handedOut' = handedOut /\ "Delete" \notin handedOut[n] THEN silent \cup {n}
                   ELSE silent
  BY DEF DeliverDelete
<1>2. task[w] # Idle /\ n \in Notes /\ object[n] = "deleted" /\ task[w].at = "sendDelete"
  BY AtStage, AtWork DEF PostInv, DeliverDelete, At, Stages, Knows
<1>3. TaskInv' /\ task' \in [Workers -> Task]
  BY <1>1, SameRows, FinishStep DEF PostInv
<1>4. /\ handedOut' \in [Notes -> SUBSET {"Create", "Update", "Delete"}] /\ HandedOutIsPublished'
      /\ \A m \in Notes : handedOut[m] \subseteq handedOut'[m]
  BY <1>1, <1>2, HandOutOK DEF rows, Published
<1>5. "Delete" \in handedOut'[n] \/ n \in silent'
  BY <1>1, <1>2 DEF PostInv, TypeOK, HandOut
<1>6. DeleteIsHandedOut'
  BY <1>1, <1>2, <1>4, <1>5 DEF PostInv, TypeOK, DeleteIsHandedOut, Finish, Stay, At, rows
<1>7. TypeOK'
  BY <1>1, <1>2, <1>3, <1>4 DEF PostInv, TypeOK, rows
<1> QED
  BY <1>1, <1>3, <1>4, <1>6, <1>7 DEF PostInv, VersionsMatch, AnswersAgree, Stored, rows

LEMMA FailOK ==
    ASSUME PostInv, NEW w \in Workers, Fail(w)
    PROVE  PostInv'
<1>1. /\ task[w] # Idle /\ Finish(w) /\ UNCHANGED <<rows, handedOut, lastVersion, answered>>
      /\ raced' \in {raced, raced \cup {task[w].note}}
      /\ silent' = IF At(w, "sendDelete") THEN silent \cup {task[w].note} ELSE silent
  BY DEF Fail
<1>2. task[w].note \in Notes
  BY <1>1, AtWork DEF PostInv
<1>3. TaskInv' /\ task' \in [Workers -> Task]
  BY <1>1, SameRows, FinishStep DEF PostInv
<1>4. DeleteIsHandedOut'
  BY <1>1, <1>2 DEF PostInv, TypeOK, DeleteIsHandedOut, Finish, Stay, At, rows
<1>5. TypeOK'
  BY <1>1, <1>2, <1>3 DEF PostInv, TypeOK, rows
<1> QED
  BY <1>1, <1>3, <1>4, <1>5 DEF PostInv, VersionsMatch, AnswersAgree, HandedOutIsPublished,
         Stored, rows

-----------------------------------------------------------------------------
(* The invariant. *)

LEMMA PostInvInit == Init => PostInv
<1> SUFFICES ASSUME Init
             PROVE  PostInv
  OBVIOUS
<1>1. Idle.at = "idle" /\ Idle.note = None
  BY DEF Idle
<1>2. TypeOK
  BY StatusesAssumption DEF Init, TypeOK, Task
<1>3. TaskInv
  BY <1>1 DEF Init, TaskInv, OneCreator, Knows
<1> QED
  BY <1>2, <1>3 DEF Init, PostInv, VersionsMatch, Stored, AnswersAgree, HandedOutIsPublished,
         DeleteIsHandedOut

LEMMA PostInvNext ==
    ASSUME PostInv, [Next]_vars
    PROVE  PostInv'
<1>1. CASE UNCHANGED vars
  BY <1>1 DEF PostInv, vars, rows, history, TypeOK, TaskInv, OneCreator, Knows, Stored, Published,
         VersionsMatch, AnswersAgree, HandedOutIsPublished, DeleteIsHandedOut, At
<1>2. ASSUME NEW k \in Keys, Expire(k)
      PROVE  PostInv'
  BY <1>2, ExpireOK
<1>3. ASSUME NEW w \in Workers,
             \/ RepeatPost(w) \/ BeginPost(w) \/ CreateNote(w) \/ AddObjectInOutbox(w)
             \/ DeliverFollowers(w) \/ DeliverToMentions(w) \/ InsertKey(w) \/ AnswerPost(w)
      PROVE  PostInv'
  BY <1>3, RepeatPostOK, BeginPostOK, CreateNoteOK, AddObjectInOutboxOK, DeliverFollowersOK,
     DeliverToMentionsOK, InsertKeyOK, AnswerPostOK
<1>4. ASSUME NEW w \in Workers,
             \/ BeginPut(w) \/ UpdateNote(w) \/ InsertObjectRevision(w) \/ DeliverUpdate(w)
             \/ BeginDelete(w) \/ DeleteObject(w) \/ DeliverDelete(w) \/ Fail(w)
      PROVE  PostInv'
  BY <1>4, BeginPutOK, UpdateNoteOK, InsertObjectRevisionOK, DeliverUpdateOK, BeginDeleteOK,
     DeleteObjectOK, DeliverDeleteOK, FailOK
<1> QED
  BY <1>1, <1>2, <1>3, <1>4 DEF Next

LEMMA PostInvHolds == Spec => []PostInv
<1>1. Init => PostInv
  BY PostInvInit
<1>2. PostInv /\ [Next]_vars => PostInv'
  BY PostInvNext
<1> QED
  BY <1>1, <1>2, PTL DEF Spec

\* The tables keep their types and foreign keys, and requests go from stage to stage.
THEOREM StatusesTypeOK == Spec => []TypeOK
<1>1. PostInv => TypeOK
  BY DEF PostInv
<1> QED
  BY <1>1, PostInvHolds, PTL

\* For any notes, keys and workers: an idempotency key answers one note, the one in its row,
\* as long as that note is stored.
THEOREM StatusesAnswersAgree == Spec => []AnswersAgree
<1>1. PostInv => AnswersAgree
  BY DEF PostInv
<1> QED
  BY <1>1, PostInvHolds, PTL

\* Followers are never handed an activity about a note that is not yet in the outbox.
THEOREM StatusesHandedOutIsPublished == Spec => []HandedOutIsPublished
<1>1. PostInv => HandedOutIsPublished
  BY DEF PostInv
<1> QED
  BY <1>1, PostInvHolds, PTL

\* A note that is deleted is withdrawn, will be, or lost its Delete with the request.
THEOREM StatusesDeleteIsHandedOut == Spec => []DeleteIsHandedOut
<1>1. PostInv => DeleteIsHandedOut
  BY DEF PostInv
<1> QED
  BY <1>1, PostInvHolds, PTL

-----------------------------------------------------------------------------
(* The history of a note. *)

UpTo(k) == [version \in 1..k |-> version]

LEMMA UpToNone == UpTo(0) = <<>>
BY DEF UpTo

LEMMA UpToNext ==
    ASSUME NEW k \in Nat
    PROVE  Append(UpTo(k), k + 1) = UpTo(k + 1)
<1>1. UpTo(k) \in Seq(Nat) /\ Len(UpTo(k)) = k
  BY DEF UpTo
<1> QED
  BY <1>1 DEF UpTo

Inserting(w, n) == task[w].note = n /\ At(w, "insertRevision")

\* Unless edits overlapped, a note has one editor, which holds the version before its own.
OneEditor(n) ==
    /\ \A w, v \in Workers : Editing(w, n) /\ Editing(v, n) => w = v
    /\ \A w \in Workers : task[w].note = n /\ At(w, "update") => task[w].seen = content[n]
    /\ \A w \in Workers : Inserting(w, n) =>
          /\ lastVersion[n] >= 2 /\ task[w].seen = lastVersion[n] - 1
          /\ revisions[n] = UpTo(lastVersion[n] - 2)
    /\ (\A w \in Workers : ~Inserting(w, n)) => revisions[n] = UpTo(lastVersion[n] - 1)

HistoryInv == \A n \in Notes : Stored(n) /\ n \notin raced => OneEditor(n)

\* A note keeps its history when its editor, if there is one, does nothing or gives up.
LEMMA SameEditor ==
    ASSUME NEW n \in Notes, OneEditor(n),
           content'[n] = content[n], lastVersion'[n] = lastVersion[n], revisions'[n] = revisions[n],
           \A v \in Workers : task'[v] = task[v] \/ (~Editing(v, n)' /\ ~Inserting(v, n))
    PROVE  OneEditor(n)'
BY DEF OneEditor, Editing, Inserting, At

\* A step that neither edits nor creates a note keeps its history.
LEMMA SameHistory ==
    ASSUME PostInv, HistoryInv, UNCHANGED <<content, lastVersion, revisions>>, raced \subseteq raced',
           \A n \in Notes : object'[n] = "stored" => object[n] = "stored",
           \A w \in Workers :
              \/ task'[w] = task[w]
              \/ /\ task'[w].at \notin {"update", "insertRevision"}
                 /\ task[w].at = "insertRevision" => task[w].note \in raced'
    PROVE  HistoryInv'
<1> SUFFICES ASSUME NEW n \in Notes, object'[n] = "stored", n \notin raced'
             PROVE  OneEditor(n)'
  BY DEF HistoryInv, Stored
<1>1. OneEditor(n)
  BY DEF HistoryInv, Stored
<1>2. \A v \in Workers : task'[v] = task[v] \/ (~Editing(v, n)' /\ ~Inserting(v, n))
  BY DEF Editing, Inserting, At
<1> QED
  BY <1>1, <1>2, SameEditor

LEMMA CreateNoteHistory ==
    ASSUME PostInv, HistoryInv, NEW w \in Workers, CreateNote(w)
    PROVE  HistoryInv'
<1> SUFFICES ASSUME NEW n \in Notes, object'[n] = "stored", n \notin raced'
             PROVE  OneEditor(n)'
  BY DEF HistoryInv, Stored
<1>1. /\ task[w].at = "create" /\ task[w] # Idle /\ task[w].note \in Notes
      /\ object[task[w].note] = "none"
  BY AtStage, AtWork DEF PostInv, CreateNote, At, Stages, Knows
<1>2. /\ object' = [object EXCEPT ![task[w].note] = "stored"]
      /\ content' = [content EXCEPT ![task[w].note] = 1]
      /\ lastVersion' = [lastVersion EXCEPT ![task[w].note] = 1]
      /\ task' = [task EXCEPT ![w] = [task[w] EXCEPT !.at = "outbox"]]
      /\ UNCHANGED <<revisions, raced>>
  BY DEF CreateNote, Goto, Stay
<1>3. task'[w].at = "outbox" /\ \A v \in Workers : v # w => task'[v] = task[v]
  BY <1>1, <1>2, AtWork DEF PostInv, TypeOK, Task
<1>4. CASE n = task[w].note
  <2>1. \A v \in Workers : ~Editing(v, n)' /\ ~Inserting(v, n)' /\ ~(task[v].note = n /\ At(v, "update"))'
    BY <1>1, <1>3, <1>4 DEF PostInv, TaskInv, OneCreator, Editing, Inserting, At
  <2>2. lastVersion'[n] = 1 /\ revisions'[n] = UpTo(0)
    BY <1>1, <1>2, <1>4, UpToNone DEF PostInv, TypeOK
  <2> QED
    BY <2>1, <2>2 DEF OneEditor
<1>5. CASE n # task[w].note
  <2>1. object[n] = "stored" /\ n \notin raced /\ OneEditor(n)
    BY <1>1, <1>2, <1>5 DEF PostInv, TypeOK, HistoryInv, Stored
  <2>2. content'[n] = content[n] /\ lastVersion'[n] = lastVersion[n] /\ revisions'[n] = revisions[n]
    BY <1>1, <1>2, <1>5 DEF PostInv, TypeOK
  <2>3. ~Editing(w, n)' /\ ~Inserting(w, n)
    BY <1>1, <1>3 DEF Inserting, Editing, At
  <2> QED
    BY <1>3, <2>1, <2>2, <2>3, SameEditor
<1> QED
  BY <1>4, <1>5

\* A request that begins to edit is the only editor, or the edits overlap.
LEMMA BeginPutHistory ==
    ASSUME PostInv, HistoryInv, NEW w \in Workers, BeginPut(w)
    PROVE  HistoryInv'
<1>1. PICK m \in Notes :
         /\ Stay(w, [Idle EXCEPT !.at = "update", !.note = m, !.seen = content[m]])
         /\ raced' = IF \E v \in Workers : Editing(v, m) THEN raced \cup {m} ELSE raced
  BY DEF BeginPut
<1>2. task[w] = Idle /\ UNCHANGED <<object, content, revisions, lastVersion>>
  BY DEF BeginPut, rows
<1>3. /\ task'[w].at = "update" /\ task'[w].note = m /\ task'[w].seen = content[m]
      /\ \A v \in Workers : v # w => task'[v] = task[v]
  BY <1>1 DEF PostInv, TypeOK, Stay, Idle
<1> SUFFICES ASSUME NEW n \in Notes, object'[n] = "stored", n \notin raced'
             PROVE  OneEditor(n)'
  BY DEF HistoryInv, Stored
<1>4. OneEditor(n)
  BY <1>1, <1>2 DEF HistoryInv, Stored
<1>5. ~Editing(w, n) /\ \A v \in Workers : ~Inserting(w, n) /\ ~Inserting(w, n)'
  BY <1>2, <1>3 DEF Editing, Inserting, Idle, At
<1>6. CASE n = m
  <2>1. \A v \in Workers : ~Editing(v, n)
    BY <1>1, <1>6
  <2>2. \A v \in Workers : ~Inserting(v, n) /\ ~Inserting(v, n)'
    BY <2>1, <1>3, <1>5 DEF Editing, Inserting, At
  <2>3. \A v \in Workers : v # w => ~Editing(v, n)' /\ ~(task[v].note = n /\ At(v, "update"))'
    BY <2>1, <1>3 DEF Editing, At
  <2>4. \A u, v \in Workers : Editing(u, n)' /\ Editing(v, n)' => u = v
    BY <2>3
  <2>5. task'[w].seen = content'[n] /\ revisions'[n] = UpTo(lastVersion'[n] - 1)
    BY <1>2, <1>3, <1>4, <1>6, <2>2 DEF OneEditor
  <2>6. \A v \in Workers : task'[v].note = n /\ At(v, "update")' => task'[v].seen = content'[n]
    BY <2>3, <2>5
  <2> QED
    BY <2>2, <2>4, <2>5, <2>6 DEF OneEditor
<1>7. CASE n # m
  <2>1. ~Editing(w, n)'
    BY <1>3, <1>7 DEF Editing
  <2> QED
    BY <1>2, <1>3, <1>4, <1>5, <2>1, SameEditor
<1> QED
  BY <1>6, <1>7

\* The editor stores the next version, and is about to insert the one before it.
LEMMA UpdateNoteHistory ==
    ASSUME PostInv, HistoryInv, NEW w \in Workers, UpdateNote(w)
    PROVE  HistoryInv'
<1> DEFINE m == task[w].note
<1>1. /\ task' = [task EXCEPT ![w] = [task[w] EXCEPT !.at = "insertRevision"]]
      /\ task[w].at = "update" /\ UNCHANGED <<object, revisions, raced>>
  BY DEF UpdateNote, Goto, Stay, At
<1>2. task[w] # Idle /\ m \in Notes /\ task[w] \in Task
  BY AtStage, AtWork DEF PostInv, UpdateNote, Stages
<1>3. /\ task'[w].at = "insertRevision" /\ task'[w].note = m /\ task'[w].seen = task[w].seen
      /\ \A v \in Workers : v # w => task'[v] = task[v]
  BY <1>1, <1>2 DEF PostInv, TypeOK, Task
<1> SUFFICES ASSUME NEW n \in Notes, object'[n] = "stored", n \notin raced'
             PROVE  OneEditor(n)'
  BY DEF HistoryInv, Stored
<1>4. OneEditor(n) /\ content[n] = lastVersion[n] /\ content[n] \in Versions
  BY <1>1 DEF HistoryInv, PostInv, VersionsMatch, Stored
<1>5. CASE n = m
  <2>1. content'[n] = content[n] + 1 /\ lastVersion'[n] = lastVersion[n] + 1
    BY <1>1, <1>2, <1>4, <1>5 DEF PostInv, TypeOK, UpdateNote, Stored
  <2>2. Editing(w, n) /\ \A v \in Workers : v # w => ~Editing(v, n)
    BY <1>1, <1>4, <1>5 DEF OneEditor, Editing
  <2>3. \A v \in Workers : v # w => ~Editing(v, n)' /\ ~Inserting(v, n)' /\ ~(task[v].note = n /\ At(v, "update"))'
    BY <1>3, <2>2 DEF Editing, Inserting, At
  <2>4. \A v \in Workers : ~Inserting(v, n)
    BY <1>1, <2>2 DEF Editing, Inserting, At
  <2>5. task'[w].seen = content[n] /\ revisions'[n] = UpTo(lastVersion[n] - 1)
    BY <1>1, <1>3, <1>4, <1>5, <2>4 DEF OneEditor, At
  <2>6. /\ lastVersion'[n] >= 2 /\ task'[w].seen = lastVersion'[n] - 1
        /\ revisions'[n] = UpTo(lastVersion'[n] - 2)
    BY <1>4, <2>1, <2>5 DEF Versions
  <2>7. Inserting(w, n)' /\ ~At(w, "update")'
    BY <1>3, <1>5 DEF Inserting, At
  <2> QED
    BY <2>3, <2>6, <2>7 DEF OneEditor
<1>6. CASE n # m
  <2>1. content'[n] = content[n] /\ lastVersion'[n] = lastVersion[n] /\ revisions'[n] = revisions[n]
    BY <1>1, <1>2, <1>6 DEF PostInv, TypeOK, UpdateNote
  <2>2. ~Editing(w, n)' /\ ~Inserting(w, n)
    BY <1>3, <1>6 DEF Inserting, Editing
  <2> QED
    BY <1>3, <1>4, <2>1, <2>2, SameEditor
<1> QED
  BY <1>5, <1>6

\* The revision that is inserted is the version before the one that is stored.
LEMMA InsertObjectRevisionHistory ==
    ASSUME PostInv, HistoryInv, NEW w \in Workers, InsertObjectRevision(w)
    PROVE  HistoryInv'
<1> DEFINE m == task[w].note
<1>1. /\ task' = [task EXCEPT ![w] = [task[w] EXCEPT !.at = "sendUpdate"]]
      /\ task[w].at = "insertRevision" /\ UNCHANGED <<object, content, lastVersion>>
      /\ \/ Stored(m) /\ revisions' = [revisions EXCEPT ![m] = Append(revisions[m], task[w].seen)]
            /\ UNCHANGED raced
         \/ raced' = raced \cup {m} /\ UNCHANGED revisions
  BY DEF InsertObjectRevision, Goto, Stay, At, Revised
<1>2. task[w] # Idle /\ m \in Notes /\ task[w] \in Task
  BY AtStage, AtWork DEF PostInv, InsertObjectRevision, Stages
<1>3. /\ task'[w].at = "sendUpdate" /\ \A v \in Workers : v # w => task'[v] = task[v]
  BY <1>1, <1>2 DEF PostInv, TypeOK, Task
<1> SUFFICES ASSUME NEW n \in Notes, object'[n] = "stored", n \notin raced'
             PROVE  OneEditor(n)'
  BY DEF HistoryInv, Stored
<1>4. OneEditor(n) /\ content[n] = lastVersion[n] /\ content[n] \in Versions
  BY <1>1 DEF HistoryInv, PostInv, VersionsMatch, Stored
<1>5. CASE n = m
  <2>1. Inserting(w, n) /\ \A v \in Workers : v # w => ~Editing(v, n)
    BY <1>1, <1>4, <1>5 DEF OneEditor, Editing, Inserting, At
  <2>2. \A v \in Workers : ~Editing(v, n)' /\ ~Inserting(v, n)' /\ ~(task[v].note = n /\ At(v, "update"))'
    BY <1>3, <2>1 DEF Editing, Inserting, At
  <2>3. revisions'[n] = Append(UpTo(lastVersion[n] - 2), lastVersion[n] - 1)
    <3>1. revisions' = [revisions EXCEPT ![n] = Append(revisions[n], task[w].seen)]
      BY <1>1, <1>5
    <3>2. revisions[n] = UpTo(lastVersion[n] - 2) /\ task[w].seen = lastVersion[n] - 1
      BY <1>4, <2>1 DEF OneEditor
    <3> QED
      BY <3>1, <3>2 DEF PostInv, TypeOK
  <2>4. lastVersion[n] - 2 \in Nat /\ (lastVersion[n] - 2) + 1 = lastVersion[n] - 1
    BY <1>4, <2>1 DEF OneEditor, Versions
  <2>5. revisions'[n] = UpTo(lastVersion'[n] - 1)
    BY <1>1, <2>3, <2>4, UpToNext
  <2> QED
    BY <2>2, <2>5 DEF OneEditor
<1>6. CASE n # m
  <2>1. revisions'[n] = revisions[n]
    BY <1>1, <1>2, <1>6 DEF PostInv, TypeOK
  <2>2. ~Editing(w, n)' /\ ~Inserting(w, n)
    BY <1>3, <1>6 DEF Inserting, Editing
  <2> QED
    BY <1>1, <1>3, <1>4, <2>1, <2>2, SameEditor
<1> QED
  BY <1>5, <1>6

LEMMA DeleteObjectHistory ==
    ASSUME PostInv, HistoryInv, NEW w \in Workers, DeleteObject(w)
    PROVE  HistoryInv'
<1> DEFINE m == task[w].note
<1>1. /\ object' = [object EXCEPT ![m] = "deleted"] /\ content' = [content EXCEPT ![m] = 0]
      /\ revisions' = [revisions EXCEPT ![m] = <<>>] /\ UNCHANGED <<lastVersion, raced>>
      /\ task' = [task EXCEPT ![w] = [task[w] EXCEPT !.at = "sendDelete"]]
  BY DEF DeleteObject, Goto, Stay
<1>2. task[w] # Idle /\ m \in Notes /\ task[w] \in Task /\ task[w].at = "delete"
  BY AtStage, AtWork DEF PostInv, DeleteObject, Stages, At
<1>3. task'[w].at = "sendDelete" /\ \A v \in Workers : v # w => task'[v] = task[v]
  BY <1>1, <1>2 DEF PostInv, TypeOK, Task
<1> SUFFICES ASSUME NEW n \in Notes, object'[n] = "stored", n \notin raced'
             PROVE  OneEditor(n)'
  BY DEF HistoryInv, Stored
<1>4. n # m /\ OneEditor(n)
  BY <1>1, <1>2 DEF PostInv, TypeOK, HistoryInv, Stored
<1>5. content'[n] = content[n] /\ lastVersion'[n] = lastVersion[n] /\ revisions'[n] = revisions[n]
  BY <1>1, <1>2, <1>4 DEF PostInv, TypeOK
<1>6. ~Editing(w, n)' /\ ~Inserting(w, n)
  BY <1>2, <1>3, <1>4 DEF Inserting, Editing, At
<1> QED
  BY <1>3, <1>4, <1>5, <1>6, SameEditor

\* A step of the others: no request comes to edit, and an insert that dies is remembered.
LEMMA OtherHistory ==
    ASSUME PostInv, HistoryInv, NEW w \in Workers,
           \/ RepeatPost(w) \/ BeginPost(w) \/ AddObjectInOutbox(w) \/ DeliverFollowers(w)
           \/ DeliverToMentions(w) \/ InsertKey(w) \/ AnswerPost(w) \/ DeliverUpdate(w)
           \/ BeginDelete(w) \/ DeliverDelete(w) \/ Fail(w)
    PROVE  HistoryInv'
<1>1. UNCHANGED <<content, lastVersion, revisions, object>> /\ raced \subseteq raced'
  BY DEF RepeatPost, BeginPost, AddObjectInOutbox, DeliverFollowers, DeliverToMentions, InsertKey,
         AnswerPost, DeliverUpdate, BeginDelete, DeliverDelete, Fail, rows, history
<1>2. \A v \in Workers : v # w => task'[v] = task[v]
  BY DEF PostInv, TypeOK, RepeatPost, BeginPost, AddObjectInOutbox, DeliverFollowers,
         DeliverToMentions, InsertKey, AnswerPost, DeliverUpdate, BeginDelete, DeliverDelete, Fail,
         Goto, Finish, Stay
<1>3. \/ task'[w] = task[w]
      \/ /\ task'[w].at \notin {"update", "insertRevision"}
         /\ task[w].at = "insertRevision" => task[w].note \in raced'
  <2>1. CASE RepeatPost(w)
    BY <2>1 DEF RepeatPost
  <2>2. CASE BeginPost(w) \/ BeginDelete(w)
    <3>1. task[w] = Idle /\ Idle.at = "idle"
      BY <2>2 DEF BeginPost, BeginDelete, Idle
    <3>2. CASE BeginPost(w)
      <4>1. PICK k \in Keys \cup {None}, n \in Notes :
               Stay(w, [Idle EXCEPT !.at = "create", !.note = n, !.key = k])
        BY <3>2 DEF BeginPost
      <4> QED
        BY <3>1, <4>1 DEF PostInv, TypeOK, Stay, Idle
    <3>3. CASE BeginDelete(w)
      <4>1. PICK n \in Notes : Stay(w, [Idle EXCEPT !.at = "delete", !.note = n])
        BY <3>3 DEF BeginDelete
      <4> QED
        BY <3>1, <4>1 DEF PostInv, TypeOK, Stay, Idle
    <3> QED
      BY <2>2, <3>2, <3>3
  <2>3. CASE AnswerPost(w) \/ DeliverUpdate(w) \/ DeliverDelete(w) \/ Fail(w)
    BY <2>3 DEF PostInv, TypeOK, AnswerPost, DeliverUpdate, DeliverDelete, Fail, Finish, Stay, At, Idle
  <2>4. CASE AddObjectInOutbox(w) \/ DeliverFollowers(w) \/ DeliverToMentions(w) \/ InsertKey(w)
    <3>1. /\ task[w].at \notin {"idle", "insertRevision"} /\ task[w] # Idle
          /\ \E stage \in {"followers", "mentions", "insertKey", "pregenerate"} : Goto(w, stage)
      BY <2>4 DEF AddObjectInOutbox, DeliverFollowers, DeliverToMentions, InsertKey, At, Idle
    <3> QED
      BY <3>1, AtWork DEF PostInv, TypeOK, Goto, Stay, Task
  <2> QED
    BY <2>1, <2>2, <2>3, <2>4
<1> QED
  BY <1>1, <1>2, <1>3, SameHistory

LEMMA HistoryInvInit == Init => HistoryInv
BY DEF Init, HistoryInv, Stored

LEMMA HistoryInvNext ==
    ASSUME PostInv, HistoryInv, [Next]_vars
    PROVE  HistoryInv'
<1>1. CASE UNCHANGED vars
  BY <1>1, SameHistory DEF vars, rows, history
<1>2. ASSUME NEW k \in Keys, Expire(k)
      PROVE  HistoryInv'
  BY <1>2, SameHistory DEF Expire, history
<1>3. ASSUME NEW w \in Workers,
             \/ CreateNote(w) \/ BeginPut(w) \/ UpdateNote(w) \/ InsertObjectRevision(w)
             \/ DeleteObject(w)
      PROVE  HistoryInv'
  BY <1>3, CreateNoteHistory, BeginPutHistory, UpdateNoteHistory, InsertObjectRevisionHistory,
     DeleteObjectHistory
<1> QED
  BY <1>1, <1>2, <1>3, OtherHistory DEF Next

\* For any number of requests and edits: a note whose edits did not overlap is answered with
\* all its versions, each once and in their order.
THEOREM StatusesHistoryIsComplete == Spec => []HistoryIsComplete
<1>1. Init => HistoryInv
  BY HistoryInvInit
<1>2. PostInv /\ HistoryInv /\ [Next]_vars => HistoryInv'
  BY HistoryInvNext
<1>3. PostInv /\ HistoryInv => HistoryIsComplete
  <2> SUFFICES ASSUME PostInv, HistoryInv, NEW n \in Notes, Stored(n), n \notin raced,
                      ~(\E w \in Workers : Editing(w, n))
               PROVE  GetStatusRevisions(n) = UpTo(lastVersion[n])
    BY DEF HistoryIsComplete, UpTo
  <2>1. revisions[n] = UpTo(lastVersion[n] - 1)
    BY DEF HistoryInv, OneEditor, Inserting, Editing, At
  <2>2. content[n] = lastVersion[n] /\ lastVersion[n] - 1 \in Nat
        /\ (lastVersion[n] - 1) + 1 = lastVersion[n]
    BY DEF PostInv, VersionsMatch, Versions
  <2> QED
    BY <2>1, <2>2, UpToNext DEF GetStatusRevisions, SelectObjectRevisions
<1> QED
  BY <1>1, <1>2, <1>3, PostInvHolds, PTL DEF Spec

=============================================================================
