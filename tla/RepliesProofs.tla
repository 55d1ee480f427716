------------------------------ MODULE RepliesProofs ------------------------------
(***************************************************************************)
(* The two records of a link between notes, objects.in_reply_to_id and the  *)
(* row of actor_replies, agree in every reachable state of Replies, and the *)
(* replies_count of a note is right but where a deletion has to put it      *)
(* right or missed it: for any notes, workers and number of rows.           *)
(*                                                                          *)
(* LinksAgree is inductive together with the types of the tables and with   *)
(* what a handler knows at the stages that write a link: the rows that it   *)
(* is about to link are rows, never None (LinkInv).  RepliesCounted needs   *)
(* LinkInv, by which a reply that moves to another parent was counted with  *)
(* the old one, and a new row has no replies (CountInv).                    *)
(***************************************************************************)
EXTENDS Replies, FiniteSetTheorems, TLAPS

Busy == [at : Stages, why : Purposes, row : Rows, up : Rows \cup {None}, top : Rows \cup {None},
         named : Notes \cup {None}, answered : Rows \cup {None}]

\* What a handler knows at its stage.
KnowsRows(t) ==
    /\ t.at = "findParent" => t.named \in Notes
    /\ t.at \in {"findGrandparent", "repairParent", "repair", "refresh"} => t.up \in Rows
    /\ t.at = "repairParent" => t.top \in Rows
    /\ t.at = "insertNote" => NoteOf(t.row) \in RemoteNotes
    /\ t.at \in {"insertLocal", "insertReply"} => t.why = "post"
    /\ t.why = "post" => t.answered \in Rows

TaskOK(t) == t = Idle \/ (t \in Busy /\ KnowsRows(t))

TaskInv == task \in [Workers -> Task] /\ \A w \in Workers : TaskOK(task[w])

RowInv ==
    /\ object \in [Notes -> 0..MaxRows]
    /\ lastRow \in [Notes -> 0..MaxRows]
    /\ inReplyTo \in [Notes -> Notes \cup {None}]
    /\ parent \in [Notes -> Rows \cup {None}]
    /\ replyRow \in [Notes -> Rows \cup {None}]

LinkInv == TaskInv /\ RowInv /\ LinksAgree

\* What LinksAgree says of one note.
LinkAgrees(n) ==
    /\ parent[n] = replyRow[n]
    /\ parent[n] # None => object[n] # 0 /\ Exists(parent[n])

-----------------------------------------------------------------------------
(* Rows. *)

\* A note that has a row names it.
LEMMA RowOfNote ==
    ASSUME RowInv, NEW n \in Notes, object[n] # 0
    PROVE  RowOf(n) \in Rows /\ NoteOf(RowOf(n)) = n /\ Exists(RowOf(n))
BY RepliesAssumption DEF RowInv, RowOf, Rows, NoteOf, Exists

\* The next row of a note is one, if the note may have it.
LEMMA NextRowOfNote ==
    ASSUME RowInv, NEW n \in Notes, MayHaveRow(n)
    PROVE  NextRow(n) \in Rows /\ NoteOf(NextRow(n)) = n
BY RepliesAssumption DEF RowInv, NextRow, MayHaveRow, Rows, NoteOf

\* A row consists of its note and a number.
LEMMA RowParts ==
    ASSUME NEW r \in Rows
    PROVE  NoteOf(r) \in Notes /\ r[2] \in 1..MaxRows /\ r = <<NoteOf(r), r[2]>> /\ r # None
BY RepliesAssumption DEF Rows, NoteOf

-----------------------------------------------------------------------------
(* Workers. *)

\* A worker goes on with a task that is in order.
LEMMA StayOK ==
    ASSUME TaskInv, NEW w \in Workers, NEW t, TaskOK(t), Stay(w, t)
    PROVE  TaskInv'
BY DEF TaskInv, Stay, TaskOK, Task, Busy

LEMMA FinishOK ==
    ASSUME TaskInv, NEW w \in Workers, Finish(w)
    PROVE  TaskInv'
BY StayOK DEF Finish, TaskOK

\* A worker that is at work has a task.
LEMMA AtBusy ==
    ASSUME TaskInv, NEW w \in Workers, task[w] # Idle
    PROVE  task[w] \in Busy /\ KnowsRows(task[w])
BY DEF TaskInv, TaskOK

LEMMA NotIdle ==
    ASSUME NEW w, NEW stage \in Stages, At(w, stage)
    PROVE  task[w] # Idle
BY DEF At, Stages, Idle

\* The note that a handler is about is at hand.
LEMMA OnwardOK ==
    ASSUME TaskInv, NEW w \in Workers, NEW t \in Busy, t.why = "post" => t.answered \in Rows,
           Onward(w, t)
    PROVE  TaskInv'
<1>1. CASE t.why \in {"read", "create"}
  BY <1>1, FinishOK DEF Onward
<1>2. CASE t.why \notin {"read", "create"}
  <2> DEFINE next == [t EXCEPT !.at = NextStage[t.why], !.up = None, !.top = None, !.named = None]
  <2>1. NextStage[t.why] \in {"readParent", "updateNote", "insertLocal"}
        /\ (NextStage[t.why] = "insertLocal" => t.why = "post")
    BY <1>2 DEF Busy, Purposes, NextStage
  <2>2. next \in Busy /\ KnowsRows(next)
    BY <2>1 DEF Busy, KnowsRows, Stages
  <2> QED
    BY <1>2, <2>2, StayOK DEF Onward, TaskOK
<1> QED
  BY <1>1, <1>2

-----------------------------------------------------------------------------
(* Links. *)

\* Links that are there stay as they are, and so do their notes.
SameLinks == UNCHANGED <<object, lastRow, inReplyTo, parent, replyRow>>

LEMMA SameLinksOK ==
    ASSUME RowInv, LinksAgree, SameLinks
    PROVE  RowInv' /\ LinksAgree'
BY DEF RowInv, LinksAgree, SameLinks, Exists, NoteOf

\* A batch of insertReply writes both records.
LEMMA InsertReplyOK ==
    ASSUME RowInv, LinksAgree, NEW c \in Rows, NEW p \in Rows, InsertReply(c, p)
    PROVE  RowInv' /\ LinksAgree'
<1>1. Exists(c) /\ Exists(p) /\ UNCHANGED <<object, lastRow, inReplyTo>>
      /\ parent' = [parent EXCEPT ![NoteOf(c)] = p]
      /\ replyRow' = [replyRow EXCEPT ![NoteOf(c)] = p]
  BY DEF InsertReply, Linked
<1>2. NoteOf(c) \in Notes /\ object[NoteOf(c)] # 0
  BY <1>1, RowParts, RepliesAssumption DEF Exists
<1>3. RowInv'
  BY <1>1, <1>2 DEF RowInv
<1>4. ASSUME NEW n \in Notes
      PROVE  LinkAgrees(n)'
  BY <1>1, <1>2, <1>4 DEF RowInv, LinksAgree, LinkAgrees, Exists, NoteOf
<1> QED
  BY <1>3, <1>4 DEF LinksAgree, LinkAgrees

\* A new row is the parent of no note, and has no parent.
LEMMA InsertOK ==
    ASSUME RowInv, LinksAgree, NEW n \in Notes, NEW answers \in Notes \cup {None}, NEW r \in Rows,
           NoteOf(r) = n, Insert(r, answers), UNCHANGED <<parent, replyRow>>
    PROVE  RowInv' /\ LinksAgree'
<1>1. /\ object[n] = 0 /\ r[2] \in 1..MaxRows
      /\ object' = [object EXCEPT ![n] = r[2]]
      /\ lastRow' = [lastRow EXCEPT ![n] = r[2]]
      /\ inReplyTo' = [inReplyTo EXCEPT ![n] = answers]
      /\ UNCHANGED <<parent, replyRow>>
  BY RowParts DEF Insert
<1>2. RowInv'
  BY <1>1, RepliesAssumption DEF RowInv
<1>3. ASSUME NEW m \in Notes
      PROVE  LinkAgrees(m)'
  <2>1. parent[m] # None => object[m] # 0 /\ Exists(parent[m]) /\ parent[m] \in Rows
    BY DEF LinksAgree, RowInv
  <2>2. parent[m] # None => m # n /\ NoteOf(parent[m]) # n
    BY <1>1, <2>1, RowParts, RepliesAssumption DEF Exists
  <2>3. parent[m] # None => NoteOf(parent[m]) \in Notes
    BY <2>1, RowParts
  <2> QED
    BY <1>1, <2>1, <2>2, <2>3 DEF LinksAgree, LinkAgrees, RowInv, Exists, NoteOf
<1> QED
  BY <1>2, <1>3 DEF LinksAgree, LinkAgrees

\* The batch of a deletion removes the links of the note in both directions.
LEMMA DeleteOK ==
    ASSUME RowInv, LinksAgree, NEW w \in Workers, task[w] \in Busy, DeleteBatch(w)
    PROVE  RowInv' /\ LinksAgree'
<1> DEFINE r == task[w].row
           n == NoteOf(r)
<1>1. r \in Rows /\ n \in Notes
  BY RowParts DEF Busy
<1>2. CASE ~Exists(r)
  BY <1>2, SameLinksOK DEF DeleteBatch, SameLinks, rows, projection
<1>3. CASE Exists(r)
  <2>1. /\ object' = [object EXCEPT ![n] = 0]
        /\ inReplyTo' = [inReplyTo EXCEPT ![n] = None]
        /\ parent' = [m \in Notes |-> IF m = n \/ parent[m] = r THEN None ELSE parent[m]]
        /\ replyRow' = [m \in Notes |-> IF m = n \/ replyRow[m] = r THEN None ELSE replyRow[m]]
        /\ UNCHANGED lastRow
    BY <1>3 DEF DeleteBatch, Unlinked
  <2>2. RowInv'
    BY <1>1, <2>1, RepliesAssumption DEF RowInv
  <2>3. ASSUME NEW m \in Notes
        PROVE  LinkAgrees(m)'
    <3>1. parent[m] = replyRow[m]
      BY DEF LinksAgree
    <3>2. parent'[m] = replyRow'[m]
      BY <2>1, <3>1
    <3>3. CASE parent'[m] # None
      <4>1. m # n /\ parent[m] # r /\ parent'[m] = parent[m] /\ parent[m] # None
        BY <2>1, <3>3
      <4>2. object[m] # 0 /\ Exists(parent[m]) /\ parent[m] \in Rows
        BY <4>1 DEF LinksAgree, RowInv
      <4>3. NoteOf(parent[m]) # n
        <5>1. parent[m] = <<NoteOf(parent[m]), parent[m][2]>> /\ r = <<n, r[2]>>
          BY <1>1, <4>2, RowParts
        <5>2. object[NoteOf(parent[m])] = parent[m][2] /\ object[n] = r[2]
          BY <1>3, <4>2 DEF Exists
        <5> QED
          BY <4>1, <5>1, <5>2
      <4>4. object'[m] = object[m] /\ object'[NoteOf(parent[m])] = object[NoteOf(parent[m])]
        BY <1>1, <2>1, <4>1, <4>2, <4>3, RowParts DEF RowInv
      <4> QED
        BY <3>2, <4>1, <4>2, <4>4 DEF LinkAgrees, Exists, NoteOf
    <3>4. CASE parent'[m] = None
      BY <3>2, <3>4 DEF LinkAgrees
    <3> QED
      BY <3>3, <3>4
  <2> QED
    BY <2>2, <2>3 DEF LinksAgree, LinkAgrees
<1> QED
  BY <1>2, <1>3

-----------------------------------------------------------------------------
(* Reads, which write no link. *)

LEMMA ReadNoteOK ==
    ASSUME LinkInv, NEW w \in Workers, NEW why \in {"read", "update", "delete"}, ReadNote(w, why)
    PROVE  LinkInv'
<1>1. RowInv' /\ LinksAgree'
  BY SameLinksOK DEF LinkInv, ReadNote, SameLinks, rows, projection
<1>2. PICK n \in Notes :
          /\ object[n] # 0
          /\ LET t == NewTask("findParent", why, RowOf(n), inReplyTo[n]) IN
             IF inReplyTo[n] = None THEN Onward(w, t) ELSE Stay(w, t)
  BY DEF ReadNote
<1> DEFINE t == NewTask("findParent", why, RowOf(n), inReplyTo[n])
<1>3. t \in Busy /\ t.why # "post" /\ t.at = "findParent" /\ t.named = inReplyTo[n]
  BY <1>2, RowOfNote DEF LinkInv, RowInv, NewTask, Busy, Stages, Purposes
<1>4. CASE inReplyTo[n] = None
  BY <1>1, <1>2, <1>3, <1>4, OnwardOK DEF LinkInv
<1>5. CASE inReplyTo[n] # None
  <2>1. TaskOK(t)
    BY <1>3, <1>5 DEF LinkInv, RowInv, TaskOK, KnowsRows
  <2> QED
    BY <1>1, <1>2, <1>5, <2>1, StayOK DEF LinkInv
<1> QED
  BY <1>4, <1>5

LEMMA FindParentOK ==
    ASSUME LinkInv, NEW w \in Workers, FindParent(w)
    PROVE  LinkInv'
<1> DEFINE t == task[w]
<1>1. RowInv' /\ LinksAgree'
  BY SameLinksOK DEF LinkInv, FindParent, SameLinks, rows, projection
<1>2. t \in Busy /\ KnowsRows(t) /\ t.at = "findParent" /\ t.named \in Notes
  BY AtBusy, NotIdle DEF LinkInv, FindParent, At, Stages, KnowsRows
<1>3. CASE object[t.named] # 0 /\ t.why = "post"
  BY <1>1, <1>2, <1>3, OnwardOK DEF LinkInv, FindParent, KnowsRows
<1>4. CASE object[t.named] # 0 /\ t.why # "post"
  <2> DEFINE next == [t EXCEPT !.at = "repair", !.up = RowOf(t.named), !.named = None]
  <2>1. RowOf(t.named) \in Rows
    BY <1>2, <1>4, RowOfNote DEF LinkInv
  <2>2. TaskOK(next)
    BY <1>2, <1>4, <2>1 DEF TaskOK, KnowsRows, Busy, Stages
  <2> QED
    BY <1>1, <1>4, <2>2, StayOK DEF LinkInv, FindParent
<1>5. CASE object[t.named] = 0
  <2>1. TaskOK([t EXCEPT !.at = "insertParent"])
    BY <1>2 DEF TaskOK, KnowsRows, Busy, Stages
  <2> QED
    BY <1>1, <1>5, <2>1, StayOK DEF LinkInv, FindParent
<1> QED
  BY <1>3, <1>4, <1>5

LEMMA NoParentOK ==
    ASSUME LinkInv, NEW w \in Workers, NoParent(w)
    PROVE  LinkInv'
<1>1. RowInv' /\ LinksAgree'
  BY SameLinksOK DEF LinkInv, NoParent, SameLinks, rows, projection
<1>2. task[w] \in Busy /\ KnowsRows(task[w])
  BY AtBusy, NotIdle DEF LinkInv, NoParent, Stages
<1> QED
  BY <1>1, <1>2, OnwardOK DEF LinkInv, NoParent, KnowsRows

\* What follows once the parent is there, and linked if it is a reply itself.
LEMMA AfterParentOK ==
    ASSUME TaskInv, NEW w \in Workers, NEW t \in Busy, t.up \in Rows,
           t.why = "post" => t.answered \in Rows, AfterParent(w, t)
    PROVE  TaskInv'
<1>1. CASE t.why = "post"
  BY <1>1, OnwardOK DEF AfterParent
<1>2. CASE t.why # "post"
  <2>1. TaskOK([t EXCEPT !.at = "repair"])
    BY <1>2 DEF TaskOK, KnowsRows, Busy, Stages
  <2> QED
    BY <1>2, <2>1, StayOK DEF AfterParent
<1> QED
  BY <1>1, <1>2

LEMMA FindGrandparentOK ==
    ASSUME LinkInv, NEW w \in Workers, FindGrandparent(w)
    PROVE  LinkInv'
<1> DEFINE t == task[w]
<1>1. RowInv' /\ LinksAgree'
  BY SameLinksOK DEF LinkInv, FindGrandparent, SameLinks, rows, projection
<1>2. t \in Busy /\ KnowsRows(t) /\ t.up \in Rows
  BY AtBusy, NotIdle DEF LinkInv, FindGrandparent, At, Stages, KnowsRows
<1>3. CASE t.named # None /\ object[t.named] # 0
  <2> DEFINE next == [t EXCEPT !.at = "repairParent", !.top = RowOf(t.named)]
  <2>1. RowOf(t.named) \in Rows
    BY <1>2, <1>3, RowOfNote DEF LinkInv, Busy
  <2>2. TaskOK(next)
    BY <1>2, <2>1 DEF TaskOK, KnowsRows, Busy, Stages
  <2> QED
    BY <1>1, <1>3, <2>2, StayOK DEF LinkInv, FindGrandparent
<1>4. CASE ~(t.named # None /\ object[t.named] # 0)
  <2> DEFINE next == [t EXCEPT !.named = None]
  <2>1. next \in Busy /\ next.up \in Rows /\ (next.why = "post" => next.answered \in Rows)
    BY <1>2 DEF KnowsRows, Busy
  <2>2. AfterParent(w, next)
    BY <1>4 DEF FindGrandparent
  <2> QED
    BY <1>1, <2>1, <2>2, AfterParentOK DEF LinkInv
<1> QED
  BY <1>3, <1>4

LEMMA GetReplyParentIdOK ==
    ASSUME LinkInv, NEW w \in Workers, GetReplyParentId(w)
    PROVE  LinkInv'
<1> DEFINE t == task[w]
           up == IF Exists(t.row) THEN parent[NoteOf(t.row)] ELSE None
           next == [t EXCEPT !.at = "delete", !.up = up]
<1>1. RowInv' /\ LinksAgree'
  BY SameLinksOK DEF LinkInv, GetReplyParentId, SameLinks, rows, projection
<1>2. t \in Busy /\ KnowsRows(t)
  BY AtBusy, NotIdle DEF LinkInv, GetReplyParentId, Stages
<1>3. up \in Rows \cup {None}
  BY <1>2, RowParts DEF LinkInv, RowInv, Busy
<1>4. TaskOK(next)
  BY <1>2, <1>3 DEF TaskOK, KnowsRows, Busy, Stages
<1> QED
  BY <1>1, <1>4, StayOK DEF LinkInv, GetReplyParentId

LEMMA RefreshOK ==
    ASSUME LinkInv, NEW w \in Workers, RefreshRepliesCount(w) \/ Fail(w)
    PROVE  LinkInv'
<1>1. RowInv' /\ LinksAgree'
  BY SameLinksOK DEF LinkInv, RefreshRepliesCount, Fail, SameLinks, rows, projection
<1> QED
  BY <1>1, FinishOK DEF LinkInv, RefreshRepliesCount, Fail

-----------------------------------------------------------------------------
(* New notes. *)

LEMMA BeginCreateOK ==
    ASSUME LinkInv, NEW w \in Workers, BeginCreate(w)
    PROVE  LinkInv'
<1>1. RowInv' /\ LinksAgree'
  BY SameLinksOK DEF LinkInv, BeginCreate, SameLinks, rows, projection
<1>2. PICK n \in RemoteNotes :
          MayHaveRow(n) /\ Stay(w, NewTask("insertNote", "create", NextRow(n), None))
  BY DEF BeginCreate
<1>3. TaskOK(NewTask("insertNote", "create", NextRow(n), None))
  BY <1>2, NextRowOfNote DEF LinkInv, NewTask, TaskOK, KnowsRows, Busy, Stages, Purposes, Notes
<1> QED
  BY <1>1, <1>2, <1>3, StayOK DEF LinkInv

LEMMA BeginPostOK ==
    ASSUME LinkInv, NEW w \in Workers, BeginPost(w)
    PROVE  LinkInv'
<1>1. RowInv' /\ LinksAgree'
  BY SameLinksOK DEF LinkInv, BeginPost, SameLinks, rows, projection
<1>2. PICK n \in LocalNotes, p \in Notes :
          /\ MayHaveRow(n) /\ object[p] # 0
          /\ Stay(w, [NewTask("findParent", "post", NextRow(n), p) EXCEPT !.answered = RowOf(p)])
  BY DEF BeginPost
<1> DEFINE next == [NewTask("findParent", "post", NextRow(n), p) EXCEPT !.answered = RowOf(p)]
<1>3. NextRow(n) \in Rows /\ RowOf(p) \in Rows
  BY <1>2, NextRowOfNote, RowOfNote DEF LinkInv, Notes
<1>4. TaskOK(next)
  BY <1>3 DEF NewTask, TaskOK, KnowsRows, Busy, Stages, Purposes
<1> QED
  BY <1>1, <1>2, <1>4, StayOK DEF LinkInv

\* cacheObject for a parent.
LEMMA InsertParentOK ==
    ASSUME LinkInv, NEW w \in Workers, InsertParent(w)
    PROVE  LinkInv'
<1> DEFINE t == task[w]
           n == t.named
<1>1. n \in RemoteNotes /\ n \in Notes /\ t \in Busy /\ KnowsRows(t)
  BY AtBusy, NotIdle DEF LinkInv, InsertParent, Stages, Notes
<1>2. PICK answers \in ReplyTo[n] :
          /\ Insert(NextRow(n), answers)
          /\ Stay(w, [t EXCEPT !.at = "findGrandparent", !.up = NextRow(n), !.named = answers])
  BY DEF InsertParent
<1> DEFINE next == [t EXCEPT !.at = "findGrandparent", !.up = NextRow(n), !.named = answers]
<1>3. answers \in Notes \cup {None}
  BY <1>1, RepliesAssumption
<1>4. NoteOf(NextRow(n)) = n
  BY DEF NextRow, NoteOf
<1>5. NextRow(n) \in Rows
  BY <1>1, <1>2, <1>4, NextRowOfNote DEF LinkInv, Insert
<1>6. RowInv' /\ LinksAgree'
  BY <1>1, <1>2, <1>3, <1>4, <1>5, InsertOK DEF LinkInv, InsertParent
<1>7. TaskOK(next)
  BY <1>1, <1>3, <1>5 DEF TaskOK, KnowsRows, Busy, Stages
<1> QED
  BY <1>2, <1>6, <1>7, StayOK DEF LinkInv

\* cacheObject for the note of a Create.
LEMMA InsertNoteOK ==
    ASSUME LinkInv, NEW w \in Workers, InsertNote(w)
    PROVE  LinkInv'
<1> DEFINE t == task[w]
           n == NoteOf(t.row)
<1>1. t \in Busy /\ KnowsRows(t) /\ t.row \in Rows /\ n \in Notes /\ t.at = "insertNote"
  BY AtBusy, NotIdle, RowParts DEF LinkInv, InsertNote, At, Stages, Busy
<1>2. PICK answers \in ReplyTo[n] :
          /\ Insert(t.row, answers)
          /\ IF answers = None THEN Finish(w)
             ELSE Stay(w, [t EXCEPT !.at = "findParent", !.named = answers])
  BY DEF InsertNote
<1>3. answers \in Notes \cup {None}
  BY <1>1, <1>2, RepliesAssumption DEF KnowsRows
<1>4. RowInv' /\ LinksAgree'
  BY <1>1, <1>2, <1>3, InsertOK DEF LinkInv, InsertNote
<1>5. CASE answers = None
  BY <1>2, <1>4, <1>5, FinishOK DEF LinkInv
<1>6. CASE answers # None
  <2>1. TaskOK([t EXCEPT !.at = "findParent", !.named = answers])
    BY <1>1, <1>3, <1>6 DEF TaskOK, KnowsRows, Busy, Stages
  <2> QED
    BY <1>2, <1>4, <1>6, <2>1, StayOK DEF LinkInv
<1> QED
  BY <1>5, <1>6

\* createObject for a reply that is posted.
LEMMA InsertLocalOK ==
    ASSUME LinkInv, NEW w \in Workers, InsertLocal(w)
    PROVE  LinkInv'
<1> DEFINE t == task[w]
<1>1. t \in Busy /\ KnowsRows(t) /\ t.row \in Rows /\ t.answered \in Rows /\ t.why = "post"
  BY AtBusy, NotIdle DEF LinkInv, InsertLocal, At, Stages, Busy, KnowsRows
<1>2. RowInv' /\ LinksAgree'
  BY <1>1, InsertOK, RowParts DEF LinkInv, InsertLocal
<1>3. TaskOK([t EXCEPT !.at = "insertReply"])
  BY <1>1 DEF TaskOK, KnowsRows, Busy, Stages
<1> QED
  BY <1>2, <1>3, StayOK DEF LinkInv, InsertLocal, Goto

-----------------------------------------------------------------------------
(* Links that are written, and deleted. *)

LEMMA RepairParentOK ==
    ASSUME LinkInv, NEW w \in Workers, RepairParent(w)
    PROVE  LinkInv'
<1> DEFINE t == task[w]
           next == [t EXCEPT !.top = None, !.named = None]
<1>1. t \in Busy /\ KnowsRows(t) /\ t.up \in Rows /\ t.top \in Rows
  BY AtBusy, NotIdle DEF LinkInv, RepairParent, At, Stages, KnowsRows
<1>2. RowInv' /\ LinksAgree'
  BY <1>1, InsertReplyOK DEF LinkInv, RepairParent
<1>3. next \in Busy /\ next.up \in Rows /\ (next.why = "post" => next.answered \in Rows)
  BY <1>1 DEF KnowsRows, Busy
<1> QED
  BY <1>2, <1>3, AfterParentOK DEF LinkInv, RepairParent

LEMMA RepairOK ==
    ASSUME LinkInv, NEW w \in Workers, Repair(w)
    PROVE  LinkInv'
<1> DEFINE t == task[w]
<1>1. t \in Busy /\ KnowsRows(t) /\ t.up \in Rows /\ t.row \in Rows
  BY AtBusy, NotIdle DEF LinkInv, Repair, At, Stages, KnowsRows, Busy
<1>2. RowInv' /\ LinksAgree'
  BY <1>1, InsertReplyOK DEF LinkInv, Repair
<1> QED
  BY <1>1, <1>2, OnwardOK DEF LinkInv, Repair, KnowsRows

LEMMA RecordReplyOK ==
    ASSUME LinkInv, NEW w \in Workers, RecordReply(w)
    PROVE  LinkInv'
<1> DEFINE t == task[w]
<1>1. t \in Busy /\ t.row \in Rows /\ t.answered \in Rows
  BY AtBusy, NotIdle DEF LinkInv, RecordReply, At, Stages, KnowsRows, Busy
<1>2. RowInv' /\ LinksAgree'
  BY <1>1, InsertReplyOK DEF LinkInv, RecordReply
<1> QED
  BY <1>2, FinishOK DEF LinkInv, RecordReply

LEMMA UpdateNoteOK ==
    ASSUME LinkInv, NEW w \in Workers, UpdateNote(w)
    PROVE  LinkInv'
<1> DEFINE n == NoteOf(task[w].row)
<1>1. n \in Notes
  BY AtBusy, NotIdle, RowParts DEF LinkInv, UpdateNote, Stages, Busy
<1>2. PICK answers \in IF n \in RemoteNotes THEN ReplyTo[n] ELSE {inReplyTo[n]} :
          inReplyTo' = [inReplyTo EXCEPT ![n] = IF Exists(task[w].row) THEN answers ELSE @]
  BY DEF UpdateNote
<1>3. answers \in Notes \cup {None}
  BY <1>1, <1>2, RepliesAssumption DEF LinkInv, RowInv
<1>4. UNCHANGED <<object, lastRow, parent, replyRow>>
  BY DEF UpdateNote, projection
<1>5. RowInv'
  BY <1>1, <1>2, <1>3, <1>4 DEF LinkInv, RowInv
<1>6. LinksAgree'
  BY <1>4 DEF LinkInv, LinksAgree, Exists, NoteOf
<1> QED
  BY <1>5, <1>6, FinishOK DEF LinkInv, UpdateNote

LEMMA DeleteBatchOK ==
    ASSUME LinkInv, NEW w \in Workers, DeleteBatch(w)
    PROVE  LinkInv'
<1>1. task[w] \in Busy /\ KnowsRows(task[w]) /\ task[w].at = "delete"
  BY AtBusy, NotIdle DEF LinkInv, DeleteBatch, At, Stages
<1>2. RowInv' /\ LinksAgree'
  BY <1>1, DeleteOK DEF LinkInv
<1>3. task[w].up # None => TaskOK([task[w] EXCEPT !.at = "refresh"])
  BY <1>1 DEF TaskOK, KnowsRows, Busy, Stages
<1>4. TaskInv'
  BY <1>3, StayOK, FinishOK DEF LinkInv, DeleteBatch, Goto
<1> QED
  BY <1>2, <1>4 DEF LinkInv

-----------------------------------------------------------------------------

LEMMA LinkInvNext ==
    ASSUME LinkInv, [Next]_vars
    PROVE  LinkInv'
<1>1. CASE UNCHANGED vars
  BY <1>1 DEF vars, rows, projection, LinkInv, TaskInv, RowInv, LinksAgree, Exists
<1>2. ASSUME NEW w \in Workers, Read(w) \/ BeginUpdate(w) \/ BeginDelete(w)
      PROVE  LinkInv'
  BY <1>2, ReadNoteOK DEF Read, BeginUpdate, BeginDelete
<1>3. ASSUME NEW w \in Workers, FindParent(w) \/ NoParent(w) \/ InsertParent(w)
      PROVE  LinkInv'
  BY <1>3, FindParentOK, NoParentOK, InsertParentOK
<1>4. ASSUME NEW w \in Workers, FindGrandparent(w) \/ RepairParent(w) \/ Repair(w)
      PROVE  LinkInv'
  BY <1>4, FindGrandparentOK, RepairParentOK, RepairOK
<1>5. ASSUME NEW w \in Workers, BeginCreate(w) \/ InsertNote(w)
      PROVE  LinkInv'
  BY <1>5, BeginCreateOK, InsertNoteOK
<1>6. ASSUME NEW w \in Workers, BeginPost(w) \/ InsertLocal(w) \/ RecordReply(w)
      PROVE  LinkInv'
  BY <1>6, BeginPostOK, InsertLocalOK, RecordReplyOK
<1>7. ASSUME NEW w \in Workers, UpdateNote(w) \/ GetReplyParentId(w) \/ DeleteBatch(w)
      PROVE  LinkInv'
  BY <1>7, UpdateNoteOK, GetReplyParentIdOK, DeleteBatchOK
<1>8. ASSUME NEW w \in Workers, RefreshRepliesCount(w) \/ Fail(w)
      PROVE  LinkInv'
  BY <1>8, RefreshOK
<1> QED
  BY <1>1, <1>2, <1>3, <1>4, <1>5, <1>6, <1>7, <1>8 DEF Next

LEMMA LinkInvHolds == Spec => []LinkInv
<1>1. Init => LinkInv
  BY RepliesAssumption
     DEF Init, LinkInv, TaskInv, TaskOK, Task, RowInv, LinksAgree
<1>2. LinkInv /\ [Next]_vars => LinkInv'
  BY LinkInvNext
<1> QED
  BY <1>1, <1>2, PTL DEF Spec

\* The column in_reply_to_id of a note and its row of actor_replies name one parent, and
\* both notes of a link are there (insertReply, deleteObjectProjectionStatements), for any
\* notes that answer each other in any way, any number of handlers, and wherever these die.
THEOREM RepliesLinksAgree == Spec => []LinksAgree
BY LinkInvHolds, PTL DEF LinkInv

-----------------------------------------------------------------------------
(* The count of a note's replies. *)

\* What RepliesCounted says of a row that is there.
Settled(r) ==
    /\ repliesCount[NoteOf(r)] >= Cardinality(RepliesTo(r))
    /\ repliesCount[NoteOf(r)] > Cardinality(RepliesTo(r)) => r \in overlooked \/ RecountToCome(r)

CountInv ==
    /\ LinkInv
    /\ \A n \in Notes : object[n] \in {0, lastRow[n]}
    /\ repliesCount \in [Notes -> 0..Cardinality(Notes)]
    /\ overlooked \subseteq Rows
    /\ \A r \in Rows : Exists(r) => Settled(r)

OthersStay(w) == \A v \in Workers : v # w => task'[v] = task[v]

LEMMA StayOthers ==
    ASSUME TaskInv, NEW w \in Workers, NEW t, Stay(w, t) \/ Finish(w) \/ Onward(w, t) \/ AfterParent(w, t)
    PROVE  OthersStay(w)
BY DEF TaskInv, OthersStay, AfterParent, Onward, Finish, Stay

LEMMA NoteSets ==
    ASSUME NEW S \in SUBSET Notes
    PROVE  IsFiniteSet(S) /\ Cardinality(S) \in 0..Cardinality(Notes) /\ Cardinality(Notes) \in Nat
<1>1. IsFiniteSet(S) /\ Cardinality(S) <= Cardinality(Notes)
  BY FS_Subset, RepliesAssumption, Zenon
<1>2. Cardinality(S) \in Nat /\ Cardinality(Notes) \in Nat
  BY <1>1, FS_CardinalityType, RepliesAssumption, Zenon
<1> QED
  BY <1>1, <1>2

LEMMA SettledStays ==
    ASSUME NEW r \in Rows, Settled(r), RepliesTo(r)' = RepliesTo(r),
           repliesCount'[NoteOf(r)] = repliesCount[NoteOf(r)],
           r \in overlooked \/ RecountToCome(r) => r \in overlooked' \/ RecountToCome(r)'
    PROVE  Settled(r)'
<1>1. Cardinality(RepliesTo(r)') = Cardinality(RepliesTo(r))
  BY Zenon
<1> QED
  BY <1>1 DEF Settled, NoteOf

\* A row whose replies have just been counted.
LEMMA CountedNow ==
    ASSUME NEW r \in Rows, repliesCount'[NoteOf(r)] = Cardinality(RepliesTo(r)')
    PROVE  Settled(r)'
<1>1. RepliesTo(r)' \subseteq Notes
  BY DEF RepliesTo
<1>2. Cardinality(RepliesTo(r)') \in 0..Cardinality(Notes)
  BY <1>1, NoteSets, Zenon
<1>3. Cardinality(Notes) \in Nat
  BY NoteSets
<1> QED
  BY <1>2, <1>3 DEF Settled, NoteOf

\* A worker that is not about to recount leaves every recount that is to come.
LEMMA OwedStays ==
    ASSUME NEW r, NEW w \in Workers, OthersStay(w), ~(At(w, "refresh") /\ task[w].up = r),
           RecountToCome(r)
    PROVE  RecountToCome(r)'
BY DEF RecountToCome, OthersStay, At

\* Steps after which a row has the replies and the count that it had.
LEMMA QuietCount ==
    ASSUME CountInv, NEW w \in Workers, OthersStay(w), ~At(w, "refresh"),
           UNCHANGED <<object, lastRow, parent, repliesCount, overlooked>>, LinkInv'
    PROVE  CountInv'
<1>1. ASSUME NEW r \in Rows, Exists(r)
      PROVE  Settled(r)'
  <2>1. RepliesTo(r)' = RepliesTo(r)
    BY DEF RepliesTo
  <2>2. RecountToCome(r) => RecountToCome(r)'
    BY OwedStays
  <2> QED
    BY <1>1, <2>1, <2>2, SettledStays DEF CountInv
<1>2. \A r \in Rows : Exists(r)' <=> Exists(r)
  BY DEF Exists, NoteOf
<1> QED
  BY <1>1, <1>2 DEF CountInv
\* The handlers that change neither links nor counts.
LEMMA QuietActions ==
    ASSUME CountInv, NEW w \in Workers, LinkInv',
           \/ \E why \in {"read", "update", "delete"} : ReadNote(w, why)
           \/ FindParent(w) \/ NoParent(w) \/ FindGrandparent(w) \/ BeginCreate(w)
           \/ BeginPost(w) \/ UpdateNote(w) \/ GetReplyParentId(w)
    PROVE  CountInv'
<1>1. UNCHANGED <<object, lastRow, parent, repliesCount, overlooked>>
  BY DEF ReadNote, FindParent, NoParent, FindGrandparent, BeginCreate, BeginPost, UpdateNote,
     GetReplyParentId, rows, projection
<1>2. ~At(w, "refresh")
  BY DEF ReadNote, FindParent, NoParent, FindGrandparent, BeginCreate, BeginPost, UpdateNote,
     GetReplyParentId, At, Idle
<1>3. \E t : Stay(w, t) \/ Finish(w) \/ Onward(w, t) \/ AfterParent(w, t)
  <2>1. CASE \E why \in {"read", "update", "delete"} : ReadNote(w, why)
    BY <2>1 DEF ReadNote
  <2>2. CASE FindParent(w) \/ NoParent(w) \/ FindGrandparent(w)
    BY <2>2 DEF FindParent, NoParent, FindGrandparent
  <2>3. CASE BeginCreate(w) \/ BeginPost(w)
    BY <2>3 DEF BeginCreate, BeginPost
  <2>4. CASE UpdateNote(w) \/ GetReplyParentId(w)
    BY <2>4 DEF UpdateNote, GetReplyParentId
  <2> QED
    BY <2>1, <2>2, <2>3, <2>4
<1>4. OthersStay(w)
  BY <1>3, StayOthers DEF CountInv, LinkInv
<1> QED
  BY <1>1, <1>2, <1>4, QuietCount

\* A new row has no reply yet, and the count of a new row is 0.
LEMMA InsertCount ==
    ASSUME CountInv, NEW w \in Workers, OthersStay(w), ~At(w, "refresh"), LinkInv',
           NEW n \in Notes, NEW answers \in Notes \cup {None}, NEW x \in Rows,
           NoteOf(x) = n, Insert(x, answers), UNCHANGED <<parent, replyRow, overlooked>>
    PROVE  CountInv'
<1>1. /\ object[n] = 0 /\ x[2] \in 1..MaxRows /\ x = <<n, x[2]>>
      /\ object' = [object EXCEPT ![n] = x[2]]
      /\ lastRow' = [lastRow EXCEPT ![n] = x[2]]
      /\ repliesCount' = [repliesCount EXCEPT ![n] = 0]
  BY RowParts DEF Insert
<1>2. /\ \A m \in Notes : object'[m] \in {0, lastRow'[m]}
      /\ repliesCount' \in [Notes -> 0..Cardinality(Notes)]
  BY <1>1, FS_CardinalityType, RepliesAssumption DEF CountInv, LinkInv, RowInv
<1>3. \A m \in Notes : parent[m] # None => object[m] # 0
  BY DEF CountInv, LinkInv, LinksAgree
<1>4. parent[n] = None
  BY <1>1, <1>3
<1>5. \A r \in Rows : RepliesTo(r)' = RepliesTo(r)
  BY <1>1, <1>4, RowParts, RepliesAssumption DEF RepliesTo, CountInv, LinkInv, RowInv
<1>6. ASSUME NEW r \in Rows, Exists(r)'
      PROVE  Settled(r)'
  <2>1. CASE NoteOf(r) = n
    <3>1. r = x
      BY <1>1, <1>6, <2>1, RowParts DEF Exists, CountInv, LinkInv, RowInv, NoteOf
    <3>2. RepliesTo(x) = {}
      <4> SUFFICES ASSUME NEW m \in Notes, parent[m] = x
                   PROVE  FALSE
        BY DEF RepliesTo
      <4>1. Exists(x)
        BY RowParts DEF CountInv, LinkInv, LinksAgree
      <4> QED
        BY <1>1, <4>1 DEF Exists
    <3>3. Cardinality(RepliesTo(r)') = 0
      <4>1. RepliesTo(r)' = {}
        BY <1>5, <3>1, <3>2
      <4> QED
        BY <4>1, FS_EmptySet, Zenon
    <3>4. repliesCount'[NoteOf(r)] = 0
      BY <1>1, <2>1 DEF CountInv
    <3> QED
      BY <3>3, <3>4, CountedNow
  <2>2. CASE NoteOf(r) # n
    <3>1. Exists(r) /\ repliesCount'[NoteOf(r)] = repliesCount[NoteOf(r)]
      BY <1>1, <1>6, <2>2, RowParts DEF Exists, NoteOf, CountInv, LinkInv, RowInv
    <3>2. RecountToCome(r) => RecountToCome(r)'
      BY OwedStays
    <3> QED
      BY <1>5, <3>1, <3>2, SettledStays DEF CountInv
  <2> QED
    BY <2>1, <2>2
<1> QED
  BY <1>2, <1>6 DEF CountInv

LEMMA InsertActions ==
    ASSUME CountInv, NEW w \in Workers, LinkInv', InsertParent(w) \/ InsertNote(w) \/ InsertLocal(w)
    PROVE  CountInv'
<1> DEFINE t == task[w]
<1>1. ~At(w, "refresh") /\ t # Idle
  <2>1. t # Idle
    BY NotIdle DEF InsertParent, InsertNote, InsertLocal, Stages
  <2> QED
    BY <2>1 DEF InsertParent, InsertNote, InsertLocal, At
<1>2. t \in Busy /\ KnowsRows(t)
  BY <1>1, AtBusy DEF CountInv, LinkInv
<1>3. \E u : Stay(w, u) \/ Finish(w)
  BY DEF InsertParent, InsertNote, InsertLocal, Goto
<1>4. OthersStay(w)
  BY <1>3, StayOthers DEF CountInv, LinkInv
<1>5. UNCHANGED <<parent, replyRow, overlooked>>
  BY DEF InsertParent, InsertNote, InsertLocal
<1>6. PICK x \in Rows, answers \in Notes \cup {None} : Insert(x, answers)
  <2>1. CASE InsertParent(w)
    <3>1. PICK answers \in ReplyTo[t.named] : t.named \in RemoteNotes /\ Insert(NextRow(t.named), answers)
      BY <2>1 DEF InsertParent
    <3>2. NoteOf(NextRow(t.named)) = t.named
      BY DEF NoteOf, NextRow
    <3>3. NextRow(t.named) \in Rows
      BY <3>1, <3>2, NextRowOfNote DEF CountInv, LinkInv, Notes, Insert
    <3> QED
      BY <3>1, <3>3, RepliesAssumption
  <2>2. CASE InsertNote(w)
    <3>1. NoteOf(t.row) \in RemoteNotes /\ t.row \in Rows
      BY <1>2, <2>2 DEF InsertNote, At, KnowsRows, Busy
    <3> QED
      BY <2>2, <3>1, RepliesAssumption DEF InsertNote
  <2>3. CASE InsertLocal(w)
    <3>1. t.answered \in Rows /\ t.row \in Rows
      BY <1>2, <2>3 DEF InsertLocal, At, KnowsRows, Busy
    <3> QED
      BY <2>3, <3>1, RowParts DEF InsertLocal
  <2> QED
    BY <2>1, <2>2, <2>3
<1> QED
  BY <1>1, <1>4, <1>5, <1>6, RowParts, InsertCount
\* The batch of insertReply counts the parent that a note had and the one that it has now.
LEMMA InsertReplyCount ==
    ASSUME CountInv, NEW w \in Workers, OthersStay(w), ~At(w, "refresh"), LinkInv',
           NEW c \in Rows, NEW p \in Rows, InsertReply(c, p)
    PROVE  CountInv'
<1> PICK m \in Notes, old \in Rows \cup {None} : m = NoteOf(c) /\ old = parent[m]
  BY RowParts DEF CountInv, LinkInv, RowInv
<1>1. /\ Exists(c) /\ Exists(p) /\ NoteOf(p) \in Notes
      /\ parent' = [parent EXCEPT ![m] = p]
      /\ UNCHANGED <<object, lastRow>>
      /\ overlooked' = overlooked \ ({p} \cup {r \in Rows : r = old})
  BY RowParts DEF InsertReply, Linked, CountedBy
<1>2. object[m] # 0 /\ parent \in [Notes -> Rows \cup {None}]
  BY <1>1, RowParts, RepliesAssumption DEF Exists, CountInv, LinkInv, RowInv
<1>3. RepliesTo(p)' = RepliesTo(p) \cup {m}
  BY <1>1, <1>2 DEF RepliesTo
<1>4. ASSUME old # None, old # p
      PROVE  /\ old \in Rows /\ Exists(old) /\ NoteOf(old) # NoteOf(p)
             /\ Cardinality(RepliesTo(old)') = Cardinality(RepliesTo(old)) - 1
  <2>1. old \in Rows /\ Exists(old)
    BY <1>4 DEF CountInv, LinkInv, LinksAgree
  <2>2. NoteOf(old) # NoteOf(p)
    BY <1>1, <1>4, <2>1, RowParts DEF Exists
  <2>3. RepliesTo(old)' = RepliesTo(old) \ {m} /\ m \in RepliesTo(old)
    BY <1>1, <1>2, <1>4 DEF RepliesTo
  <2>4. IsFiniteSet(RepliesTo(old))
    BY NoteSets DEF RepliesTo
  <2>5. Cardinality(RepliesTo(old) \ {m}) = Cardinality(RepliesTo(old)) - 1
    BY <2>3, <2>4, FS_RemoveElement, Zenon
  <2>6. Cardinality(RepliesTo(old)') = Cardinality(RepliesTo(old) \ {m})
    BY <2>3, Zenon
  <2> QED
    BY <2>1, <2>2, <2>5, <2>6
<1>5. ASSUME NEW r \in Rows, r # p, r # old
      PROVE  RepliesTo(r)' = RepliesTo(r)
  BY <1>1, <1>2, <1>5 DEF RepliesTo
<1>6. \A n \in Notes : repliesCount'[n] =
         IF n = NoteOf(p) THEN Cardinality(RepliesTo(p) \cup {m})
         ELSE IF old # None /\ old # p /\ n = NoteOf(old) THEN Cardinality(RepliesTo(old)) - 1
         ELSE repliesCount[n]
  BY DEF InsertReply, Recounted
<1>7. repliesCount'[NoteOf(p)] = Cardinality(RepliesTo(p)')
  <2>1. Cardinality(RepliesTo(p)') = Cardinality(RepliesTo(p) \cup {m})
    BY <1>3, Zenon
  <2> QED
    BY <1>1, <1>6, <2>1
<1>8. ASSUME old # None, old # p
      PROVE  repliesCount'[NoteOf(old)] = Cardinality(RepliesTo(old)') /\ NoteOf(old) \in Notes
  BY <1>4, <1>6, <1>8, RowParts
<1>9. ASSUME NEW r \in Rows, Exists(r)'
      PROVE  Settled(r)'
  <2>1. CASE r = p
    BY <1>7, <2>1, CountedNow
  <2>2. CASE r = old /\ r # p
    BY <1>8, <2>2, RowParts, CountedNow
  <2>3. CASE r # old /\ r # p
    <3>1. Exists(r) /\ NoteOf(r) \in Notes
      BY <1>1, <1>9, RowParts DEF Exists, NoteOf
    <3>2. NoteOf(r) # NoteOf(p)
      BY <1>1, <2>3, <3>1, RowParts DEF Exists
    <3>3. old # None /\ old # p => NoteOf(r) # NoteOf(old)
      BY <1>4, <2>3, <3>1, RowParts DEF Exists
    <3>4. repliesCount'[NoteOf(r)] = repliesCount[NoteOf(r)]
      BY <1>6, <3>1, <3>2, <3>3
    <3>5. RecountToCome(r) => RecountToCome(r)'
      BY OwedStays
    <3>6. r \in overlooked => r \in overlooked'
      BY <1>1, <2>3
    <3> QED
      BY <1>5, <2>3, <3>1, <3>4, <3>5, <3>6, SettledStays DEF CountInv
  <2> QED
    BY <2>1, <2>2, <2>3
<1>10. repliesCount' \in [Notes -> 0..Cardinality(Notes)]
  <2>1. repliesCount' = [n \in Notes |-> repliesCount'[n]]
    BY DEF InsertReply, Recounted
  <2>2. RepliesTo(p)' \subseteq Notes /\ RepliesTo(old)' \subseteq Notes
    BY DEF RepliesTo
  <2>3. /\ Cardinality(RepliesTo(p)') \in 0..Cardinality(Notes)
        /\ Cardinality(RepliesTo(old)') \in 0..Cardinality(Notes)
    BY <2>2, NoteSets, Zenon
  <2>4. ASSUME NEW n \in Notes
        PROVE  repliesCount'[n] \in 0..Cardinality(Notes)
    BY <1>6, <1>7, <1>8, <2>3 DEF CountInv
  <2> QED
    BY <2>1, <2>4
<1> QED
  BY <1>1, <1>9, <1>10 DEF CountInv

LEMMA LinkActions ==
    ASSUME CountInv, NEW w \in Workers, LinkInv', RepairParent(w) \/ Repair(w) \/ RecordReply(w)
    PROVE  CountInv'
<1> DEFINE t == task[w]
<1>1. t \in Busy /\ KnowsRows(t)
  BY AtBusy, NotIdle DEF CountInv, LinkInv, RepairParent, Repair, RecordReply, Stages
<1>2. ~At(w, "refresh")
  BY DEF RepairParent, Repair, RecordReply, At
<1>3. \E u : Stay(w, u) \/ Finish(w) \/ Onward(w, u) \/ AfterParent(w, u)
  <2>1. CASE RepairParent(w)
    BY <2>1 DEF RepairParent
  <2>2. CASE Repair(w) \/ RecordReply(w)
    BY <2>2 DEF Repair, RecordReply
  <2> QED
    BY <2>1, <2>2
<1>4. OthersStay(w)
  BY <1>3, StayOthers DEF CountInv, LinkInv
<1>5. \E c, p \in Rows : InsertReply(c, p)
  BY <1>1 DEF RepairParent, Repair, RecordReply, At, KnowsRows, Busy
<1> QED
  BY <1>2, <1>4, <1>5, InsertReplyCount
\* A deleted reply is recounted by its handler, or its parent is overlooked.
LEMMA DeleteCount ==
    ASSUME CountInv, NEW w \in Workers, LinkInv', DeleteBatch(w)
    PROVE  CountInv'
<1>1. /\ task[w].at = "delete" /\ task[w] \in Busy
      /\ IF task[w].up = None THEN Finish(w) ELSE Goto(w, "refresh")
  BY AtBusy, NotIdle DEF CountInv, LinkInv, DeleteBatch, At, Stages
<1> PICK d \in Rows, n \in Notes, up \in Rows \cup {None} :
       d = task[w].row /\ n = NoteOf(d) /\ up = task[w].up
  BY <1>1, RowParts DEF Busy
<1>2. OthersStay(w) /\ ~At(w, "refresh")
  <2>1. \E u : Stay(w, u) \/ Finish(w)
    BY <1>1 DEF Goto
  <2> QED
    BY <1>1, <2>1, StayOthers DEF At, CountInv, LinkInv
<1>3. up # None => RecountToCome(up)'
  <2>1. up # None => task'[w].at = "refresh" /\ task'[w].up = up
    BY <1>1 DEF Goto, Stay, Busy, CountInv, LinkInv, TaskInv
  <2> QED
    BY <2>1 DEF RecountToCome, At
<1>4. CASE ~Exists(d)
  BY <1>2, <1>4, QuietCount DEF DeleteBatch, rows, projection
<1>5. CASE Exists(d)
  <2>1. /\ object' = [object EXCEPT ![n] = 0]
        /\ parent' = [m \in Notes |-> IF m = n \/ parent[m] = d THEN None ELSE parent[m]]
        /\ repliesCount' = [repliesCount EXCEPT ![n] = 0]
        /\ overlooked' = (overlooked \cup ({parent[n]} \ {None, up})) \ {d}
        /\ UNCHANGED lastRow
    BY <1>5 DEF DeleteBatch, Unlinked
  <2>2. /\ \A m \in Notes : object'[m] \in {0, lastRow'[m]}
        /\ overlooked' \subseteq Rows
    BY <2>1 DEF CountInv, LinkInv, RowInv
  <2>3. repliesCount' \in [Notes -> 0..Cardinality(Notes)]
    <3>1. Cardinality(Notes) \in Nat
      BY FS_CardinalityType, RepliesAssumption
    <3> QED
      BY <2>1, <3>1 DEF CountInv
  <2>4. ASSUME NEW r \in Rows, Exists(r)'
        PROVE  Settled(r)'
    <3>1. /\ NoteOf(r) # n /\ Exists(r) /\ r # d
          /\ repliesCount'[NoteOf(r)] = repliesCount[NoteOf(r)]
      BY <2>1, <2>4, RowParts, RepliesAssumption DEF Exists, NoteOf, CountInv, LinkInv, RowInv
    <3>2. RepliesTo(r)' = RepliesTo(r) \ {n}
      BY <2>1, <3>1, RowParts DEF RepliesTo, CountInv, LinkInv, RowInv
    <3>3. Settled(r)
      BY <3>1 DEF CountInv
    <3>4. RecountToCome(r) => RecountToCome(r)'
      BY <1>2, OwedStays
    <3>5. r \in overlooked => r \in overlooked'
      BY <2>1, <3>1
    <3>6. CASE parent[n] = r
      <4>1. r \in overlooked' \/ RecountToCome(r)'
        BY <1>3, <2>1, <3>1, <3>6, RowParts
      <4>2. RepliesTo(r) \subseteq Notes
        BY DEF RepliesTo
      <4>3. /\ Cardinality(RepliesTo(r)) \in Nat
            /\ Cardinality(RepliesTo(r) \ {n}) \in Nat
            /\ Cardinality(RepliesTo(r) \ {n}) <= Cardinality(RepliesTo(r))
        <5>1. IsFiniteSet(RepliesTo(r))
          BY <4>2, NoteSets
        <5>2. RepliesTo(r) \ {n} \subseteq RepliesTo(r)
          OBVIOUS
        <5>3. /\ IsFiniteSet(RepliesTo(r) \ {n})
              /\ Cardinality(RepliesTo(r) \ {n}) <= Cardinality(RepliesTo(r))
          BY <5>1, <5>2, FS_Subset, Zenon
        <5> QED
          BY <5>1, <5>3, FS_CardinalityType, Zenon
      <4>4. Cardinality(RepliesTo(r)') = Cardinality(RepliesTo(r) \ {n})
        BY <3>2, Zenon
      <4>5. NoteOf(r) \in Notes /\ repliesCount[NoteOf(r)] \in Nat
        BY RowParts, FS_CardinalityType, RepliesAssumption DEF CountInv
      <4>6. repliesCount'[NoteOf(r)] >= Cardinality(RepliesTo(r)')
        BY <3>1, <3>3, <4>3, <4>4, <4>5 DEF Settled
      <4> QED
        BY <4>1, <4>6 DEF Settled, NoteOf
    <3>7. CASE parent[n] # r
      <4>1. RepliesTo(r)' = RepliesTo(r)
        BY <3>2, <3>7 DEF RepliesTo
      <4> QED
        BY <3>1, <3>3, <3>4, <3>5, <4>1, SettledStays
    <3> QED
      BY <3>6, <3>7
  <2> QED
    BY <2>2, <2>3, <2>4 DEF CountInv
<1> QED
  BY <1>4, <1>5

LEMMA RefreshCount ==
    ASSUME CountInv, NEW w \in Workers, LinkInv', RefreshRepliesCount(w)
    PROVE  CountInv'
<1> PICK p : p = task[w].up
  OBVIOUS
<1>1. /\ Finish(w) /\ UNCHANGED <<object, lastRow, parent>>
      /\ IF Exists(p) THEN /\ repliesCount' = [repliesCount EXCEPT ![NoteOf(p)] =
                                  Cardinality(RepliesTo(p))]
                           /\ overlooked' = overlooked \ {p}
                      ELSE UNCHANGED <<repliesCount, overlooked>>
  BY DEF RefreshRepliesCount, Refreshed
<1>2. OthersStay(w)
  BY <1>1, StayOthers DEF CountInv, LinkInv
<1>3. /\ \A r : RepliesTo(r)' = RepliesTo(r)
      /\ \A r \in Rows : Exists(r)' <=> Exists(r)
  BY <1>1 DEF RepliesTo, Exists, NoteOf
<1>4. Cardinality(RepliesTo(p)) \in 0..Cardinality(Notes)
  BY NoteSets DEF RepliesTo
<1>5. repliesCount' \in [Notes -> 0..Cardinality(Notes)] /\ overlooked' \subseteq Rows
  BY <1>1, <1>4 DEF CountInv
<1>6. ASSUME NEW r \in Rows, Exists(r)
      PROVE  Settled(r)'
  <2>1. CASE r = p
    <3>1. repliesCount'[NoteOf(r)] = Cardinality(RepliesTo(r))
      BY <1>1, <1>6, <2>1, RowParts DEF CountInv
    <3>2. Cardinality(RepliesTo(r)') = Cardinality(RepliesTo(r))
      BY <1>3, Zenon
    <3> QED
      BY <3>1, <3>2, CountedNow
  <2>2. CASE r # p
    <3>1. Exists(p) /\ p \in Rows => NoteOf(p) # NoteOf(r)
      BY <1>6, <2>2, RowParts DEF Exists
    <3>2. repliesCount'[NoteOf(r)] = repliesCount[NoteOf(r)]
      <4>1. p \in Rows
        BY AtBusy, NotIdle DEF CountInv, LinkInv, RefreshRepliesCount, Stages, KnowsRows, At
      <4> QED
        BY <1>1, <3>1, <4>1, RowParts DEF CountInv
    <3>3. RecountToCome(r) => RecountToCome(r)'
      BY <1>2, <2>2, OwedStays
    <3>4. r \in overlooked => r \in overlooked'
      BY <1>1, <2>2
    <3>5. RepliesTo(r)' = RepliesTo(r)
      BY <1>3
    <3> QED
      BY <1>6, <3>2, <3>3, <3>4, <3>5, SettledStays DEF CountInv
  <2> QED
    BY <2>1, <2>2
<1> QED
  BY <1>1, <1>3, <1>5, <1>6 DEF CountInv

\* A handler that dies before it recounts leaves the note overlooked.
LEMMA FailCount ==
    ASSUME CountInv, NEW w \in Workers, LinkInv', Fail(w)
    PROVE  CountInv'
<1>1. /\ Finish(w) /\ UNCHANGED <<object, lastRow, parent, repliesCount>>
      /\ overlooked' = IF At(w, "refresh") /\ Exists(task[w].up)
                       THEN overlooked \cup {task[w].up} ELSE overlooked
  BY DEF Fail, rows, projection
<1>2. OthersStay(w)
  BY <1>1, StayOthers DEF CountInv, LinkInv
<1>3. /\ \A r : RepliesTo(r)' = RepliesTo(r)
      /\ \A r \in Rows : Exists(r)' <=> Exists(r)
  BY <1>1 DEF RepliesTo, Exists, NoteOf
<1>4. overlooked' \subseteq Rows
  <2>1. At(w, "refresh") => task[w].up \in Rows
    BY AtBusy, NotIdle DEF CountInv, LinkInv, KnowsRows, At, Stages
  <2> QED
    BY <1>1, <2>1 DEF CountInv
<1>5. ASSUME NEW r \in Rows, Exists(r)
      PROVE  Settled(r)'
  <2>1. r \in overlooked \/ RecountToCome(r) => r \in overlooked' \/ RecountToCome(r)'
    BY <1>1, <1>2, <1>5, OwedStays
  <2>2. RepliesTo(r)' = RepliesTo(r)
    BY <1>3
  <2> QED
    BY <1>1, <1>5, <2>1, <2>2, SettledStays DEF CountInv
<1> QED
  BY <1>1, <1>3, <1>4, <1>5 DEF CountInv

LEMMA CountHolds == Spec => []CountInv
<1>1. Init => CountInv
  <2> SUFFICES ASSUME Init PROVE CountInv
    OBVIOUS
  <2>1. LinkInv
    BY RepliesAssumption DEF Init, LinkInv, TaskInv, TaskOK, Task, RowInv, LinksAgree
  <2>2. Cardinality(Notes) \in Nat
    BY FS_CardinalityType, RepliesAssumption
  <2>3. \A r \in Rows : ~Exists(r)
    BY RowParts DEF Init, Exists
  <2> QED
    BY <2>1, <2>2, <2>3 DEF Init, CountInv
<1>2. CountInv /\ [Next]_vars => CountInv'
  <2> SUFFICES ASSUME CountInv, [Next]_vars PROVE CountInv'
    OBVIOUS
  <2>1. LinkInv'
    BY LinkInvNext DEF CountInv
  <2>2. CASE UNCHANGED vars
    <3>1. \A r \in Rows : (Exists(r)' <=> Exists(r)) /\ RepliesTo(r)' = RepliesTo(r)
      BY <2>2 DEF vars, rows, projection, Exists, RepliesTo, NoteOf
    <3>2. \A r \in Rows : RecountToCome(r)' <=> RecountToCome(r)
      BY <2>2 DEF vars, RecountToCome, At
    <3>3. \A r \in Rows : Settled(r) => Settled(r)'
      BY <2>2, <3>1, <3>2, SettledStays DEF vars, rows, projection
    <3> QED
      BY <2>1, <2>2, <3>1, <3>3 DEF vars, rows, projection, CountInv
  <2>3. ASSUME NEW w \in Workers, Read(w) \/ BeginUpdate(w) \/ BeginDelete(w)
        PROVE  CountInv'
    BY <2>1, <2>3, QuietActions DEF Read, BeginUpdate, BeginDelete
  <2> QED
    BY <2>1, <2>2, <2>3, QuietActions, InsertActions, LinkActions, DeleteCount, RefreshCount, FailCount
       DEF Next
<1> QED
  BY <1>1, <1>2, PTL DEF Spec

\* The variables have their types; a count of replies never exceeds the number of notes.
THEOREM RepliesTypeOK == Spec => []TypeOK
<1>1. CountInv => TypeOK
  BY DEF CountInv, LinkInv, TaskInv, RowInv, TypeOK
<1> QED
  BY <1>1, CountHolds, PTL

\* However reads that repair links, posts, updates and deletions interleave, and wherever their
\* handlers die: replies_count is never too low, and right but for a deletion that has still to
\* recount, or never will.
THEOREM RepliesAreCounted == Spec => []RepliesCounted
<1>1. CountInv => RepliesCounted
  BY RowOfNote DEF CountInv, LinkInv, Settled, RepliesCounted
<1> QED
  BY <1>1, CountHolds, PTL
=============================================================================
