------------------------- MODULE InboundNotesProofs -------------------------
(***************************************************************************)
(* The safety of InboundNotes for any notes, recipients, messages, inboxes  *)
(* and invocations, and any bounds of the deployment.                       *)
(*                                                                          *)
(* BaseInv says what a handler is about at each of its stages; on top of it *)
(* AnnounceInv follows the announcement of a row, SettledInv a Delete that  *)
(* no Create can follow any more, and CacheInv a mention on its way to the  *)
(* cached notifications.  The invariant of the queue is that of             *)
(* ConsumerProofs: every step here is one of the queue, or none of it.      *)
(***************************************************************************)
EXTENDS InboundNotes, ConsumerProofs

Call == [at : Stages, id : Nat, left : SUBSET Accounts, seen : SUBSET Notes]

Announcing == {"outbox", "notify", "inbox"}

Working(c) == call[c].at # "none"

\* The handler fits the message that the loop of its invocation is at.
CallOK(c) ==
    /\ Working(c) <=> batch[c].running
    /\ call[c].at \in Announcing \cup {"find", "insert"} => Current(c) \in Creates
    /\ call[c].at \in {"findDeleted", "delete"} => Current(c) \notin Creates
    /\ call[c].at \in Announcing \cup {"delete"} => call[c].id \in 1..lastId[Note(c)]
    /\ call[c].at \in {"notify", "inbox"} => call[c].left # {}

\* The types of all but the order of the notifications.
BaseTypeOK ==
    /\ QueueTypeOK
    /\ object \in [Notes -> Nat] /\ lastId \in [Notes -> Nat]
    /\ \A n \in Notes : object[n] \in {0, lastId[n]}
    /\ shown \in [Notes -> Nat]
    /\ notified \in [Mentions -> Nat] /\ inboxed \in [Mentions -> Nat]
    /\ \A c \in Consumers : call[c].at \in Stages /\ (call[c].at # "none" <=> batch[c].running)
    /\ \A c \in Consumers : call[c].seen \subseteq Notes
    /\ cached \in [Accounts -> SUBSET Notes]
    /\ mismatched \subseteq Creates
    /\ partial \subseteq Notes /\ settled \subseteq Messages \ Creates /\ raced \subseteq Notes

\* All that the invariants speak of but the order of the notifications.
core == <<queueVars, rows, cached, mismatched, call, history>>

BaseInv ==
    /\ QueueInv
    /\ BaseTypeOK
    /\ call \in [Consumers -> Call]
    /\ \A c \in Consumers : CallOK(c)

\* A handler that is at work has a message, which is in no other batch.
LEMMA WorkingMessage ==
    ASSUME BaseInv, NEW c \in Consumers, Working(c)
    PROVE  /\ batch[c].running /\ batch[c].rest # <<>>
           /\ Current(c) \in Messages /\ Current(c) \in batch[c].taken
           /\ place[Current(c)] = "taken"
           /\ Note(c) \in Notes /\ Inbox(c) \in Accounts
<1>1. batch[c].running /\ batch[c].rest # <<>> /\ batch[c].rest \in Seq(Messages)
  BY DEF BaseInv, CallOK, QueueInv, BatchesOK, QueueTypeOK, Batch
<1>2. Current(c) \in Messages /\ Current(c) \in batch[c].taken
  BY <1>1, HeadAndTail DEF BaseInv, QueueInv, BatchesOK, Current
<1> QED
  BY <1>1, <1>2, InboundNotesAssumption
     DEF Note, Inbox, Accounts, BaseInv, QueueInv, BatchesOK

\* The recipient whose turn it is.
LEMMA WhoseTurn ==
    ASSUME BaseInv, NEW c \in Consumers, call[c].at \in {"notify", "inbox"}
    PROVE  /\ Turn(c) \in call[c].left /\ Turn(c) \in Accounts
           /\ Note(c) \in Notes /\ <<Note(c), Turn(c)>> \in Mentions
<1>1. call[c].left # {} /\ call[c].left \subseteq Accounts
  BY DEF BaseInv, CallOK, Call
<1>2. Turn(c) \in call[c].left
  BY <1>1 DEF Turn
<1>3. Note(c) \in Notes
  BY WorkingMessage DEF Working
<1> QED
  BY <1>1, <1>2, <1>3 DEF Mentions

-----------------------------------------------------------------------------
(* Steps of handlers. *)

\* The other invocations are not concerned.
Others(c) == \A d \in Consumers \ {c} : call'[d] = call[d] /\ batch'[d] = batch[d]

\* The row of a note is found by its id only while it is there.
LEMMA NoCallType == NoCall \in Call /\ NoCall.at = "none"
BY DEF NoCall, Call, Stages

LEMMA GotoCall ==
    ASSUME BaseInv, NEW c \in Consumers, NEW stage \in Stages, Goto(c, stage)
    PROVE  /\ call' \in [Consumers -> Call]
           /\ call'[c].at = stage /\ call'[c].id = call[c].id
           /\ call'[c].left = call[c].left /\ call'[c].seen = call[c].seen
           /\ \A d \in Consumers \ {c} : call'[d] = call[d]
BY DEF BaseInv, Call, Goto

LEMMA ProceedCall ==
    ASSUME BaseInv, NEW c \in Consumers, NEW left \in SUBSET Accounts, Proceed(c, left)
    PROVE  /\ call' \in [Consumers -> Call]
           /\ call'[c].at = IF left = {} THEN "caches" ELSE "notify"
           /\ call'[c].id = call[c].id
           /\ call'[c].left = left /\ call'[c].seen = call[c].seen
           /\ \A d \in Consumers \ {c} : call'[d] = call[d]
BY DEF BaseInv, Call, Proceed, Stages

\* A handler turns to another stage.
Onward(c) ==
    /\ UNCHANGED queueVars
    /\ Working(c) /\ Working(c)'
    /\ call' \in [Consumers -> Call]
    /\ \A d \in Consumers \ {c} : call'[d] = call[d]

LEMMA OnwardSame ==
    ASSUME NEW c \in Consumers, Onward(c)
    PROVE  /\ Others(c) /\ batch' = batch /\ place' = place /\ handled' = handled
           /\ \A d \in Consumers : /\ Current(d)' = Current(d) /\ Note(d)' = Note(d)
                                   /\ Inbox(d)' = Inbox(d)
BY DEF Onward, Others, queueVars, Current, Note, Inbox

LEMMA FindNoteCall ==
    ASSUME BaseInv, NEW c \in Consumers, FindNote(c)
    PROVE  /\ Onward(c) /\ call[c].at = "find"
           /\ call'[c].at = IF object[Note(c)] # 0 THEN "caches" ELSE "insert"
           /\ UNCHANGED <<rows, cached, mismatched, history>>
<1> DEFINE stage == IF object[Note(c)] # 0 THEN "caches" ELSE "insert"
<1>1. stage \in Stages /\ Goto(c, stage)
  BY DEF FindNote, Stages
<1>2. call[c].at = "find" /\ UNCHANGED queueVars /\ UNCHANGED <<rows, cached, mismatched, history>>
  BY DEF FindNote, At
<1>3. stage # "none"
  OBVIOUS
<1> HIDE DEF stage
<1>4. call'[c].at = stage /\ Onward(c)
  BY <1>1, <1>2, <1>3, GotoCall DEF Onward, Working
<1> QED
  BY <1>2, <1>4 DEF stage

LEMMA InsertNoteCall ==
    ASSUME BaseInv, NEW c \in Consumers, InsertNote(c)
    PROVE  LET n == Note(c)
               id == lastId[n] + 1
           IN
           /\ Onward(c) /\ call[c].at = "insert" /\ n \in Notes /\ object[n] = 0
           /\ \/ /\ call'[c].at = "outbox" /\ call'[c].id = id /\ call'[c].left = Recipients[n]
                 /\ UNCHANGED partial
              \/ call'[c].at = "caches" /\ partial' = partial \cup {n}
           /\ object' = [object EXCEPT ![n] = id] /\ lastId' = [lastId EXCEPT ![n] = id]
           /\ UNCHANGED <<shown, notified, inboxed, cached, mismatched, settled, raced>>
<1> DEFINE n == Note(c)
           id == lastId[n] + 1
           k == [NoCall EXCEPT !.at = "outbox", !.id = id, !.left = Recipients[n]]
<1>1. /\ call[c].at = "insert" /\ UNCHANGED queueVars /\ object[n] = 0
      /\ object' = [object EXCEPT ![n] = id] /\ lastId' = [lastId EXCEPT ![n] = id]
      /\ UNCHANGED <<shown, notified, inboxed, cached, mismatched, settled, raced>>
  BY DEF InsertNote, At
<1>2. n \in Notes /\ lastId[n] \in Nat /\ Recipients[n] \subseteq Accounts
  BY <1>1, WorkingMessage DEF Working, BaseInv, BaseTypeOK, Accounts
<1>3. CASE RecipientsMatch(c)
  <2>1. k \in Call /\ k.at = "outbox" /\ k.id = id /\ k.left = Recipients[n]
    <3>1. id \in Nat /\ Recipients[n] \in SUBSET Accounts
      BY <1>2
    <3> HIDE DEF n, id
    <3> QED
      BY <3>1 DEF NoCall, Call, Stages
  <2>2. call' = [call EXCEPT ![c] = k] /\ UNCHANGED partial
    BY <1>3 DEF InsertNote
  <2> HIDE DEF k, n, id
  <2>3. call' \in [Consumers -> Call] /\ call'[c] = k
        /\ \A d \in Consumers \ {c} : call'[d] = call[d]
    BY <2>1, <2>2 DEF BaseInv
  <2> QED
    BY <1>1, <1>2, <2>1, <2>2, <2>3 DEF Onward, Working, n, id
<1>4. CASE ~RecipientsMatch(c)
  <2>1. Goto(c, "caches") /\ partial' = partial \cup {n}
    BY <1>4 DEF InsertNote
  <2>2. /\ call'[c].at = "caches" /\ call' \in [Consumers -> Call]
        /\ \A d \in Consumers \ {c} : call'[d] = call[d]
    BY <2>1, GotoCall DEF Stages
  <2> QED
    BY <1>1, <1>2, <2>1, <2>2 DEF Onward, Working
<1> QED
  BY <1>3, <1>4

LEMMA AddInOutboxCall ==
    ASSUME BaseInv, NEW c \in Consumers, AddInOutbox(c)
    PROVE  /\ Onward(c) /\ call[c].at = "outbox" /\ RowIsThere(c)
           /\ call'[c].at = IF call[c].left = {} THEN "caches" ELSE "notify"
           /\ call'[c].id = call[c].id /\ call'[c].left = call[c].left
           /\ shown' = [shown EXCEPT ![Note(c)] = @ + 1]
           /\ UNCHANGED <<object, lastId, notified, inboxed, cached, mismatched, history>>
<1>1. call[c].left \in SUBSET Accounts
  BY DEF BaseInv, Call
<1>2. /\ call[c].at = "outbox" /\ RowIsThere(c) /\ Proceed(c, call[c].left) /\ UNCHANGED queueVars
      /\ shown' = [shown EXCEPT ![Note(c)] = @ + 1]
      /\ UNCHANGED <<object, lastId, notified, inboxed, cached, mismatched, history>>
  BY DEF AddInOutbox, At
<1> QED
  BY <1>1, <1>2, ProceedCall DEF Onward, Working

LEMMA NotifyCall ==
    ASSUME BaseInv, NEW c \in Consumers, Notify(c)
    PROVE  /\ Onward(c) /\ call[c].at = "notify" /\ RowIsThere(c)
           /\ call'[c].at = "inbox" /\ call'[c].id = call[c].id /\ call'[c].left = call[c].left
           /\ notified' = [notified EXCEPT ![<<Note(c), Turn(c)>>] = @ + 1]
           /\ UNCHANGED <<object, lastId, shown, inboxed, cached, mismatched, history>>
<1>1. /\ call[c].at = "notify" /\ RowIsThere(c) /\ Goto(c, "inbox") /\ UNCHANGED queueVars
      /\ notified' = [notified EXCEPT ![<<Note(c), Turn(c)>>] = @ + 1]
      /\ UNCHANGED <<object, lastId, shown, inboxed, cached, mismatched, history>>
  BY DEF Notify, At
<1> QED
  BY <1>1, GotoCall DEF Onward, Working, Stages

LEMMA AddInInboxCall ==
    ASSUME BaseInv, NEW c \in Consumers, AddInInbox(c)
    PROVE  LET left == call[c].left \ {Turn(c)} IN
           /\ Onward(c) /\ call[c].at = "inbox" /\ RowIsThere(c)
           /\ call'[c].at = IF left = {} THEN "caches" ELSE "notify"
           /\ call'[c].id = call[c].id /\ call'[c].left = left
           /\ inboxed' = [inboxed EXCEPT ![<<Note(c), Turn(c)>>] = @ + 1]
           /\ UNCHANGED <<object, lastId, shown, notified, cached, mismatched, history>>
<1> DEFINE left == call[c].left \ {Turn(c)}
<1>1. left \in SUBSET Accounts
  BY DEF BaseInv, Call
<1>2. /\ call[c].at = "inbox" /\ RowIsThere(c) /\ Proceed(c, left) /\ UNCHANGED queueVars
      /\ inboxed' = [inboxed EXCEPT ![<<Note(c), Turn(c)>>] = @ + 1]
      /\ UNCHANGED <<object, lastId, shown, notified, cached, mismatched, history>>
  BY DEF AddInInbox, At
<1> HIDE DEF left
<1>3. /\ call'[c].at = (IF left = {} THEN "caches" ELSE "notify") /\ Onward(c)
      /\ call'[c].id = call[c].id /\ call'[c].left = left
  BY <1>1, <1>2, ProceedCall DEF Onward, Working
<1> QED
  BY <1>2, <1>3 DEF left

LEMMA FindDeletedCall ==
    ASSUME BaseInv, NEW c \in Consumers, FindDeleted(c)
    PROVE  /\ Onward(c) /\ call[c].at = "findDeleted"
           /\ \/ /\ call'[c].at = "delete" /\ call'[c].id = object[Note(c)] /\ object[Note(c)] # 0
              \/ /\ call'[c].at = "caches"
                 /\ object[Note(c)] = 0 \/ Current(c) \notin ByAuthor
           /\ UNCHANGED <<rows, cached, mismatched, history>>
<1> DEFINE n == Note(c)
           k == [NoCall EXCEPT !.at = "delete", !.id = object[n]]
<1>1. /\ call[c].at = "findDeleted" /\ UNCHANGED queueVars
      /\ UNCHANGED <<rows, cached, mismatched, history>>
  BY DEF FindDeleted, At
<1>2. n \in Notes /\ object[n] \in Nat
  BY <1>1, WorkingMessage DEF Working, BaseInv, BaseTypeOK
<1>3. CASE object[n] # 0 /\ Current(c) \in ByAuthor
  <2>1. k \in Call /\ k.at = "delete" /\ k.id = object[n]
    BY <1>2 DEF NoCall, Call, Stages
  <2>2. call' = [call EXCEPT ![c] = k]
    BY <1>3 DEF FindDeleted
  <2> HIDE DEF k
  <2>3. call' \in [Consumers -> Call] /\ call'[c] = k
        /\ \A d \in Consumers \ {c} : call'[d] = call[d]
    BY <2>1, <2>2 DEF BaseInv
  <2> QED
    BY <1>1, <1>3, <2>1, <2>3 DEF Onward, Working
<1>4. CASE ~(object[n] # 0 /\ Current(c) \in ByAuthor)
  <2>1. call' = [call EXCEPT ![c] = [@ EXCEPT !.at = "caches"]]
    BY <1>4 DEF FindDeleted
  <2>2. /\ call'[c].at = "caches" /\ call' \in [Consumers -> Call]
        /\ \A d \in Consumers \ {c} : call'[d] = call[d]
    BY <2>1 DEF BaseInv, Call, Stages
  <2> QED
    BY <1>1, <1>4, <2>2 DEF Onward, Working
<1> QED
  BY <1>3, <1>4

LEMMA DeleteNoteCall ==
    ASSUME BaseInv, NEW c \in Consumers, DeleteNote(c)
    PROVE  LET n == Note(c) IN
           /\ Onward(c) /\ call[c].at = "delete" /\ call'[c].at = "caches" /\ n \in Notes
           /\ \/ /\ RowIsThere(c)
                 /\ object' = [object EXCEPT ![n] = 0]
                 /\ shown' = [shown EXCEPT ![n] = 0]
                 /\ notified' = Cleared(notified, n)
                 /\ inboxed' = Cleared(inboxed, n)
                 /\ partial' = partial \ {n}
              \/ ~RowIsThere(c) /\ UNCHANGED <<object, shown, notified, inboxed, partial>>
           /\ UNCHANGED <<lastId, cached, mismatched, settled, raced>>
<1>1. call[c].at = "delete" /\ Goto(c, "caches") /\ UNCHANGED queueVars
  BY DEF DeleteNote, At
<1>2. Note(c) \in Notes
  BY <1>1, WorkingMessage DEF Working
<1>3. Onward(c) /\ call'[c].at = "caches"
  BY <1>1, GotoCall DEF Onward, Working, Stages
<1> QED
  BY <1>1, <1>2, <1>3 DEF DeleteNote

LEMMA ReadNotificationsCall ==
    ASSUME BaseInv, NEW c \in Consumers, ReadNotifications(c)
    PROVE  /\ Onward(c) /\ call[c].at = "caches" /\ call'[c].at = "put"
           /\ call'[c].seen = GetNotifications(Inbox(c))
           /\ UNCHANGED <<rows, cached, mismatched, history>>
<1> DEFINE seen == GetNotifications(Inbox(c))
<1>1. seen \subseteq Notes
  BY DEF GetNotifications, SelectNotificationsByActorId
<1>2. /\ call[c].at = "caches" /\ UNCHANGED queueVars
      /\ call' = [call EXCEPT ![c].at = "put", ![c].seen = seen]
      /\ UNCHANGED <<rows, cached, mismatched, history>>
  BY DEF ReadNotifications, At
<1> HIDE DEF seen
<1>3. /\ call' \in [Consumers -> Call] /\ call'[c].at = "put" /\ call'[c].seen = seen
      /\ \A d \in Consumers \ {c} : call'[d] = call[d]
  BY <1>1, <1>2 DEF BaseInv, Call, Stages
<1> QED
  BY <1>2, <1>3 DEF Onward, Working, seen

-----------------------------------------------------------------------------
(* Steps of the queue. *)

\* An invocation that a step is not about, or that has nothing to do with it.
Steady(d) ==
    /\ call'[d] = call[d] /\ batch'[d].running = batch[d].running
    /\ Working(d) => /\ Current(d)' = Current(d) /\ Note(d)' = Note(d)
                     /\ Inbox(d)' = Inbox(d)

Ends(c) == call' = [call EXCEPT ![c] = NoCall] /\ ~batch'[c].running

LEMMA SameIsSteady ==
    ASSUME NEW d \in Consumers, call'[d] = call[d], batch'[d] = batch[d]
    PROVE  Steady(d)
BY DEF Steady, Current, Note, Inbox

\* An invocation that has no batch, or is through with it, has no handler.
LEMMA FreeIsIdle ==
    ASSUME BaseInv, NEW c \in Consumers, ~InvocationOf(c) \/ batch[c].rest = <<>>
    PROVE  ~Working(c) /\ ~batch[c].running
<1>1. CASE batch[c].rest = <<>>
  BY <1>1 DEF BaseInv, QueueInv, BatchesOK, CallOK
<1>2. CASE ~InvocationOf(c) /\ batch[c].rest # <<>>
  <2>1. batch[c].rest \in Seq(Messages)
    BY DEF BaseInv, QueueInv, QueueTypeOK, Batch
  <2>2. ToSet(batch[c].rest) \subseteq batch[c].taken /\ batch[c].taken = {}
    BY <1>2 DEF BaseInv, QueueInv, BatchesOK, InvocationOf
  <2>3. Head(batch[c].rest) \in ToSet(batch[c].rest)
    BY <1>2, <2>1, HeadAndTail
  <2> QED
    BY <2>2, <2>3
<1> QED
  BY <1>1, <1>2

LEMMA SendCall ==
    ASSUME BaseInv, NEW m \in Messages, SendActivity(m)
    PROVE  /\ \A d \in Consumers : Steady(d)
           /\ call' \in [Consumers -> Call]
           /\ UNCHANGED <<rows, cached, partial, raced, handled>>
           /\ settled' \subseteq settled \cup {m}
           /\ mismatched' \subseteq Creates
<1>1. call' = call /\ batch' = batch
  BY DEF SendActivity, Send
<1> QED
  BY <1>1, SameIsSteady DEF SendActivity, Send, BaseInv, BaseTypeOK

LEMMA DeliverCall ==
    ASSUME BaseInv, NEW c \in Consumers, NEW messages \in Orders, DeliverBatch(c, messages)
    PROVE  /\ \A d \in Consumers : Steady(d)
           /\ call' \in [Consumers -> Call]
           /\ UNCHANGED <<rows, cached, mismatched, history, handled>>
<1>1. /\ ~InvocationOf(c) /\ call' = call
      /\ batch' = [batch EXCEPT ![c] =
                     [taken |-> ToSet(messages), rest |-> messages, running |-> FALSE]]
      /\ UNCHANGED <<rows, cached, mismatched, history, handled>>
  BY DEF DeliverBatch, Deliver
<1>2. batch \in [Consumers -> Batch]
  BY DEF BaseInv, QueueInv, QueueTypeOK
<1>3. \A d \in Consumers \ {c} : Steady(d)
  BY <1>1, <1>2, SameIsSteady
<1>4. Steady(c)
  BY <1>1, <1>2, FreeIsIdle DEF Steady, Batch
<1> QED
  BY <1>1, <1>3, <1>4 DEF BaseInv

LEMMA StartCall ==
    ASSUME BaseInv, NEW c \in Consumers, StartHandler(c)
    PROVE  /\ \A d \in Consumers \ {c} : Steady(d)
           /\ ~Working(c) /\ batch'[c].running
           /\ Current(c)' = Current(c) /\ Note(c)' = Note(c) /\ Inbox(c)' = Inbox(c)
           /\ Current(c) \in Messages /\ Note(c) \in Notes /\ Inbox(c) \in Accounts
           /\ call'[c].at = IF Current(c) \in Creates THEN "find" ELSE "findDeleted"
           /\ call' \in [Consumers -> Call]
           /\ raced' = IF Rivals(c) = {} THEN raced
                       ELSE raced \cup {Note(d) : d \in Rivals(c) \cup {c}}
           /\ UNCHANGED <<rows, cached, mismatched, partial, settled, handled, place>>
<1> DEFINE stage == IF Current(c) \in Creates THEN "find" ELSE "findDeleted"
<1>1. /\ batch[c].rest # <<>> /\ ~batch[c].running
      /\ batch' = [batch EXCEPT ![c] = [taken |-> @.taken, rest |-> @.rest, running |-> TRUE]]
      /\ Goto(c, stage)
  BY DEF StartHandler, Start
<1>2. batch \in [Consumers -> Batch] /\ batch[c].rest \in Seq(Messages)
  BY DEF BaseInv, QueueInv, QueueTypeOK, Batch
<1>3. Current(c) \in Messages /\ Note(c) \in Notes /\ Inbox(c) \in Accounts
  BY <1>1, <1>2, HeadAndTail, InboundNotesAssumption DEF Current, Note, Inbox, Accounts
<1>4. batch'[c].rest = batch[c].rest /\ batch'[c].running
  BY <1>1, <1>2
<1>5. Current(c)' = Current(c) /\ Note(c)' = Note(c) /\ Inbox(c)' = Inbox(c)
  BY <1>4 DEF Current, Note, Inbox
<1>6. stage \in Stages
  BY DEF Stages
<1>7. /\ call'[c].at = stage /\ call' \in [Consumers -> Call]
      /\ \A d \in Consumers \ {c} : call'[d] = call[d]
  BY <1>1, <1>6, GotoCall
<1>8. \A d \in Consumers \ {c} : Steady(d)
  BY <1>1, <1>2, <1>7, SameIsSteady
<1>9. ~Working(c)
  BY <1>1 DEF BaseInv, CallOK
<1> QED
  BY <1>3, <1>4, <1>5, <1>7, <1>8, <1>9 DEF StartHandler, Start

LEMMA ReturnCall ==
    ASSUME BaseInv, NEW c \in Consumers, ReturnFromLoop(c)
    PROVE  /\ \A d \in Consumers : Steady(d)
           /\ call' \in [Consumers -> Call]
           /\ UNCHANGED <<rows, cached, mismatched, history, handled>>
<1>1. /\ batch[c].rest = <<>> /\ call' = call /\ batch' = [batch EXCEPT ![c] = NoBatch]
      /\ UNCHANGED <<rows, cached, mismatched, history, handled>>
  BY DEF ReturnFromLoop, Return, Acknowledge
<1>2. batch \in [Consumers -> Batch]
  BY DEF BaseInv, QueueInv, QueueTypeOK
<1>3. \A d \in Consumers \ {c} : Steady(d)
  BY <1>1, <1>2, SameIsSteady
<1>4. Steady(c)
  BY <1>1, <1>2, FreeIsIdle DEF Steady, NoBatch, Batch
<1> QED
  BY <1>1, <1>3, <1>4 DEF BaseInv

\* A handler that ends, or throws.
LEMMA EndsCall ==
    ASSUME BaseInv, NEW c \in Consumers, Ends(c),
           \A d \in Consumers \ {c} : batch'[d] = batch[d]
    PROVE  /\ \A d \in Consumers \ {c} : Steady(d)
           /\ call' \in [Consumers -> Call] /\ call'[c] = NoCall /\ ~Working(c)'
<1>1. call' \in [Consumers -> Call] /\ call'[c] = NoCall
      /\ \A d \in Consumers \ {c} : call'[d] = call[d]
  BY NoCallType DEF BaseInv, Ends
<1> QED
  BY <1>1, NoCallType, SameIsSteady DEF Working

LEMMA ThrowCall ==
    ASSUME BaseInv, NEW c \in Consumers, ThrowFromLoop(c)
    PROVE  /\ \A d \in Consumers \ {c} : Steady(d)
           /\ call' \in [Consumers -> Call] /\ ~Working(c)' /\ ~batch'[c].running
           /\ partial' = IF HalfDone(c) THEN partial \cup {Note(c)} ELSE partial
           /\ UNCHANGED <<rows, cached, mismatched, settled, raced, handled>>
<1>1. /\ call' = [call EXCEPT ![c] = NoCall] /\ batch' = [batch EXCEPT ![c] = NoBatch]
      /\ partial' = IF HalfDone(c) THEN partial \cup {Note(c)} ELSE partial
      /\ UNCHANGED <<rows, cached, mismatched, settled, raced, handled>>
  BY DEF ThrowFromLoop, Throw
<1>2. batch \in [Consumers -> Batch]
  BY DEF BaseInv, QueueInv, QueueTypeOK
<1>3. Ends(c) /\ \A d \in Consumers \ {c} : batch'[d] = batch[d]
  BY <1>1, <1>2 DEF Ends, NoBatch
<1> QED
  BY <1>1, <1>3, EndsCall DEF Ends

LEMMA PutCall ==
    ASSUME BaseInv, NEW c \in Consumers, PutNotifications(c)
    PROVE  /\ \A d \in Consumers \ {c} : Steady(d)
           /\ call' \in [Consumers -> Call] /\ ~Working(c)' /\ ~batch'[c].running
           /\ call[c].at = "put" /\ handled' = handled \cup {Current(c)}
           /\ cached' = [cached EXCEPT ![Inbox(c)] = call[c].seen]
           /\ UNCHANGED <<rows, mismatched, history, place>>
<1>1. /\ call' = [call EXCEPT ![c] = NoCall] /\ call[c].at = "put"
      /\ batch' = [batch EXCEPT ![c] =
                     [taken |-> @.taken, rest |-> Tail(@.rest), running |-> FALSE]]
      /\ handled' = handled \cup {Current(c)}
      /\ cached' = [cached EXCEPT ![Inbox(c)] = call[c].seen]
      /\ UNCHANGED <<rows, mismatched, history, place>>
  BY DEF PutNotifications, End, At
<1>2. batch \in [Consumers -> Batch]
  BY DEF BaseInv, QueueInv, QueueTypeOK
<1>3. Ends(c) /\ \A d \in Consumers \ {c} : batch'[d] = batch[d]
  BY <1>1, <1>2 DEF Ends
<1> QED
  BY <1>1, <1>3, EndsCall DEF Ends

-----------------------------------------------------------------------------
(* Types. *)

\* The types of what is no part of the queue.
TableTypes ==
    /\ object \in [Notes -> Nat] /\ lastId \in [Notes -> Nat]
    /\ \A n \in Notes : object[n] \in {0, lastId[n]}
    /\ shown \in [Notes -> Nat]
    /\ notified \in [Mentions -> Nat] /\ inboxed \in [Mentions -> Nat]
    /\ cached \in [Accounts -> SUBSET Notes]
    /\ mismatched \subseteq Creates
    /\ partial \subseteq Notes /\ settled \subseteq Messages \ Creates /\ raced \subseteq Notes

LEMMA Types ==
    ASSUME QueueTypeOK, TableTypes, call \in [Consumers -> Call],
           \A c \in Consumers : CallOK(c)
    PROVE  BaseTypeOK
<1>1. \A c \in Consumers : call[c].at \in Stages /\ call[c].seen \subseteq Notes
  BY DEF Call
<1> QED
  BY <1>1 DEF BaseTypeOK, TableTypes, CallOK, Working

Grows == \A n \in Notes : lastId'[n] \in Nat /\ lastId'[n] >= lastId[n]

LEMMA SteadyOK ==
    ASSUME BaseInv, Grows, NEW d \in Consumers, Steady(d)
    PROVE  CallOK(d)'
<1>1. CallOK(d) /\ call[d] \in Call
  BY DEF BaseInv
<1>2. CASE Working(d)
  <2>1. Note(d) \in Notes /\ lastId[Note(d)] \in Nat
    BY <1>2, WorkingMessage DEF BaseInv, BaseTypeOK
  <2>2. 1..lastId[Note(d)] \subseteq 1..lastId'[Note(d)]
    BY <2>1 DEF Grows
  <2> QED
    BY <1>1, <1>2, <2>2 DEF CallOK, Steady, Working, Announcing
<1>3. CASE ~Working(d)
  BY <1>1, <1>3 DEF CallOK, Steady, Working, Announcing
<1> QED
  BY <1>2, <1>3

\* A step after which no other handler has changed, and that one is in order.
LEMMA BaseStep ==
    ASSUME BaseInv, [QueueNext]_queueVars, Grows, TableTypes',
           call' \in [Consumers -> Call],
           \A d \in Consumers : Steady(d) \/ CallOK(d)'
    PROVE  BaseInv'
<1>1. QueueInv'
  BY QueueStep DEF BaseInv
<1>2. \A d \in Consumers : CallOK(d)'
  BY SteadyOK
<1>3. BaseTypeOK'
  BY <1>1, <1>2, Types DEF QueueInv, BaseTypeOK, TableTypes, CallOK, Working, Call
<1> QED
  BY <1>1, <1>2, <1>3 DEF BaseInv

LEMMA EndedOK ==
    ASSUME NEW c \in Consumers, ~Working(c)', ~batch'[c].running
    PROVE  CallOK(c)'
BY DEF CallOK, Working, Announcing

LEMMA SameTypes ==
    ASSUME BaseInv, UNCHANGED rows
    PROVE  Grows /\ (TableTypes' <=>
               /\ cached' \in [Accounts -> SUBSET Notes] /\ mismatched' \subseteq Creates
               /\ partial' \subseteq Notes /\ settled' \subseteq Messages \ Creates
               /\ raced' \subseteq Notes)
BY DEF BaseInv, BaseTypeOK, rows, Grows, TableTypes

LEMMA BaseTables ==
    ASSUME BaseInv
    PROVE  TableTypes
BY DEF BaseInv, BaseTypeOK, TableTypes

\* The rows of other notifications are nobody's but the order's.
Disorder == \E r \in Busy : NotifyOther(r) \/ \E k \in 0..MaxNewer : DeleteOther(r, k)

LEMMA DisorderCore == Disorder \/ UNCHANGED vars => UNCHANGED core
BY DEF Disorder, NotifyOther, DeleteOther, vars, core

LEMMA NextIsQueueNext == [Next]_vars => [QueueNext]_queueVars
<1>1. Disorder \/ UNCHANGED vars => UNCHANGED queueVars
  BY DisorderCore DEF core
<1> QED
  BY <1>1 DEF Next, Disorder, QueueNext, SendActivity, DeliverBatch, StartHandler, ReturnFromLoop,
     ThrowFromLoop, Handle, FindNote, InsertNote, AddInOutbox, Notify, AddInInbox, FindDeleted,
     DeleteNote, ReadNotifications, PutNotifications

LEMMA OnwardBase ==
    ASSUME BaseInv, [QueueNext]_queueVars, NEW c \in Consumers, Onward(c), Grows, TableTypes',
           call'[c].at \in {"find", "insert"} \cup Announcing => Current(c) \in Creates,
           call'[c].at \in {"findDeleted", "delete"} => Current(c) \notin Creates,
           call'[c].at \in {"delete"} \cup Announcing => call'[c].id \in 1..lastId'[Note(c)],
           call'[c].at \in {"notify", "inbox"} => call'[c].left # {}
    PROVE  BaseInv'
<1>1. Others(c) /\ batch' = batch /\ Current(c)' = Current(c) /\ Note(c)' = Note(c)
  BY OnwardSame
<1>2. batch[c].running
  BY WorkingMessage DEF Onward
<1>3. CallOK(c)'
  BY <1>1, <1>2 DEF CallOK, Onward, Working, Announcing
<1>4. \A d \in Consumers \ {c} : Steady(d)
  BY <1>1, SameIsSteady DEF Others
<1> QED
  BY <1>3, <1>4, BaseStep DEF Onward

LEMMA InsertNoteBase ==
    ASSUME BaseInv, [QueueNext]_queueVars, NEW c \in Consumers, InsertNote(c)
    PROVE  BaseInv'
<1> DEFINE n == Note(c)
           id == lastId[n] + 1
<1>1. /\ Onward(c) /\ call[c].at = "insert" /\ n \in Notes
      /\ \/ call'[c].at = "outbox" /\ call'[c].id = id /\ UNCHANGED partial
         \/ call'[c].at = "caches" /\ partial' = partial \cup {n}
      /\ object' = [object EXCEPT ![n] = id] /\ lastId' = [lastId EXCEPT ![n] = id]
      /\ UNCHANGED <<shown, notified, inboxed, cached, mismatched, settled, raced>>
  BY InsertNoteCall
<1>2. TableTypes /\ lastId[n] \in Nat
  BY <1>1, BaseTables DEF TableTypes
<1>3. lastId'[n] = id /\ id \in 1..id
  BY <1>1, <1>2 DEF TableTypes
<1> HIDE DEF n
<1>4. Grows /\ TableTypes'
  BY <1>1, <1>2 DEF TableTypes, Grows
<1>5. Current(c) \in Creates
  BY <1>1 DEF BaseInv, CallOK
<1> QED
  BY <1>1, <1>3, <1>4, <1>5, OnwardBase DEF n, Announcing

LEMMA AddInOutboxBase ==
    ASSUME BaseInv, [QueueNext]_queueVars, NEW c \in Consumers, AddInOutbox(c)
    PROVE  BaseInv'
<1>1. /\ Onward(c) /\ call[c].at = "outbox"
      /\ call'[c].at = IF call[c].left = {} THEN "caches" ELSE "notify"
      /\ call'[c].id = call[c].id /\ call'[c].left = call[c].left
      /\ shown' = [shown EXCEPT ![Note(c)] = @ + 1]
      /\ UNCHANGED <<object, lastId, notified, inboxed, cached, mismatched, history>>
  BY AddInOutboxCall
<1>2. TableTypes /\ Note(c) \in Notes
  BY <1>1, BaseTables, WorkingMessage DEF Working
<1>3. TableTypes' /\ Grows
  BY <1>1, <1>2 DEF TableTypes, Grows, history
<1>4. Current(c) \in Creates /\ call[c].id \in 1..lastId[Note(c)]
  BY <1>1 DEF BaseInv, CallOK, Announcing
<1> QED
  BY <1>1, <1>3, <1>4, OnwardBase

LEMMA NotifyBase ==
    ASSUME BaseInv, [QueueNext]_queueVars, NEW c \in Consumers, Notify(c)
    PROVE  BaseInv'
<1>1. /\ Onward(c) /\ call[c].at = "notify"
      /\ call'[c].at = "inbox" /\ call'[c].id = call[c].id /\ call'[c].left = call[c].left
      /\ notified' = [notified EXCEPT ![<<Note(c), Turn(c)>>] = @ + 1]
      /\ UNCHANGED <<object, lastId, shown, inboxed, cached, mismatched, history>>
  BY NotifyCall
<1>2. TableTypes /\ <<Note(c), Turn(c)>> \in Mentions
  BY <1>1, BaseTables, WhoseTurn
<1>3. TableTypes' /\ Grows
  BY <1>1, <1>2 DEF TableTypes, Grows, history
<1>4. /\ Current(c) \in Creates /\ call[c].id \in 1..lastId[Note(c)] /\ call[c].left # {}
  BY <1>1 DEF BaseInv, CallOK, Announcing
<1> QED
  BY <1>1, <1>3, <1>4, OnwardBase

LEMMA AddInInboxBase ==
    ASSUME BaseInv, [QueueNext]_queueVars, NEW c \in Consumers, AddInInbox(c)
    PROVE  BaseInv'
<1> DEFINE left == call[c].left \ {Turn(c)}
<1>1. /\ Onward(c) /\ call[c].at = "inbox"
      /\ call'[c].at = IF left = {} THEN "caches" ELSE "notify"
      /\ call'[c].id = call[c].id /\ call'[c].left = left
      /\ inboxed' = [inboxed EXCEPT ![<<Note(c), Turn(c)>>] = @ + 1]
      /\ UNCHANGED <<object, lastId, shown, notified, cached, mismatched, history>>
  BY AddInInboxCall
<1> HIDE DEF left
<1>2. TableTypes /\ <<Note(c), Turn(c)>> \in Mentions
  BY <1>1, BaseTables, WhoseTurn
<1>3. TableTypes' /\ Grows
  BY <1>1, <1>2 DEF TableTypes, Grows, history
<1>4. Current(c) \in Creates /\ call[c].id \in 1..lastId[Note(c)]
  BY <1>1 DEF BaseInv, CallOK, Announcing
<1> QED
  BY <1>1, <1>3, <1>4, OnwardBase

LEMMA DeleteNoteBase ==
    ASSUME BaseInv, [QueueNext]_queueVars, NEW c \in Consumers, DeleteNote(c)
    PROVE  BaseInv'
<1> DEFINE n == Note(c)
<1>1. /\ Onward(c) /\ call'[c].at = "caches" /\ n \in Notes
      /\ \/ /\ object' = [object EXCEPT ![n] = 0] /\ shown' = [shown EXCEPT ![n] = 0]
            /\ notified' = Cleared(notified, n) /\ inboxed' = Cleared(inboxed, n)
            /\ partial' = partial \ {n}
         \/ UNCHANGED <<object, shown, notified, inboxed, partial>>
      /\ UNCHANGED <<lastId, cached, mismatched, settled, raced>>
  BY DeleteNoteCall
<1> HIDE DEF n
<1>2. TableTypes
  BY BaseTables
<1>3. Cleared(notified, n) \in [Mentions -> Nat] /\ Cleared(inboxed, n) \in [Mentions -> Nat]
  BY <1>2 DEF TableTypes, Cleared
<1>4. TableTypes' /\ Grows
  BY <1>1, <1>2, <1>3 DEF TableTypes, Grows
<1> QED
  BY <1>1, <1>4, OnwardBase DEF Announcing

\* The steps of handlers that change no table but the cache.
LEMMA ReadBase ==
    ASSUME BaseInv, [QueueNext]_queueVars, NEW c \in Consumers,
           FindNote(c) \/ FindDeleted(c) \/ ReadNotifications(c)
    PROVE  BaseInv'
<1>1. Onward(c) /\ UNCHANGED <<rows, cached, mismatched, history>>
  BY FindNoteCall, FindDeletedCall, ReadNotificationsCall
<1>2. TableTypes' /\ Grows
  BY <1>1, SameTypes, BaseTables DEF TableTypes, history
<1>3. CASE FindNote(c)
  BY <1>1, <1>2, <1>3, FindNoteCall, OnwardBase DEF BaseInv, CallOK, Announcing
<1>4. CASE FindDeleted(c)
  <2>1. object[Note(c)] \in {0, lastId[Note(c)]} /\ lastId[Note(c)] \in Nat
    BY <1>1, WorkingMessage, BaseTables DEF TableTypes, Onward
  <2>2. lastId' = lastId
    BY <1>1 DEF rows
  <2> QED
    BY <1>1, <1>2, <1>4, <2>1, <2>2, FindDeletedCall, OnwardBase DEF BaseInv, CallOK, Announcing
<1>5. CASE ReadNotifications(c)
  BY <1>1, <1>2, <1>5, ReadNotificationsCall, OnwardBase DEF Announcing
<1> QED
  BY <1>3, <1>4, <1>5

LEMMA QueueBase ==
    ASSUME BaseInv, [QueueNext]_queueVars,
           \/ \E m \in Messages : SendActivity(m)
           \/ \E c \in Consumers, messages \in Orders : DeliverBatch(c, messages)
           \/ \E c \in Consumers : StartHandler(c) \/ ReturnFromLoop(c) \/ ThrowFromLoop(c)
                                   \/ PutNotifications(c)
    PROVE  BaseInv'
<1>1. ASSUME NEW m \in Messages, SendActivity(m) PROVE BaseInv'
  <2>1. settled' \subseteq Messages \ Creates
    BY <1>1, BaseTables DEF SendActivity, TableTypes
  <2> QED
    BY <1>1, <2>1, SendCall, SameTypes, BaseTables, BaseStep DEF TableTypes
<1>2. ASSUME NEW c \in Consumers, NEW messages \in Orders, DeliverBatch(c, messages)
      PROVE  BaseInv'
  BY <1>2, DeliverCall, SameTypes, BaseTables, BaseStep DEF TableTypes, history
<1>3. ASSUME NEW c \in Consumers, StartHandler(c) PROVE BaseInv'
  <2>1. \A d \in Rivals(c) \cup {c} : Note(d) \in Notes
    BY <1>3, StartCall, WorkingMessage DEF Rivals, At, Working
  <2>2. raced' \subseteq Notes
    BY <1>3, <2>1, StartCall, BaseTables DEF TableTypes
  <2>3. CallOK(c)'
    BY <1>3, StartCall DEF CallOK, Working, Announcing
  <2> QED
    BY <1>3, <2>2, <2>3, StartCall, SameTypes, BaseTables, BaseStep DEF TableTypes
<1>4. ASSUME NEW c \in Consumers, ReturnFromLoop(c) PROVE BaseInv'
  BY <1>4, ReturnCall, SameTypes, BaseTables, BaseStep DEF TableTypes, history
<1>5. ASSUME NEW c \in Consumers, ThrowFromLoop(c) PROVE BaseInv'
  <2>1. partial' \subseteq Notes
    <3>1. HalfDone(c) => Working(c)
      BY DEF HalfDone, Working
    <3>2. HalfDone(c) => Note(c) \in Notes
      BY <3>1, WorkingMessage
    <3> QED
      BY <1>5, <3>2, ThrowCall, BaseTables DEF TableTypes
  <2>2. CallOK(c)'
    BY <1>5, ThrowCall, EndedOK
  <2> QED
    BY <1>5, <2>1, <2>2, ThrowCall, SameTypes, BaseTables, BaseStep DEF TableTypes
<1>6. ASSUME NEW c \in Consumers, PutNotifications(c) PROVE BaseInv'
  <2>1. Inbox(c) \in Accounts /\ call[c].seen \subseteq Notes
    BY <1>6, PutCall, WorkingMessage DEF Working, BaseInv, Call
  <2>2. cached' \in [Accounts -> SUBSET Notes]
    BY <1>6, <2>1, PutCall, BaseTables DEF TableTypes
  <2>3. CallOK(c)'
    BY <1>6, PutCall, EndedOK
  <2> QED
    BY <1>6, <2>2, <2>3, PutCall, SameTypes, BaseTables, BaseStep DEF TableTypes, history
<1> QED
  BY <1>1, <1>2, <1>3, <1>4, <1>5, <1>6

LEMMA BaseNext ==
    ASSUME BaseInv, [Next]_vars
    PROVE  BaseInv'
<1>1. [QueueNext]_queueVars
  BY NextIsQueueNext
<1>2. CASE UNCHANGED core
  <2>1. call' = call /\ batch' = batch /\ UNCHANGED <<rows, cached, mismatched, history>>
    BY <1>2 DEF core, queueVars
  <2>2. \A d \in Consumers : Steady(d)
    BY <2>1, SameIsSteady
  <2> QED
    BY <1>1, <2>1, <2>2, SameTypes, BaseTables, BaseStep DEF TableTypes, history, BaseInv
<1>3. ASSUME NEW c \in Consumers, Handle(c) PROVE BaseInv'
  BY <1>1, <1>3, InsertNoteBase, AddInOutboxBase, NotifyBase, AddInInboxBase, DeleteNoteBase,
     ReadBase, QueueBase DEF Handle
<1> QED
  BY <1>1, <1>2, <1>3, QueueBase, DisorderCore DEF Next, Disorder

LEMMA BaseInit == Init => BaseInv
<1> SUFFICES ASSUME Init PROVE BaseInv
  OBVIOUS
<1>1. QueueInv
  BY ConsumerAssumption DEF Init, QueueInit, QueueInv, QueueTypeOK, BatchesOK, SentFirst, NoBatch,
     Batch, ToSet
<1>2. call \in [Consumers -> Call] /\ \A c \in Consumers : call[c] = NoCall
  BY NoCallType DEF Init
<1>3. \A c \in Consumers : CallOK(c)
  BY <1>2 DEF Init, QueueInit, NoBatch, NoCall, CallOK, Working, Announcing
<1>4. TableTypes
  BY DEF Init, TableTypes
<1> QED
  BY <1>1, <1>2, <1>3, <1>4, Types DEF BaseInv, QueueInv

LEMMA BaseHolds == Spec => []BaseInv
BY BaseInit, BaseNext, PTL DEF Spec

-----------------------------------------------------------------------------
(* The order of the notifications. *)

\* A mention that is not overtaken is among the newest notifications of its recipient.
OrderInv ==
    /\ newer \in [Mentions -> Nat] /\ overtaken \subseteq Mentions
    /\ \A p \in Mentions : notified[p] > 0 /\ p \notin overtaken => newer[p] < Limit

LEMMA AddRowType ==
    ASSUME OrderInv, NEW r
    PROVE  AddRow(r) \in [Mentions -> Nat]
BY DEF OrderInv, AddRow

LEMMA OvertakeOrder ==
    ASSUME newer' \in [Mentions -> Nat], OrderInv, Overtake
    PROVE  OrderInv' /\ overtaken \subseteq overtaken'
BY InboundNotesAssumption DEF OrderInv, Overtake

LEMMA OrderNext ==
    ASSUME BaseInv, OrderInv, [Next]_vars
    PROVE  OrderInv' /\ overtaken \subseteq overtaken'
<1>1. notified \in [Mentions -> Nat]
  BY DEF BaseInv, BaseTypeOK
<1>2. CASE UNCHANGED <<order, notified>>
  BY <1>2 DEF order, OrderInv
<1>3. ASSUME NEW c \in Consumers, Notify(c) PROVE OrderInv' /\ overtaken \subseteq overtaken'
  <2>1. newer' = [AddRow(Turn(c)) EXCEPT ![<<Note(c), Turn(c)>>] = 0] /\ Overtake
    BY <1>3 DEF Notify
  <2> QED
    BY <2>1, AddRowType, OvertakeOrder
<1>4. ASSUME NEW c \in Consumers, DeleteNote(c)
      PROVE  OrderInv' /\ overtaken \subseteq overtaken'
  <2>1. CASE UNCHANGED <<order, notified>>
    BY <2>1, <1>2
  <2>2. CASE ~(UNCHANGED <<order, notified>>)
    <3>1. PICK n \in Notes : n = Note(c)
      BY <1>4, DeleteNoteCall
    <3>2. /\ newer' = WithoutMentions(n) /\ notified' = Cleared(notified, n)
          /\ overtaken' = overtaken
      BY <1>4, <2>2, <3>1 DEF DeleteNote, order
    <3>3. \A p \in Mentions : <<n, p[2]>> \in Mentions
      BY DEF Mentions
    <3>4. \A p \in Mentions : newer'[p] \in Nat /\ newer'[p] <= newer[p]
      BY <1>1, <3>2, <3>3 DEF WithoutMentions, OrderInv
    <3>5. newer' \in [Mentions -> Nat]
      BY <3>2, <3>4 DEF WithoutMentions
    <3>6. \A p \in Mentions : notified'[p] > 0 => notified[p] > 0
      BY <1>1, <3>2 DEF Cleared
    <3>7. \A p \in Mentions : newer[p] \in Nat
      BY DEF OrderInv
    <3> QED
      BY <3>2, <3>4, <3>5, <3>6, <3>7, InboundNotesAssumption DEF OrderInv
  <2> QED
    BY <2>1, <2>2
<1>5. ASSUME NEW r, NotifyOther(r) PROVE OrderInv' /\ overtaken \subseteq overtaken'
  BY <1>5, AddRowType, OvertakeOrder DEF NotifyOther
<1>6. ASSUME NEW r, NEW k \in 0..MaxNewer, DeleteOther(r, k)
      PROVE  OrderInv' /\ overtaken \subseteq overtaken'
  <2>1. /\ newer' = [p \in Mentions |->
                      IF p[2] = r /\ newer[p] > k THEN newer[p] - 1 ELSE newer[p]]
        /\ notified' = notified /\ overtaken' = overtaken
    BY <1>6 DEF DeleteOther, rows
  <2>2. k \in Nat /\ \A p \in Mentions : newer[p] \in Nat
    BY InboundNotesAssumption DEF OrderInv
  <2>3. \A p \in Mentions : newer'[p] \in Nat /\ newer'[p] <= newer[p]
    BY <2>1, <2>2
  <2>4. newer' \in [Mentions -> Nat]
    BY <2>1, <2>3
  <2> QED
    BY <2>1, <2>2, <2>3, <2>4, InboundNotesAssumption DEF OrderInv
<1>7. ASSUME NEW c \in Consumers, Handle(c), ~Notify(c), ~DeleteNote(c)
      PROVE  UNCHANGED <<order, notified>>
  BY <1>7 DEF Handle, FindNote, InsertNote, AddInOutbox, AddInInbox, FindDeleted,
              ReadNotifications, PutNotifications, rows
<1>8. ASSUME NEW c \in Consumers, StartHandler(c) \/ ReturnFromLoop(c) \/ ThrowFromLoop(c)
      PROVE  UNCHANGED <<order, notified>>
  BY <1>8 DEF StartHandler, ReturnFromLoop, ThrowFromLoop, rows
<1>9. ASSUME NEW m \in Messages, SendActivity(m) PROVE UNCHANGED <<order, notified>>
  BY <1>9 DEF SendActivity, rows
<1>10. ASSUME NEW c \in Consumers, NEW messages \in Orders, DeliverBatch(c, messages)
       PROVE  UNCHANGED <<order, notified>>
  BY <1>10 DEF DeliverBatch, rows
<1>11. UNCHANGED vars => UNCHANGED <<order, notified>>
  BY DEF vars, rows
<1> QED
  BY <1>2, <1>3, <1>4, <1>5, <1>6, <1>7, <1>8, <1>9, <1>10, <1>11 DEF Next

LEMMA OrderHolds == Spec => [](BaseInv /\ OrderInv)
<1>1. Init => OrderInv
  BY DEF Init, OrderInv
<1>2. BaseInv /\ OrderInv /\ [Next]_vars => OrderInv'
  BY OrderNext
<1> QED
  BY <1>1, <1>2, BaseHolds, PTL DEF Spec

\* The tables, the handlers and the queue have their types; a note's row is the last one that
\* it was given, and an invocation is at work exactly while its handler is.
THEOREM InboundNotesTypeOK == Spec => []TypeOK
<1>1. BaseInv /\ OrderInv => TypeOK
  BY DEF BaseInv, BaseTypeOK, OrderInv, TypeOK
<1> QED
  BY <1>1, OrderHolds, PTL

-----------------------------------------------------------------------------
(* The announcement of a note. *)

\* No row refers to the note, all do that should.
Gone(n) == shown[n] = 0 /\ \A r \in Accounts : notified[<<n, r>>] = 0 /\ inboxed[<<n, r>>] = 0
Done(n) ==
    shown[n] = 1 /\ \A r \in Recipients[n] : notified[<<n, r>>] = 1 /\ inboxed[<<n, r>>] = 1

\* How far the announcement has come: who is left is told nothing, the others everything.
Progress(c) ==
    LET n == Note(c)
        at == call[c].at
        left == call[c].left
    IN
    /\ left \subseteq Recipients[n]
    /\ at = "outbox" => Gone(n) /\ left = Recipients[n]
    /\ at # "outbox" =>
          /\ shown[n] = 1
          /\ \A r \in Recipients[n] \ left : notified[<<n, r>>] = 1 /\ inboxed[<<n, r>>] = 1
          /\ \A r \in left :
                /\ inboxed[<<n, r>>] = 0
                /\ notified[<<n, r>>] = IF at = "inbox" /\ r = Turn(c) THEN 1 ELSE 0

\* A row is announced by the handler that inserted it, and has an id of its own.
OwnRows ==
    \A c, d \in Consumers :
        c # d /\ call[c].at \in Announcing /\ call[d].at \in Announcing /\ Note(c) = Note(d)
        => call[c].id # call[d].id

AnnounceInv ==
    /\ AnnouncedOnce
    /\ AnnouncedToAll
    /\ OwnRows
    /\ \A n \in Notes : object[n] = 0 => Gone(n)
    /\ \A c \in Consumers : HalfDone(c) => Progress(c)

\* What a handler announces is unchanged when it is steady.
LEMMA SteadyAnnouncing ==
    ASSUME NEW d \in Consumers, Steady(d)
    PROVE  /\ call'[d] = call[d] /\ batch'[d].running = batch[d].running
           /\ call[d].at \in Announcing => Note(d)' = Note(d)
           /\ Turn(d)' = Turn(d)
BY DEF Steady, Working, Announcing, Turn

\* Steps that leave the rows alone, after which a note that is half done is partial.
LEMMA QuietAnnounce ==
    ASSUME BaseInv, AnnounceInv, UNCHANGED rows, partial \subseteq partial',
           \A d \in Consumers :
               \/ Steady(d)
               \/ /\ call'[d].at \notin Announcing
                  /\ HalfDone(d) => Note(d) \in partial'
    PROVE  AnnounceInv'
<1> USE DEF rows
<1>1. \A d \in Consumers : HalfDone(d)' => HalfDone(d) /\ Steady(d)
  BY SteadyAnnouncing DEF HalfDone, RowIsThere, Announcing
<1>2. \A c \in Consumers : HalfDone(c)' => Progress(c)'
  BY <1>1, SteadyAnnouncing DEF Progress, HalfDone, Gone, Announcing, AnnounceInv
<1>3. OwnRows'
  BY SteadyAnnouncing DEF OwnRows, AnnounceInv
<1>4. ASSUME NEW n \in Notes, object'[n] # 0, ~InProgress(n)', n \notin partial'
      PROVE  Done(n)'
  <2>1. ~InProgress(n)
    <3> SUFFICES ASSUME NEW c \in Consumers, batch[c].running, Note(c) = n, HalfDone(c)
                 PROVE  FALSE
      BY DEF InProgress
    <3>1. Steady(c) /\ call[c].at \in Announcing
      BY <1>4 DEF HalfDone, Announcing
    <3>2. batch'[c].running /\ Note(c)' = n /\ HalfDone(c)'
      BY <3>1, SteadyAnnouncing DEF HalfDone, RowIsThere
    <3> QED
      BY <1>4, <3>2 DEF InProgress
  <2> QED
    BY <1>4, <2>1 DEF AnnounceInv, AnnouncedToAll, Done
<1> QED
  BY <1>2, <1>3, <1>4 DEF AnnounceInv, AnnouncedOnce, AnnouncedToAll, Gone, Done

\* Two handlers are not both announcing the row that a note has.
LEMMA OneAnnouncer ==
    ASSUME AnnounceInv, NEW c \in Consumers, NEW d \in Consumers, HalfDone(c),
           c # d, Note(d) = Note(c), call[d].at \in Announcing
    PROVE  ~RowIsThere(d)
BY DEF AnnounceInv, OwnRows, HalfDone, Announcing, RowIsThere

\* Nothing happens to the rows of other notes.
OnlyRowsOf(n) ==
    \A m \in Notes \ {n} :
        /\ object'[m] = object[m] /\ shown'[m] = shown[m]
        /\ m \in partial => m \in partial'
        /\ \A r \in Accounts : /\ notified'[<<m, r>>] = notified[<<m, r>>]
                               /\ inboxed'[<<m, r>>] = inboxed[<<m, r>>]

\* A step of a handler that changes the rows of its note.
LEMMA RowAnnounce ==
    ASSUME BaseInv, AnnounceInv, NEW c \in Consumers, NEW n \in Notes, n = Note(c), Onward(c),
           OnlyRowsOf(n),
           \A d \in Consumers \ {c} :
               Note(d) = n /\ call[d].at \in Announcing =>
                   /\ call[d].id # object'[n]
                   /\ call'[c].at \in Announcing => call[d].id # call'[c].id,
           shown'[n] <= 1,
           \A r \in Accounts : notified'[<<n, r>>] <= 1 /\ inboxed'[<<n, r>>] <= 1,
           object'[n] = 0 => Gone(n)',
           HalfDone(c)' => Progress(c)',
           object'[n] # 0 => HalfDone(c)' \/ n \in partial' \/ Done(n)'
    PROVE  AnnounceInv'
<1>1. /\ \A d \in Consumers \ {c} : Steady(d)
      /\ \A d \in Consumers : Note(d)' = Note(d) /\ batch'[d].running = batch[d].running
      /\ batch[c].running
  BY OnwardSame, SameIsSteady, WorkingMessage DEF Onward, Others
<1>2. ASSUME NEW d \in Consumers \ {c}, HalfDone(d)'
      PROVE  Note(d) # n /\ HalfDone(d)
  <2>1. call[d].at \in Announcing /\ object'[Note(d)] = call[d].id
    BY <1>1, <1>2 DEF HalfDone, RowIsThere, Steady, Announcing
  <2>2. Note(d) # n
    BY <2>1
  <2>3. Note(d) \in Notes
    BY <2>1, WorkingMessage DEF Working, Announcing
  <2> QED
    BY <2>1, <2>2, <2>3 DEF HalfDone, RowIsThere, Announcing, OnlyRowsOf
<1>3. ASSUME NEW d \in Consumers, HalfDone(d)'
      PROVE  Progress(d)'
  <2>1. CASE d # c
    <3>1. Note(d) # n /\ HalfDone(d) /\ Note(d) \in Notes
      BY <1>2, <1>3, <2>1, WorkingMessage DEF Working, HalfDone
    <3>2. call'[d] = call[d] /\ Note(d)' = Note(d) /\ Turn(d)' = Turn(d)
      BY <1>1, <2>1 DEF Steady, Turn
    <3>3. Progress(d) /\ call[d].left \subseteq Recipients[Note(d)]
      BY <3>1 DEF AnnounceInv, Progress
    <3>4. Recipients[Note(d)] \subseteq Accounts
      BY <3>1 DEF Accounts
    <3> QED
      BY <3>1, <3>2, <3>3, <3>4 DEF Progress, Gone, OnlyRowsOf
  <2> QED
    BY <1>3, <2>1
<1>4. OwnRows'
  BY <1>1 DEF AnnounceInv, OwnRows, Onward
<1>5. AnnouncedOnce'
  BY DEF AnnounceInv, AnnouncedOnce, Mentions, OnlyRowsOf
<1>6. ASSUME NEW m \in Notes, object'[m] # 0, ~InProgress(m)', m \notin partial'
      PROVE  Done(m)'
  <2>1. CASE m = n
    BY <1>1, <1>6, <2>1 DEF InProgress
  <2>2. CASE m # n
    <3>1. ~InProgress(m)
      <4> SUFFICES ASSUME NEW d \in Consumers, batch[d].running, Note(d) = m, HalfDone(d)
                   PROVE  FALSE
        BY DEF InProgress
      <4>1. Steady(d)
        BY <1>1, <2>2
      <4>2. HalfDone(d)'
        BY <1>1, <2>2, <4>1 DEF HalfDone, RowIsThere, Steady, Working, OnlyRowsOf
      <4> QED
        BY <1>1, <1>6, <4>2 DEF InProgress
    <3>2. Done(m) /\ Recipients[m] \subseteq Accounts
      BY <1>6, <2>2, <3>1 DEF AnnounceInv, AnnouncedToAll, Done, Accounts, OnlyRowsOf
    <3> QED
      BY <2>2, <3>2 DEF Done, OnlyRowsOf
  <2> QED
    BY <2>1, <2>2
<1>7. \A m \in Notes : object'[m] = 0 => Gone(m)'
  BY DEF AnnounceInv, Gone, OnlyRowsOf
<1> QED
  BY <1>3, <1>4, <1>5, <1>6, <1>7 DEF AnnounceInv, AnnouncedToAll, Done

LEMMA InsertNoteAnnounce ==
    ASSUME BaseInv, AnnounceInv, NEW c \in Consumers, InsertNote(c)
    PROVE  AnnounceInv'
<1>1. PICK n \in Notes : n = Note(c)
  BY InsertNoteCall
<1> DEFINE id == lastId[n] + 1
<1>2. /\ Onward(c) /\ call[c].at = "insert" /\ object[n] = 0
      /\ \/ /\ call'[c].at = "outbox" /\ call'[c].id = id /\ call'[c].left = Recipients[n]
            /\ UNCHANGED partial
         \/ call'[c].at = "caches" /\ partial' = partial \cup {n}
      /\ object' = [object EXCEPT ![n] = id]
      /\ UNCHANGED <<shown, notified, inboxed>>
  BY <1>1, InsertNoteCall
<1>3. TableTypes /\ Note(c)' = n /\ Gone(n)
  BY <1>1, <1>2, BaseTables, OnwardSame DEF AnnounceInv
<1>4. \A d \in Consumers : Note(d) = n /\ call[d].at \in Announcing => call[d].id \in 1..lastId[n]
  BY DEF BaseInv, CallOK
<1>5. object'[n] = id /\ id # 0 /\ lastId[n] \in Nat
  BY <1>2, <1>3 DEF TableTypes
<1>6. OnlyRowsOf(n)
  BY <1>2, <1>3 DEF TableTypes, OnlyRowsOf
<1>7. \A d \in Consumers \ {c} : Note(d) = n /\ call[d].at \in Announcing =>
         /\ call[d].id # object'[n]
         /\ call'[c].at \in Announcing => call[d].id # call'[c].id
  BY <1>2, <1>4, <1>5 DEF Announcing
<1>8. shown'[n] <= 1 /\ \A r \in Accounts : notified'[<<n, r>>] <= 1 /\ inboxed'[<<n, r>>] <= 1
  BY <1>2, <1>3 DEF Gone
<1>9. HalfDone(c)' => Progress(c)'
  BY <1>2, <1>3 DEF HalfDone, At, Progress, Gone
<1>10. object'[n] # 0 => HalfDone(c)' \/ n \in partial' \/ Done(n)'
  BY <1>2, <1>3, <1>5 DEF HalfDone, At, RowIsThere
<1> QED
  BY <1>1, <1>2, <1>5, <1>6, <1>7, <1>8, <1>9, <1>10, RowAnnounce

\* What the steps of an announcement have in common.
LEMMA AnnouncerStep ==
    ASSUME BaseInv, AnnounceInv, NEW c \in Consumers, NEW n \in Notes, n = Note(c), Onward(c),
           call[c].at \in Announcing, RowIsThere(c), UNCHANGED <<object, partial>>,
           call'[c].id = call[c].id,
           \A p \in Mentions : p[1] # n => notified'[p] = notified[p] /\ inboxed'[p] = inboxed[p],
           \A m \in Notes \ {n} : shown'[m] = shown[m],
           shown'[n] <= 1,
           \A r \in Accounts : notified'[<<n, r>>] <= 1 /\ inboxed'[<<n, r>>] <= 1,
           call'[c].at \in Announcing => Progress(c)',
           call'[c].at \notin Announcing => Done(n)'
    PROVE  AnnounceInv'
<1>1. HalfDone(c) /\ object[n] = call[c].id /\ object[n] # 0 /\ Note(c)' = n
  <2>1. call[c].id # 0
    BY DEF BaseInv, CallOK
  <2> QED
    BY <2>1, OnwardSame DEF HalfDone, Announcing, RowIsThere
<1>2. OnlyRowsOf(n)
  BY DEF OnlyRowsOf, Mentions
<1>3. \A d \in Consumers \ {c} : Note(d) = n /\ call[d].at \in Announcing =>
         /\ call[d].id # object'[n]
         /\ call'[c].at \in Announcing => call[d].id # call'[c].id
  BY <1>1 DEF AnnounceInv, OwnRows
<1>4. HalfDone(c)' <=> call'[c].at \in Announcing
  BY <1>1 DEF HalfDone, RowIsThere, Announcing
<1> QED
  BY <1>1, <1>2, <1>3, <1>4, RowAnnounce

LEMMA AddInOutboxAnnounce ==
    ASSUME BaseInv, AnnounceInv, NEW c \in Consumers, AddInOutbox(c)
    PROVE  AnnounceInv'
<1>1. /\ Onward(c) /\ call[c].at = "outbox" /\ RowIsThere(c)
      /\ call'[c].at = IF call[c].left = {} THEN "caches" ELSE "notify"
      /\ call'[c].id = call[c].id /\ call'[c].left = call[c].left
      /\ shown' = [shown EXCEPT ![Note(c)] = @ + 1]
      /\ UNCHANGED <<object, lastId, notified, inboxed, cached, mismatched, history>>
  BY AddInOutboxCall
<1>2. PICK n \in Notes : n = Note(c)
  BY <1>1, WorkingMessage DEF Onward
<1>3. HalfDone(c) /\ TableTypes /\ Recipients[n] \subseteq Accounts
  BY <1>1, BaseTables DEF HalfDone, Accounts
<1>4. call[c].left = Recipients[n] /\ Gone(n) /\ Note(c)' = n
  BY <1>1, <1>2, <1>3, OnwardSame DEF AnnounceInv, Progress
<1>5. shown'[n] = 1 /\ \A m \in Notes \ {n} : shown'[m] = shown[m]
  BY <1>1, <1>2, <1>3, <1>4 DEF TableTypes, Gone
<1>6. \A r \in Accounts : notified'[<<n, r>>] = 0 /\ inboxed'[<<n, r>>] = 0
  BY <1>1, <1>4 DEF Gone
<1>7. call'[c].at \in Announcing => Progress(c)'
  BY <1>1, <1>3, <1>4, <1>5, <1>6 DEF Progress, Announcing
<1>8. call'[c].at \notin Announcing => Done(n)'
  BY <1>1, <1>4, <1>5 DEF Done, Announcing
<1>9. UNCHANGED <<object, partial>> /\ call[c].at \in Announcing
      /\ \A p \in Mentions : p[1] # n => notified'[p] = notified[p] /\ inboxed'[p] = inboxed[p]
  BY <1>1 DEF history, Announcing
<1> QED
  BY <1>1, <1>2, <1>5, <1>6, <1>7, <1>8, <1>9, AnnouncerStep

LEMMA NotifyAnnounce ==
    ASSUME BaseInv, AnnounceInv, NEW c \in Consumers, Notify(c)
    PROVE  AnnounceInv'
<1>1. /\ Onward(c) /\ call[c].at = "notify" /\ RowIsThere(c)
      /\ call'[c].at = "inbox" /\ call'[c].id = call[c].id /\ call'[c].left = call[c].left
      /\ notified' = [notified EXCEPT ![<<Note(c), Turn(c)>>] = @ + 1]
      /\ UNCHANGED <<object, lastId, shown, inboxed, cached, mismatched, history>>
  BY NotifyCall
<1>2. PICK n \in Notes : n = Note(c)
  BY <1>1, WorkingMessage DEF Onward
<1>3. PICK r \in Accounts : r = Turn(c) /\ r \in call[c].left /\ <<n, r>> \in Mentions
  BY <1>1, <1>2, WhoseTurn
<1>4. HalfDone(c) /\ TableTypes /\ Recipients[n] \subseteq Accounts
  BY <1>1, BaseTables DEF HalfDone, Accounts
<1>5. Progress(c) /\ Note(c)' = n /\ Turn(c)' = r /\ AnnouncedOnce
  BY <1>1, <1>2, <1>3, <1>4, OnwardSame DEF AnnounceInv, Turn
<1>6. notified'[<<n, r>>] = 1
      /\ \A p \in Mentions : p # <<n, r>> => notified'[p] = notified[p]
  BY <1>1, <1>2, <1>3, <1>4, <1>5 DEF TableTypes, Progress
<1>7. \A q \in Accounts : <<n, q>> \in Mentions /\ (q # r => <<n, q>> # <<n, r>>)
  BY DEF Mentions
<1>8. \A q \in Accounts : notified'[<<n, q>>] <= 1 /\ inboxed'[<<n, q>>] <= 1
  BY <1>1, <1>5, <1>6, <1>7 DEF AnnouncedOnce
<1>9. Progress(c)'
  BY <1>1, <1>2, <1>3, <1>4, <1>5, <1>6, <1>7 DEF Progress
<1>10. UNCHANGED <<object, partial>> /\ call[c].at \in Announcing /\ call'[c].at \in Announcing
       /\ \A p \in Mentions : p[1] # n => notified'[p] = notified[p] /\ inboxed'[p] = inboxed[p]
  BY <1>1, <1>6 DEF history, Announcing
<1>11. shown'[n] <= 1 /\ \A m \in Notes \ {n} : shown'[m] = shown[m]
  BY <1>1, <1>5 DEF AnnouncedOnce
<1> QED
  BY <1>1, <1>2, <1>8, <1>9, <1>10, <1>11, AnnouncerStep

LEMMA AddInInboxAnnounce ==
    ASSUME BaseInv, AnnounceInv, NEW c \in Consumers, AddInInbox(c)
    PROVE  AnnounceInv'
<1> DEFINE left == call[c].left \ {Turn(c)}
<1>1. /\ Onward(c) /\ call[c].at = "inbox" /\ RowIsThere(c)
      /\ call'[c].at = IF left = {} THEN "caches" ELSE "notify"
      /\ call'[c].id = call[c].id /\ call'[c].left = left
      /\ inboxed' = [inboxed EXCEPT ![<<Note(c), Turn(c)>>] = @ + 1]
      /\ UNCHANGED <<object, lastId, shown, notified, cached, mismatched, history>>
  BY AddInInboxCall
<1>2. PICK n \in Notes : n = Note(c)
  BY <1>1, WorkingMessage DEF Onward
<1>3. PICK r \in Accounts : r = Turn(c) /\ r \in call[c].left /\ <<n, r>> \in Mentions
  BY <1>1, <1>2, WhoseTurn
<1>4. HalfDone(c) /\ TableTypes /\ Recipients[n] \subseteq Accounts
  BY <1>1, BaseTables DEF HalfDone, Accounts
<1>5. Progress(c) /\ Note(c)' = n /\ AnnouncedOnce
  BY <1>1, <1>2, <1>4, OnwardSame DEF AnnounceInv
<1>6. inboxed'[<<n, r>>] = 1
      /\ \A p \in Mentions : p # <<n, r>> => inboxed'[p] = inboxed[p]
  BY <1>1, <1>2, <1>3, <1>4, <1>5 DEF TableTypes, Progress
<1>7. \A q \in Accounts : <<n, q>> \in Mentions /\ (q # r => <<n, q>> # <<n, r>>)
  BY DEF Mentions
<1>8. \A q \in Accounts : notified'[<<n, q>>] <= 1 /\ inboxed'[<<n, q>>] <= 1
  BY <1>1, <1>5, <1>6, <1>7 DEF AnnouncedOnce
<1>9. /\ left \subseteq Recipients[n] /\ shown'[n] = 1
      /\ \A q \in Recipients[n] \ left : notified'[<<n, q>>] = 1 /\ inboxed'[<<n, q>>] = 1
      /\ \A q \in left : notified'[<<n, q>>] = 0 /\ inboxed'[<<n, q>>] = 0
  BY <1>1, <1>2, <1>3, <1>4, <1>5, <1>6, <1>7 DEF Progress
<1>10. call'[c].at \in Announcing => Progress(c)'
  BY <1>1, <1>5, <1>9 DEF Progress, Announcing
<1>11. call'[c].at \notin Announcing => Done(n)'
  BY <1>1, <1>9 DEF Done, Announcing
<1>12. UNCHANGED <<object, partial>> /\ call[c].at \in Announcing
       /\ \A p \in Mentions : p[1] # n => notified'[p] = notified[p] /\ inboxed'[p] = inboxed[p]
  BY <1>1, <1>6 DEF history, Announcing
<1>13. shown'[n] <= 1 /\ \A m \in Notes \ {n} : shown'[m] = shown[m]
  BY <1>1, <1>5 DEF AnnouncedOnce
<1> QED
  BY <1>1, <1>2, <1>8, <1>10, <1>11, <1>12, <1>13, AnnouncerStep

LEMMA DeleteNoteAnnounce ==
    ASSUME BaseInv, AnnounceInv, NEW c \in Consumers, DeleteNote(c)
    PROVE  AnnounceInv'
<1>1. /\ Onward(c) /\ call[c].at = "delete" /\ call'[c].at = "caches"
      /\ UNCHANGED <<lastId, cached, mismatched, settled, raced>>
  BY DeleteNoteCall
<1>2. CASE ~RowIsThere(c)
  <2>1. UNCHANGED rows /\ partial' = partial
    BY <1>1, <1>2, DeleteNoteCall DEF rows
  <2>2. \A d \in Consumers : Steady(d) \/ d = c
    BY <1>1, OnwardSame, SameIsSteady DEF Others
  <2>3. call'[c].at \notin Announcing /\ ~HalfDone(c)
    BY <1>1 DEF Announcing, HalfDone
  <2> QED
    BY <2>1, <2>2, <2>3, QuietAnnounce
<1>3. CASE RowIsThere(c)
  <2>1. PICK n \in Notes : n = Note(c)
    BY <1>1, WorkingMessage DEF Onward
  <2>2. /\ object' = [object EXCEPT ![n] = 0] /\ shown' = [shown EXCEPT ![n] = 0]
        /\ notified' = Cleared(notified, n) /\ inboxed' = Cleared(inboxed, n)
        /\ partial' = partial \ {n}
    BY <1>3, <2>1, DeleteNoteCall
  <2>3. TableTypes
    BY BaseTables
  <2>4. object'[n] = 0 /\ shown'[n] = 0
    BY <2>2, <2>3 DEF TableTypes
  <2>5. \A r \in Accounts : notified'[<<n, r>>] = 0 /\ inboxed'[<<n, r>>] = 0
    BY <2>2 DEF Cleared, Mentions
  <2>6. OnlyRowsOf(n)
    BY <2>2, <2>3 DEF TableTypes, OnlyRowsOf, Cleared, Mentions
  <2>7. \A d \in Consumers \ {c} : Note(d) = n /\ call[d].at \in Announcing =>
           /\ call[d].id # object'[n]
           /\ call'[c].at \in Announcing => call[d].id # call'[c].id
    BY <1>1, <2>3, <2>4 DEF Announcing, BaseInv, CallOK
  <2>8. Gone(n)' /\ ~HalfDone(c)'
    BY <1>1, <2>4, <2>5 DEF Gone, HalfDone
  <2> QED
    BY <1>1, <2>1, <2>4, <2>5, <2>6, <2>7, <2>8, RowAnnounce
<1> QED
  BY <1>2, <1>3

LEMMA AnnounceNext ==
    ASSUME BaseInv, AnnounceInv, [Next]_vars
    PROVE  AnnounceInv'
<1>1. CASE UNCHANGED core
  <2>1. call' = call /\ batch' = batch /\ UNCHANGED rows /\ partial' = partial
    BY <1>1 DEF core, queueVars, history
  <2> QED
    BY <2>1, SameIsSteady, QuietAnnounce
<1>2. ASSUME NEW m \in Messages, SendActivity(m) PROVE AnnounceInv'
  BY <1>2, SendCall, QuietAnnounce
<1>3. ASSUME NEW c \in Consumers, NEW messages \in Orders, DeliverBatch(c, messages)
      PROVE  AnnounceInv'
  BY <1>3, DeliverCall, QuietAnnounce DEF history
<1>4. ASSUME NEW c \in Consumers, StartHandler(c) PROVE AnnounceInv'
  <2>1. call'[c].at \notin Announcing /\ ~HalfDone(c)
    BY <1>4, StartCall DEF Announcing, HalfDone, Working
  <2> QED
    BY <1>4, <2>1, StartCall, QuietAnnounce
<1>5. ASSUME NEW c \in Consumers, ReturnFromLoop(c) PROVE AnnounceInv'
  BY <1>5, ReturnCall, QuietAnnounce DEF history
<1>6. ASSUME NEW c \in Consumers, ThrowFromLoop(c) PROVE AnnounceInv'
  <2>1. call'[c].at \notin Announcing
    BY <1>6, ThrowCall DEF Announcing, Working
  <2>2. partial \subseteq partial' /\ (HalfDone(c) => Note(c) \in partial')
    BY <1>6, ThrowCall
  <2> QED
    BY <1>6, <2>1, <2>2, ThrowCall, QuietAnnounce
<1>7. ASSUME NEW c \in Consumers, PutNotifications(c) PROVE AnnounceInv'
  <2>1. call'[c].at \notin Announcing /\ ~HalfDone(c)
    BY <1>7, PutCall DEF Announcing, HalfDone, Working
  <2> QED
    BY <1>7, <2>1, PutCall, QuietAnnounce DEF history
<1>8. ASSUME NEW c \in Consumers, FindNote(c) \/ FindDeleted(c) \/ ReadNotifications(c)
      PROVE  AnnounceInv'
  <2>1. Onward(c) /\ UNCHANGED <<rows, cached, mismatched, history>>
    BY <1>8, FindNoteCall, FindDeletedCall, ReadNotificationsCall
  <2>2. call'[c].at \notin Announcing /\ ~HalfDone(c)
    BY <1>8, FindNoteCall, FindDeletedCall, ReadNotificationsCall DEF Announcing, HalfDone
  <2>3. \A d \in Consumers : Steady(d) \/ d = c
    BY <2>1, OnwardSame, SameIsSteady DEF Others
  <2> QED
    BY <2>1, <2>2, <2>3, QuietAnnounce DEF history
<1> QED
  BY <1>1, <1>2, <1>3, <1>4, <1>5, <1>6, <1>7, <1>8, InsertNoteAnnounce, AddInOutboxAnnounce,
     NotifyAnnounce, AddInInboxAnnounce, DeleteNoteAnnounce, DisorderCore
     DEF Next, Handle, Disorder

LEMMA AnnounceInit == Init => AnnounceInv
<1> SUFFICES ASSUME Init PROVE AnnounceInv
  OBVIOUS
<1>1. \A c \in Consumers : call[c].at \notin Announcing
  BY DEF Init, NoCall, Announcing
<1>2. \A n \in Notes : Gone(n) /\ object[n] = 0
  BY DEF Init, Gone, Mentions
<1> QED
  BY <1>1, <1>2 DEF AnnounceInv, AnnouncedOnce, AnnouncedToAll, OwnRows, HalfDone, Announcing,
     Gone, Mentions

LEMMA AnnounceHolds == Spec => [](BaseInv /\ AnnounceInv)
<1>1. BaseInv /\ AnnounceInv /\ [Next]_vars => (BaseInv /\ AnnounceInv)'
  BY BaseNext, AnnounceNext
<1> QED
  BY <1>1, BaseInit, AnnounceInit, PTL DEF Spec

\* A note is in the outbox of its author once, and every recipient has one mention and one inbox
\* row of it, for any number of inboxes that its Create was posted to, of retries, of
\* concurrent invocations and of Deletes in between.
THEOREM InboundNotesAnnouncedOnce == Spec => []AnnouncedOnce
<1>1. AnnounceInv => AnnouncedOnce
  BY DEF AnnounceInv
<1> QED
  BY <1>1, AnnounceHolds, PTL

\* A note that has a row, and that no handler is announcing, was announced to everyone, unless
\* its handler threw or found other recipients in the activity.
THEOREM InboundNotesAnnouncedToAll == Spec => []AnnouncedToAll
<1>1. AnnounceInv => AnnouncedToAll
  BY DEF AnnounceInv
<1> QED
  BY <1>1, AnnounceHolds, PTL

-----------------------------------------------------------------------------
(* Deletes that every Create of their note precedes. *)

SettledInv ==
    /\ \A d \in settled : \A k \in CreatesOf(NoteOf[d]) : place[k] \in {"acked", "dropped"}
    /\ \A d \in settled \cap ByAuthor : d \in handled => object[NoteOf[d]] = 0
    /\ \A d \in settled \cap ByAuthor, c \in Consumers :
          Working(c) /\ Current(c) = d =>
              /\ call[c].at = "delete" => object[NoteOf[d]] \in {0, call[c].id}
              /\ call[c].at \in {"caches", "put"} => object[NoteOf[d]] = 0

\* A message that is off the queue does not come back.
LEMMA PlaceStays ==
    ASSUME BaseInv, [QueueNext]_queueVars,
           NEW k \in Messages, place[k] \in {"acked", "dropped"}
    PROVE  place'[k] = place[k]
<1>1. \A c \in Consumers : k \notin batch[c].taken
  BY DEF BaseInv, QueueInv, BatchesOK
<1>2. \A c \in Consumers, messages \in Orders : Deliver(c, messages) => place'[k] = place[k]
  BY DEF Deliver, Move
<1>3. \A c \in Consumers :
         Start(c) \/ ActorMissing(c) \/ End(c) \/ Return(c) \/ Throw(c) => place'[k] = place[k]
  BY <1>1 DEF Start, ActorMissing, End, Return, Throw, Acknowledge, Move
<1>4. \A m \in Messages : Send(m) => place'[k] = place[k]
  BY DEF Send, Move
<1> QED
  BY <1>2, <1>3, <1>4 DEF QueueNext, UndoRegistration, queueVars

\* No Create is at work on the note of a settled Delete.
LEMMA NoCreate ==
    ASSUME BaseInv, SettledInv, NEW c \in Consumers, Working(c), Current(c) \in Creates,
           NEW d \in settled
    PROVE  Note(c) # NoteOf[d]
BY WorkingMessage DEF SettledInv, CreatesOf, Note

LEMMA SettledStep ==
    ASSUME BaseInv, SettledInv, [QueueNext]_queueVars, settled' = settled,
           \A d \in settled : object'[NoteOf[d]] \in {0, object[NoteOf[d]]},
           \A c \in Consumers :
               \/ Steady(c)
               \/ \A d \in settled \cap ByAuthor :
                     Working(c)' /\ Current(c)' = d =>
                         /\ call'[c].at = "delete" => object'[NoteOf[d]] \in {0, call'[c].id}
                         /\ call'[c].at \in {"caches", "put"} => object'[NoteOf[d]] = 0,
           \A d \in settled \cap ByAuthor :
               d \in handled' => d \in handled \/ object[NoteOf[d]] = 0
    PROVE  SettledInv'
<1>1. \A d \in settled : \A k \in CreatesOf(NoteOf[d]) : place'[k] \in {"acked", "dropped"}
  BY PlaceStays, InboundNotesAssumption DEF SettledInv, CreatesOf
<1>2. \A d \in settled \cap ByAuthor : d \in handled' => object'[NoteOf[d]] = 0
  BY DEF SettledInv
<1>3. ASSUME NEW d \in settled \cap ByAuthor, NEW c \in Consumers, Steady(c), Working(c)',
             Current(c)' = d
      PROVE  /\ call'[c].at = "delete" => object'[NoteOf[d]] \in {0, call'[c].id}
             /\ call'[c].at \in {"caches", "put"} => object'[NoteOf[d]] = 0
  <2>1. Working(c) /\ Current(c) = d /\ call'[c] = call[c]
    BY <1>3 DEF Steady, Working
  <2> QED
    BY <2>1 DEF SettledInv
<1> QED
  BY <1>1, <1>2, <1>3 DEF SettledInv, CreatesOf

\* The steps of a handler.
LEMMA OnwardSettled ==
    ASSUME BaseInv, SettledInv, [QueueNext]_queueVars, NEW c \in Consumers, Onward(c),
           settled' = settled,
           \A d \in settled : object'[NoteOf[d]] \in {0, object[NoteOf[d]]},
           \A d \in settled \cap ByAuthor :
               Current(c) = d =>
                   /\ call'[c].at = "delete" => object'[NoteOf[d]] \in {0, call'[c].id}
                   /\ call'[c].at \in {"caches", "put"} => object'[NoteOf[d]] = 0
    PROVE  SettledInv'
<1>1. Current(c)' = Current(c) /\ \A d \in Consumers \ {c} : Steady(d)
  BY OnwardSame, SameIsSteady DEF Others
<1>2. handled' = handled
  BY DEF Onward, queueVars
<1> QED
  BY <1>1, <1>2, SettledStep

LEMMA HandleSettled ==
    ASSUME BaseInv, SettledInv, [QueueNext]_queueVars, NEW c \in Consumers,
           Handle(c), ~PutNotifications(c)
    PROVE  SettledInv'
<1>1. settled \subseteq Messages \ Creates /\ TableTypes
  BY BaseTables DEF TableTypes
<1>2. CASE FindNote(c) \/ AddInOutbox(c) \/ Notify(c) \/ AddInInbox(c)
  <2>1. Onward(c) /\ UNCHANGED <<object, settled>>
        /\ call[c].at \in {"find", "outbox", "notify", "inbox"}
    BY <1>2, FindNoteCall, AddInOutboxCall, NotifyCall, AddInInboxCall DEF rows, history
  <2>2. Current(c) \in Creates
    BY <2>1 DEF BaseInv, CallOK, Announcing
  <2> QED
    BY <1>1, <2>1, <2>2, OnwardSettled
<1>3. CASE InsertNote(c)
  <2>1. PICK n \in Notes : n = Note(c)
    BY <1>3, InsertNoteCall
  <2>2. /\ Onward(c) /\ settled' = settled /\ call[c].at = "insert"
        /\ object' = [object EXCEPT ![n] = lastId[n] + 1]
    BY <1>3, <2>1, InsertNoteCall
  <2>3. Current(c) \in Creates
    BY <2>2 DEF BaseInv, CallOK
  <2>4. \A d \in settled : NoteOf[d] # n
    BY <2>1, <2>2, <2>3, NoCreate DEF Onward
  <2>5. \A d \in settled : object'[NoteOf[d]] = object[NoteOf[d]]
    BY <1>1, <2>2, <2>4, InboundNotesAssumption DEF TableTypes
  <2> QED
    BY <1>1, <2>2, <2>3, <2>5, OnwardSettled
<1>4. CASE FindDeleted(c)
  <2>1. /\ Onward(c) /\ UNCHANGED <<object, settled>>
        /\ \/ call'[c].at = "delete" /\ call'[c].id = object[Note(c)]
           \/ call'[c].at = "caches" /\ (object[Note(c)] = 0 \/ Current(c) \notin ByAuthor)
    BY <1>4, FindDeletedCall DEF rows, history
  <2> QED
    BY <2>1, OnwardSettled DEF Note
<1>5. CASE DeleteNote(c)
  <2>1. PICK n \in Notes : n = Note(c)
    BY <1>5, DeleteNoteCall
  <2>2. /\ Onward(c) /\ settled' = settled /\ call[c].at = "delete" /\ call'[c].at = "caches"
        /\ \/ RowIsThere(c) /\ object' = [object EXCEPT ![n] = 0]
           \/ ~RowIsThere(c) /\ object' = object
    BY <1>5, <2>1, DeleteNoteCall
  <2>3. \A d \in settled : object'[NoteOf[d]] \in {0, object[NoteOf[d]]}
    BY <1>1, <2>2, InboundNotesAssumption DEF TableTypes
  <2>4. ASSUME NEW d \in settled \cap ByAuthor, Current(c) = d
        PROVE  object'[NoteOf[d]] = 0
    <3>1. NoteOf[d] = n /\ object[n] \in {0, call[c].id}
      BY <2>1, <2>2, <2>4 DEF Note, SettledInv, Working
    <3> QED
      BY <1>1, <2>1, <2>2, <3>1 DEF RowIsThere, TableTypes
  <2> QED
    BY <2>2, <2>3, <2>4, OnwardSettled
<1>6. CASE ReadNotifications(c)
  <2>1. Onward(c) /\ UNCHANGED <<object, settled>> /\ call[c].at = "caches" /\ call'[c].at = "put"
    BY <1>6, ReadNotificationsCall DEF rows, history
  <2> QED
    BY <2>1, OnwardSettled DEF SettledInv, Working
<1> QED
  BY <1>2, <1>3, <1>4, <1>5, <1>6 DEF Handle

LEMMA SettledNext ==
    ASSUME BaseInv, SettledInv, [Next]_vars
    PROVE  SettledInv'
<1>1. [QueueNext]_queueVars
  BY NextIsQueueNext
<1>2. CASE UNCHANGED core
  <2>1. call' = call /\ batch' = batch /\ object' = object /\ settled' = settled
        /\ handled' = handled
    BY <1>2 DEF core, queueVars, rows, history
  <2> QED
    BY <1>1, <2>1, SameIsSteady, SettledStep
<1>3. ASSUME NEW m \in Messages, SendActivity(m) PROVE SettledInv'
  <2>1. CASE settled' = settled
    BY <1>1, <1>3, <2>1, SendCall, SettledStep DEF rows
  <2>2. CASE settled' # settled
    <3>1. /\ settled' = settled \cup {m} /\ m \notin Creates /\ place[m] = "unsent"
          /\ \A k \in CreatesOf(NoteOf[m]) : place[k] \in {"acked", "dropped"}
          /\ UNCHANGED <<object, handled>> /\ \A c \in Consumers : Steady(c)
      BY <1>3, <2>2, SendCall DEF SendActivity, Send, rows
    <3>2. m \notin handled /\ \A c \in Consumers : Working(c) => Current(c) # m
      BY <3>1, WorkingMessage DEF BaseInv, QueueInv, SentFirst
    <3>3. \A d \in settled' : \A k \in CreatesOf(NoteOf[d]) : place'[k] \in {"acked", "dropped"}
      BY <1>1, <3>1, PlaceStays, InboundNotesAssumption DEF SettledInv, CreatesOf
    <3>4. ASSUME NEW d \in settled' \cap ByAuthor, NEW c \in Consumers, Working(c)',
                 Current(c)' = d
          PROVE  /\ call'[c].at = "delete" => object'[NoteOf[d]] \in {0, call'[c].id}
                 /\ call'[c].at \in {"caches", "put"} => object'[NoteOf[d]] = 0
      <4>1. Working(c) /\ Current(c) = d /\ call'[c] = call[c]
        BY <3>1, <3>4 DEF Steady, Working
      <4> QED
        BY <3>1, <3>2, <4>1 DEF SettledInv
    <3> QED
      BY <3>1, <3>2, <3>3, <3>4 DEF SettledInv, CreatesOf
  <2> QED
    BY <2>1, <2>2
<1>4. ASSUME NEW c \in Consumers, NEW messages \in Orders, DeliverBatch(c, messages)
      PROVE  SettledInv'
  BY <1>1, <1>4, DeliverCall, SettledStep DEF rows, history
<1>5. ASSUME NEW c \in Consumers, StartHandler(c) PROVE SettledInv'
  <2>1. call'[c].at \in {"find", "findDeleted"}
    BY <1>5, StartCall
  <2> QED
    BY <1>1, <1>5, <2>1, StartCall, SettledStep DEF rows
<1>6. ASSUME NEW c \in Consumers, ReturnFromLoop(c) PROVE SettledInv'
  BY <1>1, <1>6, ReturnCall, SettledStep DEF rows, history
<1>7. ASSUME NEW c \in Consumers, ThrowFromLoop(c) PROVE SettledInv'
  BY <1>1, <1>7, ThrowCall, SettledStep DEF rows
<1>8. ASSUME NEW c \in Consumers, PutNotifications(c) PROVE SettledInv'
  <2>1. call[c].at = "put" /\ handled' = handled \cup {Current(c)} /\ ~Working(c)'
    BY <1>8, PutCall
  <2>2. \A d \in settled \cap ByAuthor : d = Current(c) => object[NoteOf[d]] = 0
    BY <2>1 DEF SettledInv, Working
  <2> QED
    BY <1>1, <1>8, <2>1, <2>2, PutCall, SettledStep DEF rows, history
<1>9. ASSUME NEW c \in Consumers, Handle(c) PROVE SettledInv'
  BY <1>1, <1>8, <1>9, HandleSettled
<1> QED
  BY <1>2, <1>3, <1>4, <1>5, <1>6, <1>7, <1>9, DisorderCore DEF Next, Disorder

LEMMA SettledHolds == Spec => [](BaseInv /\ AnnounceInv /\ SettledInv)
<1>1. Init => SettledInv
  BY DEF Init, QueueInit, SettledInv
<1>2. BaseInv /\ SettledInv /\ [Next]_vars => SettledInv'
  BY SettledNext
<1> QED
  BY <1>1, <1>2, BaseHolds, AnnounceHolds, PTL DEF Spec

\* A Delete by the author that is sent when the queue is through with every Create of the note
\* leaves no row of it once it is handled, and none comes back, whatever was retried.
THEOREM InboundNotesSettledDeleteIsFinal == Spec => []SettledDeleteIsFinal
<1>1. BaseInv /\ AnnounceInv /\ SettledInv => SettledDeleteIsFinal
  <2> SUFFICES ASSUME BaseInv, AnnounceInv, SettledInv,
                      NEW d \in settled \cap ByAuthor, d \in handled
               PROVE  /\ object[NoteOf[d]] = 0 /\ shown[NoteOf[d]] = 0
                      /\ \A r \in Recipients[NoteOf[d]] : notified[<<NoteOf[d], r>>] = 0
    BY DEF SettledDeleteIsFinal
  <2>1. NoteOf[d] \in Notes /\ Recipients[NoteOf[d]] \subseteq Accounts
    BY InboundNotesAssumption DEF Accounts
  <2>2. object[NoteOf[d]] = 0
    BY DEF SettledInv
  <2> QED
    BY <2>1, <2>2 DEF AnnounceInv, Gone
<1> QED
  BY <1>1, SettledHolds, PTL

-----------------------------------------------------------------------------
(* Mentions on their way to the notifications that are kept. *)

\* The note has had one row, a recipient is told of it, by a notification that was never too old
\* to be shown, and no two invocations met on it.
Fresh(n, r) ==
    /\ n \notin raced /\ lastId[n] = 1
    /\ notified[<<n, r>>] > 0 /\ <<n, r>> \notin overtaken

\* The notifications that are kept for r show the note, and so do the ones to come.
Kept(n, r) ==
    /\ n \in cached[r]
    /\ \A e \in Consumers : call[e].at = "put" /\ Inbox(e) = r => n \in call[e].seen

\* Two invocations that meet on a note or for an inbox are noted down.
MeetingsNoted ==
    \A c, d \in Consumers :
        /\ c # d /\ Working(c) /\ Working(d)
        /\ Note(c) = Note(d) \/ Inbox(c) = Inbox(d)
        => Note(c) \in raced

\* A Create that comes to the caches has seen its note there, or inserted it.
SeesRow(c) ==
    call[c].at \in {"caches", "put"} /\ Current(c) \in Creates => lastId[Note(c)] >= 1

\* What it will write shows the note.
SeesMention(c) ==
    /\ call[c].at = "put" /\ Current(c) \in Creates /\ Fresh(Note(c), Inbox(c))
    => Note(c) \in call[c].seen

HandledIsKept(m) ==
    LET n == NoteOf[m] IN
    /\ lastId[n] >= 1
    /\ n \notin raced /\ lastId[n] = 1 =>
          \A c \in Consumers : call[c].at \in Announcing => Note(c) # n
    /\ Fresh(n, InboxOf[m]) => Kept(n, InboxOf[m])

CacheInv ==
    /\ MeetingsNoted
    /\ \A c \in Consumers : SeesRow(c) /\ SeesMention(c)
    /\ \A m \in handled \cap Creates : HandledIsKept(m)

\* How a step may take the handler d further, as far as the mentions go.
Carries(d) ==
    /\ Current(d)' = Current(d) /\ Note(d)' = Note(d) /\ Inbox(d)' = Inbox(d)
    /\ Current(d) \in Messages /\ Note(d) \in Notes /\ Inbox(d) \in Accounts
    /\ call'[d].at \in {"caches", "put"} /\ Current(d) \in Creates => lastId'[Note(d)] >= 1
    /\ call'[d].at = "put" =>
          \A n \in Notes :
              notified'[<<n, Inbox(d)>>] > 0 /\ <<n, Inbox(d)>> \notin overtaken'
              => n \in call'[d].seen
    /\ call'[d].at \in Announcing =>
          call[d].at \in Announcing \/ lastId'[Note(d)] > lastId[Note(d)]

\* A mention comes from the handler that announces its note, which goes on announcing it.
Tells(p) ==
    \E c \in Consumers :
        call[c].at \in Announcing /\ Working(c) /\ Working(c)' /\ Note(c) = p[1]

LEMMA CacheStep ==
    ASSUME BaseInv, CacheInv, Grows, MeetingsNoted', raced \subseteq raced',
           overtaken \subseteq overtaken', cached' = cached, handled' = handled,
           \A p \in Mentions : notified'[p] > 0 => notified[p] > 0 \/ Tells(p),
           \A d \in Consumers : Steady(d) \/ ~Working(d)' \/ Carries(d)
    PROVE  CacheInv'
<1>1. lastId \in [Notes -> Nat] /\ handled \subseteq Messages
  BY DEF BaseInv, BaseTypeOK, QueueTypeOK
<1>2. ASSUME NEW d \in Consumers, Working(d)', Steady(d)
      PROVE  /\ Working(d) /\ call'[d] = call[d] /\ Current(d)' = Current(d)
             /\ Note(d)' = Note(d) /\ Inbox(d)' = Inbox(d)
             /\ Note(d) \in Notes /\ Inbox(d) \in Accounts
  <2>1. Working(d) /\ call'[d] = call[d]
    BY <1>2 DEF Steady, Working
  <2> QED
    BY <1>2, <2>1, WorkingMessage DEF Steady
<1>3. ASSUME NEW d \in Consumers PROVE SeesRow(d)'
  <2>1. CASE ~Working(d)'
    BY <2>1 DEF SeesRow, Working
  <2>2. CASE Working(d)' /\ Steady(d)
    BY <1>1, <1>2, <2>2 DEF CacheInv, SeesRow, Grows
  <2>3. CASE Carries(d)
    BY <2>3 DEF Carries, SeesRow
  <2> QED
    BY <2>1, <2>2, <2>3
<1>4. ASSUME NEW d \in Consumers PROVE SeesMention(d)'
  <2>1. CASE ~Working(d)'
    BY <2>1 DEF SeesMention, Working
  <2>2. CASE Working(d)' /\ Steady(d)
    <3> SUFFICES ASSUME call'[d].at = "put", Current(d) \in Creates,
                        Fresh(Note(d), Inbox(d))'
                 PROVE  Note(d) \in call[d].seen
      BY <1>2, <2>2 DEF SeesMention
    <3> DEFINE p == <<Note(d), Inbox(d)>>
    <3>1. p \in Mentions /\ call[d].at = "put"
      BY <1>2, <2>2 DEF Mentions
    <3>2. Note(d) \notin raced /\ lastId[Note(d)] = 1 /\ notified'[p] > 0 /\ p \notin overtaken
      BY <1>1, <1>2, <2>2, <3>1 DEF Fresh, CacheInv, SeesRow, Grows
    <3>3. ~Tells(p)
      BY <1>2, <2>2, <3>1, <3>2 DEF Tells, CacheInv, MeetingsNoted, Announcing
    <3> QED
      BY <3>1, <3>2, <3>3 DEF CacheInv, SeesMention, Fresh
  <2>3. CASE Carries(d)
    BY <2>3 DEF Carries, SeesMention, Fresh
  <2> QED
    BY <2>1, <2>2, <2>3
<1>5. ASSUME NEW m \in handled \cap Creates PROVE HandledIsKept(m)'
  <2>1. PICK n \in Notes : n = NoteOf[m]
    BY <1>1, InboundNotesAssumption
  <2>2. PICK r \in Accounts : r = InboxOf[m]
    BY <1>1, InboundNotesAssumption DEF Accounts
  <2>3. HandledIsKept(m) /\ lastId[n] >= 1 /\ lastId'[n] >= 1
    BY <1>1, <2>1 DEF CacheInv, HandledIsKept, Grows
  <2>4. n \notin raced' /\ lastId'[n] = 1 => n \notin raced /\ lastId[n] = 1
    BY <1>1, <2>1, <2>3 DEF Grows
  <2>5. n \notin raced /\ lastId[n] = 1 =>
           \A c \in Consumers : call[c].at \in Announcing => Note(c) # n
    BY <2>1, <2>3 DEF HandledIsKept
  <2>6. ASSUME NEW d \in Consumers, n \notin raced', lastId'[n] = 1, call'[d].at \in Announcing
        PROVE  Note(d)' # n
    <3>1. CASE Carries(d)
      BY <2>4, <2>5, <2>6, <3>1 DEF Carries
    <3>2. CASE Steady(d)
      BY <1>2, <2>4, <2>5, <2>6, <3>2 DEF Working, Announcing
    <3> QED
      BY <2>6, <3>1, <3>2 DEF Working, Announcing
  <2>7. ASSUME Fresh(n, r)' PROVE Kept(n, r)'
    <3>1. /\ <<n, r>> \in Mentions /\ notified'[<<n, r>>] > 0
          /\ <<n, r>> \notin overtaken' /\ <<n, r>> \notin overtaken
      BY <2>7 DEF Fresh, Mentions
    <3>2. n \notin raced /\ lastId[n] = 1
      BY <2>4, <2>7 DEF Fresh
    <3>3. ~Tells(<<n, r>>)
      BY <2>5, <3>2 DEF Tells
    <3>4. Kept(n, r)
      BY <2>1, <2>2, <2>3, <3>1, <3>2, <3>3 DEF HandledIsKept, Fresh
    <3>5. ASSUME NEW e \in Consumers, call'[e].at = "put", Inbox(e)' = r
          PROVE  n \in call'[e].seen
      <4>1. CASE Carries(e)
        BY <3>1, <3>5, <4>1 DEF Carries
      <4>2. CASE Steady(e)
        BY <1>2, <3>4, <3>5, <4>2 DEF Kept, Working
      <4> QED
        BY <3>5, <4>1, <4>2 DEF Working
    <3> QED
      BY <3>4, <3>5 DEF Kept
  <2> QED
    BY <2>1, <2>2, <2>3, <2>6, <2>7 DEF HandledIsKept
<1> QED
  BY <1>3, <1>4, <1>5 DEF CacheInv

\* Nobody new comes to a note or an inbox.
LEMMA MeetingsStay ==
    ASSUME CacheInv, raced \subseteq raced',
           \A d \in Consumers :
               Working(d)' => Working(d) /\ Note(d)' = Note(d) /\ Inbox(d)' = Inbox(d)
    PROVE  MeetingsNoted'
BY DEF CacheInv, MeetingsNoted

\* The steps of a handler.
LEMMA OnwardCache ==
    ASSUME BaseInv, CacheInv, NEW c \in Consumers, Onward(c), Grows, UNCHANGED <<cached, raced>>,
           \A p \in Mentions :
               notified'[p] > 0 => notified[p] > 0 \/ (call[c].at \in Announcing /\ Note(c) = p[1]),
           call'[c].at \in {"caches", "put"} /\ Current(c) \in Creates => lastId'[Note(c)] >= 1,
           overtaken \subseteq overtaken',
           call'[c].at = "put" =>
               \A n \in Notes :
                   notified'[<<n, Inbox(c)>>] > 0 /\ <<n, Inbox(c)>> \notin overtaken'
                   => n \in call'[c].seen,
           call'[c].at \in Announcing =>
               call[c].at \in Announcing \/ lastId'[Note(c)] > lastId[Note(c)]
    PROVE  CacheInv'
<1>1. /\ handled' = handled /\ Working(c) /\ Working(c)' /\ Others(c)
      /\ \A d \in Consumers : /\ Current(d)' = Current(d) /\ Note(d)' = Note(d)
                              /\ Inbox(d)' = Inbox(d)
  BY OnwardSame DEF Onward
<1>2. MeetingsNoted'
  BY <1>1, MeetingsStay DEF Others, Working
<1>3. \A d \in Consumers \ {c} : Steady(d)
  BY <1>1, SameIsSteady DEF Others
<1>4. Carries(c)
  BY <1>1, WorkingMessage DEF Carries
<1>5. \A p \in Mentions : notified'[p] > 0 => notified[p] > 0 \/ Tells(p)
  BY <1>1 DEF Tells
<1> QED
  BY <1>1, <1>2, <1>3, <1>4, <1>5, CacheStep

LEMMA HandleCache ==
    ASSUME BaseInv, OrderInv, AnnounceInv, CacheInv, overtaken \subseteq overtaken',
           NEW c \in Consumers, Handle(c), ~PutNotifications(c)
    PROVE  CacheInv'
<1>1. TableTypes
  BY BaseTables
<1>2. CASE FindNote(c)
  <2>1. /\ Onward(c) /\ UNCHANGED <<rows, cached, history>>
        /\ call'[c].at = IF object[Note(c)] # 0 THEN "caches" ELSE "insert"
    BY <1>2, FindNoteCall
  <2>2. Note(c) \in Notes
    BY <2>1, WorkingMessage DEF Onward
  <2>3. call'[c].at = "caches" => lastId'[Note(c)] >= 1
    BY <1>1, <2>1, <2>2 DEF TableTypes, rows
  <2> QED
    BY <1>1, <2>1, <2>3, OnwardCache DEF TableTypes, Grows, rows, history, Announcing
<1>3. CASE InsertNote(c)
  <2>1. PICK n \in Notes : n = Note(c)
    BY <1>3, InsertNoteCall
  <2>2. /\ Onward(c) /\ call'[c].at \in {"outbox", "caches"}
        /\ lastId' = [lastId EXCEPT ![n] = lastId[n] + 1]
        /\ UNCHANGED <<notified, cached, raced>>
    BY <1>3, <2>1, InsertNoteCall
  <2>3. Grows /\ lastId'[n] > lastId[n] /\ lastId'[n] >= 1
    BY <1>1, <2>2 DEF TableTypes, Grows
  <2> QED
    BY <2>1, <2>2, <2>3, OnwardCache DEF Announcing
<1>4. CASE AddInOutbox(c) \/ AddInInbox(c)
  <2>1. /\ Onward(c) /\ call[c].at \in {"outbox", "inbox"} /\ call'[c].at \in {"caches", "notify"}
        /\ UNCHANGED <<lastId, notified, cached, raced>>
    BY <1>4, AddInOutboxCall, AddInInboxCall DEF history
  <2>2. lastId[Note(c)] >= 1 /\ Grows
    <3>1. Note(c) \in Notes /\ call[c].id \in 1..lastId[Note(c)]
      BY <2>1, WorkingMessage DEF Onward, BaseInv, CallOK, Announcing
    <3> QED
      BY <1>1, <2>1, <3>1 DEF TableTypes, Grows
  <2> QED
    BY <2>1, <2>2, OnwardCache DEF Announcing
<1>5. CASE Notify(c)
  <2>1. PICK p \in Mentions : p = <<Note(c), Turn(c)>>
    BY <1>5, NotifyCall, WhoseTurn
  <2>2. /\ Onward(c) /\ call[c].at = "notify" /\ call'[c].at = "inbox"
        /\ notified' = [notified EXCEPT ![p] = @ + 1]
        /\ UNCHANGED <<lastId, cached, raced>>
    BY <1>5, <2>1, NotifyCall DEF history
  <2>3. \A q \in Mentions : notified'[q] > 0 => notified[q] > 0 \/ Note(c) = q[1]
    BY <1>1, <2>1, <2>2 DEF TableTypes
  <2> QED
    BY <1>1, <2>2, <2>3, OnwardCache DEF Announcing, TableTypes, Grows
<1>6. CASE FindDeleted(c)
  <2>1. /\ Onward(c) /\ call[c].at = "findDeleted" /\ call'[c].at \in {"delete", "caches"}
        /\ UNCHANGED <<lastId, notified, cached, raced>>
    BY <1>6, FindDeletedCall DEF rows, history
  <2>2. Current(c) \notin Creates
    BY <2>1 DEF BaseInv, CallOK
  <2> QED
    BY <1>1, <2>1, <2>2, OnwardCache DEF Announcing, TableTypes, Grows
<1>7. CASE DeleteNote(c)
  <2>1. PICK n \in Notes : n = Note(c)
    BY <1>7, DeleteNoteCall
  <2>2. /\ Onward(c) /\ call[c].at = "delete" /\ call'[c].at = "caches"
        /\ UNCHANGED <<lastId, cached, raced>>
        /\ notified' = Cleared(notified, n) \/ notified' = notified
    BY <1>7, <2>1, DeleteNoteCall
  <2>3. \A p \in Mentions : notified'[p] > 0 => notified[p] > 0
    BY <1>1, <2>2 DEF TableTypes, Cleared
  <2>4. Current(c) \notin Creates
    BY <2>2 DEF BaseInv, CallOK
  <2> QED
    BY <1>1, <2>2, <2>3, <2>4, OnwardCache DEF Announcing, TableTypes, Grows
<1>8. CASE ReadNotifications(c)
  <2>1. /\ Onward(c) /\ call[c].at = "caches" /\ call'[c].at = "put"
        /\ call'[c].seen = GetNotifications(Inbox(c))
        /\ UNCHANGED <<lastId, notified, cached, raced>>
    BY <1>8, ReadNotificationsCall DEF rows, history
  <2>2. Note(c) \in Notes /\ Inbox(c) \in Accounts
    BY <2>1, WorkingMessage DEF Onward
  <2>3. ASSUME NEW n \in Notes, notified[<<n, Inbox(c)>>] > 0, <<n, Inbox(c)>> \notin overtaken
        PROVE  n \in GetNotifications(Inbox(c))
    <3>1. object[n] # 0
      BY <2>2, <2>3 DEF AnnounceInv, Gone
    <3>2. newer[<<n, Inbox(c)>>] < Limit
      BY <2>2, <2>3 DEF OrderInv, Mentions
    <3> QED
      BY <2>3, <3>1, <3>2 DEF GetNotifications, SelectNotificationsByActorId
  <2>4. Current(c) \in Creates => lastId[Note(c)] >= 1
    BY <2>1 DEF CacheInv, SeesRow
  <2> QED
    BY <1>1, <2>1, <2>3, <2>4, OnwardCache DEF Announcing, TableTypes, Grows
<1> QED
  BY <1>2, <1>3, <1>4, <1>5, <1>6, <1>7, <1>8 DEF Handle

LEMMA PutCache ==
    ASSUME BaseInv, CacheInv, NEW c \in Consumers, PutNotifications(c)
    PROVE  CacheInv'
<1> DEFINE n0 == Note(c)
           r0 == Inbox(c)
<1>1. /\ \A d \in Consumers \ {c} : Steady(d)
      /\ ~Working(c)' /\ call[c].at = "put" /\ handled' = handled \cup {Current(c)}
      /\ cached' = [cached EXCEPT ![r0] = call[c].seen]
      /\ UNCHANGED <<lastId, notified, raced, overtaken>>
  BY PutCall DEF PutNotifications, rows, order, history
<1>2. /\ Working(c) /\ n0 \in Notes /\ r0 \in Accounts /\ Current(c) \in Messages
      /\ cached \in [Accounts -> SUBSET Notes] /\ handled \subseteq Messages
      /\ lastId \in [Notes -> Nat]
  BY <1>1, WorkingMessage DEF Working, BaseInv, BaseTypeOK, QueueTypeOK
<1>3. ASSUME NEW d \in Consumers, Working(d)'
      PROVE  /\ d # c /\ Working(d) /\ call'[d] = call[d] /\ Current(d)' = Current(d)
             /\ Note(d)' = Note(d) /\ Inbox(d)' = Inbox(d)
  BY <1>1, <1>3 DEF Steady, Working
<1>4. MeetingsNoted'
  BY <1>1, <1>3, MeetingsStay
<1>5. ASSUME NEW d \in Consumers PROVE SeesRow(d)' /\ SeesMention(d)'
  <2>1. CASE ~Working(d)'
    BY <2>1 DEF SeesRow, SeesMention, Working
  <2>2. CASE Working(d)'
    BY <1>1, <1>3, <2>2 DEF CacheInv, SeesRow, SeesMention, Fresh
  <2> QED
    BY <2>1, <2>2
<1>6. ASSUME NEW n \in Notes, NEW r \in Accounts, Kept(n, r) PROVE Kept(n, r)'
  <2>1. n \in cached'[r]
    BY <1>1, <1>2, <1>6 DEF Kept
  <2>2. ASSUME NEW e \in Consumers, call'[e].at = "put", Inbox(e)' = r
        PROVE  n \in call'[e].seen
    BY <1>3, <1>6, <2>2 DEF Kept, Working
  <2> QED
    BY <2>1, <2>2 DEF Kept
<1>7. ASSUME NEW m \in handled \cap Creates PROVE HandledIsKept(m)'
  <2>1. PICK n \in Notes : n = NoteOf[m]
    BY <1>2, InboundNotesAssumption
  <2>2. PICK r \in Accounts : r = InboxOf[m]
    BY <1>2, InboundNotesAssumption DEF Accounts
  <2>3. HandledIsKept(m)
    BY DEF CacheInv
  <2>4. ASSUME n \notin raced, lastId[n] = 1, NEW d \in Consumers, call'[d].at \in Announcing
        PROVE  Note(d)' # n
    BY <1>3, <2>1, <2>3, <2>4 DEF HandledIsKept, Working, Announcing
  <2>5. Fresh(n, r) => Kept(n, r)'
    BY <1>6, <2>1, <2>2, <2>3 DEF HandledIsKept
  <2> QED
    BY <1>1, <2>1, <2>2, <2>3, <2>4, <2>5 DEF HandledIsKept, Fresh
<1>8. PICK m \in Messages : m = Current(c)
  BY <1>2
<1>9. ASSUME m \in Creates PROVE HandledIsKept(m)'
  <2>1. PICK n \in Notes : n = n0
    BY <1>2
  <2>2. PICK r \in Accounts : r = r0
    BY <1>2
  <2>3. n = NoteOf[m] /\ r = InboxOf[m]
    BY <1>8, <2>1, <2>2 DEF Note, Inbox
  <2>4. lastId[n] >= 1
    BY <1>1, <1>8, <1>9, <2>1 DEF CacheInv, SeesRow
  <2>5. ASSUME n \notin raced, NEW d \in Consumers, call'[d].at \in Announcing
        PROVE  Note(d)' # n
    BY <1>2, <1>3, <2>1, <2>5 DEF CacheInv, MeetingsNoted, Working, Announcing
  <2>6. ASSUME Fresh(n, r) PROVE Kept(n, r)'
    <3>1. n \in call[c].seen /\ n \notin raced
      BY <1>1, <1>8, <1>9, <2>1, <2>2, <2>6 DEF CacheInv, SeesMention, Fresh
    <3>2. n \in cached'[r]
      BY <1>1, <1>2, <2>2, <3>1
    <3>3. ASSUME NEW e \in Consumers, call'[e].at = "put", Inbox(e)' = r
          PROVE  FALSE
      BY <1>2, <1>3, <2>1, <2>2, <3>1, <3>3 DEF CacheInv, MeetingsNoted, Working
    <3> QED
      BY <3>2, <3>3 DEF Kept
  <2> QED
    BY <1>1, <2>3, <2>4, <2>5, <2>6 DEF HandledIsKept, Fresh
<1> QED
  BY <1>1, <1>4, <1>5, <1>7, <1>8, <1>9 DEF CacheInv

LEMMA StartCache ==
    ASSUME BaseInv, CacheInv, overtaken \subseteq overtaken', NEW c \in Consumers, StartHandler(c)
    PROVE  CacheInv'
<1>1. /\ \A d \in Consumers \ {c} : Steady(d)
      /\ Current(c)' = Current(c) /\ Note(c)' = Note(c) /\ Inbox(c)' = Inbox(c)
      /\ Current(c) \in Messages /\ Note(c) \in Notes /\ Inbox(c) \in Accounts
      /\ call'[c].at \in {"find", "findDeleted"}
      /\ raced' = IF Rivals(c) = {} THEN raced
                  ELSE raced \cup {Note(d) : d \in Rivals(c) \cup {c}}
      /\ UNCHANGED <<lastId, notified, cached, handled>>
  BY StartCall DEF rows
<1>2. ASSUME NEW d \in Consumers \ {c}, Working(d)'
      PROVE  Working(d) /\ Note(d)' = Note(d) /\ Inbox(d)' = Inbox(d)
  BY <1>1, <1>2 DEF Steady, Working
<1>3. raced \subseteq raced'
  BY <1>1
<1>4. ASSUME NEW d \in Consumers \ {c}, Working(d)',
             Note(d)' = Note(c)' \/ Inbox(d)' = Inbox(c)'
      PROVE  Note(c)' \in raced' /\ Note(d)' \in raced'
  <2>1. d \in Rivals(c)
    BY <1>1, <1>2, <1>4 DEF Rivals, At, Working
  <2> QED
    BY <1>1, <1>2, <1>4, <2>1
<1>5. MeetingsNoted'
  <2> SUFFICES ASSUME NEW d \in Consumers, NEW e \in Consumers, d # e, Working(d)', Working(e)',
                      Note(d)' = Note(e)' \/ Inbox(d)' = Inbox(e)'
               PROVE  Note(d)' \in raced'
    BY DEF MeetingsNoted
  <2>1. CASE d # c /\ e # c
    BY <1>2, <1>3, <2>1 DEF CacheInv, MeetingsNoted
  <2>2. CASE d = c \/ e = c
    BY <1>4, <2>2
  <2> QED
    BY <2>1, <2>2
<1>6. Carries(c)
  BY <1>1 DEF Carries, Announcing
<1> QED
  BY <1>1, <1>3, <1>5, <1>6, CacheStep, BaseTables DEF TableTypes, Grows

\* Steps of the queue at which no handler starts, and none writes.
LEMMA QueueCache ==
    ASSUME BaseInv, CacheInv, overtaken \subseteq overtaken',
           UNCHANGED <<lastId, notified, cached, raced, handled>>,
           \A d \in Consumers : Steady(d) \/ ~Working(d)'
    PROVE  CacheInv'
<1>1. MeetingsNoted'
  BY MeetingsStay DEF Steady, Working
<1> QED
  BY <1>1, CacheStep, BaseTables DEF TableTypes, Grows

LEMMA CacheNext ==
    ASSUME BaseInv, OrderInv, AnnounceInv, CacheInv, [Next]_vars
    PROVE  CacheInv'
<1>0. overtaken \subseteq overtaken'
  BY OrderNext
<1>1. CASE UNCHANGED core
  <2>1. call' = call /\ batch' = batch /\ UNCHANGED <<lastId, notified, cached, raced, handled>>
    BY <1>1 DEF core, queueVars, rows, history
  <2> QED
    BY <1>0, <2>1, SameIsSteady, QueueCache
<1>2. ASSUME NEW m \in Messages, SendActivity(m) PROVE CacheInv'
  BY <1>0, <1>2, SendCall, QueueCache DEF rows
<1>3. ASSUME NEW c \in Consumers, NEW messages \in Orders, DeliverBatch(c, messages)
      PROVE  CacheInv'
  BY <1>0, <1>3, DeliverCall, QueueCache DEF rows, history
<1>4. ASSUME NEW c \in Consumers, ReturnFromLoop(c) PROVE CacheInv'
  BY <1>0, <1>4, ReturnCall, QueueCache DEF rows, history
<1>5. ASSUME NEW c \in Consumers, ThrowFromLoop(c) PROVE CacheInv'
  BY <1>0, <1>5, ThrowCall, QueueCache DEF rows
<1>6. ASSUME NEW c \in Consumers, Handle(c) PROVE CacheInv'
  BY <1>0, <1>6, HandleCache, PutCache
<1> QED
  BY <1>0, <1>1, <1>2, <1>3, <1>4, <1>5, <1>6, StartCache, DisorderCore DEF Next, Disorder

LEMMA CacheInit == Init => CacheInv
BY DEF Init, QueueInit, NoCall, CacheInv, MeetingsNoted, SeesRow, SeesMention, Working

LEMMA CacheHolds == Spec => [](BaseInv /\ AnnounceInv /\ CacheInv)
<1>1. BaseInv /\ OrderInv /\ AnnounceInv /\ CacheInv /\ [Next]_vars => CacheInv'
  BY CacheNext
<1> QED
  BY <1>1, OrderHolds, AnnounceHolds, CacheInit, PTL DEF Spec

\* Everybody who is mentioned finds the mention among the notifications that are kept for him,
\* once the message to his own inbox is handled, whichever handler announced the note, unless
\* two invocations met on the note or for its inboxes, the note was deleted and came back, or
\* Limit newer notifications came after the mention.
THEOREM InboundNotesMentionIsCached == Spec => []MentionIsCached
<1>1. CacheInv => MentionIsCached
  BY DEF CacheInv, HandledIsKept, Fresh, Kept, MentionIsCached, NotificationsOf
<1> QED
  BY <1>1, CacheHolds, PTL
=============================================================================
