---------------------------- MODULE InboundNotes ----------------------------
(***************************************************************************)
(* The Create and Delete activities of remote notes, on their way through   *)
(* the queue and the consumer.                                              *)
(*                                                                          *)
(* A peer posts an activity to the inbox of every local account that it     *)
(* addresses, so that one Create is several messages, which batches, their  *)
(* retries and invocations that run side by side handle in any order.  A    *)
(* handler is cut at every database call it awaits, a db.batch is one step, *)
(* and the foreign keys of the tables make an insert throw whose note is    *)
(* gone.                                                                    *)
(*                                                                          *)
(* The notes are no replies, their authors are cached actors, and every     *)
(* account is registered; push messages and the home timelines, which are   *)
(* regenerated along with the notifications, are left out (Timelines).      *)
(* A message that is no Create, and no Delete by the author of a note,      *)
(* changes none of the tables here and stands for any other activity, after *)
(* which the notifications are regenerated all the same; the notifications  *)
(* that likes, boosts and follows add are rows of NotifyOther.              *)
(***************************************************************************)
EXTENDS Consumer, FiniteSets

CONSTANTS
    Notes,
    Creates,        \* the messages that carry a Create, the others carry a Delete
    NoteOf,         \* the note that a message is about
    Recipients,     \* the local accounts in to or cc of a note
    ByAuthor,       \* Deletes whose actor is the author of the note
    InboxOf,        \* the local account whose inbox a message was posted to
    Limit,          \* how many notifications are shown, 20 in the code
    Busy,           \* bound: the accounts that get notifications of other kinds
    MaxNewer        \* bound: how many of these come after a mention

ASSUME InboundNotesAssumption ==
    /\ Creates \subseteq Messages
    /\ NoteOf \in [Messages -> Notes]
    /\ DOMAIN Recipients = Notes
    /\ ByAuthor \subseteq Messages \ Creates
    /\ InboxOf \in [Messages -> UNION {Recipients[n] : n \in Notes}]
    /\ Unregistered = {}
    /\ Limit \in Nat \ {0}
    /\ MaxNewer \in Nat

VARIABLES
    object,     \* the id of the row of a note in objects, 0 without a row
    lastId,     \* the last id given to a row of the note
    shown,      \* how many rows of outbox_objects refer to the note
    notified,   \* how many rows of actor_notifications do, per recipient
    inboxed,    \* how many rows of inbox_objects do, per recipient
    newer,      \* how many rows of actor_notifications of the recipient came after a mention
    mismatched, \* Creates that were sent to others than their note is addressed to
    cached,     \* notes whose mentions the pregenerated notifications of a recipient show
    call,       \* the handler of each invocation
    \* History: nothing below is read.
    partial,    \* notes whose row is of a handler that did not go to the end
    settled,    \* Deletes that were sent when every Create was off the queue
    raced,      \* notes that two invocations have worked on, or beside, at a time
    overtaken   \* mentions that Limit newer notifications of the recipient have come after

rows    == <<object, lastId, shown, notified, inboxed>>
order   == <<newer, overtaken>>
history == <<partial, settled, raced>>
vars    == <<queueVars, rows, order, cached, mismatched, call, history>>

Accounts == UNION {Recipients[n] : n \in Notes}
Mentions == Notes \X Accounts

NoCall == [at |-> "none", id |-> 0, left |-> {}, seen |-> {}]
Stages == {"none", "find", "insert", "outbox", "notify", "inbox",
           "findDeleted", "delete", "caches", "put"}

TypeOK ==
    /\ QueueTypeOK
    /\ object \in [Notes -> Nat] /\ lastId \in [Notes -> Nat]
    /\ \A n \in Notes : object[n] \in {0, lastId[n]}
    /\ shown \in [Notes -> Nat]
    /\ notified \in [Mentions -> Nat] /\ inboxed \in [Mentions -> Nat]
    /\ \A c \in Consumers : call[c].at \in Stages /\ (call[c].at # "none" <=> batch[c].running)
    /\ \A c \in Consumers : call[c].seen \subseteq Notes
    /\ cached \in [Accounts -> SUBSET Notes]
    /\ mismatched \subseteq Creates
    /\ partial \subseteq Notes /\ settled \subseteq Messages \ Creates /\ raced \subseteq Notes
    /\ newer \in [Mentions -> Nat] /\ overtaken \subseteq Mentions

Init ==
    /\ QueueInit
    /\ object = [n \in Notes |-> 0] /\ lastId = [n \in Notes |-> 0]
    /\ shown = [n \in Notes |-> 0]
    /\ notified = [p \in Mentions |-> 0] /\ inboxed = [p \in Mentions |-> 0]
    /\ call = [c \in Consumers |-> NoCall]
    /\ cached = [r \in Accounts |-> {}]
    /\ mismatched = {}
    /\ newer = [p \in Mentions |-> 0]
    /\ partial = {} /\ settled = {} /\ raced = {} /\ overtaken = {}

Note(c) == NoteOf[Current(c)]
Inbox(c) == InboxOf[Current(c)]
At(c, stage) == call[c].at = stage
Goto(c, stage) == call' = [call EXCEPT ![c].at = stage]

\* The row that the handler found or inserted is still there: a foreign key holds.
RowIsThere(c) == object[Note(c)] = call[c].id

-----------------------------------------------------------------------------
(* Queue. *)

CreatesOf(n) == {m \in Creates : NoteOf[m] = n}

SendActivity(m) ==
    /\ Send(m)
    /\ settled' =
         IF /\ m \notin Creates
            /\ \A k \in CreatesOf(NoteOf[m]) : place[k] \in {"acked", "dropped"}
         THEN settled \cup {m} ELSE settled
    /\ \/ UNCHANGED mismatched
       \/ m \in Creates /\ mismatched' = mismatched \cup {m}
    /\ UNCHANGED <<rows, order, cached, call, partial, raced>>

DeliverBatch(c, messages) ==
    /\ Deliver(c, messages)
    /\ UNCHANGED <<rows, order, cached, call, mismatched, history>>

\* The other invocations that work on the note of c, or for its inbox.
Rivals(c) ==
    {d \in Consumers \ {c} : ~At(d, "none") /\ (Note(d) = Note(c) \/ Inbox(d) = Inbox(c))}

StartHandler(c) ==
    /\ Start(c)
    /\ Goto(c, IF Current(c) \in Creates THEN "find" ELSE "findDeleted")
    /\ raced' = IF Rivals(c) = {} THEN raced
                ELSE raced \cup {Note(d) : d \in Rivals(c) \cup {c}}
    /\ UNCHANGED <<rows, order, cached, mismatched, partial, settled>>

ReturnFromLoop(c) ==
    /\ Return(c)
    /\ UNCHANGED <<rows, order, cached, call, mismatched, history>>

\* The Limit newest of the notifications of an account, the mentions among them.
SelectNotificationsByActorId(r) ==
    {n \in Notes : notified[<<n, r>>] > 0 /\ newer[<<n, r>>] < Limit}

\* A mention whose note is gone is skipped.
GetNotifications(r) == {n \in SelectNotificationsByActorId(r) : object[n] # 0}

\* GET /api/v1/notifications
NotificationsOf(r) == cached[r]

\* After the activity the consumer pregenerates the notifications of the account whose
\* inbox it is, for activities that changed nothing too: a query, and a write to the cache.
\* When one of them throws, all that the activity does has been done already.
ReadNotifications(c) ==
    /\ At(c, "caches")
    /\ call' = [call EXCEPT ![c].at = "put",
                            ![c].seen = GetNotifications(Inbox(c))]
    /\ UNCHANGED <<queueVars, rows, order, cached, mismatched, history>>

PutNotifications(c) ==
    /\ At(c, "put")
    /\ End(c)
    /\ cached' = [cached EXCEPT ![Inbox(c)] = call[c].seen]
    /\ call' = [call EXCEPT ![c] = NoCall]
    /\ UNCHANGED <<rows, order, mismatched, history>>

\* The handler leaves its note half done when it throws after having inserted it.
HalfDone(c) == call[c].at \in {"outbox", "notify", "inbox"} /\ RowIsThere(c)

ThrowFromLoop(c) ==
    /\ Throw(c)
    /\ partial' = IF HalfDone(c) THEN partial \cup {Note(c)} ELSE partial
    /\ call' = [call EXCEPT ![c] = NoCall]
    /\ UNCHANGED <<rows, order, cached, mismatched, settled, raced>>

-----------------------------------------------------------------------------
(* Create. *)

\* Mutant of FindNote: a note that is there already is announced again.
FindNoteUnchecked(c) ==
    /\ At(c, "find")
    /\ call' = [call EXCEPT ![c] =
         IF object[Note(c)] # 0
         THEN [NoCall EXCEPT !.at = "outbox", !.id = object[Note(c)], !.left = Recipients[Note(c)]]
         ELSE [call[c] EXCEPT !.at = "insert"]]
    /\ UNCHANGED <<queueVars, rows, order, cached, mismatched, history>>

\* Mutant of FindNote: a duplicated message is done with at once.
FindNoteOnly(c) ==
    /\ At(c, "find")
    /\ IF object[Note(c)] # 0
       THEN End(c) /\ call' = [call EXCEPT ![c] = NoCall]
       ELSE Goto(c, "insert") /\ UNCHANGED queueVars
    /\ UNCHANGED <<rows, order, cached, mismatched, history>>

\* getAndCacheObject looks for the original id.  When it is there the handler
\* returns: "Probably a duplicated message".
FindNote(c) ==
    /\ At(c, "find")
    /\ Goto(c, IF object[Note(c)] # 0 THEN "caches" ELSE "insert")
    /\ UNCHANGED <<queueVars, rows, order, cached, mismatched, history>>

\* isRecipientMatch: with other recipients than its object's, a Create is only cached.
RecipientsMatch(c) == Current(c) \notin mismatched

\* The original id is UNIQUE: when another handler was faster this one throws.
InsertNote(c) ==
    LET n == Note(c)
        id == lastId[n] + 1
    IN
    /\ At(c, "insert")
    /\ object[n] = 0
    /\ object' = [object EXCEPT ![n] = id]
    /\ lastId' = [lastId EXCEPT ![n] = id]
    /\ IF RecipientsMatch(c)
       THEN /\ call' = [call EXCEPT ![c] =
                          [NoCall EXCEPT !.at = "outbox", !.id = id, !.left = Recipients[n]]]
            /\ UNCHANGED partial
       ELSE Goto(c, "caches") /\ partial' = partial \cup {n}
    /\ UNCHANGED <<queueVars, order, shown, notified, inboxed, cached, mismatched, settled, raced>>

\* After the outbox, and after each recipient, the handler turns to the next one.
Proceed(c, left) ==
    call' = [call EXCEPT ![c].at = IF left = {} THEN "caches" ELSE "notify",
                         ![c].left = left]

AddInOutbox(c) ==
    /\ At(c, "outbox") /\ RowIsThere(c)
    /\ shown' = [shown EXCEPT ![Note(c)] = @ + 1]
    /\ Proceed(c, call[c].left)
    /\ UNCHANGED <<queueVars, order, object, lastId, notified, inboxed, cached, mismatched,
                   history>>

\* The recipient whose turn it is.  Their order is the activity's, any will do.
Turn(c) == CHOOSE r \in call[c].left : TRUE

\* A row of r that is newer than all that he has.
AddRow(r) == [p \in Mentions |-> IF p[2] = r /\ notified[p] > 0 THEN newer[p] + 1 ELSE newer[p]]

Overtake == overtaken' = overtaken \cup {p \in Mentions : newer'[p] >= Limit}

Notify(c) ==
    LET p == <<Note(c), Turn(c)>> IN
    /\ At(c, "notify") /\ RowIsThere(c)
    /\ notified' = [notified EXCEPT ![p] = @ + 1]
    /\ newer' = [AddRow(Turn(c)) EXCEPT ![p] = 0]
    /\ Overtake
    /\ Goto(c, "inbox")
    /\ UNCHANGED <<queueVars, object, lastId, shown, inboxed, cached, mismatched, history>>

\* Mutant of AddInInbox: the handler returns after the first recipient.
AddInInboxReturns(c) ==
    /\ At(c, "inbox") /\ RowIsThere(c)
    /\ inboxed' = [inboxed EXCEPT ![<<Note(c), Turn(c)>>] = @ + 1]
    /\ Proceed(c, {})
    /\ UNCHANGED <<queueVars, order, object, lastId, shown, notified, cached, mismatched, history>>

AddInInbox(c) ==
    /\ At(c, "inbox") /\ RowIsThere(c)
    /\ inboxed' = [inboxed EXCEPT ![<<Note(c), Turn(c)>>] = @ + 1]
    /\ Proceed(c, call[c].left \ {Turn(c)})
    /\ UNCHANGED <<queueVars, order, object, lastId, shown, notified, cached, mismatched, history>>

\* Somebody likes or boosts a status of r, or follows him.
NotifyOther(r) ==
    /\ \A p \in Mentions : p[2] = r => newer[p] < MaxNewer
    /\ newer' = AddRow(r)
    /\ Overtake
    /\ UNCHANGED <<queueVars, rows, cached, mismatched, call, history>>

\* The status that a like or a boost was of is deleted, and with it the notification after
\* which k more came: a row that is newer than a mention and no mention itself.
DeleteOther(r, k) ==
    /\ \E p \in Mentions : p[2] = r /\ newer[p] > k
    /\ \A p \in Mentions : p[2] = r /\ notified[p] > 0 => newer[p] # k
    /\ newer' = [p \in Mentions |-> IF p[2] = r /\ newer[p] > k THEN newer[p] - 1 ELSE newer[p]]
    /\ UNCHANGED <<queueVars, rows, overtaken, cached, mismatched, call, history>>

-----------------------------------------------------------------------------
(* Delete. *)

FindDeleted(c) ==
    LET n == Note(c) IN
    /\ At(c, "findDeleted")
    /\ call' = [call EXCEPT ![c] =
         IF object[n] # 0 /\ Current(c) \in ByAuthor
         THEN [NoCall EXCEPT !.at = "delete", !.id = object[n]]
         ELSE [@ EXCEPT !.at = "caches"]]
    /\ UNCHANGED <<queueVars, rows, order, cached, mismatched, history>>

Cleared(counts, n) == [p \in Mentions |-> IF p[1] = n THEN 0 ELSE counts[p]]

\* The mention of n that somebody has goes, and is no longer among the newer rows of others.
WithoutMentions(n) ==
    [p \in Mentions |->
        IF p[1] = n THEN 0
        ELSE IF notified[<<n, p[2]>>] > 0 /\ newer[<<n, p[2]>>] < newer[p] THEN newer[p] - 1
        ELSE newer[p]]

\* Mutant of DeleteNote: only the row of the outbox is deleted.
DeleteOutboxRowOnly(c) ==
    LET n == Note(c) IN
    /\ At(c, "delete")
    /\ shown' = IF RowIsThere(c) THEN [shown EXCEPT ![n] = 0] ELSE shown
    /\ Goto(c, "caches")
    /\ UNCHANGED <<queueVars, order, object, lastId, notified, inboxed, cached, mismatched,
                   history>>

\* The batch of deleteObject deletes the row it found and all that refer to it.
DeleteNote(c) ==
    LET n == Note(c) IN
    /\ At(c, "delete")
    /\ IF RowIsThere(c)
       THEN /\ object' = [object EXCEPT ![n] = 0]
            /\ shown' = [shown EXCEPT ![n] = 0]
            /\ notified' = Cleared(notified, n)
            /\ inboxed' = Cleared(inboxed, n)
            /\ newer' = WithoutMentions(n)
            /\ partial' = partial \ {n}
       ELSE UNCHANGED <<object, shown, notified, inboxed, newer, partial>>
    /\ Goto(c, "caches")
    /\ UNCHANGED <<queueVars, lastId, cached, mismatched, settled, raced, overtaken>>

-----------------------------------------------------------------------------

Handle(c) ==
    \/ FindNote(c) \/ InsertNote(c) \/ AddInOutbox(c) \/ Notify(c) \/ AddInInbox(c)
    \/ FindDeleted(c) \/ DeleteNote(c)
    \/ ReadNotifications(c) \/ PutNotifications(c)

Next ==
    \/ \E m \in Messages : SendActivity(m)
    \/ \E c \in Consumers, messages \in Orders : DeliverBatch(c, messages)
    \/ \E c \in Consumers :
          StartHandler(c) \/ Handle(c) \/ ReturnFromLoop(c) \/ ThrowFromLoop(c)
    \/ \E r \in Busy : NotifyOther(r) \/ \E k \in 0..MaxNewer : DeleteOther(r, k)

Spec == Init /\ [][Next]_vars

-----------------------------------------------------------------------------
(* Properties. *)

\* However many inboxes a Create was posted to, and however often its messages are
\* retried or handled side by side, a note is in the outbox of its author once and
\* every recipient has one mention and one inbox row of it.  This holds of the rows
\* of a note that was deleted and came back, too.
AnnouncedOnce ==
    /\ \A n \in Notes : shown[n] <= 1
    /\ \A p \in Mentions : notified[p] <= 1 /\ inboxed[p] <= 1

\* A handler works on the row that a note has now.
InProgress(n) ==
    \E c \in Consumers : batch[c].running /\ Note(c) = n /\ HalfDone(c)

\* A note that has a row and that no handler is announcing has been announced to
\* everyone, unless its handler threw on the way or found other recipients in the
\* activity: no interleaving of Creates and Deletes loses a mention silently.
AnnouncedToAll ==
    \A n \in Notes :
        object[n] # 0 /\ ~InProgress(n) /\ n \notin partial =>
            /\ shown[n] = 1
            /\ \A r \in Recipients[n] : notified[<<n, r>>] = 1 /\ inboxed[<<n, r>>] = 1

\* A Delete that is sent when the queue is through with every Create of its note
\* leaves no row of it, and none comes back.  (A Create that is still on its way to
\* another inbox brings the note back: the handlers keep no trace of the Delete.)
SettledDeleteIsFinal ==
    \A d \in settled \cap ByAuthor :
        d \in handled =>
            /\ object[NoteOf[d]] = 0 /\ shown[NoteOf[d]] = 0
            /\ \A r \in Recipients[NoteOf[d]] : notified[<<NoteOf[d], r>>] = 0

\* Everybody who is mentioned finds the mention among the notifications that are kept for
\* him, once the message to his own inbox is handled, whichever message it was whose handler
\* announced the note.  There are three exceptions: two invocations worked on the note, or for
\* the inboxes it came to, at a time, so that a mention was added after the notifications were
\* read, or older notifications were put over them; the note was deleted and another
\* message brought it back; and Limit newer notifications came after the mention.  (One that
\* later deletions bring back among the newest is shown with the next message only.)
MentionIsCached ==
    \A m \in handled \cap Creates :
        LET n == NoteOf[m]
            r == InboxOf[m]
        IN  n \notin raced /\ lastId[n] = 1 /\ notified[<<n, r>>] > 0 /\ <<n, r>> \notin overtaken
            => n \in NotificationsOf(r)
=============================================================================
