--------------------------- MODULE ConsumerProofs ---------------------------
(***************************************************************************)
(* The queue and its consumer implement the safety part of AtLeastOnce, and *)
(* lose a message for one of two reasons only, for any number of messages   *)
(* and invocations and any bounds of the deployment.                        *)
(***************************************************************************)
EXTENDS Consumer, TLAPS

(* The inductive invariant: what an invocation still has to handle is part of its *)
(* batch, a message of a batch is marked as taken and in no other batch, and       *)
(* nothing is handled before it was sent.                                          *)
BatchesOK ==
    /\ \A c \in Consumers : ToSet(batch[c].rest) \subseteq batch[c].taken
    /\ \A c \in Consumers : \A m \in batch[c].taken : place[m] = "taken"
    /\ \A c, d \in Consumers : c # d => batch[c].taken \cap batch[d].taken = {}
    /\ \A c \in Consumers : batch[c].running => batch[c].rest # <<>>

SentFirst == \A m \in handled : place[m] # "unsent"

QueueInv == QueueTypeOK /\ BatchesOK /\ SentFirst

\* The head of a nonempty sequence is one of its elements, so are those of its tail.
LEMMA HeadAndTail ==
    ASSUME NEW s \in Seq(Messages), s # <<>>
    PROVE  /\ Head(s) \in ToSet(s) /\ Head(s) \in Messages
           /\ Tail(s) \in Seq(Messages) /\ ToSet(Tail(s)) \subseteq ToSet(s)
BY DEF ToSet

\* The elements of a sequence of messages are messages.
LEMMA SetOfMessages ==
    ASSUME NEW s \in Seq(Messages)
    PROVE  ToSet(s) \subseteq Messages
BY DEF ToSet

\* The orders in which a batch is handed out are sequences of messages.
LEMMA OrdersAreSequences == Orders \subseteq Seq(Messages)
BY ConsumerAssumption DEF Orders, SeqOf

\* Every step of the queue keeps the invariant.
LEMMA QueueStep == QueueInv /\ [QueueNext]_queueVars => QueueInv'
<1> SUFFICES ASSUME QueueInv, [QueueNext]_queueVars PROVE QueueInv'
    OBVIOUS
<1> USE DEF QueueInv
<1>1. CASE UNCHANGED queueVars
    BY <1>1 DEF queueVars, QueueTypeOK, BatchesOK, SentFirst
<1>2. ASSUME NEW m \in Messages, Send(m) PROVE QueueInv'
    BY <1>2 DEF Send, Move, QueueTypeOK, BatchesOK, SentFirst, Batch
<1>3. CASE UndoRegistration
    BY <1>3 DEF UndoRegistration, QueueTypeOK, BatchesOK, SentFirst
<1>4. ASSUME NEW c \in Consumers, NEW messages \in Orders, Deliver(c, messages)
      PROVE  QueueInv'
    <2>1. messages \in Seq(Messages) /\ ToSet(messages) \subseteq Messages
        BY OrdersAreSequences, SetOfMessages
    <2>2. QueueTypeOK'
        BY <1>4, <2>1 DEF Deliver, Move, QueueTypeOK, Batch
    <2>3. BatchesOK'
        BY <1>4, <2>1 DEF Deliver, Move, QueueTypeOK, BatchesOK, InvocationOf, Batch
    <2> QED
        BY <1>4, <2>1, <2>2, <2>3 DEF Deliver, Move, SentFirst, QueueTypeOK
<1>5. ASSUME NEW c \in Consumers, Start(c) PROVE QueueInv'
    BY <1>5 DEF Start, QueueTypeOK, BatchesOK, SentFirst, Batch
<1>6. ASSUME NEW c \in Consumers, ActorMissing(c) \/ Return(c) PROVE QueueInv'
    <2>1. NoBatch \in Batch /\ ToSet(NoBatch.rest) = {}
        BY DEF NoBatch, Batch, ToSet
    <2>2. QueueTypeOK'
        BY <1>6, <2>1 DEF ActorMissing, Return, Acknowledge, Move, QueueTypeOK
    <2>3. /\ batch'[c].taken = {} /\ ToSet(batch'[c].rest) = {} /\ ~batch'[c].running
          /\ \A d \in Consumers \ {c} : batch'[d] = batch[d]
        BY <1>6, <2>1 DEF ActorMissing, Return, Acknowledge, QueueTypeOK, NoBatch
    <2>4. \A d \in Consumers \ {c} : \A m \in batch[d].taken : place'[m] = "taken"
        BY <1>6 DEF ActorMissing, Return, Acknowledge, Move, QueueTypeOK, BatchesOK, Batch
    <2>5. BatchesOK'
        BY <2>3, <2>4 DEF BatchesOK
    <2> QED
        BY <1>6, <2>2, <2>5 DEF ActorMissing, Return, Acknowledge, Move, SentFirst, QueueTypeOK
<1>7. ASSUME NEW c \in Consumers, End(c) PROVE QueueInv'
    <2>1. batch[c].rest \in Seq(Messages) /\ batch[c].rest # <<>>
        BY <1>7 DEF End, QueueTypeOK, BatchesOK, Batch
    <2>2. /\ Current(c) \in batch[c].taken /\ Current(c) \in Messages
          /\ Tail(batch[c].rest) \in Seq(Messages)
          /\ ToSet(Tail(batch[c].rest)) \subseteq batch[c].taken
        BY <2>1, HeadAndTail DEF Current, BatchesOK
    <2>3. QueueTypeOK'
        BY <1>7, <2>2 DEF End, QueueTypeOK, Batch
    <2>4. BatchesOK'
        BY <1>7, <2>2 DEF End, QueueTypeOK, BatchesOK, Batch
    <2> QED
        BY <1>7, <2>2, <2>3, <2>4 DEF End, SentFirst, BatchesOK
<1>8. ASSUME NEW c \in Consumers, Throw(c) PROVE QueueInv'
    <2>1. NoBatch \in Batch /\ ToSet(NoBatch.rest) = {}
        BY DEF NoBatch, Batch, ToSet
    <2>2. QueueTypeOK'
        BY <1>8, <2>1, ConsumerAssumption DEF Throw, QueueTypeOK
    <2>3. BatchesOK'
        BY <1>8, <2>1 DEF Throw, QueueTypeOK, BatchesOK, NoBatch, Batch
    <2> QED
        BY <1>8, <2>2, <2>3 DEF Throw, SentFirst, QueueTypeOK
<1> QED
    BY <1>1, <1>2, <1>3, <1>4, <1>5, <1>6, <1>7, <1>8 DEF QueueNext

\* The invariant holds of every behaviour of the queue and its consumer.
THEOREM QueueInvariant == QueueSpec => []QueueInv
<1>1. QueueInit => QueueInv
    BY ConsumerAssumption DEF QueueInit, QueueInv, QueueTypeOK, BatchesOK, SentFirst, NoBatch,
        Batch, ToSet
<1> QED
    BY <1>1, QueueStep, PTL DEF QueueSpec

\* The variables of the queue have their types.
THEOREM QueueTypes == QueueSpec => []QueueTypeOK
<1>1. QueueInv => QueueTypeOK
    BY DEF QueueInv
<1> QED
    BY <1>1, QueueInvariant, PTL

-----------------------------------------------------------------------------
(* The reasons to lose a message. *)

\* The loop has handled what is no longer in the rest of its batch.
HandledFirst == \A c \in Consumers : batch[c].taken \subseteq ToSet(batch[c].rest) \cup handled

\* A sequence consists of its head and its tail.
LEMMA HeadOrTail ==
    ASSUME NEW s \in Seq(Messages), s # <<>>, NEW m \in ToSet(s), m # Head(s)
    PROVE  m \in ToSet(Tail(s))
<1>1. PICK i \in 1..Len(s) : m = s[i]
    BY DEF ToSet
<1>2. i # 1 /\ Len(Tail(s)) = Len(s) - 1 /\ Tail(s)[i - 1] = s[i]
    BY <1>1
<1> QED
    BY <1>1, <1>2 DEF ToSet

LEMMA HandledFirstStep ==
    ASSUME QueueInv, HandledFirst, [QueueNext]_queueVars
    PROVE  HandledFirst'
<1>1. CASE UNCHANGED queueVars
    BY <1>1 DEF queueVars, HandledFirst
<1>2. ASSUME NEW m \in Messages, Send(m) PROVE HandledFirst'
    BY <1>2 DEF Send, HandledFirst
<1>3. CASE UndoRegistration
    BY <1>3 DEF UndoRegistration, HandledFirst
<1>4. ASSUME NEW c \in Consumers, NEW messages \in Orders, Deliver(c, messages)
      PROVE  HandledFirst'
    BY <1>4 DEF Deliver, HandledFirst, QueueInv, QueueTypeOK
<1>5. ASSUME NEW c \in Consumers, Start(c) PROVE HandledFirst'
    BY <1>5 DEF Start, HandledFirst, QueueInv, QueueTypeOK
<1>6. ASSUME NEW c \in Consumers, ActorMissing(c) \/ Return(c) \/ Throw(c) PROVE HandledFirst'
    <2>1. batch' = [batch EXCEPT ![c] = NoBatch] /\ UNCHANGED handled
        BY <1>6 DEF ActorMissing, Return, Throw, Acknowledge
    <2>2. NoBatch.taken = {}
        BY DEF NoBatch
    <2> QED
        BY <2>1, <2>2 DEF HandledFirst, QueueInv, QueueTypeOK
<1>7. ASSUME NEW c \in Consumers, End(c) PROVE HandledFirst'
    <2>1. batch[c].rest \in Seq(Messages) /\ batch[c].rest # <<>>
        BY <1>7 DEF End, QueueInv, QueueTypeOK, BatchesOK, Batch
    <2>2. ToSet(batch[c].rest) \subseteq ToSet(Tail(batch[c].rest)) \cup {Current(c)}
        BY <2>1, HeadOrTail DEF Current
    <2>3. /\ batch'[c].taken = batch[c].taken /\ batch'[c].rest = Tail(batch[c].rest)
          /\ handled' = handled \cup {Current(c)}
          /\ \A d \in Consumers \ {c} : batch'[d] = batch[d]
        BY <1>7 DEF End, QueueInv, QueueTypeOK, Batch
    <2> QED
        BY <2>2, <2>3 DEF HandledFirst
<1> QED
    BY <1>1, <1>2, <1>3, <1>4, <1>5, <1>6, <1>7 DEF QueueNext

LEMMA LossStep ==
    ASSUME QueueInv, HandledFirst, [QueueNext]_queueVars, NEW m \in Messages, LossOf(m)
    PROVE  ReasonFor(m)
<1>1. place[m] = "taken" /\ place'[m] \in {"acked", "dropped"} /\ m \notin handled'
    BY DEF LossOf
<1>2. CASE UNCHANGED queueVars
    BY <1>1, <1>2 DEF queueVars
<1>3. ASSUME NEW k \in Messages, Send(k) PROVE FALSE
    BY <1>1, <1>3 DEF Send, Move
<1>4. CASE UndoRegistration
    BY <1>1, <1>4 DEF UndoRegistration
<1>5. ASSUME NEW c \in Consumers, NEW messages \in Orders, Deliver(c, messages) PROVE FALSE
    BY <1>1, <1>5 DEF Deliver, Move
<1>6. ASSUME NEW c \in Consumers, Start(c) \/ End(c) PROVE FALSE
    BY <1>1, <1>6 DEF Start, End
<1>7. ASSUME NEW c \in Consumers, ActorMissing(c) \/ Return(c) PROVE ReasonFor(m)
    <2>1. m \in batch[c].taken /\ UNCHANGED handled
        BY <1>1, <1>7 DEF ActorMissing, Return, Acknowledge, Move
    <2>2. m \in ToSet(batch[c].rest)
        BY <1>1, <2>1 DEF HandledFirst
    <2>3. CASE ActorMissing(c)
        BY <2>2, <2>3 DEF ActorMissing, ReasonFor
    <2>4. CASE Return(c)
        BY <2>2, <2>4 DEF Return, ToSet
    <2> QED
        BY <1>7, <2>3, <2>4
<1>8. ASSUME NEW c \in Consumers, Throw(c) PROVE ReasonFor(m)
    BY <1>1, <1>8 DEF Throw, ReasonFor
<1> QED
    BY <1>2, <1>3, <1>4, <1>5, <1>6, <1>7, <1>8 DEF QueueNext

\* A message leaves the queue unhandled only when its batches have failed MaxRetries + 1
\* times, or when the loop meets a message without actor before it is handled; whatever the
\* messages, the bounds of the deployment and the number of invocations.
THEOREM QueueLosesForAReason == QueueSpec => LostForAReason
<1>1. QueueInit => HandledFirst
    BY DEF QueueInit, HandledFirst, NoBatch
<1>2. QueueInv /\ HandledFirst /\ [QueueNext]_queueVars => HandledFirst'
    BY HandledFirstStep
<1>3. QueueInv /\ HandledFirst /\ [QueueNext]_queueVars
         => [\A m \in Messages : LossOf(m) => ReasonFor(m)]_queueVars
    BY LossStep
<1> QED
    BY <1>1, <1>2, <1>3, QueueInvariant, PTL DEF QueueSpec, LostForAReason

-----------------------------------------------------------------------------
(* The refinement.  A message that is acknowledged or dropped without having been *)
(* handled is lost, together with those of its batch that share its fate.         *)

statuses == [m \in Messages |-> StatusOf(m)]

\* What the steps that give a batch back or take it off do to the statuses: the
\* unhandled messages among those that leave the queue are lost.
LEMMA LeavingLoses ==
    ASSUME QueueInv, UNCHANGED handled, NEW leaving \in SUBSET Messages,
           \A m \in leaving : place[m] = "taken" /\ place'[m] \in {"acked", "dropped"},
           \A m \in Messages \ leaving :
              \/ place'[m] = place[m]
              \/ place[m] \in {"queued", "taken"} /\ place'[m] \in {"queued", "taken"}
    PROVE  [Promise!Next]_statuses
<1> DEFINE lost == leaving \ handled
<1>1. \A m \in lost : StatusOf(m) = "waiting" /\ StatusOf(m)' = "lost"
    BY DEF StatusOf
<1>2. \A m \in Messages \ lost : StatusOf(m)' = StatusOf(m)
    BY DEF StatusOf, QueueInv, QueueTypeOK
<1>3. statuses' = [m \in Messages |-> IF m \in lost THEN "lost" ELSE statuses[m]]
    BY <1>1, <1>2 DEF statuses
<1>4. CASE lost = {}
    BY <1>2, <1>4 DEF statuses
<1>5. CASE lost # {}
    <2>1. lost \in SUBSET Messages /\ \A m \in lost : statuses[m] = "waiting"
        BY <1>1 DEF statuses
    <2> QED
        BY <1>3, <1>5, <2>1 DEF Promise!Next, Promise!Lose, statuses
<1> QED
    BY <1>4, <1>5

\* Every step of the queue is a step of AtLeastOnce or changes no status.
LEMMA PromiseStep == QueueInv /\ [QueueNext]_queueVars => [Promise!Next]_statuses
<1> SUFFICES ASSUME QueueInv, [QueueNext]_queueVars PROVE [Promise!Next]_statuses
    OBVIOUS
<1>1. CASE UNCHANGED queueVars
    BY <1>1 DEF queueVars, statuses, StatusOf
<1>2. ASSUME NEW m \in Messages, Send(m) PROVE [Promise!Next]_statuses
    <2>1. m \notin handled
        BY <1>2 DEF Send, QueueInv, SentFirst
    <2>2. StatusOf(m) = "new" /\ StatusOf(m)' = "waiting"
        BY <1>2, <2>1 DEF Send, Move, StatusOf
    <2>3. \A k \in Messages \ {m} : StatusOf(k)' = StatusOf(k)
        BY <1>2 DEF Send, Move, StatusOf
    <2>4. statuses[m] = "new" /\ statuses' = [statuses EXCEPT ![m] = "waiting"]
        BY <2>2, <2>3 DEF statuses
    <2> QED
        BY <2>4 DEF Promise!Next, Promise!Accept, statuses
<1>3. CASE UndoRegistration
    BY <1>3 DEF UndoRegistration, statuses, StatusOf
<1>4. ASSUME NEW c \in Consumers, NEW messages \in Orders, Deliver(c, messages)
      PROVE  [Promise!Next]_statuses
    <2>1. \A m \in Messages : StatusOf(m)' = StatusOf(m)
        BY <1>4 DEF Deliver, Move, StatusOf
    <2> QED
        BY <2>1 DEF statuses
<1>5. ASSUME NEW c \in Consumers, Start(c) PROVE [Promise!Next]_statuses
    BY <1>5 DEF Start, statuses, StatusOf
<1>6. ASSUME NEW c \in Consumers, ActorMissing(c) \/ Return(c)
      PROVE  [Promise!Next]_statuses
    <2>1. batch[c].taken \in SUBSET Messages
        BY DEF QueueInv, QueueTypeOK, Batch
    <2>2. \A m \in batch[c].taken : place[m] = "taken" /\ place'[m] \in {"acked", "dropped"}
        BY <1>6, <2>1 DEF ActorMissing, Return, Acknowledge, Move, QueueInv, BatchesOK
    <2>3. \A m \in Messages \ batch[c].taken : place'[m] = place[m]
        BY <1>6 DEF ActorMissing, Return, Acknowledge, Move
    <2>4. UNCHANGED handled
        BY <1>6 DEF ActorMissing, Return
    <2> QED
        BY <2>1, <2>2, <2>3, <2>4, LeavingLoses
<1>7. ASSUME NEW c \in Consumers, End(c) PROVE [Promise!Next]_statuses
    <2>1. batch[c].rest \in Seq(Messages) /\ batch[c].rest # <<>>
        BY <1>7 DEF End, QueueInv, QueueTypeOK, BatchesOK, Batch
    <2>2. PICK k \in Messages : k = Current(c)
        BY <2>1, HeadAndTail DEF Current
    <2>3. place[k] = "taken"
        BY <2>1, <2>2, HeadAndTail DEF Current, QueueInv, BatchesOK
    <2>4. UNCHANGED place /\ handled' = handled \cup {k}
        BY <1>7, <2>2 DEF End
    <2>5. statuses[k] \in {"waiting", "done"}
        BY <2>3 DEF statuses, StatusOf
    <2>6. StatusOf(k)' = "done"
        BY <2>4 DEF StatusOf
    <2>7. ASSUME NEW m \in Messages \ {k} PROVE StatusOf(m)' = StatusOf(m)
        <3>1. (m \in handled') = (m \in handled) /\ place' = place
            BY <2>4
        <3> QED
            BY <3>1 DEF StatusOf
    <2>8. statuses' = [statuses EXCEPT ![k] = "done"]
        BY <2>6, <2>7 DEF statuses
    <2> QED
        BY <2>5, <2>8 DEF Promise!Next, Promise!Complete, statuses
<1>8. ASSUME NEW c \in Consumers, Throw(c) PROVE [Promise!Next]_statuses
    <2> DEFINE spent == {m \in batch[c].taken : retries[m] = MaxRetries}
    <2>1. spent \in SUBSET Messages /\ batch[c].taken \in SUBSET Messages
        BY DEF QueueInv, QueueTypeOK, Batch
    <2>2. \A m \in spent : place[m] = "taken" /\ place'[m] \in {"acked", "dropped"}
        BY <1>8, <2>1 DEF Throw, QueueInv, BatchesOK
    <2>3. \A m \in Messages \ spent :
             \/ place'[m] = place[m]
             \/ place[m] \in {"queued", "taken"} /\ place'[m] \in {"queued", "taken"}
        BY <1>8, <2>1 DEF Throw, QueueInv, BatchesOK
    <2>4. UNCHANGED handled
        BY <1>8 DEF Throw
    <2> QED
        BY <2>1, <2>2, <2>3, <2>4, LeavingLoses
<1> QED
    BY <1>1, <1>2, <1>3, <1>4, <1>5, <1>6, <1>7, <1>8 DEF QueueNext

\* The queue and its consumer implement AtLeastOnce: no message is handled that was
\* not sent, none is handled after it was lost, and none is lost after it was handled.
THEOREM QueueRefinesPromise == QueueSpec => Promise!Init /\ [][Promise!Next]_statuses
<1>1. QueueInit => Promise!Init
    BY DEF QueueInit, Promise!Init, StatusOf
<1> QED
    BY <1>1, QueueInvariant, PromiseStep, PTL DEF QueueSpec
=============================================================================
