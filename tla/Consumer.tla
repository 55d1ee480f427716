------------------------------ MODULE Consumer ------------------------------
(***************************************************************************)
(* The queue between the instance's endpoints and its consumer worker.      *)
(*                                                                          *)
(* The queue itself is Cloudflare's: it hands out batches of messages in    *)
(* any order, takes a batch off when queue() returns, and gives every       *)
(* message of a batch back when queue() throws, until a message has been    *)
(* retried MaxRetries times.  queue() is the code: one loop over the batch  *)
(* that runs a handler per message.  Here a handler is something that ends  *)
(* or throws; InboundNotes says what some of them do.                       *)
(***************************************************************************)
EXTENDS Integers, Sequences, SequencesExt

CONSTANTS
    Messages,       \* what endpoints send: inbox activities and deliveries
    Unregistered,   \* the messages to an account whose registration gets undone
    Consumers,      \* invocations of queue() that run at the same time
    MaxBatch,       \* max_batch_size of the deployment
    MaxRetries      \* max_retries of the deployment

ASSUME ConsumerAssumption ==
    /\ Unregistered \subseteq Messages
    /\ MaxBatch \in Nat \ {0}
    /\ MaxRetries \in Nat

VARIABLES
    place,      \* where each message is
    retries,    \* how often a message has been given back
    batch,      \* the batch of each invocation: its messages, and those still to come
    missing,    \* the messages whose actor has no row any more
    \* History: nothing below is read.
    handled     \* messages whose handler has run to its end

queueVars == <<place, retries, batch, missing, handled>>

NoBatch == [taken |-> {}, rest |-> <<>>, running |-> FALSE]

Batch == [taken : SUBSET Messages, rest : Seq(Messages), running : BOOLEAN]

QueueTypeOK ==
    /\ place \in [Messages -> {"unsent", "queued", "taken", "acked", "dropped"}]
    /\ retries \in [Messages -> 0..MaxRetries]
    /\ batch \in [Consumers -> Batch]
    /\ missing \in {{}, Unregistered}
    /\ handled \subseteq Messages

QueueInit ==
    /\ place = [m \in Messages |-> "unsent"]
    /\ retries = [m \in Messages |-> 0]
    /\ batch = [c \in Consumers |-> NoBatch]
    /\ missing = {}
    /\ handled = {}

InvocationOf(c) == batch[c].taken # {}
Current(c) == Head(batch[c].rest)

Move(messages, to) ==
    place' = [m \in Messages |-> IF m \in messages THEN to ELSE place[m]]

-----------------------------------------------------------------------------

\* The inbox route and enqueueDelivery send a message on behalf of an actor that
\* they have just found.
Send(m) ==
    /\ place[m] = "unsent"
    /\ m \notin missing
    /\ Move({m}, "queued")
    /\ UNCHANGED <<retries, batch, missing, handled>>

\* createUser inserts the actor first; when it cannot insert the user it deletes
\* the actor again.
UndoRegistration ==
    /\ missing # Unregistered
    /\ missing' = Unregistered
    /\ UNCHANGED <<place, retries, batch, handled>>

\* Mutant of Deliver: the batch is acknowledged before it is handled.
DeliverAcknowledged(c, messages) ==
    /\ ~InvocationOf(c)
    /\ messages # <<>> /\ IsInjective(messages)
    /\ \A m \in ToSet(messages) : place[m] = "queued"
    /\ Move(ToSet(messages), "acked")
    /\ batch' = [batch EXCEPT ![c] =
                   [taken |-> ToSet(messages), rest |-> messages, running |-> FALSE]]
    /\ UNCHANGED <<retries, missing, handled>>

\* The queue starts an invocation with some of the messages, in some order.
Deliver(c, messages) ==
    /\ ~InvocationOf(c)
    /\ messages # <<>> /\ IsInjective(messages)
    /\ \A m \in ToSet(messages) : place[m] = "queued"
    /\ Move(ToSet(messages), "taken")
    /\ batch' = [batch EXCEPT ![c] =
                   [taken |-> ToSet(messages), rest |-> messages, running |-> FALSE]]
    /\ UNCHANGED <<retries, missing, handled>>

\* The invocation returned: the queue forgets all the messages of its batch.
Acknowledge(c) ==
    /\ Move(batch[c].taken, "acked")
    /\ batch' = [batch EXCEPT ![c] = NoBatch]

\* The loop finds the actor of its next message, and calls the handler.
Start(c) ==
    /\ batch[c].rest # <<>> /\ ~batch[c].running
    /\ Current(c) \notin missing
    /\ batch' = [batch EXCEPT ![c] = [taken |-> @.taken, rest |-> @.rest, running |-> TRUE]]
    /\ UNCHANGED <<place, retries, missing, handled>>

\* The actor of the next message is missing: queue() returns, and the messages
\* that the loop has not come to go the way of those that it has handled.
ActorMissing(c) ==
    /\ batch[c].rest # <<>> /\ ~batch[c].running
    /\ Current(c) \in missing
    /\ Acknowledge(c)
    /\ UNCHANGED <<retries, missing, handled>>

\* The handler ran to its end.
End(c) ==
    /\ batch[c].running
    /\ batch' = [batch EXCEPT ![c] =
                   [taken |-> @.taken, rest |-> Tail(@.rest), running |-> FALSE]]
    /\ handled' = handled \cup {Current(c)}
    /\ UNCHANGED <<place, retries, missing>>

\* The loop is through.
Return(c) ==
    /\ InvocationOf(c) /\ batch[c].rest = <<>>
    /\ Acknowledge(c)
    /\ UNCHANGED <<retries, missing, handled>>

\* Mutant of Throw: the error is logged and swallowed.
ThrowSwallowed(c) ==
    /\ InvocationOf(c)
    /\ Acknowledge(c)
    /\ UNCHANGED <<retries, missing, handled>>

\* Mutant of Throw: a message is given back however often it was.
ThrowUnlimited(c) ==
    LET taken == batch[c].taken IN
    /\ InvocationOf(c)
    /\ Move(taken, "queued")
    /\ retries' = [m \in Messages |-> IF m \in taken THEN retries[m] + 1 ELSE retries[m]]
    /\ batch' = [batch EXCEPT ![c] = NoBatch]
    /\ UNCHANGED <<missing, handled>>

\* Something threw, or the invocation was evicted: every message of the batch is
\* given back, the ones that were handled too.  One that used up its retries is gone.
Throw(c) ==
    LET taken == batch[c].taken
        spent == {m \in taken : retries[m] = MaxRetries}
    IN
    /\ InvocationOf(c)
    /\ place' = [m \in Messages |->
                   IF m \in spent THEN "dropped"
                   ELSE IF m \in taken THEN "queued" ELSE place[m]]
    /\ retries' = [m \in Messages |->
                     IF m \in taken \ spent THEN retries[m] + 1 ELSE retries[m]]
    /\ batch' = [batch EXCEPT ![c] = NoBatch]
    /\ UNCHANGED <<missing, handled>>

-----------------------------------------------------------------------------

Orders == SeqOf(Messages, MaxBatch)

QueueNext ==
    \/ \E m \in Messages : Send(m)
    \/ UndoRegistration
    \/ \E c \in Consumers, messages \in Orders : Deliver(c, messages)
    \/ \E c \in Consumers :
          Start(c) \/ ActorMissing(c) \/ End(c) \/ Return(c) \/ Throw(c)

QueueSpec == QueueInit /\ [][QueueNext]_queueVars

(* The queue delivers what it holds while an invocation is free, and no invocation *)
(* runs for ever: it goes on, or it throws or is evicted.                          *)
FairQueueSpec ==
    /\ QueueSpec
    /\ \A c \in Consumers :
        /\ WF_queueVars(\E messages \in Orders : Deliver(c, messages))
        /\ WF_queueVars(Start(c) \/ ActorMissing(c) \/ End(c) \/ Return(c) \/ Throw(c))

-----------------------------------------------------------------------------
(* Properties. *)

\* What makes a step lose a message that is in a batch.
LossOf(m) == place[m] = "taken" /\ place[m]' \in {"acked", "dropped"} /\ m \notin handled'

ReasonFor(m) ==
    \/ place[m]' = "dropped" /\ retries[m] = MaxRetries
    \/ \E c \in Consumers : m \in ToSet(batch[c].rest) /\ Current(c) \in missing

\* A message leaves the queue unhandled only after MaxRetries + 1 failed attempts of
\* its batches, or because the loop met a message without actor no later than it in
\* the same batch.  In particular nobody's error makes the queue forget a message.
LostForAReason == [][\A m \in Messages : LossOf(m) => ReasonFor(m)]_queueVars

\* What AtLeastOnce calls the status of a message.
StatusOf(m) ==
    CASE m \in handled -> "done"
      [] m \notin handled /\ place[m] \in {"acked", "dropped"} -> "lost"
      [] m \notin handled /\ place[m] \in {"queued", "taken"} -> "waiting"
      [] m \notin handled /\ place[m] = "unsent" -> "new"

Promise == INSTANCE AtLeastOnce WITH status <- [m \in Messages |-> StatusOf(m)]

\* The queue and the consumer keep the promise of AtLeastOnce: every message they
\* took is handled at least once or lost, and in the end one of the two.
KeepsPromise == Promise!Spec

-----------------------------------------------------------------------------
(* What a comment says, and the code does not do. *)

\* types/queue.ts: delivery jobs "are sent to the queue and the consumer does the
\* actual delivery".  A message that the queue takes off as done was handled, unless
\* its own actor is gone.
AcknowledgedIsHandled ==
    \A m \in Messages : place[m] = "acked" => m \in handled \cup missing
=============================================================================
