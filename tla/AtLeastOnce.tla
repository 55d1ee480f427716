---------------------------- MODULE AtLeastOnce ----------------------------
(***************************************************************************)
(* What the code that puts a message on the queue may count on: once the    *)
(* queue has taken it, its handler runs to the end at least once, or the    *)
(* message is lost; it is not forgotten.                                    *)
(***************************************************************************)
CONSTANT Messages

VARIABLE status

Init == status = [m \in Messages |-> "new"]

\* The queue takes the message: from now on its sender need not keep it.
Accept(m) ==
    /\ status[m] = "new"
    /\ status' = [status EXCEPT ![m] = "waiting"]

\* A handler of the message runs to its end.  Later runs change nothing here.
Complete(m) ==
    /\ status[m] = "waiting"
    /\ status' = [status EXCEPT ![m] = "done"]

\* Messages that shared a batch are lost together.
Lose(lost) ==
    /\ lost # {}
    /\ \A m \in lost : status[m] = "waiting"
    /\ status' = [m \in Messages |-> IF m \in lost THEN "lost" ELSE status[m]]

Next ==
    \/ \E m \in Messages : Accept(m) \/ Complete(m)
    \/ \E lost \in SUBSET Messages : Lose(lost)

Settle(m) ==
    \/ Complete(m)
    \/ \E lost \in SUBSET Messages : m \in lost /\ Lose(lost)

Spec == Init /\ [][Next]_status /\ \A m \in Messages : WF_status(Settle(m))
=============================================================================
