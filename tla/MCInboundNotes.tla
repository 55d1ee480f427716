--------------------------- MODULE MCInboundNotes ---------------------------
(***************************************************************************)
(* An instance of InboundNotes: one note, addressed to two accounts, whose  *)
(* Create is posted to both inboxes and deleted through one of them.        *)
(***************************************************************************)
EXTENDS InboundNotes

CONSTANTS note, alice, carol, createA, createC, delete

MCNotes == {note}
MCMessages == {createA, createC, delete}
MCCreates == {createA, createC}
MCNoteOf == [m \in MCMessages |-> note]
MCRecipients == [n \in MCNotes |-> {alice, carol}]
MCByAuthor == {delete}
MCInboxOf == [m \in MCMessages |-> IF m = createC THEN carol ELSE alice]
MCUnregistered == {}
MCSymmetry == Permutations(Consumers)
=============================================================================
