----------------------------- MODULE MCConsumer -----------------------------
(***************************************************************************)
(* An instance of Consumer: a message to an account whose registration is   *)
(* undone shares batches with two others.                                   *)
(***************************************************************************)
EXTENDS Consumer

CONSTANTS m1, m2, m3

MCMessages == {m1, m2, m3}
MCUnregistered == {m3}
=============================================================================
