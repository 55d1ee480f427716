----------------------------- MODULE MCAccounts -----------------------------
(***************************************************************************)
(* An instance of Accounts: one account at the start, a second address that*)
(* may register either name, a remote actor, an address whose document     *)
(* states the id of a local account, and Updates that are posted to the    *)
(* inbox: one that names its signer, one that names a local actor, and one *)
(* that is too old.                                                        *)
(***************************************************************************)
EXTENDS Accounts, TLC

StatedId(url) == IF url = "mirror" THEN "bob" ELSE url
Host(id) == IF id = "carol" THEN "remote" ELSE "local"

FoundersJwt == Issued("alice@example.com", "kid")
AllJwts == {FoundersJwt, Issued("bob@example.com", "kid"),
            [Issued("bob@example.com", "kid") EXCEPT !.times = "expired"]}

\* What deliver.ts posts, before it is signed.
Post == [method |-> "POST", target |-> "/ap/users/alice/inbox", body |-> 1,
         headers |-> [h \in {"digest"} |-> 1]]
Delivery(name, at) == [by |-> "carol", actor |-> name, to |-> "alice",
                        request |-> SignRequest(Post, 0, "carol", at)]
AllDeliveries == {Delivery("carol", 0), Delivery("alice", 0), Delivery("carol", -400)}

CarolsKey == [k \in {"carol"} |-> 0]

\* The servers of carol and of the mirror answer, and another one fails.
WebFinger(handle) == IF handle = "nobody" THEN {} ELSE {handle}

Symmetry == Permutations(Workers)
=============================================================================
