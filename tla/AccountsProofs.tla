---------------------------- MODULE AccountsProofs ----------------------------
(***************************************************************************)
(* The safety of Accounts for any accounts, tokens, clients, addresses and *)
(* workers, and any bounds on requests and edits; and of HttpSignatures:   *)
(* what this server signs is accepted.                                     *)
(*                                                                         *)
(* BaseInv says what a request has in hand at its stages, that an actor of *)
(* a user is there to stay, and that there are ids left for the requests   *)
(* that still take one.  DocsOK adds whose public key a document shows;    *)
(* AtomicInv what a registration has written, and that an account has one  *)
(* at a time; EditInv who announces the last edit of a profile.            *)
(***************************************************************************)
EXTENDS Accounts, FiniteSetTheorems, TLAPS

\* Tasks, with Idle among them.
Form == [at : Stages \cup {"idle"}, then : Stages \cup {"idle"}, who : Actors \cup {None},
         jwt : Jwts \cup {None}, client : ClientIds \cup {None}, mid : Ids,
         url : Urls \cup {None}, form : SUBSET Fields, seen : Document \cup {None},
         wrote : BOOLEAN, prefs : Outcomes, user : Outcomes]

\* The stage that a request is at, or goes on to when the id is ensured.
StageOf(t) == IF t.at = "ensure" THEN t.then ELSE t.at

Edits == {"write", "announce"}

\* What a request has in hand.
Fits(t) ==
    /\ t.at = "ensure" => t.then \in Edits \cup {"idle", "subscription"}
    /\ t.wrote => StageOf(t) \in Edits
    /\ StageOf(t) \in {"insertActor", "rows", "stray"} =>
          t.who \in Locals /\ t.jwt \in Jwts /\ t.jwt.email \in Emails /\ t.client \in ClientIds
    /\ StageOf(t) = "insertActor" => t.prefs = "pending" /\ t.user = "pending"
    /\ StageOf(t) \in Edits => t.who \in Locals
    /\ StageOf(t) \in {"announce", "insert"} => t.seen \in Document
    /\ StageOf(t) \in {"fetch", "insert", "addPeer", "setAlias"} =>
          t.url \in Urls /\ t.who \in Locals \cup {None}
    /\ StageOf(t) = "setAlias" => t.who \in Locals
    /\ StageOf(t) \in {"subscription", "subscribe"} => t.who \in Locals /\ t.client \in ClientIds

\* Who edits a profile is a user.
HasUser(t) == t.at = "ensure" \/ StageOf(t) \in Edits => UsersOf(t.who) # {}

TasksOK ==
    /\ task \in [Workers -> Task]
    /\ \A w \in Workers : Fits(task[w]) /\ HasUser(task[w])

\* A request that will take one more id.
Owes(t) == t.at = "fetch" \/ StageOf(t) = "write"
Owing == {w \in Workers : Owes(task[w])}

CountOK ==
    /\ requests \in 0..MaxRequests /\ sequence \in Nat
    /\ IsFiniteSet(Owing) /\ sequence + Cardinality(Owing) <= 2 * requests

ActorsOK ==
    /\ actor \in [Actors -> Row \cup {None}]
    /\ DOMAIN users \subseteq Emails /\ \A e \in DOMAIN users : users[e] \in UserRow
    /\ preferences \subseteq Locals
    /\ \A e \in DOMAIN users : actor[users[e].actor] # None
    /\ \A a \in preferences : actor[a] # None
    /\ \A s \in subscriptions : actor[s[1]] # None
    /\ \A e, f \in DOMAIN users : users[e].actor = users[f].actor => e = f
    /\ \A a \in Actors : actor[a] # None /\ actor[a].mid = Legacy => UsersOf(a) # {}

RemoteOK ==
    /\ peers \subseteq {HostOf(a) : a \in Actors}
    /\ aliases \in [Locals -> SUBSET Actors]
    /\ published \in [Actors -> Profile]
    /\ updates \subseteq [actor : Actors, doc : Document]

OAuthOK ==
    /\ DOMAIN clients \subseteq ClientIds /\ \A c \in DOMAIN clients : clients[c] \in Client
    /\ credentials \subseteq ClientIds \X Ids
    /\ tokens \subseteq codes /\ codes \subseteq {Code(c, j) : c \in ClientIds, j \in Jwts}
    /\ sessions \subseteq Jwts
    /\ subscriptions \subseteq Locals \X ClientIds

ProfilesOK ==
    /\ announced \in [Locals -> SUBSET Document]
    /\ profiles \in 0..MaxProfiles
    /\ damaged \subseteq Locals /\ silenced \subseteq Locals /\ foreign \subseteq Locals

BaseInv == ActorsOK /\ RemoteOK /\ OAuthOK /\ ProfilesOK /\ TasksOK /\ CountOK

LEMMA BaseTypeOK == BaseInv => TypeOK
<1> SUFFICES ASSUME BaseInv PROVE TypeOK
  OBVIOUS
<1>1. IsFiniteSet(Owing) /\ requests \in 0..MaxRequests /\ sequence \in Nat
      /\ sequence + Cardinality(Owing) <= 2 * requests
  BY DEF BaseInv, CountOK
<1>2. Cardinality(Owing) \in Nat
  BY <1>1, FS_CardinalityType
<1>3. sequence \in Ids
  BY <1>1, <1>2, AccountsAssumption DEF Ids
<1> QED
  BY <1>1, <1>3 DEF BaseInv, ActorsOK, RemoteOK, OAuthOK, ProfilesOK, TasksOK, TypeOK

-----------------------------------------------------------------------------
(* Tasks. *)

LEMMA Forms ==
    /\ Task \subseteq Form
    /\ Idle \in Form /\ Idle \in Task
    /\ \A t \in Form : t.at \in Stages => t \in Task
<1>1. 0 \in Ids
  BY AccountsAssumption DEF Ids
<1>2. Idle \in Form
  BY <1>1 DEF Idle, Form, Outcomes
<1> QED
  BY <1>2 DEF Form, Task

LEMMA IdleFits == Fits(Idle) /\ HasUser(Idle) /\ ~Owes(Idle)
BY DEF Idle, Fits, HasUser, Owes, StageOf, Edits

LEMMA TakeTask ==
    ASSUME TasksOK, NEW w \in Workers, NEW t \in Task, Stay(w, t)
    PROVE  /\ task' \in [Workers -> Task] /\ task'[w] = t
           /\ \A v \in Workers \ {w} : task'[v] = task[v]
BY DEF TasksOK, Stay

\* The rows of users are not deleted.
UsersStay == \A a : UsersOf(a) # {} => UsersOf(a)' # {}

LEMMA SameUsersStay == users' = users => UsersStay
BY DEF UsersStay, UsersOf

LEMMA TasksStep ==
    ASSUME TasksOK, NEW w \in Workers, NEW t \in Task, Stay(w, t), UsersStay,
           Fits(t), HasUser(t)'
    PROVE  TasksOK'
<1>1. /\ task' \in [Workers -> Task] /\ task'[w] = t
      /\ \A v \in Workers \ {w} : task'[v] = task[v]
  BY TakeTask
<1>2. ASSUME NEW v \in Workers PROVE Fits(task'[v]) /\ HasUser(task[v])'
  <2>1. CASE v = w
    <3>1. HasUser(task[v])' <=> HasUser(t)'
      BY <1>1, <2>1 DEF HasUser, StageOf
    <3> QED
      BY <1>1, <2>1, <3>1
  <2>2. CASE v # w
    <3>1. Fits(task[v]) /\ HasUser(task[v]) /\ task'[v] = task[v]
      BY <1>1, <2>2 DEF TasksOK
    <3> QED
      BY <3>1 DEF HasUser, StageOf, UsersStay
  <2> QED
    BY <2>1, <2>2
<1>3. \A v \in Workers : Fits(task[v])'
  BY <1>2 DEF Fits, StageOf
<1> QED
  BY <1>1, <1>2, <1>3 DEF TasksOK

LEMMA TasksSame ==
    ASSUME TasksOK, task' = task, UsersStay
    PROVE  TasksOK'
BY DEF TasksOK, Fits, HasUser, StageOf, UsersStay

-----------------------------------------------------------------------------
(* Ids. *)

\* What a request still owes, as a number.
Debt(t) == IF Owes(t) THEN 1 ELSE 0

LEMMA CountStep ==
    ASSUME TasksOK, CountOK, NEW w \in Workers, NEW t \in Task, Stay(w, t),
           requests' \in 0..MaxRequests, sequence' \in Nat,
           sequence' + Debt(t) + 2 * requests <= sequence + Debt(task[w]) + 2 * requests'
    PROVE  CountOK'
<1>1. /\ task' \in [Workers -> Task] /\ task'[w] = t
      /\ \A v \in Workers \ {w} : task'[v] = task[v]
  BY TakeTask
<1>2. /\ IsFiniteSet(Owing) /\ sequence \in Nat /\ requests \in 0..MaxRequests
      /\ sequence + Cardinality(Owing) <= 2 * requests
  BY DEF CountOK
<1>3. Owing' = {v \in Workers : Owes(task'[v])}
  BY DEF Owing, Owes, StageOf
<1>4. Owing' = IF Owes(t) THEN Owing \cup {w} ELSE Owing \ {w}
  BY <1>1, <1>3 DEF Owing
<1>5. w \in Owing <=> Owes(task[w])
  BY DEF Owing
<1>6. Cardinality(Owing) \in Nat /\ IsFiniteSet(Owing')
  BY <1>2, <1>4, FS_CardinalityType, FS_AddElement, FS_RemoveElement
<1>7. Cardinality(Owing') = Cardinality(Owing) + Debt(t) - Debt(task[w])
  <2>1. CASE Owes(t) /\ ~Owes(task[w])
    BY <1>2, <1>4, <1>5, <1>6, <2>1, FS_AddElement DEF Debt
  <2>2. CASE ~Owes(t) /\ Owes(task[w])
    BY <1>2, <1>4, <1>5, <1>6, <2>2, FS_RemoveElement DEF Debt
  <2>3. CASE Owes(t) <=> Owes(task[w])
    <3>1. Owing' = Owing
      BY <1>4, <1>5, <2>3
    <3>2. Cardinality(Owing') = Cardinality(Owing)
      BY <3>1
    <3>3. Debt(t) = Debt(task[w]) /\ Debt(t) \in Nat
      BY <2>3 DEF Debt
    <3> QED
      BY <1>6, <3>2, <3>3
  <2> QED
    BY <2>1, <2>2, <2>3
<1>8. Debt(t) \in Nat /\ Debt(task[w]) \in Nat /\ requests' \in Nat
  BY AccountsAssumption DEF Debt
<1>9. sequence' + Cardinality(Owing') <= 2 * requests'
  BY <1>2, <1>6, <1>7, <1>8
<1> QED
  BY <1>6, <1>9 DEF CountOK

LEMMA CountSame ==
    ASSUME CountOK, task' = task, requests' \in 0..MaxRequests, sequence' \in Nat,
           sequence' + 2 * requests <= sequence + 2 * requests'
    PROVE  CountOK'
<1>1. Owing' = Owing
  BY DEF Owing, Owes, StageOf
<1>2. Cardinality(Owing) \in Nat /\ MaxRequests \in Nat
  BY FS_CardinalityType, AccountsAssumption DEF CountOK
<1>3. requests \in Nat /\ requests' \in Nat /\ sequence \in Nat
      /\ sequence + Cardinality(Owing) <= 2 * requests
  BY <1>2 DEF CountOK
<1>4. ASSUME NEW i \in Nat, NEW j \in Nat, NEW m \in Nat, NEW n \in Nat, NEW c \in Nat,
             j + 2 * m <= i + 2 * n, i + c <= 2 * m
      PROVE  j + c <= 2 * n
  BY <1>4
<1>5. sequence' + Cardinality(Owing) <= 2 * requests'
  BY <1>2, <1>3, <1>4
<1> QED
  BY <1>1, <1>5 DEF CountOK

\* There is an id left for a request that may start or that owes one.
LEMMA NextId ==
    ASSUME CountOK, requests < MaxRequests \/ Owing # {}
    PROVE  NextVal \in Ids /\ NextVal \in Nat /\ NextVal # Legacy /\ sequence \in Nat
<1>1. /\ IsFiniteSet(Owing) /\ sequence \in Nat /\ requests \in 0..MaxRequests
      /\ sequence + Cardinality(Owing) <= 2 * requests
  BY DEF CountOK
<1>2. Cardinality(Owing) \in Nat /\ (Owing # {} => Cardinality(Owing) # 0)
  BY <1>1, FS_CardinalityType, FS_EmptySet
<1> QED
  BY <1>1, <1>2, AccountsAssumption DEF NextVal, Ids, Legacy

-----------------------------------------------------------------------------
(* The steps of a request. *)

\* A request goes on to another stage, and the rest of its task stays.
LEMMA MoveTask ==
    ASSUME NEW t \in Form, NEW s \in Stages
    PROVE  /\ [t EXCEPT !.at = s] \in Task
           /\ [t EXCEPT !.at = s].at = s
<1>1. [t EXCEPT !.at = s] \in Form /\ [t EXCEPT !.at = s].at = s
  BY DEF Form
<1> QED
  BY <1>1, Forms

\* With the UUID read, the request first ensures the id.
Ensuring(t, mid) == [t EXCEPT !.at = "ensure", !.then = t.at, !.mid = mid]

LEMMA EnsureTask ==
    ASSUME NEW t \in Form, NEW mid \in Ids, t.at \in Edits \cup {"idle", "subscription"}, Fits(t)
    PROVE  LET s == Ensuring(t, mid) IN
           /\ s \in Task /\ s.at = "ensure" /\ s.then = t.at
           /\ s.who = t.who /\ s.wrote = t.wrote /\ s.seen = t.seen /\ s.client = t.client
           /\ StageOf(t) = t.at /\ StageOf(s) = t.at /\ Fits(s) /\ Owes(s) = Owes(t)
<1> DEFINE s == Ensuring(t, mid)
<1>1. s \in Form /\ s.at = "ensure" /\ s.then = t.at /\ s.who = t.who /\ s.jwt = t.jwt
      /\ s.client = t.client /\ s.url = t.url /\ s.seen = t.seen /\ s.wrote = t.wrote
  BY DEF Form, Stages, Edits, Ensuring
<1> HIDE DEF s
<1>2. StageOf(t) = t.at /\ StageOf(s) = t.at
  BY <1>1 DEF StageOf, Edits
<1>3. Owes(s) = Owes(t)
  BY <1>1, <1>2 DEF Owes, Edits
<1>4. Fits(s)
  BY <1>1, <1>2 DEF Fits, Edits
<1>5. s \in Task
  BY <1>1, Forms DEF Stages
<1> QED
  BY <1>1, <1>2, <1>3, <1>4, <1>5 DEF s

\* A request that goes on with t when the row of an account is read.
LEMMA LoadStep ==
    ASSUME BaseInv, UNCHANGED users, NEW w \in Workers, NEW a \in Actors, NEW t \in Form,
           Load(w, a, t), t.who = a, t.at \in Edits \cup {"idle", "subscription"},
           t.at = "idle" => actor[a].mid = Legacy,
           Fits(t), HasUser(t), requests < MaxRequests \/ Owing # {},
           requests' \in 0..MaxRequests,
           Debt(t) + 1 + 2 * requests <= Debt(task[w]) + 2 * requests'
    PROVE  /\ TasksOK' /\ CountOK'
           /\ \E s \in Task : /\ Stay(w, s) /\ s.who = a /\ s.wrote = t.wrote /\ s.seen = t.seen
                              /\ StageOf(t) = t.at /\ StageOf(s) = t.at
<1>1. UsersStay /\ TasksOK /\ CountOK
  BY SameUsersStay DEF BaseInv
<1>2. NextVal \in Ids /\ NextVal = sequence + 1 /\ sequence \in Nat
  BY <1>1, NextId DEF NextVal
<1>3. /\ Debt(t) \in Nat /\ Debt(task[w]) \in Nat /\ requests \in Nat /\ requests' \in Nat
  BY <1>1, AccountsAssumption DEF Debt, CountOK
<1>4. UsersOf(a)' = UsersOf(a)
  BY DEF UsersOf
<1>5. CASE actor[a].mid = Legacy
  <2> DEFINE s == Ensuring(t, NextVal)
  <2>1. /\ s \in Task /\ s.at = "ensure" /\ s.then = t.at /\ s.who = a /\ s.wrote = t.wrote
        /\ s.seen = t.seen /\ StageOf(t) = t.at /\ StageOf(s) = t.at /\ Fits(s)
        /\ Owes(s) = Owes(t)
    BY <1>2, EnsureTask
  <2>2. Stay(w, s) /\ sequence' = sequence + 1
    BY <1>2, <1>5 DEF Load, GenerateMastodonId, Ensuring
  <2>3. UsersOf(a) # {}
    BY <1>5 DEF Load, SelectActorBy, BaseInv, ActorsOK
  <2> HIDE DEF s
  <2>4. PICK u \in Task : u = s
    BY <2>1
  <2>5. HasUser(u)'
    BY <1>4, <2>1, <2>3, <2>4 DEF HasUser
  <2>6. TasksOK'
    BY <1>1, <2>1, <2>2, <2>4, <2>5, TasksStep
  <2>7. Debt(u) = Debt(t)
    BY <2>1, <2>4 DEF Debt
  <2>8. CountOK'
    BY <1>1, <1>2, <1>3, <2>2, <2>4, <2>7, CountStep
  <2> QED
    BY <2>1, <2>2, <2>6, <2>8
<1>6. CASE actor[a].mid # Legacy
  <2>1. Stay(w, t) /\ sequence' = sequence /\ t.at \in Stages
    BY <1>6 DEF Load, Edits, Stages
  <2>2. t \in Task /\ StageOf(t) = t.at
    BY <2>1, Forms DEF StageOf, Edits
  <2>3. HasUser(t)'
    BY <1>4 DEF HasUser, StageOf
  <2>4. TasksOK'
    BY <1>1, <2>1, <2>2, <2>3, TasksStep
  <2>5. CountOK'
    BY <1>1, <1>2, <1>3, <2>1, <2>2, CountStep
  <2> QED
    BY <2>1, <2>2, <2>4, <2>5
<1> QED
  BY <1>5, <1>6

LEMMA Begin ==
    ASSUME BaseInv, NEW w \in Workers, Start(w)
    PROVE  /\ requests < MaxRequests /\ requests' = requests + 1 /\ requests \in Nat
           /\ requests' \in 0..MaxRequests /\ sequence \in Nat
           /\ task[w] = Idle /\ Debt(task[w]) = 0 /\ NextVal \in Ids /\ NextVal = sequence + 1
<1>1. requests < MaxRequests /\ requests' = requests + 1 /\ requests \in 0..MaxRequests
      /\ sequence \in Nat
  BY DEF Start, Count, BaseInv, CountOK
<1>2. task[w] = Idle
  BY DEF Start, At, BaseInv, TasksOK, Task, Stages
<1>3. NextVal \in Ids
  BY <1>1, NextId DEF BaseInv
<1> QED
  BY <1>1, <1>2, <1>3, IdleFits, AccountsAssumption DEF Debt, NextVal

\* A request that starts with t.
LEMMA BeginTask ==
    ASSUME BaseInv, UNCHANGED users, NEW w \in Workers, Start(w), NEW t \in Task, Stay(w, t),
           Fits(t), HasUser(t), sequence' \in {sequence, NextVal}, ~Owes(t) \/ sequence' = sequence
    PROVE  TasksOK' /\ CountOK'
<1>1. /\ requests' = requests + 1 /\ requests \in Nat /\ requests' \in 0..MaxRequests
      /\ sequence \in Nat /\ Debt(task[w]) = 0 /\ NextVal = sequence + 1
  BY Begin
<1>2. HasUser(t)'
  BY DEF HasUser, UsersOf, StageOf
<1>3. TasksOK'
  BY <1>2, TasksStep, SameUsersStay DEF BaseInv
<1>4. Debt(t) \in Nat /\ (Owes(t) => Debt(t) = 1) /\ (~Owes(t) => Debt(t) = 0)
  BY DEF Debt
<1>5. sequence' \in Nat /\ sequence' + Debt(t) <= sequence + 1
  <2>1. CASE sequence' = sequence
    BY <1>1, <1>4, <2>1
  <2>2. CASE sequence' = NextVal /\ ~Owes(t)
    BY <1>1, <1>4, <2>2
  <2> QED
    BY <2>1, <2>2
<1>6. sequence' + Debt(t) + 2 * requests <= sequence + Debt(task[w]) + 2 * requests'
  BY <1>1, <1>4, <1>5
<1>7. TasksOK /\ CountOK
  BY DEF BaseInv
<1> QED
  BY <1>1, <1>3, <1>5, <1>6, <1>7, CountStep

\* A request that goes on with t, and takes no id.
LEMMA OnTask ==
    ASSUME BaseInv, UsersStay, UNCHANGED <<requests, sequence>>, NEW w \in Workers,
           NEW t \in Task, Stay(w, t), Fits(t), HasUser(t)', Owes(t) => Owes(task[w])
    PROVE  TasksOK' /\ CountOK'
<1>1. TasksOK /\ CountOK
  BY DEF BaseInv
<1>2. requests' \in 0..MaxRequests /\ sequence' \in Nat /\ requests \in Nat
  BY <1>1, AccountsAssumption DEF CountOK
<1>3. Debt(t) \in Nat /\ Debt(task[w]) \in Nat /\ Debt(t) <= Debt(task[w])
  BY DEF Debt
<1>4. sequence' + Debt(t) + 2 * requests <= sequence + Debt(task[w]) + 2 * requests'
  BY <1>2, <1>3
<1> QED
  BY <1>1, <1>2, <1>4, CountStep, TasksStep

LEMMA FinishTask ==
    ASSUME BaseInv, UsersStay, UNCHANGED <<requests, sequence>>, NEW w \in Workers, Finish(w)
    PROVE  TasksOK' /\ CountOK'
<1>1. Idle \in Task /\ Stay(w, Idle) /\ Fits(Idle) /\ HasUser(Idle)' /\ ~Owes(Idle)
  BY Forms, IdleFits DEF Finish, Idle, HasUser, StageOf, Edits
<1> QED
  BY <1>1, OnTask

\* Nothing but a request and the sequence changes.
LEMMA TablesSame ==
    ASSUME BaseInv, UNCHANGED <<actor, users, preferences, remote, oauth, announced, profiles, history>>
    PROVE  ActorsOK' /\ RemoteOK' /\ OAuthOK' /\ ProfilesOK' /\ UsersStay
<1>1. ActorsOK /\ RemoteOK /\ OAuthOK /\ ProfilesOK
  BY DEF BaseInv
<1>2. ActorsOK'
  BY <1>1 DEF ActorsOK, oauth, UsersOf
<1>3. RemoteOK'
  BY <1>1 DEF RemoteOK, remote
<1>4. OAuthOK'
  BY <1>1 DEF OAuthOK, oauth
<1>5. ProfilesOK'
  BY <1>1 DEF ProfilesOK, history
<1> QED
  BY <1>2, <1>3, <1>4, <1>5, SameUsersStay

\* The actor that is read from a row.
LEMMA ActorRead ==
    ASSUME BaseInv, NEW a \in Locals, actor[a] # None
    PROVE  ActorFromRow(a) \in Document
<1>1. actor[a] \in Row /\ aliases[a] \in SUBSET Actors
  BY DEF BaseInv, ActorsOK, RemoteOK, Actors
<1> QED
  BY <1>1 DEF ActorFromRow, Document, Row

\* A profile that is cut is one.
LEMMA SanitizeProfile ==
    ASSUME NEW p \in Profile
    PROVE  Sanitize(p) \in Profile
<1>1. "name" \in Fields /\ p["name"] \in -MaxProfiles..MaxProfiles /\ MaxProfiles \in Nat
      /\ Long \subseteq 1..MaxProfiles
  BY AccountsAssumption DEF Profile, Fields
<1>2. p["name"] \in Long => -p["name"] \in -MaxProfiles..MaxProfiles
  BY <1>1
<1> QED
  BY <1>1, <1>2 DEF Sanitize, Profile

LEMMA ForeignIsDocument ==
    ASSUME NEW p \in Profile
    PROVE  ForeignDocument(p) \in Document
BY DEF ForeignDocument, Document, Keys

\* Who acts is the actor of a user.
LEMMA ActsIsUser ==
    ASSUME BaseInv, NEW method, NEW route, NEW token \in tokens, NEW a,
           Acts(method, route, token, a)
    PROVE  a \in Locals /\ UsersOf(a) # {} /\ token.client \in ClientIds
<1>1. a \in Authorize(users, sessions, token)
  BY DEF Acts, ServedTo
<1>2. PICK e \in DOMAIN users : users[e].actor = a
  BY <1>1 DEF Authorize, GetUserByEmail
<1>3. users[e].actor \in Locals
  BY DEF BaseInv, ActorsOK, UserRow
<1>4. PICK c \in ClientIds, j \in Jwts : token = Code(c, j)
  BY DEF BaseInv, OAuthOK
<1> QED
  BY <1>2, <1>3, <1>4 DEF UsersOf, Code

-----------------------------------------------------------------------------
(* BaseInv, action by action. *)

LEMMA GetAccountBase ==
    ASSUME BaseInv, NEW w \in Workers, NEW a \in Actors, GetAccount(w, a)
    PROVE  BaseInv'
<1> DEFINE t == [Idle EXCEPT !.who = a]
<1>1. t \in Form /\ t.who = a /\ t.at = "idle" /\ t.wrote = FALSE /\ Fits(t) /\ HasUser(t) /\ ~Owes(t)
  BY Forms DEF Idle, Form, Fits, HasUser, Owes, StageOf, Edits
<1>2. Load(w, a, t) /\ Start(w) /\ actor[a].mid = Legacy /\ UNCHANGED users
  BY DEF GetAccount
<1> HIDE DEF t
<1>3. /\ requests < MaxRequests /\ requests' = requests + 1 /\ requests \in Nat
      /\ requests' \in 0..MaxRequests /\ Debt(task[w]) = 0
  BY <1>2, Begin
<1>4. Debt(t) = 0
  BY <1>1 DEF Debt
<1>5. Debt(t) + 1 + 2 * requests <= Debt(task[w]) + 2 * requests'
  BY <1>3, <1>4
<1>6. TasksOK' /\ CountOK'
  BY <1>1, <1>2, <1>3, <1>5, LoadStep
<1>7. UNCHANGED <<actor, users, preferences, remote, oauth, announced, profiles, history>>
  BY DEF GetAccount
<1> QED
  BY <1>6, <1>7, TablesSame DEF BaseInv

LEMMA UpdateCredentialsBase ==
    ASSUME BaseInv, NEW w \in Workers, NEW token \in tokens, NEW a \in Locals,
           NEW form \in SUBSET Fields, UpdateCredentials(w, token, a, form)
    PROVE  BaseInv'
<1> DEFINE t == [Idle EXCEPT !.at = "write", !.who = a, !.form = form, !.seen = ActorFromRow(a)]
<1>1. /\ Load(w, a, t) /\ Start(w) /\ actor[a] # None /\ UsersOf(a) # {}
      /\ UNCHANGED <<actor, users, preferences, remote, oauth, announced, profiles, history>>
  BY ActsIsUser DEF UpdateCredentials, Load, SelectActorBy
<1>2. ActorFromRow(a) \in Document
  BY <1>1, ActorRead
<1>3. /\ t \in Form /\ t.who = a /\ t.at = "write" /\ t.wrote = FALSE
      /\ Fits(t) /\ HasUser(t) /\ a \in Actors
  BY <1>1, <1>2, Forms DEF Idle, Form, Fits, HasUser, StageOf, Edits, Stages, Actors
<1> HIDE DEF t
<1>4. /\ requests < MaxRequests /\ requests' = requests + 1 /\ requests \in Nat
      /\ requests' \in 0..MaxRequests /\ Debt(task[w]) = 0
  BY <1>1, Begin
<1>5. Debt(t) = 0 \/ Debt(t) = 1
  BY DEF Debt
<1>6. Debt(t) + 1 + 2 * requests <= Debt(task[w]) + 2 * requests'
  BY <1>4, <1>5
<1>7. t.at \in Edits /\ t.at # "idle"
  BY <1>3 DEF Edits
<1>8. TasksOK' /\ CountOK'
  BY <1>1, <1>3, <1>4, <1>6, <1>7, LoadStep
<1> QED
  BY <1>1, <1>8, TablesSame DEF BaseInv

LEMMA PushSubscriptionBase ==
    ASSUME BaseInv, NEW w \in Workers, NEW token \in tokens, NEW a \in Locals,
           PushSubscription(w, token, a)
    PROVE  BaseInv'
<1> DEFINE t == [Idle EXCEPT !.at = "subscription", !.who = a, !.client = token.client]
<1>1. /\ Load(w, a, t) /\ Start(w) /\ token.client \in ClientIds
      /\ UNCHANGED <<actor, users, preferences, remote, oauth, announced, profiles, history>>
  BY ActsIsUser DEF PushSubscription
<1>2. /\ t \in Form /\ t.who = a /\ t.at = "subscription"
      /\ Fits(t) /\ HasUser(t) /\ ~Owes(t) /\ a \in Actors
  BY <1>1, Forms DEF Idle, Form, Fits, HasUser, Owes, StageOf, Edits, Stages, Actors
<1> HIDE DEF t
<1>3. /\ requests < MaxRequests /\ requests' = requests + 1 /\ requests \in Nat
      /\ requests' \in 0..MaxRequests /\ Debt(task[w]) = 0
  BY <1>1, Begin
<1>4. Debt(t) = 0
  BY <1>2 DEF Debt
<1>5. Debt(t) + 1 + 2 * requests <= Debt(task[w]) + 2 * requests'
  BY <1>3, <1>4
<1>6. TasksOK' /\ CountOK'
  BY <1>1, <1>2, <1>3, <1>5, LoadStep
<1> QED
  BY <1>1, <1>6, TablesSame DEF BaseInv

LEMMA FirstLoginBase ==
    ASSUME BaseInv, NEW w \in Workers, NEW jwt \in Jwts, NEW a \in Locals,
           NEW id \in DOMAIN clients, FirstLogin(w, jwt, a, id)
    PROVE  BaseInv'
<1> DEFINE t == [Idle EXCEPT !.at = "insertActor", !.who = a, !.jwt = jwt, !.client = id,
                             !.mid = NextVal]
<1>1. /\ Stay(w, t) /\ Start(w) /\ sequence' = NextVal /\ GetJwtEmail(jwt) # {}
      /\ UNCHANGED <<actor, users, preferences, remote, oauth, announced, profiles, history>>
  BY DEF FirstLogin, GenerateMastodonId
<1>2. NextVal \in Ids
  BY <1>1, Begin
<1>3. jwt.email \in Emails
  <2>1. PICK email \in GetPayload(jwt) : email # NoEmail
    BY <1>1 DEF GetJwtEmail
  <2>2. jwt.email # NoEmail
    BY <2>1 DEF GetPayload
  <2>3. jwt \in Jwt
    BY AccountsAssumption
  <2>4. jwt.email \in Emails \cup {NoEmail}
    BY <2>3 DEF Jwt
  <2> QED
    BY <2>2, <2>4
<1>4. id \in ClientIds
  BY DEF BaseInv, OAuthOK
<1>5. t \in Form /\ t.at = "insertActor" /\ t.who = a /\ t.jwt = jwt /\ t.client = id
      /\ t.wrote = FALSE /\ t.prefs = "pending" /\ t.user = "pending"
  BY <1>2, <1>4, Forms DEF Idle, Form, Stages, Actors
<1> HIDE DEF t
<1>6. StageOf(t) = "insertActor"
  BY <1>5 DEF StageOf
<1>7. t \in Task /\ Fits(t) /\ HasUser(t) /\ ~Owes(t)
  BY <1>3, <1>4, <1>5, <1>6, Forms DEF Fits, HasUser, Owes, Edits, Stages
<1>8. TasksOK' /\ CountOK'
  BY <1>1, <1>7, BeginTask
<1> QED
  BY <1>1, <1>8, TablesSame DEF BaseInv

LEMMA ResolveAccountBase ==
    ASSUME BaseInv, NEW w \in Workers, NEW handle \in Handles, NEW url \in Urls,
           ResolveAccount(w, handle, url)
    PROVE  BaseInv'
<1> DEFINE t == [Idle EXCEPT !.at = "fetch", !.url = url]
<1>1. /\ Stay(w, t) /\ Start(w) /\ sequence' = sequence
      /\ UNCHANGED <<actor, users, preferences, remote, oauth, announced, profiles, history>>
  BY DEF ResolveAccount, tables
<1>2. t \in Form /\ t.at = "fetch" /\ t.url = url /\ t.wrote = FALSE /\ t.who = None
  BY Forms DEF Idle, Form, Stages
<1> HIDE DEF t
<1>3. StageOf(t) = "fetch"
  BY <1>2 DEF StageOf
<1>4. t \in Task /\ Fits(t) /\ HasUser(t)
  BY <1>2, <1>3, Forms DEF Fits, HasUser, Edits, Stages
<1>5. TasksOK' /\ CountOK'
  BY <1>1, <1>4, BeginTask
<1> QED
  BY <1>1, <1>5, TablesSame DEF BaseInv

LEMMA AddAliasBase ==
    ASSUME BaseInv, NEW w \in Workers, NEW a \in Locals, NEW handle \in Handles, NEW url \in Urls,
           AddAlias(w, a, handle, url)
    PROVE  BaseInv'
<1> DEFINE t == [Idle EXCEPT !.at = IF Cached(url) THEN "setAlias" ELSE "fetch",
                             !.who = a, !.url = url]
<1>1. /\ Stay(w, t) /\ Start(w) /\ sequence' = sequence
      /\ UNCHANGED <<actor, users, preferences, remote, oauth, announced, profiles, history>>
  BY DEF AddAlias, tables
<1>2. t \in Form /\ t.at \in {"setAlias", "fetch"} /\ t.url = url /\ t.wrote = FALSE /\ t.who = a
  <2>1. PICK s \in {"setAlias", "fetch"} : s = IF Cached(url) THEN "setAlias" ELSE "fetch"
    OBVIOUS
  <2>2. t = [Idle EXCEPT !.at = s, !.who = a, !.url = url]
    BY <2>1
  <2>3. s \in Stages /\ a \in Actors /\ url \in Urls
    BY <2>1 DEF Stages, Actors
  <2>4. Idle \in Form /\ Idle.wrote = FALSE
    BY Forms DEF Idle
  <2> HIDE DEF t
  <2>5. t \in Form /\ t.at = s /\ t.url = url /\ t.wrote = FALSE /\ t.who = a
    BY <2>2, <2>3, <2>4 DEF Form
  <2> QED
    BY <2>1, <2>5
<1> HIDE DEF t
<1>3. StageOf(t) = t.at
  BY <1>2 DEF StageOf
<1>4. t \in Task /\ Fits(t) /\ HasUser(t)
  BY <1>2, <1>3, Forms DEF Fits, HasUser, Edits, Stages
<1>5. TasksOK' /\ CountOK'
  BY <1>1, <1>4, BeginTask
<1> QED
  BY <1>1, <1>5, TablesSame DEF BaseInv

LEMMA ReloadBase ==
    ASSUME BaseInv, NEW w \in Workers, Reload(w)
    PROVE  BaseInv'
<1>1. /\ task[w].at = "write" /\ requests' = requests
      /\ UNCHANGED <<actor, users, preferences, remote, oauth, announced, profiles, history>>
  BY DEF Reload, At, Running
<1>2. PICK u \in Task : u = task[w]
  BY DEF BaseInv, TasksOK
<1>3. StageOf(u) = "write" /\ Fits(u) /\ HasUser(u)
  BY <1>1, <1>2 DEF StageOf, BaseInv, TasksOK
<1>4. u.who \in Locals /\ UsersOf(u.who) # {} /\ u.who \in Actors
  BY <1>3 DEF Fits, HasUser, Edits, Actors
<1>5. PICK a \in Locals : a = u.who
  BY <1>4
<1> DEFINE t == [u EXCEPT !.at = "announce", !.seen = ActorFromRow(a)]
<1>6. Load(w, a, t)
  BY <1>2, <1>5 DEF Reload
<1>7. ActorFromRow(a) \in Document
  BY <1>6, ActorRead DEF Load, SelectActorBy
<1>8. u \in Form
  BY Forms
<1>9. t \in Form /\ t.at = "announce" /\ t.who = a /\ t.seen \in Document
  BY <1>5, <1>7, <1>8 DEF Form, Stages
<1> HIDE DEF t
<1>10. StageOf(t) = "announce"
  BY <1>9 DEF StageOf
<1>11. Fits(t) /\ HasUser(t) /\ ~Owes(t) /\ Owes(u)
  BY <1>3, <1>4, <1>5, <1>9, <1>10 DEF Fits, HasUser, Owes, Edits
<1>12. Owing # {} /\ Debt(t) = 0 /\ Debt(task[w]) = 1 /\ requests \in Nat
       /\ requests' \in 0..MaxRequests
  BY <1>1, <1>2, <1>11, AccountsAssumption DEF Owing, Debt, BaseInv, CountOK
<1>13. Debt(t) + 1 + 2 * requests <= Debt(task[w]) + 2 * requests'
  BY <1>1, <1>12
<1>14. t.at \in Edits /\ t.at # "idle"
  BY <1>9 DEF Edits
<1>15. TasksOK' /\ CountOK'
  BY <1>1, <1>4, <1>5, <1>6, <1>9, <1>11, <1>12, <1>13, <1>14, LoadStep
<1> QED
  BY <1>1, <1>15, TablesSame DEF BaseInv

\* A new row, or one that a request has changed.
LEMMA ActorWrite ==
    ASSUME BaseInv, NEW a \in Actors, NEW row \in Row, actor' = [actor EXCEPT ![a] = row],
           row.mid = Legacy => actor[a] # None /\ actor[a].mid = Legacy,
           UNCHANGED <<users, preferences, oauth>>
    PROVE  ActorsOK' /\ UsersStay
<1>1. ActorsOK
  BY DEF BaseInv
<1>2. /\ actor' \in [Actors -> Row \cup {None}] /\ actor'[a] = row /\ row # None
      /\ \A b \in Actors \ {a} : actor'[b] = actor[b]
  BY <1>1, RowAssumption DEF ActorsOK
<1>3. \A b \in Actors : actor[b] # None => actor'[b] # None
  BY <1>2
<1>4. \A e \in DOMAIN users : users[e].actor \in Actors
  BY <1>1 DEF ActorsOK, UserRow, Actors
<1>5. \A b \in Actors : actor'[b] # None /\ actor'[b].mid = Legacy => actor[b] # None /\ actor[b].mid = Legacy
  BY <1>2
<1>6. ActorsOK'
  BY <1>1, <1>2, <1>3, <1>4, <1>5 DEF ActorsOK, UsersOf, oauth, Actors
<1> QED
  BY <1>6, SameUsersStay

\* None of the tables but those of accounts changes.
LEMMA RestSame ==
    ASSUME BaseInv, UNCHANGED <<remote, oauth, announced, profiles, history>>
    PROVE  RemoteOK' /\ OAuthOK' /\ ProfilesOK'
<1>1. RemoteOK /\ OAuthOK /\ ProfilesOK
  BY DEF BaseInv
<1>2. RemoteOK'
  BY <1>1 DEF RemoteOK, remote
<1>3. OAuthOK'
  BY <1>1 DEF OAuthOK, oauth
<1>4. ProfilesOK'
  BY <1>1 DEF ProfilesOK, history
<1> QED
  BY <1>2, <1>3, <1>4

\* What a request that moves on keeps.
LEMMA GotoTask ==
    ASSUME BaseInv, NEW w \in Workers, NEW s \in Stages, Goto(w, s)
    PROVE  \E t \in Task :
              /\ Stay(w, t) /\ t.at = s /\ t.then = task[w].then /\ t.who = task[w].who
              /\ t.jwt = task[w].jwt /\ t.client = task[w].client /\ t.mid = task[w].mid
              /\ t.url = task[w].url /\ t.seen = task[w].seen /\ t.wrote = task[w].wrote
              /\ t.prefs = task[w].prefs /\ t.user = task[w].user
<1>1. task[w] \in Form
  BY Forms DEF BaseInv, TasksOK
<1> DEFINE t == [task[w] EXCEPT !.at = s]
<1>2. t \in Task /\ t.at = s
  BY <1>1, MoveTask
<1>3. /\ t.then = task[w].then /\ t.who = task[w].who /\ t.jwt = task[w].jwt
      /\ t.client = task[w].client /\ t.mid = task[w].mid /\ t.url = task[w].url
      /\ t.seen = task[w].seen /\ t.wrote = task[w].wrote
      /\ t.prefs = task[w].prefs /\ t.user = task[w].user
  BY <1>1 DEF Form
<1>4. Stay(w, t)
  BY DEF Goto
<1> HIDE DEF t
<1> QED
  BY <1>2, <1>3, <1>4

\* Who has a user has an actor.
LEMMA UserHasActor ==
    ASSUME BaseInv, NEW a, UsersOf(a) # {}
    PROVE  a \in Locals /\ a \in Actors /\ actor[a] \in Row /\ actor[a] # None
<1>1. PICK e \in DOMAIN users : users[e].actor = a
  BY DEF UsersOf
<1>2. a \in Locals /\ actor[a] # None
  BY <1>1 DEF BaseInv, ActorsOK, UserRow
<1> QED
  BY <1>2 DEF Actors, BaseInv, ActorsOK

\* What a request at one of the plain stages has in hand.
LEMMA TaskFits ==
    ASSUME BaseInv, NEW w \in Workers
    PROVE  task[w] \in Task /\ task[w] \in Form /\ Fits(task[w]) /\ HasUser(task[w])
BY Forms DEF BaseInv, TasksOK

LEMMA EnsureBase ==
    ASSUME BaseInv, NEW w \in Workers, EnsureMastodonId(w)
    PROVE  BaseInv'
<1>1. /\ task[w].at = "ensure" /\ UNCHANGED <<requests, sequence>>
      /\ UNCHANGED <<users, preferences, remote, oauth, announced, profiles, history>>
      /\ UpdateActorMastodonId(task[w].who, task[w].mid)
      /\ IF task[w].then = "idle" THEN Finish(w) ELSE Goto(w, task[w].then)
  BY DEF EnsureMastodonId, At, Running
<1>2. /\ task[w] \in Task /\ task[w] \in Form /\ Fits(task[w]) /\ HasUser(task[w])
      /\ StageOf(task[w]) = task[w].then
  BY <1>1, TaskFits DEF StageOf
<1>3. UsersOf(task[w].who) # {} /\ task[w].mid \in Ids
      /\ task[w].then \in Edits \cup {"idle", "subscription"}
  BY <1>1, <1>2 DEF HasUser, Form, Fits
<1>4. PICK a \in Locals : a = task[w].who
  BY <1>3, UserHasActor
<1>5. PICK mid \in Ids : mid = task[w].mid
  BY <1>3
<1>6. a \in Actors /\ actor[a] \in Row /\ actor[a] # None
  BY <1>3, <1>4, UserHasActor
<1>7. PICK row \in Row : row = [actor[a] EXCEPT !.mid = IF @ = Legacy THEN mid ELSE @]
  BY <1>6 DEF Row
<1>8. actor' = [actor EXCEPT ![a] = row] /\ (row.mid = Legacy => actor[a].mid = Legacy)
  BY <1>1, <1>4, <1>5, <1>6, <1>7 DEF UpdateActorMastodonId, Row
<1>9. ActorsOK' /\ UsersStay
  BY <1>1, <1>6, <1>8, ActorWrite
<1>10. TasksOK' /\ CountOK'
  <2>1. CASE task[w].then = "idle"
    BY <1>1, <1>9, <2>1, FinishTask
  <2>2. CASE task[w].then # "idle"
    <3>1. task[w].then \in Stages
      BY <1>3, <2>2 DEF Stages, Edits
    <3>2. PICK t \in Task :
              /\ Stay(w, t) /\ t.at = task[w].then /\ t.then = task[w].then
              /\ t.who = task[w].who
              /\ t.jwt = task[w].jwt /\ t.client = task[w].client /\ t.mid = task[w].mid
              /\ t.url = task[w].url /\ t.seen = task[w].seen /\ t.wrote = task[w].wrote
      BY <1>1, <2>2, <3>1, GotoTask
    <3>3. StageOf(t) = t.at /\ StageOf(t) = StageOf(task[w])
          /\ t.at \notin {"ensure", "insertActor"}
      BY <1>2, <1>3, <3>2 DEF StageOf, Edits
    <3>4. Fits(t)
      BY <1>2, <3>2, <3>3 DEF Fits
    <3>5. Owes(t) => Owes(task[w])
      BY <1>3, <3>2, <3>3 DEF Owes, Edits
    <3>6. UsersOf(t.who)' # {}
      BY <1>3, <1>9, <3>2 DEF UsersStay
    <3>7. HasUser(t)'
      BY <3>6 DEF HasUser
    <3> QED
      BY <1>1, <1>9, <3>2, <3>4, <3>5, <3>7, OnTask
  <2> QED
    BY <2>1, <2>2
<1> QED
  BY <1>1, <1>9, <1>10, RestSame DEF BaseInv

LEMMA InsertActorBase ==
    ASSUME BaseInv, NEW w \in Workers, InsertActor(w)
    PROVE  BaseInv'
<1>1. /\ task[w].at = "insertActor" /\ UNCHANGED <<requests, sequence>>
      /\ UNCHANGED <<users, preferences, remote, oauth, announced, profiles, history>>
  BY DEF InsertActor, At, Running
<1>2. /\ task[w] \in Form /\ Fits(task[w]) /\ StageOf(task[w]) = "insertActor"
  BY <1>1, TaskFits DEF StageOf
<1>3. /\ task[w].who \in Locals /\ task[w].jwt \in Jwts /\ task[w].jwt.email \in Emails
      /\ task[w].client \in ClientIds /\ ~task[w].wrote /\ task[w].mid \in Ids
  BY <1>2 DEF Fits, Form, Edits
<1>4. CASE UNCHANGED actor /\ Finish(w)
  <2>1. ActorsOK' /\ RemoteOK' /\ OAuthOK' /\ ProfilesOK' /\ UsersStay
    BY <1>1, <1>4, TablesSame
  <2> QED
    BY <1>1, <1>4, <2>1, FinishTask DEF BaseInv
<1>5. CASE /\ InsertActorRow(task[w].who, [mid |-> task[w].mid, key |-> GenerateUserKey(task[w].mid, KEK).public,
                                   profile |-> Unchanged])
           /\ Goto(w, "rows")
  <2>1. PICK a \in Locals : a = task[w].who
    BY <1>3
  <2>2. PICK mid \in Ids : mid = task[w].mid
    BY <1>3
  <2>3. Unchanged \in Profile
    BY AccountsAssumption DEF Unchanged, Profile
  <2>4. PICK row \in Row : row = [mid |-> mid, key |-> mid, profile |-> Unchanged]
    BY <2>3 DEF Row, Keys
  <2>5. a \in Actors /\ actor' = [actor EXCEPT ![a] = row] /\ row.mid # Legacy
    BY <1>5, <2>1, <2>2, <2>4, AccountsAssumption
       DEF InsertActorRow, GenerateUserKey, Actors, Ids, Legacy
  <2>6. ActorsOK' /\ UsersStay
    BY <1>1, <2>5, ActorWrite
  <2>7. PICK t \in Task :
            /\ Stay(w, t) /\ t.at = "rows" /\ t.then = task[w].then
            /\ t.who = task[w].who
            /\ t.jwt = task[w].jwt /\ t.client = task[w].client /\ t.mid = task[w].mid
            /\ t.url = task[w].url /\ t.seen = task[w].seen /\ t.wrote = task[w].wrote
    BY <1>5, GotoTask DEF Stages
  <2>8. StageOf(t) = "rows"
    BY <2>7 DEF StageOf
  <2>9. Fits(t) /\ HasUser(t)' /\ ~Owes(t)
    BY <1>3, <2>7, <2>8 DEF Fits, HasUser, Owes, Edits
  <2>10. TasksOK' /\ CountOK'
    BY <1>1, <2>6, <2>7, <2>9, OnTask
  <2> QED
    BY <1>1, <2>6, <2>10, RestSame DEF BaseInv
<1> QED
  BY <1>4, <1>5 DEF InsertActor

LEMMA RemoteSame == ASSUME RemoteOK, UNCHANGED remote PROVE RemoteOK'
BY DEF RemoteOK, remote

LEMMA OAuthSame == ASSUME OAuthOK, UNCHANGED oauth PROVE OAuthOK'
BY DEF OAuthOK, oauth

LEMMA InsertRemoteActorBase ==
    ASSUME BaseInv, NEW w \in Workers, InsertRemoteActor(w)
    PROVE  BaseInv'
<1>1. /\ task[w].at = "insert" /\ UNCHANGED <<requests, sequence>>
      /\ UNCHANGED <<users, preferences, remote, oauth, announced, profiles, damaged, silenced>>
  BY DEF InsertRemoteActor, At, Running
<1>2. /\ task[w] \in Form /\ Fits(task[w]) /\ StageOf(task[w]) = "insert"
  BY <1>1, TaskFits DEF StageOf
<1>3. /\ task[w].seen \in Document /\ task[w].url \in Urls /\ task[w].who \in Locals \cup {None}
      /\ ~task[w].wrote /\ task[w].mid \in Ids
  BY <1>2 DEF Fits, Form, Edits
<1>4. CASE UNCHANGED <<actor, foreign>> /\ Finish(w)
  <2>1. ActorsOK' /\ RemoteOK' /\ OAuthOK' /\ ProfilesOK' /\ UsersStay
    BY <1>1, <1>4, TablesSame DEF history
  <2> QED
    BY <1>1, <1>4, <2>1, FinishTask DEF BaseInv
<1>5. CASE /\ InsertActorRow(IdOf(task[w].url), [mid |-> task[w].mid, key |-> task[w].seen.key,
                                                   profile |-> task[w].seen.profile])
           /\ Goto(w, "addPeer")
           /\ foreign' = foreign \cup ({IdOf(task[w].url)} \cap Locals)
  <2>1. PICK a \in Actors : a = IdOf(task[w].url)
    BY <1>3, AccountsAssumption
  <2>2. PICK doc \in Document : doc = task[w].seen
    BY <1>3
  <2>3. [mid |-> task[w].mid, key |-> doc.key, profile |-> doc.profile] \in Row
    BY <1>3 DEF Row, Document
  <2>4. PICK row \in Row : row = [mid |-> task[w].mid, key |-> doc.key, profile |-> doc.profile]
    BY <2>3
  <2>5. a \in Actors /\ actor' = [actor EXCEPT ![a] = row] /\ row.mid # Legacy
    BY <1>3, <1>5, <2>1, <2>2, <2>4, AccountsAssumption DEF InsertActorRow, Ids, Legacy
  <2>6. ActorsOK' /\ UsersStay
    BY <1>1, <2>5, ActorWrite
  <2>7. PICK t \in Task :
            /\ Stay(w, t) /\ t.at = "addPeer" /\ t.then = task[w].then
            /\ t.who = task[w].who
            /\ t.jwt = task[w].jwt /\ t.client = task[w].client /\ t.mid = task[w].mid
            /\ t.url = task[w].url /\ t.seen = task[w].seen /\ t.wrote = task[w].wrote
    BY <1>5, GotoTask DEF Stages
  <2>8. StageOf(t) = "addPeer"
    BY <2>7 DEF StageOf
  <2>9. Fits(t) /\ HasUser(t)' /\ ~Owes(t)
    BY <1>3, <2>7, <2>8 DEF Fits, HasUser, Owes, Edits
  <2>10. TasksOK' /\ CountOK'
    BY <1>1, <2>6, <2>7, <2>9, OnTask
  <2>11. RemoteOK' /\ OAuthOK' /\ ProfilesOK'
    BY <1>1, <1>5, RemoteSame, OAuthSame DEF BaseInv, ProfilesOK
  <2> QED
    BY <2>6, <2>10, <2>11 DEF BaseInv
<1> QED
  BY <1>4, <1>5 DEF InsertRemoteActor

LEMMA ActorsSame ==
    ASSUME ActorsOK, UNCHANGED <<actor, users, preferences, subscriptions>>
    PROVE  ActorsOK' /\ UsersStay
<1>1. ActorsOK'
  BY DEF ActorsOK, UsersOf
<1> QED
  BY <1>1, SameUsersStay

\* Who falls silent is a local account.
LEMMA SilentLocal ==
    ASSUME BaseInv, NEW w \in Workers, task[w].wrote
    PROVE  task[w].who \in Locals
BY TaskFits DEF Fits

LEMMA WriteFieldBase ==
    ASSUME BaseInv, NEW w \in Workers, WriteField(w)
    PROVE  BaseInv'
<1>1. /\ task[w].at = "write" /\ UNCHANGED <<requests, sequence>>
      /\ UNCHANGED <<users, preferences, remote, oauth, announced, damaged, foreign>>
  BY DEF WriteField, At, Running
<1>2. /\ task[w] \in Form /\ Fits(task[w]) /\ HasUser(task[w]) /\ StageOf(task[w]) = "write"
  BY <1>1, TaskFits DEF StageOf
<1>3. task[w].who \in Locals /\ UsersOf(task[w].who) # {}
  BY <1>2 DEF Fits, HasUser, Edits
<1>4. RemoteOK /\ OAuthOK /\ ProfilesOK /\ ActorsOK
  BY DEF BaseInv
<1>5. RemoteOK' /\ OAuthOK'
  BY <1>1, <1>4, RemoteSame, OAuthSame
<1>6. CASE Finish(w) /\ Silence(w) /\ UNCHANGED <<actor, profiles>>
  <2>1. ActorsOK' /\ UsersStay
    BY <1>1, <1>4, <1>6, ActorsSame DEF oauth
  <2>2. silenced' \subseteq Locals
    BY <1>3, <1>4, <1>6 DEF Silence, ProfilesOK
  <2>3. ProfilesOK'
    BY <1>1, <1>4, <1>6, <2>2 DEF ProfilesOK
  <2>4. TasksOK' /\ CountOK'
    BY <1>1, <1>6, <2>1, FinishTask
  <2> QED
    BY <1>5, <2>1, <2>3, <2>4 DEF BaseInv
<1>7. ASSUME NEW f \in Fields,
             profiles < MaxProfiles, profiles' = profiles + 1,
             actor' = [actor EXCEPT ![task[w].who].profile[f] = profiles + 1],
             Stay(w, [task[w] EXCEPT !.form = @ \ {f}, !.wrote = TRUE]),
             UNCHANGED silenced
      PROVE  BaseInv'
  <2>1. profiles' \in 0..MaxProfiles /\ profiles + 1 \in 0..MaxProfiles
    BY <1>4, <1>7, AccountsAssumption DEF ProfilesOK
  <2>2. ProfilesOK'
    BY <1>1, <1>4, <1>7, <2>1 DEF ProfilesOK
  <2>3. PICK a \in Locals : a = task[w].who
    BY <1>3
  <2>4. a \in Actors /\ actor[a] \in Row /\ actor[a] # None
    BY <1>3, <2>3, UserHasActor
  <2>5. PICK old \in Row : old = actor[a]
    BY <2>4
  <2>6. PICK p \in Profile : p = [old.profile EXCEPT ![f] = profiles + 1]
    <3>1. profiles + 1 \in -MaxProfiles..MaxProfiles
      BY <2>1, AccountsAssumption
    <3> QED
      BY <3>1 DEF Row, Profile
  <2>7. PICK row \in Row : row = [old EXCEPT !.profile = p]
    BY DEF Row
  <2>8. actor' = [actor EXCEPT ![a] = row] /\ row.mid = actor[a].mid
    BY <1>7, <2>3, <2>5, <2>6, <2>7 DEF Row
  <2>9. ActorsOK' /\ UsersStay
    BY <1>1, <2>4, <2>8, ActorWrite
  <2> DEFINE t == [task[w] EXCEPT !.form = @ \ {f}, !.wrote = TRUE]
  <2>10. t \in Form /\ t.at = "write" /\ t.who = task[w].who
    BY <1>1, <1>2 DEF Form
  <2> HIDE DEF t
  <2>11. PICK u \in Task : u = t
    BY <2>10, Forms DEF Stages
  <2>12. UsersOf(u.who)' # {}
    BY <1>3, <2>3, <2>9, <2>10, <2>11 DEF UsersStay
  <2>13. Fits(u) /\ HasUser(u)'
    BY <1>3, <2>10, <2>11, <2>12 DEF Fits, HasUser, StageOf, Edits
  <2>14. Owes(task[w])
    BY <1>2 DEF Owes
  <2>15. Stay(w, u)
    BY <1>7, <2>11 DEF t
  <2>16. TasksOK' /\ CountOK'
    BY <1>1, <2>9, <2>11, <2>13, <2>14, <2>15, OnTask
  <2> QED
    BY <1>5, <2>2, <2>9, <2>16 DEF BaseInv
<1> QED
  BY <1>6, <1>7 DEF WriteField, Fields

LEMMA AnnounceBase ==
    ASSUME BaseInv, NEW w \in Workers, Announce(w)
    PROVE  BaseInv'
<1>1. /\ task[w].at = "announce" /\ UNCHANGED <<requests, sequence>> /\ Finish(w)
      /\ UNCHANGED <<actor, users, preferences, remote, oauth, profiles, damaged, foreign>>
  BY DEF Announce, At, Running, tables
<1>2. task[w].who \in Locals /\ task[w].seen \in Document
  BY <1>1, TaskFits DEF Fits, StageOf, Edits
<1>3. RemoteOK /\ OAuthOK /\ ProfilesOK /\ ActorsOK
  BY DEF BaseInv
<1>4. ActorsOK' /\ UsersStay /\ RemoteOK' /\ OAuthOK'
  BY <1>1, <1>3, ActorsSame, RemoteSame, OAuthSame DEF oauth
<1>5. silenced' \subseteq Locals
  BY <1>2, <1>3 DEF Announce, Silence, ProfilesOK
<1>6. announced' \in [Locals -> SUBSET Document]
  BY <1>2, <1>3 DEF Announce, ProfilesOK
<1>7. ProfilesOK'
  BY <1>1, <1>3, <1>5, <1>6 DEF ProfilesOK
<1>8. TasksOK' /\ CountOK'
  BY <1>1, <1>4, FinishTask
<1> QED
  BY <1>4, <1>7, <1>8 DEF BaseInv

LEMMA CrashBase ==
    ASSUME BaseInv, NEW w \in Workers, Crash(w)
    PROVE  BaseInv'
<1>1. /\ UNCHANGED <<requests, sequence>> /\ Finish(w)
      /\ UNCHANGED <<actor, users, preferences, remote, oauth, announced, profiles, foreign>>
  BY DEF Crash, Running, tables
<1>2. RemoteOK /\ OAuthOK /\ ProfilesOK /\ ActorsOK
  BY DEF BaseInv
<1>3. ActorsOK' /\ UsersStay /\ RemoteOK' /\ OAuthOK'
  BY <1>1, <1>2, ActorsSame, RemoteSame, OAuthSame DEF oauth
<1>4. silenced' \subseteq Locals
  BY <1>2, SilentLocal DEF Crash, ProfilesOK
<1>5. damaged' \subseteq Locals
  <2>1. task[w].at = "rows" => task[w].who \in Locals
    BY TaskFits DEF Fits, StageOf
  <2> QED
    BY <1>2, <2>1 DEF Crash, At, ProfilesOK
<1>6. ProfilesOK'
  BY <1>1, <1>2, <1>4, <1>5 DEF ProfilesOK
<1>7. TasksOK' /\ CountOK'
  BY <1>1, <1>3, FinishTask
<1> QED
  BY <1>3, <1>6, <1>7 DEF BaseInv

LEMMA FetchActorBase ==
    ASSUME BaseInv, NEW w \in Workers, FetchActor(w)
    PROVE  BaseInv'
<1>1. /\ task[w].at = "fetch" /\ requests' = requests
      /\ UNCHANGED <<actor, users, preferences, remote, oauth, announced, profiles, history>>
  BY DEF FetchActor, At, Running
<1>2. /\ task[w] \in Form /\ Fits(task[w]) /\ StageOf(task[w]) = "fetch"
  BY <1>1, TaskFits DEF StageOf
<1>3. task[w].url \in Urls /\ task[w].who \in Locals \cup {None} /\ ~task[w].wrote
  BY <1>2 DEF Fits, Form, Edits
<1>4. ActorsOK' /\ RemoteOK' /\ OAuthOK' /\ ProfilesOK' /\ UsersStay
  BY <1>1, TablesSame
<1>5. CASE UNCHANGED sequence /\ Finish(w)
  BY <1>1, <1>4, <1>5, FinishTask DEF BaseInv
<1>6. CASE /\ GenerateMastodonId
           /\ Stay(w, [task[w] EXCEPT
                         !.at = "insert", !.mid = NextVal,
                         !.seen = ForeignDocument(Sanitize(published[IdOf(task[w].url)]))])
  <2>1. PICK p \in Document : p = ForeignDocument(Sanitize(published[IdOf(task[w].url)]))
    <3>1. published[IdOf(task[w].url)] \in Profile
      BY <1>3, AccountsAssumption DEF BaseInv, RemoteOK
    <3> QED
      BY <3>1, SanitizeProfile, ForeignIsDocument
  <2>2. Owes(task[w])
    BY <1>1 DEF Owes
  <2>3. TasksOK /\ CountOK /\ Owing # {}
    BY <2>2 DEF BaseInv, Owing
  <2>4. PICK mid \in Ids : mid = NextVal
    BY <2>3, NextId
  <2> DEFINE t == [task[w] EXCEPT !.at = "insert", !.mid = mid, !.seen = p]
  <2>5. /\ t \in Form /\ t.at = "insert" /\ t.seen = p /\ t.url = task[w].url
        /\ t.who = task[w].who /\ t.wrote = task[w].wrote
    BY <1>2 DEF Form, Stages
  <2>6. Stay(w, t)
    BY <1>6, <2>1, <2>4
  <2> HIDE DEF t
  <2>7. PICK u \in Task : u = t
    BY <2>5, Forms DEF Stages
  <2>8. Fits(u) /\ HasUser(u)' /\ ~Owes(u) /\ Stay(w, u)
    BY <1>3, <2>5, <2>6, <2>7 DEF Fits, HasUser, Owes, StageOf, Edits
  <2>9. TasksOK'
    BY <1>4, <2>3, <2>8, TasksStep
  <2>10. sequence' = sequence + 1 /\ sequence \in Nat /\ requests' \in 0..MaxRequests
         /\ requests \in Nat /\ Debt(u) = 0 /\ Debt(task[w]) = 1
    BY <1>1, <1>6, <2>2, <2>3, <2>8, AccountsAssumption
       DEF GenerateMastodonId, NextVal, CountOK, Debt
  <2>11. /\ sequence' \in Nat
         /\ sequence' + Debt(u) + 2 * requests <= sequence + Debt(task[w]) + 2 * requests'
    BY <1>1, <2>10
  <2>12. CountOK'
    BY <2>3, <2>8, <2>10, <2>11, CountStep
  <2> QED
    BY <1>4, <2>9, <2>12 DEF BaseInv
<1> QED
  BY <1>5, <1>6 DEF FetchActor

LEMMA AddPeerBase ==
    ASSUME BaseInv, NEW w \in Workers, AddPeer(w)
    PROVE  BaseInv'
<1>1. /\ task[w].at = "addPeer" /\ UNCHANGED <<requests, sequence>>
      /\ UNCHANGED <<actor, users, preferences, aliases, published, updates, oauth, announced,
                     profiles, history>>
  BY DEF AddPeer, At, Running, tables
<1>2. /\ task[w] \in Form /\ Fits(task[w]) /\ StageOf(task[w]) = "addPeer"
  BY <1>1, TaskFits DEF StageOf
<1>3. task[w].url \in Urls /\ task[w].who \in Locals \cup {None} /\ ~task[w].wrote
  BY <1>2 DEF Fits, Form, Edits
<1>4. RemoteOK /\ OAuthOK /\ ProfilesOK /\ ActorsOK
  BY DEF BaseInv
<1>5. ActorsOK' /\ UsersStay /\ OAuthOK'
  BY <1>1, <1>4, ActorsSame, OAuthSame DEF oauth
<1>6. ProfilesOK'
  BY <1>1, <1>4 DEF ProfilesOK, history
<1>7. IdOf(task[w].url) \in Actors
  BY <1>3, AccountsAssumption
<1>8. RemoteOK'
  BY <1>1, <1>4, <1>7 DEF AddPeer, RemoteOK
<1>9. CASE Finish(w)
  BY <1>1, <1>5, <1>6, <1>8, <1>9, FinishTask DEF BaseInv
<1>10. CASE task[w].who # None /\ Goto(w, "setAlias")
  <2>1. PICK t \in Task :
            /\ Stay(w, t) /\ t.at = "setAlias" /\ t.then = task[w].then
            /\ t.who = task[w].who
            /\ t.jwt = task[w].jwt /\ t.client = task[w].client /\ t.mid = task[w].mid
            /\ t.url = task[w].url /\ t.seen = task[w].seen /\ t.wrote = task[w].wrote
    BY <1>10, GotoTask DEF Stages
  <2>2. StageOf(t) = "setAlias"
    BY <2>1 DEF StageOf
  <2>3. Fits(t) /\ HasUser(t)' /\ ~Owes(t)
    BY <1>3, <1>10, <2>1, <2>2 DEF Fits, HasUser, Owes, Edits
  <2>4. TasksOK' /\ CountOK'
    BY <1>1, <1>5, <2>1, <2>3, OnTask
  <2> QED
    BY <1>5, <1>6, <1>8, <2>4 DEF BaseInv
<1> QED
  BY <1>9, <1>10 DEF AddPeer

LEMMA SetActorAliasBase ==
    ASSUME BaseInv, NEW w \in Workers, SetActorAlias(w)
    PROVE  BaseInv'
<1>1. /\ task[w].at = "setAlias" /\ UNCHANGED <<requests, sequence>> /\ Finish(w)
      /\ UNCHANGED <<actor, users, preferences, peers, published, updates, oauth, announced,
                     profiles, history>>
  BY DEF SetActorAlias, At, Running, tables
<1>2. /\ task[w] \in Form /\ Fits(task[w]) /\ StageOf(task[w]) = "setAlias"
  BY <1>1, TaskFits DEF StageOf
<1>3. task[w].url \in Urls /\ task[w].who \in Locals
  BY <1>2 DEF Fits
<1>4. RemoteOK /\ OAuthOK /\ ProfilesOK /\ ActorsOK
  BY DEF BaseInv
<1>5. ActorsOK' /\ UsersStay /\ OAuthOK'
  BY <1>1, <1>4, ActorsSame, OAuthSame DEF oauth
<1>6. ProfilesOK'
  BY <1>1, <1>4 DEF ProfilesOK, history
<1>7. IdOf(task[w].url) \in Actors
  BY <1>3, AccountsAssumption
<1>8. aliases' \in [Locals -> SUBSET Actors]
  BY <1>3, <1>4, <1>7 DEF SetActorAlias, RemoteOK
<1>9. RemoteOK'
  BY <1>1, <1>4, <1>8 DEF RemoteOK
<1> QED
  BY <1>1, <1>5, <1>6, <1>9, FinishTask DEF BaseInv

LEMMA GetSubscriptionBase ==
    ASSUME BaseInv, NEW w \in Workers, GetSubscription(w)
    PROVE  BaseInv'
<1>1. /\ task[w].at = "subscription" /\ UNCHANGED <<requests, sequence>>
      /\ UNCHANGED <<actor, users, preferences, remote, oauth, announced, profiles, history>>
  BY DEF GetSubscription, At, Running, tables
<1>2. /\ task[w] \in Form /\ Fits(task[w]) /\ StageOf(task[w]) = "subscription"
  BY <1>1, TaskFits DEF StageOf
<1>3. task[w].who \in Locals /\ task[w].client \in ClientIds /\ ~task[w].wrote
  BY <1>2 DEF Fits, Form, Edits
<1>4. ActorsOK' /\ RemoteOK' /\ OAuthOK' /\ ProfilesOK' /\ UsersStay
  BY <1>1, TablesSame
<1>5. CASE Finish(w)
  BY <1>1, <1>4, <1>5, FinishTask DEF BaseInv
<1>6. CASE Goto(w, "subscribe")
  <2>1. PICK t \in Task :
            /\ Stay(w, t) /\ t.at = "subscribe" /\ t.then = task[w].then
            /\ t.who = task[w].who
            /\ t.jwt = task[w].jwt /\ t.client = task[w].client /\ t.mid = task[w].mid
            /\ t.url = task[w].url /\ t.seen = task[w].seen /\ t.wrote = task[w].wrote
    BY <1>6, GotoTask DEF Stages
  <2>2. StageOf(t) = "subscribe"
    BY <2>1 DEF StageOf
  <2>3. Fits(t) /\ HasUser(t)' /\ ~Owes(t)
    BY <1>3, <2>1, <2>2 DEF Fits, HasUser, Owes, Edits
  <2>4. TasksOK' /\ CountOK'
    BY <1>1, <1>4, <2>1, <2>3, OnTask
  <2> QED
    BY <1>4, <2>4 DEF BaseInv
<1> QED
  BY <1>5, <1>6 DEF GetSubscription

LEMMA CreateSubscriptionBase ==
    ASSUME BaseInv, NEW w \in Workers, CreateSubscription(w)
    PROVE  BaseInv'
<1>1. /\ task[w].at = "subscribe" /\ UNCHANGED <<requests, sequence>> /\ Finish(w)
      /\ UNCHANGED <<actor, users, preferences, remote, clients, credentials, codes, tokens,
                     sessions, announced, profiles, history>>
  BY DEF CreateSubscription, At, Running, tables
<1>2. /\ task[w] \in Form /\ Fits(task[w]) /\ StageOf(task[w]) = "subscribe"
  BY <1>1, TaskFits DEF StageOf
<1>3. PICK a \in Locals, c \in ClientIds : a = task[w].who /\ c = task[w].client
  BY <1>2 DEF Fits
<1>4. RemoteOK /\ OAuthOK /\ ProfilesOK /\ ActorsOK
  BY DEF BaseInv
<1>5. \/ UNCHANGED subscriptions
      \/ actor[a] # None /\ subscriptions' = subscriptions \cup {<<a, c>>}
  BY <1>3 DEF CreateSubscription
<1>6. subscriptions' \subseteq Locals \X ClientIds
  BY <1>4, <1>5 DEF OAuthOK
<1>7. \A s \in subscriptions' : actor[s[1]] # None
  BY <1>4, <1>5 DEF ActorsOK
<1>8. ActorsOK' /\ UsersStay
  BY <1>1, <1>4, <1>7, SameUsersStay DEF ActorsOK, UsersOf
<1>9. OAuthOK'
  BY <1>1, <1>4, <1>6 DEF OAuthOK
<1>10. RemoteOK' /\ ProfilesOK'
  BY <1>1, <1>4, RemoteSame DEF ProfilesOK, history
<1> QED
  BY <1>1, <1>8, <1>9, <1>10, FinishTask DEF BaseInv

\* What is known of a request that is creating an account.
LEMMA RowsTask ==
    ASSUME BaseInv, NEW w \in Workers, task[w].at \in {"rows", "stray"}
    PROVE  /\ task[w] \in Form /\ StageOf(task[w]) = task[w].at /\ Fits(task[w]) /\ ~task[w].wrote
           /\ task[w].who \in Locals /\ task[w].jwt \in Jwts /\ task[w].jwt.email \in Emails
           /\ task[w].client \in ClientIds /\ task[w].mid \in Ids
<1>1. task[w] \in Form /\ StageOf(task[w]) = task[w].at /\ Fits(task[w])
  BY TaskFits DEF StageOf
<1> QED
  BY <1>1 DEF Fits, Form, Edits

\* An outcome is noted.
LEMMA Noted ==
    ASSUME NEW t \in Form, t.at = "rows", Fits(t), ~t.wrote, NEW o \in Outcomes,
           NEW s \in {[t EXCEPT !.prefs = o], [t EXCEPT !.user = o]}
    PROVE  s \in Task /\ s.at = "rows" /\ StageOf(s) = "rows" /\ Fits(s) /\ ~Owes(s)
<1>1. /\ s \in Form /\ s.at = "rows" /\ s.who = t.who /\ s.wrote = t.wrote
      /\ s.jwt = t.jwt /\ s.client = t.client /\ s.url = t.url /\ s.seen = t.seen
  BY DEF Form
<1>2. StageOf(s) = "rows" /\ StageOf(t) = "rows" /\ s \in Task
  BY <1>1, Forms DEF StageOf, Stages
<1> QED
  BY <1>1, <1>2 DEF Fits, Owes, Edits

LEMMA InsertActorPreferencesBase ==
    ASSUME BaseInv, NEW w \in Workers, InsertActorPreferences(w)
    PROVE  BaseInv'
<1>1. /\ task[w].at = "rows" /\ UNCHANGED <<requests, sequence>>
      /\ UNCHANGED <<actor, users, remote, oauth, announced, profiles, history>>
  BY DEF InsertActorPreferences, At, Running
<1>2. /\ task[w] \in Form /\ Fits(task[w]) /\ ~task[w].wrote /\ task[w].who \in Locals
  BY <1>1, RowsTask
<1>3. PICK o \in Outcomes : Stay(w, [task[w] EXCEPT !.prefs = o])
  BY DEF InsertActorPreferences, Outcomes
<1>4. PICK s \in Task : s = [task[w] EXCEPT !.prefs = o] /\ Fits(s) /\ ~Owes(s) /\ s.at = "rows"
                        /\ StageOf(s) = "rows"
  BY <1>1, <1>2, Noted
<1>5. HasUser(s)'
  BY <1>4 DEF HasUser, Edits
<1>6. ActorsOK
  BY DEF BaseInv
<1>7. /\ preferences' \subseteq Locals
      /\ \A a \in preferences' : actor[a] # None
  BY <1>2, <1>6 DEF InsertActorPreferences, ActorsOK
<1>8. ActorsOK' /\ UsersStay
  BY <1>1, <1>6, <1>7, SameUsersStay DEF ActorsOK, UsersOf, oauth
<1>9. TasksOK' /\ CountOK'
  BY <1>1, <1>3, <1>4, <1>5, <1>8, OnTask
<1> QED
  BY <1>1, <1>8, <1>9, RestSame DEF BaseInv

LEMMA InsertUserBase ==
    ASSUME BaseInv, NEW w \in Workers, InsertUser(w)
    PROVE  BaseInv'
<1>1. /\ task[w].at \in {"rows", "stray"} /\ UNCHANGED <<requests, sequence>>
      /\ UNCHANGED <<actor, preferences, remote, oauth, announced, profiles, history>>
  BY DEF InsertUser, At, Running
<1>2. /\ task[w] \in Form /\ Fits(task[w]) /\ ~task[w].wrote /\ task[w].who \in Locals
      /\ task[w].jwt.email \in Emails /\ task[w].mid \in Ids
  BY <1>1, RowsTask
<1>3. ActorsOK
  BY DEF BaseInv
<1>4. ActorsOK' /\ UsersStay
  <2>1. CASE UNCHANGED users
    BY <1>1, <1>3, <2>1, ActorsSame DEF oauth
  <2>2. ASSUME NEW a \in Locals, NEW email \in Emails, NEW mid \in Ids, CanInsertUser(a, email),
               users' = [e \in DOMAIN users \cup {email} |->
                            IF e = email
                            THEN [actor |-> a, key |-> GenerateUserKey(mid, KEK).private]
                            ELSE users[e]]
        PROVE  ActorsOK' /\ UsersStay
    <3>1. PICK row \in UserRow : row = [actor |-> a, key |-> GenerateUserKey(mid, KEK).private]
      BY DEF UserRow, GenerateUserKey, WrapCryptoKey
    <3>2. /\ DOMAIN users' = DOMAIN users \cup {email} /\ users'[email] = row /\ row.actor = a
          /\ email \notin DOMAIN users
          /\ \A e \in DOMAIN users : users'[e] = users[e] /\ users[e].actor # a
          /\ actor[a] # None
      BY <2>2, <3>1 DEF CanInsertUser, UsersOf
    <3>3. /\ DOMAIN users' \subseteq Emails /\ \A e \in DOMAIN users' : users'[e] \in UserRow
          /\ \A e \in DOMAIN users' : actor[users'[e].actor] # None
          /\ \A e, f \in DOMAIN users' : users'[e].actor = users'[f].actor => e = f
      BY <1>3, <3>2 DEF ActorsOK
    <3>4. \A b : UsersOf(b) \subseteq UsersOf(b)'
      BY <3>2 DEF UsersOf
    <3>5. ActorsOK'
      BY <1>1, <1>3, <3>3, <3>4 DEF ActorsOK, oauth
    <3> QED
      BY <3>4, <3>5 DEF UsersStay
  <2> QED
    BY <1>2, <2>1, <2>2 DEF InsertUser
<1>5. TasksOK' /\ CountOK'
  <2>1. CASE Finish(w)
    BY <1>1, <1>4, <2>1, FinishTask
  <2>2. ASSUME NEW o \in Outcomes, task[w].at = "rows", Stay(w, [task[w] EXCEPT !.user = o])
        PROVE  TasksOK' /\ CountOK'
    <3>1. PICK s \in Task : s = [task[w] EXCEPT !.user = o] /\ Fits(s) /\ ~Owes(s) /\ s.at = "rows"
                            /\ StageOf(s) = "rows"
      BY <1>2, <2>2, Noted
    <3>2. HasUser(s)'
      BY <3>1 DEF HasUser, Edits
    <3> QED
      BY <1>1, <1>4, <2>2, <3>1, <3>2, OnTask
  <2> QED
    BY <1>1, <2>1, <2>2 DEF InsertUser, Outcomes
<1> QED
  BY <1>1, <1>4, <1>5, RestSame DEF BaseInv

LEMMA DeleteActorBase ==
    ASSUME BaseInv, NEW w \in Workers, DeleteActor(w)
    PROVE  BaseInv'
<1>1. /\ task[w].at = "rows" /\ UNCHANGED <<requests, sequence>>
      /\ UNCHANGED <<users, remote, oauth, announced, profiles, silenced, foreign>>
  BY DEF DeleteActor, At, Running
<1>2. /\ task[w] \in Form /\ Fits(task[w]) /\ ~task[w].wrote /\ task[w].who \in Locals
      /\ StageOf(task[w]) = "rows"
      /\ task[w].jwt \in Jwts /\ task[w].jwt.email \in Emails /\ task[w].client \in ClientIds
  BY <1>1, RowsTask
<1>3. RemoteOK /\ OAuthOK /\ ProfilesOK /\ ActorsOK
  BY DEF BaseInv
<1>4. RemoteOK' /\ OAuthOK' /\ UsersStay
  BY <1>1, <1>3, RemoteSame, OAuthSame, SameUsersStay
<1>5. PICK a \in Locals : a = task[w].who
  BY <1>2
<1>6. damaged' \subseteq Locals
  BY <1>3, <1>5 DEF DeleteActor, ProfilesOK
<1>7. ProfilesOK'
  BY <1>1, <1>3, <1>6 DEF ProfilesOK
<1>8. ActorsOK'
  <2>1. CASE UNCHANGED <<actor, preferences>>
    BY <1>1, <1>3, <2>1, ActorsSame DEF oauth
  <2>2. CASE /\ CanDeleteActor(a) /\ actor' = [actor EXCEPT ![a] = None]
             /\ preferences' = preferences \ {a}
    <3>1. /\ UsersOf(a) = {} /\ (\A c \in ClientIds : <<a, c>> \notin subscriptions)
      BY <2>2 DEF CanDeleteActor
    <3>2. \A e \in DOMAIN users : users[e].actor # a
      BY <3>1 DEF UsersOf
    <3>3. /\ actor' \in [Actors -> Row \cup {None}] /\ actor'[a] = None
          /\ \A b \in Actors \ {a} : actor'[b] = actor[b]
      BY <1>3, <2>2 DEF ActorsOK, Actors
    <3>4. \A e \in DOMAIN users : users[e].actor \in Actors \ {a}
      BY <1>3, <3>2 DEF ActorsOK, UserRow, Actors
    <3>5. \A s \in subscriptions : s[1] \in Actors \ {a}
      BY <1>3, <3>1 DEF OAuthOK, Actors
    <3>6. \A s \in subscriptions' : actor'[s[1]] # None
      BY <1>1, <1>3, <3>3, <3>5 DEF ActorsOK, oauth
    <3>7. preferences' \subseteq Locals /\ \A b \in preferences' : actor'[b] # None
      BY <1>3, <2>2, <3>3 DEF ActorsOK, Actors
    <3>8. \A b \in Actors : actor'[b] # None /\ actor'[b].mid = Legacy => UsersOf(b)' # {}
      BY <1>3, <1>4, <3>3 DEF ActorsOK, UsersStay
    <3> QED
      BY <1>1, <1>3, <3>3, <3>4, <3>6, <3>7, <3>8 DEF ActorsOK
  <2> QED
    BY <1>5, <2>1, <2>2 DEF DeleteActor
<1>9. TasksOK' /\ CountOK'
  <2>1. CASE Finish(w)
    BY <1>1, <1>4, <2>1, FinishTask
  <2>2. CASE Goto(w, "stray")
    <3>1. PICK t \in Task :
              /\ Stay(w, t) /\ t.at = "stray" /\ t.then = task[w].then
              /\ t.who = task[w].who
              /\ t.jwt = task[w].jwt /\ t.client = task[w].client /\ t.mid = task[w].mid
              /\ t.url = task[w].url /\ t.seen = task[w].seen /\ t.wrote = task[w].wrote
      BY <2>2, GotoTask DEF Stages
    <3>2. StageOf(t) = "stray"
      BY <3>1 DEF StageOf
    <3>3. Fits(t) /\ HasUser(t)' /\ ~Owes(t)
      BY <1>2, <3>1, <3>2 DEF Fits, HasUser, Owes, Edits
    <3> QED
      BY <1>1, <1>4, <3>1, <3>3, OnTask
  <2> QED
    BY <2>1, <2>2 DEF DeleteActor
<1> QED
  BY <1>4, <1>7, <1>8, <1>9 DEF BaseInv

LEMMA RegisteredBase ==
    ASSUME BaseInv, NEW w \in Workers, Registered(w)
    PROVE  BaseInv'
<1>1. /\ task[w].at = "rows" /\ UNCHANGED <<requests, sequence>> /\ Finish(w)
      /\ UNCHANGED <<actor, users, preferences, remote, clients, credentials, tokens, sessions,
                     subscriptions, announced, profiles, history>>
      /\ codes' = codes \cup {Code(task[w].client, task[w].jwt)}
  BY DEF Registered, At, Running, tables
<1>2. task[w].jwt \in Jwts /\ task[w].client \in ClientIds
  BY <1>1, RowsTask
<1>3. RemoteOK /\ OAuthOK /\ ProfilesOK /\ ActorsOK
  BY DEF BaseInv
<1>4. RemoteOK' /\ ProfilesOK' /\ ActorsOK' /\ UsersStay
  BY <1>1, <1>3, RemoteSame, ActorsSame DEF ProfilesOK, history
<1>5. OAuthOK'
  BY <1>1, <1>2, <1>3 DEF OAuthOK
<1> QED
  BY <1>1, <1>4, <1>5, FinishTask DEF BaseInv

\* A request of one step.
LEMMA SingleStep ==
    ASSUME BaseInv, Single, UNCHANGED users, sequence' \in {sequence, NextVal}
    PROVE  TasksOK' /\ CountOK' /\ NextVal \in Ids
<1>1. TasksOK /\ CountOK /\ task' = task /\ requests < MaxRequests /\ requests' = requests + 1
  BY DEF BaseInv, Single, Count
<1>2. requests \in 0..MaxRequests /\ sequence \in Nat
  BY <1>1 DEF CountOK
<1>3. requests' \in 0..MaxRequests /\ sequence' \in Nat
      /\ sequence' + 2 * requests <= sequence + 2 * requests'
  <2>1. requests' \in 0..MaxRequests /\ requests \in Nat
    BY <1>1, <1>2, AccountsAssumption
  <2>2. CASE sequence' = sequence
    BY <1>1, <1>2, <2>1, <2>2
  <2>3. CASE sequence' = sequence + 1
    BY <1>1, <1>2, <2>1, <2>3
  <2> QED
    BY <2>2, <2>3 DEF NextVal
<1> QED
  BY <1>1, <1>3, CountSame, TasksSame, SameUsersStay, NextId

LEMMA OAuthBase ==
    ASSUME BaseInv, OAuthStep
    PROVE  BaseInv'
<1>1. RemoteOK /\ OAuthOK /\ ProfilesOK /\ ActorsOK
  BY DEF BaseInv
<1>2. ASSUME NEW id \in ClientIds, NEW client \in Client, CreateClient(id, client)
      PROVE  BaseInv'
  <2>1. /\ Single /\ UNCHANGED <<actor, users, preferences, sequence, remote, credentials, codes,
                                 tokens, sessions, subscriptions, announced, profiles, history>>
        /\ clients' = [c \in DOMAIN clients \cup {id} |-> IF c = id THEN client ELSE clients[c]]
    BY <1>2 DEF CreateClient, tables
  <2>2. OAuthOK'
    BY <1>1, <2>1 DEF OAuthOK
  <2> QED
    BY <1>1, <2>1, <2>2, SingleStep, RemoteSame, ActorsSame DEF ProfilesOK, history, BaseInv
<1>3. ASSUME NEW id \in ClientIds, NEW uri \in RedirectUris, NEW jwt \in Jwts,
             GrantCode(id, uri, jwt)
      PROVE  BaseInv'
  <2>1. /\ Single /\ UNCHANGED <<actor, users, preferences, sequence, remote, clients, credentials,
                                 tokens, sessions, subscriptions, announced, profiles, history>>
        /\ codes' = codes \cup {Code(id, jwt)}
    BY <1>3 DEF GrantCode, tables
  <2>2. OAuthOK'
    BY <1>1, <2>1 DEF OAuthOK
  <2> QED
    BY <1>1, <2>1, <2>2, SingleStep, RemoteSame, ActorsSame DEF ProfilesOK, history, BaseInv
<1>4. ASSUME NEW grant \in {"authorization_code", "client_credentials"},
             NEW params \in TokenParams(grant), CreateToken(params)
      PROVE  BaseInv'
  <2>1. /\ Single /\ UNCHANGED <<actor, users, preferences, remote, clients, codes,
                                 sessions, subscriptions, announced, profiles, history>>
        /\ sequence' \in {sequence, NextVal}
        /\ tokens' \in {tokens, tokens \cup {params.code}}
        /\ credentials' \in {credentials, credentials \cup {<<params.client, NextVal>>}}
    BY <1>4 DEF CreateToken, GenerateMastodonId
  <2>2. params.code \in codes /\ params.client \in ClientIds
    BY DEF TokenParams
  <2>3. TasksOK' /\ CountOK' /\ NextVal \in Ids
    BY <2>1, SingleStep
  <2>4. OAuthOK'
    BY <1>1, <2>1, <2>2, <2>3 DEF OAuthOK
  <2> QED
    BY <1>1, <2>1, <2>3, <2>4, RemoteSame, ActorsSame DEF ProfilesOK, history, BaseInv
<1>5. ASSUME NEW jwt \in Jwts, EndSession(jwt)
      PROVE  BaseInv'
  <2>1. /\ Single /\ UNCHANGED <<actor, users, preferences, sequence, remote, clients, credentials,
                                 codes, tokens, subscriptions, announced, profiles, history>>
        /\ sessions' = sessions \ {jwt}
    BY <1>5 DEF EndSession, tables
  <2>2. OAuthOK'
    BY <1>1, <2>1 DEF OAuthOK
  <2> QED
    BY <1>1, <2>1, <2>2, SingleStep, RemoteSame, ActorsSame DEF ProfilesOK, history, BaseInv
<1> QED
  BY <1>2, <1>3, <1>4, <1>5 DEF OAuthStep

\* The row that an Update leaves.
UpdatedRow(u, row) ==
    /\ actor' = [actor EXCEPT ![u.actor] = row]
    /\ row.mid = actor[u.actor].mid /\ row.mid # Legacy
    /\ row.key = u.doc.key /\ row.profile = Sanitize(u.doc.profile)

LEMMA UpdateWrites ==
    ASSUME BaseInv, NEW u \in updates, HandleUpdate(u)
    PROVE  \E row \in Row : UpdatedRow(u, row)
<1>1. /\ actor[u.actor] # None /\ actor[u.actor].mid # Legacy
      /\ actor' = [actor EXCEPT ![u.actor] =
                      [@ EXCEPT !.key = u.doc.key, !.profile = Sanitize(u.doc.profile)]]
  BY DEF HandleUpdate
<1>2. u.actor \in Actors /\ u.doc.key \in Keys /\ Sanitize(u.doc.profile) \in Profile
  BY SanitizeProfile DEF BaseInv, RemoteOK, Document
<1>3. PICK old \in Row : old = actor[u.actor]
  BY <1>1, <1>2 DEF BaseInv, ActorsOK
<1> DEFINE row == [old EXCEPT !.key = u.doc.key, !.profile = Sanitize(u.doc.profile)]
<1>4. row \in Row /\ row.mid = old.mid /\ row.key = u.doc.key
      /\ row.profile = Sanitize(u.doc.profile)
  BY <1>2 DEF Row
<1>5. actor' = [actor EXCEPT ![u.actor] = row]
  BY <1>1, <1>3
<1> HIDE DEF row
<1> QED
  BY <1>1, <1>3, <1>4, <1>5 DEF UpdatedRow

LEMMA FederationBase ==
    ASSUME BaseInv, FederationStep
    PROVE  BaseInv'
<1>1. RemoteOK /\ OAuthOK /\ ProfilesOK /\ ActorsOK /\ TasksOK /\ CountOK
  BY DEF BaseInv
<1>2. ASSUME NEW r \in Edited, RemoteEdits(r)
      PROVE  BaseInv'
  <2>1. /\ UNCHANGED <<actor, users, preferences, sequence, peers, aliases, updates, oauth,
                       announced, task, requests, history>>
        /\ profiles < MaxProfiles /\ profiles' = profiles + 1
        /\ published' = [published EXCEPT ![r] = [f \in Fields |-> profiles + 1]]
    BY <1>2 DEF RemoteEdits, tables
  <2>2. profiles' \in 0..MaxProfiles /\ profiles + 1 \in 0..MaxProfiles
    BY <1>1, <2>1, AccountsAssumption DEF ProfilesOK
  <2>3. PICK p \in Profile : p = [f \in Fields |-> profiles + 1]
    <3>1. profiles + 1 \in -MaxProfiles..MaxProfiles
      BY <2>2, AccountsAssumption
    <3> QED
      BY <3>1 DEF Profile
  <2>4. published' \in [Actors -> Profile]
    BY <1>1, <2>1, <2>3 DEF RemoteOK
  <2>5. RemoteOK' /\ ProfilesOK' /\ OAuthOK'
    BY <1>1, <2>1, <2>2, <2>4, OAuthSame DEF RemoteOK, ProfilesOK, history
  <2>6. ActorsOK' /\ UsersStay
    BY <1>1, <2>1, ActorsSame DEF oauth
  <2>7. TasksOK'
    BY <1>1, <2>1, <2>6, TasksSame
  <2>8. CountOK'
    BY <1>1, <2>1 DEF CountOK, Owing, Owes, StageOf
  <2> QED
    BY <2>5, <2>6, <2>7, <2>8 DEF BaseInv
<1>3. ASSUME NEW d \in Deliveries, ReceiveUpdate(d)
      PROVE  BaseInv'
  <2>1. /\ Single
        /\ UNCHANGED <<actor, users, preferences, sequence, peers, aliases, published, oauth,
                       announced, profiles, history>>
        /\ Receive(d.actor, ForeignDocument(published[d.by]))
    BY <1>3 DEF ReceiveUpdate, tables
  <2>2. d.actor \in Actors /\ ForeignDocument(published[d.by]) \in Document
    <3>1. d.actor \in Actors /\ published[d.by] \in Profile
      BY <1>1, AccountsAssumption DEF RemoteOK, Actors
    <3> QED
      BY <3>1, ForeignIsDocument
  <2>3. RemoteOK' /\ ProfilesOK' /\ OAuthOK'
    BY <1>1, <2>1, <2>2, OAuthSame DEF RemoteOK, ProfilesOK, history, Receive
  <2>4. ActorsOK'
    BY <1>1, <2>1, ActorsSame DEF oauth
  <2> QED
    BY <2>1, <2>3, <2>4, SingleStep DEF BaseInv
<1>4. ASSUME NEW a \in Locals, NEW doc \in announced[a], DeliverUpdate(a, doc)
      PROVE  BaseInv'
  <2>1. /\ UNCHANGED <<actor, users, preferences, sequence, peers, aliases, published, oauth,
                       announced, task, requests, profiles, history>>
        /\ Receive(a, doc)
    BY <1>4 DEF DeliverUpdate, tables
  <2>2. a \in Actors /\ doc \in Document
    BY <1>1 DEF ProfilesOK, Actors
  <2>3. RemoteOK' /\ ProfilesOK' /\ OAuthOK'
    BY <1>1, <2>1, <2>2, OAuthSame DEF RemoteOK, ProfilesOK, history, Receive
  <2>4. ActorsOK' /\ UsersStay
    BY <1>1, <2>1, ActorsSame DEF oauth
  <2>5. TasksOK'
    BY <1>1, <2>1, <2>4, TasksSame
  <2>6. CountOK'
    BY <1>1, <2>1 DEF CountOK, Owing, Owes, StageOf
  <2> QED
    BY <2>3, <2>4, <2>5, <2>6 DEF BaseInv
<1>5. ASSUME NEW u \in updates, HandleUpdate(u)
      PROVE  BaseInv'
  <2>1. /\ UNCHANGED <<users, preferences, sequence, peers, published, updates, oauth,
                       announced, task, requests, profiles, damaged, silenced>>
        /\ aliases' = [a \in Locals |-> IF a = u.actor THEN u.doc.aliases ELSE aliases[a]]
        /\ foreign' \in {foreign, foreign \cup ({u.actor} \cap Locals)}
    BY <1>5 DEF HandleUpdate
  <2>2. u.actor \in Actors /\ u.doc \in Document
    BY <1>1 DEF RemoteOK
  <2>3. PICK row \in Row : UpdatedRow(u, row)
    BY <1>5, UpdateWrites
  <2>4. ActorsOK' /\ UsersStay
    BY <2>1, <2>2, <2>3, ActorWrite DEF UpdatedRow
  <2>5. aliases' \in [Locals -> SUBSET Actors]
    BY <1>1, <2>1, <2>2 DEF RemoteOK, Document
  <2>6. RemoteOK' /\ ProfilesOK' /\ OAuthOK'
    BY <1>1, <2>1, <2>5, OAuthSame DEF RemoteOK, ProfilesOK
  <2>7. TasksOK'
    BY <1>1, <2>1, <2>4, TasksSame
  <2>8. CountOK'
    BY <1>1, <2>1 DEF CountOK, Owing, Owes, StageOf
  <2> QED
    BY <2>4, <2>6, <2>7, <2>8 DEF BaseInv
<1> QED
  BY <1>2, <1>3, <1>4, <1>5 DEF FederationStep

LEMMA StutterBase ==
    ASSUME BaseInv, UNCHANGED vars
    PROVE  BaseInv'
<1>1. UNCHANGED <<actor, users, preferences, sequence, remote, oauth, announced, task, requests,
                  profiles, history>>
  BY DEF vars, tables
<1>2. ActorsOK' /\ RemoteOK' /\ OAuthOK' /\ ProfilesOK' /\ UsersStay
  BY <1>1, TablesSame
<1>3. TasksOK'
  BY <1>1, <1>2, TasksSame DEF BaseInv
<1>4. CountOK'
  BY <1>1 DEF BaseInv, CountOK, Owing, Owes, StageOf
<1> QED
  BY <1>2, <1>3, <1>4 DEF BaseInv

LEMMA BaseStep ==
    ASSUME BaseInv, [Next]_vars
    PROVE  BaseInv'
<1>1. ASSUME NEW w \in Workers, RegistrationStep(w) PROVE BaseInv'
  BY <1>1, FirstLoginBase, InsertActorBase, InsertActorPreferencesBase, InsertUserBase,
     DeleteActorBase, RegisteredBase DEF RegistrationStep
<1>2. ASSUME NEW w \in Workers, ProfileStep(w) PROVE BaseInv'
  BY <1>2, UpdateCredentialsBase, WriteFieldBase, ReloadBase, AnnounceBase DEF ProfileStep
<1>3. ASSUME NEW w \in Workers, RemoteStep(w) PROVE BaseInv'
  BY <1>3, ResolveAccountBase, AddAliasBase, FetchActorBase, InsertRemoteActorBase, AddPeerBase,
     SetActorAliasBase DEF RemoteStep
<1>4. ASSUME NEW w \in Workers, PushStep(w) PROVE BaseInv'
  BY <1>4, PushSubscriptionBase, GetSubscriptionBase, CreateSubscriptionBase DEF PushStep
<1>5. ASSUME NEW w \in Workers,
             (\E a \in Actors : GetAccount(w, a)) \/ EnsureMastodonId(w) \/ Crash(w)
      PROVE  BaseInv'
  BY <1>5, GetAccountBase, EnsureBase, CrashBase
<1> QED
  BY <1>1, <1>2, <1>3, <1>4, <1>5, OAuthBase, FederationBase, StutterBase DEF Next

LEMMA BaseInit == Init => BaseInv
<1> SUFFICES ASSUME Init PROVE BaseInv
  OBVIOUS
<1>1. 0 \in Ids /\ Unchanged \in Profile
  BY AccountsAssumption DEF Ids, Unchanged, Profile
<1>2. \A w \in Workers : task[w] = Idle
  BY DEF Init
<1>3. TasksOK
  BY <1>2, IdleFits, Forms DEF Init, TasksOK
<1>4. Owing = {}
  BY <1>2, IdleFits DEF Owing
<1>5. IsFiniteSet(Owing) /\ Cardinality(Owing) = 0
  BY <1>4, FS_EmptySet
<1>6. CountOK
  BY <1>5, AccountsAssumption DEF Init, CountOK
<1>7. RemoteOK /\ ProfilesOK
  BY <1>1, AccountsAssumption DEF Init, RemoteOK, ProfilesOK
<1>8. OAuthOK
  BY AccountsAssumption DEF Init, OAuthOK, Client
<1>9. ActorsOK
  <2>1. PICK mid \in Ids \cup {Legacy} :
           actor = [a \in Actors |->
                      IF a = Founder THEN [mid |-> mid, key |-> 0, profile |-> Unchanged] ELSE None]
    BY <1>1 DEF Init
  <2>2. PICK row \in Row : row = [mid |-> mid, key |-> 0, profile |-> Unchanged]
    BY <1>1 DEF Row, Keys
  <2>3. /\ Founder \in Locals /\ Founder \in Actors
        /\ actor = [a \in Actors |-> IF a = Founder THEN row ELSE None] /\ row # None
    BY <2>1, <2>2, AccountsAssumption, RowAssumption DEF Actors
  <2>4. PICK u \in UserRow : u = [actor |-> Founder, key |-> WrapCryptoKey(0, KEK)]
    BY <1>1, <2>3 DEF UserRow, WrapCryptoKey
  <2>5. /\ DOMAIN users = {FounderJwt.email} /\ users[FounderJwt.email] = u /\ u.actor = Founder
        /\ preferences = {Founder} /\ subscriptions = {}
    BY <2>4 DEF Init
  <2>6. UsersOf(Founder) # {}
    BY <2>5 DEF UsersOf
  <2> QED
    BY <2>3, <2>5, <2>6, AccountsAssumption DEF ActorsOK
<1> QED
  BY <1>3, <1>6, <1>7, <1>8, <1>9 DEF BaseInv

THEOREM BaseHolds == Spec => []BaseInv
<1>1. BaseInv /\ [Next]_vars => BaseInv'
  BY BaseStep
<1> QED
  BY <1>1, BaseInit, PTL DEF Spec

\* The types of the tables, and their foreign and unique keys, for any requests.
THEOREM AccountsTypeOK == Spec => []TypeOK
BY BaseHolds, BaseTypeOK, PTL

-----------------------------------------------------------------------------
(* Identity. *)

\* The steps that write the tables of accounts.
Writes ==
    \/ \E w \in Workers : \/ EnsureMastodonId(w) \/ InsertActor(w) \/ InsertRemoteActor(w)
                          \/ InsertUser(w) \/ DeleteActor(w) \/ WriteField(w)
    \/ \E u \in updates : HandleUpdate(u)

LEMMA WritesOnly ==
    ASSUME [Next]_vars, ~Writes
    PROVE  UNCHANGED <<actor, users>>
<1>1. ASSUME NEW w \in Workers, RegistrationStep(w) PROVE UNCHANGED <<actor, users>>
  BY <1>1 DEF RegistrationStep, FirstLogin, InsertActorPreferences, Registered, tables, Writes
<1>2. ASSUME NEW w \in Workers, ProfileStep(w) PROVE UNCHANGED <<actor, users>>
  BY <1>2 DEF ProfileStep, UpdateCredentials, Reload, Announce, tables, Writes
<1>3. ASSUME NEW w \in Workers, RemoteStep(w) PROVE UNCHANGED <<actor, users>>
  BY <1>3 DEF RemoteStep, ResolveAccount, AddAlias, FetchActor, AddPeer, SetActorAlias, tables,
              Writes
<1>4. ASSUME NEW w \in Workers, PushStep(w) PROVE UNCHANGED <<actor, users>>
  BY <1>4 DEF PushStep, PushSubscription, GetSubscription, CreateSubscription, tables
<1>5. ASSUME NEW w \in Workers,
             (\E a \in Actors : GetAccount(w, a)) \/ EnsureMastodonId(w) \/ Crash(w)
      PROVE  UNCHANGED <<actor, users>>
  BY <1>5 DEF GetAccount, Crash, tables, Writes
<1>6. ASSUME OAuthStep PROVE UNCHANGED <<actor, users>>
  BY <1>6 DEF OAuthStep, CreateClient, GrantCode, CreateToken, EndSession, tables
<1>7. ASSUME FederationStep PROVE UNCHANGED <<actor, users>>
  BY <1>7 DEF FederationStep, RemoteEdits, ReceiveUpdate, DeliverUpdate, tables, Writes
<1>8. CASE UNCHANGED vars
  BY <1>8 DEF vars, tables
<1> QED
  BY <1>1, <1>2, <1>3, <1>4, <1>5, <1>6, <1>7, <1>8 DEF Next

\* A row of users is not changed.
KeepsUsers == \A e \in DOMAIN users : e \in DOMAIN users' /\ users'[e] = users[e]

\* A row of actors keeps its id once that is a number; only an Update replaces its key.
KeepsActors ==
    \A a \in Actors : actor[a] # None /\ actor'[a] # None =>
        /\ actor[a].mid # Legacy => actor'[a].mid = actor[a].mid
        /\ actor'[a].key = actor[a].key \/ \E u \in updates : u.actor = a /\ HandleUpdate(u)

LEMMA InsertUserKeeps ==
    ASSUME NEW w \in Workers, InsertUser(w)
    PROVE  KeepsUsers
<1>1. CASE UNCHANGED users
  BY <1>1 DEF KeepsUsers
<1>2. ASSUME NEW a, NEW email, NEW row, CanInsertUser(a, email),
             users' = [e \in DOMAIN users \cup {email} |-> IF e = email THEN row ELSE users[e]]
      PROVE  KeepsUsers
  BY <1>2 DEF KeepsUsers, CanInsertUser
<1> QED
  BY <1>1, <1>2 DEF InsertUser

\* One row is written.
LEMMA OneRow ==
    ASSUME BaseInv, NEW a \in Actors, NEW row, actor' = [actor EXCEPT ![a] = row],
           \/ actor[a] = None \/ row = None
           \/ row.key = actor[a].key /\ (actor[a].mid # Legacy => row.mid = actor[a].mid)
    PROVE  KeepsActors
<1>1. /\ actor'[a] = row /\ \A b \in Actors \ {a} : actor'[b] = actor[b]
  BY DEF BaseInv, ActorsOK
<1> QED
  BY <1>1 DEF KeepsActors

LEMMA WritesKeep ==
    ASSUME BaseInv, Writes
    PROVE  KeepsUsers /\ KeepsActors
<1>1. UNCHANGED actor => KeepsActors
  BY DEF KeepsActors
<1>2. UNCHANGED users => KeepsUsers
  BY DEF KeepsUsers
<1>3. ActorsOK /\ RemoteOK
  BY DEF BaseInv
<1>4. ASSUME NEW w \in Workers, EnsureMastodonId(w) PROVE KeepsUsers /\ KeepsActors
  <2>1. UpdateActorMastodonId(task[w].who, task[w].mid) /\ UNCHANGED users /\ task[w].at = "ensure"
    BY <1>4 DEF EnsureMastodonId, At
  <2>2. UsersOf(task[w].who) # {}
    BY <2>1, TaskFits DEF HasUser
  <2>3. PICK a \in Actors : a = task[w].who /\ actor[a] \in Row
    BY <2>2, UserHasActor
  <2>4. PICK old \in Row : old = actor[a]
    BY <2>3
  <2> DEFINE row == [old EXCEPT !.mid = IF @ = Legacy THEN task[w].mid ELSE @]
  <2>5. row.key = old.key /\ (old.mid # Legacy => row.mid = old.mid)
    BY DEF Row
  <2>6. actor' = [actor EXCEPT ![a] = row]
    BY <2>1, <2>3, <2>4 DEF UpdateActorMastodonId
  <2> HIDE DEF row
  <2> QED
    BY <1>2, <2>1, <2>4, <2>5, <2>6, OneRow
<1>5. ASSUME NEW w \in Workers, InsertActor(w) PROVE KeepsUsers /\ KeepsActors
  <2>1. task[w].at = "insertActor" /\ UNCHANGED users
    BY <1>5 DEF InsertActor, At
  <2>2. task[w].who \in Actors
    BY <2>1, TaskFits DEF Fits, StageOf, Actors
  <2> QED
    BY <1>1, <1>2, <1>5, <2>1, <2>2, OneRow DEF InsertActor, InsertActorRow
<1>6. ASSUME NEW w \in Workers, InsertRemoteActor(w) PROVE KeepsUsers /\ KeepsActors
  <2>1. task[w].at = "insert" /\ UNCHANGED users
    BY <1>6 DEF InsertRemoteActor, At
  <2>2. IdOf(task[w].url) \in Actors
    BY <2>1, TaskFits, AccountsAssumption DEF Fits, StageOf
  <2> QED
    BY <1>1, <1>2, <1>6, <2>1, <2>2, OneRow DEF InsertRemoteActor, InsertActorRow
<1>7. ASSUME NEW w \in Workers, InsertUser(w) PROVE KeepsUsers /\ KeepsActors
  BY <1>1, <1>7, InsertUserKeeps DEF InsertUser
<1>8. ASSUME NEW w \in Workers, DeleteActor(w) PROVE KeepsUsers /\ KeepsActors
  <2>1. task[w].at = "rows" /\ UNCHANGED users
    BY <1>8 DEF DeleteActor, At
  <2>2. task[w].who \in Actors
    BY <2>1, RowsTask DEF Actors
  <2> QED
    BY <1>1, <1>2, <1>8, <2>1, <2>2, OneRow DEF DeleteActor
<1>9. ASSUME NEW w \in Workers, WriteField(w) PROVE KeepsUsers /\ KeepsActors
  <2>1. task[w].at = "write" /\ UNCHANGED users
    BY <1>9 DEF WriteField, At
  <2>2. UsersOf(task[w].who) # {}
    BY <2>1, TaskFits DEF HasUser, StageOf, Edits
  <2>3. PICK a \in Actors : a = task[w].who /\ actor[a] \in Row
    BY <2>2, UserHasActor
  <2>4. PICK old \in Row : old = actor[a]
    BY <2>3
  <2>5. ASSUME NEW f \in Fields, actor' = [actor EXCEPT ![task[w].who].profile[f] = profiles + 1]
        PROVE  KeepsActors
    <3> DEFINE row == [old EXCEPT !.profile[f] = profiles + 1]
    <3>1. row.key = old.key /\ row.mid = old.mid
      BY DEF Row
    <3>2. actor' = [actor EXCEPT ![a] = row]
      BY <2>3, <2>4, <2>5
    <3> HIDE DEF row
    <3> QED
      BY <2>4, <3>1, <3>2, OneRow
  <2> QED
    BY <1>1, <1>2, <1>9, <2>1, <2>5 DEF WriteField, Fields
<1>10. ASSUME NEW u \in updates, HandleUpdate(u) PROVE KeepsUsers /\ KeepsActors
  <2>1. PICK row \in Row : UpdatedRow(u, row)
    BY <1>10, UpdateWrites
  <2>2. UNCHANGED users /\ u.actor \in Actors
    BY <1>3, <1>10 DEF HandleUpdate, RemoteOK
  <2>3. /\ actor'[u.actor] = row /\ row.mid = actor[u.actor].mid
        /\ \A b \in Actors \ {u.actor} : actor'[b] = actor[b]
    BY <1>3, <2>1, <2>2 DEF UpdatedRow, ActorsOK
  <2> QED
    BY <1>2, <1>10, <2>2, <2>3 DEF KeepsActors
<1> QED
  BY <1>4, <1>5, <1>6, <1>7, <1>8, <1>9, <1>10 DEF Writes

LEMMA StepKeeps ==
    ASSUME BaseInv, [Next]_vars
    PROVE  KeepsUsers /\ KeepsActors
<1>1. CASE ~Writes
  BY <1>1, WritesOnly DEF KeepsUsers, KeepsActors
<1> QED
  BY <1>1, WritesKeep

\* An address stays that of its actor, and a Mastodon id that is a number stays, for any
\* number of registrations and of requests that replace the UUID at the same time.
THEOREM IdentityHolds == Spec => IdentityIsFinal
<1>1. BaseInv /\ [Next]_vars =>
        [/\ \A e \in DOMAIN users : e \in DOMAIN users' /\ users'[e] = users[e]
         /\ \A a \in Actors :
               (actor[a] # None /\ actor[a].mid # Legacy /\ actor'[a] # None) =>
                   actor'[a].mid = actor[a].mid]_vars
  BY StepKeeps DEF KeepsUsers, KeepsActors
<1> QED
  BY <1>1, BaseHolds, PTL DEF Spec, IdentityIsFinal

-----------------------------------------------------------------------------
(* Documents. *)

\* What the step of a request leaves of the tasks.
LEMMA Put ==
    ASSUME BaseInv, NEW w \in Workers, NEW t, Stay(w, t)
    PROVE  task'[w] = t /\ \A v \in Workers \ {w} : task'[v] = task[v]
BY DEF BaseInv, TasksOK, Stay

LEMMA PutIdle ==
    ASSUME BaseInv, NEW w \in Workers, Finish(w)
    PROVE  task'[w] = Idle /\ \A v \in Workers \ {w} : task'[v] = task[v]
BY Put DEF Finish

\* The request does not create an account, before the step or after it.
Elsewhere(w) == task[w].at # "rows" /\ task'[w].at # "rows"

\* What the request is about to announce, it has read, or had in hand before.
SeenKept(w) ==
    StageOf(task'[w]) = "announce" =>
        \/ Reload(w)
        \/ /\ StageOf(task[w]) = "announce"
           /\ task'[w].who = task[w].who /\ task'[w].seen = task[w].seen

LEMMA LoadElsewhere ==
    ASSUME BaseInv, NEW w \in Workers, NEW a, NEW t \in Form, Load(w, a, t),
           t.at # "rows", task[w].at # "rows"
    PROVE  /\ Elsewhere(w) /\ \A v \in Workers \ {w} : task'[v] = task[v]
           /\ t.at # "ensure" => StageOf(task'[w]) = t.at
<1>1. CASE Stay(w, t)
  BY <1>1, Put DEF Elsewhere, StageOf
<1>2. CASE Stay(w, [t EXCEPT !.at = "ensure", !.then = t.at, !.mid = NextVal])
  <2> DEFINE s == [t EXCEPT !.at = "ensure", !.then = t.at, !.mid = NextVal]
  <2>1. s.at = "ensure" /\ s.then = t.at
    BY DEF Form
  <2>2. Stay(w, s)
    BY <1>2
  <2> HIDE DEF s
  <2> QED
    BY <2>1, <2>2, Put DEF Elsewhere, StageOf
<1> QED
  BY <1>1, <1>2 DEF Load

LEMMA GotoElsewhere ==
    ASSUME BaseInv, NEW w \in Workers, NEW s \in Stages, Goto(w, s), s # "rows",
           task[w].at # "rows"
    PROVE  /\ Elsewhere(w) /\ \A v \in Workers \ {w} : task'[v] = task[v]
           /\ task'[w].at = s /\ task'[w].who = task[w].who /\ task'[w].seen = task[w].seen
<1>1. PICK t \in Task : /\ Stay(w, t) /\ t.at = s
                        /\ t.who = task[w].who /\ t.seen = task[w].seen
  BY GotoTask
<1> QED
  BY <1>1, Put DEF Elsewhere

LEMMA FinishElsewhere ==
    ASSUME BaseInv, NEW w \in Workers, Finish(w), task[w].at # "rows"
    PROVE  Elsewhere(w) /\ SeenKept(w) /\ \A v \in Workers \ {w} : task'[v] = task[v]
BY PutIdle DEF Elsewhere, SeenKept, StageOf, Idle

LEMMA StartElsewhere ==
    ASSUME BaseInv, NEW w \in Workers, Start(w)
    PROVE  task[w].at # "rows"
BY DEF Start, At

\* The steps of requests that neither create an account nor insert its user.
OtherStep(w) ==
    \/ \E jwt \in Jwts, a \in Locals, id \in DOMAIN clients : FirstLogin(w, jwt, a, id)
    \/ ProfileStep(w) \/ RemoteStep(w) \/ PushStep(w)
    \/ \E a \in Actors : GetAccount(w, a)
    \/ EnsureMastodonId(w)

LEMMA OtherElsewhere ==
    ASSUME BaseInv, NEW w \in Workers, OtherStep(w)
    PROVE  Elsewhere(w) /\ SeenKept(w) /\ \A v \in Workers \ {w} : task'[v] = task[v]
<1> DEFINE Done == Elsewhere(w) /\ SeenKept(w) /\ \A v \in Workers \ {w} : task'[v] = task[v]
<1>1. ASSUME NEW jwt \in Jwts, NEW a \in Locals, NEW id \in DOMAIN clients,
             FirstLogin(w, jwt, a, id)
      PROVE  Done
  <2> DEFINE t == [Idle EXCEPT !.at = "insertActor", !.who = a, !.jwt = jwt, !.client = id,
                               !.mid = NextVal]
  <2>1. t.at = "insertActor"
    BY DEF Idle
  <2>2. Stay(w, t) /\ Start(w)
    BY <1>1 DEF FirstLogin
  <2> HIDE DEF t
  <2> QED
    BY <2>1, <2>2, Put, StartElsewhere DEF Elsewhere, SeenKept, StageOf
<1>2. CASE ProfileStep(w)
  <2>1. ASSUME NEW token \in tokens, NEW a \in Locals, NEW form \in SUBSET Fields,
               UpdateCredentials(w, token, a, form)
        PROVE  Done
    <3> DEFINE t == [Idle EXCEPT !.at = "write", !.who = a, !.form = form,
                                 !.seen = ActorFromRow(a)]
    <3>1. Load(w, a, t) /\ Start(w) /\ actor[a] # None
      BY <2>1 DEF UpdateCredentials, Load, SelectActorBy
    <3>2. ActorFromRow(a) \in Document
      BY <3>1, ActorRead
    <3>3. t \in Form /\ t.at = "write"
      BY <3>2, Forms DEF Idle, Form, Stages, Actors
    <3> HIDE DEF t
    <3> QED
      BY <3>1, <3>3, LoadElsewhere, StartElsewhere DEF SeenKept
  <2>2. CASE WriteField(w)
    <3>1. task[w] \in Form /\ task[w].at = "write"
      BY <2>2, TaskFits DEF WriteField, At
    <3>2. CASE Finish(w)
      BY <3>1, <3>2, FinishElsewhere
    <3>3. ASSUME NEW f \in Fields, Stay(w, [task[w] EXCEPT !.form = @ \ {f}, !.wrote = TRUE])
          PROVE  Done
      <4> DEFINE t == [task[w] EXCEPT !.form = @ \ {f}, !.wrote = TRUE]
      <4>1. t.at = "write"
        BY <3>1 DEF Form
      <4>2. Stay(w, t)
        BY <3>3
      <4> HIDE DEF t
      <4> QED
        BY <3>1, <4>1, <4>2, Put DEF Elsewhere, SeenKept, StageOf
    <3> QED
      BY <2>2, <3>2, <3>3 DEF WriteField, Fields
  <2>3. CASE Reload(w)
    <3>1. task[w] \in Form /\ task[w].at = "write"
      BY <2>3, TaskFits DEF Reload, At
    <3>2. PICK a \in Locals : a = task[w].who
      BY <3>1, TaskFits DEF Fits, StageOf, Edits
    <3> DEFINE t == [task[w] EXCEPT !.at = "announce", !.seen = ActorFromRow(a)]
    <3>3. Load(w, a, t) /\ actor[a] # None
      BY <2>3, <3>2 DEF Reload, Load, SelectActorBy
    <3>4. ActorFromRow(a) \in Document
      BY <3>3, ActorRead
    <3>5. t \in Form /\ t.at = "announce"
      BY <3>1, <3>4 DEF Form, Stages
    <3> HIDE DEF t
    <3> QED
      BY <2>3, <3>1, <3>3, <3>5, LoadElsewhere DEF SeenKept
  <2>4. CASE Announce(w)
    BY <2>4, FinishElsewhere DEF Announce, At
  <2> QED
    BY <1>2, <2>1, <2>2, <2>3, <2>4 DEF ProfileStep
<1>3. CASE RemoteStep(w)
  <2>1. ASSUME NEW t, Start(w), Stay(w, t), t.at \in {"fetch", "setAlias"} PROVE Done
    BY <2>1, Put, StartElsewhere DEF Elsewhere, SeenKept, StageOf
  <2>2. ASSUME NEW handle \in Handles, NEW url \in Urls, ResolveAccount(w, handle, url) PROVE Done
    <3>1. [Idle EXCEPT !.at = "fetch", !.url = url].at = "fetch"
      BY DEF Idle
    <3> QED
      BY <2>1, <2>2, <3>1 DEF ResolveAccount
  <2>3. ASSUME NEW handle \in Handles, NEW url \in Urls, NEW a \in Locals,
               AddAlias(w, a, handle, url)
        PROVE  Done
    <3>1. [Idle EXCEPT !.at = IF Cached(url) THEN "setAlias" ELSE "fetch",
                       !.who = a, !.url = url].at \in {"fetch", "setAlias"}
      BY DEF Idle
    <3> QED
      BY <2>1, <2>3, <3>1 DEF AddAlias
  <2>4. CASE FetchActor(w)
    <3>1. task[w] \in Form /\ task[w].at = "fetch"
      BY <2>4, TaskFits DEF FetchActor, At
    <3>2. CASE Finish(w)
      BY <3>1, <3>2, FinishElsewhere
    <3> DEFINE t == [task[w] EXCEPT
                       !.at = "insert", !.mid = NextVal,
                       !.seen = ForeignDocument(Sanitize(published[IdOf(task[w].url)]))]
    <3>3. t.at = "insert"
      BY <3>1 DEF Form
    <3>4. Finish(w) \/ Stay(w, t)
      BY <2>4 DEF FetchActor
    <3> HIDE DEF t
    <3> QED
      BY <3>1, <3>2, <3>3, <3>4, Put DEF Elsewhere, SeenKept, StageOf
  <2>5. CASE InsertRemoteActor(w) \/ AddPeer(w) \/ SetActorAlias(w)
    <3>1. task[w].at # "rows" /\ (Finish(w) \/ Goto(w, "addPeer") \/ Goto(w, "setAlias"))
      BY <2>5 DEF InsertRemoteActor, AddPeer, SetActorAlias, At
    <3> QED
      BY <3>1, FinishElsewhere, GotoElsewhere DEF Stages, SeenKept, StageOf
  <2> QED
    BY <1>3, <2>2, <2>3, <2>4, <2>5 DEF RemoteStep
<1>4. CASE PushStep(w)
  <2>1. ASSUME NEW token \in tokens, NEW a \in Locals, PushSubscription(w, token, a) PROVE Done
    <3> DEFINE t == [Idle EXCEPT !.at = "subscription", !.who = a, !.client = token.client]
    <3>1. Load(w, a, t) /\ Start(w) /\ token.client \in ClientIds
      BY <2>1, ActsIsUser DEF PushSubscription
    <3>2. t \in Form /\ t.at = "subscription"
      BY <3>1, Forms DEF Idle, Form, Stages, Actors
    <3> HIDE DEF t
    <3> QED
      BY <3>1, <3>2, LoadElsewhere, StartElsewhere DEF SeenKept
  <2>2. CASE GetSubscription(w) \/ CreateSubscription(w)
    <3>1. task[w].at # "rows" /\ (Finish(w) \/ Goto(w, "subscribe"))
      BY <2>2 DEF GetSubscription, CreateSubscription, At
    <3> QED
      BY <3>1, FinishElsewhere, GotoElsewhere DEF Stages, SeenKept, StageOf
  <2> QED
    BY <1>4, <2>1, <2>2 DEF PushStep
<1>5. ASSUME NEW a \in Actors, GetAccount(w, a) PROVE Done
  <2> DEFINE t == [Idle EXCEPT !.who = a]
  <2>1. t \in Form /\ t.at = "idle"
    BY Forms DEF Idle, Form
  <2>2. Load(w, a, t) /\ Start(w)
    BY <1>5 DEF GetAccount
  <2> HIDE DEF t
  <2> QED
    BY <2>1, <2>2, LoadElsewhere, StartElsewhere DEF SeenKept
<1>6. CASE EnsureMastodonId(w)
  <2>1. task[w].at = "ensure" /\ (Finish(w) \/ (task[w].then # "idle" /\ Goto(w, task[w].then)))
    BY <1>6 DEF EnsureMastodonId, At
  <2>2. task[w].then \in Edits \cup {"idle", "subscription"}
    BY <2>1, TaskFits DEF Fits
  <2>3. task[w].then # "idle" =>
            task[w].then \in Stages /\ task[w].then \notin {"rows", "ensure"}
    BY <2>2 DEF Edits, Stages
  <2>4. StageOf(task[w]) = task[w].then
    BY <2>1 DEF StageOf
  <2> QED
    BY <2>1, <2>3, <2>4, FinishElsewhere, GotoElsewhere DEF SeenKept, StageOf
<1> QED
  BY <1>1, <1>2, <1>3, <1>4, <1>5, <1>6 DEF OtherStep

\* The public key in a document: that of another server, or that of the local actor whose
\* document it is, who stays, unless what another server made has written the row.
DocsOK ==
    /\ \A u \in updates :
          u.doc.key = ForeignKey \/ (u.actor \in Locals /\ u.doc \in announced[u.actor])
    /\ \A a \in Locals : announced[a] # {} => UsersOf(a) # {}
    /\ \A a \in Locals \ foreign : \A doc \in announced[a] : doc.key = actor[a].key
    /\ \A w \in Workers : StageOf(task[w]) = "announce" /\ task[w].who \notin foreign =>
          task[w].seen.key = actor[task[w].who].key

\* A local actor keeps its key, unless ...
KeepsKeys ==
    /\ foreign \subseteq foreign'
    /\ \A a \in Locals \ foreign' : actor[a] # None /\ actor'[a] # None =>
          actor'[a].key = actor[a].key

LEMMA ForeignStays ==
    ASSUME [Next]_vars
    PROVE  foreign \subseteq foreign'
<1>1. CASE UNCHANGED foreign
  BY <1>1
<1>2. CASE \E w \in Workers : InsertRemoteActor(w)
  BY <1>2 DEF InsertRemoteActor
<1>3. CASE \E u \in updates : HandleUpdate(u)
  BY <1>3 DEF HandleUpdate
<1>4. ASSUME NEW w \in Workers,
             RegistrationStep(w) \/ ProfileStep(w) \/ PushStep(w) \/ Crash(w)
             \/ EnsureMastodonId(w) \/ \E a \in Actors : GetAccount(w, a)
      PROVE  UNCHANGED foreign
  BY <1>4 DEF RegistrationStep, FirstLogin, InsertActor, InsertActorPreferences, InsertUser,
              DeleteActor, Registered, ProfileStep, UpdateCredentials, WriteField, Reload, Announce,
              PushStep, PushSubscription, GetSubscription, CreateSubscription, Crash,
              EnsureMastodonId, GetAccount, history
<1>5. ASSUME NEW w \in Workers, RemoteStep(w), ~InsertRemoteActor(w)
      PROVE  UNCHANGED foreign
  BY <1>5 DEF RemoteStep, ResolveAccount, AddAlias, FetchActor, AddPeer, SetActorAlias, history
<1>6. ASSUME OAuthStep \/ UNCHANGED vars
      PROVE  UNCHANGED foreign
  BY <1>6 DEF OAuthStep, CreateClient, GrantCode, CreateToken, EndSession, vars, history
<1>7. ASSUME FederationStep, ~\E u \in updates : HandleUpdate(u)
      PROVE  UNCHANGED foreign
  BY <1>7 DEF FederationStep, RemoteEdits, ReceiveUpdate, DeliverUpdate, history
<1> QED
  BY <1>1, <1>2, <1>3, <1>4, <1>5, <1>6, <1>7 DEF Next

LEMMA KeysStay ==
    ASSUME BaseInv, DocsOK, [Next]_vars
    PROVE  KeepsUsers /\ KeepsKeys
<1>1. KeepsUsers /\ KeepsActors /\ foreign \subseteq foreign'
  BY StepKeeps, ForeignStays
<1>2. ASSUME NEW a \in Locals \ foreign', NEW u \in updates, u.actor = a, HandleUpdate(u)
      PROVE  actor'[a].key = actor[a].key
  <2>1. PICK row \in Row : UpdatedRow(u, row)
    BY <1>2, UpdateWrites
  <2>2. actor'[a].key = u.doc.key
    BY <1>2, <2>1 DEF UpdatedRow, BaseInv, ActorsOK, Actors
  <2>3. u.doc.key # ForeignKey /\ a \notin foreign
    BY <1>1, <1>2 DEF HandleUpdate
  <2> QED
    BY <1>2, <2>2, <2>3 DEF DocsOK
<1> QED
  BY <1>1, <1>2 DEF KeepsActors, KeepsKeys, Actors

LEMMA ReloadSees ==
    ASSUME BaseInv, NEW w \in Workers, Reload(w), NEW a \in Locals, a = task[w].who
    PROVE  /\ task'[w].who = a /\ task'[w].seen = ActorFromRow(a)
           /\ task'[w].wrote = task[w].wrote
           /\ \A v \in Workers \ {w} : task'[v] = task[v]
<1>1. task[w] \in Form
  BY TaskFits
<1> DEFINE t == [task[w] EXCEPT !.at = "announce", !.seen = ActorFromRow(a)]
<1>2. Load(w, a, t)
  BY DEF Reload
<1>3. ActorFromRow(a) \in Document
  BY <1>2, ActorRead DEF Load, SelectActorBy
<1>4. /\ t \in Form /\ t.who = a /\ t.seen = ActorFromRow(a) /\ t.wrote = task[w].wrote
  BY <1>1, <1>3 DEF Form, Stages
<1> HIDE DEF t
<1> DEFINE s == [t EXCEPT !.at = "ensure", !.then = t.at, !.mid = NextVal]
<1>5. s.who = t.who /\ s.seen = t.seen /\ s.wrote = t.wrote
  BY <1>4 DEF Form
<1>6. Stay(w, t) \/ Stay(w, s)
  BY <1>2 DEF Load
<1> HIDE DEF s
<1> QED
  BY <1>4, <1>5, <1>6, Put

\* What a step adds to the queues of this server.
Queued ==
    /\ \A a \in Locals : announced[a] \subseteq announced'[a]
    /\ \A u \in updates' : \/ u \in updates \/ u.doc.key = ForeignKey
                           \/ u.actor \in Locals /\ u.doc \in announced[u.actor]
    /\ \A a \in Locals : \A doc \in announced'[a] :
          doc \in announced[a]
          \/ (UsersOf(a) # {} /\ (a \notin foreign => doc.key = actor[a].key))

LEMMA DocsStep ==
    ASSUME BaseInv, BaseInv', DocsOK, KeepsUsers, KeepsKeys, Queued,
           \A w \in Workers : SeenKept(w)
    PROVE  DocsOK'
<1>1. \A a \in Locals : UsersOf(a) # {} => UsersOf(a)' # {} /\ actor[a] # None /\ actor'[a] # None
  <2>1. \A a \in Locals : UsersOf(a) # {} => UsersOf(a)' # {}
    BY DEF KeepsUsers, UsersOf
  <2> QED
    BY <2>1 DEF BaseInv, ActorsOK, UsersOf
<1>2. ASSUME NEW u \in updates'
      PROVE  u.doc.key = ForeignKey \/ (u.actor \in Locals /\ u.doc \in announced'[u.actor])
  BY DEF DocsOK, Queued
<1>3. ASSUME NEW a \in Locals, announced'[a] # {} PROVE UsersOf(a)' # {}
  <2>1. UsersOf(a) # {}
    BY <1>3 DEF DocsOK, Queued
  <2> QED
    BY <1>1, <2>1
<1>4. ASSUME NEW a \in Locals \ foreign', NEW doc \in announced'[a]
      PROVE  doc.key = actor'[a].key
  <2>1. a \notin foreign /\ UsersOf(a) # {} /\ doc.key = actor[a].key
    BY <1>4 DEF DocsOK, KeepsKeys, Queued
  <2> QED
    BY <1>1, <2>1 DEF KeepsKeys
<1>5. ASSUME NEW w \in Workers, StageOf(task'[w]) = "announce", task'[w].who \notin foreign'
      PROVE  task'[w].seen.key = actor'[task'[w].who].key
  <2>1. CASE Reload(w)
    <3>1. PICK a \in Locals : a = task[w].who /\ UsersOf(a) # {}
      BY <2>1, TaskFits DEF Reload, At, Fits, HasUser, StageOf, Edits
    <3>2. task'[w].who = a /\ task'[w].seen = ActorFromRow(a)
      BY <2>1, <3>1, ReloadSees
    <3>3. task'[w].seen.key = actor[a].key
      BY <3>2 DEF ActorFromRow
    <3> QED
      BY <1>1, <1>5, <3>1, <3>2, <3>3 DEF KeepsKeys
  <2>2. CASE /\ StageOf(task[w]) = "announce"
             /\ task'[w].who = task[w].who /\ task'[w].seen = task[w].seen
    <3>1. PICK a \in Locals : a = task[w].who /\ UsersOf(a) # {}
      BY <2>2, TaskFits DEF Fits, HasUser, Edits
    <3>2. task[w].seen.key = actor[a].key
      BY <1>5, <2>2, <3>1 DEF DocsOK, KeepsKeys
    <3> QED
      BY <1>1, <1>5, <2>2, <3>1, <3>2 DEF KeepsKeys
  <2> QED
    BY <1>5, <2>1, <2>2 DEF SeenKept
<1>6. \A w \in Workers : StageOf(task[w])' = StageOf(task'[w])
  BY DEF StageOf
<1> QED
  BY <1>2, <1>3, <1>4, <1>5, <1>6 DEF DocsOK

\* The steps of registrations and deaths announce nothing.
LEMMA RegistrationSeen ==
    ASSUME BaseInv, NEW w \in Workers, RegistrationStep(w) \/ Crash(w)
    PROVE  SeenKept(w) /\ \A v \in Workers \ {w} : task'[v] = task[v]
<1> DEFINE Done == SeenKept(w) /\ \A v \in Workers \ {w} : task'[v] = task[v]
<1>1. CASE OtherStep(w)
  BY <1>1, OtherElsewhere
<1>2. CASE Finish(w)
  BY <1>2, PutIdle DEF SeenKept, StageOf, Idle
<1>3. ASSUME NEW s \in Stages, Goto(w, s), s \notin {"announce", "ensure"} PROVE Done
  <2>1. PICK t \in Task : Stay(w, t) /\ t.at = s
    BY <1>3, GotoTask
  <2> QED
    BY <1>3, <2>1, Put DEF SeenKept, StageOf
<1>4. ASSUME NEW t, Stay(w, t), t.at = "rows" PROVE Done
  BY <1>4, Put DEF SeenKept, StageOf
<1>5. ASSUME task[w].at = "rows", NEW o,
             \/ Stay(w, [task[w] EXCEPT !.prefs = o]) \/ Stay(w, [task[w] EXCEPT !.user = o])
      PROVE  Done
  <2>1. [task[w] EXCEPT !.prefs = o].at = "rows" /\ [task[w] EXCEPT !.user = o].at = "rows"
    BY <1>5, TaskFits DEF Form
  <2> QED
    BY <1>4, <1>5, <2>1
<1>6. CASE InsertActor(w)
  BY <1>2, <1>3, <1>6 DEF InsertActor, Stages
<1>7. CASE InsertActorPreferences(w)
  BY <1>5, <1>7 DEF InsertActorPreferences, At
<1>8. CASE InsertUser(w)
  BY <1>2, <1>5, <1>8 DEF InsertUser, At
<1>9. CASE DeleteActor(w)
  BY <1>2, <1>3, <1>9 DEF DeleteActor, Stages
<1>10. CASE Registered(w) \/ Crash(w)
  BY <1>2, <1>10 DEF Registered, Crash
<1> QED
  BY <1>1, <1>6, <1>7, <1>8, <1>9, <1>10 DEF RegistrationStep, OtherStep

LEMMA NextSeen ==
    ASSUME BaseInv, [Next]_vars
    PROVE  \A w \in Workers : SeenKept(w)
<1>1. ASSUME NEW w \in Workers, SeenKept(w) /\ \A v \in Workers \ {w} : task'[v] = task[v]
      PROVE  \A v \in Workers : SeenKept(v)
  BY <1>1 DEF SeenKept
<1>2. CASE UNCHANGED task
  BY <1>2 DEF SeenKept
<1>3. ASSUME NEW w \in Workers, OtherStep(w) \/ RegistrationStep(w) \/ Crash(w)
      PROVE  \A v \in Workers : SeenKept(v)
  BY <1>1, <1>3, OtherElsewhere, RegistrationSeen
<1>4. CASE OAuthStep \/ FederationStep \/ UNCHANGED vars
  BY <1>2, <1>4 DEF OAuthStep, CreateClient, GrantCode, CreateToken, EndSession, FederationStep,
     RemoteEdits, ReceiveUpdate, DeliverUpdate, HandleUpdate, Single, vars
<1> QED
  BY <1>3, <1>4 DEF Next, OtherStep

LEMMA NextQueued ==
    ASSUME BaseInv, DocsOK, [Next]_vars
    PROVE  Queued
<1> DEFINE Mono == \A a \in Locals : announced[a] \subseteq announced'[a]
           Ups == \A u \in updates' :
                     \/ u \in updates \/ u.doc.key = ForeignKey
                     \/ u.actor \in Locals /\ u.doc \in announced[u.actor]
           Docs == \A a \in Locals : \A doc \in announced'[a] :
                     doc \in announced[a]
                     \/ (UsersOf(a) # {} /\ (a \notin foreign => doc.key = actor[a].key))
<1>1. CASE UNCHANGED <<announced, updates>>
  BY <1>1 DEF Queued
<1>2. ASSUME NEW w \in Workers, Announce(w) PROVE Mono /\ Ups /\ Docs
  <2>1. task[w].at = "announce" /\ StageOf(task[w]) = "announce" /\ UNCHANGED updates
    BY <1>2 DEF Announce, At, StageOf, remote
  <2>2. PICK a \in Locals : a = task[w].who /\ UsersOf(a) # {}
    BY <2>1, TaskFits DEF Fits, HasUser, Edits
  <2>3. a \notin foreign => task[w].seen.key = actor[a].key
    BY <2>1, <2>2 DEF DocsOK
  <2>4. announced' \in {announced, [announced EXCEPT ![a] = @ \cup {task[w].seen}]}
    BY <1>2, <2>2 DEF Announce
  <2>5. announced \in [Locals -> SUBSET Document]
    BY DEF BaseInv, ProfilesOK
  <2>6. Mono /\ Docs
    BY <2>2, <2>3, <2>4, <2>5
  <2> QED
    BY <2>1, <2>6
<1>3. ASSUME NEW d \in Deliveries, ReceiveUpdate(d) PROVE Mono /\ Ups /\ Docs
  <2>1. UNCHANGED announced /\ Receive(d.actor, ForeignDocument(published[d.by]))
    BY <1>3 DEF ReceiveUpdate
  <2> QED
    BY <2>1 DEF Receive, ForeignDocument
<1>4. ASSUME NEW a \in Locals, NEW doc \in announced[a], DeliverUpdate(a, doc)
      PROVE  Mono /\ Ups /\ Docs
  <2>1. UNCHANGED announced /\ Receive(a, doc)
    BY <1>4 DEF DeliverUpdate
  <2> QED
    BY <2>1 DEF Receive
<1>5. ASSUME NEW w \in Workers, ~Announce(w),
             OtherStep(w) \/ RegistrationStep(w) \/ Crash(w)
      PROVE  UNCHANGED <<announced, updates>>
  <2>1. ASSUME RegistrationStep(w) \/ ProfileStep(w) \/ PushStep(w)
        PROVE  UNCHANGED <<announced, updates>>
    BY <1>5, <2>1 DEF RegistrationStep, FirstLogin, InsertActor, InsertActorPreferences, InsertUser,
       DeleteActor, Registered, ProfileStep, UpdateCredentials, WriteField, Reload, PushStep,
       PushSubscription, GetSubscription, CreateSubscription, remote
  <2>2. ASSUME \/ RemoteStep(w) \/ Crash(w) \/ EnsureMastodonId(w)
               \/ \E a \in Actors : GetAccount(w, a)
        PROVE  UNCHANGED <<announced, updates>>
    BY <2>2 DEF RemoteStep, ResolveAccount, AddAlias, FetchActor, InsertRemoteActor, AddPeer,
       SetActorAlias, Crash, EnsureMastodonId, GetAccount, remote
  <2> QED
    BY <1>5, <2>1, <2>2 DEF OtherStep, RegistrationStep
<1>6. ASSUME OAuthStep \/ UNCHANGED vars
      PROVE  UNCHANGED <<announced, updates>>
  BY <1>6 DEF OAuthStep, CreateClient, GrantCode, CreateToken, EndSession, vars, remote
<1>7. ASSUME FederationStep,
             ~\E d \in Deliveries : ReceiveUpdate(d),
             ~\E a \in Locals : \E doc \in announced[a] : DeliverUpdate(a, doc)
      PROVE  UNCHANGED <<announced, updates>>
  BY <1>7 DEF FederationStep, RemoteEdits, HandleUpdate
<1>8. Mono /\ Ups /\ Docs => Queued
  BY DEF Queued
<1> HIDE DEF Mono, Ups, Docs
<1> QED
  BY <1>1, <1>2, <1>3, <1>4, <1>5, <1>6, <1>7, <1>8 DEF Next, OtherStep

LEMMA DocsPreserved ==
    ASSUME BaseInv, DocsOK, [Next]_vars
    PROVE  DocsOK'
<1>1. BaseInv'
  BY BaseStep
<1> QED
  BY <1>1, KeysStay, NextSeen, NextQueued, DocsStep

LEMMA DocsInit == Init => DocsOK
<1> SUFFICES ASSUME Init PROVE DocsOK
  OBVIOUS
<1>1. \A w \in Workers : StageOf(task[w]) # "announce"
  BY DEF Init, StageOf, Idle
<1>2. updates = {} /\ \A a \in Locals : announced[a] = {}
  BY DEF Init
<1> QED
  BY <1>1, <1>2 DEF DocsOK

THEOREM DocsHold == Spec => []DocsOK
<1>1. BaseInv /\ DocsOK /\ [Next]_vars => DocsOK'
  BY DocsPreserved
<1> QED
  BY <1>1, DocsInit, BaseHolds, PTL DEF Spec

-----------------------------------------------------------------------------
(* Registration. *)

\* A local account is whole.
Complete(a) ==
    /\ a \in preferences
    /\ \E e \in UsersOf(a) : actor[a].key \in UnwrapPrivateKey(users[e].key, KEK)

\* What the invariant leaves out.
Exempt(a) == a \in damaged \cup foreign

\* What a request that is creating an account has written.
RowsOK(w) ==
    At(w, "rows") =>
        /\ actor[task[w].who] # None
        /\ task[w].prefs = "ok" => task[w].who \in preferences
        /\ task[w].who \notin foreign => actor[task[w].who].key = task[w].mid
        /\ task[w].user = "ok" /\ task[w].who \notin foreign =>
              \E e \in UsersOf(task[w].who) :
                  actor[task[w].who].key \in UnwrapPrivateKey(users[e].key, KEK)

\* An account is created by one request.
OneCreator ==
    \A v, w \in Workers : At(v, "rows") /\ At(w, "rows") /\ task[v].who = task[w].who => v = w

AtomicInv == (\A w \in Workers : RowsOK(w)) /\ OneCreator /\ RegistrationAtomic

KeepsPreferences == \A a \in Locals : a \in preferences /\ actor'[a] # None => a \in preferences'

\* A local account is neither removed nor added, but by another server.
SameLocals ==
    \A a \in Locals : /\ actor[a] # None => actor'[a] # None
                      /\ actor'[a] # None => actor[a] # None \/ a \in foreign'

LEMMA StaysComplete ==
    ASSUME BaseInv, BaseInv', KeepsUsers, KeepsKeys, KeepsPreferences,
           NEW a \in Locals, actor'[a] # None, a \notin foreign'
    PROVE  /\ actor[a] # None /\ Complete(a) => Complete(a)'
           /\ \A e \in UsersOf(a) :
                 actor[a] # None /\ actor[a].key \in UnwrapPrivateKey(users[e].key, KEK) =>
                     e \in UsersOf(a)' /\ actor'[a].key \in UnwrapPrivateKey(users'[e].key, KEK)
<1>1. \A e \in UsersOf(a) :
          actor[a] # None /\ actor[a].key \in UnwrapPrivateKey(users[e].key, KEK) =>
              e \in UsersOf(a)' /\ actor'[a].key \in UnwrapPrivateKey(users'[e].key, KEK)
  BY DEF KeepsUsers, KeepsKeys, UsersOf, Actors
<1>2. a \in preferences => a \in preferences'
  BY DEF KeepsPreferences
<1> QED
  BY <1>1, <1>2 DEF Complete

\* A request that goes on creating what it is creating.
LEMMA RowsStay ==
    ASSUME BaseInv, BaseInv', KeepsUsers, KeepsKeys, KeepsPreferences, NEW w \in Workers,
           RowsOK(w), task'[w] = task[w], At(w, "rows") => actor'[task[w].who] # None
    PROVE  RowsOK(w)'
<1> SUFFICES ASSUME At(w, "rows") PROVE RowsOK(w)'
  BY DEF RowsOK, At
<1>1. PICK a \in Locals : a = task[w].who
  BY RowsTask DEF At
<1>2. /\ actor[a] # None /\ actor'[a] # None
      /\ task[w].prefs = "ok" => a \in preferences
      /\ a \notin foreign => actor[a].key = task[w].mid
      /\ task[w].user = "ok" /\ a \notin foreign =>
            \E e \in UsersOf(a) : actor[a].key \in UnwrapPrivateKey(users[e].key, KEK)
  BY <1>1 DEF RowsOK
<1>3. a \notin foreign' => a \notin foreign /\ actor'[a].key = task[w].mid
  BY <1>2 DEF KeepsKeys
<1>4. task[w].prefs = "ok" => a \in preferences'
  BY <1>2 DEF KeepsPreferences
<1>5. task[w].user = "ok" /\ a \notin foreign' =>
          \E e \in UsersOf(a)' : actor'[a].key \in UnwrapPrivateKey(users'[e].key, KEK)
  BY <1>2, <1>3, StaysComplete
<1>6. task'[w].who = a /\ task'[w].mid = task[w].mid /\ task'[w].prefs = task[w].prefs
      /\ task'[w].user = task[w].user
  BY <1>1
<1>7. UsersOf(task[w].who)' = UsersOf(a)'
  BY <1>6 DEF UsersOf
<1> QED
  BY <1>2, <1>3, <1>4, <1>5, <1>6, <1>7 DEF RowsOK

\* What a step has to say of registrations.
LEMMA AtomicStep ==
    ASSUME BaseInv, BaseInv', AtomicInv, KeepsUsers, KeepsKeys, KeepsPreferences,
           damaged \subseteq damaged',
           \A w \in Workers : RowsOK(w)', OneCreator',
           \A a \in Locals : actor[a] = None /\ actor'[a] # None =>
                                 InCreation(a)' \/ a \in foreign',
           \A a \in Locals : InCreation(a) /\ ~InCreation(a)' =>
                                 Complete(a)' \/ actor'[a] = None \/ Exempt(a)'
    PROVE  AtomicInv'
<1> SUFFICES ASSUME NEW a \in Locals, actor'[a] # None, ~InCreation(a)',
                    a \notin damaged', a \notin foreign'
             PROVE  Complete(a)'
  BY DEF AtomicInv, RegistrationAtomic, SignsForItself, Complete
<1>1. CASE InCreation(a)
  BY <1>1 DEF Exempt
<1>2. CASE ~InCreation(a)
  <2>1. actor[a] # None /\ a \notin damaged /\ a \notin foreign
    BY DEF KeepsKeys
  <2>2. Complete(a)
    BY <1>2, <2>1 DEF AtomicInv, RegistrationAtomic, SignsForItself, Complete
  <2> QED
    BY <2>1, <2>2, StaysComplete
<1> QED
  BY <1>1, <1>2

\* A step that is not one of a request that is creating an account.
LEMMA OtherAtomic ==
    ASSUME BaseInv, BaseInv', AtomicInv, KeepsUsers, KeepsKeys, UNCHANGED preferences,
           damaged \subseteq damaged', SameLocals,
           \A w \in Workers : task[w].at = "rows" \/ task'[w].at = "rows" => task'[w] = task[w]
    PROVE  AtomicInv'
<1>1. KeepsPreferences
  BY DEF KeepsPreferences
<1>2. ASSUME NEW w \in Workers PROVE RowsOK(w)'
  <2>1. CASE At(w, "rows")'
    <3>1. task'[w] = task[w] /\ At(w, "rows")
      BY <2>1 DEF At
    <3>2. task[w].who \in Locals
      BY <3>1, RowsTask DEF At
    <3>3. RowsOK(w)
      BY DEF AtomicInv
    <3>4. actor'[task[w].who] # None
      BY <3>1, <3>2, <3>3 DEF RowsOK, SameLocals
    <3> QED
      BY <1>1, <3>1, <3>3, <3>4, RowsStay
  <2>2. CASE ~At(w, "rows")'
    BY <2>2 DEF RowsOK
  <2> QED
    BY <2>1, <2>2
<1>3. \A w \in Workers : (At(w, "rows")' <=> At(w, "rows")) /\ (At(w, "rows") => task'[w] = task[w])
  BY DEF At
<1>4. OneCreator'
  BY <1>3 DEF AtomicInv, OneCreator
<1>5. \A a \in Locals : InCreation(a)' <=> InCreation(a)
  BY <1>3 DEF InCreation
<1> QED
  BY <1>1, <1>2, <1>4, <1>5, AtomicStep DEF SameLocals

LEMMA OtherActors ==
    ASSUME BaseInv, BaseInv', NEW w \in Workers, OtherStep(w)
    PROVE  SameLocals
<1>1. ASSUME EnsureMastodonId(w) \/ WriteField(w) PROVE SameLocals
  <2>1. task[w].at \in {"ensure", "write"} /\ UNCHANGED users
    BY <1>1 DEF EnsureMastodonId, WriteField, At
  <2>2. UsersOf(task[w].who) # {}
    BY <2>1, TaskFits DEF HasUser, StageOf, Edits
  <2>3. PICK a \in Locals : a = task[w].who
    BY <2>2, UserHasActor
  <2>4. UsersOf(a) # {} /\ UsersOf(a)' # {}
    BY <2>1, <2>2, <2>3 DEF UsersOf
  <2>5. actor[a] # None
    BY <2>4, UserHasActor
  <2>6. actor'[a] # None
    BY <2>4 DEF BaseInv, ActorsOK, UsersOf
  <2>7. \A b \in Actors \ {a} : actor'[b] = actor[b]
    BY <1>1, <2>3 DEF EnsureMastodonId, UpdateActorMastodonId, WriteField, BaseInv, ActorsOK
  <2> QED
    BY <2>5, <2>6, <2>7 DEF Actors, SameLocals
<1>2. ASSUME InsertRemoteActor(w) PROVE SameLocals
  <2>1. task[w].at = "insert"
    BY <1>2 DEF InsertRemoteActor, At
  <2>2. PICK id \in Actors : id = IdOf(task[w].url)
    BY <2>1, TaskFits, AccountsAssumption DEF Fits, StageOf
  <2>3. CASE UNCHANGED actor
    BY <2>3 DEF SameLocals
  <2>4. CASE actor[id] = None /\ foreign' = foreign \cup ({id} \cap Locals)
             /\ \A b \in Actors \ {id} : actor'[b] = actor[b]
    BY <2>4 DEF SameLocals, Actors
  <2> QED
    BY <1>2, <2>2, <2>3, <2>4 DEF InsertRemoteActor, InsertActorRow, BaseInv, ActorsOK
<1>3. CASE ~EnsureMastodonId(w) /\ ~WriteField(w) /\ ~InsertRemoteActor(w)
  <2>1. UNCHANGED actor
    BY <1>3 DEF OtherStep, FirstLogin, ProfileStep, UpdateCredentials, Reload, Announce,
         RemoteStep, ResolveAccount, AddAlias, FetchActor, AddPeer, SetActorAlias, PushStep,
         PushSubscription, GetSubscription, CreateSubscription, GetAccount, tables
  <2> QED
    BY <2>1 DEF SameLocals
<1> QED
  BY <1>1, <1>2, <1>3

LEMMA FederationActors ==
    ASSUME BaseInv, BaseInv', FederationStep
    PROVE  SameLocals
<1>1. ASSUME NEW u \in updates, HandleUpdate(u) PROVE SameLocals
  <2>1. PICK row \in Row : UpdatedRow(u, row)
    BY <1>1, UpdateWrites
  <2>2. u.actor \in Actors /\ actor[u.actor] # None
    BY <1>1 DEF HandleUpdate, BaseInv, RemoteOK
  <2>3. actor'[u.actor] = row /\ \A b \in Actors \ {u.actor} : actor'[b] = actor[b]
    BY <2>1, <2>2 DEF UpdatedRow, BaseInv, ActorsOK
  <2> QED
    BY <2>2, <2>3, RowAssumption DEF SameLocals, Actors
<1>2. UNCHANGED actor => SameLocals
  BY DEF SameLocals
<1> QED
  BY <1>1, <1>2 DEF FederationStep, RemoteEdits, ReceiveUpdate, DeliverUpdate, tables

LEMMA OtherStepAtomic ==
    ASSUME BaseInv, BaseInv', DocsOK, AtomicInv, [Next]_vars, NEW w \in Workers, OtherStep(w)
    PROVE  AtomicInv'
<1>1. Elsewhere(w) /\ \A v \in Workers \ {w} : task'[v] = task[v]
  BY OtherElsewhere
<1>2. UNCHANGED <<preferences, damaged>>
  BY DEF OtherStep, FirstLogin, ProfileStep, UpdateCredentials, WriteField, Reload, Announce,
         RemoteStep, ResolveAccount, AddAlias, FetchActor, InsertRemoteActor, AddPeer,
         SetActorAlias, PushStep, PushSubscription, GetSubscription, CreateSubscription,
         GetAccount, EnsureMastodonId, tables, history
<1>3. \A v \in Workers : task[v].at = "rows" \/ task'[v].at = "rows" => task'[v] = task[v]
  BY <1>1 DEF Elsewhere
<1>4. KeepsUsers /\ KeepsKeys
  BY KeysStay
<1> QED
  BY <1>2, <1>3, <1>4, OtherActors, OtherAtomic

\* A request stops creating an account, which is whole, gone or damaged.
LEMMA EndAtomic ==
    ASSUME BaseInv, BaseInv', AtomicInv, KeepsUsers, KeepsKeys, KeepsPreferences,
           damaged \subseteq damaged', NEW w \in Workers, task[w].at = "rows",
           task'[w].at # "rows", \A v \in Workers \ {w} : task'[v] = task[v],
           NEW a \in Locals, a = task[w].who, \A b \in Locals \ {a} : actor'[b] = actor[b],
           actor'[a] = None \/ (actor'[a] = actor[a] /\ (Complete(a)' \/ Exempt(a)'))
    PROVE  AtomicInv'
<1>1. ASSUME NEW v \in Workers, At(v, "rows")'
      PROVE  v # w /\ At(v, "rows") /\ task'[v] = task[v] /\ task[v].who \in Locals \ {a}
             /\ actor'[task[v].who] # None
  <2>1. v # w /\ At(v, "rows") /\ task'[v] = task[v]
    BY <1>1 DEF At
  <2>2. task[v].who \in Locals
    BY <2>1, RowsTask DEF At
  <2>3. task[v].who # a
    BY <2>1 DEF AtomicInv, OneCreator, At
  <2>4. actor[task[v].who] # None
    BY <2>1 DEF AtomicInv, RowsOK
  <2> QED
    BY <2>1, <2>2, <2>3, <2>4
<1>2. ASSUME NEW v \in Workers PROVE RowsOK(v)'
  <2>1. CASE At(v, "rows")'
    <3>1. RowsOK(v) /\ task'[v] = task[v] /\ actor'[task[v].who] # None
      BY <1>1, <2>1 DEF AtomicInv
    <3> QED
      BY <3>1, RowsStay
  <2>2. CASE ~At(v, "rows")'
    BY <2>2 DEF RowsOK
  <2> QED
    BY <2>1, <2>2
<1>3. OneCreator'
  BY <1>1 DEF AtomicInv, OneCreator
<1>4. \A b \in Locals : actor[b] = None /\ actor'[b] # None => InCreation(b)' \/ b \in foreign'
  OBVIOUS
<1>5. ASSUME NEW b \in Locals, InCreation(b), ~InCreation(b)' PROVE b = a
  <2>1. PICK v \in Workers : At(v, "rows") /\ task[v].who = b
    BY <1>5 DEF InCreation
  <2>2. v = w
    <3>1. SUFFICES ASSUME v # w PROVE FALSE
      OBVIOUS
    <3>2. task'[v] = task[v]
      BY <3>1
    <3> QED
      BY <1>5, <2>1, <3>2 DEF InCreation, At
  <2> QED
    BY <2>1, <2>2
<1>6. \A b \in Locals : InCreation(b) /\ ~InCreation(b)' =>
                            Complete(b)' \/ actor'[b] = None \/ Exempt(b)'
  BY <1>5
<1> QED
  BY <1>2, <1>3, <1>4, <1>6, AtomicStep

LEMMA SameActors == ASSUME UNCHANGED actor PROVE SameLocals
BY DEF SameLocals

LEMMA SamePreferences == ASSUME UNCHANGED preferences PROVE KeepsPreferences
BY DEF KeepsPreferences

\* Nothing that registrations read changes.
LEMMA SameAtomic ==
    ASSUME BaseInv, BaseInv', DocsOK, AtomicInv, [Next]_vars, SameLocals,
           UNCHANGED <<preferences, damaged, task>>
    PROVE  AtomicInv'
<1>1. KeepsUsers /\ KeepsKeys
  BY KeysStay
<1>2. \A w \in Workers : task[w].at = "rows" \/ task'[w].at = "rows" => task'[w] = task[w]
  OBVIOUS
<1> QED
  BY <1>1, <1>2, OtherAtomic

LEMMA CrashAtomic ==
    ASSUME BaseInv, BaseInv', DocsOK, AtomicInv, [Next]_vars, NEW w \in Workers, Crash(w)
    PROVE  AtomicInv'
<1>1. /\ UNCHANGED <<actor, users, preferences>> /\ Finish(w) /\ damaged \subseteq damaged'
      /\ task[w].at = "rows" => task[w].who \in damaged'
  BY DEF Crash, tables, At
<1>2. task'[w] = Idle /\ \A v \in Workers \ {w} : task'[v] = task[v]
  BY <1>1, PutIdle
<1>3. KeepsUsers /\ KeepsKeys /\ KeepsPreferences
  BY <1>1, KeysStay, SamePreferences
<1>4. Idle.at # "rows"
  BY DEF Idle
<1>5. CASE task[w].at = "rows"
  <2>1. PICK a \in Locals : a = task[w].who
    BY <1>5, RowsTask
  <2> QED
    BY <1>1, <1>2, <1>3, <1>4, <1>5, <2>1, EndAtomic DEF Exempt
<1>6. CASE task[w].at # "rows"
  <2>1. \A v \in Workers : task[v].at = "rows" \/ task'[v].at = "rows" => task'[v] = task[v]
    BY <1>2, <1>4, <1>6
  <2> QED
    BY <1>1, <1>3, <2>1, SameActors, OtherAtomic
<1> QED
  BY <1>5, <1>6

LEMMA RegisteredAtomic ==
    ASSUME BaseInv, BaseInv', DocsOK, AtomicInv, [Next]_vars, NEW w \in Workers, Registered(w)
    PROVE  AtomicInv'
<1>1. /\ UNCHANGED <<actor, users, preferences, damaged, foreign>> /\ Finish(w)
      /\ task[w].at = "rows" /\ task[w].prefs = "ok" /\ task[w].user = "ok"
  BY DEF Registered, tables, history, At
<1>2. task'[w] = Idle /\ \A v \in Workers \ {w} : task'[v] = task[v]
  BY <1>1, PutIdle
<1>3. KeepsUsers /\ KeepsKeys /\ KeepsPreferences
  BY <1>1, KeysStay, SamePreferences
<1>4. Idle.at # "rows"
  BY DEF Idle
<1>5. PICK a \in Locals : a = task[w].who
  BY <1>1, RowsTask
<1>6. Complete(a) \/ a \in foreign
  BY <1>1, <1>5 DEF AtomicInv, RowsOK, At, Complete
<1>7. Complete(a)' \/ Exempt(a)'
  BY <1>1, <1>6 DEF Complete, Exempt, UsersOf
<1> QED
  BY <1>1, <1>2, <1>3, <1>4, <1>5, <1>7, EndAtomic

LEMMA DeleteActorAtomic ==
    ASSUME BaseInv, BaseInv', DocsOK, AtomicInv, [Next]_vars, NEW w \in Workers, DeleteActor(w)
    PROVE  AtomicInv'
<1>1. task[w].at = "rows" /\ (Finish(w) \/ Goto(w, "stray"))
  BY DEF DeleteActor, At
<1>2. task'[w].at # "rows" /\ \A v \in Workers \ {w} : task'[v] = task[v]
  <2>1. CASE Finish(w)
    BY <2>1, PutIdle DEF Idle
  <2>2. CASE Goto(w, "stray")
    <3>1. PICK t \in Task : Stay(w, t) /\ t.at = "stray"
      BY <2>2, GotoTask DEF Stages
    <3> QED
      BY <3>1, Put
  <2> QED
    BY <1>1, <2>1, <2>2
<1>3. KeepsUsers /\ KeepsKeys
  BY KeysStay
<1>4. PICK a \in Locals : a = task[w].who
  BY <1>1, RowsTask
<1>5. ActorsOK
  BY DEF BaseInv
<1>6. \/ CanDeleteActor(a) /\ actor' = [actor EXCEPT ![a] = None] /\ preferences' = preferences \ {a}
         /\ damaged' = damaged
      \/ damaged' = damaged \cup {a} /\ UNCHANGED <<actor, preferences>>
  BY <1>4 DEF DeleteActor
<1>7. /\ \A b \in Locals \ {a} : actor'[b] = actor[b]
      /\ actor'[a] = None \/ (actor'[a] = actor[a] /\ a \in damaged')
      /\ damaged \subseteq damaged'
  BY <1>5, <1>6 DEF ActorsOK, Actors
<1>8. KeepsPreferences
  BY <1>5, <1>6 DEF KeepsPreferences, ActorsOK, Actors
<1> QED
  BY <1>1, <1>2, <1>3, <1>4, <1>7, <1>8, EndAtomic DEF Exempt

LEMMA InsertActorAtomic ==
    ASSUME BaseInv, BaseInv', DocsOK, AtomicInv, [Next]_vars, NEW w \in Workers, InsertActor(w)
    PROVE  AtomicInv'
<1>1. task[w].at = "insertActor" /\ UNCHANGED <<users, preferences, damaged>>
  BY DEF InsertActor, At, history
<1>2. KeepsUsers /\ KeepsKeys /\ KeepsPreferences
  BY <1>1, KeysStay, SamePreferences
<1>3. CASE UNCHANGED actor /\ Finish(w)
  <2>1. task'[w] = Idle /\ Idle.at # "rows" /\ \A v \in Workers \ {w} : task'[v] = task[v]
    BY <1>3, PutIdle DEF Idle
  <2>2. \A v \in Workers : task[v].at = "rows" \/ task'[v].at = "rows" => task'[v] = task[v]
    BY <1>1, <2>1
  <2> QED
    BY <1>1, <1>2, <1>3, <2>2, SameActors, OtherAtomic
<1>4. CASE /\ InsertActorRow(task[w].who, [mid |-> task[w].mid,
                                           key |-> GenerateUserKey(task[w].mid, KEK).public,
                                           profile |-> Unchanged])
           /\ Goto(w, "rows")
  <2>1. StageOf(task[w]) = "insertActor" /\ Fits(task[w])
    BY <1>1, TaskFits DEF StageOf
  <2>2. PICK a \in Locals : a = task[w].who
    BY <2>1 DEF Fits
  <2>3. task[w].prefs = "pending" /\ task[w].user = "pending"
    BY <2>1 DEF Fits
  <2>4. PICK t \in Task : /\ Stay(w, t) /\ t.at = "rows" /\ t.who = task[w].who
                          /\ t.mid = task[w].mid /\ t.prefs = task[w].prefs
                          /\ t.user = task[w].user
    BY <1>4, GotoTask DEF Stages
  <2>5. task'[w] = t /\ \A v \in Workers \ {w} : task'[v] = task[v]
    BY <2>4, Put
  <2>6. /\ actor[a] = None /\ a \in Actors
        /\ actor' = [actor EXCEPT ![a] = [mid |-> t.mid, key |-> t.mid, profile |-> Unchanged]]
    BY <1>4, <2>2, <2>4 DEF InsertActorRow, GenerateUserKey, Actors
  <2>7. /\ actor'[a] = [mid |-> t.mid, key |-> t.mid, profile |-> Unchanged]
        /\ \A b \in Actors \ {a} : actor'[b] = actor[b]
    BY <2>6 DEF BaseInv, ActorsOK
  <2>8. actor'[a].key = t.mid
    BY <2>7
  <2>9. actor'[a] # None
    <3>1. t.mid \in Ids /\ Unchanged \in Profile
      BY Forms, AccountsAssumption DEF Form, Unchanged, Profile
    <3>2. actor'[a] \in Row
      BY <2>7, <3>1 DEF Row, Keys
    <3> QED
      BY <3>2, RowAssumption
  <2>10. ASSUME NEW v \in Workers \ {w}, At(v, "rows")'
         PROVE  At(v, "rows") /\ task[v].who \in Locals \ {a} /\ actor'[task[v].who] # None
    <3>1. At(v, "rows") /\ task'[v] = task[v]
      BY <2>5, <2>10 DEF At
    <3>2. task[v].who \in Locals /\ actor[task[v].who] # None
      BY <3>1, RowsTask DEF At, AtomicInv, RowsOK
    <3> QED
      BY <2>6, <2>7, <3>1, <3>2 DEF Actors
  <2>11. ASSUME NEW v \in Workers PROVE RowsOK(v)'
    <3>1. CASE v = w
      <4>1. task'[w].who = a /\ task'[w].mid = t.mid /\ task'[w].prefs # "ok" /\ task'[w].user # "ok"
        BY <2>2, <2>3, <2>4, <2>5
      <4> QED
        BY <2>8, <2>9, <3>1, <4>1 DEF RowsOK
    <3>2. CASE v # w /\ At(v, "rows")'
      <4>1. RowsOK(v) /\ task'[v] = task[v] /\ actor'[task[v].who] # None
        BY <2>5, <2>10, <3>2 DEF AtomicInv
      <4> QED
        BY <1>2, <4>1, RowsStay
    <3>3. CASE ~At(v, "rows")'
      BY <3>3 DEF RowsOK
    <3> QED
      BY <3>1, <3>2, <3>3
  <2>12. OneCreator'
    <3> SUFFICES ASSUME NEW u \in Workers, NEW v \in Workers, At(u, "rows")', At(v, "rows")',
                        task'[u].who = task'[v].who
                 PROVE  u = v
      BY DEF OneCreator
    <3>1. task'[w].who = a
      BY <2>2, <2>4, <2>5
    <3>2. CASE u # w /\ v # w
      BY <2>5, <2>10, <3>2 DEF AtomicInv, OneCreator
    <3>3. CASE u = w /\ v # w
      BY <2>5, <2>10, <3>1, <3>3
    <3>4. CASE u # w /\ v = w
      BY <2>5, <2>10, <3>1, <3>4
    <3> QED
      BY <3>2, <3>3, <3>4
  <2>13. \A b \in Locals : actor[b] = None /\ actor'[b] # None => InCreation(b)' \/ b \in foreign'
    <3>1. At(w, "rows")' /\ task'[w].who = a
      BY <2>2, <2>4, <2>5 DEF At
    <3>2. InCreation(a)'
      BY <3>1 DEF InCreation
    <3>3. \A b \in Locals \ {a} : actor'[b] = actor[b]
      BY <2>7 DEF Actors
    <3> QED
      BY <3>2, <3>3
  <2>14. \A b \in Locals : InCreation(b) => InCreation(b)'
    BY <1>1, <2>5 DEF InCreation, At
  <2> QED
    BY <1>1, <1>2, <2>11, <2>12, <2>13, <2>14, AtomicStep
<1> QED
  BY <1>3, <1>4 DEF InsertActor

\* A request that is creating an account goes on doing so.
LEMMA NoteAtomic ==
    ASSUME BaseInv, BaseInv', AtomicInv, KeepsUsers, KeepsKeys, KeepsPreferences,
           UNCHANGED <<actor, damaged>>, NEW w \in Workers, task[w].at = "rows",
           task'[w].at = "rows", task'[w].who = task[w].who, RowsOK(w)',
           \A v \in Workers \ {w} : task'[v] = task[v]
    PROVE  AtomicInv'
<1>1. \A v \in Workers : (At(v, "rows")' <=> At(v, "rows")) /\ task'[v].who = task[v].who
  BY DEF At
<1>2. ASSUME NEW v \in Workers PROVE RowsOK(v)'
  <2>1. CASE v = w
    BY <2>1
  <2>2. CASE v # w
    <3>1. task'[v] = task[v] /\ RowsOK(v)
      BY <2>2 DEF AtomicInv
    <3>2. At(v, "rows") => actor'[task[v].who] # None
      BY <3>1 DEF RowsOK
    <3> QED
      BY <3>1, <3>2, RowsStay
  <2> QED
    BY <2>1, <2>2
<1>3. OneCreator'
  BY <1>1 DEF AtomicInv, OneCreator
<1>4. \A a \in Locals : InCreation(a)' <=> InCreation(a)
  BY <1>1 DEF InCreation
<1> QED
  BY <1>2, <1>3, <1>4, AtomicStep

LEMMA InsertActorPreferencesAtomic ==
    ASSUME BaseInv, BaseInv', DocsOK, AtomicInv, [Next]_vars, NEW w \in Workers,
           InsertActorPreferences(w)
    PROVE  AtomicInv'
<1>1. /\ task[w].at = "rows" /\ UNCHANGED <<actor, users, damaged, foreign>>
      /\ preferences \subseteq preferences'
  BY DEF InsertActorPreferences, At, history
<1>2. KeepsUsers /\ KeepsKeys /\ KeepsPreferences
  BY <1>1, KeysStay DEF KeepsPreferences
<1>3. task[w] \in Form /\ Fits(task[w]) /\ ~task[w].wrote
  BY <1>1, RowsTask
<1>4. PICK o \in Outcomes : /\ Stay(w, [task[w] EXCEPT !.prefs = o])
                            /\ o = "ok" => task[w].who \in preferences'
  BY DEF InsertActorPreferences, Outcomes
<1>5. PICK s : s = [task[w] EXCEPT !.prefs = o]
  OBVIOUS
<1>6. /\ s.at = "rows" /\ s.who = task[w].who /\ s.mid = task[w].mid
      /\ s.prefs = o /\ s.user = task[w].user
  BY <1>1, <1>3, <1>5 DEF Form
<1>7. task'[w] = s /\ \A v \in Workers \ {w} : task'[v] = task[v]
  BY <1>4, <1>5, Put
<1>8. RowsOK(w)'
  <2>1. RowsOK(w) /\ At(w, "rows")
    BY <1>1 DEF AtomicInv, At
  <2>2. PICK a : a = task[w].who
    OBVIOUS
  <2>3. UsersOf(a)' = UsersOf(a)
    BY <1>1 DEF UsersOf
  <2>4. /\ actor[a] # None /\ (a \notin foreign => actor[a].key = s.mid)
        /\ s.user = "ok" /\ a \notin foreign =>
              \E e \in UsersOf(a) : actor[a].key \in UnwrapPrivateKey(users[e].key, KEK)
    BY <1>6, <2>1, <2>2 DEF RowsOK
  <2>5. task'[w].who = a
    BY <1>6, <1>7, <2>2
  <2>6. UsersOf(task[w].who)' = UsersOf(a)'
    BY <2>5 DEF UsersOf
  <2> QED
    BY <1>1, <1>4, <1>6, <1>7, <2>2, <2>3, <2>4, <2>5, <2>6 DEF RowsOK
<1> QED
  BY <1>1, <1>2, <1>6, <1>7, <1>8, NoteAtomic

LEMMA InsertUserAtomic ==
    ASSUME BaseInv, BaseInv', DocsOK, AtomicInv, [Next]_vars, NEW w \in Workers, InsertUser(w)
    PROVE  AtomicInv'
<1>1. task[w].at \in {"rows", "stray"} /\ UNCHANGED <<actor, preferences, damaged, foreign>>
  BY DEF InsertUser, At, history
<1>2. KeepsUsers /\ KeepsKeys /\ KeepsPreferences
  BY <1>1, KeysStay, SamePreferences
<1>3. CASE task[w].at = "stray"
  <2>1. Finish(w)
    BY <1>3 DEF InsertUser
  <2>2. task'[w] = Idle /\ Idle.at # "rows" /\ \A v \in Workers \ {w} : task'[v] = task[v]
    BY <2>1, PutIdle DEF Idle
  <2>3. \A v \in Workers : task[v].at = "rows" \/ task'[v].at = "rows" => task'[v] = task[v]
    BY <1>3, <2>2
  <2> QED
    BY <1>1, <1>2, <2>3, SameActors, OtherAtomic
<1>4. CASE task[w].at = "rows"
  <2>1. task[w] \in Form /\ Fits(task[w]) /\ ~task[w].wrote /\ task[w].who \in Locals
        /\ task[w].mid \in Ids /\ RowsOK(w) /\ At(w, "rows")
    BY <1>4, RowsTask DEF AtomicInv, At
  <2>2. PICK a \in Locals, mid \in Ids : a = task[w].who /\ mid = task[w].mid
    BY <2>1
  <2>3. actor[a] # None /\ (a \notin foreign => actor[a].key = mid)
        /\ (task[w].prefs = "ok" => a \in preferences)
    BY <2>1, <2>2 DEF RowsOK
  <2>4. PICK o \in Outcomes :
            /\ Stay(w, [task[w] EXCEPT !.user = o])
            /\ o = "ok" =>
                  /\ CanInsertUser(a, task[w].jwt.email)
                  /\ users' = [e \in DOMAIN users \cup {task[w].jwt.email} |->
                                IF e = task[w].jwt.email
                                THEN [actor |-> a, key |-> GenerateUserKey(mid, KEK).private]
                                ELSE users[e]]
    BY <1>4, <2>2 DEF InsertUser, Outcomes
  <2>5. PICK s : s = [task[w] EXCEPT !.user = o]
    OBVIOUS
  <2>6. /\ s.at = "rows" /\ s.who = task[w].who /\ s.mid = task[w].mid
        /\ s.user = o /\ s.prefs = task[w].prefs
    BY <1>4, <2>1, <2>5 DEF Form
  <2>7. task'[w] = s /\ \A v \in Workers \ {w} : task'[v] = task[v]
    BY <2>4, <2>5, Put
  <2>8. o = "ok" /\ a \notin foreign =>
            \E e \in UsersOf(a)' : actor'[a].key \in UnwrapPrivateKey(users'[e].key, KEK)
    <3> SUFFICES ASSUME o = "ok", a \notin foreign
                 PROVE  \E e \in UsersOf(a)' : actor'[a].key \in UnwrapPrivateKey(users'[e].key, KEK)
      OBVIOUS
    <3>1. PICK email : email = task[w].jwt.email
      OBVIOUS
    <3>2. email \in DOMAIN users'
          /\ users'[email] = [actor |-> a, key |-> GenerateUserKey(mid, KEK).private]
      BY <2>4, <3>1
    <3>3. users'[email].actor = a /\ mid \in UnwrapPrivateKey(users'[email].key, KEK)
      BY <3>2 DEF UnwrapPrivateKey, GenerateUserKey, WrapCryptoKey
    <3>4. email \in UsersOf(a)'
      BY <3>2, <3>3 DEF UsersOf
    <3> QED
      BY <1>1, <2>3, <3>3, <3>4
  <2>9. RowsOK(w)'
    <3>1. task'[w].who = a
      BY <2>2, <2>6, <2>7
    <3>2. UsersOf(task[w].who)' = UsersOf(a)'
      BY <3>1 DEF UsersOf
    <3> QED
      BY <1>1, <2>2, <2>3, <2>6, <2>7, <2>8, <3>1, <3>2 DEF RowsOK
  <2> QED
    BY <1>1, <1>2, <1>4, <2>6, <2>7, <2>9, NoteAtomic
<1> QED
  BY <1>1, <1>3, <1>4

LEMMA AtomicPreserved ==
    ASSUME BaseInv, DocsOK, AtomicInv, [Next]_vars
    PROVE  AtomicInv'
<1>1. BaseInv'
  BY BaseStep
<1>2. ASSUME NEW w \in Workers, OtherStep(w) PROVE AtomicInv'
  BY <1>1, <1>2, OtherStepAtomic
<1>3. ASSUME NEW w \in Workers, RegistrationStep(w) PROVE AtomicInv'
  BY <1>1, <1>2, <1>3, InsertActorAtomic, InsertActorPreferencesAtomic, InsertUserAtomic,
     DeleteActorAtomic, RegisteredAtomic DEF RegistrationStep, OtherStep
<1>4. ASSUME NEW w \in Workers, Crash(w) PROVE AtomicInv'
  BY <1>1, <1>4, CrashAtomic
<1>5. CASE OAuthStep
  <2>1. UNCHANGED <<actor, preferences, damaged, task>>
    BY <1>5 DEF OAuthStep, CreateClient, GrantCode, CreateToken, EndSession, Single, tables, history
  <2> QED
    BY <1>1, <2>1, SameActors, SameAtomic
<1>6. CASE FederationStep
  <2>1. UNCHANGED <<preferences, damaged, task>>
    BY <1>6 DEF FederationStep, RemoteEdits, ReceiveUpdate, DeliverUpdate, HandleUpdate, Single,
                tables, history
  <2> QED
    BY <1>1, <1>6, <2>1, FederationActors, SameAtomic
<1>7. CASE UNCHANGED vars
  <2>1. UNCHANGED <<actor, preferences, damaged, task>>
    BY <1>7 DEF vars, tables, history
  <2> QED
    BY <1>1, <2>1, SameActors, SameAtomic
<1> QED
  BY <1>2, <1>3, <1>4, <1>5, <1>6, <1>7 DEF Next, OtherStep

LEMMA AtomicInit == Init => AtomicInv
<1> SUFFICES ASSUME Init PROVE AtomicInv
  OBVIOUS
<1>1. \A w \in Workers : ~At(w, "rows")
  BY DEF Init, At, Idle
<1>2. RegistrationAtomic
  <2> SUFFICES ASSUME NEW a \in Locals, actor[a] # None
               PROVE  /\ a \in preferences
                      /\ \E e \in UsersOf(a) : actor[a].key \in UnwrapPrivateKey(users[e].key, KEK)
    BY DEF RegistrationAtomic, SignsForItself
  <2>1. PICK mid :
           actor = [b \in Actors |->
                      IF b = Founder THEN [mid |-> mid, key |-> 0, profile |-> Unchanged] ELSE None]
    BY DEF Init
  <2>2. a = Founder /\ actor[a].key = 0
    BY <2>1 DEF Actors
  <2>3. /\ DOMAIN users = {FounderJwt.email}
        /\ users[FounderJwt.email] = [actor |-> Founder, key |-> WrapCryptoKey(0, KEK)]
        /\ preferences = {Founder}
    BY DEF Init
  <2>4. FounderJwt.email \in UsersOf(a)
    BY <2>2, <2>3 DEF UsersOf
  <2>5. 0 \in UnwrapPrivateKey(users[FounderJwt.email].key, KEK)
    BY <2>3 DEF UnwrapPrivateKey, WrapCryptoKey
  <2> QED
    BY <2>2, <2>3, <2>4, <2>5
<1> QED
  BY <1>1, <1>2 DEF AtomicInv, RowsOK, OneCreator

\* A registration is all or nothing, however many run at the same time, for the same names
\* and the same addresses, and wherever they are cut.
THEOREM RegistrationHolds == Spec => []RegistrationAtomic
<1>1. BaseInv /\ DocsOK /\ AtomicInv /\ [Next]_vars => AtomicInv'
  BY AtomicPreserved
<1>2. AtomicInv => RegistrationAtomic
  BY DEF AtomicInv
<1> QED
  BY <1>1, <1>2, AtomicInit, BaseHolds, DocsHold, PTL DEF Spec

-----------------------------------------------------------------------------
(* Profiles. *)

\* The followers were told the profile, or what is left of it here.
Told(a) ==
    \E profile \in {doc.profile : doc \in announced[a]} \cup {Unchanged} :
        actor[a].profile \in Copies(profile)

\* The request will tell them.
WillTell(w, a) ==
    /\ task[w].who = a /\ task[w].wrote
    /\ StageOf(task[w]) = "announce" => task[w].seen.profile = actor[a].profile

EditInv ==
    \A a \in Locals : actor[a] # None /\ a \notin silenced \cup foreign =>
        Told(a) \/ \E w \in Workers : WillTell(w, a)

LEMMA EditInvTells == BaseInv /\ EditInv => ProfileAnnounced
BY DEF EditInv, ProfileAnnounced, Told, WillTell, Editing

\* The profile of a local account does not change, unless ...
KeepsProfiles ==
    \A a \in Locals \ foreign' : actor'[a] # None =>
        (actor[a] # None /\ actor'[a].profile = actor[a].profile) \/ Told(a)'

\* The request goes on with its edits, or its account falls silent.
GoesOn(w) ==
    task[w].wrote => \/ /\ task'[w].wrote /\ task'[w].who = task[w].who
                        /\ StageOf(task'[w]) = StageOf(task[w]) /\ task'[w].seen = task[w].seen
                     \/ task[w].who \in silenced'

LEMMA EditStep ==
    ASSUME EditInv, UNCHANGED announced, silenced \subseteq silenced', foreign \subseteq foreign',
           KeepsProfiles, \A w \in Workers : GoesOn(w)
    PROVE  EditInv'
<1> SUFFICES ASSUME NEW a \in Locals, actor'[a] # None, a \notin silenced', a \notin foreign'
             PROVE  Told(a)' \/ \E w \in Workers : WillTell(w, a)'
  BY DEF EditInv
<1>1. CASE Told(a)'
  BY <1>1
<1>2. CASE actor[a] # None /\ actor'[a].profile = actor[a].profile
  <2>1. CASE Told(a)
    BY <1>2, <2>1 DEF Told
  <2>2. ASSUME NEW w \in Workers, WillTell(w, a) PROVE WillTell(w, a)'
    <3>1. /\ task'[w].wrote /\ task'[w].who = a
          /\ StageOf(task'[w]) = StageOf(task[w]) /\ task'[w].seen = task[w].seen
      BY <2>2 DEF WillTell, GoesOn
    <3>2. StageOf(task[w])' = StageOf(task'[w])
      BY DEF StageOf
    <3> QED
      BY <1>2, <2>2, <3>1, <3>2 DEF WillTell
  <2>3. a \notin silenced /\ a \notin foreign
    OBVIOUS
  <2> QED
    BY <1>2, <2>1, <2>2, <2>3 DEF EditInv
<1> QED
  BY <1>1, <1>2 DEF KeepsProfiles

LEMMA SameProfiles == ASSUME UNCHANGED actor PROVE KeepsProfiles
BY DEF KeepsProfiles

LEMMA NotEditing ==
    ASSUME BaseInv, NEW w \in Workers, task[w].at \notin {"write", "announce", "ensure"}
    PROVE  ~task[w].wrote
BY TaskFits DEF Fits, StageOf, Edits

\* The steps of requests that edit nothing.
PlainStep(w) ==
    \/ RegistrationStep(w) \/ RemoteStep(w) \/ PushStep(w)
    \/ \E a \in Actors : GetAccount(w, a)
    \/ \E token \in tokens, a \in Locals, form \in SUBSET Fields :
          UpdateCredentials(w, token, a, form)

LEMMA PlainNotEditing ==
    ASSUME BaseInv, NEW w \in Workers, PlainStep(w)
    PROVE  ~task[w].wrote /\ \A v \in Workers \ {w} : task'[v] = task[v]
<1>1. task[w].at \notin {"write", "announce", "ensure"}
  <2>1. CASE Start(w)
    BY <2>1 DEF Start, At
  <2>2. CASE RegistrationStep(w)
    BY <2>1, <2>2 DEF RegistrationStep, FirstLogin, InsertActor, InsertActorPreferences,
       InsertUser, DeleteActor, Registered, At
  <2>3. CASE RemoteStep(w)
    BY <2>1, <2>3 DEF RemoteStep, ResolveAccount, AddAlias, FetchActor, InsertRemoteActor, AddPeer,
       SetActorAlias, At
  <2>4. CASE PushStep(w)
    BY <2>1, <2>4 DEF PushStep, PushSubscription, GetSubscription, CreateSubscription, At
  <2> QED
    BY <2>1, <2>2, <2>3, <2>4 DEF PlainStep, GetAccount, UpdateCredentials
<1>2. \A v \in Workers \ {w} : task'[v] = task[v]
  <2>1. CASE OtherStep(w)
    BY <2>1, OtherElsewhere
  <2>2. ASSUME NEW t, Stay(w, t) PROVE \A v \in Workers \ {w} : task'[v] = task[v]
    BY <2>2, Put
  <2>3. CASE InsertActor(w) \/ InsertActorPreferences(w) \/ InsertUser(w) \/ DeleteActor(w)
             \/ Registered(w)
    BY <2>2, <2>3 DEF InsertActor, InsertActorPreferences, InsertUser, DeleteActor, Registered,
                      Finish, Goto
  <2> QED
    BY <2>1, <2>3 DEF PlainStep, OtherStep, RegistrationStep, ProfileStep
<1> QED
  BY <1>1, <1>2, NotEditing

LEMMA PlainEdits ==
    ASSUME BaseInv, EditInv, NEW w \in Workers, PlainStep(w)
    PROVE  EditInv'
<1>1. \A v \in Workers : GoesOn(v)
  BY PlainNotEditing DEF GoesOn
<1>2. UNCHANGED <<announced, silenced>> /\ foreign \subseteq foreign'
  BY DEF PlainStep, RegistrationStep, FirstLogin, InsertActor, InsertActorPreferences, InsertUser,
         DeleteActor, Registered, RemoteStep, ResolveAccount, AddAlias, FetchActor,
         InsertRemoteActor, AddPeer, SetActorAlias, PushStep, PushSubscription, GetSubscription,
         CreateSubscription, GetAccount, UpdateCredentials, history
<1>3. ActorsOK
  BY DEF BaseInv
<1>4. KeepsProfiles
  <2>1. CASE UNCHANGED actor
    BY <2>1, SameProfiles
  <2>2. CASE InsertActor(w)
    <3>1. task[w].at = "insertActor"
      BY <2>2 DEF InsertActor, At
    <3>2. PICK a \in Locals : a = task[w].who
      BY <3>1, TaskFits DEF Fits, StageOf
    <3>3. ASSUME NEW row, actor' = [actor EXCEPT ![a] = row], row.profile = Unchanged
          PROVE  KeepsProfiles
      <4>1. actor'[a] = row /\ \A b \in Locals \ {a} : actor'[b] = actor[b]
        BY <1>3, <3>3 DEF ActorsOK, Actors
      <4>2. Told(a)'
        BY <3>3, <4>1 DEF Told, Copies
      <4> QED
        BY <4>1, <4>2 DEF KeepsProfiles
    <3> QED
      BY <2>1, <2>2, <3>2, <3>3 DEF InsertActor, InsertActorRow
  <2>3. CASE DeleteActor(w)
    BY <1>3, <2>3 DEF DeleteActor, KeepsProfiles, ActorsOK, Actors
  <2>4. CASE InsertRemoteActor(w)
    <3>1. task[w].at = "insert"
      BY <2>4 DEF InsertRemoteActor, At
    <3>2. PICK id \in Actors : id = IdOf(task[w].url)
      BY <3>1, TaskFits, AccountsAssumption DEF Fits, StageOf
    <3>3. CASE foreign' = foreign \cup ({id} \cap Locals)
               /\ \A b \in Actors \ {id} : actor'[b] = actor[b]
      BY <3>3 DEF KeepsProfiles, Actors
    <3> QED
      BY <1>3, <2>1, <2>4, <3>2, <3>3 DEF InsertRemoteActor, InsertActorRow, ActorsOK
  <2> QED
    BY <2>1, <2>2, <2>3, <2>4
       DEF PlainStep, RegistrationStep, FirstLogin, InsertActorPreferences, InsertUser,
           Registered, RemoteStep, ResolveAccount, AddAlias, FetchActor, AddPeer, SetActorAlias,
           PushStep, PushSubscription, GetSubscription, CreateSubscription, GetAccount,
           UpdateCredentials, tables
<1> QED
  BY <1>1, <1>2, <1>4, EditStep

LEMMA CrashEdits ==
    ASSUME BaseInv, EditInv, NEW w \in Workers, Crash(w)
    PROVE  EditInv'
<1>1. /\ UNCHANGED <<actor, announced, foreign>> /\ silenced \subseteq silenced' /\ Finish(w)
      /\ task[w].wrote => task[w].who \in silenced'
  BY DEF Crash, tables
<1>2. \A v \in Workers : GoesOn(v)
  BY <1>1, PutIdle DEF GoesOn
<1>3. KeepsProfiles
  BY <1>1, SameProfiles
<1> QED
  BY <1>1, <1>2, <1>3, EditStep

LEMMA EnsureEdits ==
    ASSUME BaseInv, EditInv, NEW w \in Workers, EnsureMastodonId(w)
    PROVE  EditInv'
<1>1. /\ task[w].at = "ensure" /\ UNCHANGED <<announced, silenced, foreign>>
      /\ UpdateActorMastodonId(task[w].who, task[w].mid)
      /\ IF task[w].then = "idle" THEN Finish(w) ELSE Goto(w, task[w].then)
  BY DEF EnsureMastodonId, At, history
<1>2. UsersOf(task[w].who) # {} /\ Fits(task[w]) /\ StageOf(task[w]) = task[w].then
  BY <1>1, TaskFits DEF HasUser, StageOf
<1>3. PICK a \in Locals : a = task[w].who /\ actor[a] \in Row /\ actor[a] # None /\ a \in Actors
  BY <1>2, UserHasActor
<1>4. PICK old \in Row : old = actor[a]
  BY <1>3
<1>5. KeepsProfiles
  <2> DEFINE row == [old EXCEPT !.mid = IF @ = Legacy THEN task[w].mid ELSE @]
  <2>1. row.profile = old.profile
    BY DEF Row
  <2>2. actor' = [actor EXCEPT ![a] = row]
    BY <1>1, <1>3, <1>4 DEF UpdateActorMastodonId
  <2> HIDE DEF row
  <2> QED
    BY <1>3, <1>4, <2>1, <2>2 DEF KeepsProfiles, BaseInv, ActorsOK, Actors
<1>6. \A v \in Workers \ {w} : task'[v] = task[v]
  BY <1>1, Put DEF Finish, Goto
<1>7. GoesOn(w)
  <2>1. CASE task[w].then = "idle"
    BY <1>2, <2>1 DEF Fits, GoesOn, Edits
  <2>2. CASE task[w].then # "idle"
    <3>1. task[w].then \in Stages /\ task[w].then # "ensure"
      BY <1>1, <1>2, <2>2 DEF Fits, Edits, Stages
    <3>2. PICK t \in Task : /\ Stay(w, t) /\ t.at = task[w].then /\ t.who = task[w].who
                            /\ t.wrote = task[w].wrote /\ t.seen = task[w].seen
      BY <1>1, <2>2, <3>1, GotoTask
    <3>3. task'[w] = t /\ StageOf(t) = task[w].then
      BY <3>1, <3>2, Put DEF StageOf
    <3> QED
      BY <1>2, <3>2, <3>3 DEF GoesOn
  <2> QED
    BY <2>1, <2>2
<1>8. \A v \in Workers : GoesOn(v)
  BY <1>6, <1>7 DEF GoesOn
<1> QED
  BY <1>1, <1>5, <1>8, EditStep

LEMMA OthersTell ==
    ASSUME NEW v \in Workers, NEW a \in Locals, task'[v] = task[v],
           actor'[a].profile = actor[a].profile
    PROVE  WillTell(v, a) => WillTell(v, a)'
<1>1. StageOf(task[v])' = StageOf(task[v])
  BY DEF StageOf
<1> QED
  BY <1>1 DEF WillTell

LEMMA ReloadEdits ==
    ASSUME BaseInv, EditInv, NEW w \in Workers, Reload(w)
    PROVE  EditInv'
<1>1. /\ task[w].at = "write" /\ UNCHANGED <<actor, announced, silenced, foreign>>
  BY DEF Reload, At, history
<1>2. PICK a \in Locals : a = task[w].who
  BY <1>1, TaskFits DEF Fits, StageOf, Edits
<1>3. /\ task'[w].who = a /\ task'[w].wrote = task[w].wrote
      /\ task'[w].seen = ActorFromRow(a)
      /\ \A v \in Workers \ {w} : task'[v] = task[v]
  BY <1>2, ReloadSees
<1>4. task'[w].seen.profile = actor[a].profile
  BY <1>3 DEF ActorFromRow
<1>5. ASSUME NEW b \in Locals, NEW v \in Workers, WillTell(v, b) PROVE WillTell(v, b)'
  <2>1. CASE v # w
    BY <1>1, <1>3, <1>5, <2>1, OthersTell
  <2>2. CASE v = w
    BY <1>1, <1>2, <1>3, <1>4, <1>5, <2>2 DEF WillTell
  <2> QED
    BY <2>1, <2>2
<1>6. \A b \in Locals : Told(b) => Told(b)'
  BY <1>1 DEF Told
<1> QED
  BY <1>1, <1>5, <1>6 DEF EditInv

LEMMA WriteFieldEdits ==
    ASSUME BaseInv, EditInv, NEW w \in Workers, WriteField(w)
    PROVE  EditInv'
<1>1. task[w].at = "write" /\ UNCHANGED <<announced, foreign>>
  BY DEF WriteField, At
<1>2. /\ task[w] \in Form /\ Fits(task[w]) /\ HasUser(task[w]) /\ StageOf(task[w]) = "write"
  BY <1>1, TaskFits DEF StageOf
<1>3. PICK a \in Locals : a = task[w].who /\ a \in Actors
  BY <1>2 DEF Fits, Edits, Actors
<1>4. CASE Finish(w) /\ Silence(w) /\ UNCHANGED actor
  <2>1. silenced \subseteq silenced' /\ (task[w].wrote => task[w].who \in silenced')
    BY <1>4 DEF Silence
  <2>2. \A v \in Workers : GoesOn(v)
    BY <1>4, <2>1, PutIdle DEF GoesOn
  <2>3. KeepsProfiles
    BY <1>4, SameProfiles
  <2> QED
    BY <1>1, <2>1, <2>2, <2>3, EditStep
<1>5. ASSUME NEW f \in Fields, UNCHANGED silenced,
             actor' = [actor EXCEPT ![task[w].who].profile[f] = profiles + 1],
             Stay(w, [task[w] EXCEPT !.form = @ \ {f}, !.wrote = TRUE])
      PROVE  EditInv'
  <2> DEFINE t == [task[w] EXCEPT !.form = @ \ {f}, !.wrote = TRUE]
  <2>1. t.at = "write" /\ t.who = task[w].who /\ t.wrote
    BY <1>1, <1>2 DEF Form
  <2>2. task'[w] = t /\ \A v \in Workers \ {w} : task'[v] = task[v]
    BY <1>5, Put
  <2> HIDE DEF t
  <2>3. StageOf(task[w])' # "announce"
    BY <2>1, <2>2 DEF StageOf
  <2>4. WillTell(w, a)'
    BY <1>3, <2>1, <2>2, <2>3 DEF WillTell
  <2>5. \A b \in Locals \ {a} : actor'[b] = actor[b]
    BY <1>3, <1>5 DEF BaseInv, ActorsOK, Actors
  <2>6. ASSUME NEW b \in Locals \ {a}, actor'[b] # None, b \notin silenced', b \notin foreign
        PROVE  Told(b)' \/ \E v \in Workers : WillTell(v, b)'
    <3>1. actor[b] # None /\ b \notin silenced /\ actor'[b].profile = actor[b].profile
      BY <1>5, <2>5, <2>6
    <3>2. CASE Told(b)
      BY <1>1, <3>1, <3>2 DEF Told
    <3>3. ASSUME NEW v \in Workers, WillTell(v, b) PROVE WillTell(v, b)'
      <4>1. v # w
        BY <1>3, <3>3 DEF WillTell
      <4> QED
        BY <2>2, <3>1, <3>3, <4>1, OthersTell
    <3> QED
      BY <2>6, <3>1, <3>2, <3>3 DEF EditInv
  <2> QED
    BY <1>1, <2>4, <2>6 DEF EditInv
<1> QED
  BY <1>4, <1>5 DEF WriteField, Fields

LEMMA AnnounceEdits ==
    ASSUME BaseInv, EditInv, NEW w \in Workers, Announce(w)
    PROVE  EditInv'
<1>1. /\ task[w].at = "announce" /\ Finish(w) /\ UNCHANGED <<actor, foreign>>
  BY DEF Announce, At, tables
<1>2. StageOf(task[w]) = "announce" /\ Fits(task[w])
  BY <1>1, TaskFits DEF StageOf
<1>3. PICK a \in Locals : a = task[w].who
  BY <1>2 DEF Fits, Edits
<1>4. task'[w] = Idle /\ \A v \in Workers \ {w} : task'[v] = task[v]
  BY <1>1, PutIdle
<1>5. CASE UNCHANGED announced /\ Silence(w)
  <2>1. silenced \subseteq silenced' /\ (task[w].wrote => task[w].who \in silenced')
    BY <1>5 DEF Silence
  <2>2. \A v \in Workers : GoesOn(v)
    BY <1>4, <2>1 DEF GoesOn
  <2>3. KeepsProfiles
    BY <1>1, SameProfiles
  <2> QED
    BY <1>1, <1>5, <2>1, <2>2, <2>3, EditStep
<1>6. CASE /\ announced' = [announced EXCEPT ![a] = @ \cup {task[w].seen}]
           /\ silenced' = IF task[w].seen.profile = actor[a].profile
                          THEN silenced \ {a} ELSE silenced
  <2>1. /\ announced'[a] = announced[a] \cup {task[w].seen}
        /\ \A b \in Locals : announced[b] \subseteq announced'[b]
    BY <1>6 DEF BaseInv, ProfilesOK
  <2>2. \A b \in Locals : Told(b) => Told(b)'
    BY <1>1, <2>1 DEF Told
  <2>3. task[w].seen.profile = actor[a].profile => Told(a)'
    BY <1>1, <2>1 DEF Told, Copies
  <2>4. ASSUME NEW b \in Locals, NEW v \in Workers, WillTell(v, b)
        PROVE  Told(b)' \/ WillTell(v, b)'
    <3>1. CASE v # w
      BY <1>1, <1>4, <2>4, <3>1, OthersTell
    <3>2. CASE v = w
      BY <1>2, <1>3, <2>3, <2>4, <3>2 DEF WillTell
    <3> QED
      BY <3>1, <3>2
  <2>5. ASSUME NEW b \in Locals, actor'[b] # None, b \notin silenced', b \notin foreign
        PROVE  Told(b)' \/ \E v \in Workers : WillTell(v, b)'
    <3>1. CASE b = a /\ task[w].seen.profile = actor[a].profile
      BY <2>3, <3>1
    <3>2. CASE b # a \/ task[w].seen.profile # actor[a].profile
      <4>1. b \notin silenced /\ actor[b] # None
        BY <1>1, <1>6, <2>5, <3>2
      <4> QED
        BY <2>2, <2>4, <2>5, <4>1 DEF EditInv
    <3> QED
      BY <3>1, <3>2
  <2> QED
    BY <1>1, <2>5 DEF EditInv
<1> QED
  BY <1>3, <1>5, <1>6 DEF Announce

\* An Update of another server is exempt, and that of an actor of this one was announced.
LEMMA UpdateEdits ==
    ASSUME BaseInv, DocsOK, EditInv, NEW u \in updates, HandleUpdate(u)
    PROVE  EditInv'
<1>1. /\ UNCHANGED <<task, announced, silenced>> /\ foreign \subseteq foreign'
      /\ u.doc.key = ForeignKey => {u.actor} \cap Locals \subseteq foreign'
  BY DEF HandleUpdate
<1>2. PICK row \in Row : UpdatedRow(u, row)
  BY UpdateWrites
<1>3. u.actor \in Actors
  BY DEF BaseInv, RemoteOK
<1>4. /\ actor'[u.actor] = row /\ row.profile = Sanitize(u.doc.profile)
      /\ \A b \in Actors \ {u.actor} : actor'[b] = actor[b]
  BY <1>2, <1>3 DEF UpdatedRow, BaseInv, ActorsOK
<1>5. ASSUME u.actor \in Locals \ foreign' PROVE Told(u.actor)'
  <2>1. u.doc \in announced'[u.actor]
    BY <1>1, <1>5 DEF DocsOK
  <2>2. actor'[u.actor].profile \in Copies(u.doc.profile)
    BY <1>4 DEF Copies
  <2> QED
    BY <2>1, <2>2 DEF Told, Copies
<1>6. KeepsProfiles
  BY <1>4, <1>5 DEF KeepsProfiles, Actors
<1>7. \A w \in Workers : GoesOn(w)
  BY <1>1 DEF GoesOn
<1> QED
  BY <1>1, <1>6, <1>7, EditStep

LEMMA EditPreserved ==
    ASSUME BaseInv, DocsOK, EditInv, [Next]_vars
    PROVE  EditInv'
<1>1. ASSUME NEW w \in Workers, PlainStep(w) PROVE EditInv'
  BY <1>1, PlainEdits
<1>2. ASSUME NEW w \in Workers, ProfileStep(w) PROVE EditInv'
  BY <1>1, <1>2, ReloadEdits, WriteFieldEdits, AnnounceEdits DEF ProfileStep, PlainStep
<1>3. ASSUME NEW w \in Workers, EnsureMastodonId(w) \/ Crash(w) PROVE EditInv'
  BY <1>3, EnsureEdits, CrashEdits
<1>4. ASSUME UNCHANGED <<actor, task, announced, silenced, foreign>> PROVE EditInv'
  <2>1. KeepsProfiles /\ \A w \in Workers : GoesOn(w)
    BY <1>4, SameProfiles DEF GoesOn
  <2> QED
    BY <1>4, <2>1, EditStep
<1>5. CASE OAuthStep \/ UNCHANGED vars
  BY <1>4, <1>5 DEF OAuthStep, CreateClient, GrantCode, CreateToken, EndSession, Single, vars,
                    tables, history
<1>6. CASE FederationStep
  BY <1>4, <1>6, UpdateEdits DEF FederationStep, RemoteEdits, ReceiveUpdate, DeliverUpdate, Single,
                                 tables, history
<1> QED
  BY <1>1, <1>2, <1>3, <1>5, <1>6 DEF Next, PlainStep

LEMMA EditInit == Init => EditInv
<1> SUFFICES ASSUME Init, NEW a \in Locals, actor[a] # None PROVE Told(a)
  BY DEF EditInv
<1>1. PICK mid :
         actor = [b \in Actors |->
                    IF b = Founder THEN [mid |-> mid, key |-> 0, profile |-> Unchanged] ELSE None]
  BY DEF Init
<1>2. actor[a].profile = Unchanged
  BY <1>1 DEF Actors
<1> QED
  BY <1>2 DEF Told, Copies

\* However many edits of a profile overlap, and wherever they are cut, the profile that
\* they leave was announced, or the last word was with a request that failed.
THEOREM ProfileHolds == Spec => []ProfileAnnounced
<1>1. BaseInv /\ DocsOK /\ EditInv /\ [Next]_vars => EditInv'
  BY EditPreserved
<1> QED
  BY <1>1, EditInit, EditInvTells, BaseHolds, DocsHold, PTL DEF Spec

-----------------------------------------------------------------------------
(* HTTP signatures: the two halves agree. *)

\* What deliver.ts hands to signRequest: no date of its own, and on a POST the digest of
\* the body.
Unsigned(r) ==
    /\ r.method \in {"GET", "POST"}
    /\ {"date", "x-date"} \cap DOMAIN r.headers = {}
    /\ r.method = "POST" => "digest" \in DOMAIN r.headers /\ r.headers["digest"] = r.body

\* signRequest adds the date and the host, and nothing that parseRequest would prefer to
\* them.
LEMMA SignedHeaderValues ==
    ASSUME NEW r, Unsigned(r), NEW now \in Int
    PROVE  /\ DOMAIN WithDateAndHost(r, now) = DOMAIN r.headers \cup {"date", "host"}
           /\ WithDateAndHost(r, now)["date"] = now
           /\ "x-date" \notin DOMAIN WithDateAndHost(r, now)
           /\ r.method = "POST" =>
                 /\ "digest" \in DOMAIN WithDateAndHost(r, now)
                 /\ WithDateAndHost(r, now)["digest"] = r.body
BY DEF Unsigned, WithDateAndHost, HasHeader

\* The string that the receiver builds is the one that the sender signed.
LEMMA SameString ==
    ASSUME NEW r, Unsigned(r), NEW pair, NEW keyId, NEW now \in Int
    PROVE  SigningString(SignRequest(r, pair, keyId, now)) =
               BuildSignedData(r.target, WithDateAndHost(r, now), SigningComponents(r))
<1> DEFINE signed == SignRequest(r, pair, keyId, now)
<1>1. SignedHeaders(signed) = SigningComponents(r)
    BY DEF SignRequest, SignatureParams, SignedHeaders, SigningComponents
<1>2. \A h \in SigningComponents(r) :
          h \in {"(request-target)", "date", "host", "digest"}
    BY DEF SigningComponents
<1>3. signed.target = r.target /\ signed.headers = WithDateAndHost(r, now)
    BY DEF SignRequest
<1> QED
    BY <1>1, <1>2, <1>3 DEF SigningString, BuildSignedData

\* parseRequest has nothing to object to.
LEMMA SignedParses ==
    ASSUME NEW r, Unsigned(r), NEW pair, NEW keyId \in KeyIds, NEW now \in Int,
           NEW later \in Int, Within(later, now)
    PROVE  ParseRequest(SignRequest(r, pair, keyId, now), later)
<1> DEFINE signed == SignRequest(r, pair, keyId, now)
<1>1. /\ signed.params = SignatureParams(keyId, SigningComponents(r))
      /\ signed.headers = WithDateAndHost(r, now)
      /\ signed.method = r.method
    BY DEF SignRequest
<1>2. SignedHeaders(signed) = SigningComponents(r)
    BY <1>1 DEF SignedHeaders, SignatureParams, SigningComponents
<1>3. /\ DOMAIN signed.headers = DOMAIN r.headers \cup {"date", "host"}
      /\ signed.headers["date"] = now
      /\ "x-date" \notin DOMAIN signed.headers
      /\ r.method = "POST" => "digest" \in DOMAIN signed.headers
    <2>1. signed.headers = WithDateAndHost(r, now)
        BY <1>1
    <2>2. /\ DOMAIN WithDateAndHost(r, now) = DOMAIN r.headers \cup {"date", "host"}
          /\ WithDateAndHost(r, now)["date"] = now
          /\ "x-date" \notin DOMAIN WithDateAndHost(r, now)
          /\ r.method = "POST" => "digest" \in DOMAIN WithDateAndHost(r, now)
        BY SignedHeaderValues
    <2> HIDE DEF signed
    <2> QED
        BY <2>1, <2>2
<1>4. /\ signed.params.scheme = "Signature"
      /\ signed.params.keyId \in KeyIds
      /\ ValidAlgorithm(signed.params.algorithm)
      /\ signed.params.created = Never /\ signed.params.expires = Never
    BY <1>1 DEF SignatureParams, ValidAlgorithm
<1>5. SignedHeaders(signed) \cap DateHeaders # {} /\ "(opaque)" \notin SignedHeaders(signed)
    BY <1>2 DEF SigningComponents, DateHeaders
<1>6. \A h \in SignedHeaders(signed) \ Pseudo : HasHeader(signed, h)
    BY <1>2, <1>3 DEF SigningComponents, Pseudo, HasHeader
<1>7. FreshDate(signed, later)
    BY <1>4, <1>3 DEF FreshDate, HasHeader
<1>8. RequiredHeaders(signed) \subseteq SignedHeaders(signed)
    BY <1>1, <1>2 DEF RequiredHeaders, SigningComponents
<1> QED
    BY <1>4, <1>5, <1>6, <1>7, <1>8 DEF ParseRequest

(* A delivery that arrives within the clock skew is accepted (deliverToActor against*)
(* the inbox route): the private key that createUser stored, unwrapped with the*)
(* instance's secret, signs so that the public key in the actor's document verifies*)
(* it, over every header that the inbox requires to be signed.             *)
THEOREM SignedIsAccepted ==
    ASSUME NEW r, Unsigned(r), NEW pair, NEW kek,
           NEW keyId \in KeyIds,
           NEW served, keyId \in DOMAIN served,
           served[keyId] = GenerateUserKey(pair, kek).public,
           NEW key \in UnwrapPrivateKey(GenerateUserKey(pair, kek).private, kek),
           NEW now \in Int, NEW later \in Int, Within(later, now)
    PROVE  InboxAccepts(SignRequest(r, key, keyId, now), served, later)
<1> DEFINE signed == SignRequest(r, key, keyId, now)
<1>1. key = pair /\ served[keyId] = pair
    BY DEF UnwrapPrivateKey, GenerateUserKey, WrapCryptoKey
<1>2. ParseRequest(signed, later)
    BY SignedParses
<1>3. pair \in FetchKey(signed.params.keyId, served)
    BY <1>1 DEF FetchKey, SignRequest, SignatureParams
<1>4. VerifySignature(signed, pair)
    <2>1. signed.signature =
              [pair |-> key,
               over |-> BuildSignedData(r.target, WithDateAndHost(r, now), SigningComponents(r))]
        BY DEF SignRequest
    <2> QED
        BY <2>1, <1>1, SameString DEF VerifySignature
<1>5. signed.method = "POST" =>
          HasHeader(signed, "digest") /\ signed.headers["digest"] = signed.body
    BY SignedHeaderValues DEF SignRequest, HasHeader
<1> QED
    BY <1>2, <1>3, <1>4, <1>5 DEF InboxAccepts
=============================================================================
