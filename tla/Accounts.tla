-------------------------------- MODULE Accounts --------------------------------
(***************************************************************************)
(* The table actors and what is built on it: the registration of local     *)
(* users, the profiles they edit, the remote actors that are cached and    *)
(* updated, the ids that clients know them by, and the OAuth clients and   *)
(* push subscriptions of the users.                                        *)
(*                                                                         *)
(* A request is cut at every database call whose outcome it depends on.    *)
(* Operators on tokens are in Access, those on signatures in               *)
(* HttpSignatures.  Left out: the other rows that refer to an actor; a     *)
(* failed deletion stands for those that refuse it.                        *)
(***************************************************************************)
EXTENDS Access, HttpSignatures

CONSTANTS
    Locals,             \* ids that a local account can have, one per spelling of a user name
    Remotes,            \* ids of remote actors
    Urls,               \* addresses at which actors are fetched
    IdOf(_),            \* the id that the document at an address states: nobody checks it
    HostOf(_),          \* the domain of an id
    ClientIds,
    Jwts,               \* tokens of Access
    KEK,                \* the secret that private keys are encrypted with
    Founder,            \* the local account there is at the start, ...
    FounderJwt,         \* ... a token of its user, ...
    FounderClient,      \* ... and the client that the user has authorized
    Deliveries,         \* Updates that are posted to the inbox, with the remote actor they
                        \* are signed for and the actor that they name, which nobody compares
    Served,             \* the public keys that documents serve: a function from some keyIds
    Handles,            \* accounts that are searched for; what WebFinger says of each:
    Links(_),           \* the address of the link in the answer, or none
    Workers,
    MaxRequests,        \* bound: requests
    MaxProfiles,        \* bound: changes of profiles, by which the values are numbered
    Edited,             \* bound: ids under which other servers change the profile
    Long,               \* the values that sanitizeActor cuts when they are names
    None

Actors == Locals \cup Remotes
Legacy == -1            \* a mastodon_id from before the sequence: a UUID
ForeignKey == -1        \* the public key in what another server has made
Fields == {"name", "icon"}

ASSUME AccountsAssumption ==
    /\ Jwts \subseteq Jwt
    /\ Founder \in Locals /\ FounderJwt \in Jwts /\ FounderJwt.email \in Emails
    /\ GenerateValidator(FounderJwt) /\ FounderClient \in ClientIds
    /\ Locals \cap Remotes = {} /\ None \notin Actors \cup Urls
    /\ \A u \in Urls : IdOf(u) \in Actors
    /\ \A d \in Deliveries : d.by \in Remotes /\ d.actor \in Actors /\ d.to \in Locals
    /\ MaxRequests \in Nat /\ MaxProfiles \in Nat /\ Edited \subseteq Actors
    /\ Long \subseteq 1..MaxProfiles

VARIABLES
    actor,              \* rows of actors: mastodon_id, public key and profile, or None
    users,              \* rows of users: a function from some addresses
    preferences,        \* actors with a row in actor_preferences
    sequence,           \* the value of actors_id_seq, which also names the keys that are made
    peers,              \* rows of peers
    aliases,            \* the alsoKnownAs of a local actor
    announced,          \* documents of a local actor that the queue took in Updates
    published,          \* the profile that other servers show under an id
    updates,            \* Updates in the queue of the inbox; delivered at least once
    clients, credentials, \* rows of clients and client_credentials
    codes, tokens,      \* codes and tokens that clients were given
    sessions,           \* tokens of Access whose session is not over
    subscriptions,      \* rows of subscriptions, by their unique key: actor and client
    task,               \* the request of each worker
    requests,           \* number of requests so far
    profiles,           \* number of changes of profiles so far
    \* History: no request reads the variables below.
    damaged,            \* accounts whose registration was cut or could not be undone
    silenced,           \* accounts whose last change of profile was not announced
    foreign             \* local ids whose row what another server made has written

tables  == <<actor, users, preferences, sequence>>
remote  == <<peers, aliases, published, updates>>
oauth   == <<clients, credentials, codes, tokens, sessions, subscriptions>>
history == <<damaged, silenced, foreign>>
vars    == <<tables, remote, oauth, announced, task, requests, profiles, history>>

Ids      == 0..(2 * MaxRequests)
Keys     == Ids \cup {ForeignKey}
Profile  == [Fields -> -MaxProfiles..MaxProfiles]      \* -v is what is left of a name v
Row      == [mid : Ids \cup {Legacy}, key : Keys, profile : Profile]
UserRow  == [actor : Locals, key : [pair : Ids, kek : {KEK}]]

\* An actor as a document, which is the object of an Update.
Document == [key : Keys, profile : Profile, aliases : SUBSET Actors]

ASSUME RowAssumption == None \notin Row     \* NULL

Outcomes == {"pending", "ok", "failed"}
Stages   == {"insertActor", "rows", "stray", "ensure", "write", "announce", "fetch", "insert",
             "addPeer", "setAlias", "subscription", "subscribe"}

Idle == [at |-> "idle", then |-> "idle", who |-> None, jwt |-> None, client |-> None,
         mid |-> 0, url |-> None, form |-> {}, seen |-> None, wrote |-> FALSE,
         prefs |-> "pending", user |-> "pending"]
Task == [at : Stages, then : Stages \cup {"idle"}, who : Actors \cup {None},
         jwt : Jwts \cup {None}, client : ClientIds \cup {None}, mid : Ids,
         url : Urls \cup {None}, form : SUBSET Fields, seen : Document \cup {None},
         wrote : BOOLEAN, prefs : Outcomes, user : Outcomes]
    \cup {Idle}

TypeOK ==
    /\ actor \in [Actors -> Row \cup {None}]
    /\ DOMAIN users \subseteq Emails /\ \A e \in DOMAIN users : users[e] \in UserRow
    /\ preferences \subseteq Locals
    /\ sequence \in Ids
    /\ peers \subseteq {HostOf(a) : a \in Actors}
    /\ aliases \in [Locals -> SUBSET Actors]
    /\ announced \in [Locals -> SUBSET Document]
    /\ published \in [Actors -> Profile]
    /\ updates \subseteq [actor : Actors, doc : Document]
    /\ DOMAIN clients \subseteq ClientIds /\ \A c \in DOMAIN clients : clients[c] \in Client
    /\ credentials \subseteq ClientIds \X Ids
    /\ tokens \subseteq codes /\ codes \subseteq {Code(c, j) : c \in ClientIds, j \in Jwts}
    /\ sessions \subseteq Jwts
    /\ subscriptions \subseteq Locals \X ClientIds
    /\ task \in [Workers -> Task]
    /\ requests \in 0..MaxRequests /\ profiles \in 0..MaxProfiles
    /\ damaged \subseteq Locals /\ silenced \subseteq Locals /\ foreign \subseteq Locals
    \* The foreign keys of the tables.
    /\ \A e \in DOMAIN users : actor[users[e].actor] # None
    /\ \A a \in preferences : actor[a] # None
    /\ \A s \in subscriptions : actor[s[1]] # None
    \* The unique column actor_id of users.
    /\ \A e, f \in DOMAIN users : users[e].actor = users[f].actor => e = f

Unchanged == [f \in Fields |-> 0]

Init ==
    /\ \E mid \in {0, Legacy} :
          actor = [a \in Actors |->
                      IF a = Founder THEN [mid |-> mid, key |-> 0, profile |-> Unchanged] ELSE None]
    /\ users = [e \in {FounderJwt.email} |-> [actor |-> Founder, key |-> WrapCryptoKey(0, KEK)]]
    /\ preferences = {Founder}
    /\ sequence = 0
    /\ peers = {}
    /\ aliases = [a \in Locals |-> {}]
    /\ announced = [a \in Locals |-> {}]
    /\ published = [a \in Actors |-> Unchanged]
    /\ updates = {}
    /\ \E c \in Client : c.scopes = Scopes /\ clients = [i \in {FounderClient} |-> c]
    /\ credentials = {}
    /\ codes = {Code(FounderClient, FounderJwt)} /\ tokens = codes
    /\ sessions = Jwts
    /\ subscriptions = {}
    /\ task = [w \in Workers |-> Idle]
    /\ requests = 0 /\ profiles = 0
    /\ damaged = {} /\ silenced = {} /\ foreign = {}

-----------------------------------------------------------------------------
(* Requests. *)

At(w, stage)   == task[w].at = stage
Stay(w, t)     == task' = [task EXCEPT ![w] = t]
Goto(w, stage) == Stay(w, [task[w] EXCEPT !.at = stage])
Finish(w)      == Stay(w, Idle)

Count        == requests < MaxRequests /\ requests' = requests + 1
Start(w)     == At(w, "idle") /\ Count
Single       == Count /\ UNCHANGED task            \* a request of one step
Running(w)   == ~At(w, "idle") /\ UNCHANGED requests

NextVal == sequence + 1

\* The ids and the keys that are made differ.
GenerateMastodonId == sequence' = NextVal

\* selectActorByMastodonId, selectActorByUsernameAndDomain: the row of an account.
SelectActorBy(a) == actor[a] # None

\* A row is read; a UUID in it gets replaced before the request goes on with t.
Load(w, a, t) ==
    /\ SelectActorBy(a)
    /\ IF actor[a].mid = Legacy
       THEN /\ GenerateMastodonId
            /\ Stay(w, [t EXCEPT !.at = "ensure", !.then = t.at, !.mid = NextVal])
       ELSE Stay(w, t) /\ UNCHANGED sequence

\* Mutant of UpdateActorMastodonId: UPDATE ... WHERE id = the actor.
UpdateActorMastodonIdById(a, mid) == actor' = [actor EXCEPT ![a].mid = mid]

\* UPDATE ... WHERE mastodon_id = the UUID that was read.
UpdateActorMastodonId(a, mid) ==
    actor' = [actor EXCEPT ![a].mid = IF @ = Legacy THEN mid ELSE @]

EnsureMastodonId(w) ==
    /\ At(w, "ensure") /\ Running(w)
    /\ UpdateActorMastodonId(task[w].who, task[w].mid)
    /\ IF task[w].then = "idle" THEN Finish(w) ELSE Goto(w, task[w].then)
    /\ UNCHANGED <<users, preferences, sequence, remote, oauth, announced, profiles, history>>

\* An account that anyone reads; without a UUID the read changes nothing.
GetAccount(w, a) ==
    /\ Start(w) /\ SelectActorBy(a) /\ actor[a].mid = Legacy
    /\ ServedTo("GET", "/api/v1/accounts/lookup", users, sessions, {}) # {}
    /\ Load(w, a, [Idle EXCEPT !.who = a])
    /\ UNCHANGED <<actor, users, preferences, remote, oauth, announced, profiles, history>>

\* The actor that a request with the token acts for.
Acts(method, route, token, a) ==
    token \in tokens /\ a \in ServedTo(method, route, users, sessions, {token})

-----------------------------------------------------------------------------
(* Registration: first-login.ts and createUser. *)

UsersOf(a) == {e \in DOMAIN users : users[e].actor = a}

\* The form names the account; the redirect_uri that comes with it holds the code that
\* /oauth/authorize made for a client.
FirstLogin(w, jwt, a, id) ==
    /\ Start(w) /\ GenerateValidator(jwt) /\ GetJwtEmail(jwt) # {}
    /\ GenerateMastodonId
    /\ Stay(w, [Idle EXCEPT !.at = "insertActor", !.who = a, !.jwt = jwt, !.client = id,
                            !.mid = NextVal])
    /\ UNCHANGED <<actor, users, preferences, remote, oauth, announced, profiles, history>>

\* The ids of actors are unique.
InsertActorRow(a, row) == actor[a] = None /\ actor' = [actor EXCEPT ![a] = row]

\* The name may be taken; nothing is undone when this insert throws.
InsertActor(w) ==
    /\ At(w, "insertActor") /\ Running(w)
    /\ LET t == task[w] IN
       \/ /\ InsertActorRow(t.who, [mid |-> t.mid, key |-> GenerateUserKey(t.mid, KEK).public,
                                   profile |-> Unchanged])
          /\ Goto(w, "rows")
       \/ UNCHANGED actor /\ Finish(w)
    /\ UNCHANGED <<users, preferences, sequence, remote, oauth, announced, profiles, history>>

\* The two inserts are started together and end in any order.
InsertActorPreferences(w) ==
    /\ At(w, "rows") /\ task[w].prefs = "pending" /\ Running(w)
    /\ \/ /\ actor[task[w].who] # None /\ task[w].who \notin preferences
          /\ preferences' = preferences \cup {task[w].who}
          /\ Stay(w, [task[w] EXCEPT !.prefs = "ok"])
       \/ UNCHANGED preferences /\ Stay(w, [task[w] EXCEPT !.prefs = "failed"])
    /\ UNCHANGED <<actor, users, sequence, remote, oauth, announced, profiles, history>>

\* Addresses and actors are unique in users, and the actor must be there.
CanInsertUser(a, email) == actor[a] # None /\ email \notin DOMAIN users /\ UsersOf(a) = {}

InsertUser(w) ==
    /\ task[w].at \in {"rows", "stray"} /\ task[w].user = "pending" /\ Running(w)
    /\ LET t == task[w]
           email == t.jwt.email
           Settle(outcome) == IF t.at = "stray" THEN Finish(w)
                              ELSE Stay(w, [t EXCEPT !.user = outcome]) IN
       \/ /\ CanInsertUser(t.who, email)
          /\ users' = [e \in DOMAIN users \cup {email} |->
                          IF e = email
                          THEN [actor |-> t.who, key |-> GenerateUserKey(t.mid, KEK).private]
                          ELSE users[e]]
          /\ Settle("ok")
       \/ UNCHANGED users /\ Settle("failed")
    /\ UNCHANGED <<actor, preferences, sequence, remote, oauth, announced, profiles, history>>

\* Mutant of CanDeleteActor: users has no foreign key.
CanDeleteAnyActor(a) == \A c \in ClientIds : <<a, c>> \notin subscriptions

\* ON DELETE RESTRICT of users, and the plain foreign key of subscriptions.
CanDeleteActor(a) == UsersOf(a) = {} /\ \A c \in ClientIds : <<a, c>> \notin subscriptions

CreationFailed(t) == t.prefs = "failed" \/ (t.prefs = "ok" /\ t.user = "failed")

\* Mutant of DeleteActor: nothing is undone.
LeaveActor(w) ==
    /\ At(w, "rows") /\ CreationFailed(task[w]) /\ Running(w)
    /\ IF task[w].user = "pending" THEN Goto(w, "stray") ELSE Finish(w)
    /\ UNCHANGED <<tables, remote, oauth, announced, profiles, history>>

\* The inserts are awaited in order, so insertUser may be in flight behind a failed
\* insertActorPreferences: it goes astray.  A deletion that throws is only logged.
DeleteActor(w) ==
    /\ At(w, "rows") /\ CreationFailed(task[w]) /\ Running(w)
    /\ LET a == task[w].who IN
       \/ /\ CanDeleteActor(a)
          /\ actor' = [actor EXCEPT ![a] = None]
          /\ preferences' = preferences \ {a}
          /\ UNCHANGED damaged
       \/ damaged' = damaged \cup {a} /\ UNCHANGED <<actor, preferences>>
    /\ IF task[w].user = "pending" THEN Goto(w, "stray") ELSE Finish(w)
    /\ UNCHANGED <<users, sequence, remote, oauth, announced, profiles, silenced, foreign>>

\* The redirect to the client.
Registered(w) ==
    /\ At(w, "rows") /\ task[w].prefs = "ok" /\ task[w].user = "ok" /\ Running(w)
    /\ Finish(w)
    /\ codes' = codes \cup {Code(task[w].client, task[w].jwt)}
    /\ UNCHANGED <<tables, remote, clients, credentials, tokens, sessions, subscriptions,
                   announced, profiles, history>>

\* A worker may be gone at any await.
Crash(w) ==
    /\ Running(w) /\ Finish(w)
    /\ damaged' = IF At(w, "rows") THEN damaged \cup {task[w].who} ELSE damaged
    /\ silenced' = IF task[w].wrote THEN silenced \cup {task[w].who} ELSE silenced
    /\ UNCHANGED <<tables, remote, oauth, announced, profiles, foreign>>

-----------------------------------------------------------------------------
(* The profile of a local account: update_credentials.ts. *)

\* The actor that is read from the row of a local account.
ActorFromRow(a) ==
    [key |-> actor[a].key, profile |-> actor[a].profile, aliases |-> aliases[a]]

\* seen is connectedActor, as the middleware loaded it.
UpdateCredentials(w, token, a, form) ==
    /\ Start(w) /\ Acts("PATCH", "/api/v1/accounts/update_credentials", token, a)
    /\ Load(w, a, [Idle EXCEPT !.at = "write", !.who = a, !.form = form,
                               !.seen = ActorFromRow(a)])
    /\ UNCHANGED <<actor, users, preferences, remote, oauth, announced, profiles, history>>

Silence(w) == silenced' = IF task[w].wrote THEN silenced \cup {task[w].who} ELSE silenced

\* One json_set for each field of the form; an upload of an image may throw.
WriteField(w) ==
    /\ At(w, "write") /\ task[w].form # {} /\ Running(w)
    /\ LET f == IF "name" \in task[w].form THEN "name" ELSE "icon" IN
       \/ /\ profiles < MaxProfiles /\ profiles' = profiles + 1
          /\ actor' = [actor EXCEPT ![task[w].who].profile[f] = profiles + 1]
          /\ Stay(w, [task[w] EXCEPT !.form = @ \ {f}, !.wrote = TRUE])
          /\ UNCHANGED silenced
       \/ Finish(w) /\ Silence(w) /\ UNCHANGED <<actor, profiles>>
    /\ UNCHANGED <<users, preferences, sequence, remote, oauth, announced, damaged, foreign>>

\* Mutant of Reload: connectedActor is announced.
ReloadNothing(w) ==
    /\ At(w, "write") /\ task[w].form = {} /\ Running(w) /\ Goto(w, "announce")
    /\ UNCHANGED <<tables, remote, oauth, announced, profiles, history>>

\* The actor is read again, with what other requests have written.
Reload(w) ==
    /\ At(w, "write") /\ task[w].form = {} /\ Running(w)
    /\ LET a == task[w].who IN
       Load(w, a, [task[w] EXCEPT !.at = "announce", !.seen = ActorFromRow(a)])
    /\ UNCHANGED <<actor, users, preferences, remote, oauth, announced, profiles, history>>

\* Throws without a row.
GetPreference(a) == a \in preferences

\* A batch may be refused without the request noticing.
Announce(w) ==
    /\ At(w, "announce") /\ Running(w) /\ Finish(w)
    /\ LET t == task[w] IN
       \/ /\ GetPreference(t.who)
          /\ announced' = [announced EXCEPT ![t.who] = @ \cup {t.seen}]
          /\ silenced' = IF t.seen.profile = actor[t.who].profile
                         THEN silenced \ {t.who} ELSE silenced
       \/ UNCHANGED announced /\ Silence(w)
    /\ UNCHANGED <<tables, remote, oauth, profiles, damaged, foreign>>

-----------------------------------------------------------------------------
(* Remote actors: actors/index.ts, webfinger, alias.ts, and Updates of actors.*)

\* getAndCacheActor looks for the address, and not for the id in the document there.
Cached(url) == url \in Actors /\ actor[url] # None

\* No address for a query that fails, or when the answer has no link.
QueryAcctLink(handle) == Links(handle) \cap Urls

\* A search that resolves a handle.
ResolveAccount(w, handle, url) ==
    /\ Start(w) /\ url \in QueryAcctLink(handle) /\ ~Cached(url)
    /\ \E token \in tokens, a \in Locals : Acts("GET", "/api/v2/search", token, a)
    /\ Stay(w, [Idle EXCEPT !.at = "fetch", !.url = url])
    /\ UNCHANGED <<tables, remote, oauth, announced, profiles, history>>

\* addAlias; the Follow that it then delivers asks for nothing that is modelled here.
AddAlias(w, a, handle, url) ==
    /\ Start(w) /\ UsersOf(a) # {} /\ url \in QueryAcctLink(handle)
    /\ Stay(w, [Idle EXCEPT !.at = IF Cached(url) THEN "setAlias" ELSE "fetch",
                            !.who = a, !.url = url])
    /\ UNCHANGED <<tables, remote, oauth, announced, profiles, history>>

\* A name is cut at 30 characters.  What is cut stays as it is when it is cut again.
Sanitize(profile) == [profile EXCEPT !["name"] = IF @ \in Long THEN -@ ELSE @]

\* A document that another server makes for an id.
ForeignDocument(profile) == [key |-> ForeignKey, profile |-> profile, aliases |-> {}]

\* 404 and 410 are no actor, and this server says 404 for a local id without a row; other
\* answers, and documents without an actor, throw.
FetchActor(w) ==
    /\ At(w, "fetch") /\ Running(w)
    /\ \/ /\ task[w].url \notin Locals /\ GenerateMastodonId
          /\ Stay(w, [task[w] EXCEPT
                         !.at = "insert", !.mid = NextVal,
                         !.seen = ForeignDocument(Sanitize(published[IdOf(task[w].url)]))])
       \/ UNCHANGED sequence /\ Finish(w)
    /\ UNCHANGED <<actor, users, preferences, remote, oauth, announced, profiles, history>>

\* The row is that of the id in the document, be it one of this server's.
InsertRemoteActor(w) ==
    /\ At(w, "insert") /\ Running(w)
    /\ LET id == IdOf(task[w].url)
           doc == task[w].seen IN
       \/ /\ InsertActorRow(id, [mid |-> task[w].mid, key |-> doc.key, profile |-> doc.profile])
          /\ Goto(w, "addPeer")
          /\ foreign' = foreign \cup ({id} \cap Locals)
       \/ UNCHANGED <<actor, foreign>> /\ Finish(w)
    /\ UNCHANGED <<users, preferences, sequence, remote, oauth, announced, profiles, damaged,
                   silenced>>

AddPeer(w) ==
    /\ At(w, "addPeer") /\ Running(w)
    /\ \/ /\ peers' = peers \cup {HostOf(IdOf(task[w].url))}
          /\ IF task[w].who = None THEN Finish(w) ELSE Goto(w, "setAlias")
       \/ UNCHANGED peers /\ Finish(w)
    /\ UNCHANGED <<tables, aliases, published, updates, oauth, announced, profiles, history>>

SetActorAlias(w) ==
    /\ At(w, "setAlias") /\ Running(w) /\ Finish(w)
    /\ \/ aliases' = [aliases EXCEPT ![task[w].who] = @ \cup {IdOf(task[w].url)}]
       \/ UNCHANGED aliases
    /\ UNCHANGED <<tables, peers, published, updates, oauth, announced, profiles, history>>

\* The profile is edited on the server that shows it.
RemoteEdits(a) ==
    /\ profiles < MaxProfiles /\ profiles' = profiles + 1
    /\ published' = [published EXCEPT ![a] = [f \in Fields |-> profiles + 1]]
    /\ UNCHANGED <<tables, peers, aliases, updates, oauth, announced, task, requests, history>>

Receive(a, doc) == updates' = updates \cup {[actor |-> a, doc |-> doc]}

\* The inbox of a local actor puts what is signed on the queue, whomever it names.
ReceiveUpdate(d) ==
    /\ Single /\ InboxAccepts(d.request, Served, 0)
    /\ actor[d.to] # None
    /\ Receive(d.actor, ForeignDocument(published[d.by]))
    /\ UNCHANGED <<tables, peers, aliases, published, oauth, announced, profiles, history>>

\* The key of its user signs for the key that the actor shows.
SignsForItself(a) == \E e \in UsersOf(a) : actor[a].key \in UnwrapPrivateKey(users[e].key, KEK)

\* The consumer posts the Update of a local actor to its followers, the local ones among
\* them, whose inbox takes it as any other.
DeliverUpdate(a, doc) ==
    /\ doc \in announced[a] /\ \E b \in Locals \ {a} : actor[b] # None
    /\ SignsForItself(a)
    /\ Receive(a, doc)
    /\ UNCHANGED <<tables, peers, aliases, published, oauth, announced, task, requests, profiles,
                   history>>

\* handleUpdateActivity for an actor: delivered in any order, and again.  The actor is that
\* of the object, with the same id; all its properties are replaced.  (A UUID in the row is
\* first replaced, as by any read.)
HandleUpdate(u) ==
    /\ u \in updates /\ actor[u.actor] # None /\ actor[u.actor].mid # Legacy
    /\ actor' = [actor EXCEPT ![u.actor] =
                    [@ EXCEPT !.key = u.doc.key, !.profile = Sanitize(u.doc.profile)]]
    /\ aliases' = [a \in Locals |-> IF a = u.actor THEN u.doc.aliases ELSE aliases[a]]
    /\ foreign' = IF u.doc.key = ForeignKey THEN foreign \cup ({u.actor} \cap Locals) ELSE foreign
    /\ UNCHANGED <<users, preferences, sequence, peers, published, updates, oauth, announced, task,
                   requests, profiles, damaged, silenced>>

-----------------------------------------------------------------------------
(* OAuth clients, and the push subscriptions of a user's client.           *)

CreateClient(id, client) ==
    /\ Single /\ id \notin DOMAIN clients
    /\ clients' = [c \in DOMAIN clients \cup {id} |-> IF c = id THEN client ELSE clients[c]]
    /\ UNCHANGED <<tables, remote, credentials, codes, tokens, sessions, subscriptions,
                   announced, profiles, history>>

\* /oauth/authorize.  A user of whom users has no row gets the code after /first-login.
GrantCode(id, redirect, jwt) ==
    /\ Single /\ IsUserAuthenticated(jwt, sessions)
    /\ BuildRedirect(clients, id, redirect)
    /\ RedirectPage(GetUserByEmail(users, jwt.email) = {}) = "client"
    /\ codes' = codes \cup {Code(id, jwt)}
    /\ UNCHANGED <<tables, remote, clients, credentials, tokens, sessions, subscriptions,
                   announced, profiles, history>>

\* /oauth/token.  The code is the token; only client_credentials store one.
CreateToken(params) ==
    /\ Single /\ TokenGranted(clients, params)
    /\ IF params.grant = "authorization_code"
       THEN tokens' = tokens \cup {params.code} /\ UNCHANGED <<sequence, credentials>>
       ELSE /\ credentials' = credentials \cup {<<params.client, NextVal>>}
            /\ GenerateMastodonId /\ UNCHANGED tokens
    /\ UNCHANGED <<actor, users, preferences, remote, clients, codes, sessions, subscriptions,
                   announced, profiles, history>>

\* Access logs a user out.
EndSession(jwt) ==
    /\ Single /\ jwt \in sessions
    /\ sessions' = sessions \ {jwt}
    /\ UNCHANGED <<tables, remote, clients, credentials, codes, tokens, subscriptions,
                   announced, profiles, history>>

\* The middleware, then getClientById.
PushSubscription(w, token, a) ==
    /\ Start(w) /\ Acts("POST", "/api/v1/push/subscription", token, a)
    /\ GetClientById(clients, token.client) # {}
    /\ Load(w, a, [Idle EXCEPT !.at = "subscription", !.who = a, !.client = token.client])
    /\ UNCHANGED <<actor, users, preferences, remote, oauth, announced, profiles, history>>

GetSubscription(w) ==
    /\ At(w, "subscription") /\ Running(w)
    /\ IF <<task[w].who, task[w].client>> \in subscriptions
       THEN Finish(w) ELSE Goto(w, "subscribe")
    /\ UNCHANGED <<tables, remote, oauth, announced, profiles, history>>

\* The slower of two requests of one client throws: the key is unique.
CreateSubscription(w) ==
    /\ At(w, "subscribe") /\ Running(w) /\ Finish(w)
    /\ LET key == <<task[w].who, task[w].client>> IN
       \/ /\ actor[task[w].who] # None /\ key \notin subscriptions
          /\ subscriptions' = subscriptions \cup {key}
       \/ UNCHANGED subscriptions
    /\ UNCHANGED <<tables, remote, clients, credentials, codes, tokens, sessions, announced,
                   profiles, history>>

-----------------------------------------------------------------------------

RegistrationStep(w) ==
    \/ \E jwt \in Jwts, a \in Locals, id \in DOMAIN clients : FirstLogin(w, jwt, a, id)
    \/ InsertActor(w) \/ InsertActorPreferences(w) \/ InsertUser(w)
    \/ DeleteActor(w) \/ Registered(w)

ProfileStep(w) ==
    \/ \E token \in tokens, a \in Locals, form \in SUBSET Fields :
          UpdateCredentials(w, token, a, form)
    \/ WriteField(w) \/ Reload(w) \/ Announce(w)

RemoteStep(w) ==
    \/ \E handle \in Handles, url \in Urls :
          \/ ResolveAccount(w, handle, url)
          \/ \E a \in Locals : AddAlias(w, a, handle, url)
    \/ FetchActor(w) \/ InsertRemoteActor(w) \/ AddPeer(w) \/ SetActorAlias(w)

PushStep(w) ==
    \/ \E token \in tokens, a \in Locals : PushSubscription(w, token, a)
    \/ GetSubscription(w) \/ CreateSubscription(w)

TokenParams(grant) ==
    {[grant |-> grant, code |-> code, client |-> id, secret |-> id, redirect |-> uri,
      scope |-> Scopes] : code \in codes, id \in ClientIds, uri \in RedirectUris}

OAuthStep ==
    \/ \E id \in ClientIds, client \in Client : CreateClient(id, client)
    \/ \E id \in ClientIds, uri \in RedirectUris, jwt \in Jwts : GrantCode(id, uri, jwt)
    \/ \E grant \in {"authorization_code", "client_credentials"} :
          \E params \in TokenParams(grant) : CreateToken(params)
    \/ \E jwt \in Jwts : EndSession(jwt)

FederationStep ==
    \/ \E a \in Edited : RemoteEdits(a)
    \/ \E d \in Deliveries : ReceiveUpdate(d)
    \/ \E a \in Locals : \E doc \in announced[a] : DeliverUpdate(a, doc)
    \/ \E u \in updates : HandleUpdate(u)

Next ==
    \/ \E w \in Workers :
          \/ RegistrationStep(w) \/ ProfileStep(w) \/ RemoteStep(w) \/ PushStep(w)
          \/ \E a \in Actors : GetAccount(w, a)
          \/ EnsureMastodonId(w) \/ Crash(w)
    \/ OAuthStep \/ FederationStep

Spec == Init /\ [][Next]_vars

-----------------------------------------------------------------------------
(* Properties. *)

InCreation(a) == \E w \in Workers : At(w, "rows") /\ task[w].who = a

\* A registration is all or nothing (createUser): a local account that no request is
\* creating has its preferences, and a user whose private key, unwrapped, signs for the
\* public key that the actor shows - unless the registration was cut, its compensation was
\* refused, or the row is what another server made.
RegistrationAtomic ==
    \A a \in Locals :
        (actor[a] # None /\ ~InCreation(a) /\ a \notin damaged \cup foreign) =>
            a \in preferences /\ SignsForItself(a)

\* What users and clients know an account by is final: an address stays that of its actor
\* whatever later registrations undo, and a Mastodon id, once it is a number, does not
\* change however many requests replace the UUID at the same time.
IdentityIsFinal ==
    [][/\ \A e \in DOMAIN users : e \in DOMAIN users' /\ users'[e] = users[e]
       /\ \A a \in Actors :
             (actor[a] # None /\ actor[a].mid # Legacy /\ actor'[a] # None) =>
                 actor'[a].mid = actor[a].mid]_vars

Editing(a) == \E w \in Workers : task[w].who = a /\ task[w].wrote

\* What an Update makes of a profile on this server: the profile, or the cut copy of it
\* that comes back from a local follower.
Copies(profile) == {profile, Sanitize(profile)}

\* Followers are told the profile as it ends up (update_credentials): when no request is
\* editing an account, its whole current profile was in an Update that the queue took, or is
\* the copy of one that came back, however edits overlapped - unless the last word was with
\* a request that failed, or the row is what another server made.
ProfileAnnounced ==
    \A a \in Locals :
        (actor[a] # None /\ ~Editing(a) /\ a \notin silenced \cup foreign) =>
            \E profile \in {doc.profile : doc \in announced[a]} \cup {Unchanged} :
                actor[a].profile \in Copies(profile)
=============================================================================
