# A TLA+ model of wildebeest

wildebeest is an ActivityPub and Mastodon-API server that runs on Cloudflare: API routes
on Workers, a D1 (SQLite) database, a queue with a consumer worker, and a Durable Object
used as a cache.  Nothing is shared between two requests but the database and that cache,
so every handler that reads, awaits and writes races every other one, and may die between
two awaits.  That is what these specifications are about.

All paths below are relative to the repository; `B/` stands for `packages/backend/src/`.

## 1. The system

| Component | State | Operations | Talks to |
|---|---|---|---|
| Follow graph (`B/mastodon/follow.ts`, `block.ts`, inbox handlers Follow, Accept, Move, routes follow, unfollow, block, unblock, follow_requests) | `actor_following`, `blocks`, `actors.interaction_count` | follow, unfollow, block, unblock, authorize, reject; inbound Follow, Accept, Move | delivers and enqueues Follow, Undo, Accept, Reject |
| Queue and consumer (`packages/consumer/src`, `B/routes/ap/users/[id]/inbox.ts`, `enqueueDelivery`) | the queue's messages and batches | send, a batch delivered, `queue()` returns or throws | runs every inbox handler and every delivery |
| Inbound notes (`B/activitypub/activities/create.ts`, `delete.ts`, `objects/index.ts`, `packages/consumer/src/inbox.ts`) | `objects`, `outbox_objects`, `inbox_objects`, `actor_notifications`, the cached notifications | inbound Create and Delete; the pregeneration after them | called by the consumer |
| Interactions (`B/mastodon/like.ts`, `reblog.ts`, `bookmark.ts`, `interaction_count.ts`, handlers Like, Announce, Undo) | `actor_favourites`, `actor_reblogs`, `bookmarks`, `outbox_objects`, counters of `objects` | favourite, reblog, bookmark and their inverses; inbound Like, Announce, Undo | outbox, deliveries |
| Statuses (`B/routes/api/v1/statuses.ts`, `statuses/[id].ts`, `idempotency.ts`, `objects/note.ts`) | `objects`, `outbox_objects`, `idempotency_keys`, `object_revisions` | post, edit, delete, history | deliveries to followers and mentions |
| Replies projection (`B/mastodon/reply.ts`, `reply_projection.ts`, `getObjectBy`) | `actor_replies`, `objects.in_reply_to_id`, `replies_count` | insert, repair on read, update, delete | statuses, inbound notes |
| Timelines and visibility (`B/mastodon/timeline.ts`, `status.ts`, `status_visibility.ts`, `account_relationship.ts`, `list.ts`, the pages of accounts, favourites, outboxes) | `outbox_objects` joined with `actor_following`, `blocks`, `mutes`, `lists`; a cached home timeline per account | home, list, public, account pages, context, history; reblog permissions; regenerate | statuses, consumer, blocks, mutes |
| Accounts (`B/accounts/user.ts`, `B/routes/first-login`, `update_credentials.ts`) | `actors`, `users`, `actor_preferences`, `actors_id_seq` | first login with compensation, edits of a profile | the queue, for its Updates |
| Remote actors (`B/activitypub/actors/index.ts`, `peers.ts`, `B/webfinger`, `alias.ts`) | `actors`, `peers`, `alsoKnownAs` | resolve a handle, fetch, insert, alias, inbound Update of an actor, legacy ids | every inbound handler |
| Apps, OAuth, access (`B/access`, `B/middleware`, `B/routes/oauth`, `apps.ts`) | `clients`, `client_credentials`, sessions of Cloudflare Access | register a client, authorize, token, the middleware | every API route |
| HTTP signatures and keys (`B/utils/http-signing.ts`, `httpsigjs/`, `key-ops.ts`) | none | sign, parse, verify, wrap and unwrap keys | deliveries, inboxes |
| Web push (`B/webpush`, `push/subscription.ts`, `B/mastodon/subscription.ts`) | `subscriptions` | subscribe; send | notifications |
| Lists, mutes, domain blocks, filters, private notes, preferences | a table each | single statements, except `updateList` | timelines |
| Read-only API, WebFinger, NodeInfo, media upload | none of their own | queries and formatting | |
| Frontend | | views of the API | |

### What is hard here

* **Interleaving.** A handler checks (`hasBlockBetween`, `hasReblog`, `hasKey`, "is the
  note there already?"), awaits, and writes.  The code's answer is to repeat the check
  inside the writing statement (`NOT EXISTS (SELECT 1 FROM blocks ...)`, `INSERT OR IGNORE`,
  `ON CONFLICT`, `WHERE mastodon_id = ?`), or to test the number of changed rows.  Whether it
  does so everywhere it matters, is the question.
* **Death in between.** There are no transactions over several awaits.  A delivery that
  fails, or an isolate that is evicted, leaves what was written so far.
* **Repetition.** Peers repeat activities; the queue hands a whole batch back when one
  message of it throws; clients repeat requests.  Handlers must be idempotent or detect
  repetitions.
* **Ordering.** A Delete may overtake its Create, an Accept may arrive after an unfollow, an
  older timeline may be cached after a newer one.
* **Two renderings of one rule.** Who may see a note is decided by SQL over the audiences of
  outbox rows, and by `isVisible` over the note.

What makes each component correct:

* Follow graph: a block ends follows and none comes back; the counters that protect remote
  actors from the cleanup follow the rows; an Accept leaves only for what was accepted, and
  does leave; an accepted follow is ended by nobody but the two.
* Queue: nothing is lost except for a known reason; every message is settled in the end.
* Inbound notes: each note is announced once to each recipient, who also finds it in his
  cached notifications; a deleted note stays away.
* Interactions: counters equal to the rows; a remote note that users keep is never counted as
  unused; a reblog's outbox row and its reblog row live and die together; an Undo names
  nothing that stands.
* Statuses: answers under one key agree; followers hear of what is published and of what is
  deleted; the history of a note is complete.
* Replies: the two records of a link agree; `replies_count` is the number of replies.
* Timelines: nobody is shown what its author did not let them see, on whatever way; the two
  renderings of visibility agree; the cache forgets who is blocked or muted.
* Accounts: a registration is all or nothing; addresses and ids are final; followers hear the
  profile as it ends up.
* Signatures: what this server signs, this server accepts.

## 2. The modules

| Module | What it is |
|---|---|
| `FollowGraph` | rows of `actor_following` and `blocks`, `interaction_count`, and all their handlers |
| `FollowGraphProofs` | the proofs about it |
| `AtLeastOnce` | abstract: what a sender may expect of the queue |
| `Consumer` | the queue, and the loop of `queue()` over a batch |
| `ConsumerProofs` | the queue implements the safety part of `AtLeastOnce`, and loses nothing without a reason |
| `InboundNotes` | extends `Consumer` by what the handlers of Create and Delete do, and by the notifications, of which the newest are cached |
| `InboundNotesProofs` | its safety, on top of `ConsumerProofs` |
| `Interactions` | favourites, bookmarks, reblogs, their counters and outbox rows |
| `InteractionsProofs` | the counters, and the two rows of a reblog |
| `Replies` | the links between notes, kept in three places |
| `RepliesProofs` | the two records of a link agree, and the count of replies |
| `Statuses` | posting, editing, deleting, under idempotency keys |
| `StatusesProofs` | its safety |
| `Timelines` | the queries, the check of a single status, the cached home timeline |
| `TimelinesProofs` | its safety |
| `Access` | operators: JWTs, OAuth clients, the middleware |
| `HttpSignatures` | operators: signing and verifying requests, keys |
| `Accounts` | extends the two: registrations, profiles, remote actors, OAuth, subscriptions |
| `AccountsProofs` | its safety; and what is signed is accepted |
| `MC...` | the instances for TLC |

The modules share a form.  A worker is idle or has a task: what its handler is about, and the
stage at which it awaits.  An action is what a handler does from one await to the next, and
`Fail` (`Crash`, `ThrowFromLoop`) is the worker whose await throws, or that is evicted.  A
`db.batch` is one step.  Foreign keys and unique columns are guards: an insert that they refuse
cannot happen, and the only way on is the failure.  Variables that no handler reads are named
as history: they remember, for the properties, what happened to a row.

They do not share tables, though the code does.  `objects` is in `Interactions`, `Replies`,
`Statuses`, `InboundNotes` and `Timelines`, each time with the columns that its handlers
decide on; what the others do to it there is one step (`DeleteNote` in `Interactions`,
`Publish` in `Timelines`).  The follow graph is in `Timelines` with its accepted rows only.

### FollowGraph

| Action | Code |
|---|---|
| `BeginFollow`, `FollowLookup`, `FollowInsert` | `accounts/[id]/follow.ts`: `hasBlockBetween`; `isFollowingOrFollowingRequested`; `addFollowing` |
| `BeginUnfollow`, `UnfollowRemove` | `unfollow.ts`: the lookup; after the delivered Undo, `removeFollowing` |
| `BeginBlock`, `BlockSeverOut`, `BlockSeverIn` | `block.ts`: `insertBlock`; the two `removeFollowing` of `removeBlockRelatedFollows` |
| `Unblock` | `unblock.ts` |
| `BeginInboxFollow`, `StorePending` or `StoreAccepted`, `Reread`, `Reply` | `activities/follow.ts`: `hasBlockBetween`; `ensurePendingFollowingIfNotBlocked` or `ensureAcceptedFollowingIfNotBlocked`; their second query; the Accept |
| `InboxAccept` | `activities/accept.ts`, `acceptFollowing` |
| `BeginAuthorize`, `AuthorizeAccept`, `Reply`; `BeginReject`, `RejectRemove` | `follow_requests/[id]/authorize.ts`, `reject.ts` |
| `BeginMove`, `MoveFollowers`, `MoveFollowing` | `activities/move.ts`: its batches of `moveFollowers` and `moveFollowing` |
| `Fail` | anything awaited throws, or the isolate dies |

History: `moved`, `miscounted`, `abandoned`, `severed`, `answered`.  There is no inbound handler
for `Undo` of a Follow, for `Reject` and for `Block` (`B/activitypub/activities/handle.ts`,
`undo.ts`), so there are no such actions.

### Consumer

Cloudflare's queue is external, and modelled by what the code relies on: an invocation gets
up to `max_batch_size` messages in any order; when `queue()` returns its batch is done; when
it throws the whole batch is retried, and a message is dropped after `max_retries`
(`.github/workflows/deploy.yml`, lines 235-237).  The code is `packages/consumer/src/index.ts`:
find the actor of the next message (`Start`, or `ActorMissing`, which returns from the whole
loop), handle it (`End`), and let errors through (`Throw`).

`AtLeastOnce` says: a message is new, waiting, done or lost, and does not wait for ever.
`KeepsPromise` is `AtLeastOnce!Spec` under the mapping `StatusOf`, liveness included.

### InboundNotes

The handlers of Create and Delete, cut at each database call, run inside the loop of
`Consumer`: every action of the queue is conjoined with what it means for the handler.  After
the handler the consumer pregenerates the notifications of the account whose inbox the message
was posted to (`ReadNotifications`, `PutNotifications`; `packages/consumer/src/inbox.ts:24`),
whichever other accounts the note mentions.  The notes are no replies; `mismatched` are the
Creates whose recipients are not those of their note (the early return of `create.ts:93`).
Only the `Limit` newest notifications of an account are read (20, `B/mastodon/notification.ts:256`),
so `newer` has, for each mention, how many notifications of any type its recipient got after it:
other mentions, and what likes, boosts and follows add (`NotifyOther`) and deletions take away again
(`DeleteOther`).  Where a race gave a recipient two mentions of one note, the newer of them counts.
History: `partial`, `settled`, `raced`, `overtaken`.

### Interactions

| Action | Code |
|---|---|
| `Favourite`, `Unfavourite`, `Bookmark`, `Unbookmark`, `HandleLike` | the batches of `like.ts` and `bookmark.ts`, which count in the statement after the row's |
| `RecountInteractions` | the statement of `refreshRemoteObjectInteractionCount` after each of them |
| `BeginReblog` / `HandleAnnounce`, `AddObjectInOutbox`, `InsertReblog`, `RecountInserted`, `Compensate`, `DeliverAnnounce` | `statuses/[id]/reblog.ts` and `activities/announce.ts`; `createReblog`, which removes its outbox row again when it was not first |
| `BeginUnreblog`, `SelectByNote` / `HandleUndo`, `RemoveReblog`, `RecountRemoved`, `DeliverUndo` | `unreblog.ts` and `activities/undo.ts`; `deleteReblogWhere` |
| `DeleteNote` | `deleteObjectProjectionStatements` |

History: `spent` ids, `uncounted` notes, `orphaned` outbox rows, `undone` Announces.

### Replies

A note's parent is named by its properties (`inReplyTo`), by its column and by a row of
`actor_replies` (`parent`, `replyRow`), and is counted in `replies_count`.  Every read repairs
the link (`ReadNote`, `FindParent`, `InsertParent`, `FindGrandparent`, `RepairParent`, `Repair`:
`getObjectBy`, `cacheReply`, `repairReplyProjection`), which may fetch the parent first and
never more than one level; `InsertReply` is the batch of `insertReply`.  Posting, creating,
updating and deleting a note each begin with such a read.  A row is a note and a number, as a
remote note that was deleted may be fetched again.  History: `overlooked`, the parents that a
deletion did not know of or did not come to recount.

### Statuses

`BeginPost` to `AnswerPost` are the POST: `hasKey`, `createNote`, the outbox row, the chunks of
`deliverFollowers`, the mentions, `insertKey`, the caches; `RepeatPost` is the request whose key
is found.  `BeginPut` to `DeliverUpdate` are the PUT, `BeginDelete` to `DeliverDelete` the DELETE.
`Expire` is an hour passing: the row of the key stays, `hasKey` no longer finds it.  `HandOut`
may be refused without the request noticing, since the chunks are sent with `allSettled`.
History: `lastVersion`, `answered`, `raced`, `silent`.

### Timelines

The queries are operators over the tables: `HomeRows`, `ListRows`, `PublicRows`, `AccountRows`,
`OutboxPageRows`, `ReplyRows`; so are the checks of a single status, `IsVisible` and
`CanViewStatus`, and the two permissions to reblog, `ReblogAllowed` of the route and
`AnnounceAllowed` of the inbox.  The actions change the tables (notes, reblogs, follows, blocks,
mutes, one list) and run `pregenerateTimelines`: `ReadFollows`, `ReadRows`, `PutHome`, several
at a time.  History: `lost`, the viewers whose cache holds what was read before a block or a
mute and written after it, or that a dead request was to regenerate.

A note has an author (`attributedTo`) and the account that it is stored under
(`original_actor_id`, here `OriginalActor`).  They are one for a note that was posted here, and for
one that its author's Create brought (`Publish`); nobody compares the sender of a Create with
`attributedTo`, so the model does not either.  A note that is fetched, for an Announce or as the parent of a reply
(`CacheNote`), is stored under whoever brought it (`B/activitypub/objects/index.ts:261`, `:276`,
`:313`), gets no outbox row, and a later Create of it does nothing.  The checks of a single status,
and what hides blocked and muted accounts, go by `OriginalActor`; the permission to reblog a note
that is not public goes by the author.

The queries are written apart, and are so here.  Where the row of an account holds no followers URL
(`NoFollowers`), `getHomeTimeline` adds the viewer's own (`timeline.ts:52`, `HomeAddresses`) and
`getListTimeline` the member's (`timeline.ts:327`, `ListAddresses`).  Home ends after `Limit` rows
(20), a list after as many as are asked for; `published_date` orders them.

### Accounts, Access, HttpSignatures

| Action | Code |
|---|---|
| `FirstLogin`, `InsertActor`, `InsertActorPreferences`, `InsertUser`, `DeleteActor`, `Registered` | `first-login.ts`, `createUser`: two inserts are started together and awaited in order; when one throws the actor is deleted again |
| `UpdateCredentials`, `WriteField`, `Reload`, `Announce` | `update_credentials.ts`: a statement per field, the actor read again, its Update |
| `EnsureMastodonId`, `GetAccount` | `ensureMastodonId`: a UUID is replaced by a number on the first read |
| `ResolveAccount`, `AddAlias`, `FetchActor`, `InsertRemoteActor`, `AddPeer`, `SetActorAlias` | search with `resolve`, `alias.ts`, `getAndCacheActor` |
| `RemoteEdits`, `ReceiveUpdate`, `HandleUpdate` | a peer's edit; the inbox, which puts on the queue what `InboxAccepts`; `activities/update.ts` |
| `DeliverUpdate` | `packages/consumer/src/deliver.ts`: a local actor's Update is posted to his local followers too, and comes in as any other |
| `CreateClient`, `GrantCode`, `CreateToken`, `EndSession` | `apps.ts`, `oauth/authorize.ts`, `oauth/token.ts`, a logout of Access |
| `PushSubscription`, `GetSubscription`, `CreateSubscription` | `push/subscription.ts` |

`Access` says whom a request acts for (`ServedTo`: a public route without token, or the actor of
the address in a token that validates and whose session Access confirms).  `HttpSignatures` says
what is covered by a signature, what must be, and which dates are fresh; a string is the function
from the covered headers to their values.

The ids in documents and activities are taken as they are stated.  `getAndCacheActor` stores a
document under the id in it, whatever the address it was fetched from (`IdOf`;
`B/activitypub/actors/index.ts:149`).  The inbox checks that a request is signed, and does not compare
the key with `activity.actor` (`inbox.ts:18-50`); `handleUpdateActivity` compares that actor with the
id of the object.  So both may name any actor, a local one included, and the model puts no
condition on either.  `HandleUpdate` replaces all properties of the row by the sanitised copy of what
the Update holds: key, aliases, and the profile with its name cut at 30 characters (`Sanitize`; a
value in `Long` is one that gets cut).  That is what it makes of a local actor's own Update
as well.  The history variable `foreign` has the local ids whose row a document or an Update of
another server has written; `damaged` and `silenced` are the other two.

## 3. What is checked

| Run | Specification | Properties | Instance |
|---|---|---|---|
| `MCFollowGraph` | `Spec` | `TypeOK`, `BlockSevers`, `InteractionCountSound`, `AcceptIsGranted`, `FollowEndsByItsParties` | 2 local actors (one locked), 2 remote, 2 workers |
| `MCFollowGraphAnswer` | `FairSpec` | `BlockSevers`, `AcceptedFollowIsAnswered` | one follower, an open and a locked followee, 2 workers |
| `MCFollowGraphCount` | `Spec` | `InteractionCountAccurate` (violated) | Move |
| `MCFollowGraphUnfollow` | `Spec` | `UnfollowsRemoteOnly` (violated) | Move |
| `MCConsumer` | `FairQueueSpec` | `QueueTypeOK`, `LostForAReason`, `KeepsPromise` | 3 messages, one without actor; batches of 2; 1 retry; 2 invocations |
| `MCConsumerDelivers` | `QueueSpec` | `AcknowledgedIsHandled` (violated) | the same |
| `MCInboundNotes` | `Spec` | `TypeOK`, `AnnouncedOnce`, `AnnouncedToAll`, `SettledDeleteIsFinal`, `MentionIsCached` | 1 note, 2 recipients, 2 Creates, 1 Delete; batches of 2; 1 retry; 2 invocations; 1 notification is shown, and a newer one may come |
| `MCInteractions` | `Spec` | `TypeOK`, `InteractionsProtect`, `CountersSettle`, `ReblogsArePublished`, `UndoneIsGone` | 1 local, 1 remote actor, 1 remote note; 3 outbox ids, 2 ids of Announces; 2 workers |
| `MCReplies` | `Spec` | `TypeOK`, `LinksAgree`, `RepliesCounted` | 1 local note, 2 remote ones, each up to two rows; 2 workers |
| `MCStatuses` | `Spec` | `TypeOK`, `AnswersAgree`, `HandedOutIsPublished`, `DeleteIsHandedOut`, `HistoryIsComplete` | 2 notes, 1 key, public or direct, 3 versions, 2 workers |
| `MCTimelines` | `Spec` | `TypeOK`, `ShownIsEntitled`, `HomeIsOpenable`, `ListWithinHome`, `SettledHomeHides` | a viewer and an author here, two accounts elsewhere, one of them without followers URL; 1 note, one of 6 posts; home of 1 row, lists of 1 or 2; 3 changes of the tables; 2 workers |
| `MCAccounts` | `Spec` | `TypeOK`, `RegistrationAtomic`, `ProfileAnnounced`, `IdentityIsFinal` | an account, a second name and address, a remote actor, an address whose document states a local id; Updates that name their signer or a local actor; 3 requests, 2 edits; 2 workers |

Why these bounds are enough to be interesting.

* Every hazard of the follow graph is between two handlers of one pair of actors, or of one pair
  and its inverse (block), or of two followers of one remote actor (the counter): two workers and
  two local actors have them all, and handlers start again without limit, so that a third handler
  may follow after either of the two.
* A batch of two is the smallest with something after, or before, the message that throws; with
  one retry a message can be handled twice, dropped alone, and dropped with another.  Two Creates
  of one note have the race for the insert and the resurrection; the Delete has every place
  between and inside them.  With a limit of one, a single notification of another type pushes a
  mention out, and its deletion brings the mention back.
* In `Interactions` two ids of Announces let a user reblog, withdraw and reblog again, so that
  an Undo can name the wrong one; three outbox ids are two in use by handlers and one that stands.
  Favourites and bookmarks start again without limit.
* In `Replies` two remote notes are the least with a chain of depth two, and with a reply that
  changes its parent; two rows let a note come back after it was deleted.
* In `Statuses` two notes are the race for one key; three versions are two overlapping edits.
  A note is posted once, keys may expire and be used again.
* In `Timelines` three changes are, for instance, a note, its reblog and a block; the account without
  followers URL reblogs what another posted, or brings it here.  The tables of follows and the list
  start in any state, so no change is spent on them.  A note and its reblog are two rows, of which a
  home timeline of one row shows the newer one, and a list of two rows both.
* In `Accounts` three requests are two registrations that race for a name or an address, with one
  more; or two edits of the two fields of one profile; or one edit, whose Update comes back, and
  another one.  The second of the two values is one that is cut.

Workers, and ids without order, are symmetric, except in the runs with liveness or with the
action properties of `MCFollowGraph` and `MCConsumer`; `IdentityIsFinal` treats all workers alike
and is a conjunction over single steps, which a permutation of workers maps to each other.
Deadlock is checked in the follow graph, whose handlers can always start again.  It is not
elsewhere: the system stops when all messages are settled, when a remote note is deleted for
good, or at the bounds on requests and changes.

**Fairness.**  `FairSpec`: a handler goes on or dies (`WF` of `Continue \/ Fail`: the
platform does not keep an invocation for ever).  A peer's Follow is repeated until it is
answered, and of infinitely many attempts at the same step some succeed (`SF`): a handler
that throws has its batch retried by the queue, and peers repeat a Follow that was never
answered.  No fairness is assumed of local clients, nor of a block handler, which may die.
`FairQueueSpec`: the queue delivers while an invocation is free, and an invocation goes on,
throws, or is evicted.  The other modules state safety only: nothing in the code retries a
request of a client, so nothing there must happen.

**What the violated runs show.**

* `InteractionCountAccurate`: `docs/cleanup-worker-spec.md:88` requires application code to
  keep `interaction_count` accurate, and names follows as interactions of accounts; the rows
  that `moveFollowing` imports are not counted.  `InteractionCountSound` is what remains: the
  counter is exact for remote actors that no Move has touched, and never too high.
* `UnfollowsRemoteOnly`: the guard of `unfollow.ts:51` tests a handle that always has a domain.
* `AcknowledgedIsHandled`: a `return` within the loop of `queue()` takes the rest of the batch
  along.

**Exceptions that the properties name.**  A property that would be false without an exception
says which it is, and the instance reaches it.

* `BlockSevers` excepts rows that a running block handler has yet to delete, or died before
  deleting, and rows that a Move imported (`moveFollowers`, `moveFollowing` look at no block).
* `SettledDeleteIsFinal` speaks of Deletes sent when the Creates are off the queue: a Create that
  is still on its way to another inbox brings the note back, since nothing remembers the Delete.
* `MentionIsCached` excepts notes on which, or on whose inboxes, two invocations worked at a time,
  and notes that came back: a mention that is added after the notifications were read, or that
  older notifications are put over, is shown with the next message.  It excepts a mention after
  which as many newer notifications came as are shown: it is dropped from the cache, and
  when a deletion brings it back among the newest, that too is seen with the next message only.
* `HomeIsOpenable` speaks of notes that are public, or stored under their author and addressed as
  this server addresses its own (`WellAddressed`).  A note of another server that names its reader in
  `cc` only is on his home timeline, where a click on it finds nothing.  So is an unlisted note that
  was fetched for a boost: the check looks for the booster's followers URL in its audience, finds
  none, and takes it for a direct one.
* `ListWithinHome` speaks of lists whose members have their followers URLs stored, and of posts that
  are not too old for the limit of the home timeline.  A followers-only post of a member without
  such a URL is on the list and not on home.
* `CountersSettle` excepts notes whose recount a handler of a reblog still owes, or died owing;
  favourites and bookmarks need no exception.  `ReblogsArePublished` excepts an outbox row whose
  handler died before it inserted the reblog.
* `RepliesCounted`: a deletion reads the parent, deletes in a batch, and recounts after it.  A
  reply that is linked between the read and the batch leaves the count too high, never too low.
* `HistoryIsComplete` excepts overlapping edits and lost revisions; `DeleteIsHandedOut` a request
  that died, or a Delete that the queue refused.
* `SettledHomeHides` excepts the two ways in which an older timeline stays in the cache, and
  speaks of the accounts that notes are stored under: a boost of a note that was fetched for it is
  shown though its author is blocked or muted.
* `RegistrationAtomic` excepts registrations that were cut, and compensations that were refused;
  `ProfileAnnounced` edits whose last word was with a request that failed.  Both except rows that
  a document or an Update of another server has written (`foreign`): such a row may have no user
  and no preferences, another key, and a profile that was never announced.  What an own Update does
  that comes back is no exception: it leaves the key, and its profile is what was announced or
  the cut copy of that, though perhaps not the latest.  `IdentityIsFinal` has no exception.

**Reachable, and contradicted by nothing in the repository.**  The models have these behaviours,
which a maintainer may want to know; no property forbids them.

* Two requests with one idempotency key make two notes when the second starts before the first
  has ended; the slower is answered by an error, its note stays.  A key that has expired keeps its
  row, and the request that uses it again posts its note and then fails in `insertKey`.
* Updates and Deletes of a direct note are handed to all followers (`statuses/[id].ts`).
* An unfollow does not regenerate the cached home timeline.
* Of two concurrent subscriptions of one client the slower is answered by an error: it found no
  row, and its insert breaks the unique index on the actor and the client (`schema.sql:279`).
* An address under which a cached actor is served beside its id is fetched anew on every use,
  and its insert fails on the id.
* An older Update of an actor that is delivered late overwrites a newer one; that is so of a
  local actor's own Update, which comes back through a local follower, and cuts his name besides.
* A row of `actors` with the id of this server may be one that a document or an Update of another
  server stated.
* The loser of a race for a legacy id answers with a number that never resolves.
* User names that differ in case only are two actors.

## 4. What is proved

`FollowGraphProofs` (TLAPS), for any sets of actors, workers and requests that satisfy
`ActorsAssumption` and `RequestsAssumption`:

| Theorem | Property |
|---|---|
| `TypeCorrect` | `TypeOK` |
| `BlocksSever` | `BlockSevers` |
| `FollowsEndByTheirParties` | `FollowEndsByItsParties` |
| `AcceptsAreGranted` | `AcceptIsGranted` |
| `InteractionCountsAreSound` | `InteractionCountSound` |

`BlockSevers` is inductive together with `TypeOK`: a step that makes a row accepted tests the
blocks in the same step, and a step that adds a block starts a handler that will remove both
rows.  `AcceptIsGranted` needs `TypeOK` only, because a row that stops being accepted becomes
`severed` in the same step.  `InteractionCountSound` is not inductive by itself: an inbound
Follow accepts a row without counting, which is right only because its followee is local.
`CountInv` adds that such a handler's pair has a local target (`StoresForLocals`); the
cardinality of the set of followers then changes by one exactly when the counter does.

`ConsumerProofs`, for any number of messages, invocations, and any batch size and retries
(`ConsumerAssumption`):

| Theorem | Property |
|---|---|
| `QueueTypes` | `QueueTypeOK` |
| `QueueLosesForAReason` | `LostForAReason` |
| `QueueRefinesPromise` | the safety part of `KeepsPromise` |

`QueueInv` says that the batches are disjoint and made of taken messages, and that nothing is
handled that was not sent; from it every step of `QueueSpec` is a step of `AtLeastOnce` or leaves
every status as it is.  `LostForAReason` is about what a step loses, and needs `HandledFirst`
besides: what an invocation took is still to come in its loop, or was handled.

`RepliesProofs`, for any notes, workers, bound on rows and possible parents
(`RepliesAssumption`):

| Theorem | Property |
|---|---|
| `RepliesTypeOK` | `TypeOK` |
| `RepliesLinksAgree` | `LinksAgree` |
| `RepliesAreCounted` | `RepliesCounted` |

The batches of `insertReply` and of a deletion write both records in one step, and a new row is the
parent of nothing; the strengthening of `LinksAgree` (`TaskInv`, `RowInv`) says what a handler has in
hand at each stage at which it writes a link, so that what it links are rows and never NULL.
`CountInv` adds that the count of each row is no smaller than the set of its replies, and larger
only where `Settled` says why.  It rests on `LinkInv`: a reply that moves was counted with the
parent that its row names, and a row that is new has no replies yet.

`StatusesProofs`, for any finite sets of notes, keys and workers, and any number of versions
(`StatusesAssumption`):

| Theorem | Property |
|---|---|
| `StatusesTypeOK` | `TypeOK` |
| `StatusesAnswersAgree` | `AnswersAgree` |
| `StatusesHandedOutIsPublished` | `HandedOutIsPublished` |
| `StatusesDeleteIsHandedOut` | `DeleteIsHandedOut` |
| `StatusesHistoryIsComplete` | `HistoryIsComplete` |

`PostInv` joins the first four with what a request knows at each stage (`Knows`): the note that it
hands out is published, the key that it caches an answer for is in its row.  None is inductive
without it, since the tables are read some awaits before they matter; and it needs `OneCreator`:
a request that is about to create a note finds none only because no other has it in hand.  `HistoryInv` follows the revisions
of a note whose edits have not overlapped: it has one editor at most (`OneEditor`), which holds the
version that precedes the one it stored, and the revisions end there.

`TimelinesProofs`, for any accounts, notes, audiences, viewers and workers (`TimelinesAssumption`):

| Theorem | Property |
|---|---|
| `TimelinesTypeOK` | `TypeOK` |
| `TimelinesShownIsEntitled` | `ShownIsEntitled` |
| `TimelinesHomeIsOpenable` | `HomeIsOpenable` |
| `TimelinesListWithinHome` | `ListWithinHome` |
| `TimelinesSettledHomeHides` | `SettledHomeHides` |

The queries join the audience of outbox rows with follows, the rights are about notes.  What
relates them is `TableInv`: every row is `Permitted` by its note, which is public, or was published
by its author to nobody that the note is not addressed to.  Both ways to reblog keep it, and a
note's audience never changes.  `HideInv` follows a regeneration: unless it was marked as outdated,
what a worker has read hides who is blocked or muted, from its queries to the cache
(`RegenHides`), and so does what the cache holds at rest (`HomeHides`).  Nothing is assumed of
whom a note of another server is stored under, nor of the limits.

`InteractionsProofs`, for any finite sets of actors and notes, and any outbox ids, activities and
workers (`InteractionsAssumption`):

| Theorem | Property |
|---|---|
| `InteractionsTypeOK` | `TypeOK` |
| `InteractionsAreProtected` | `InteractionsProtect` |
| `InteractionsCountersSettle` | `CountersSettle` |
| `InteractionsReblogsArePublished` | `ReblogsArePublished` |
| `InteractionsUndoneIsGone` | `UndoneIsGone` |

`BaseInv` says what a handler holds at its stage.  `CountInv` adds that the counter of a remote note
is never below the favourites and bookmarks, and that both counters are exact unless a recount is
owed; a row and its count change in one batch, and every other change goes on to a recount or
becomes `uncounted`.  `ReblogInv` is about ownership: an activity or an outbox row that is not yet
part of a reblog is that of one handler (`Apart`), which may rely on it whatever others do
meanwhile (`Knows`, `Undisturbed`).

`InboundNotesProofs`, for any notes, recipients, messages, inboxes and invocations
(`InboundNotesAssumption`), and any bounds of the deployment:

| Theorem | Property |
|---|---|
| `InboundNotesTypeOK` | `TypeOK` |
| `InboundNotesAnnouncedOnce` | `AnnouncedOnce` |
| `InboundNotesAnnouncedToAll` | `AnnouncedToAll` |
| `InboundNotesSettledDeleteIsFinal` | `SettledDeleteIsFinal` |
| `InboundNotesMentionIsCached` | `MentionIsCached` |

Every step is one of the queue, or none of it, so `QueueInv` carries over; `BaseInv` adds that a
handler is at work exactly while its invocation is, and fits the message that its loop is at.
`AnnounceInv` says how far an announcement has come (`Progress`), that it is made by the handler that
inserted the row (`OwnRows`), and that a note without a row has no rows that refer to it: this is
what makes the unique id in `objects` enough for all that follows it.  `SettledInv` rests on a
message that is off the queue staying off.  `CacheInv` follows a mention from its row to the
notifications that a handler read, and to the cache.  The instance that TLC checks has one note.
The attempt to prove `MentionIsCached` showed that with two, a handler for another note puts its
older notifications over the newer ones of the same inbox; `raced` has included such meetings
since, and the theorem holds for any number of notes, and for any limit on what is shown: `CacheInv`
speaks of the mentions that are not `overtaken`, which a step that adds a notification ends for good.

`AccountsProofs`, for any accounts, addresses, tokens, clients and workers, and any bounds on requests
and edits (`AccessAssumption`, `AccountsAssumption`, `RowAssumption`):

| Theorem | Property |
|---|---|
| `AccountsTypeOK` | `TypeOK` |
| `IdentityHolds` | `IdentityIsFinal` |
| `RegistrationHolds` | `RegistrationAtomic` |
| `DocsHold` | lemma: documents keep the key of their actor |
| `ProfileHolds` | `ProfileAnnounced` |

`BaseInv` says what a request has in hand at each stage (`Fits`), and that who edits a profile, or has
a UUID to be replaced, has a row in `users`: such rows are never deleted, and an actor with one cannot
be, so what a request read before an await is still there after it.  It also counts the ids that are
yet to be taken (`CountOK`), which keeps the sequence within its bound.  `IdentityIsFinal` follows from
a look at each write of a row (`KeepsUsers`, `KeepsActors`).  `AtomicInv` says what a registration has
written so far (`RowsOK`), and that an account has one creator (`OneCreator`), since an insert of an
actor needs that there is none.  Hence nobody else's compensation takes the account away, and an
`insertUser` that went astray meets either no actor, or one whose creator then fails and cannot undo
it.  `EditInv` follows the last edit of a profile: it was announced, or some request that has written
will read it again or has done so, or the account fell silent.  An own Update that comes back
is harmless to both by `DocsOK` (theorem `DocsHold`): every Update on the way either holds the key of
another server, and makes the row `foreign`, or is a document that the queue took for its
own actor, and such documents have the key that the row has.  That cutting twice is cutting once
keeps the profile among the announced ones and their copies.  Nothing is assumed of the ids that
documents and Updates state.

`SignedIsAccepted`, in the same module, is about `HttpSignatures`.  A request that `signRequest` signs
with the key that is unwrapped for a user passes `parseRequest`, `verifySignature` and the digest check of an inbox
that serves the user's public key, whatever its target, body and other headers, while the clocks
differ by no more than 300 s.  It assumes what `deliver.ts` does (`Unsigned`): no date of its own,
and on a POST the digest of the body.  The argument is that the covered headers come out of the
signature header as they went in, that all of them are there, that they include the required
ones, and that both sides build one signing string from them.

Only model-checked: the liveness part of `KeepsPromise`, and `AcceptedFollowIsAnswered`: liveness
under fairness is out of the prover's reach here.  Every safety property that a run checks is proved.

## 5. Assumptions

* `db.batch` is one step.  D1 documents it as a transaction; `docs/data-model-migration.md:1291`
  doubts it for long batches.  The counters rest on it.
* Foreign keys are enforced, as D1 does.
* The actors that the handlers of `FollowGraph` and `InboundNotes` look up are cached.
* In `Accounts` the ids and keys that are made differ.  `generateMastodonId` joins the time in
  milliseconds with sixteen bits that a sequence shifts from a random base (`B/utils/id.ts`): two
  ids of one millisecond may collide, and the index on `actors.mastodon_id` is not a unique one.
* Cloudflare Access confirms the sessions it has, and signs only what it issues.

### Not modelled

* In the follow graph: the notifications of follows and follow requests, the URIs that an Accept
  quotes, the options `reblogs` and `notify`.  In `Interactions` and `InboundNotes`: the
  notifications of likes and reblogs, push messages.
* Hashtags, attachments, content and its formatting, and the rows of `actor_activities` except for
  reblogs: they make a request longer and decide nothing.
* Paging and the limits of pages (home and list timelines have theirs), the filters of timelines by
  media and tag.
* Domain blocks, filters and private notes: single statements that nothing else reads.
  `updateList` writes all columns of a list after having read them, so that of two updates one may
  be lost; titles are no part of a timeline.
* The encryption of push messages, the mathematics of signatures and of wrapping keys, and all
  encodings: a signature is who made it and what it is over.
* Media upload, NodeInfo, instance documents, trends, the frontend: queries and formatting without
  state of their own.

## 6. Plan

1. An abstract specification of the counters (a set of rows and its size) that `Interactions` and
   `Replies` implement at rest.
2. The notifications and the URIs of the follow graph.
