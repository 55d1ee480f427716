------------------------------ MODULE Timelines ------------------------------
(***************************************************************************)
(* Who is shown what: the queries that fill timelines and pages, the check  *)
(* that guards a single status, and the home timeline that is generated     *)
(* ahead of time and kept in a durable object.                              *)
(*                                                                          *)
(* The home timeline that a user sees is the cached one.  A request or a    *)
(* message regenerates it with two queries and one write to the cache, and  *)
(* several do so at a time.  Left out: paging, hashtags and media filters,  *)
(* and edits that change the audience of a note.  The home timeline ends    *)
(* after Limit rows and a list after as many as are asked for; the pages,   *)
(* which end too, are modelled without an end, so that they show more here  *)
(* than they do.                                                            *)
(*                                                                          *)
(* The account under which a note is stored (original_actor_id) is whoever  *)
(* brought it here: the sender of its Create, the sender of the Announce    *)
(* that it was fetched for, or the author of the reply to it.  It need not  *)
(* be the author that the note names (attributedTo).                        *)
(***************************************************************************)
EXTENDS Integers, FiniteSets

CONSTANTS
    Accounts,
    Locals,             \* the accounts of this server
    Viewers,            \* the accounts whose cached home timelines are looked at
    Notes,
    Posts,              \* what a note may be, see below
    Audiences,          \* to and cc of remote Announces; None for one that is left out
    Visibilities,       \* the visibilities that the route of reblogs is asked for
    FollowPairs, BlockPairs, MutePairs,     \* who may follow, block and mute whom
    Listed,             \* who may be put on the list
    Workers,
    PUBLIC_GROUP,
    Followers,          \* the followers URL of each account
    NoFollowers,        \* accounts whose rows hold no followers URL, so that it is guessed
    Limit,              \* how many rows a home timeline has
    ListLimits,         \* how many rows a client may ask of a list timeline
    Dates,              \* what published_date may be
    MaxChanges,         \* bound: how often the tables may change
    None

Addresses == Accounts \cup {PUBLIC_GROUP} \cup {Followers[x] : x \in Accounts}

\* The parent of a note stands for the account under which the note that it replies to is
\* stored.
ASSUME TimelinesAssumption ==
    /\ None \notin Addresses \cup Notes \cup Posts /\ IsFiniteSet(Workers)
    /\ \A addresses \in SUBSET Addresses : None # addresses
    /\ PUBLIC_GROUP \notin Accounts
    /\ DOMAIN Followers = Accounts
    /\ \A x \in Accounts : Followers[x] \notin Accounts \cup {PUBLIC_GROUP}
    /\ \A x, y \in Accounts : Followers[x] = Followers[y] => x = y
    /\ NoFollowers \subseteq Accounts
    /\ Limit \in Nat \ {0} /\ ListLimits \subseteq Nat \ {0}
    /\ Dates \subseteq Nat /\ MaxChanges \in Nat
    /\ Locals \subseteq Accounts /\ Viewers \subseteq Locals
    /\ Posts \subseteq [author : Accounts, originalActor : Accounts,
                        to : SUBSET Addresses, cc : SUBSET Addresses,
                        parent : Accounts \cup {None}, local : BOOLEAN]
    /\ \A p \in Posts : p.local => p.originalActor = p.author /\ p.author \in Locals
    /\ Audiences \subseteq [to : {None} \cup SUBSET Addresses, cc : {None} \cup SUBSET Addresses]
    /\ Visibilities \subseteq {"public", "unlisted", "private", "direct"}
    /\ Listed \subseteq Accounts
    /\ FollowPairs \cup BlockPairs \cup MutePairs \subseteq
          {p \in Accounts \X Accounts : p[1] # p[2]}

VARIABLES
    note,               \* objects: the post that a note is, or None
    outbox,             \* outbox_objects, joined with the reblogs
    follows,            \* pairs of actor_following that are accepted
    blocks, mutes,      \* pairs of who blocks or mutes and who is blocked or muted
    list,               \* members of the list that the viewers keep, or None
    home,               \* the cached home timeline of each viewer; empty when there is none
    task,               \* what the request of a worker does to follows
    regen,              \* pregenerateTimelines of each worker for each viewer
    changes,            \* how often the tables have changed
    lost                \* history: viewers whose cache missed a block or a mute, since
                        \* older rows were put over newer ones or a request died

relations == <<follows, blocks, mutes>>
tables    == <<note, outbox, relations, list>>
vars      == <<tables, home, task, regen, changes, lost>>

Row == [publisher : Accounts, note : Notes, reblog : BOOLEAN,
        to : SUBSET Addresses, cc : SUBSET Addresses, date : Dates]
Status == [account : Accounts, note : Notes, reblog : BOOLEAN,
           visibility : {"public", "unlisted", "private", "direct"}]

Regen  == [at : {"idle", "follows", "rows", "put"}, ids : SUBSET Accounts,
           statuses : SUBSET Status, fresh : BOOLEAN]

Idle  == [at |-> "idle", actor |-> None, target |-> None]
Still == [at |-> "idle", ids |-> {}, statuses |-> {}, fresh |-> TRUE]

TypeOK ==
    /\ note \in [Notes -> Posts \cup {None}]
    /\ outbox \subseteq Row
    /\ follows \subseteq FollowPairs /\ blocks \subseteq BlockPairs /\ mutes \subseteq MutePairs
    /\ list = None \/ list \subseteq Listed
    /\ home \in [Viewers -> SUBSET Status]
    /\ task \in [Workers -> [at : {"unfollow"}, actor : Accounts, target : Accounts] \cup {Idle}]
    /\ regen \in [Workers -> [Viewers -> Regen]]
    /\ changes \in 0..MaxChanges
    /\ lost \subseteq Viewers
    \* The foreign key of outbox_objects.
    /\ \A r \in outbox : note[r.note] # None

Init ==
    /\ note = [n \in Notes |-> None]
    /\ outbox = {}
    /\ follows \in SUBSET FollowPairs /\ blocks = {} /\ mutes = {}
    /\ list \in {None} \cup SUBSET Listed
    /\ home = [x \in Viewers |-> {}]
    /\ task = [w \in Workers |-> Idle]
    /\ regen = [w \in Workers |-> [x \in Viewers |-> Still]]
    /\ changes = 0
    /\ lost = {}

Change == changes < MaxChanges /\ changes' = changes + 1

-----------------------------------------------------------------------------
(* One status. *)

Author(n) == note[n].author
OriginalActor(n) == note[n].originalActor
HasBlockBetween(x, y) == <<x, y>> \in blocks \/ <<y, x>> \in blocks
IsFollowing(x, y) == <<x, y>> \in follows

\* followers is a followers URL, of the account that the caller takes for the author.
DetectVisibility(a, followers) ==
    CASE PUBLIC_GROUP \in a.to -> "public"
      [] PUBLIC_GROUP \notin a.to /\ followers \in a.to ->
            IF PUBLIC_GROUP \in a.cc THEN "unlisted" ELSE "private"
      [] OTHER -> "direct"

\* Mutant of IsVisible: the arguments of isFollowing are swapped.
IsVisibleToFollowed(x, n) ==
    LET visibility == DetectVisibility(note[n], Followers[OriginalActor(n)]) IN
    \/ visibility \in {"public", "unlisted"}
    \/ x = OriginalActor(n)
    \/ visibility = "private" /\ IsFollowing(OriginalActor(n), x)
    \/ visibility = "direct" /\ x \in note[n].to

\* A viewer is an account, or None for a request without a session.
IsVisible(x, n) ==
    LET visibility == DetectVisibility(note[n], Followers[OriginalActor(n)]) IN
    \/ visibility \in {"public", "unlisted"}
    \/ x = OriginalActor(n)
    \/ visibility = "private" /\ IsFollowing(x, OriginalActor(n))
    \/ visibility = "direct" /\ x \in note[n].to

\* loadVisibleStatusObject, and the check of GET /api/v1/statuses/:id.
CanViewStatus(x, n) ==
    /\ note[n] # None
    /\ x # None => ~HasBlockBetween(x, OriginalActor(n))
    /\ IsVisible(x, n)

\* toMastodonStatusFromObject
StatusOfNote(n) ==
    [account |-> OriginalActor(n), note |-> n, reblog |-> FALSE,
     visibility |-> DetectVisibility(note[n], Followers[OriginalActor(n)])]

\* loadViewerStatusesByObjectIds, for the pages of favourites and bookmarks: those of the
\* notes that can be viewed by now.
LoadViewerStatuses(x, ns) == {StatusOfNote(n) : n \in {m \in ns : CanViewStatus(x, m)}}

\* GET /api/v1/statuses/:id/history does not ask for blocks.
HistoryIsShown(x, n) == note[n] # None /\ IsVisible(x, n)

-----------------------------------------------------------------------------
(* Timelines. *)

Audience(r) == r.to \cup r.cc

AddressedTo(r, addresses) == Audience(r) \cap addresses # {}

NotHidden(x, r) ==
    \A y \in {r.publisher, OriginalActor(r.note)} :
        ~HasBlockBetween(x, y) /\ <<x, y>> \notin mutes

\* ORDER BY published_date DESC LIMIT.
Newest(rows, limit) == {r \in rows : Cardinality({q \in rows : q.date > r.date}) < limit}

RepliesTo(r, authors) == note[r.note].parent \in authors \cup {None}

\* Who is followed, and oneself.
FollowingIds(x) == {x} \cup {y \in Accounts : IsFollowing(x, y)}

\* Whom a row of the home timeline may be addressed to: everybody, x, and the followers of
\* x and of those who are followed.  Where the followers URL of one who is followed is not
\* stored, that of x is taken in its place.
HomeAddresses(x, ids) ==
    {PUBLIC_GROUP, x} \cup {Followers[y] : y \in {x} \cup (ids \ NoFollowers)}

\* What getHomeTimeline selects, once the accounts that are followed are read.
HomeCandidates(x, ids) ==
    {r \in outbox : r.publisher \in ids /\ NotHidden(x, r)
                    /\ RepliesTo(r, ids) /\ AddressedTo(r, HomeAddresses(x, ids))}

HomeRows(x, ids) == Newest(HomeCandidates(x, ids), Limit)

\* Mutant of ListAddresses: the followers of all members are taken for an audience of x.
ListAddressesOfAll(x, members) == {PUBLIC_GROUP, x} \cup {Followers[y] : y \in members}

\* Whom a row of a list may be addressed to: everybody, x, and the followers of members
\* that x follows, whose URL is guessed where it is not stored.
ListAddresses(x, members) ==
    {PUBLIC_GROUP, x} \cup {Followers[y] : y \in {z \in members : IsFollowing(x, z)}}

\* Mutant of ListCandidates: replies to anyone are listed.
ListCandidatesWithReplies(x, members) ==
    {r \in outbox : r.publisher \in members /\ NotHidden(x, r)
                    /\ AddressedTo(r, ListAddresses(x, members))}

\* What getListTimeline selects: members need not be followed.
ListCandidates(x, members) ==
    {r \in outbox : r.publisher \in members /\ NotHidden(x, r) /\ RepliesTo(r, members)
                    /\ AddressedTo(r, ListAddresses(x, members))}

ListRows(x, members, limit) == Newest(ListCandidates(x, members), limit)

\* localPreferenceQuery, for objects.local.
Preferred(r, preference) ==
    CASE preference = "NotSet"     -> TRUE
      [] preference = "OnlyLocal"  -> note[r.note].local
      [] preference = "OnlyRemote" -> ~note[r.note].local

\* The rows of getPublicTimeline.
PublicRows(preference) ==
    {r \in outbox : PUBLIC_GROUP \in r.to /\ note[r.note].parent = None /\ Preferred(r, preference)}

\* The rows of GET /api/v1/accounts/:id/statuses, for a viewer or None.
AccountRows(x, a) ==
    {r \in outbox :
        /\ r.publisher = a
        /\ AddressedTo(r, ListAddresses(x, {a}))
        /\ x # None => ~HasBlockBetween(x, a) /\ NotHidden(x, r)}

\* The rows of GET /ap/users/:id/outbox/page.
OutboxPageRows(a) == {r \in outbox : r.publisher = a /\ PUBLIC_GROUP \in Audience(r)}

\* The rows of getReplies, which GET /api/v1/statuses/:id/context answers.
ReplyRows(parent) ==
    {r \in outbox : /\ note[r.note].parent = parent
                    /\ r.publisher = OriginalActor(r.note)
                    /\ PUBLIC_GROUP \in Audience(r)}

\* A row as the client sees it; a reblog has the visibility of its own row.
ToMastodonStatusFromRow(r) ==
    LET audience == IF r.reblog THEN [to |-> r.to, cc |-> r.cc]
                    ELSE [to |-> note[r.note].to, cc |-> note[r.note].cc] IN
    [account |-> r.publisher, note |-> r.note, reblog |-> r.reblog,
     visibility |-> DetectVisibility(audience, Followers[r.publisher])]

\* The page of an account, whose statuses are converted with that account at hand.
AccountStatuses(x, a) == {ToMastodonStatusFromRow(r) : r \in AccountRows(x, a)}

\* Mutant of RowsToStatuses: the rows are cached as they are.
RowsAsTheyAre(rows) == rows

RowsToStatuses(rows) == {ToMastodonStatusFromRow(r) : r \in rows}

-----------------------------------------------------------------------------
(* Notes and reblogs.  How their rows come about, step by step, is the       *)
(* matter of Statuses, InboundNotes and Interactions: here the row of a      *)
(* reblog and what tells it from a note appear at once.                      *)

\* A row for what publisher publishes, at a time of which there is no row.
InsertRow(publisher, n, reblog, a) ==
    \E d \in Dates \ {r.date : r \in outbox} :
        outbox' = outbox \cup {[publisher |-> publisher, note |-> n, reblog |-> reblog,
                                to |-> a.to, cc |-> a.cc, date |-> d]}

\* A note of this server, or the Create of one that is not stored.
Publish(n) ==
    /\ Change
    /\ note[n] = None
    /\ \E p \in Posts :
          /\ note' = [note EXCEPT ![n] = p]
          /\ InsertRow(p.originalActor, n, FALSE, p)
    /\ UNCHANGED <<relations, list, home, task, regen, lost>>

\* A note that is fetched, for an Announce or as what a reply replies to, has no row of its
\* own; nor does one whose Create is refused or dies.  A later Create of it does nothing.
CacheNote(n) ==
    /\ Change
    /\ note[n] = None
    /\ \E p \in {q \in Posts : ~q.local} : note' = [note EXCEPT ![n] = p]
    /\ UNCHANGED <<outbox, relations, list, home, task, regen, lost>>

HasReblog(p, n) == \E r \in outbox : r.reblog /\ r.publisher = p /\ r.note = n

IsPublic(n) == PUBLIC_GROUP \in note[n].to \cup note[n].cc

\* The audience that the route gives an Announce of a status of the author a.
ReblogAudience(p, a, visibility) ==
    CASE visibility = "public"   -> [to |-> {PUBLIC_GROUP}, cc |-> {Followers[p], a}]
      [] visibility = "unlisted" -> [to |-> {Followers[p]}, cc |-> {PUBLIC_GROUP, a}]
      [] visibility = "private"  -> [to |-> {Followers[p]}, cc |-> {a}]
      [] visibility = "direct"   -> [to |-> {p}, cc |-> {}]

\* Mutant of ReblogAllowed: whoever can view a note may reblog it.
ReblogAlways(p, n, visibility) == TRUE

\* The negation of reblogNotAllowed of the route.
ReblogAllowed(p, n, visibility) ==
    \/ IsPublic(n)
    \/ /\ p = Author(n)
       /\ visibility \in IF Followers[p] \in note[n].to THEN {"private", "direct"}
                         ELSE {"direct"}

OrElse(addresses, default) == IF addresses = None THEN default ELSE addresses

\* The negation of reblogNotAllowed of the handler of an Announce.
AnnounceAllowed(p, n, a) ==
    LET to == OrElse(a.to, {})
        cc == OrElse(a.cc, {}) IN
    \/ IsPublic(n)
    \/ /\ p = Author(n)
       /\ IF Followers[p] \in note[n].to THEN PUBLIC_GROUP \notin to \cup cc
          ELSE to \subseteq note[n].to /\ cc \subseteq note[n].cc

\* Where the activity names nobody, the row has the audience of the note.
CreateReblog(p, n, a) ==
    /\ Change
    /\ ~HasReblog(p, n)
    /\ InsertRow(p, n, TRUE, [to |-> OrElse(a.to, note[n].to), cc |-> OrElse(a.cc, note[n].cc)])
    /\ UNCHANGED <<note, relations, list, home, task, regen, lost>>

Reblog(p, n) ==
    /\ p \in Locals /\ CanViewStatus(p, n)
    /\ \E visibility \in Visibilities :
          /\ ReblogAllowed(p, n, visibility)
          /\ CreateReblog(p, n, ReblogAudience(p, Author(n), visibility))

\* The note is stored by now: see CacheNote.
Announce(p, n) ==
    /\ p \notin Locals /\ note[n] # None
    /\ \E a \in Audiences : AnnounceAllowed(p, n, a) /\ CreateReblog(p, n, a)

Unreblog(p, n) ==
    /\ Change
    /\ HasReblog(p, n)
    /\ outbox' = {r \in outbox : ~(r.reblog /\ r.publisher = p /\ r.note = n)}
    /\ UNCHANGED <<note, relations, list, home, task, regen, lost>>

-----------------------------------------------------------------------------
(* Home timelines.                                                           *)

Ready(w) == task[w] = Idle /\ \A x \in Viewers : regen[w][x] = Still

SetRegen(w, x, g) == regen' = [regen EXCEPT ![w][x] = g]

\* pregenerateTimelines of some accounts, at once.
Started(xs, w) ==
    [regen EXCEPT ![w] = [x \in Viewers |->
        IF x \in xs THEN [Still EXCEPT !.at = "follows"] ELSE @[x]]]

\* What is hidden from some accounts is not in the rows that are already read for them.
Outdated(xs, rg) ==
    [w \in Workers |-> [x \in Viewers |->
        IF x \in xs /\ rg[w][x].at = "put" THEN [rg[w][x] EXCEPT !.fresh = FALSE] ELSE rg[w][x]]]

\* A status was posted, edited, deleted or unreblogged, or a message for x was handled.
Regenerate(w, x) ==
    /\ Ready(w)
    /\ regen' = Started({x}, w)
    /\ UNCHANGED <<changes, tables, home, task, lost>>

ReadFollows(w, x) ==
    /\ regen[w][x].at = "follows"
    /\ SetRegen(w, x, [regen[w][x] EXCEPT !.at = "rows", !.ids = FollowingIds(x)])
    /\ UNCHANGED <<changes, tables, home, task, lost>>

ReadRows(w, x) ==
    LET g == regen[w][x] IN
    /\ g.at = "rows"
    /\ SetRegen(w, x, [Still EXCEPT !.at = "put",
                          !.statuses = RowsToStatuses(HomeRows(x, g.ids))])
    /\ UNCHANGED <<changes, tables, home, task, lost>>

\* cache.put: the last write stays, whatever was read for it.
PutHome(w, x) ==
    LET g == regen[w][x] IN
    /\ g.at = "put"
    /\ home' = [home EXCEPT ![x] = g.statuses]
    /\ lost' = IF g.fresh THEN lost \ {x} ELSE lost \cup {x}
    /\ SetRegen(w, x, Still)
    /\ UNCHANGED <<changes, tables, task>>

\* A query or the write throws, or the request dies: a block has caught the error.
FailRegenerate(w, x) ==
    /\ regen[w][x] # Still
    /\ lost' = lost \cup {x}
    /\ SetRegen(w, x, Still)
    /\ UNCHANGED <<changes, tables, home, task>>

\* GET /api/v1/timelines/home
HomeTimeline(x) == home[x]

-----------------------------------------------------------------------------
(* Follows, blocks and mutes.                                                *)

InsertAccountRelationship(pairs, x, y) == pairs \cup {<<x, y>>}
DeleteAccountRelationship(pairs, x, y) == pairs \ {<<x, y>>}

Follow(x, y) ==
    /\ Change
    /\ follows' = follows \cup {<<x, y>>}
    /\ UNCHANGED <<note, outbox, blocks, mutes, list, home, task, regen, lost>>

Unfollow(x, y) ==
    /\ Change
    /\ follows' = follows \ {<<x, y>>}
    /\ UNCHANGED <<note, outbox, blocks, mutes, list, home, task, regen, lost>>

InsertBlock(w, x, y) ==
    /\ Change
    /\ Ready(w) /\ x \in Locals
    /\ blocks' = InsertAccountRelationship(blocks, x, y)
    /\ task' = [task EXCEPT ![w] = [at |-> "unfollow", actor |-> x, target |-> y]]
    /\ regen' = Outdated({x, y}, regen)
    /\ UNCHANGED <<note, outbox, follows, mutes, list, home, lost>>

\* Mutant of Blocked: only the timeline of the one who blocks is regenerated.
BlockedOne(t) == {t.actor}

\* Both timelines are regenerated.
Blocked(t) == {t.actor, t.target}

RemoveBlockRelatedFollows(w) ==
    LET t == task[w] IN
    /\ t.at = "unfollow"
    /\ follows' = follows \ {<<t.actor, t.target>>, <<t.target, t.actor>>}
    /\ task' = [task EXCEPT ![w] = Idle]
    /\ regen' = Started(Blocked(t), w)
    /\ UNCHANGED <<changes, note, outbox, blocks, mutes, list, home, lost>>

FailBlock(w) ==
    LET t == task[w] IN
    /\ t.at = "unfollow"
    /\ lost' = lost \cup ({t.actor, t.target} \cap Viewers)
    /\ task' = [task EXCEPT ![w] = Idle]
    /\ UNCHANGED <<changes, tables, home, regen>>

DeleteBlock(w, x, y) ==
    /\ Change
    /\ Ready(w) /\ <<x, y>> \in blocks
    /\ blocks' = DeleteAccountRelationship(blocks, x, y)
    /\ regen' = Started({x}, w)
    /\ UNCHANGED <<note, outbox, follows, mutes, list, home, task, lost>>

InsertMute(w, x, y) ==
    /\ Change
    /\ Ready(w) /\ x \in Locals
    /\ mutes' = InsertAccountRelationship(mutes, x, y)
    /\ regen' = Outdated({x}, Started({x}, w))
    /\ UNCHANGED <<note, outbox, follows, blocks, list, home, task, lost>>

DeleteMute(w, x, y) ==
    /\ Change
    /\ Ready(w) /\ <<x, y>> \in mutes
    /\ mutes' = DeleteAccountRelationship(mutes, x, y)
    /\ regen' = Started({x}, w)
    /\ UNCHANGED <<note, outbox, follows, blocks, list, home, task, lost>>

-----------------------------------------------------------------------------
(* A list.                                                                   *)

SetList(members) ==
    /\ Change
    /\ list' = members
    /\ UNCHANGED <<note, outbox, relations, home, task, regen, lost>>

GetListById == list # None

CreateList == ~GetListById /\ SetList({})
DeleteList == GetListById /\ SetList(None)

\* addAccountsToList adds all in one batch; nobody asks whether they are followed.
AddAccountsToList(ys) == GetListById /\ SetList(list \cup ys)

\* removeAccountsFromList removes one at a time.
RemoveAccountFromList(y) == GetListById /\ y \in list /\ SetList(list \ {y})

\* GET /api/v1/timelines/list/:id
ListTimeline(x, limit) == IF GetListById THEN ListRows(x, list, limit) ELSE {}

Next ==
    \/ \E n \in Notes : Publish(n) \/ CacheNote(n)
    \/ \E p \in Accounts, n \in Notes : Reblog(p, n) \/ Announce(p, n) \/ Unreblog(p, n)
    \/ \E w \in Workers, x \in Viewers :
          Regenerate(w, x) \/ ReadFollows(w, x) \/ ReadRows(w, x) \/ PutHome(w, x)
          \/ FailRegenerate(w, x)
    \/ \E p \in FollowPairs : Follow(p[1], p[2]) \/ Unfollow(p[1], p[2])
    \/ \E w \in Workers, p \in BlockPairs : InsertBlock(w, p[1], p[2]) \/ DeleteBlock(w, p[1], p[2])
    \/ \E w \in Workers : RemoveBlockRelatedFollows(w) \/ FailBlock(w)
    \/ \E w \in Workers, p \in MutePairs : InsertMute(w, p[1], p[2]) \/ DeleteMute(w, p[1], p[2])
    \/ CreateList \/ DeleteList
    \/ \E ys \in SUBSET Listed : AddAccountsToList(ys)
    \/ \E y \in Listed : RemoveAccountFromList(y)

Spec == Init /\ [][Next]_vars

-----------------------------------------------------------------------------
(* Properties. *)

\* x is named in an audience, or is one of the followers that are.
Among(x, addresses) ==
    \/ x \in addresses
    \/ \E y \in Accounts : Followers[y] \in addresses /\ (x = y \/ IsFollowing(x, y))

\* The author of a note let x see it, or x brought it here: it is public or unlisted, x is
\* among those whom it is for, x is named in a reblog of its author or, if the note is for
\* followers, among those whom such a reblog is for.
Entitled(x, n) ==
    \/ x \in {Author(n), OriginalActor(n)}
    \/ IsPublic(n)
    \/ Among(x, note[n].to \cup note[n].cc)
    \/ \E r \in outbox : /\ r.note = n /\ r.publisher = Author(n)
                         /\ \/ x \in Audience(r)
                            \/ Followers[Author(n)] \in note[n].to /\ Among(x, Audience(r))

\* The rows that timelines and pages show to x, who may be nobody; what they show to
\* nobody they show to everybody.
Shown(x) ==
    IF x = None
    THEN PublicRows("NotSet") \cup UNION {OutboxPageRows(a) \cup ReplyRows(a) : a \in Accounts}
    ELSE HomeRows(x, FollowingIds(x)) \cup UNION {ListTimeline(x, limit) : limit \in ListLimits}

\* Whatever way a note comes to be shown, by itself or in a reblog of anybody, its author
\* let the viewer see it.
ShownIsEntitled ==
    \A x \in Accounts \cup {None} :
        /\ \A r \in Shown(x) : Entitled(x, r.note)
        /\ \A a \in Accounts : \A s \in AccountStatuses(x, a) : Entitled(x, s.note)
        /\ \A s \in LoadViewerStatuses(x, Notes) : Entitled(x, s.note)
        /\ \A n \in Notes : HistoryIsShown(x, n) => Entitled(x, n)

\* A note is public, or it is stored under its author and its audience has the form that
\* createPublicNote and its siblings give one.
WellAddressed(n) ==
    \/ PUBLIC_GROUP \in note[n].to
    \/ /\ OriginalActor(n) = Author(n)
       /\ \/ Followers[Author(n)] \in note[n].to
          \/ note[n].cc = {} /\ note[n].to \subseteq Accounts

\* A status on the home timeline can be opened: the query and the check of a single status,
\* which are written apart, agree on the notes of this server and on what is addressed as
\* they are.  (On other notes they do not.  The query looks for x in cc, the check does not;
\* and of an unlisted note that was fetched for a boost, the check takes the booster's
\* followers URL for the author's, finds it to be direct, and hides it.)
HomeIsOpenable ==
    \A x \in Accounts : \A r \in HomeRows(x, FollowingIds(x)) :
        WellAddressed(r.note) => CanViewStatus(x, r.note)

\* The timeline of a list whose members are followed, and have their followers URLs stored,
\* is a part of the home timeline, up to what is too old for that.  (Where a URL is not
\* stored, the list finds what is for the member's followers, and the home timeline, which
\* guesses another URL, does not.)
ListWithinHome ==
    \A x \in Viewers :
        GetListById /\ list \subseteq FollowingIds(x) /\ list \cap NoFollowers \subseteq {x} =>
            \A limit \in ListLimits : \A r \in ListTimeline(x, limit) :
                \/ r \in HomeRows(x, FollowingIds(x))
                \/ Limit <= Cardinality({q \in HomeCandidates(x, FollowingIds(x)) :
                                            q.date > r.date})

Regenerating(x) ==
    \E w \in Workers : regen[w][x] # Still \/ x \in {task[w].actor, task[w].target}

\* At rest, the cached home timeline shows nothing that is published by, or stored under,
\* accounts that block the viewer or that the viewer blocks or mutes, unless an older
\* timeline was put over a newer one or the request that blocked or muted died.  (A boost
\* of a note that was fetched for it is shown whoever its author is.)
SettledHomeHides ==
    \A x \in Viewers : ~Regenerating(x) /\ x \notin lost =>
        \A s \in HomeTimeline(x) : \A y \in {s.account, OriginalActor(s.note)} :
            ~HasBlockBetween(x, y) /\ <<x, y>> \notin mutes
=============================================================================
