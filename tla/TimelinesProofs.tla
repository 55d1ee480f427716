------------------------------ MODULE TimelinesProofs ------------------------------
(***************************************************************************)
(* The safety of Timelines for any accounts, notes, audiences and workers:  *)
(* nobody is shown what the author did not let them see, what is on a home  *)
(* timeline can be opened, and blocks and mutes reach the cached timelines. *)
(*                                                                          *)
(* The queries are about the rows of outbox_objects, the rights about the   *)
(* notes.  TableInv relates them: the audience of a row is no larger than   *)
(* that of its note, unless the note is public, or is for followers and its *)
(* author boosts it.  HideInv follows a home timeline from its queries to   *)
(* the cache.                                                               *)
(***************************************************************************)
EXTENDS Timelines, FiniteSetTheorems, TLAPS

\* An audience that whoever brought a note, or its author, may give a row for it, or anyone
\* if it is public.
Permitted(r) ==
    \/ IsPublic(r.note)
    \/ /\ r.publisher \in {Author(r.note), OriginalActor(r.note)}
       /\ Audience(r) \subseteq note[r.note].to \cup note[r.note].cc \cup {Author(r.note)}
       /\ r.reblog => r.publisher = Author(r.note)
    \/ /\ r.publisher = Author(r.note) /\ PUBLIC_GROUP \notin Audience(r)
       /\ Followers[Author(r.note)] \in note[r.note].to

\* The tables of notes and rows.
TableInv ==
    /\ note \in [Notes -> Posts \cup {None}]
    /\ outbox \subseteq Row /\ IsFiniteSet(outbox)
    /\ follows \subseteq FollowPairs
    /\ \A r \in outbox : note[r.note] # None /\ Permitted(r)

\* A note that is there has an author and an audience.
LEMMA NoteParts ==
    ASSUME TableInv, NEW n \in Notes, note[n] # None
    PROVE  /\ note[n] \in Posts /\ Author(n) \in Accounts /\ OriginalActor(n) \in Accounts
           /\ note[n].to \subseteq Addresses /\ note[n].cc \subseteq Addresses
           /\ note[n].parent \in Accounts \cup {None}
BY TimelinesAssumption DEF TableInv, Author, OriginalActor

LEMMA RowParts ==
    ASSUME TableInv, NEW r \in outbox
    PROVE  /\ r \in Row /\ r.note \in Notes /\ r.publisher \in Accounts /\ r.reblog \in BOOLEAN
           /\ r.to \subseteq Addresses /\ r.cc \subseteq Addresses
           /\ note[r.note] # None /\ Permitted(r)
BY DEF TableInv, Row

\* Accounts, their followers URLs and the public group are different addresses.
LEMMA AddressParts ==
    /\ \A x \in Accounts : Followers[x] \in Addresses /\ Followers[x] \notin Accounts
                           /\ Followers[x] # PUBLIC_GROUP
    /\ Accounts \subseteq Addresses /\ PUBLIC_GROUP \in Addresses \ Accounts
    /\ \A x, y \in Accounts : Followers[x] = Followers[y] => x = y
BY TimelinesAssumption DEF Addresses

LEMMA ViewersType == Viewers \subseteq Accounts /\ None \notin Accounts
BY TimelinesAssumption DEF Addresses

LEMMA VisibilityType ==
    ASSUME NEW a, NEW followers
    PROVE  DetectVisibility(a, followers) \in {"public", "unlisted", "private", "direct"}
BY DEF DetectVisibility

-----------------------------------------------------------------------------
(* The tables. *)

LEMMA SameTables ==
    ASSUME TableInv, UNCHANGED <<note, outbox>>, follows' \subseteq FollowPairs
    PROVE  TableInv'
BY DEF TableInv, Permitted, IsPublic, Author, OriginalActor, Audience

\* A note that comes about changes nothing for the rows that are there.
LEMMA NewNote ==
    ASSUME TableInv, NEW n \in Notes, note[n] = None, NEW p \in Posts,
           note' = [note EXCEPT ![n] = p]
    PROVE  /\ note' \in [Notes -> Posts \cup {None}] /\ note'[n] = p /\ p # None
           /\ \A r \in outbox : r \in Row /\ note'[r.note] # None /\ Permitted(r)'
<1>1. note' \in [Notes -> Posts \cup {None}] /\ note'[n] = p
  BY DEF TableInv
<1>2. p # None
  BY TimelinesAssumption
<1>3. ASSUME NEW r \in outbox
      PROVE  r \in Row /\ note'[r.note] # None /\ Permitted(r)'
  <2>1. r.note # n /\ r.note \in Notes /\ r \in Row /\ Permitted(r) /\ note[r.note] # None
    BY RowParts
  <2>2. note'[r.note] = note[r.note]
    BY <2>1 DEF TableInv
  <2> QED
    BY <2>1, <2>2 DEF Permitted, IsPublic, Author, OriginalActor, Audience
<1> QED
  BY <1>1, <1>2, <1>3

LEMMA PublishOK ==
    ASSUME TableInv, NEW n \in Notes, Publish(n)
    PROVE  TableInv'
<1>1. PICK p \in Posts : note' = [note EXCEPT ![n] = p] /\ InsertRow(p.originalActor, n, FALSE, p)
  BY DEF Publish
<1>2. note[n] = None /\ follows' = follows
  BY DEF Publish, relations
<1>3. PICK d \in Dates : outbox' = outbox \cup
         {[publisher |-> p.originalActor, note |-> n, reblog |-> FALSE,
           to |-> p.to, cc |-> p.cc, date |-> d]}
  BY <1>1 DEF InsertRow
<1> DEFINE new == [publisher |-> p.originalActor, note |-> n, reblog |-> FALSE,
                   to |-> p.to, cc |-> p.cc, date |-> d]
<1>4. p \in [author : Accounts, originalActor : Accounts,
             to : SUBSET Addresses, cc : SUBSET Addresses,
             parent : Accounts \cup {None}, local : BOOLEAN]
  BY TimelinesAssumption
<1>5. /\ note' \in [Notes -> Posts \cup {None}] /\ note'[n] = p /\ p # None
      /\ \A r \in outbox : r \in Row /\ note'[r.note] # None /\ Permitted(r)'
  BY <1>1, <1>2, NewNote
<1>6. new \in Row
  BY <1>4 DEF Row
<1>7. Permitted(new)'
  BY <1>4, <1>5 DEF Permitted, OriginalActor, Audience
<1> HIDE DEF new
<1>8. ASSUME NEW r \in outbox'
      PROVE  r \in Row /\ note'[r.note] # None /\ Permitted(r)'
  <2>1. CASE r = new
    BY <1>5, <1>6, <1>7, <2>1 DEF new
  <2> QED
    BY <1>3, <1>5, <2>1 DEF new
<1>9. follows' \subseteq FollowPairs /\ IsFiniteSet(outbox')
  BY <1>2, <1>3, FS_AddElement DEF TableInv
<1> QED
  BY <1>5, <1>8, <1>9 DEF TableInv

LEMMA CacheNoteOK ==
    ASSUME TableInv, NEW n \in Notes, CacheNote(n)
    PROVE  TableInv'
<1>1. PICK p \in Posts : note' = [note EXCEPT ![n] = p]
  BY DEF CacheNote
<1>2. note[n] = None /\ UNCHANGED <<outbox, follows>>
  BY DEF CacheNote, relations
<1> QED
  BY <1>1, <1>2, NewNote DEF TableInv

\* What the rights of reblogs let p give as an audience of a reblog of n.
MayReblog(p, n, to, cc) ==
    \/ IsPublic(n)
    \/ p = Author(n) /\ to \cup cc \subseteq note[n].to \cup note[n].cc \cup {Author(n)}
    \/ p = Author(n) /\ PUBLIC_GROUP \notin to \cup cc /\ Followers[Author(n)] \in note[n].to

LEMMA CreateReblogOK ==
    ASSUME TableInv, NEW p \in Accounts, NEW n \in Notes, note[n] # None,
           NEW a, NEW to \in SUBSET Addresses, NEW cc \in SUBSET Addresses,
           to = OrElse(a.to, note[n].to), cc = OrElse(a.cc, note[n].cc),
           MayReblog(p, n, to, cc), CreateReblog(p, n, a)
    PROVE  TableInv'
<1>1. UNCHANGED <<note, follows>> /\ InsertRow(p, n, TRUE, [to |-> to, cc |-> cc])
  BY DEF CreateReblog, relations
<1>2. PICK d \in Dates : outbox' = outbox \cup
         {[publisher |-> p, note |-> n, reblog |-> TRUE, to |-> to, cc |-> cc, date |-> d]}
  BY <1>1 DEF InsertRow
<1> DEFINE new == [publisher |-> p, note |-> n, reblog |-> TRUE, to |-> to, cc |-> cc, date |-> d]
<1>3. new \in Row
  BY DEF Row
<1>4. Permitted(new)
  BY DEF MayReblog, Permitted, Audience
<1>5. ASSUME NEW r \in outbox'
      PROVE  r \in Row /\ note'[r.note] # None /\ Permitted(r)'
  <2>1. r \in Row /\ note[r.note] # None /\ Permitted(r)
    <3>1. CASE r \in outbox
      BY <3>1, RowParts
    <3>2. CASE r = new
      BY <1>3, <1>4, <3>2
    <3> QED
      BY <1>2, <3>1, <3>2
  <2>2. Permitted(r)'
    BY <1>1, <2>1 DEF Permitted, IsPublic, Author, OriginalActor, Audience
  <2> QED
    BY <1>1, <2>1, <2>2
<1>6. /\ note' \in [Notes -> Posts \cup {None}] /\ follows' \subseteq FollowPairs
      /\ IsFiniteSet(outbox')
  BY <1>1, <1>2, FS_AddElement DEF TableInv
<1> QED
  BY <1>5, <1>6 DEF TableInv

\* The route of reblogs lets only the author reblog what is not public, and gives what is
\* for followers to followers at most.
LEMMA ReblogOK ==
    ASSUME TableInv, NEW p \in Accounts, NEW n \in Notes, Reblog(p, n)
    PROVE  TableInv'
<1>1. PICK visibility \in Visibilities :
         /\ ReblogAllowed(p, n, visibility)
         /\ CreateReblog(p, n, ReblogAudience(p, Author(n), visibility))
  BY DEF Reblog
<1> DEFINE a == ReblogAudience(p, Author(n), visibility)
<1>2. note[n] # None /\ Author(n) \in Accounts
  BY NoteParts DEF Reblog, CanViewStatus
<1>3. visibility \in {"public", "unlisted", "private", "direct"}
  BY TimelinesAssumption
<1>4. a.to \in SUBSET Addresses /\ a.cc \in SUBSET Addresses
  BY <1>2, <1>3, AddressParts DEF ReblogAudience
<1>5. a.to = OrElse(a.to, note[n].to) /\ a.cc = OrElse(a.cc, note[n].cc)
  BY <1>4, TimelinesAssumption DEF OrElse
<1>6. MayReblog(p, n, a.to, a.cc)
  <2>1. CASE ~IsPublic(n)
    <3>1. p = Author(n) /\ visibility \in {"private", "direct"}
          /\ (visibility = "private" => Followers[p] \in note[n].to)
      BY <1>1, <2>1 DEF ReblogAllowed
    <3>2. CASE visibility = "private"
      BY <1>2, <3>1, <3>2, AddressParts DEF ReblogAudience, MayReblog
    <3>3. CASE visibility = "direct"
      BY <1>2, <3>1, <3>3 DEF ReblogAudience, MayReblog
    <3> QED
      BY <3>1, <3>2, <3>3
  <2> QED
    BY <2>1 DEF MayReblog
<1> HIDE DEF a
<1> QED
  BY <1>1, <1>2, <1>4, <1>5, <1>6, CreateReblogOK DEF a

\* So does the handler of an Announce.
LEMMA AnnounceOK ==
    ASSUME TableInv, NEW p \in Accounts, NEW n \in Notes, Announce(p, n)
    PROVE  TableInv'
<1>1. PICK a \in Audiences : AnnounceAllowed(p, n, a) /\ CreateReblog(p, n, a)
  BY DEF Announce
<1>2. /\ note[n] # None
      /\ a.to \in {None} \cup SUBSET Addresses /\ a.cc \in {None} \cup SUBSET Addresses
  BY TimelinesAssumption DEF Announce
<1>3. note[n].to \subseteq Addresses /\ note[n].cc \subseteq Addresses
  BY <1>2, NoteParts
<1> DEFINE to == OrElse(a.to, note[n].to)
           cc == OrElse(a.cc, note[n].cc)
<1>4. to \in SUBSET Addresses /\ cc \in SUBSET Addresses
  BY <1>2, <1>3 DEF OrElse
<1>5. MayReblog(p, n, to, cc)
  <2>1. CASE ~IsPublic(n)
    <3>1. p = Author(n) /\ PUBLIC_GROUP \notin note[n].to \cup note[n].cc
      BY <1>1, <2>1 DEF AnnounceAllowed, IsPublic
    <3>2. CASE Followers[p] \in note[n].to
      <4>1. PUBLIC_GROUP \notin OrElse(a.to, {}) \cup OrElse(a.cc, {})
        BY <1>1, <2>1, <3>2 DEF AnnounceAllowed
      <4> QED
        BY <3>1, <3>2, <4>1 DEF OrElse, MayReblog
    <3>3. CASE Followers[p] \notin note[n].to
      <4>1. OrElse(a.to, {}) \subseteq note[n].to /\ OrElse(a.cc, {}) \subseteq note[n].cc
        BY <1>1, <2>1, <3>3 DEF AnnounceAllowed
      <4>2. to \subseteq note[n].to /\ cc \subseteq note[n].cc
        BY <4>1 DEF OrElse
      <4> QED
        BY <3>1, <4>2 DEF MayReblog
    <3> QED
      BY <3>2, <3>3
  <2> QED
    BY <2>1 DEF MayReblog
<1> HIDE DEF to, cc
<1> QED
  BY <1>1, <1>2, <1>4, <1>5, CreateReblogOK DEF to, cc

LEMMA TableInvNext ==
    ASSUME TableInv, [Next]_vars
    PROVE  TableInv'
<1>1. CASE UNCHANGED vars
  BY <1>1, SameTables DEF vars, tables, relations, TableInv
<1>2. ASSUME NEW n \in Notes, Publish(n) \/ CacheNote(n)
      PROVE  TableInv'
  BY <1>2, PublishOK, CacheNoteOK
<1>3. ASSUME NEW p \in Accounts, NEW n \in Notes, Reblog(p, n) \/ Announce(p, n) \/ Unreblog(p, n)
      PROVE  TableInv'
  <2>1. CASE Unreblog(p, n)
    <3>1. UNCHANGED <<note, follows>> /\ outbox' \subseteq outbox
      BY <2>1 DEF Unreblog, relations
    <3>2. IsFiniteSet(outbox')
      BY <3>1, FS_Subset DEF TableInv
    <3> QED
      BY <3>1, <3>2 DEF TableInv, Permitted, IsPublic, Author, OriginalActor, Audience
  <2> QED
    BY <1>3, <2>1, ReblogOK, AnnounceOK
<1>4. ASSUME NEW w \in Workers, NEW x \in Viewers,
             Regenerate(w, x) \/ ReadFollows(w, x) \/ ReadRows(w, x) \/ PutHome(w, x)
             \/ FailRegenerate(w, x)
      PROVE  TableInv'
  BY <1>4, SameTables DEF Regenerate, ReadFollows, ReadRows, PutHome, FailRegenerate, tables,
     relations, TableInv
<1>5. ASSUME NEW p \in FollowPairs, Follow(p[1], p[2]) \/ Unfollow(p[1], p[2])
      PROVE  TableInv'
  <2>1. p = <<p[1], p[2]>>
    BY TimelinesAssumption
  <2> QED
    BY <1>5, <2>1, SameTables DEF Follow, Unfollow, TableInv
<1>6. ASSUME NEW w \in Workers, NEW p \in BlockPairs,
             InsertBlock(w, p[1], p[2]) \/ DeleteBlock(w, p[1], p[2])
      PROVE  TableInv'
  BY <1>6, SameTables DEF InsertBlock, DeleteBlock, TableInv
<1>7. ASSUME NEW w \in Workers, RemoveBlockRelatedFollows(w) \/ FailBlock(w)
      PROVE  TableInv'
  BY <1>7, SameTables DEF RemoveBlockRelatedFollows, FailBlock, tables, relations, TableInv
<1>8. ASSUME NEW w \in Workers, NEW p \in MutePairs,
             InsertMute(w, p[1], p[2]) \/ DeleteMute(w, p[1], p[2])
      PROVE  TableInv'
  BY <1>8, SameTables DEF InsertMute, DeleteMute, TableInv
<1>9. ASSUME NEW members, SetList(members)
      PROVE  TableInv'
  BY <1>9, SameTables DEF SetList, relations, TableInv
<1> QED
  BY <1>1, <1>2, <1>3, <1>4, <1>5, <1>6, <1>7, <1>8, <1>9 DEF Next, CreateList, DeleteList,
     AddAccountsToList, RemoveAccountFromList

LEMMA TableInvHolds == Spec => []TableInv
<1>1. Init => TableInv
  BY FS_EmptySet DEF Init, TableInv
<1>2. TableInv /\ [Next]_vars => TableInv'
  BY TableInvNext
<1> QED
  BY <1>1, <1>2, PTL DEF Spec

-----------------------------------------------------------------------------
(* Who is shown what. *)

\* A row that is addressed to everybody, to x, or to followers that x is among, is about a
\* note that x may see.
LEMMA AddressedIsEntitled ==
    ASSUME TableInv, NEW r \in outbox, NEW x \in Accounts \cup {None}, NEW ys \in SUBSET Accounts,
           \A y \in ys : x = y \/ IsFollowing(x, y),
           AddressedTo(r, {PUBLIC_GROUP, x} \cup {Followers[y] : y \in ys})
    PROVE  Entitled(x, r.note)
<1> DEFINE n == r.note
<1>1. Permitted(r) /\ n \in Notes /\ note[n] # None
  BY RowParts
<1>2. PUBLIC_GROUP \in Audience(r) \/ Among(x, Audience(r))
  BY DEF AddressedTo, Among
<1>3. CASE IsPublic(n)
  BY <1>3 DEF Entitled
<1>4. CASE Audience(r) \subseteq note[n].to \cup note[n].cc \cup {Author(n)}
  <2>1. Author(n) \in Accounts
    BY <1>1, NoteParts
  <2>2. CASE PUBLIC_GROUP \in Audience(r)
    BY <1>4, <2>1, <2>2, AddressParts DEF IsPublic, Entitled
  <2>3. CASE Among(x, Audience(r))
    <3>1. x = Author(n) \/ Among(x, note[n].to \cup note[n].cc)
      BY <1>4, <2>1, <2>3, AddressParts DEF Among
    <3> QED
      BY <3>1 DEF Entitled
  <2> QED
    BY <1>2, <2>2, <2>3
<1>5. CASE /\ r.publisher = Author(n) /\ PUBLIC_GROUP \notin Audience(r)
           /\ Followers[Author(n)] \in note[n].to
  BY <1>2, <1>5 DEF Entitled
<1> QED
  BY <1>1, <1>3, <1>4, <1>5 DEF Permitted

\* The rows of a list timeline, of any members, as of an account's page.
LEMMA ListAddressedIsEntitled ==
    ASSUME TableInv, NEW r \in outbox, NEW x \in Accounts \cup {None}, NEW members,
           AddressedTo(r, ListAddresses(x, members))
    PROVE  Entitled(x, r.note)
<1> DEFINE ys == {z \in members : IsFollowing(x, z)}
<1>1. ys \in SUBSET Accounts
  BY TimelinesAssumption DEF TableInv, IsFollowing
<1>2. AddressedTo(r, {PUBLIC_GROUP, x} \cup {Followers[y] : y \in ys})
  BY DEF ListAddresses
<1>3. \A y \in ys : IsFollowing(x, y)
  OBVIOUS
<1> HIDE DEF ys
<1> QED
  BY <1>1, <1>2, <1>3, AddressedIsEntitled

LEMMA HomeAddressedIsEntitled ==
    ASSUME TableInv, NEW r \in outbox, NEW x \in Accounts,
           AddressedTo(r, HomeAddresses(x, FollowingIds(x)))
    PROVE  Entitled(x, r.note)
<1> DEFINE ys == {x} \cup (FollowingIds(x) \ NoFollowers)
<1>1. ys \in SUBSET Accounts /\ \A y \in ys : x = y \/ IsFollowing(x, y)
  BY DEF FollowingIds
<1>2. AddressedTo(r, {PUBLIC_GROUP, x} \cup {Followers[y] : y \in ys})
  BY DEF HomeAddresses
<1> HIDE DEF ys
<1> QED
  BY <1>1, <1>2, AddressedIsEntitled

LEMMA ShownFromTables ==
    ASSUME TableInv
    PROVE  ShownIsEntitled
<1> SUFFICES ASSUME NEW x \in Accounts \cup {None}
             PROVE  /\ \A r \in Shown(x) : Entitled(x, r.note)
                    /\ \A a \in Accounts : \A s \in AccountStatuses(x, a) : Entitled(x, s.note)
                    /\ \A s \in LoadViewerStatuses(x, Notes) : Entitled(x, s.note)
                    /\ \A n \in Notes : HistoryIsShown(x, n) => Entitled(x, n)
  BY DEF ShownIsEntitled
<1>1. ASSUME NEW n \in Notes, note[n] # None, IsVisible(x, n)
      PROVE  Entitled(x, n)
  <2>1. OriginalActor(n) \in Accounts
    BY <1>1, NoteParts
  <2> QED
    BY <1>1, <2>1 DEF IsVisible, DetectVisibility, Entitled, IsPublic, Among
<1>2. ASSUME NEW r \in Shown(x)
      PROVE  Entitled(x, r.note)
  <2>1. CASE x = None
    <3>1. r \in outbox /\ PUBLIC_GROUP \in Audience(r)
      BY <1>2, <2>1 DEF Shown, PublicRows, OutboxPageRows, ReplyRows, Audience
    <3> QED
      BY <3>1, ListAddressedIsEntitled DEF AddressedTo, ListAddresses
  <2>2. CASE x # None
    <3>1. CASE r \in HomeRows(x, FollowingIds(x))
      <4>1. r \in outbox /\ AddressedTo(r, HomeAddresses(x, FollowingIds(x)))
        BY <3>1 DEF HomeRows, Newest, HomeCandidates
      <4> QED
        BY <2>2, <4>1, HomeAddressedIsEntitled
    <3>2. ASSUME NEW limit \in ListLimits, r \in ListRows(x, list, limit)
          PROVE  Entitled(x, r.note)
      <4>1. r \in outbox /\ AddressedTo(r, ListAddresses(x, list))
        BY <3>2 DEF ListRows, Newest, ListCandidates
      <4> QED
        BY <4>1, ListAddressedIsEntitled
    <3> QED
      BY <1>2, <2>2, <3>1, <3>2 DEF Shown, ListTimeline
  <2> QED
    BY <2>1, <2>2
<1>3. ASSUME NEW a \in Accounts, NEW s \in AccountStatuses(x, a)
      PROVE  Entitled(x, s.note)
  <2>1. PICK r \in AccountRows(x, a) : s = ToMastodonStatusFromRow(r)
    BY <1>3 DEF AccountStatuses
  <2>2. r \in outbox /\ AddressedTo(r, ListAddresses(x, {a}))
    BY DEF AccountRows
  <2>3. s.note = r.note
    BY <2>1 DEF ToMastodonStatusFromRow
  <2> QED
    BY <2>2, <2>3, ListAddressedIsEntitled
<1>4. ASSUME NEW s \in LoadViewerStatuses(x, Notes)
      PROVE  Entitled(x, s.note)
  <2>1. PICK n \in Notes : CanViewStatus(x, n) /\ s.note = n
    BY <1>4 DEF LoadViewerStatuses, StatusOfNote
  <2> QED
    BY <1>1, <2>1 DEF CanViewStatus
<1> QED
  BY <1>1, <1>2, <1>3, <1>4 DEF HistoryIsShown

\* For any accounts, notes and audiences: whatever shows a note, by itself or in a reblog, its
\* author let the viewer see it.
THEOREM TimelinesShownIsEntitled == Spec => []ShownIsEntitled
<1>1. TableInv => ShownIsEntitled
  BY ShownFromTables
<1> QED
  BY <1>1, TableInvHolds, PTL

LEMMA OpenableFromTables ==
    ASSUME TableInv
    PROVE  HomeIsOpenable
<1> SUFFICES ASSUME NEW x \in Accounts, NEW r \in HomeRows(x, FollowingIds(x)),
                    WellAddressed(r.note)
             PROVE  CanViewStatus(x, r.note)
  BY DEF HomeIsOpenable
<1> DEFINE n == r.note
           a == Author(r.note)
<1>1. /\ r \in outbox /\ r.publisher \in FollowingIds(x) /\ NotHidden(x, r)
      /\ AddressedTo(r, HomeAddresses(x, FollowingIds(x)))
  BY DEF HomeRows, Newest, HomeCandidates
<1>2. n \in Notes /\ note[n] # None /\ Permitted(r) /\ a \in Accounts
  BY <1>1, RowParts, NoteParts
<1>3. ~HasBlockBetween(x, OriginalActor(n))
  BY <1>1 DEF NotHidden
<1>4. IsVisible(x, n)
  <2>1. CASE PUBLIC_GROUP \in note[n].to
    BY <2>1 DEF IsVisible, DetectVisibility
  <2>2. CASE PUBLIC_GROUP \notin note[n].to
    <3>1. OriginalActor(n) = a
      BY <2>2 DEF WellAddressed
    <3>2. CASE Followers[a] \in note[n].to
      <4>1. PUBLIC_GROUP \in note[n].cc \/ r.publisher = a
        BY <1>2, <2>2, <3>1 DEF Permitted, IsPublic
      <4>2. r.publisher = a => x = a \/ IsFollowing(x, a)
        BY <1>1 DEF FollowingIds
      <4> QED
        BY <2>2, <3>1, <3>2, <4>1, <4>2 DEF IsVisible, DetectVisibility
    <3>3. CASE Followers[a] \notin note[n].to /\ note[n].cc = {} /\ note[n].to \subseteq Accounts
      <4>1. Audience(r) \subseteq note[n].to \cup {a}
        BY <1>2, <2>2, <3>3 DEF Permitted, IsPublic
      <4>2. Audience(r) \subseteq Accounts
        BY <1>2, <3>3, <4>1
      <4>3. x \in Audience(r)
        BY <1>1, <4>2, AddressParts DEF AddressedTo, HomeAddresses, FollowingIds
      <4> QED
        BY <2>2, <3>1, <3>3, <4>1, <4>3 DEF IsVisible, DetectVisibility
    <3> QED
      BY <2>2, <3>2, <3>3 DEF WellAddressed
  <2> QED
    BY <2>1, <2>2
<1> QED
  BY <1>2, <1>3, <1>4 DEF CanViewStatus

\* Every status on a home timeline can be opened, if its note is public, or is stored under its
\* author and addressed as the notes of this server are.
THEOREM TimelinesHomeIsOpenable == Spec => []HomeIsOpenable
<1>1. TableInv => HomeIsOpenable
  BY OpenableFromTables
<1> QED
  BY <1>1, TableInvHolds, PTL

\* What a list of accounts that are followed selects, the home timeline selects, if the followers
\* URLs of all of them are stored.
LEMMA ListCandidatesAtHome ==
    ASSUME NEW x \in Viewers, list \subseteq FollowingIds(x), list \cap NoFollowers \subseteq {x}
    PROVE  ListCandidates(x, list) \subseteq HomeCandidates(x, FollowingIds(x))
<1> SUFFICES ASSUME NEW r \in ListCandidates(x, list)
             PROVE  r \in HomeCandidates(x, FollowingIds(x))
  OBVIOUS
<1>1. ListAddresses(x, list) \subseteq HomeAddresses(x, FollowingIds(x))
  BY DEF ListAddresses, HomeAddresses
<1>2. AddressedTo(r, HomeAddresses(x, FollowingIds(x)))
  BY <1>1 DEF ListCandidates, AddressedTo
<1>3. RepliesTo(r, FollowingIds(x))
  BY DEF ListCandidates, RepliesTo
<1> QED
  BY <1>2, <1>3 DEF ListCandidates, HomeCandidates

\* The list timeline of accounts that are all followed, and have their followers URLs stored,
\* shows nothing but what the home timeline shows or is too long to show.
THEOREM TimelinesListWithinHome == Spec => []ListWithinHome
<1>1. TableInv => ListWithinHome
  <2> SUFFICES ASSUME TableInv, NEW x \in Viewers, GetListById,
                      list \subseteq FollowingIds(x), list \cap NoFollowers \subseteq {x},
                      NEW limit \in ListLimits, NEW r \in ListTimeline(x, limit)
               PROVE  \/ r \in HomeRows(x, FollowingIds(x))
                      \/ Limit <= Cardinality({q \in HomeCandidates(x, FollowingIds(x)) :
                                                  q.date > r.date})
    BY DEF ListWithinHome
  <2> DEFINE rows == HomeCandidates(x, FollowingIds(x))
             newer == {q \in rows : q.date > r.date}
  <2>1. r \in rows
    BY ListCandidatesAtHome DEF ListTimeline, ListRows, Newest
  <2>2. newer \subseteq outbox /\ IsFiniteSet(outbox)
    BY DEF HomeCandidates, TableInv
  <2>3. Cardinality(newer) \in Nat
    <3> HIDE DEF newer
    <3> QED
      BY <2>2, FS_Subset, FS_CardinalityType
  <2>4. Cardinality(newer) < Limit \/ Limit <= Cardinality(newer)
    BY <2>3, TimelinesAssumption
  <2> QED
    BY <2>1, <2>4 DEF HomeRows, Newest
<1> QED
  BY <1>1, TableInvHolds, PTL

-----------------------------------------------------------------------------
(* The cached home timelines. *)

StateInv ==
    /\ TableInv
    /\ blocks \subseteq BlockPairs /\ mutes \subseteq MutePairs
    /\ list = None \/ list \subseteq Listed
    /\ home \in [Viewers -> SUBSET Status]
    /\ task \in [Workers -> [at : {"unfollow"}, actor : Accounts, target : Accounts] \cup {Idle}]
    /\ regen \in [Workers -> [Viewers -> Regen]]
    /\ changes \in 0..MaxChanges
    /\ lost \subseteq Viewers

LEMMA StateType ==
    ASSUME StateInv
    PROVE  TypeOK
BY DEF StateInv, TableInv, TypeOK

LEMMA StillType == Still \in Regen
BY DEF Still, Regen

LEMMA StartedType ==
    ASSUME regen \in [Workers -> [Viewers -> Regen]], NEW xs, NEW w \in Workers
    PROVE  /\ Started(xs, w) \in [Workers -> [Viewers -> Regen]]
           /\ \A v \in Workers, x \in Viewers :
                 Started(xs, w)[v][x] = IF v = w /\ x \in xs
                                        THEN [Still EXCEPT !.at = "follows"] ELSE regen[v][x]
<1>1. [Still EXCEPT !.at = "follows"] \in Regen
  BY DEF Still, Regen
<1> DEFINE f == [x \in Viewers |->
                    IF x \in xs THEN [Still EXCEPT !.at = "follows"] ELSE regen[w][x]]
<1>2. f \in [Viewers -> Regen]
  BY <1>1
<1>3. \A x \in Viewers :
         f[x] = IF x \in xs THEN [Still EXCEPT !.at = "follows"] ELSE regen[w][x]
  OBVIOUS
<1>4. Started(xs, w) = [regen EXCEPT ![w] = f]
  BY DEF Started
<1> HIDE DEF f
<1>5. Started(xs, w) \in [Workers -> [Viewers -> Regen]]
  BY <1>2, <1>4
<1>6. \A v \in Workers : Started(xs, w)[v] = IF v = w THEN f ELSE regen[v]
  BY <1>2, <1>4
<1> QED
  BY <1>3, <1>5, <1>6

LEMMA OutdatedType ==
    ASSUME NEW rg \in [Workers -> [Viewers -> Regen]], NEW xs
    PROVE  /\ Outdated(xs, rg) \in [Workers -> [Viewers -> Regen]]
           /\ \A v \in Workers, x \in Viewers :
                 Outdated(xs, rg)[v][x] = IF x \in xs /\ rg[v][x].at = "put"
                                          THEN [rg[v][x] EXCEPT !.fresh = FALSE] ELSE rg[v][x]
<1>1. \A g \in Regen : [g EXCEPT !.fresh = FALSE] \in Regen
  BY DEF Regen
<1> QED
  BY <1>1 DEF Outdated

LEMMA StatusType ==
    ASSUME TableInv, NEW r \in outbox
    PROVE  ToMastodonStatusFromRow(r) \in Status
BY RowParts, VisibilityType DEF ToMastodonStatusFromRow, Status

\* The rows that a worker has read for a timeline, as statuses.
LEMMA ReadRowsType ==
    ASSUME TableInv, NEW x, NEW ids
    PROVE  /\ RowsToStatuses(HomeRows(x, ids)) \subseteq Status
           /\ [Still EXCEPT !.at = "put", !.statuses = RowsToStatuses(HomeRows(x, ids))] \in Regen
<1>1. RowsToStatuses(HomeRows(x, ids)) \subseteq Status
  BY StatusType DEF RowsToStatuses, HomeRows, Newest, HomeCandidates
<1> QED
  BY <1>1 DEF Still, Regen

LEMMA SetRegenType ==
    ASSUME regen \in [Workers -> [Viewers -> Regen]], NEW w \in Workers, NEW x \in Viewers,
           NEW g \in Regen, SetRegen(w, x, g)
    PROVE  /\ regen' \in [Workers -> [Viewers -> Regen]]
           /\ \A v \in Workers, y \in Viewers :
                 regen'[v][y] = IF v = w /\ y = x THEN g ELSE regen[v][y]
BY DEF SetRegen

LEMMA ChangeType ==
    ASSUME changes \in 0..MaxChanges, Change
    PROVE  changes' \in 0..MaxChanges
BY TimelinesAssumption DEF Change

\* What Regenerate and its steps do: the worker's regeneration, and the cache.
LEMMA RegenStateOK ==
    ASSUME StateInv, TableInv', NEW w \in Workers, NEW x \in Viewers,
           Regenerate(w, x) \/ ReadFollows(w, x) \/ ReadRows(w, x) \/ PutHome(w, x)
           \/ FailRegenerate(w, x)
    PROVE  StateInv'
<1>1. UNCHANGED <<tables, task, changes>>
  BY DEF Regenerate, ReadFollows, ReadRows, PutHome, FailRegenerate
<1>2. regen[w][x] \in Regen /\ regen \in [Workers -> [Viewers -> Regen]]
      /\ home \in [Viewers -> SUBSET Status]
  BY DEF StateInv
<1>3. regen' \in [Workers -> [Viewers -> Regen]]
  <2>1. CASE Regenerate(w, x)
    BY <1>2, <2>1, StartedType DEF Regenerate
  <2>2. CASE ReadFollows(w, x)
    <3>1. [regen[w][x] EXCEPT !.at = "rows", !.ids = FollowingIds(x)] \in Regen
      BY <1>2, ViewersType DEF Regen, FollowingIds
    <3> QED
      BY <1>2, <2>2, <3>1, SetRegenType DEF ReadFollows
  <2>3. CASE ReadRows(w, x)
    BY <1>2, <2>3, SetRegenType, ReadRowsType DEF ReadRows, StateInv
  <2>4. CASE PutHome(w, x)
    BY <1>2, <2>4, SetRegenType, StillType DEF PutHome
  <2>5. CASE FailRegenerate(w, x)
    BY <1>2, <2>5, SetRegenType, StillType DEF FailRegenerate
  <2> QED
    BY <2>1, <2>2, <2>3, <2>4, <2>5
<1>4. home' \in [Viewers -> SUBSET Status]
  <2>1. CASE PutHome(w, x)
    <3>1. regen[w][x].statuses \in SUBSET Status
      BY <1>2 DEF Regen
    <3> QED
      BY <1>2, <2>1, <3>1 DEF PutHome
  <2> QED
    BY <1>2, <2>1 DEF Regenerate, ReadFollows, ReadRows, FailRegenerate
<1>5. lost' \subseteq Viewers
  BY DEF StateInv, Regenerate, ReadFollows, ReadRows, PutHome, FailRegenerate
<1> QED
  BY <1>1, <1>3, <1>4, <1>5 DEF StateInv, tables, relations

LEMMA BlockStateOK ==
    ASSUME StateInv, TableInv', NEW w \in Workers, NEW p \in BlockPairs,
           InsertBlock(w, p[1], p[2]) \/ DeleteBlock(w, p[1], p[2])
    PROVE  StateInv'
<1>1. p = <<p[1], p[2]>> /\ p[1] \in Accounts /\ p[2] \in Accounts
  BY TimelinesAssumption
<1>2. regen \in [Workers -> [Viewers -> Regen]]
  BY DEF StateInv
<1>3. /\ changes' \in 0..MaxChanges /\ UNCHANGED <<mutes, list, home, lost>>
      /\ regen' \in [Workers -> [Viewers -> Regen]]
      /\ blocks' \subseteq BlockPairs
  <2>1. changes' \in 0..MaxChanges /\ UNCHANGED <<mutes, list, home, lost>>
    BY ChangeType DEF StateInv, InsertBlock, DeleteBlock
  <2>2. blocks' \subseteq BlockPairs
    BY <1>1 DEF StateInv, InsertBlock, DeleteBlock,
       InsertAccountRelationship, DeleteAccountRelationship
  <2>3. CASE InsertBlock(w, p[1], p[2])
    <3>1. regen' = Outdated({p[1], p[2]}, regen)
      BY <2>3 DEF InsertBlock
    <3> QED
      BY <1>2, <2>1, <2>2, <3>1, OutdatedType
  <2>4. CASE DeleteBlock(w, p[1], p[2])
    <3>1. regen' = Started({p[1]}, w)
      BY <2>4 DEF DeleteBlock
    <3> QED
      BY <1>2, <2>1, <2>2, <3>1, StartedType
  <2> QED
    BY <2>3, <2>4
<1>4. task' \in [Workers -> [at : {"unfollow"}, actor : Accounts, target : Accounts] \cup {Idle}]
  BY <1>1 DEF StateInv, InsertBlock, DeleteBlock
<1> QED
  BY <1>3, <1>4 DEF StateInv

LEMMA MuteStateOK ==
    ASSUME StateInv, TableInv', NEW w \in Workers, NEW p \in MutePairs,
           InsertMute(w, p[1], p[2]) \/ DeleteMute(w, p[1], p[2])
    PROVE  StateInv'
<1>1. p = <<p[1], p[2]>> /\ p[1] \in Accounts /\ p[2] \in Accounts
  BY TimelinesAssumption
<1>2. regen \in [Workers -> [Viewers -> Regen]]
  BY DEF StateInv
<1>3. regen' \in [Workers -> [Viewers -> Regen]]
  <2> DEFINE rg == Started({p[1]}, w)
  <2>1. rg \in [Workers -> [Viewers -> Regen]]
    BY <1>2, StartedType
  <2>2. Outdated({p[1]}, rg) \in [Workers -> [Viewers -> Regen]]
    <3> HIDE DEF rg
    <3> QED
      BY <2>1, OutdatedType
  <2>3. regen' = Outdated({p[1]}, rg) \/ regen' = rg
    BY DEF InsertMute, DeleteMute
  <2> QED
    BY <2>1, <2>2, <2>3
<1>4. /\ changes' \in 0..MaxChanges /\ UNCHANGED <<blocks, list, home, lost, task>>
      /\ mutes' \subseteq MutePairs
  BY <1>1, ChangeType DEF StateInv, InsertMute, DeleteMute,
     InsertAccountRelationship, DeleteAccountRelationship
<1> QED
  BY <1>3, <1>4 DEF StateInv

LEMMA UnfollowStateOK ==
    ASSUME StateInv, TableInv', NEW w \in Workers, RemoveBlockRelatedFollows(w) \/ FailBlock(w)
    PROVE  StateInv'
<1>1. regen \in [Workers -> [Viewers -> Regen]]
  BY DEF StateInv
<1>2. regen' \in [Workers -> [Viewers -> Regen]]
  BY <1>1, StartedType DEF RemoveBlockRelatedFollows, FailBlock
<1>3. UNCHANGED <<blocks, mutes, list, home, changes>> /\ lost' \subseteq Viewers
      /\ task' = [task EXCEPT ![w] = Idle]
  BY DEF StateInv, RemoveBlockRelatedFollows, FailBlock, tables, relations
<1> QED
  BY <1>2, <1>3 DEF StateInv

LEMMA StateInvNext ==
    ASSUME StateInv, [Next]_vars
    PROVE  StateInv'
<1> TableInv'
  BY TableInvNext DEF StateInv
<1>1. CASE UNCHANGED vars
  BY <1>1 DEF vars, tables, relations, StateInv
<1>2. ASSUME NEW n \in Notes, Publish(n) \/ CacheNote(n)
      PROVE  StateInv'
  BY <1>2, ChangeType DEF Publish, CacheNote, relations, StateInv
<1>3. ASSUME NEW p \in Accounts, NEW n \in Notes, Reblog(p, n) \/ Announce(p, n) \/ Unreblog(p, n)
      PROVE  StateInv'
  BY <1>3, ChangeType DEF Reblog, Announce, Unreblog, CreateReblog, relations, StateInv
<1>4. ASSUME NEW w \in Workers, NEW x \in Viewers,
             Regenerate(w, x) \/ ReadFollows(w, x) \/ ReadRows(w, x) \/ PutHome(w, x)
             \/ FailRegenerate(w, x)
      PROVE  StateInv'
  BY <1>4, RegenStateOK
<1>5. ASSUME NEW p \in FollowPairs, Follow(p[1], p[2]) \/ Unfollow(p[1], p[2])
      PROVE  StateInv'
  BY <1>5, ChangeType DEF Follow, Unfollow, StateInv
<1>6. ASSUME NEW w \in Workers, NEW p \in BlockPairs,
             InsertBlock(w, p[1], p[2]) \/ DeleteBlock(w, p[1], p[2])
      PROVE  StateInv'
  BY <1>6, BlockStateOK
<1>7. ASSUME NEW w \in Workers, RemoveBlockRelatedFollows(w) \/ FailBlock(w)
      PROVE  StateInv'
  BY <1>7, UnfollowStateOK
<1>8. ASSUME NEW w \in Workers, NEW p \in MutePairs,
             InsertMute(w, p[1], p[2]) \/ DeleteMute(w, p[1], p[2])
      PROVE  StateInv'
  BY <1>8, MuteStateOK
<1>9. ASSUME NEW members, members = None \/ members \subseteq Listed, SetList(members)
      PROVE  StateInv'
  BY <1>9, ChangeType DEF SetList, relations, StateInv
<1>10. CASE CreateList \/ DeleteList
  BY <1>9, <1>10 DEF CreateList, DeleteList
<1>11. ASSUME NEW ys \in SUBSET Listed, AddAccountsToList(ys)
       PROVE  StateInv'
  BY <1>9, <1>11 DEF AddAccountsToList, GetListById, StateInv
<1>12. ASSUME NEW y \in Listed, RemoveAccountFromList(y)
       PROVE  StateInv'
  BY <1>9, <1>12 DEF RemoveAccountFromList, GetListById, StateInv
<1> QED
  BY <1>1, <1>2, <1>3, <1>4, <1>5, <1>6, <1>7, <1>8, <1>10, <1>11, <1>12 DEF Next

LEMMA StateInvInit ==
    ASSUME Init
    PROVE  StateInv
<1>1. TableInv
  BY FS_EmptySet DEF Init, TableInv
<1>2. /\ blocks \subseteq BlockPairs /\ mutes \subseteq MutePairs /\ lost \subseteq Viewers
      /\ list = None \/ list \subseteq Listed
  BY DEF Init
<1>3. /\ home \in [Viewers -> SUBSET Status] /\ changes \in 0..MaxChanges
      /\ task \in [Workers -> [at : {"unfollow"}, actor : Accounts, target : Accounts] \cup {Idle}]
  BY TimelinesAssumption DEF Init
<1>4. regen \in [Workers -> [Viewers -> Regen]]
  BY StillType DEF Init
<1> QED
  BY <1>1, <1>2, <1>3, <1>4 DEF StateInv

LEMMA StateInvHolds == Spec => []StateInv
<1>1. Init => StateInv
  BY StateInvInit
<1>2. StateInv /\ [Next]_vars => StateInv'
  BY StateInvNext
<1> QED
  BY <1>1, <1>2, PTL DEF Spec

\* The variables have their types, and every row is about a note that is there.
THEOREM TimelinesTypeOK == Spec => []TypeOK
<1>1. StateInv => TypeOK
  BY StateType
<1> QED
  BY <1>1, StateInvHolds, PTL

-----------------------------------------------------------------------------
(* What blocks and mutes hide. *)

Hides(x, statuses) ==
    \A s \in statuses : \A y \in {s.account, OriginalActor(s.note)} :
        ~HasBlockBetween(x, y) /\ <<x, y>> \notin mutes

Written(statuses) == \A s \in statuses : note[s.note] # None

RegenHides(w, x) ==
    LET g == regen[w][x] IN
    /\ Written(g.statuses)
    /\ g.at = "put" /\ g.fresh => Hides(x, g.statuses)

HomeHides(x) ==
    /\ Written(home[x])
    /\ x \notin lost /\ ~Regenerating(x) => Hides(x, home[x])

\* From its queries to the cache, what is read for a home timeline hides what it should, unless
\* it was marked as outdated.
HideInv ==
    /\ StateInv
    /\ \A w \in Workers, x \in Viewers : RegenHides(w, x)
    /\ \A x \in Viewers : HomeHides(x)

\* A step that takes no note away, and one that hides nothing more from x.
NotesStay ==
    \A n \in Notes : note[n] # None => note'[n] = note[n]
Loosens(x) ==
    \A y \in Accounts :
        /\ <<x, y>> \in blocks' => <<x, y>> \in blocks
        /\ <<y, x>> \in blocks' => <<y, x>> \in blocks
        /\ <<x, y>> \in mutes' => <<x, y>> \in mutes

LEMMA StatusesStay ==
    ASSUME StateInv, NotesStay, NEW statuses \in SUBSET Status, Written(statuses)
    PROVE  \A s \in statuses :
              /\ s.note \in Notes /\ note'[s.note] = note[s.note] /\ note'[s.note] # None
              /\ s.account \in Accounts /\ OriginalActor(s.note) \in Accounts
<1> SUFFICES ASSUME NEW s \in statuses
             PROVE  /\ s.note \in Notes /\ note'[s.note] = note[s.note] /\ note'[s.note] # None
                    /\ s.account \in Accounts /\ OriginalActor(s.note) \in Accounts
  OBVIOUS
<1>1. s.note \in Notes /\ s.account \in Accounts
  BY DEF Status
<1>2. note[s.note] # None
  BY DEF Written
<1> QED
  BY <1>1, <1>2, NoteParts DEF NotesStay, StateInv

\* What was hidden in statuses stays hidden.
LEMMA HidesStays ==
    ASSUME StateInv, NotesStay, NEW x \in Viewers, Loosens(x),
           NEW statuses \in SUBSET Status, Written(statuses), Hides(x, statuses)
    PROVE  \A s \in statuses : \A y \in {s.account, note'[s.note].originalActor} :
              <<x, y>> \notin blocks' /\ <<y, x>> \notin blocks' /\ <<x, y>> \notin mutes'
BY StatusesStay DEF Hides, HasBlockBetween, Loosens, OriginalActor

LEMMA RegenKept ==
    ASSUME HideInv, StateInv', NotesStay, NEW w \in Workers, NEW x \in Viewers,
           regen'[w][x].statuses = regen[w][x].statuses,
           regen'[w][x].at = "put" /\ regen'[w][x].fresh =>
              regen[w][x].at = "put" /\ regen[w][x].fresh /\ Loosens(x)
    PROVE  RegenHides(w, x)'
<1> DEFINE statuses == regen[w][x].statuses
<1>1. statuses \in SUBSET Status /\ Written(statuses) /\ StateInv
  BY DEF HideInv, RegenHides, StateInv, Regen
<1>2. \A s \in statuses : note'[s.note] # None
  BY <1>1, StatusesStay
<1>3. ASSUME regen'[w][x].at = "put", regen'[w][x].fresh
      PROVE  \A s \in statuses : \A y \in {s.account, note'[s.note].originalActor} :
              <<x, y>> \notin blocks' /\ <<y, x>> \notin blocks' /\ <<x, y>> \notin mutes'
  <2>1. Hides(x, statuses) /\ Loosens(x)
    BY <1>3 DEF HideInv, RegenHides
  <2> QED
    BY <1>1, <2>1, HidesStays
<1> QED
  BY <1>2, <1>3 DEF RegenHides, Written, Hides, HasBlockBetween, OriginalActor

LEMMA RegenEmpty ==
    ASSUME NEW w \in Workers, NEW x \in Viewers, regen'[w][x].statuses = {}
    PROVE  RegenHides(w, x)'
BY DEF RegenHides, Written, Hides

LEMMA HomeKept ==
    ASSUME HideInv, StateInv', NotesStay, NEW x \in Viewers, home'[x] = home[x],
           \/ x \in lost'
           \/ Regenerating(x)'
           \/ Loosens(x) /\ x \notin lost /\ ~Regenerating(x)
    PROVE  HomeHides(x)'
<1>1. home[x] \in SUBSET Status /\ Written(home[x]) /\ StateInv
  BY DEF HideInv, HomeHides, StateInv
<1>2. \A s \in home[x] : note'[s.note] # None
  BY <1>1, StatusesStay
<1>3. ASSUME x \notin lost', ~Regenerating(x)'
      PROVE  \A s \in home[x] : \A y \in {s.account, note'[s.note].originalActor} :
              <<x, y>> \notin blocks' /\ <<y, x>> \notin blocks' /\ <<x, y>> \notin mutes'
  <2>1. Hides(x, home[x]) /\ Loosens(x)
    BY <1>3 DEF HideInv, HomeHides
  <2> QED
    BY <1>1, <2>1, HidesStays
<1> QED
  BY <1>2, <1>3 DEF HomeHides, Written, Hides, HasBlockBetween, OriginalActor

\* A step that has nothing to do with the cache, blocks or mutes.
LEMMA QuietHides ==
    ASSUME HideInv, StateInv', NotesStay, UNCHANGED <<blocks, mutes, home, task, regen, lost>>
    PROVE  HideInv'
<1>1. \A x : Loosens(x)
  BY DEF Loosens
<1>2. ASSUME NEW w \in Workers, NEW x \in Viewers
      PROVE  RegenHides(w, x)'
  BY <1>1, RegenKept
<1>3. ASSUME NEW x \in Viewers
      PROVE  HomeHides(x)'
  <2>1. Regenerating(x)' <=> Regenerating(x)
    BY DEF Regenerating
  <2> QED
    BY <1>1, <2>1, HomeKept
<1> QED
  BY <1>2, <1>3 DEF HideInv

\* A step that starts regenerations, marks others as outdated, and hides more from those
\* accounts at most.
LEMMA StartHides ==
    ASSUME HideInv, StateInv', NEW w \in Workers, NEW xs, UNCHANGED <<note, home>>,
           \A x \in Viewers \ xs : Loosens(x),
           \A x \in Viewers \cap xs : x \in lost' \/ Regenerating(x)',
           lost \subseteq lost',
           \A x \in Viewers : Regenerating(x) => Regenerating(x)',
           \A v \in Workers, x \in Viewers :
              \/ regen'[v][x] = regen[v][x] /\ (x \in xs => regen[v][x].at # "put" \/ Loosens(x))
              \/ regen'[v][x].statuses = {}
              \/ ~regen'[v][x].fresh /\ regen'[v][x].statuses = regen[v][x].statuses
    PROVE  HideInv'
<1>1. NotesStay
  BY DEF NotesStay
<1>2. ASSUME NEW v \in Workers, NEW x \in Viewers
      PROVE  RegenHides(v, x)'
  BY <1>1, <1>2, RegenKept, RegenEmpty
<1>3. ASSUME NEW x \in Viewers
      PROVE  HomeHides(x)'
  BY <1>1, <1>3, HomeKept
<1> QED
  BY <1>2, <1>3 DEF HideInv

\* A worker that is ready has no part in what is being regenerated.
LEMMA ReadyIsNone ==
    ASSUME NEW w \in Workers, Ready(w), NEW x \in Viewers
    PROVE  regen[w][x] = Still /\ x \notin {task[w].actor, task[w].target}
BY ViewersType DEF Ready, Idle

LEMMA FollowsIsNotStill ==
    /\ [Still EXCEPT !.at = "follows"] # Still
    /\ [Still EXCEPT !.at = "follows"].at = "follows"
    /\ [Still EXCEPT !.at = "follows"].statuses = {} /\ Still.statuses = {}
    /\ Still.at = "idle"
BY DEF Still

\* Requests and messages that only have a timeline regenerated, or hide less.
LEMMA StartedHides ==
    ASSUME HideInv, StateInv', NEW w \in Workers, NEW y, regen' = Started({y}, w),
           UNCHANGED <<note, home, task, lost>>, \A x : Loosens(x)
    PROVE  HideInv'
<1>1. regen \in [Workers -> [Viewers -> Regen]]
  BY DEF HideInv, StateInv
<1>2. \A v \in Workers, x \in Viewers :
         regen'[v][x] = regen[v][x]
         \/ regen'[v][x] = [Still EXCEPT !.at = "follows"]
  BY <1>1, StartedType
<1>3. \A x \in Viewers : Regenerating(x) => Regenerating(x)'
  BY <1>2, FollowsIsNotStill DEF Regenerating
<1>4. \A v \in Workers, x \in Viewers :
         regen'[v][x] = regen[v][x] \/ regen'[v][x].statuses = {}
  BY <1>2, FollowsIsNotStill
<1> QED
  BY <1>3, <1>4, StartHides

LEMMA StepHides ==
    ASSUME HideInv, StateInv', NEW w \in Workers, NEW x \in Viewers,
           ReadFollows(w, x) \/ ReadRows(w, x) \/ PutHome(w, x) \/ FailRegenerate(w, x)
    PROVE  HideInv'
<1> DEFINE g == regen[w][x]
<1>1. /\ UNCHANGED <<note, outbox, blocks, mutes, task>>
      /\ regen \in [Workers -> [Viewers -> Regen]]
      /\ home \in [Viewers -> SUBSET Status] /\ g \in Regen /\ StateInv /\ TableInv
  BY DEF ReadFollows, ReadRows, PutHome, FailRegenerate, tables, relations, HideInv, StateInv
<1>2. NotesStay /\ \A y : Loosens(y)
  BY <1>1 DEF NotesStay, Loosens
<1>3. \A v \in Workers, y \in Viewers : v # w \/ y # x => regen'[v][y] = regen[v][y]
  BY <1>1 DEF ReadFollows, ReadRows, PutHome, FailRegenerate, SetRegen
<1>4. ASSUME NEW v \in Workers, NEW y \in Viewers, v # w \/ y # x
      PROVE  RegenHides(v, y)'
  BY <1>2, <1>3, <1>4, RegenKept
<1>5. ASSUME NEW y \in Viewers, y # x
      PROVE  HomeHides(y)'
  <2>1. home'[y] = home[y] /\ (y \notin lost' => y \notin lost)
    BY <1>1, <1>5 DEF ReadFollows, ReadRows, PutHome, FailRegenerate
  <2>2. Regenerating(y)' <=> Regenerating(y)
    BY <1>1, <1>3, <1>5 DEF Regenerating
  <2> QED
    BY <1>2, <2>1, <2>2, HomeKept
<1>6. RegenHides(w, x)' /\ HomeHides(x)'
  <2>1. CASE ReadFollows(w, x)
    <3>1. /\ regen'[w][x].at = "rows" /\ regen'[w][x].statuses = regen[w][x].statuses
          /\ UNCHANGED <<home, lost>>
      BY <1>1, <2>1 DEF ReadFollows, SetRegen, Regen
    <3>2. Regenerating(x)'
      BY <3>1, FollowsIsNotStill DEF Regenerating
    <3> QED
      BY <1>2, <3>1, <3>2, RegenKept, HomeKept
  <2>2. CASE ReadRows(w, x)
    <3> DEFINE rows == HomeRows(x, g.ids)
    <3>1. /\ regen'[w][x].at = "put" /\ regen'[w][x].statuses = RowsToStatuses(rows)
          /\ UNCHANGED <<home, lost>>
      BY <1>1, <2>2 DEF ReadRows, SetRegen, Still
    <3>2. Regenerating(x)'
      BY <3>1, FollowsIsNotStill DEF Regenerating
    <3>3. ASSUME NEW r \in rows
          PROVE  /\ r \in outbox /\ r.note \in Notes /\ note[r.note] # None /\ NotHidden(x, r)
                 /\ ToMastodonStatusFromRow(r).account = r.publisher
                 /\ ToMastodonStatusFromRow(r).note = r.note
      BY <1>1, RowParts DEF HomeRows, Newest, HomeCandidates, ToMastodonStatusFromRow
    <3>4. Written(RowsToStatuses(rows)) /\ Hides(x, RowsToStatuses(rows))
      BY <3>3 DEF Written, Hides, RowsToStatuses, NotHidden
    <3>5. RegenHides(w, x)'
      BY <1>1, <3>1, <3>4 DEF RegenHides, Written, Hides, HasBlockBetween, OriginalActor
    <3> QED
      BY <1>2, <3>1, <3>2, <3>5, HomeKept
  <2>3. CASE PutHome(w, x)
    <3>1. /\ g.at = "put" /\ regen'[w][x] = Still /\ home'[x] = g.statuses
          /\ x \notin lost' => g.fresh
      BY <1>1, <2>3 DEF PutHome, SetRegen
    <3>2. Written(g.statuses) /\ (g.fresh => Hides(x, g.statuses))
      BY <3>1 DEF HideInv, RegenHides
    <3>3. HomeHides(x)'
      BY <1>1, <3>1, <3>2 DEF HomeHides, Written, Hides, HasBlockBetween, OriginalActor
    <3> QED
      BY <3>1, <3>3, RegenEmpty, FollowsIsNotStill
  <2>4. CASE FailRegenerate(w, x)
    <3>1. x \in lost' /\ regen'[w][x] = Still /\ UNCHANGED home
      BY <1>1, <2>4 DEF FailRegenerate, SetRegen
    <3> QED
      BY <1>2, <3>1, RegenEmpty, HomeKept, FollowsIsNotStill
  <2> QED
    BY <2>1, <2>2, <2>3, <2>4
<1>7. ASSUME NEW v \in Workers, NEW y \in Viewers
      PROVE  RegenHides(v, y)' /\ HomeHides(y)'
  BY <1>4, <1>5, <1>6
<1> QED
  BY <1>7, <1>5, <1>6 DEF HideInv

LEMMA InsertBlockHides ==
    ASSUME HideInv, StateInv', NEW w \in Workers, NEW a, NEW b, InsertBlock(w, a, b)
    PROVE  HideInv'
<1> DEFINE xs == {a, b}
<1>1. /\ regen' = Outdated(xs, regen) /\ blocks' = blocks \cup {<<a, b>>}
      /\ task' = [task EXCEPT ![w] = [at |-> "unfollow", actor |-> a, target |-> b]]
      /\ UNCHANGED <<note, home, mutes, lost>> /\ Ready(w)
      /\ regen \in [Workers -> [Viewers -> Regen]]
      /\ task \in [Workers -> [at : {"unfollow"}, actor : Accounts, target : Accounts] \cup {Idle}]
  BY DEF InsertBlock, InsertAccountRelationship, HideInv, StateInv
<1>2. \A x \in Viewers \ xs : Loosens(x)
  BY <1>1 DEF Loosens
<1>3. task'[w].actor = a /\ task'[w].target = b /\ \A v \in Workers : v # w => task'[v] = task[v]
  BY <1>1
<1>4. ASSUME NEW v \in Workers, NEW x \in Viewers
      PROVE  /\ regen'[v][x] = IF x \in xs /\ regen[v][x].at = "put"
                               THEN [regen[v][x] EXCEPT !.fresh = FALSE] ELSE regen[v][x]
             /\ regen'[v][x].at = regen[v][x].at /\ regen'[v][x].statuses = regen[v][x].statuses
             /\ regen'[v][x] = regen[v][x] \/ ~regen'[v][x].fresh
             /\ regen[v][x].at = "put" /\ x \in xs => ~regen'[v][x].fresh
  <2>1. regen[v][x] \in Regen
    BY <1>1
  <2>2. regen'[v][x] = IF x \in xs /\ regen[v][x].at = "put"
                       THEN [regen[v][x] EXCEPT !.fresh = FALSE] ELSE regen[v][x]
    <3> HIDE DEF xs
    <3> QED
      BY <1>1, OutdatedType
  <2> QED
    BY <2>1, <2>2 DEF Regen
<1>5. \A x \in Viewers \cap xs : Regenerating(x)'
  BY <1>3 DEF Regenerating
<1>6. ASSUME NEW x \in Viewers, Regenerating(x)
      PROVE  Regenerating(x)'
  <2>1. PICK v \in Workers : regen[v][x] # Still \/ x \in {task[v].actor, task[v].target}
    BY <1>6 DEF Regenerating
  <2>2. v # w
    BY <1>1, <2>1, ReadyIsNone
  <2>3. CASE regen[v][x] # Still
    <3>1. regen'[v][x] # Still
      <4>1. regen[v][x].at # "put" => regen'[v][x] = regen[v][x]
        BY <1>4
      <4>2. regen'[v][x].at = regen[v][x].at
        BY <1>4
      <4> QED
        BY <2>3, <4>1, <4>2, FollowsIsNotStill
    <3> QED
      BY <3>1 DEF Regenerating
  <2>4. CASE x \in {task[v].actor, task[v].target}
    BY <1>3, <2>2, <2>4 DEF Regenerating
  <2> QED
    BY <2>1, <2>3, <2>4
<1>7. \A v \in Workers, x \in Viewers :
         \/ regen'[v][x] = regen[v][x] /\ (x \in xs => regen[v][x].at # "put" \/ Loosens(x))
         \/ regen'[v][x].statuses = {}
         \/ ~regen'[v][x].fresh /\ regen'[v][x].statuses = regen[v][x].statuses
  BY <1>4
<1> HIDE DEF xs
<1> QED
  BY <1>1, <1>2, <1>5, <1>6, <1>7, StartHides

LEMMA UnfollowHides ==
    ASSUME HideInv, StateInv', NEW w \in Workers, RemoveBlockRelatedFollows(w) \/ FailBlock(w)
    PROVE  HideInv'
<1> DEFINE xs == {task[w].actor, task[w].target}
<1>1. /\ UNCHANGED <<note, home, blocks, mutes>> /\ task' = [task EXCEPT ![w] = Idle]
      /\ regen \in [Workers -> [Viewers -> Regen]]
      /\ task \in [Workers -> [at : {"unfollow"}, actor : Accounts, target : Accounts] \cup {Idle}]
      /\ lost \subseteq lost'
  BY DEF RemoveBlockRelatedFollows, FailBlock, tables, relations, HideInv, StateInv
<1>2. NotesStay /\ \A x : Loosens(x)
  BY <1>1 DEF NotesStay, Loosens
<1>3. \A v \in Workers : v # w => task'[v] = task[v]
  BY <1>1
<1>4. ASSUME NEW v \in Workers, NEW x \in Viewers
      PROVE  /\ regen'[v][x] = regen[v][x] \/ regen'[v][x] = [Still EXCEPT !.at = "follows"]
             /\ RemoveBlockRelatedFollows(w) /\ v = w /\ x \in xs =>
                   regen'[v][x] = [Still EXCEPT !.at = "follows"]
  <2>1. CASE RemoveBlockRelatedFollows(w)
    <3>1. regen' = Started(xs, w)
      BY <2>1 DEF RemoveBlockRelatedFollows, Blocked
    <3> HIDE DEF xs
    <3> QED
      BY <1>1, <3>1, StartedType
  <2>2. CASE FailBlock(w) /\ ~RemoveBlockRelatedFollows(w)
    BY <2>2 DEF FailBlock
  <2> QED
    BY <2>1, <2>2
<1>5. \A x \in Viewers \cap xs : x \in lost' \/ Regenerating(x)'
  <2>1. CASE RemoveBlockRelatedFollows(w)
    BY <1>4, <2>1, FollowsIsNotStill DEF Regenerating
  <2>2. CASE FailBlock(w)
    BY <2>2 DEF FailBlock
  <2> QED
    BY <2>1, <2>2
<1>6. ASSUME NEW v \in Workers, NEW x \in Viewers
      PROVE  RegenHides(v, x)'
  <2>1. CASE regen'[v][x] = regen[v][x]
    BY <1>2, <2>1, RegenKept
  <2>2. CASE regen'[v][x].statuses = {}
    BY <2>2, RegenEmpty
  <2> QED
    BY <1>4, <2>1, <2>2, FollowsIsNotStill
<1>7. ASSUME NEW x \in Viewers
      PROVE  HomeHides(x)'
  <2>1. CASE x \in xs
    BY <1>1, <1>2, <1>5, <2>1, HomeKept
  <2>2. CASE x \notin xs
    <3>1. Regenerating(x) => Regenerating(x)'
      BY <1>3, <1>4, <2>2, FollowsIsNotStill DEF Regenerating
    <3> QED
      BY <1>1, <1>2, <3>1, HomeKept
  <2> QED
    BY <2>1, <2>2
<1> QED
  BY <1>6, <1>7 DEF HideInv

LEMMA InsertMuteHides ==
    ASSUME HideInv, StateInv', NEW w \in Workers, NEW a, NEW b, InsertMute(w, a, b)
    PROVE  HideInv'
<1> DEFINE xs == {a}
           rg == Started(xs, w)
<1>1. /\ regen' = Outdated(xs, rg) /\ mutes' = mutes \cup {<<a, b>>}
      /\ UNCHANGED <<note, home, blocks, lost, task>> /\ Ready(w)
      /\ regen \in [Workers -> [Viewers -> Regen]]
  BY DEF InsertMute, InsertAccountRelationship, HideInv, StateInv
<1>2. \A x \in Viewers \ xs : Loosens(x)
  BY <1>1 DEF Loosens
<1>3. ASSUME NEW v \in Workers, NEW x \in Viewers
      PROVE  rg[v][x] = IF v = w /\ x \in xs
                        THEN [Still EXCEPT !.at = "follows"] ELSE regen[v][x]
  BY <1>1, StartedType
<1>4. rg \in [Workers -> [Viewers -> Regen]]
  BY <1>1, StartedType
<1>5. ASSUME NEW v \in Workers, NEW x \in Viewers
      PROVE  regen'[v][x] = IF x \in xs /\ rg[v][x].at = "put"
                            THEN [rg[v][x] EXCEPT !.fresh = FALSE] ELSE rg[v][x]
  <2>1. regen' = Outdated(xs, rg)
    BY <1>1
  <2> HIDE DEF rg, xs
  <2> QED
    BY <1>4, <2>1, OutdatedType
<1> HIDE DEF rg
<1>6. ASSUME NEW v \in Workers, NEW x \in Viewers
      PROVE  /\ \/ regen'[v][x] = regen[v][x] /\ (x \in xs => regen[v][x].at # "put")
                \/ regen'[v][x].statuses = {}
                \/ ~regen'[v][x].fresh /\ regen'[v][x].statuses = regen[v][x].statuses
             /\ v = w /\ x \in xs => regen'[v][x] # Still
             /\ regen[v][x] # Still => regen'[v][x] # Still
  <2>1. CASE v = w /\ x \in xs
    BY <1>3, <1>5, <2>1, FollowsIsNotStill
  <2>2. CASE ~(v = w /\ x \in xs)
    <3>1. rg[v][x] = regen[v][x] /\ regen[v][x] \in Regen
      BY <1>1, <1>3, <2>2
    <3>2. CASE x \in xs /\ regen[v][x].at = "put"
      <4>1. regen'[v][x] = [regen[v][x] EXCEPT !.fresh = FALSE]
        BY <1>5, <3>1, <3>2
      <4>2. ~regen'[v][x].fresh /\ regen'[v][x].statuses = regen[v][x].statuses
            /\ regen'[v][x].at = "put"
        BY <3>1, <3>2, <4>1 DEF Regen
      <4> QED
        BY <2>2, <4>2, FollowsIsNotStill
    <3>3. CASE ~(x \in xs /\ regen[v][x].at = "put")
      BY <1>5, <2>2, <3>1, <3>3
    <3> QED
      BY <3>2, <3>3
  <2> QED
    BY <2>1, <2>2
<1>7. \A x \in Viewers \cap xs : Regenerating(x)'
  BY <1>6 DEF Regenerating
<1>8. \A x \in Viewers : Regenerating(x) => Regenerating(x)'
  BY <1>1, <1>6 DEF Regenerating
<1>9. \A v \in Workers, x \in Viewers :
         \/ regen'[v][x] = regen[v][x] /\ (x \in xs => regen[v][x].at # "put" \/ Loosens(x))
         \/ regen'[v][x].statuses = {}
         \/ ~regen'[v][x].fresh /\ regen'[v][x].statuses = regen[v][x].statuses
  BY <1>6
<1> HIDE DEF xs
<1> QED
  BY <1>1, <1>2, <1>7, <1>8, <1>9, StartHides

LEMMA HideInvNext ==
    ASSUME HideInv, [Next]_vars
    PROVE  HideInv'
<1> StateInv /\ StateInv'
  BY StateInvNext DEF HideInv
<1>1. CASE UNCHANGED vars
  BY <1>1, QuietHides DEF vars, tables, relations, NotesStay
<1>2. ASSUME NEW n \in Notes, Publish(n) \/ CacheNote(n)
      PROVE  HideInv'
  <2>1. NotesStay
    BY <1>2 DEF NotesStay, Publish, CacheNote, StateInv, TableInv
  <2> QED
    BY <1>2, <2>1, QuietHides DEF Publish, CacheNote, relations
<1>3. ASSUME NEW p \in Accounts, NEW n \in Notes, Reblog(p, n) \/ Announce(p, n) \/ Unreblog(p, n)
      PROVE  HideInv'
  BY <1>3, QuietHides DEF Reblog, Announce, Unreblog, CreateReblog, relations, NotesStay
<1>4. ASSUME NEW w \in Workers, NEW x \in Viewers,
             Regenerate(w, x) \/ ReadFollows(w, x) \/ ReadRows(w, x) \/ PutHome(w, x)
             \/ FailRegenerate(w, x)
      PROVE  HideInv'
  <2>1. CASE Regenerate(w, x)
    <3>1. UNCHANGED <<note, blocks, mutes, home, task, lost>> /\ regen' = Started({x}, w)
      BY <2>1 DEF Regenerate, tables, relations
    <3>2. \A y : Loosens(y)
      BY <3>1 DEF Loosens
    <3> QED
      BY <3>1, <3>2, StartedHides
  <2> QED
    BY <1>4, <2>1, StepHides
<1>5. ASSUME NEW p \in FollowPairs, Follow(p[1], p[2]) \/ Unfollow(p[1], p[2])
      PROVE  HideInv'
  BY <1>5, QuietHides DEF Follow, Unfollow, NotesStay
<1>6. ASSUME NEW w \in Workers, NEW p \in BlockPairs,
             InsertBlock(w, p[1], p[2]) \/ DeleteBlock(w, p[1], p[2])
      PROVE  HideInv'
  <2>1. CASE DeleteBlock(w, p[1], p[2])
    <3>1. /\ UNCHANGED <<note, mutes, home, task, lost>> /\ regen' = Started({p[1]}, w)
          /\ blocks' \subseteq blocks
      BY <2>1 DEF DeleteBlock, DeleteAccountRelationship
    <3>2. \A y : Loosens(y)
      BY <3>1 DEF Loosens
    <3> QED
      BY <3>1, <3>2, StartedHides
  <2> QED
    BY <1>6, <2>1, InsertBlockHides
<1>7. ASSUME NEW w \in Workers, RemoveBlockRelatedFollows(w) \/ FailBlock(w)
      PROVE  HideInv'
  BY <1>7, UnfollowHides
<1>8. ASSUME NEW w \in Workers, NEW p \in MutePairs,
             InsertMute(w, p[1], p[2]) \/ DeleteMute(w, p[1], p[2])
      PROVE  HideInv'
  <2>1. CASE DeleteMute(w, p[1], p[2])
    <3>1. /\ UNCHANGED <<note, blocks, home, task, lost>> /\ regen' = Started({p[1]}, w)
          /\ mutes' \subseteq mutes
      BY <2>1 DEF DeleteMute, DeleteAccountRelationship
    <3>2. \A y : Loosens(y)
      BY <3>1 DEF Loosens
    <3> QED
      BY <3>1, <3>2, StartedHides
  <2> QED
    BY <1>8, <2>1, InsertMuteHides
<1>9. ASSUME NEW members, SetList(members)
      PROVE  HideInv'
  BY <1>9, QuietHides DEF SetList, relations, NotesStay
<1> QED
  BY <1>1, <1>2, <1>3, <1>4, <1>5, <1>6, <1>7, <1>8, <1>9 DEF Next, CreateList, DeleteList,
     AddAccountsToList, RemoveAccountFromList

LEMMA HideInvHolds == Spec => []HideInv
<1>1. Init => HideInv
  <2> SUFFICES ASSUME Init
               PROVE  HideInv
    OBVIOUS
  <2>1. StateInv
    BY StateInvInit
  <2>2. \A w \in Workers, x \in Viewers : regen[w][x].statuses = {} /\ home[x] = {}
    BY FollowsIsNotStill DEF Init
  <2> QED
    BY <2>1, <2>2 DEF HideInv, RegenHides, HomeHides, Written, Hides, Init
<1>2. HideInv /\ [Next]_vars => HideInv'
  BY HideInvNext
<1> QED
  BY <1>1, <1>2, PTL DEF Spec

\* At rest, the cached home timeline of a viewer shows nothing that is published by, or stored
\* under, accounts that block the viewer or that the viewer blocks or mutes, unless an older
\* timeline was put over a newer one or the request that should have hidden it died.
THEOREM TimelinesSettledHomeHides == Spec => []SettledHomeHides
<1>1. HideInv => SettledHomeHides
  BY DEF HideInv, HomeHides, Hides, SettledHomeHides, HomeTimeline
<1> QED
  BY <1>1, HideInvHolds, PTL
=============================================================================
