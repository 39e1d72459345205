----------------------------- MODULE ContentProofs -----------------------------
(***************************************************************************)
(* Theorems about Content: whoever edits, uploads, merges accounts and     *)
(* deletes them between the steps of a handler, for any numbers of users,  *)
(* clients, maps, events, pictures and changes. And about Listings, of any *)
(* photos and limits.                                                      *)
(***************************************************************************)
EXTENDS Content, Listings, FiniteSetTheorems, TLAPS

-------------------------------------------------------------------------------
(* The inductive invariants *)

\* A map's editions are in the order of time, and one that was made over another
\* comes after it.
Ordered(edits, time) ==
  \A i \in 1..Len(edits) :
    /\ edits[i].at <= time
    /\ \A j \in i..Len(edits) : edits[i].at <= edits[j].at
    /\ edits[i].base # None => edits[i].base \in 1..(i - 1)

\* A client knows an edition of a map that is there: the ids of deleted maps are
\* not given again.
MapsInv ==
  /\ \A m \in Maps : map[m] # None =>
       /\ m \in mapsMade /\ map[m].owner \in alive
       /\ map[m].edits # <<>> /\ Ordered(map[m].edits, now)
  /\ \A r \in Requests : seen[r] # None =>
       /\ map[seen[r].map] # None
       /\ seen[r].edition \in 1..Len(map[seen[r].map].edits)
  /\ GuardedEditsLoseNothing

\* What a handler checked by its snapshot is still so when it writes, unless the
\* foreign keys refuse the write: a map leaves its owner only with the owner's
\* account, or is gone.
ChecksHold ==
  \A r \in Requests : Doing(r, "post") \/ Doing(r, "patch") =>
    LET m == Work(r).map
    IN m # None => /\ m \in mapsMade
                   /\ map[m] # None /\ Work(r).owner \in alive => map[m].owner = Work(r).owner

\* The row of an event stays under the lock of who patches it.
LockedRowsStay == \A e \in LockedEvents : event[e] # None

LinksInv == MapsInv /\ ChecksHold /\ LockedRowsStay /\ LinkedMapsAreOwners

\* An event has the cover, or a handler writes its files or is about to set it.
Named(n, e) == event[e] # None /\ event[e].cover = n
Stored(n, r) == Doing(r, "set") /\ Work(r).cover = n
Used(n, r) == Stored(n, r) \/ (Doing(r, "store") /\ Work(r).cover = n)
IsNamed(n) == \E e \in Events : Named(n, e)

\* A name that was given has one place: with one upload, with one event, or given
\* up; and its files are there as far as its place says.
HasOnePlace(n) ==
  /\ \A d, e \in Events : Named(n, d) /\ Named(n, e) => d = e
  /\ \A q, r \in Requests : Used(n, q) /\ Used(n, r) => q = r
  /\ \A r \in Requests : Used(n, r) =>
       /\ n \in coversMade /\ n \notin removing /\ n \notin strays /\ ~IsNamed(n)
       /\ Stored(n, r) => files[n] = Sizes
  /\ n \in removing \/ n \in strays \/ IsNamed(n) => n \in coversMade
  /\ n \notin strays /\ IsNamed(n) => files[n] = Sizes /\ n \notin removing
  /\ n \notin strays /\ files[n] # {} =>
       n \in removing \/ IsNamed(n) \/ \E r \in Requests : Used(n, r)

CoversInv ==
  /\ \A e \in Events : event[e] # None => e \in eventsMade
  /\ \A n \in Covers : HasOnePlace(n)

\* A picture's ID has one place too: with its upload, with its row, or with who
\* unlinks it.
Uploads(p, r) == Doing(r, "upload") /\ Work(r).picture = p
Unlinks(p, r) == Doing(r, "unlink") /\ p \in Work(r).pictures
HasItsFile(p) ==
  /\ picture[p] # None => p \in picturesMade \cap pictureFiles
  /\ \A q, r \in Requests : Uploads(p, q) /\ Uploads(p, r) => q = r
  /\ \A r \in Requests : Uploads(p, r) \/ Unlinks(p, r) =>
       p \in picturesMade /\ picture[p] = None
  /\ \A r \in Requests : Uploads(p, r) =>
       p \in pictureFiles /\ \A q \in Requests : ~Unlinks(p, q)

PicturesInv == \A p \in Pictures : HasItsFile(p)

\* The log of a picture that has the licence, by `time`.
IsTraced(log, licence, time) ==
  /\ log # <<>> /\ log[Len(log)].licence = licence
  /\ \A i \in 1..Len(log) : log[i].at <= time
  /\ \A i \in 2..Len(log) : log[i].licence # log[i - 1].licence /\ log[i].at >= log[i - 1].at

LogFits(p) == picture[p] # None => IsTraced(licenceLog[p], picture[p].licence, now)

\* Who sets the licence of all holds the owner's lock alone, and what was read to
\* be changed is still what differs.
SetsAll(r) == Doing(r, "licences")
Differing(u, licence) == {p \in PicturesOf(u) : picture[p].licence # licence}
LocksHold ==
  /\ \A r \in Requests : SetsAll(r) =>
       Work(r).pictures = Differing(Caller(r), Work(r).licence)
  /\ \A q, r \in Requests : SetsAll(q) /\ SetsAll(r) /\ Caller(q) = Caller(r) => q = r

LicencesInv ==
  /\ \A p \in Pictures : LogFits(p)
  /\ \A r \in Requests : Doing(r, "upload") => Work(r).createdAt <= now
  /\ LocksHold

\* An account that is there was merged nowhere.
AliasesLead == \A u \in alive : userAlias[u] = None

-------------------------------------------------------------------------------
(* Requests *)

Row == RequestRow(WorkRow)

\* Whoever is at some kind of work was at that work before.
Fades(kind) ==
  \A q \in Requests : Doing(q, kind)' => Doing(q, kind) /\ request'[q] = request[q]

\* What a request does has the fields of its kind.
LEMMA Works ==
  ASSUME TypeOK, NEW r \in Requests, NEW kind, Doing(r, kind)
  PROVE  /\ Caller(r) \in Users /\ Work(r) \in WorkRow /\ Work(r).kind = kind
         /\ request[r] \in Row
         /\ kind = "writers" => Work(r).map \in Maps /\ Work(r).writers \subseteq Users
         /\ kind = "post" => /\ Work(r).owner \in Users /\ Work(r).map \in Maps \cup {None}
                             /\ Work(r).key \in Keys \cup {None}
         /\ kind = "patch" => /\ Work(r).event \in Events /\ Work(r).owner \in Users
                              /\ Work(r).map \in Maps \cup {None}
         /\ kind = "store" => /\ Work(r).event \in Events /\ Work(r).cover \in Covers
                              /\ Work(r) \in [kind: {"store"}, event: Events, cover: Covers]
                              /\ [Work(r) EXCEPT !.kind = "store"] \in WorkRow
                              /\ [Work(r) EXCEPT !.kind = "set"] \in WorkRow
         /\ kind = "set" => Work(r).event \in Events /\ Work(r).cover \in Covers \cup {None}
         /\ kind = "upload" => /\ Work(r).picture \in Pictures /\ Work(r).licence \in Licences
                               /\ Work(r).premium \in BOOLEAN /\ Work(r).createdAt \in 0..MaxTime
         /\ kind = "licences" => Work(r).licence \in Licences /\ Work(r).pictures \subseteq Pictures
         /\ kind = "unlink" => Work(r).pictures \subseteq Pictures
<1>1. request[r] \in Row /\ Work(r) # None /\ Work(r).kind = kind
  BY DEF TypeOK, Doing, Row, WorkRow, Work
<1>2. Caller(r) \in Users /\ Work(r) \in WorkRow
  BY <1>1 DEF Row, RequestRow, Caller, Work
<1> QED BY <1>1, <1>2 DEF WorkRow, MapWork, EventWork, GalleryWork

LEMMA Begun ==
  ASSUME TypeOK, NEW r \in Requests, Begins(r)
  PROVE  request[r] \in Row /\ Caller(r) \in Users
BY DEF TypeOK, Begins, Row, WorkRow, RequestRow, Caller

LEMMA AnswersFade ==
  ASSUME TypeOK, NEW r \in Requests, Answered(r)
  PROVE  /\ request' \in [Requests -> Row \cup {None}]
         /\ UNCHANGED <<now, alive, userAlias>>
         /\ \A q \in Requests : q # r => request'[q] = request[q]
         /\ request'[r] = None
BY DEF TypeOK, Answered, Row, WorkRow

LEMMA WorksGoOn ==
  ASSUME TypeOK, NEW r \in Requests, request[r] \in Row, NEW w \in WorkRow, GoesOn(r, w)
  PROVE  /\ request' \in [Requests -> Row \cup {None}]
         /\ UNCHANGED <<now, alive, userAlias>>
         /\ \A q \in Requests : q # r => request'[q] = request[q]
         /\ request'[r] = [user |-> Caller(r), doing |-> w]
BY DEF TypeOK, GoesOn, Row, WorkRow, RequestRow, Caller

-------------------------------------------------------------------------------
(* Types *)

\* An answer, or the next piece of work, keeps the types of the accounts.
OwnersTyped ==
  /\ now \in 0..MaxTime /\ alive \subseteq Users
  /\ userAlias \in [Users -> Users \cup {None}]
  /\ request \in [Requests -> Row \cup {None}]

MapsTyped ==
  /\ map \in [Maps -> MapRow \cup {None}]
  /\ writers \in [Maps -> SUBSET Users] /\ mapsMade \subseteq Maps
  /\ seen \in [Requests -> SeenRow \cup {None}]

EventsTyped ==
  /\ event \in [Events -> EventRow \cup {None}]
  /\ eventsMade \subseteq Events /\ takesPart \in [Events -> SUBSET Users]
  /\ files \in [Covers -> SUBSET Sizes]
  /\ removing \subseteq Covers /\ coversMade \subseteq Covers /\ strays \subseteq Covers

GalleryTyped ==
  /\ picture \in [Pictures -> PictureRow \cup {None}]
  /\ picturesMade \subseteq Pictures /\ pictureFiles \subseteq Pictures
  /\ licenceLog \in [Pictures -> Seq(LicenceRow)]
  /\ comments \in [Photos -> SUBSET Users] /\ ratings \in [Photos -> SUBSET Users]

LEMMA TypesAre == TypeOK <=> OwnersTyped /\ MapsTyped /\ EventsTyped /\ GalleryTyped
BY DEF TypeOK, OwnersTyped, MapsTyped, EventsTyped, GalleryTyped, Row, WorkRow

LEMMA TypesFollow == OwnersTyped' /\ MapsTyped' /\ EventsTyped' /\ GalleryTyped' => TypeOK'
BY DEF TypeOK, OwnersTyped, MapsTyped, EventsTyped, GalleryTyped, Row, WorkRow

LEMMA KeptTypes ==
  /\ OwnersTyped /\ UNCHANGED ownersVars => OwnersTyped'
  /\ MapsTyped /\ UNCHANGED mapsVars => MapsTyped'
  /\ EventsTyped /\ UNCHANGED eventsVars => EventsTyped'
  /\ GalleryTyped /\ UNCHANGED galleryVars => GalleryTyped'
BY DEF OwnersTyped, MapsTyped, EventsTyped, GalleryTyped,
       ownersVars, mapsVars, eventsVars, galleryVars

LEMMA AnsweredTyped ==
  ASSUME TypeOK, NEW r \in Requests, Answered(r)
  PROVE  OwnersTyped'
BY AnswersFade DEF TypeOK, OwnersTyped

LEMMA GoesOnTyped ==
  ASSUME TypeOK, NEW r \in Requests, request[r] \in Row, NEW w \in WorkRow, GoesOn(r, w)
  PROVE  OwnersTyped'
BY WorksGoOn DEF TypeOK, OwnersTyped

LEMMA EditionTyped ==
  ASSUME TypeOK, NEW base \in Nat \cup {None}
  PROVE  Edition(base) \in EditRow
BY DEF TypeOK, Edition, EditRow

LEMMA MapsTypedNext ==
  ASSUME TypeOK, NEW r \in Requests,
         MapStep(r) \/ \E m \in Maps : DeleteMap(r, m)
  PROVE  OwnersTyped' /\ MapsTyped'
<1>1. MapsTyped
  BY TypesAre
<1>2. ASSUME NEW m \in Maps, NEW ws \in SUBSET Users, PostMap(r, m, ws)
      PROVE  OwnersTyped' /\ MapsTyped'
  <2>1. request[r] \in Row /\ Caller(r) \in Users
    BY <1>2, Begun DEF PostMap
  <2>2. OwnersTyped'
    <3>1. CASE ws = {}
      BY <3>1, <1>2, AnsweredTyped DEF PostMap
    <3>2. CASE ws # {}
      <4>1. [kind |-> "writers", map |-> m, writers |-> ws] \in WorkRow
        BY DEF WorkRow, MapWork
      <4> QED BY <3>2, <4>1, <2>1, <1>2, GoesOnTyped DEF PostMap
    <3> QED BY <3>1, <3>2
  <2>3. [owner |-> Caller(r), edits |-> <<Edition(None)>>] \in MapRow
    <3>1. Edition(None) \in EditRow
      BY EditionTyped
    <3>2. <<Edition(None)>> \in Seq(EditRow)
      BY <3>1
    <3> QED BY <2>1, <3>2 DEF MapRow
  <2>4. [map |-> m, edition |-> 1] \in SeenRow
    BY DEF SeenRow
  <2> QED BY <1>1, <1>2, <2>2, <2>3, <2>4 DEF PostMap, MapsTyped
<1>3. ASSUME PostWriters(r)
      PROVE  OwnersTyped' /\ MapsTyped'
  <2>1. OwnersTyped'
    BY <1>3, AnsweredTyped DEF PostWriters
  <2>2. Work(r).map \in Maps /\ Work(r).writers \subseteq Users
    BY <1>3, Works DEF PostWriters
  <2> QED BY <1>1, <1>3, <2>1, <2>2 DEF PostWriters, MapsTyped
<1>4. ASSUME NEW m \in Maps, GetMap(r, m)
      PROVE  OwnersTyped' /\ MapsTyped'
  <2>1. OwnersTyped'
    BY <1>4, AnsweredTyped DEF GetMap
  <2>2. [map |-> m, edition |-> Len(map[m].edits)] \in SeenRow
    BY <1>1, <1>4 DEF GetMap, MapsTyped, MapRow, SeenRow
  <2> QED BY <1>1, <1>4, <2>1, <2>2 DEF GetMap, MapsTyped
<1>5. ASSUME NEW m \in Maps, NEW guarded \in BOOLEAN, NEW renames \in BOOLEAN,
             NEW ws \in (SUBSET Users) \cup {None}, PatchMap(r, m, guarded, renames, ws)
      PROVE  OwnersTyped' /\ MapsTyped'
  <2>1. OwnersTyped'
    BY <1>5, AnsweredTyped DEF PatchMap
  <2> DEFINE base == IF guarded THEN seen[r].edition ELSE None
  <2>2. base \in Nat \cup {None}
    BY <1>1, <1>5 DEF PatchMap, Unmodified, MapsTyped, SeenRow
  <2>3. Edition(base) \in EditRow
    BY <2>2, EditionTyped
  <2>4. map[m] \in MapRow
    BY <1>1, <1>5 DEF PatchMap, MapsTyped
  <2>5. [map[m] EXCEPT !.edits = Append(@, Edition(base))] \in MapRow
    BY <2>3, <2>4 DEF MapRow
  <2>6. map' \in [Maps -> MapRow \cup {None}]
    BY <1>1, <1>5, <2>5 DEF PatchMap, MapsTyped
  <2>7. [map |-> m, edition |-> Len(map[m].edits) + 1] \in SeenRow
    BY <2>4 DEF MapRow, SeenRow
  <2>8. writers' \in [Maps -> SUBSET Users]
    BY <1>1, <1>5 DEF PatchMap, MapsTyped
  <2> QED BY <1>1, <1>5, <2>1, <2>6, <2>7, <2>8 DEF PatchMap, MapsTyped
<1>6. ASSUME NEW m \in Maps, DeleteMap(r, m)
      PROVE  OwnersTyped' /\ MapsTyped'
  <2>1. OwnersTyped'
    BY <1>6, AnsweredTyped DEF DeleteMap
  <2> QED BY <1>1, <1>6, <2>1 DEF DeleteMap, MapsTyped
<1> QED BY <1>2, <1>3, <1>4, <1>5, <1>6 DEF MapStep

LEMMA CoversAre ==
  ASSUME EventsTyped, NEW es \in SUBSET Events
  PROVE  CoversOf(es) \subseteq Covers
BY DEF EventsTyped, EventRow, CoversOf

LEMMA EventsTypedNext ==
  ASSUME TypeOK, LockedRowsStay, NEW r \in Requests, EventStep(r)
  PROVE  OwnersTyped' /\ EventsTyped'
<1>1. EventsTyped
  BY TypesAre
<1>2. ASSUME NEW u \in Users, NEW m \in Maps \cup {None}, NEW k \in Keys \cup {None},
             OpenPost(r, u, m, k)
      PROVE  OwnersTyped' /\ EventsTyped'
  <2>1. [kind |-> "post", owner |-> u, map |-> m, key |-> k] \in WorkRow
    BY DEF WorkRow, EventWork
  <2>2. OwnersTyped'
    BY <1>2, <2>1, Begun, GoesOnTyped DEF OpenPost
  <2> QED BY <1>1, <1>2, <2>2, KeptTypes DEF OpenPost
<1>3. ASSUME NEW e \in Events, WritePost(r, e)
      PROVE  OwnersTyped' /\ EventsTyped'
  <2>1. OwnersTyped'
    BY <1>3, AnsweredTyped DEF WritePost
  <2>2. [owner |-> Work(r).owner, map |-> Work(r).map, key |-> Work(r).key, cover |-> None]
          \in EventRow
    BY <1>3, Works DEF WritePost, EventRow
  <2> QED BY <1>1, <1>3, <2>1, <2>2 DEF WritePost, EventsTyped
<1>4. ASSUME NEW e \in Events, NEW u \in Users, NEW m \in Maps \cup {None}, OpenPatch(r, e, u, m)
      PROVE  OwnersTyped' /\ EventsTyped'
  <2>1. [kind |-> "patch", event |-> e, owner |-> u, map |-> m] \in WorkRow
    BY DEF WorkRow, EventWork
  <2>2. OwnersTyped'
    BY <1>4, <2>1, Begun, GoesOnTyped DEF OpenPatch
  <2> QED BY <1>1, <1>4, <2>2, KeptTypes DEF OpenPatch
<1>5. ASSUME WritePatch(r)
      PROVE  OwnersTyped' /\ EventsTyped'
  <2>1. OwnersTyped'
    BY <1>5, AnsweredTyped DEF WritePatch
  <2> DEFINE e == Work(r).event
  <2>2. /\ e \in Events /\ Work(r).owner \in Users /\ Work(r).map \in Maps \cup {None}
        /\ event[e] # None
    BY <1>5, Works DEF WritePatch, LockedRowsStay, LockedEvents
  <2>3. [event[e] EXCEPT !.owner = Work(r).owner, !.map = Work(r).map] \in EventRow
    BY <1>1, <2>2 DEF EventsTyped, EventRow
  <2> QED BY <1>1, <1>5, <2>1, <2>2, <2>3 DEF WritePatch, EventsTyped
<1>6. ASSUME NEW e \in Events, DeleteEvent(r, e)
      PROVE  OwnersTyped' /\ EventsTyped'
  <2>1. OwnersTyped'
    BY <1>6, AnsweredTyped DEF DeleteEvent
  <2>2. CoversOf({e}) \subseteq Covers
    BY <1>1, CoversAre
  <2> QED BY <1>1, <1>6, <2>1, <2>2 DEF DeleteEvent, EventsTyped
<1>7. ASSUME NEW e \in Events, NEW takes \in BOOLEAN, SetParticipation(r, e, takes)
      PROVE  OwnersTyped' /\ EventsTyped'
  <2>1. OwnersTyped' /\ Caller(r) \in Users
    BY <1>7, AnsweredTyped, Begun DEF SetParticipation
  <2> QED BY <1>1, <1>7, <2>1 DEF SetParticipation, EventsTyped
<1>8. ASSUME NEW e \in Events, NEW n \in Covers, StartCover(r, e, n)
      PROVE  OwnersTyped' /\ EventsTyped'
  <2>1. [kind |-> "store", event |-> e, cover |-> n] \in WorkRow
    BY DEF WorkRow, EventWork
  <2>2. OwnersTyped'
    BY <1>8, <2>1, Begun, GoesOnTyped DEF StartCover
  <2> QED BY <1>1, <1>8, <2>2 DEF StartCover, EventsTyped
<1>9. ASSUME StoreVariant(r)
      PROVE  OwnersTyped' /\ EventsTyped'
  <2> DEFINE n == Work(r).cover
             kind == IF files'[n] = Sizes THEN "set" ELSE "store"
  <2>1. n \in Covers /\ request[r] \in Row
    BY <1>9, Works DEF StoreVariant
  <2>2. [Work(r) EXCEPT !.kind = kind] \in WorkRow
    BY <1>9, Works DEF StoreVariant
  <2>3. GoesOn(r, [Work(r) EXCEPT !.kind = kind])
    BY <1>9 DEF StoreVariant
  <2>4. OwnersTyped'
    <3> HIDE DEF kind
    <3> QED BY <2>1, <2>2, <2>3, GoesOnTyped
  <2>5. files' = [files EXCEPT ![n] = IF @ = {} THEN {"large"} ELSE Sizes]
    BY <1>9 DEF StoreVariant
  <2>6. files' \in [Covers -> SUBSET Sizes]
    BY <1>1, <2>5 DEF EventsTyped, Sizes
  <2> QED BY <1>1, <1>9, <2>4, <2>6 DEF StoreVariant, EventsTyped
<1>10. ASSUME StoreFails(r)
       PROVE  OwnersTyped' /\ EventsTyped'
  <2>1. OwnersTyped' /\ Leftover(r) \subseteq Covers
    BY <1>10, AnsweredTyped, Works DEF StoreFails, Leftover
  <2> QED BY <1>1, <1>10, <2>1 DEF StoreFails, EventsTyped
<1>11. ASSUME NEW e \in Events, StartNoCover(r, e)
       PROVE  OwnersTyped' /\ EventsTyped'
  <2>1. [kind |-> "set", event |-> e, cover |-> None] \in WorkRow
    BY DEF WorkRow, EventWork
  <2>2. OwnersTyped'
    BY <1>11, <2>1, Begun, GoesOnTyped DEF StartNoCover
  <2> QED BY <1>1, <1>11, <2>2, KeptTypes DEF StartNoCover
<1>12. ASSUME SetCover(r) \/ SetCoverUnanswered(r)
       PROVE  OwnersTyped' /\ EventsTyped'
  <2> DEFINE e == Work(r).event
  <2>1. /\ OwnersTyped' /\ Leftover(r) \subseteq Covers
        /\ e \in Events /\ Work(r).cover \in Covers \cup {None}
    <3>1. Doing(r, "set") /\ Answered(r)
      BY <1>12 DEF SetCover, SetCoverUnanswered
    <3>2. e \in Events /\ Work(r).cover \in Covers \cup {None}
      BY <3>1, Works
    <3> QED BY <3>1, <3>2, AnsweredTyped DEF Leftover
  <2>2. CoversOf({e}) \subseteq Covers
    BY <1>1, <2>1, CoversAre
  <2>3. event[e] # None => [event[e] EXCEPT !.cover = Work(r).cover] \in EventRow
    BY <1>1, <2>1 DEF EventsTyped, EventRow
  <2>4. event' \in [Events -> EventRow \cup {None}]
    BY <1>1, <1>12, <2>1, <2>3 DEF SetCover, SetCoverUnanswered, EventsTyped
  <2> QED BY <1>1, <1>12, <2>1, <2>2, <2>4 DEF SetCover, SetCoverUnanswered, EventsTyped
<1> QED
  BY <1>2, <1>3, <1>4, <1>5, <1>6, <1>7, <1>8, <1>9, <1>10, <1>11, <1>12 DEF EventStep

LEMMA LogTyped ==
  ASSUME TypeOK, NEW licence \in Licences
  PROVE  LogEntry(licence) \in LicenceRow
BY DEF TypeOK, LogEntry, LicenceRow

LEMMA GalleryTypedNext ==
  ASSUME TypeOK, NEW r \in Requests, GalleryStep(r)
  PROVE  OwnersTyped' /\ GalleryTyped'
<1>1. GalleryTyped
  BY TypesAre
<1>2. ASSUME NEW p \in Pictures, NEW l \in Licences, NEW premium \in BOOLEAN,
             Upload(r, p, l, premium)
      PROVE  OwnersTyped' /\ GalleryTyped'
  <2>1. [kind |-> "upload", picture |-> p, licence |-> l, premium |-> premium, createdAt |-> now]
          \in WorkRow
    BY DEF TypeOK, WorkRow, GalleryWork
  <2>2. OwnersTyped'
    BY <1>2, <2>1, Begun, GoesOnTyped DEF Upload
  <2> QED BY <1>1, <1>2, <2>2 DEF Upload, GalleryTyped
<1>3. ASSUME InsertPicture(r)
      PROVE  OwnersTyped' /\ GalleryTyped'
  <2> DEFINE p == Work(r).picture
             row == [owner |-> Caller(r), licence |-> Work(r).licence, premium |-> Work(r).premium]
             entry == [licence |-> Work(r).licence, at |-> Work(r).createdAt]
  <2>1. OwnersTyped' /\ p \in Pictures
    BY <1>3, AnsweredTyped, Works DEF InsertPicture
  <2>2. row \in PictureRow
    BY <1>3, Works DEF InsertPicture, PictureRow
  <2>3. entry \in LicenceRow
    BY <1>3, Works DEF InsertPicture, LicenceRow
  <2>4. <<entry>> \in Seq(LicenceRow)
    BY <2>3
  <2>5. /\ picture' \in {picture, [picture EXCEPT ![p] = row]}
        /\ licenceLog' \in {licenceLog, [licenceLog EXCEPT ![p] = <<entry>>]}
    BY <1>3 DEF InsertPicture
  <2> HIDE DEF row, entry
  <2>6. picture' \in [Pictures -> PictureRow \cup {None}]
    BY <1>1, <2>2, <2>5 DEF GalleryTyped
  <2>7. licenceLog' \in [Pictures -> Seq(LicenceRow)]
    BY <1>1, <2>4, <2>5 DEF GalleryTyped
  <2> QED BY <1>1, <1>3, <2>1, <2>6, <2>7 DEF InsertPicture, GalleryTyped
<1>4. ASSUME NEW p \in Pictures, NEW l \in Licences \cup {None},
             NEW premium \in BOOLEAN \cup {None}, PutPicture(r, p, l, premium)
      PROVE  OwnersTyped' /\ GalleryTyped'
  <2>1. OwnersTyped' /\ picture[p] \in PictureRow
    BY <1>1, <1>4, AnsweredTyped DEF PutPicture, GalleryTyped
  <2>2. picture' \in [Pictures -> PictureRow \cup {None}]
    BY <1>1, <1>4, <2>1 DEF PutPicture, GalleryTyped, PictureRow
  <2>3. l # None => Append(licenceLog[p], LogEntry(l)) \in Seq(LicenceRow)
    BY <1>1, LogTyped DEF GalleryTyped
  <2>4. licenceLog' \in {licenceLog, [licenceLog EXCEPT ![p] = Append(@, LogEntry(l))]}
        /\ (l = None => licenceLog' = licenceLog)
    BY <1>4 DEF PutPicture
  <2>5. licenceLog' \in [Pictures -> Seq(LicenceRow)]
    BY <1>1, <2>3, <2>4 DEF GalleryTyped
  <2> QED BY <1>1, <1>4, <2>1, <2>2, <2>5 DEF PutPicture, GalleryTyped
<1>5. ASSUME NEW l \in Licences, OpenSetAll(r, l)
      PROVE  OwnersTyped' /\ GalleryTyped'
  <2> DEFINE changed == {p \in PicturesOf(Caller(r)) : picture[p].licence # l}
  <2>1. [kind |-> "licences", licence |-> l, pictures |-> changed] \in WorkRow
    BY DEF WorkRow, GalleryWork, PicturesOf
  <2>2. CASE Answered(r)
    BY <1>1, <1>5, <2>2, AnsweredTyped, KeptTypes DEF OpenSetAll
  <2>3. CASE GoesOn(r, [kind |-> "licences", licence |-> l, pictures |-> changed])
    BY <1>1, <1>5, <2>1, <2>3, Begun, GoesOnTyped, KeptTypes DEF OpenSetAll
  <2> QED BY <1>5, <2>2, <2>3 DEF OpenSetAll
<1>6. ASSUME WriteSetAll(r)
      PROVE  OwnersTyped' /\ GalleryTyped'
  <2>1. OwnersTyped' /\ Work(r).licence \in Licences
    BY <1>6, AnsweredTyped, Works DEF WriteSetAll
  <2>2. \A p \in PicturesOf(Caller(r)) :
          [picture[p] EXCEPT !.licence = Work(r).licence] \in PictureRow
    BY <1>1, <2>1 DEF GalleryTyped, PicturesOf, PictureRow
  <2>3. picture' \in [Pictures -> PictureRow \cup {None}]
    BY <1>1, <1>6, <2>2 DEF WriteSetAll, GalleryTyped
  <2>4. \A p \in Pictures : Append(licenceLog[p], LogEntry(Work(r).licence)) \in Seq(LicenceRow)
    BY <1>1, <2>1, LogTyped DEF GalleryTyped
  <2>5. licenceLog' \in [Pictures -> Seq(LicenceRow)]
    BY <1>1, <1>6, <2>4 DEF WriteSetAll, GalleryTyped
  <2> QED BY <1>1, <1>6, <2>1, <2>3, <2>5 DEF WriteSetAll, GalleryTyped
<1>7. ASSUME NEW premium \in BOOLEAN, SetAllPremium(r, premium)
      PROVE  OwnersTyped' /\ GalleryTyped'
  <2>1. OwnersTyped'
    BY <1>7, AnsweredTyped DEF SetAllPremium
  <2>2. \A p \in PicturesOf(Caller(r)) : [picture[p] EXCEPT !.premium = premium] \in PictureRow
    BY <1>1 DEF GalleryTyped, PicturesOf, PictureRow
  <2>3. picture' \in [Pictures -> PictureRow \cup {None}]
    BY <1>1, <1>7, <2>2 DEF SetAllPremium, GalleryTyped
  <2> QED BY <1>1, <1>7, <2>1, <2>3 DEF SetAllPremium, GalleryTyped
<1>8. ASSUME NEW p \in Pictures, DeletePicture(r, p)
      PROVE  OwnersTyped' /\ GalleryTyped'
  <2>1. [kind |-> "unlink", pictures |-> {p}] \in WorkRow
    BY DEF WorkRow, GalleryWork
  <2>2. OwnersTyped'
    BY <1>8, <2>1, Begun, GoesOnTyped DEF DeletePicture
  <2>3. <<>> \in Seq(LicenceRow)
    OBVIOUS
  <2> QED BY <1>1, <1>8, <2>2, <2>3 DEF DeletePicture, GalleryTyped, Photos
<1>9. ASSUME Unlink(r)
      PROVE  OwnersTyped' /\ GalleryTyped'
  <2>1. OwnersTyped'
    BY <1>9, AnsweredTyped DEF Unlink
  <2> QED BY <1>1, <1>9, <2>1 DEF Unlink, GalleryTyped
<1>10. ASSUME NEW x \in Photos, Comment(r, x) \/ Rate(r, x)
       PROVE  OwnersTyped' /\ GalleryTyped'
  <2>1. OwnersTyped' /\ Caller(r) \in Users
    BY <1>10, AnsweredTyped, Begun DEF Comment, Rate
  <2>2. \A users \in SUBSET Users : WithCaller(users, r) \in SUBSET Users
    BY <2>1 DEF WithCaller
  <2>3. CASE Comment(r, x)
    BY <1>1, <2>1, <2>2, <2>3 DEF Comment, GalleryTyped
  <2>4. CASE Rate(r, x)
    BY <1>1, <2>1, <2>2, <2>4 DEF Rate, GalleryTyped
  <2> QED BY <1>10, <2>3, <2>4
<1> QED BY <1>2, <1>3, <1>4, <1>5, <1>6, <1>7, <1>8, <1>9, <1>10 DEF GalleryStep

-------------------------------------------------------------------------------
(* Types beside merges and deletions *)

LEMMA RepointedRows ==
  ASSUME NEW S, NEW T, NEW table \in [S -> T \cup {None}],
         NEW source, NEW target,
         \A row \in T : [row EXCEPT !.owner = target] \in T
  PROVE  /\ Repointed(table, source, target) \in [S -> T \cup {None}]
         /\ WithoutOwner(table, source) \in [S -> T \cup {None}]
BY DEF Repointed, WithoutOwner

LEMMA MergeTyped ==
  ASSUME TypeOK, NEW source \in Users, NEW target \in Users, MergeAccounts(source, target)
  PROVE  TypeOK'
<1> USE DEF MergeAccounts
<1>1. OwnersTyped'
  BY DEF MergeOwners, TypeOK, OwnersTyped, Row, WorkRow
<1>2. MapsTyped'
  <2>1. \A row \in MapRow : [row EXCEPT !.owner = target] \in MapRow
    BY DEF MapRow
  <2>2. map' \in [Maps -> MapRow \cup {None}]
    BY <2>1, RepointedRows DEF MergeMaps, TypeOK
  <2> QED BY <2>2 DEF MergeMaps, MergedWriters, Renamed, TypeOK, MapsTyped
<1>3. EventsTyped'
  <2>1. \A row \in EventRow : [row EXCEPT !.owner = target] \in EventRow
    BY DEF EventRow
  <2>2. event' \in [Events -> EventRow \cup {None}]
    BY <2>1, RepointedRows DEF MergeEvents, TypeOK
  <2> QED BY <2>2 DEF MergeEvents, Renamed, TypeOK, EventsTyped
<1>4. GalleryTyped'
  <2>1. \A row \in PictureRow : [row EXCEPT !.owner = target] \in PictureRow
    BY DEF PictureRow
  <2>2. picture' \in [Pictures -> PictureRow \cup {None}]
    BY <2>1, RepointedRows DEF MergeGallery, TypeOK
  <2> QED BY <2>2 DEF MergeGallery, WithMoved, Renamed, TypeOK, GalleryTyped, Photos
<1> QED BY <1>1, <1>2, <1>3, <1>4, TypesFollow

LEMMA DeleteTyped ==
  ASSUME TypeOK, NEW u \in Users, DeleteAccount(u)
  PROVE  TypeOK'
<1> USE DEF DeleteAccount
<1>1. OwnersTyped'
  BY DEF DeleteOwner, TypeOK, OwnersTyped, Row, WorkRow
<1>2. MapsTyped'
  <2>1. map' \in [Maps -> MapRow \cup {None}]
    BY DEF DeleteMapsOf, WithoutOwner, TypeOK
  <2> QED BY <2>1 DEF DeleteMapsOf, TypeOK, MapsTyped
<1>3. EventsTyped'
  <2> DEFINE kept == WithoutOwner(event, u)
  <2>1. kept \in [Events -> EventRow \cup {None}]
    BY DEF WithoutOwner, TypeOK
  <2>2. \A row \in EventRow : [row EXCEPT !.map = None] \in EventRow
    BY DEF EventRow
  <2>3. event' \in [Events -> EventRow \cup {None}]
    BY <2>1, <2>2 DEF DeleteEventsOf
  <2>4. CoversOf(OwnedEvents(u)) \subseteq Covers
    BY CoversAre, TypesAre DEF OwnedEvents
  <2> QED BY <2>3, <2>4 DEF DeleteEventsOf, TypeOK, EventsTyped
<1>4. GalleryTyped'
  <2>1. picture' \in [Pictures -> PictureRow \cup {None}]
    BY DEF DeleteGalleryOf, WithoutOwner, TypeOK
  <2>2. licenceLog' \in [Pictures -> Seq(LicenceRow)]
    BY DEF DeleteGalleryOf, TypeOK
  <2> QED BY <2>1, <2>2 DEF DeleteGalleryOf, TypeOK, GalleryTyped, Photos
<1> QED BY <1>1, <1>2, <1>3, <1>4, TypesFollow

\* A map's foreign keys wait for the locks on the events that are linked to it.
LEMMA UnlinkTyped ==
  ASSUME EventsTyped, NEW gone, UnlinkMaps(gone)
  PROVE  EventsTyped'
<1>1. \A row \in EventRow : [row EXCEPT !.map = None] \in EventRow
  BY DEF EventRow
<1>2. event' \in [Events -> EventRow \cup {None}]
  BY <1>1 DEF UnlinkMaps, EventsTyped
<1> QED BY <1>2 DEF UnlinkMaps, EventsTyped

LEMMA TypedNext ==
  ASSUME TypeOK, LockedRowsStay, [Next]_vars
  PROVE  TypeOK'
<1>1. OwnersTyped /\ MapsTyped /\ EventsTyped /\ GalleryTyped
  BY TypesAre
<1>2. CASE MapsNext
  <2>1. ASSUME NEW r \in Requests, MapStep(r), UNCHANGED <<eventsVars, galleryVars>>
        PROVE  TypeOK'
    BY <1>1, <2>1, MapsTypedNext, KeptTypes, TypesFollow
  <2>2. ASSUME NEW r \in Requests, NEW m \in Maps, DropMap(r, m)
        PROVE  TypeOK'
    BY <1>1, <2>2, MapsTypedNext, UnlinkTyped, KeptTypes, TypesFollow DEF DropMap
  <2> QED BY <1>2, <2>1, <2>2 DEF MapsNext
<1>3. CASE EventsNext
  <2>1. ASSUME NEW r \in Requests, EventStep(r), UNCHANGED <<mapsVars, galleryVars>>
        PROVE  TypeOK'
    BY <1>1, <2>1, EventsTypedNext, KeptTypes, TypesFollow
  <2>2. ASSUME NEW n \in Covers, RemoveCover(n), UNCHANGED <<mapsVars, galleryVars>>
        PROVE  TypeOK'
    <3>1. EventsTyped' /\ UNCHANGED ownersVars
      BY <1>1, <2>2 DEF RemoveCover, EventsTyped
    <3> QED BY <1>1, <2>2, <3>1, KeptTypes, TypesFollow
  <2> QED BY <1>3, <2>1, <2>2 DEF EventsNext
<1>4. CASE GalleryNext
  BY <1>1, <1>4, GalleryTypedNext, KeptTypes, TypesFollow DEF GalleryNext
<1>5. CASE SharedNext
  <2>1. ASSUME NEW r \in Requests, Arrival(r)
        PROVE  TypeOK'
    <3>1. UNCHANGED <<mapsVars, eventsVars, galleryVars>>
      BY <2>1 DEF Arrival, Refused
    <3>2. ASSUME NEW u \in Users, Authenticate(r, u)
          PROVE  OwnersTyped'
      <4>1. [user |-> u, doing |-> None] \in Row
        BY DEF Row, RequestRow
      <4> QED BY <1>1, <3>2, <4>1 DEF Authenticate, OwnersTyped
    <3>3. OwnersTyped'
      BY <2>1, <3>2, AnsweredTyped DEF Arrival, Refused
    <3> QED BY <1>1, <3>1, <3>3, KeptTypes, TypesFollow
  <2>2. CASE AccountStep
    BY <2>2, MergeTyped, DeleteTyped DEF AccountStep
  <2>3. CASE Restart
    <3>1. OwnersTyped'
      BY <1>1, <2>3 DEF Restart, OwnersTyped
    <3>2. {Work(r).cover : r \in {q \in Requests : Doing(q, "store") \/ Doing(q, "set")}} \ {None}
            \subseteq Covers
      BY Works
    <3>3. EventsTyped'
      BY <1>1, <2>3, <3>2 DEF Restart, RestartEvents, EventsTyped
    <3> QED BY <1>1, <2>3, <3>1, <3>3, KeptTypes, TypesFollow DEF Restart
  <2>4. CASE Time
    <3>1. OwnersTyped'
      BY <1>1, <2>4, OwnersAssumption DEF Time, Tick, OwnersTyped
    <3> QED BY <1>1, <2>4, <3>1, KeptTypes, TypesFollow DEF Time
  <2> QED BY <1>5, <2>1, <2>2, <2>3, <2>4 DEF SharedNext
<1>6. CASE UNCHANGED vars
  BY <1>1, <1>6, KeptTypes, TypesFollow DEF vars
<1> QED BY <1>2, <1>3, <1>4, <1>5, <1>6 DEF Next

LEMMA TypedInit == Init => TypeOK
BY OwnersAssumption
   DEF Init, OwnersInit, MapsInit, EventsInit, GalleryInit, TypeOK, Photos

-------------------------------------------------------------------------------
(* Saved maps *)

\* Of the editions of one map: what a guarded one was made over was the last, or
\* of the last's second.
NoneLost(edits) ==
  \A e \in 1..Len(edits) : edits[e].base # None =>
    \A lost \in (edits[e].base + 1)..(e - 1) : edits[lost].at = edits[edits[e].base].at

LEMMA GuardedIs ==
  GuardedEditsLoseNothing <=> \A m \in Maps : map[m] # None => NoneLost(map[m].edits)
BY DEF GuardedEditsLoseNothing, NoneLost

\* An edition that is made now, over the last or one of its second.
LEMMA EditionAdded ==
  ASSUME NEW edits \in Seq(EditRow), edits # <<>>, NEW time \in Nat, Ordered(edits, time),
         NoneLost(edits), NEW base, NEW entry, entry = [at |-> time, base |-> base],
         base # None => /\ base \in 1..Len(edits)
                        /\ edits[base].at >= edits[Len(edits)].at
  PROVE  /\ Append(edits, entry) # <<>>
         /\ Ordered(Append(edits, entry), time) /\ NoneLost(Append(edits, entry))
<1> DEFINE n == Len(edits)
           more == Append(edits, entry)
<1>1. n \in Nat /\ n >= 1 /\ Len(more) = n + 1 /\ more[n + 1] = entry
  OBVIOUS
<1>2. \A i \in 1..n : more[i] = edits[i] /\ edits[i] \in EditRow
  OBVIOUS
<1>3. \A i \in 1..n : edits[i].at \in Int /\ edits[i].at <= time
  BY <1>2 DEF EditRow, Ordered
<1>4. entry.at = time /\ entry.base = base
  OBVIOUS
<1> HIDE DEF more, n
<1>5. Ordered(more, time)
  <2> SUFFICES ASSUME NEW i \in 1..(n + 1)
               PROVE  /\ more[i].at <= time
                      /\ \A j \in i..(n + 1) : more[i].at <= more[j].at
                      /\ more[i].base # None => more[i].base \in 1..(i - 1)
    BY <1>1 DEF Ordered
  <2>1. CASE i = n + 1
    BY <2>1, <1>1, <1>4 DEF n
  <2>2. CASE i \in 1..n
    <3>1. /\ edits[i].at <= time
          /\ \A j \in i..n : edits[i].at <= edits[j].at
          /\ edits[i].base # None => edits[i].base \in 1..(i - 1)
      BY <2>2 DEF Ordered, n
    <3>2. \A j \in i..(n + 1) : j = n + 1 \/ (j \in i..n /\ j \in 1..n)
      BY <2>2, <1>1
    <3> QED BY <2>2, <3>1, <3>2, <1>1, <1>2, <1>4
  <2> QED BY <2>1, <2>2, <1>1
<1>6. NoneLost(more)
  <2> SUFFICES ASSUME NEW e \in 1..(n + 1), more[e].base # None,
                      NEW lost \in (more[e].base + 1)..(e - 1)
               PROVE  more[lost].at = more[more[e].base].at
    BY <1>1 DEF NoneLost
  <2>1. CASE e = n + 1
    <3>1. base \in 1..n /\ lost \in (base + 1)..n
      BY <2>1, <1>1, <1>4 DEF n
    <3>2. lost \in 1..n /\ n \in 1..n /\ lost \in base..n /\ n \in lost..n
      BY <3>1, <1>1
    <3>3. edits[base].at <= edits[lost].at /\ edits[lost].at <= edits[n].at
      BY <3>1, <3>2 DEF Ordered, n
    <3>4. edits[base].at >= edits[n].at
      BY <3>1, <2>1, <1>1, <1>4 DEF n
    <3>5. edits[lost].at = edits[base].at
      BY <3>1, <3>2, <3>3, <3>4, <1>3
    <3> QED BY <3>1, <3>2, <3>5, <2>1, <1>1, <1>2, <1>4
  <2>2. CASE e \in 1..n
    <3>1. more[e].base = edits[e].base /\ edits[e].base \in 1..(e - 1)
      BY <2>2, <1>2 DEF Ordered, n
    <3>2. lost \in 1..n /\ edits[e].base \in 1..n
      BY <2>2, <3>1, <1>1
    <3>3. edits[lost].at = edits[edits[e].base].at
      BY <2>2, <3>1 DEF NoneLost, n
    <3> QED BY <3>1, <3>2, <3>3, <1>2
  <2> QED BY <2>1, <2>2, <1>1
<1> QED BY <1>1, <1>5, <1>6 DEF more

LEMMA OrderedLater ==
  ASSUME NEW edits \in Seq(EditRow), NEW time \in Nat, NEW later \in Nat, time <= later,
         Ordered(edits, time)
  PROVE  Ordered(edits, later)
<1>1. \A i \in 1..Len(edits) : edits[i] \in EditRow
  OBVIOUS
<1>2. \A i \in 1..Len(edits) : edits[i].at \in Int
  BY <1>1 DEF EditRow
<1> QED BY <1>2 DEF Ordered

SoundMap(row) ==
  row.owner \in alive /\ row.edits # <<>> /\ Ordered(row.edits, now) /\ NoneLost(row.edits)
MapKept(m) == map[m] # None => m \in mapsMade /\ SoundMap(map[m])
SeenKept(r) ==
  seen[r] # None => /\ map[seen[r].map] # None
                    /\ seen[r].edition \in 1..Len(map[seen[r].map].edits)

LEMMA MapsInvIs ==
  MapsInv <=> (\A m \in Maps : MapKept(m)) /\ (\A r \in Requests : SeenKept(r))
BY GuardedIs DEF MapsInv, MapKept, SeenKept, SoundMap

LEMMA MapsInvFollows ==
  (\A m \in Maps : MapKept(m)') /\ (\A r \in Requests : SeenKept(r)') => MapsInv'
BY DEF MapsInv, MapKept, SeenKept, SoundMap, GuardedEditsLoseNothing, NoneLost

LEMMA MapStaysSound ==
  ASSUME TypeOK, TypeOK', now <= now', NEW m \in Maps, MapKept(m),
         map'[m] # None => /\ map[m] # None /\ map'[m].edits = map[m].edits
                           /\ map'[m].owner \in alive',
         mapsMade \subseteq mapsMade'
  PROVE  MapKept(m)'
<1> SUFFICES ASSUME map'[m] # None
             PROVE  m \in mapsMade' /\ SoundMap(map[m])'
  BY DEF MapKept
<1>1. map'[m].edits = map[m].edits /\ m \in mapsMade /\ SoundMap(map[m])
  BY DEF MapKept
<1>2. map[m].edits \in Seq(EditRow) /\ now \in Nat /\ now' \in Nat
  BY DEF TypeOK, MapRow
<1>3. Ordered(map'[m].edits, now')
  BY <1>1, <1>2, OrderedLater DEF SoundMap
<1> QED BY <1>1, <1>3 DEF SoundMap

\* Steps that leave the maps alone, and the accounts but for the clock.
LEMMA MapsLeftAlone ==
  ASSUME TypeOK, TypeOK', MapsInv, now <= now', UNCHANGED <<alive, map, mapsMade, seen>>
  PROVE  MapsInv'
<1>1. \A m \in Maps : MapKept(m)'
  BY MapStaysSound, MapsInvIs DEF MapKept, SoundMap
<1>2. \A r \in Requests : SeenKept(r)'
  BY MapsInvIs DEF SeenKept
<1> QED BY <1>1, <1>2, MapsInvFollows

LEMMA MapStepsKeepMaps ==
  ASSUME TypeOK, TypeOK', MapsInv, NEW r \in Requests,
         MapStep(r) \/ \E m \in Maps : DeleteMap(r, m)
  PROVE  MapsInv'
<1>1. (\A m \in Maps : MapKept(m)) /\ (\A q \in Requests : SeenKept(q)) /\ now \in Nat
  BY MapsInvIs DEF TypeOK
<1>2. ASSUME NEW m \in Maps, NEW ws \in SUBSET Users, PostMap(r, m, ws)
      PROVE  MapsInv'
  <2> DEFINE made == [owner |-> Caller(r), edits |-> <<Edition(None)>>]
  <2>1. UNCHANGED <<now, alive>> /\ Caller(r) \in alive /\ m \notin mapsMade
    BY <1>2 DEF PostMap, Answered, GoesOn
  <2>2. /\ map' = [map EXCEPT ![m] = made] /\ mapsMade' = mapsMade \cup {m}
        /\ seen' = [seen EXCEPT ![r] = [map |-> m, edition |-> 1]]
    BY <1>2 DEF PostMap
  <2>3. map'[m] = made /\ \A k \in Maps : k # m => map'[k] = map[k]
    BY <2>2 DEF TypeOK
  <2>4. /\ Ordered(made.edits, now) /\ NoneLost(made.edits) /\ made.edits # <<>>
        /\ Len(made.edits) = 1 /\ made.owner = Caller(r)
    BY <1>1 DEF Ordered, NoneLost, Edition
  <2> HIDE DEF made
  <2>5. \A k \in Maps : MapKept(k)'
    BY <1>1, <2>1, <2>2, <2>3, <2>4 DEF MapKept, SoundMap
  <2>6. map[m] = None
    BY <1>1, <2>1 DEF MapKept
  <2>7. made # None
    <3>1. Caller(r) \in Users /\ Edition(None) \in EditRow
      BY <1>2, Begun, EditionTyped DEF PostMap
    <3>2. <<Edition(None)>> \in Seq(EditRow)
      BY <3>1
    <3>3. made \in MapRow
      BY <3>1, <3>2 DEF made, MapRow
    <3> QED BY <3>3, MapsAssumption
  <2>8. seen' \in [Requests -> SeenRow \cup {None}] /\ seen'[r] = [map |-> m, edition |-> 1]
        /\ \A q \in Requests : q # r => seen'[q] = seen[q]
    BY <2>2 DEF TypeOK
  <2>9. SeenKept(r)'
    BY <2>3, <2>4, <2>7, <2>8 DEF SeenKept
  <2>10. ASSUME NEW q \in Requests, q # r
         PROVE  SeenKept(q)'
    <3>1. seen[q] # None => seen[q].map \in Maps /\ seen[q].map # m
      BY <1>1, <2>6 DEF SeenKept, TypeOK, SeenRow
    <3> QED BY <1>1, <2>3, <2>8, <2>10, <3>1 DEF SeenKept
  <2> QED BY <2>5, <2>9, <2>10, MapsInvFollows
<1>3. CASE PostWriters(r)
  <2>1. UNCHANGED <<now, alive, map, mapsMade, seen>>
    BY <1>3 DEF PostWriters, Answered
  <2> QED BY <1>1, <2>1, MapsLeftAlone
<1>4. ASSUME NEW m \in Maps, GetMap(r, m)
      PROVE  MapsInv'
  <2>1. UNCHANGED <<now, alive, map, mapsMade>> /\ map[m] # None
        /\ seen' = [seen EXCEPT ![r] = [map |-> m, edition |-> Len(map[m].edits)]]
    BY <1>4 DEF GetMap, Answered
  <2>2. \A k \in Maps : MapKept(k)'
    BY <1>1, <2>1 DEF MapKept, SoundMap
  <2>3. Len(map[m].edits) \in 1..Len(map[m].edits)
    BY <1>1, <2>1 DEF MapKept, SoundMap, TypeOK, MapRow
  <2>4. \A q \in Requests : SeenKept(q)'
    BY <1>1, <2>1, <2>3 DEF SeenKept, TypeOK
  <2> QED BY <2>2, <2>4, MapsInvFollows
<1>5. ASSUME NEW m \in Maps, NEW guarded \in BOOLEAN, NEW renames \in BOOLEAN,
             NEW ws \in (SUBSET Users) \cup {None}, PatchMap(r, m, guarded, renames, ws)
      PROVE  MapsInv'
  <2> DEFINE edits == map[m].edits
             base == IF guarded THEN seen[r].edition ELSE None
             more == Append(edits, Edition(base))
  <2>1. /\ UNCHANGED <<now, alive, mapsMade>> /\ map[m] # None
        /\ guarded => Unmodified(r, m)
        /\ map' = [map EXCEPT ![m].edits = more]
        /\ seen' = [seen EXCEPT ![r] = [map |-> m, edition |-> Len(edits) + 1]]
    BY <1>5 DEF PatchMap, Answered
  <2>2. map[m] \in MapRow /\ edits \in Seq(EditRow) /\ SoundMap(map[m])
    <3>1. map[m] \in MapRow
      BY <2>1 DEF TypeOK
    <3>2. SoundMap(map[m])
      BY <1>1, <2>1 DEF MapKept
    <3> QED BY <3>1, <3>2 DEF MapRow
  <2>3. base # None => base \in 1..Len(edits) /\ edits[base].at >= edits[Len(edits)].at
    <3>1. guarded => /\ seen[r] # None /\ seen[r].map = m
                     /\ edits[seen[r].edition].at >= edits[Len(edits)].at
      BY <2>1 DEF Unmodified
    <3>2. guarded => seen[r].edition \in 1..Len(edits)
      BY <1>1, <3>1 DEF SeenKept
    <3> QED BY <3>1, <3>2
  <2>4. Edition(base) = [at |-> now, base |-> base]
    BY DEF Edition
  <2>5. more # <<>> /\ Ordered(more, now) /\ NoneLost(more)
    BY <1>1, <2>2, <2>3, <2>4, EditionAdded DEF SoundMap
  <2>6. Len(more) = Len(edits) + 1 /\ Len(edits) \in Nat
    BY <2>2
  <2>7. map'[m] = [map[m] EXCEPT !.edits = more] /\ \A k \in Maps : k # m => map'[k] = map[k]
    BY <2>1 DEF TypeOK
  <2> HIDE DEF edits, base, more
  <2>8. map'[m].edits = more /\ map'[m].owner = map[m].owner /\ map'[m] \in MapRow
    <3>1. map'[m].edits = more /\ map'[m].owner = map[m].owner
      BY <2>2, <2>7 DEF MapRow
    <3>2. Edition(base) \in EditRow
      <4>1. base \in Nat \cup {None}
        BY <2>2, <2>3
      <4> QED BY <4>1, EditionTyped
    <3>3. [map[m] EXCEPT !.edits = more] \in MapRow
      <4>1. more \in Seq(EditRow)
        BY <2>2, <3>2 DEF more
      <4> QED BY <2>2, <4>1 DEF MapRow
    <3> QED BY <2>7, <3>1, <3>3
  <2>9. \A k \in Maps : MapKept(k)'
    BY <1>1, <2>1, <2>2, <2>5, <2>7, <2>8 DEF MapKept, SoundMap
  <2>10. seen' \in [Requests -> SeenRow \cup {None}]
         /\ seen'[r] = [map |-> m, edition |-> Len(edits) + 1]
         /\ \A q \in Requests : q # r => seen'[q] = seen[q]
    BY <2>1 DEF TypeOK
  <2>11. SeenKept(r)'
    BY <2>6, <2>8, <2>10, MapsAssumption DEF SeenKept
  <2>12. ASSUME NEW q \in Requests, q # r
         PROVE  SeenKept(q)'
    <3>1. CASE seen[q] # None /\ seen[q].map = m
      BY <1>1, <2>6, <2>8, <2>10, <2>12, <3>1, MapsAssumption DEF SeenKept, edits
    <3>2. CASE seen[q] # None /\ seen[q].map # m
      BY <1>1, <2>7, <2>10, <2>12, <3>2 DEF SeenKept, TypeOK, SeenRow
    <3>3. CASE seen[q] = None
      BY <2>10, <2>12, <3>3 DEF SeenKept
    <3> QED BY <3>1, <3>2, <3>3
  <2> QED BY <2>9, <2>11, <2>12, MapsInvFollows
<1>6. ASSUME NEW m \in Maps, DeleteMap(r, m)
      PROVE  MapsInv'
  <2>1. /\ UNCHANGED <<now, alive, mapsMade>> /\ map' = [map EXCEPT ![m] = None]
        /\ seen' = [q \in Requests |-> IF seen[q] # None /\ seen[q].map = m THEN None ELSE seen[q]]
    BY <1>6 DEF DeleteMap, Answered
  <2>2. \A k \in Maps : MapKept(k)'
    BY <1>1, <2>1 DEF MapKept, SoundMap, TypeOK
  <2>3. \A q \in Requests : SeenKept(q)'
    BY <1>1, <2>1 DEF SeenKept, TypeOK, SeenRow
  <2> QED BY <2>2, <2>3, MapsInvFollows
<1> QED BY <1>2, <1>3, <1>4, <1>5, <1>6 DEF MapStep

LEMMA RequestsKeepAccounts ==
  ASSUME NEW r \in Requests, EventStep(r) \/ GalleryStep(r) \/ MapStep(r)
  PROVE  UNCHANGED <<now, alive, userAlias>>
<1>1. CASE EventStep(r)
  BY <1>1 DEF EventStep, OpenPost, WritePost, OpenPatch, WritePatch, DeleteEvent,
              SetParticipation, StartCover, StoreVariant, StoreFails, StartNoCover, SetCover,
              SetCoverUnanswered, Answered, GoesOn
<1>2. CASE GalleryStep(r)
  BY <1>2 DEF GalleryStep, Upload, InsertPicture, PutPicture, OpenSetAll, WriteSetAll,
              SetAllPremium, DeletePicture, Unlink, Comment, Rate, Answered, GoesOn
<1>3. CASE MapStep(r)
  BY <1>3 DEF MapStep, PostMap, PostWriters, GetMap, PatchMap, Answered, GoesOn
<1> QED BY <1>1, <1>2, <1>3

LEMMA MapsInvNext ==
  ASSUME TypeOK, TypeOK', MapsInv, [Next]_vars
  PROVE  MapsInv'
<1>1. (\A m \in Maps : MapKept(m)) /\ (\A q \in Requests : SeenKept(q)) /\ now \in Nat
  BY MapsInvIs DEF TypeOK
<1>2. CASE MapsNext
  BY <1>2, MapStepsKeepMaps DEF MapsNext, DropMap
<1>3. ASSUME NEW source \in Users, NEW target \in Users, MergeAccounts(source, target)
      PROVE  MapsInv'
  <2>1. /\ now' = now /\ alive' = alive \ {source} /\ target \in alive /\ source # target
        /\ map' = Repointed(map, source, target) /\ UNCHANGED <<mapsMade, seen>>
    BY <1>3 DEF MergeAccounts, MergeOwners, MergeMaps
  <2>2. \A m \in Maps : map[m] # None => map[m] \in MapRow
    BY DEF TypeOK
  <2>3. ASSUME NEW m \in Maps
        PROVE  /\ map'[m] # None <=> map[m] # None
               /\ map[m] # None => /\ map'[m].edits = map[m].edits
                                   /\ map'[m].owner = IF map[m].owner = source THEN target
                                                      ELSE map[m].owner
    <3>1. map'[m] = IF map[m] # None /\ map[m].owner = source
                    THEN [map[m] EXCEPT !.owner = target] ELSE map[m]
      BY <2>1 DEF Repointed, TypeOK
    <3>2. map[m] # None => [map[m] EXCEPT !.owner = target] \in MapRow
      BY <2>2 DEF MapRow
    <3> QED BY <2>2, <3>1, <3>2, MapsAssumption DEF MapRow
  <2>4. \A m \in Maps : MapKept(m)'
    BY <1>1, <2>1, <2>3, MapStaysSound DEF MapKept, SoundMap
  <2>5. \A q \in Requests : SeenKept(q)'
    BY <1>1, <2>1, <2>3 DEF SeenKept, TypeOK, SeenRow
  <2> QED BY <2>4, <2>5, MapsInvFollows
<1>4. ASSUME NEW u \in Users, DeleteAccount(u)
      PROVE  MapsInv'
  <2>1. /\ now' = now /\ alive' = alive \ {u} /\ map' = WithoutOwner(map, u)
        /\ mapsMade' = mapsMade
        /\ seen' = [q \in Requests |-> IF seen[q] # None /\ map[seen[q].map] # None
                                          /\ map[seen[q].map].owner = u THEN None ELSE seen[q]]
    BY <1>4 DEF DeleteAccount, DeleteOwner, DeleteMapsOf
  <2>2. \A m \in Maps : map'[m] = IF map[m] # None /\ map[m].owner = u THEN None ELSE map[m]
    BY <2>1 DEF WithoutOwner, TypeOK
  <2>3. \A m \in Maps : MapKept(m)'
    BY <1>1, <2>1, <2>2 DEF MapKept, SoundMap
  <2>4. \A q \in Requests : SeenKept(q)'
    BY <1>1, <2>1, <2>2 DEF SeenKept, TypeOK, SeenRow
  <2> QED BY <2>3, <2>4, MapsInvFollows
<1>5. CASE UNCHANGED <<alive, map, mapsMade, seen>> /\ now <= now'
  BY <1>5, MapsLeftAlone
<1>6. CASE EventsNext \/ GalleryNext \/ Restart \/ Time \/ UNCHANGED vars
           \/ \E r \in Requests : Arrival(r)
  <2>1. CASE EventsNext \/ GalleryNext
    <3>1. UNCHANGED mapsVars
      BY <2>1 DEF EventsNext, GalleryNext
    <3>2. UNCHANGED <<now, alive>>
      BY <2>1, RequestsKeepAccounts DEF EventsNext, GalleryNext, RemoveCover, ownersVars
    <3> QED BY <1>1, <3>1, <3>2, <1>5 DEF mapsVars
  <2>2. CASE Restart \/ Time \/ UNCHANGED vars \/ \E r \in Requests : Arrival(r)
    <3>1. UNCHANGED <<alive, map, mapsMade, seen>>
      BY <2>2 DEF Restart, Time, Tick, vars, ownersVars, mapsVars, Arrival, Refused,
                  Authenticate, Answered
    <3>2. now' = now \/ now' = now + 1
      BY <2>2 DEF Restart, Time, Tick, vars, ownersVars, Arrival, Refused, Authenticate, Answered
    <3> QED BY <1>1, <3>1, <3>2, <1>5
  <2> QED BY <1>6, <2>1, <2>2
<1> QED BY <1>2, <1>3, <1>4, <1>6 DEF Next, SharedNext, AccountStep

-------------------------------------------------------------------------------
(* Work that ends *)

LEMMA AnsweredFades ==
  ASSUME TypeOK, NEW r \in Requests, Answered(r), NEW kind
  PROVE  Fades(kind)
BY AnswersFade DEF Fades, Doing

LEMMA GoesOnFades ==
  ASSUME TypeOK, NEW r \in Requests, request[r] \in Row, NEW w \in WorkRow, GoesOn(r, w),
         NEW kind, w.kind # kind
  PROVE  Fades(kind)
<1>1. request'[r] = [user |-> Caller(r), doing |-> w]
  BY WorksGoOn
<1>2. \A q \in Requests : q # r => request'[q] = request[q]
  BY WorksGoOn
<1>3. request'[r].doing = w
  BY <1>1
<1> QED BY <1>2, <1>3 DEF Fades, Doing

LEMMA KeptFades ==
  ASSUME request' = request \/ request' = [q \in Requests |-> None], NEW kind
  PROVE  Fades(kind)
BY DEF Fades, Doing

LEMMA MapStepFades ==
  ASSUME TypeOK, NEW r \in Requests, MapStep(r), NEW kind, kind # "writers"
  PROVE  Fades(kind)
<1>1. ASSUME NEW m \in Maps, NEW ws \in SUBSET Users, PostMap(r, m, ws)
      PROVE  Fades(kind)
  <2>1. request[r] \in Row
    BY <1>1, Begun DEF PostMap
  <2> DEFINE w == [kind |-> "writers", map |-> m, writers |-> ws]
  <2>2. w \in WorkRow /\ w.kind # kind
    BY DEF WorkRow, MapWork
  <2>3. Answered(r) \/ GoesOn(r, w)
    BY <1>1 DEF PostMap
  <2> HIDE DEF w
  <2> QED BY <2>1, <2>2, <2>3, AnsweredFades, GoesOnFades
<1>2. CASE \/ PostWriters(r)
           \/ \E m \in Maps : GetMap(r, m)
           \/ \E m \in Maps, guarded, renames \in BOOLEAN, ws \in (SUBSET Users) \cup {None} :
                PatchMap(r, m, guarded, renames, ws)
  BY <1>2, AnsweredFades DEF PostWriters, GetMap, PatchMap
<1> QED BY <1>1, <1>2 DEF MapStep

LEMMA GalleryStepFades ==
  ASSUME TypeOK, NEW r \in Requests, GalleryStep(r), NEW kind,
         kind \notin {"upload", "licences", "unlink"}
  PROVE  Fades(kind)
<1>1. ASSUME NEW w \in WorkRow, request[r] \in Row, GoesOn(r, w),
             w.kind \in {"upload", "licences", "unlink"}
      PROVE  Fades(kind)
  BY <1>1, GoesOnFades
<1>2. ASSUME NEW p \in Pictures, NEW l \in Licences, NEW premium \in BOOLEAN,
             Upload(r, p, l, premium)
      PROVE  Fades(kind)
  <2> DEFINE w == [kind |-> "upload", picture |-> p, licence |-> l, premium |-> premium,
                   createdAt |-> now]
  <2>1. w \in WorkRow /\ w.kind = "upload"
    BY DEF TypeOK, WorkRow, GalleryWork
  <2>2. request[r] \in Row /\ GoesOn(r, w)
    BY <1>2, Begun DEF Upload
  <2> HIDE DEF w
  <2> QED BY <2>1, <2>2, <1>1
<1>3. ASSUME NEW l \in Licences, OpenSetAll(r, l)
      PROVE  Fades(kind)
  <2> DEFINE changed == {p \in PicturesOf(Caller(r)) : picture[p].licence # l}
             w == [kind |-> "licences", licence |-> l, pictures |-> changed]
  <2>1. w \in WorkRow /\ w.kind = "licences"
    BY DEF WorkRow, GalleryWork, PicturesOf
  <2>2. request[r] \in Row /\ (Answered(r) \/ GoesOn(r, w))
    BY <1>3, Begun DEF OpenSetAll
  <2> HIDE DEF w
  <2> QED BY <2>1, <2>2, <1>1, AnsweredFades
<1>4. ASSUME NEW p \in Pictures, DeletePicture(r, p)
      PROVE  Fades(kind)
  <2> DEFINE w == [kind |-> "unlink", pictures |-> {p}]
  <2>1. w \in WorkRow /\ w.kind = "unlink"
    BY DEF WorkRow, GalleryWork
  <2>2. request[r] \in Row /\ GoesOn(r, w)
    BY <1>4, Begun DEF DeletePicture
  <2> HIDE DEF w
  <2> QED BY <2>1, <2>2, <1>1
<1>5. CASE InsertPicture(r) \/ WriteSetAll(r) \/ Unlink(r)
           \/ (\E x \in Photos : Comment(r, x) \/ Rate(r, x))
           \/ (\E premium \in BOOLEAN : SetAllPremium(r, premium))
           \/ \E p \in Pictures, l \in Licences \cup {None}, premium \in BOOLEAN \cup {None} :
                PutPicture(r, p, l, premium)
  BY <1>5, AnsweredFades
     DEF InsertPicture, WriteSetAll, Unlink, Comment, Rate, SetAllPremium, PutPicture
<1> QED BY <1>2, <1>3, <1>4, <1>5 DEF GalleryStep

LEMMA SharedFades ==
  ASSUME TypeOK, SharedNext \/ UNCHANGED vars, NEW kind
  PROVE  Fades(kind)
<1>1. ASSUME NEW r \in Requests, NEW u \in Users, Authenticate(r, u)
      PROVE  Fades(kind)
  <2>1. request' = [request EXCEPT ![r] = [user |-> u, doing |-> None]]
    BY <1>1 DEF Authenticate
  <2> QED BY <2>1 DEF Fades, Doing, TypeOK
<1>2. ASSUME NEW r \in Requests, Refused(r)
      PROVE  Fades(kind)
  BY <1>2, AnsweredFades DEF Refused
<1>3. CASE AccountStep \/ Restart \/ Time \/ UNCHANGED vars
  <2>1. request' = request \/ request' = [q \in Requests |-> None]
    BY <1>3 DEF AccountStep, MergeAccounts, MergeOwners, DeleteAccount, DeleteOwner, Restart, Time,
                Tick, vars, ownersVars
  <2> QED BY <2>1, KeptFades
<1> QED BY <1>1, <1>2, <1>3 DEF SharedNext, Arrival

-------------------------------------------------------------------------------
(* Events and their maps *)

MapsOwnersKept ==
  /\ mapsMade \subseteq mapsMade' /\ alive' \subseteq alive
  /\ \A m \in mapsMade : map'[m] # None => map[m] # None /\ map'[m].owner = map[m].owner

\* A check stays good when nobody else begins one, and maps keep their owners.
LEMMA ChecksStay ==
  ASSUME TypeOK, ChecksHold, MapsOwnersKept, Fades("post"), Fades("patch")
  PROVE  ChecksHold'
<1> SUFFICES ASSUME NEW r \in Requests, Doing(r, "post")' \/ Doing(r, "patch")',
                    Work(r)'.map # None
             PROVE  /\ Work(r)'.map \in mapsMade'
                    /\ map'[Work(r)'.map] # None /\ Work(r)'.owner \in alive'
                         => map'[Work(r)'.map].owner = Work(r)'.owner
  BY DEF ChecksHold
<1>1. (Doing(r, "post") \/ Doing(r, "patch")) /\ request'[r] = request[r]
  BY DEF Fades
<1>2. Work(r)' = Work(r)
  BY <1>1 DEF Work
<1> QED BY <1>1, <1>2 DEF ChecksHold, MapsOwnersKept

LEMMA LocksFade ==
  ASSUME Fades("patch")
  PROVE  LockedEvents' \subseteq LockedEvents
BY DEF Fades, LockedEvents, Work

LEMMA LockedAreEvents ==
  ASSUME TypeOK
  PROVE  LockedEvents \subseteq Events
BY Works DEF LockedEvents

Linked(e) == event[e] # None /\ event[e].map # None =>
  map[event[e].map] # None /\ map[event[e].map].owner = event[e].owner

LEMMA LinkedIs ==
  /\ LinkedMapsAreOwners <=> \A e \in Events : Linked(e)
  /\ LinkedMapsAreOwners' <=> \A e \in Events : Linked(e)'
BY DEF LinkedMapsAreOwners, Linked

\* What an event is linked to is a map that was made.
LEMMA LinksAreMade ==
  ASSUME TypeOK, MapsInv, LinkedMapsAreOwners, NEW e \in Events, event[e] # None,
         event[e].map # None
  PROVE  event[e].map \in mapsMade /\ event[e].owner \in alive /\ map[event[e].map] # None
<1>1. event[e].map \in Maps
  BY DEF TypeOK, EventRow
<1> QED BY <1>1 DEF LinkedMapsAreOwners, MapsInv

LEMMA MapStepsKeepOwners ==
  ASSUME TypeOK, MapsInv, NEW r \in Requests, MapStep(r)
  PROVE  /\ MapsOwnersKept
         /\ \A m \in mapsMade : map[m] # None => map'[m] # None
<1>0. UNCHANGED alive
  BY RequestsKeepAccounts
<1>1. ASSUME NEW m \in Maps, NEW ws \in SUBSET Users, PostMap(r, m, ws)
      PROVE  \A k \in mapsMade : map'[k] = map[k] /\ mapsMade \subseteq mapsMade'
  BY <1>1 DEF PostMap, TypeOK
<1>2. CASE PostWriters(r) \/ \E m \in Maps : GetMap(r, m)
  BY <1>0, <1>2 DEF PostWriters, GetMap, MapsOwnersKept
<1>3. ASSUME NEW m \in Maps, NEW guarded \in BOOLEAN, NEW renames \in BOOLEAN,
             NEW ws \in (SUBSET Users) \cup {None}, PatchMap(r, m, guarded, renames, ws)
      PROVE  /\ mapsMade' = mapsMade
             /\ \A k \in mapsMade : map[k] # None => map'[k] # None /\ map'[k].owner = map[k].owner
             /\ \A k \in mapsMade : map[k] = None => map'[k] = None
  <2> DEFINE more == Append(map[m].edits, Edition(IF guarded THEN seen[r].edition ELSE None))
  <2>1. map' = [map EXCEPT ![m].edits = more] /\ map[m] \in MapRow /\ mapsMade' = mapsMade
    BY <1>3 DEF PatchMap, TypeOK
  <2>2. map'[m] = [map[m] EXCEPT !.edits = more] /\ \A k \in Maps : k # m => map'[k] = map[k]
    BY <2>1 DEF TypeOK
  <2> HIDE DEF more
  <2>3. map'[m] # None /\ map'[m].owner = map[m].owner
    <3>1. (IF guarded THEN seen[r].edition ELSE None) \in Nat \cup {None}
      BY <1>3 DEF PatchMap, Unmodified, TypeOK, SeenRow
    <3>2. Edition(IF guarded THEN seen[r].edition ELSE None) \in EditRow
      BY <3>1, EditionTyped
    <3>3. more \in Seq(EditRow)
      BY <2>1, <3>2 DEF more, MapRow
    <3>4. map'[m] \in MapRow /\ map'[m].owner = map[m].owner
      BY <2>1, <2>2, <3>3 DEF MapRow
    <3> QED BY <3>4, MapsAssumption
  <2> QED BY <1>3, <2>1, <2>2, <2>3 DEF PatchMap, TypeOK
<1>4. ASSUME NEW m \in Maps, NEW ws \in SUBSET Users, PostMap(r, m, ws)
      PROVE  mapsMade \subseteq mapsMade'
  BY <1>4 DEF PostMap
<1> QED BY <1>0, <1>1, <1>2, <1>3, <1>4 DEF MapStep, MapsOwnersKept

\* Steps that leave every event its owner and its map, or take it away.
LEMMA LinksStay ==
  ASSUME TypeOK, MapsInv, LinksInv, MapsOwnersKept,
         \A m \in mapsMade : map[m] # None => map'[m] # None,
         \A e \in Events : event'[e] # None =>
           event[e] # None /\ event'[e].owner = event[e].owner /\ event'[e].map = event[e].map
  PROVE  LinkedMapsAreOwners'
<1> SUFFICES ASSUME NEW e \in Events
             PROVE  Linked(e)'
  BY LinkedIs
<1>1. CASE event'[e] # None /\ event'[e].map # None
  <2>1. event[e] # None /\ event'[e].owner = event[e].owner /\ event'[e].map = event[e].map
    BY <1>1
  <2>2. event[e].map \in mapsMade /\ map[event[e].map] # None
        /\ map[event[e].map].owner = event[e].owner
    BY <1>1, <2>1, LinksAreMade, LinkedIs DEF LinksInv, Linked
  <2> QED BY <2>1, <2>2 DEF MapsOwnersKept, Linked
<1>2. CASE ~(event'[e] # None /\ event'[e].map # None)
  BY <1>2 DEF Linked
<1> QED BY <1>1, <1>2

\* No step but those of a POST and a PATCH gives an event another owner or map;
\* what such a step writes was checked, and the foreign keys still hold.
LEMMA EventStepsKeepLinks ==
  ASSUME TypeOK, LinksInv, NEW r \in Requests, EventStep(r), UNCHANGED mapsVars
  PROVE  ChecksHold' /\ LockedRowsStay' /\ LinkedMapsAreOwners'
<1>0. /\ UNCHANGED <<now, alive, userAlias, map, mapsMade>> /\ MapsInv /\ MapsOwnersKept
      /\ LinkedMapsAreOwners /\ ChecksHold /\ LockedRowsStay
  BY RequestsKeepAccounts DEF mapsVars, LinksInv, MapsOwnersKept
<1>1. ASSUME NEW u \in Users, NEW m \in Maps \cup {None}, NEW k \in Keys \cup {None},
             OpenPost(r, u, m, k)
      PROVE  ChecksHold' /\ LockedRowsStay' /\ LinkedMapsAreOwners'
  <2> DEFINE w == [kind |-> "post", owner |-> u, map |-> m, key |-> k]
  <2>1. w \in WorkRow /\ request[r] \in Row /\ GoesOn(r, w) /\ UNCHANGED eventsVars
    BY <1>1, Begun DEF OpenPost, WorkRow, EventWork
  <2>2. MapFits(m, u)
    BY <1>1 DEF OpenPost
  <2> HIDE DEF w
  <2>3. request'[r] = [user |-> Caller(r), doing |-> w]
    BY <2>1, WorksGoOn
  <2>4. \A q \in Requests : q # r => request'[q] = request[q]
    BY <2>1, WorksGoOn
  <2>5. Work(r)' = w
    BY <2>3 DEF Work
  <2>6. ChecksHold'
    <3> SUFFICES ASSUME NEW q \in Requests, Doing(q, "post")' \/ Doing(q, "patch")',
                        Work(q)'.map # None
                 PROVE  /\ Work(q)'.map \in mapsMade
                        /\ map[Work(q)'.map] # None /\ Work(q)'.owner \in alive
                             => map[Work(q)'.map].owner = Work(q)'.owner
      BY <1>0 DEF ChecksHold
    <3>1. CASE q = r
      <4>1. Work(q)'.map = m /\ Work(q)'.owner = u
        BY <2>5, <3>1 DEF w
      <4> QED BY <1>0, <2>2, <4>1 DEF MapFits, MapsInv
    <3>2. CASE q # r
      BY <1>0, <2>4, <3>2 DEF ChecksHold, Doing, Work
    <3> QED BY <3>1, <3>2
  <2>7. Fades("patch")
    <3>1. w.kind # "patch"
      BY DEF w
    <3> QED BY <2>1, <3>1, GoesOnFades
  <2>8. LockedRowsStay'
    BY <1>0, <2>1, <2>7, LocksFade DEF LockedRowsStay, eventsVars
  <2>9. LinkedMapsAreOwners'
    BY <1>0, <2>1, LinksStay DEF eventsVars
  <2> QED BY <2>6, <2>8, <2>9
<1>2. ASSUME NEW e \in Events, WritePost(r, e)
      PROVE  ChecksHold' /\ LockedRowsStay' /\ LinkedMapsAreOwners'
  <2> DEFINE row == [owner |-> Work(r).owner, map |-> Work(r).map, key |-> Work(r).key,
                     cover |-> None]
  <2>1. Doing(r, "post") /\ Answered(r) /\ e \notin eventsMade
    BY <1>2 DEF WritePost
  <2>2. \/ event' = event
        \/ event' = [event EXCEPT ![e] = row] /\ RefersToRows(Work(r).owner, Work(r).map)
    BY <1>2 DEF WritePost
  <2>3. row.owner = Work(r).owner /\ row.map = Work(r).map
    OBVIOUS
  <2> HIDE DEF row
  <2>4. row # None
    <3>1. row \in EventRow
      BY <2>1, Works DEF row, EventRow
    <3> QED BY <3>1, EventsAssumption
  <2>5. Fades("post") /\ Fades("patch")
    BY <2>1, AnsweredFades
  <2>6. ChecksHold' /\ LockedRowsStay'
    <3>1. \A d \in Events : event[d] # None => event'[d] # None
      BY <2>2, <2>4 DEF TypeOK
    <3> QED BY <1>0, <2>5, <3>1, ChecksStay, LocksFade, LockedAreEvents DEF LockedRowsStay
  <2>7. ASSUME NEW d \in Events
        PROVE  Linked(d)'
    <3>1. CASE event'[d] = event[d]
      BY <1>0, <3>1, LinkedIs DEF Linked
    <3>2. CASE event'[d] # event[d]
      <4>1. event'[d] = row /\ RefersToRows(Work(r).owner, Work(r).map)
        BY <2>2, <3>2 DEF TypeOK
      <4>2. row.map # None => map[row.map].owner = row.owner
        BY <1>0, <2>1, <2>3, <4>1 DEF ChecksHold, RefersToRows
      <4> QED BY <1>0, <2>3, <4>1, <4>2 DEF RefersToRows, Linked
    <3> QED BY <3>1, <3>2
  <2> QED BY <2>6, <2>7, LinkedIs
<1>3. ASSUME NEW e \in Events, NEW u \in Users, NEW m \in Maps \cup {None}, OpenPatch(r, e, u, m)
      PROVE  ChecksHold' /\ LockedRowsStay' /\ LinkedMapsAreOwners'
  <2> DEFINE w == [kind |-> "patch", event |-> e, owner |-> u, map |-> m]
  <2>1. w \in WorkRow /\ request[r] \in Row /\ GoesOn(r, w) /\ UNCHANGED eventsVars
    BY <1>3, Begun DEF OpenPatch, WorkRow, EventWork
  <2>2. event[e] # None /\ (MapNeedsCheck(e, u, m) => MapFits(m, u))
    BY <1>3 DEF OpenPatch
  <2> HIDE DEF w
  <2>3. request'[r] = [user |-> Caller(r), doing |-> w]
    BY <2>1, WorksGoOn
  <2>4. \A q \in Requests : q # r => request'[q] = request[q]
    BY <2>1, WorksGoOn
  <2>5. Work(r)' = w
    BY <2>3 DEF Work
  <2>6. m # None => map[m] # None /\ map[m].owner = u
    BY <1>0, <2>2 DEF MapNeedsCheck, MapFits, LinkedMapsAreOwners
  <2>7. ChecksHold'
    <3> SUFFICES ASSUME NEW q \in Requests, Doing(q, "post")' \/ Doing(q, "patch")',
                        Work(q)'.map # None
                 PROVE  /\ Work(q)'.map \in mapsMade
                        /\ map[Work(q)'.map] # None /\ Work(q)'.owner \in alive
                             => map[Work(q)'.map].owner = Work(q)'.owner
      BY <1>0 DEF ChecksHold
    <3>1. CASE q = r
      <4>1. Work(q)'.map = m /\ Work(q)'.owner = u
        BY <2>5, <3>1 DEF w
      <4> QED BY <1>0, <2>6, <4>1 DEF MapsInv
    <3>2. CASE q # r
      BY <1>0, <2>4, <3>2 DEF ChecksHold, Doing, Work
    <3> QED BY <3>1, <3>2
  <2>8. LockedRowsStay'
    <3> SUFFICES ASSUME NEW q \in Requests, Doing(q, "patch")'
                 PROVE  event[Work(q)'.event] # None
      BY <2>1 DEF LockedRowsStay, LockedEvents, eventsVars
    <3>1. CASE q = r
      BY <2>2, <2>5, <3>1 DEF w
    <3>2. CASE q # r
      BY <1>0, <2>4, <3>2 DEF LockedRowsStay, LockedEvents, Doing, Work
    <3> QED BY <3>1, <3>2
  <2>9. LinkedMapsAreOwners'
    BY <1>0, <2>1, LinksStay DEF eventsVars
  <2> QED BY <2>7, <2>8, <2>9
<1>4. ASSUME WritePatch(r)
      PROVE  ChecksHold' /\ LockedRowsStay' /\ LinkedMapsAreOwners'
  <2> DEFINE e == Work(r).event
             row == [event[e] EXCEPT !.owner = Work(r).owner, !.map = Work(r).map]
  <2>1. Doing(r, "patch") /\ Answered(r)
    BY <1>4 DEF WritePatch
  <2>2. /\ e \in Events /\ event[e] \in EventRow
        /\ Work(r).owner \in Users /\ Work(r).map \in Maps \cup {None}
    <3>1. /\ e \in Events /\ Work(r).owner \in Users /\ Work(r).map \in Maps \cup {None}
      BY <2>1, Works
    <3> QED BY <1>0, <2>1, <3>1 DEF LockedRowsStay, LockedEvents, TypeOK
  <2>3. row \in EventRow /\ row.owner = Work(r).owner /\ row.map = Work(r).map
    BY <2>2 DEF EventRow
  <2>4. \/ event' = event
        \/ event' = [event EXCEPT ![e] = row] /\ RefersToRows(Work(r).owner, Work(r).map)
    BY <1>4 DEF WritePatch
  <2> HIDE DEF row, e
  <2>5. row # None
    BY <2>3, EventsAssumption
  <2>6. Fades("post") /\ Fades("patch")
    BY <2>1, AnsweredFades
  <2>7. ChecksHold' /\ LockedRowsStay'
    <3>1. \A d \in Events : event[d] # None => event'[d] # None
      BY <2>2, <2>4, <2>5 DEF TypeOK
    <3> QED BY <1>0, <2>6, <3>1, ChecksStay, LocksFade, LockedAreEvents DEF LockedRowsStay
  <2>8. ASSUME NEW d \in Events
        PROVE  Linked(d)'
    <3>1. CASE event'[d] = event[d]
      BY <1>0, <3>1, LinkedIs DEF Linked
    <3>2. CASE event'[d] # event[d]
      <4>1. event'[d] = row /\ RefersToRows(Work(r).owner, Work(r).map)
        BY <2>2, <2>4, <3>2 DEF TypeOK
      <4>2. row.map # None => map[row.map].owner = row.owner
        BY <1>0, <2>1, <2>3, <4>1 DEF ChecksHold, RefersToRows
      <4> QED BY <1>0, <2>3, <4>1, <4>2 DEF RefersToRows, Linked
    <3> QED BY <3>1, <3>2
  <2> QED BY <2>7, <2>8, LinkedIs
<1>5. CASE \/ \E e \in Events : DeleteEvent(r, e)
           \/ \E e \in Events, takes \in BOOLEAN : SetParticipation(r, e, takes)
           \/ StoreFails(r) \/ SetCover(r) \/ SetCoverUnanswered(r)
  <2>1. Fades("post") /\ Fades("patch")
    BY <1>5, AnsweredFades
       DEF DeleteEvent, SetParticipation, StoreFails, SetCover, SetCoverUnanswered
  <2>2. PICK e \in Events :
          /\ event' = event \/ e \notin LockedEvents
          /\ \/ event' = event \/ event' = [event EXCEPT ![e] = None]
             \/ event[e] # None /\ event' = [event EXCEPT ![e].cover = Work(r).cover]
    BY <1>5, Works DEF DeleteEvent, SetParticipation, StoreFails, SetCover, SetCoverUnanswered
  <2>3. \A d \in Events : event'[d] # None =>
          event[d] # None /\ event'[d].owner = event[d].owner /\ event'[d].map = event[d].map
    <3>1. event[e] # None =>
            LET row == [event[e] EXCEPT !.cover = Work(r).cover]
            IN row.owner = event[e].owner /\ row.map = event[e].map
      BY DEF TypeOK, EventRow
    <3>2. \A d \in Events : \/ event'[d] = event[d] \/ event'[d] = None
                           \/ /\ d = e /\ event[e] # None
                              /\ event'[e] = [event[e] EXCEPT !.cover = Work(r).cover]
      BY <2>2 DEF TypeOK
    <3> QED BY <3>1, <3>2
  <2>4. \A d \in LockedEvents : d \in Events => event'[d] = event[d]
    BY <2>2 DEF TypeOK
  <2>5. LockedEvents \subseteq Events
    BY LockedAreEvents
  <2>6. LinkedMapsAreOwners'
    BY <1>0, <2>3, LinksStay
  <2>7. ChecksHold' /\ LockedRowsStay'
    BY <1>0, <2>1, <2>4, <2>5, ChecksStay, LocksFade DEF LockedRowsStay
  <2> QED BY <2>6, <2>7
<1>6. CASE \/ \E e \in Events, n \in Covers : StartCover(r, e, n)
           \/ StoreVariant(r)
           \/ \E e \in Events : StartNoCover(r, e)
  <2>1. event' = event
    BY <1>6 DEF StartCover, StoreVariant, StartNoCover, eventsVars
  <2>2. \E w \in WorkRow : /\ w.kind \in {"store", "set"} /\ request[r] \in Row
                           /\ GoesOn(r, w)
    <3>1. ASSUME NEW e \in Events, NEW n \in Covers, StartCover(r, e, n)
          PROVE  /\ [kind |-> "store", event |-> e, cover |-> n] \in WorkRow /\ request[r] \in Row
                 /\ GoesOn(r, [kind |-> "store", event |-> e, cover |-> n])
      BY <3>1, Begun DEF StartCover, WorkRow, EventWork
    <3>2. ASSUME NEW e \in Events, StartNoCover(r, e)
          PROVE  /\ [kind |-> "set", event |-> e, cover |-> None] \in WorkRow /\ request[r] \in Row
                 /\ GoesOn(r, [kind |-> "set", event |-> e, cover |-> None])
      BY <3>2, Begun DEF StartNoCover, WorkRow, EventWork
    <3>3. CASE StoreVariant(r)
      <4> DEFINE kind == IF files'[Work(r).cover] = Sizes THEN "set" ELSE "store"
                 w == [Work(r) EXCEPT !.kind = kind]
      <4>1. request[r] \in Row /\ GoesOn(r, w) /\ w \in WorkRow
        BY <3>3, Works DEF StoreVariant
      <4>2. w.kind = kind
        <5>1. Work(r) \in [kind: {"store"}, event: Events, cover: Covers]
          BY <3>3, Works DEF StoreVariant
        <5> QED BY <5>1
      <4>3. kind \in {"store", "set"}
        OBVIOUS
      <4> HIDE DEF kind, w
      <4> QED BY <4>1, <4>2, <4>3
    <3> QED BY <1>6, <3>1, <3>2, <3>3
  <2>3. Fades("post") /\ Fades("patch")
    BY <2>2, GoesOnFades
  <2>4. ChecksHold' /\ LockedRowsStay'
    BY <1>0, <2>1, <2>3, ChecksStay, LocksFade DEF LockedRowsStay
  <2>5. LinkedMapsAreOwners'
    BY <1>0, <2>1, LinksStay
  <2> QED BY <2>4, <2>5
<1> QED BY <1>1, <1>2, <1>3, <1>4, <1>5, <1>6 DEF EventStep

LEMMA EventRows ==
  ASSUME TypeOK, NEW e \in Events, event[e] # None
  PROVE  /\ event[e] \in EventRow /\ [event[e] EXCEPT !.map = None] \in EventRow
         /\ \A u \in Users : [event[e] EXCEPT !.owner = u] \in EventRow
<1>1. event[e] \in EventRow
  BY DEF TypeOK
<1> QED BY <1>1 DEF EventRow

LEMMA MapStepsKeepLinks ==
  ASSUME TypeOK, LinksInv, NEW r \in Requests, MapStep(r), UNCHANGED eventsVars
  PROVE  ChecksHold' /\ LockedRowsStay' /\ LinkedMapsAreOwners'
<1>1. Fades("post") /\ Fades("patch") /\ event' = event
  BY MapStepFades DEF eventsVars
<1>2. MapsOwnersKept /\ \A m \in mapsMade : map[m] # None => map'[m] # None
  BY MapStepsKeepOwners DEF LinksInv
<1> QED BY <1>1, <1>2, ChecksStay, LocksFade, LinksStay DEF LinksInv, LockedRowsStay

LEMMA DropMapKeepsLinks ==
  ASSUME TypeOK, LinksInv, NEW r \in Requests, NEW m \in Maps, DropMap(r, m)
  PROVE  ChecksHold' /\ LockedRowsStay' /\ LinkedMapsAreOwners'
<1>1. /\ Answered(r) /\ map' = [map EXCEPT ![m] = None] /\ mapsMade' = mapsMade
      /\ event' = [e \in Events |-> IF event[e] # None /\ event[e].map \in {m}
                                    THEN [event[e] EXCEPT !.map = None] ELSE event[e]]
  BY DEF DropMap, DeleteMap, UnlinkMaps
<1>2. Fades("post") /\ Fades("patch") /\ UNCHANGED alive
  BY <1>1, AnsweredFades DEF Answered
<1>3. MapsOwnersKept
  BY <1>1, <1>2 DEF MapsOwnersKept, TypeOK
<1>4. \A e \in Events : event[e] # None => [event[e] EXCEPT !.map = None] \in EventRow
  BY EventRows
<1>5. \A e \in Events : event[e] # None => event'[e] # None
  BY <1>1, <1>4, EventsAssumption
<1>6. ASSUME NEW e \in Events
      PROVE  Linked(e)'
  <2>1. CASE event[e] # None /\ event[e].map = m
    <3>1. event'[e].map = None
      BY <1>1, <2>1 DEF TypeOK, EventRow
    <3> QED BY <3>1 DEF Linked
  <2>2. CASE event[e] = None \/ event[e].map # m
    <3>1. event'[e] = event[e]
      BY <1>1, <2>2
    <3>2. event[e] # None /\ event[e].map # None => event[e].map \in Maps
      BY DEF TypeOK, EventRow
    <3> QED BY <1>1, <2>2, <3>1, <3>2, LinkedIs DEF LinksInv, Linked, TypeOK
  <2> QED BY <2>1, <2>2
<1> QED BY <1>2, <1>3, <1>5, <1>6, ChecksStay, LocksFade, LinkedIs, LockedAreEvents
        DEF LinksInv, LockedRowsStay

\* A merge moves a map and what is linked to it together, and what a handler has
\* checked for the source's account the foreign key refuses from now on.
LEMMA MergeKeepsLinks ==
  ASSUME TypeOK, LinksInv, NEW source \in Users, NEW target \in Users,
         MergeAccounts(source, target)
  PROVE  ChecksHold' /\ LockedRowsStay' /\ LinkedMapsAreOwners'
<1>1. /\ alive' = alive \ {source} /\ {source, target} \subseteq alive /\ source # target
      /\ request' = request /\ mapsMade' = mapsMade
      /\ map' = Repointed(map, source, target) /\ event' = Repointed(event, source, target)
  BY DEF MergeAccounts, MergeOwners, MergeMaps, MergeEvents
<1>2. ASSUME NEW m \in Maps
      PROVE  /\ map'[m] # None <=> map[m] # None
             /\ map[m] # None => map'[m].owner = IF map[m].owner = source THEN target
                                                 ELSE map[m].owner
  <2>1. map'[m] = IF map[m] # None /\ map[m].owner = source
                  THEN [map[m] EXCEPT !.owner = target] ELSE map[m]
    BY <1>1 DEF Repointed, TypeOK
  <2>2. map[m] # None => map[m] \in MapRow /\ [map[m] EXCEPT !.owner = target] \in MapRow
    <3>1. map[m] # None => map[m] \in MapRow
      BY DEF TypeOK
    <3> QED BY <3>1 DEF MapRow
  <2> QED BY <2>1, <2>2, MapsAssumption DEF MapRow
<1>3. ASSUME NEW e \in Events
      PROVE  /\ event'[e] # None <=> event[e] # None
             /\ event[e] # None =>
                  /\ event'[e].owner = IF event[e].owner = source THEN target ELSE event[e].owner
                  /\ event'[e].map = event[e].map
  <2>1. event'[e] = IF event[e] # None /\ event[e].owner = source
                    THEN [event[e] EXCEPT !.owner = target] ELSE event[e]
    BY <1>1 DEF Repointed, TypeOK
  <2>2. event[e] # None => event[e] \in EventRow /\ [event[e] EXCEPT !.owner = target] \in EventRow
    BY EventRows
  <2> QED BY <2>1, <2>2, EventsAssumption DEF EventRow
<1>4. ChecksHold'
  <2> SUFFICES ASSUME NEW r \in Requests, Doing(r, "post") \/ Doing(r, "patch"),
                      Work(r).map # None
               PROVE  /\ Work(r).map \in mapsMade
                      /\ map'[Work(r).map] # None /\ Work(r).owner \in alive'
                           => map'[Work(r).map].owner = Work(r).owner
    BY <1>1 DEF ChecksHold, Doing, Work
  <2>1. Work(r).map \in Maps
    BY Works
  <2> QED BY <1>1, <1>2, <2>1 DEF LinksInv, ChecksHold
<1>5. LockedRowsStay'
  BY <1>1, <1>3, LockedAreEvents DEF LinksInv, LockedRowsStay, LockedEvents, Doing, Work
<1>6. ASSUME NEW e \in Events
      PROVE  Linked(e)'
  <2>1. CASE event[e] # None /\ event[e].map # None
    <3>1. event[e].map \in Maps /\ map[event[e].map] # None
          /\ map[event[e].map].owner = event[e].owner
      BY <2>1, LinkedIs DEF LinksInv, Linked, TypeOK, EventRow
    <3> QED BY <1>2, <1>3, <2>1, <3>1 DEF Linked
  <2>2. CASE event[e] = None \/ event[e].map = None
    BY <1>3, <2>2 DEF Linked
  <2> QED BY <2>1, <2>2
<1> QED BY <1>4, <1>5, <1>6, LinkedIs

LEMMA DeleteKeepsLinks ==
  ASSUME TypeOK, LinksInv, NEW u \in Users, DeleteAccount(u)
  PROVE  ChecksHold' /\ LockedRowsStay' /\ LinkedMapsAreOwners'
<1> DEFINE gone == {m \in Maps : map[m] # None /\ map[m].owner = u}
           kept == WithoutOwner(event, u)
<1>1. /\ alive' = alive \ {u} /\ request' = request /\ mapsMade' = mapsMade
      /\ map' = WithoutOwner(map, u) /\ OwnedEvents(u) \cap LockedEvents = {}
      /\ event' = [e \in Events |-> IF kept[e] # None /\ kept[e].map \in gone
                                    THEN [kept[e] EXCEPT !.map = None] ELSE kept[e]]
  BY DEF DeleteAccount, DeleteOwner, DeleteMapsOf, DeleteEventsOf
<1>2. \A m \in Maps : map'[m] = IF m \in gone THEN None ELSE map[m]
  BY <1>1 DEF WithoutOwner, TypeOK
<1>3. \A e \in Events : kept[e] = IF e \in OwnedEvents(u) THEN None ELSE event[e]
  BY DEF WithoutOwner, OwnedEvents, TypeOK
<1>4. \A e \in Events : event[e] # None => [event[e] EXCEPT !.map = None] \in EventRow
  BY EventRows
<1> HIDE DEF kept, gone
<1>5. \A e \in Events \ OwnedEvents(u) : event[e] # None => event'[e] # None
  BY <1>1, <1>3, <1>4, EventsAssumption
<1>6. Fades("post") /\ Fades("patch")
  BY <1>1, KeptFades
<1>7. MapsOwnersKept
  BY <1>1, <1>2 DEF MapsOwnersKept, TypeOK
<1>8. LockedRowsStay'
  BY <1>1, <1>5, <1>6, LocksFade, LockedAreEvents DEF LinksInv, LockedRowsStay
<1>9. ASSUME NEW e \in Events
      PROVE  Linked(e)'
  <2>1. CASE e \in OwnedEvents(u) \/ event[e] = None
    BY <1>1, <1>3, <2>1 DEF Linked
  <2>2. CASE e \notin OwnedEvents(u) /\ event[e] # None /\ event[e].map \in gone
    <3>1. event'[e].map = None
      BY <1>1, <1>3, <2>2 DEF TypeOK, EventRow
    <3> QED BY <3>1 DEF Linked
  <2>3. CASE e \notin OwnedEvents(u) /\ event[e] # None /\ event[e].map \notin gone
    <3>1. event'[e] = event[e]
      BY <1>1, <1>3, <2>3
    <3>2. event[e].map # None => event[e].map \in Maps
      BY <2>3 DEF TypeOK, EventRow
    <3> QED BY <1>2, <2>3, <3>1, <3>2, LinkedIs DEF LinksInv, Linked
  <2> QED BY <2>1, <2>2, <2>3
<1> QED BY <1>6, <1>7, <1>8, <1>9, ChecksStay, LinkedIs DEF LinksInv

LEMMA LinksInvNext ==
  ASSUME TypeOK, TypeOK', LinksInv, [Next]_vars
  PROVE  LinksInv'
<1>1. MapsInv'
  BY MapsInvNext DEF LinksInv
<1>2. CASE MapsNext
  BY <1>1, <1>2, MapStepsKeepLinks, DropMapKeepsLinks DEF MapsNext, LinksInv
<1>3. ASSUME NEW r \in Requests, EventStep(r), UNCHANGED mapsVars
      PROVE  LinksInv'
  BY <1>1, <1>3, EventStepsKeepLinks DEF LinksInv
<1>4. CASE AccountStep
  BY <1>1, <1>4, MergeKeepsLinks, DeleteKeepsLinks DEF AccountStep, LinksInv
<1>5. CASE \/ \E n \in Covers : RemoveCover(n) /\ UNCHANGED <<mapsVars, galleryVars>>
           \/ GalleryNext \/ Restart \/ Time \/ UNCHANGED vars
           \/ \E r \in Requests : Arrival(r)
  <2>1. UNCHANGED <<map, mapsMade, event>>
    BY <1>5 DEF RemoveCover, GalleryNext, Restart, RestartEvents, Time, vars, Arrival, Refused,
                mapsVars, eventsVars
  <2>2. Fades("post") /\ Fades("patch") /\ UNCHANGED alive
    <3>1. CASE \E n \in Covers : RemoveCover(n) /\ UNCHANGED <<mapsVars, galleryVars>>
      BY <3>1, KeptFades DEF RemoveCover, ownersVars
    <3>2. CASE GalleryNext
      BY <3>2, GalleryStepFades, RequestsKeepAccounts DEF GalleryNext
    <3>3. CASE Restart \/ Time \/ UNCHANGED vars \/ \E r \in Requests : Arrival(r)
      <4>1. Fades("post") /\ Fades("patch")
        BY <3>3, SharedFades DEF SharedNext
      <4>2. UNCHANGED alive
        BY <3>3 DEF Restart, Time, Tick, vars, ownersVars, Arrival, Refused, Authenticate, Answered
      <4> QED BY <4>1, <4>2
    <3> QED BY <1>5, <3>1, <3>2, <3>3
  <2>3. MapsOwnersKept
    BY <2>1, <2>2 DEF MapsOwnersKept
  <2> QED BY <1>1, <2>1, <2>2, <2>3, ChecksStay, LocksFade, LinksStay DEF LinksInv, LockedRowsStay
<1> QED BY <1>2, <1>3, <1>4, <1>5 DEF Next, EventsNext, SharedNext

LEMMA LinksInvInit == Init => LinksInv
BY DEF Init, OwnersInit, MapsInit, EventsInit, LinksInv, MapsInv, ChecksHold, LockedRowsStay,
       LockedEvents, Doing, LinkedMapsAreOwners, GuardedEditsLoseNothing

LEMMA AlwaysLinksInv == Spec => [](TypeOK /\ LinksInv)
<1>1. Init => TypeOK /\ LinksInv
  BY TypedInit, LinksInvInit
<1>2. TypeOK /\ LinksInv /\ [Next]_vars => (TypeOK /\ LinksInv)'
  BY TypedNext, LinksInvNext DEF LinksInv
<1> QED BY <1>1, <1>2, PTL DEF Spec

\* Every variable stays within its type: what a handler keeps between its steps is
\* what it was given, and a row that is under its lock is there.
THEOREM TypeCorrect == Spec => []TypeOK
BY AlwaysLinksInv, PTL

\* If-Unmodified-Since keeps a client from overwriting an edition it has not seen,
\* to the second, for any number of editors, editions, merges and deletions.
THEOREM GuardedEditsAreSafe == Spec => []GuardedEditsLoseNothing
<1>1. LinksInv => GuardedEditsLoseNothing
  BY DEF LinksInv, MapsInv
<1> QED BY <1>1, AlwaysLinksInv, PTL

\* An event's linked map is its owner's, although the handlers check it by a
\* snapshot and write later.
THEOREM LinksStayOwners == Spec => []LinkedMapsAreOwners
<1>1. LinksInv => LinkedMapsAreOwners
  BY DEF LinksInv
<1> QED BY <1>1, AlwaysLinksInv, PTL

-------------------------------------------------------------------------------
(* Covers *)

LEMMA OthersGoOn ==
  ASSUME TypeOK, NEW r \in Requests, MapStep(r) \/ EventStep(r) \/ GalleryStep(r) \/ Arrival(r)
  PROVE  \A q \in Requests : q # r => request'[q] = request[q]
<1>1. ASSUME NEW x, request' = [request EXCEPT ![r] = x]
      PROVE  \A q \in Requests : q # r => request'[q] = request[q]
  BY <1>1 DEF TypeOK
<1>2. ASSUME Answered(r) \/ \E w : GoesOn(r, w)
      PROVE  \A q \in Requests : q # r => request'[q] = request[q]
  BY <1>2, <1>1 DEF Answered, GoesOn, TypeOK
<1>3. CASE MapStep(r)
  BY <1>2, <1>3 DEF MapStep, PostMap, PostWriters, GetMap, PatchMap
<1>4. CASE EventStep(r)
  BY <1>2, <1>4 DEF EventStep, OpenPost, WritePost, OpenPatch, WritePatch, DeleteEvent,
              SetParticipation, StartCover, StoreVariant, StoreFails, StartNoCover, SetCover,
              SetCoverUnanswered
<1>5. CASE GalleryStep(r)
  BY <1>2, <1>5 DEF GalleryStep, Upload, InsertPicture, PutPicture, OpenSetAll, WriteSetAll,
              SetAllPremium, DeletePicture, Unlink, Comment, Rate
<1>6. CASE Arrival(r)
  BY <1>1, <1>2, <1>6 DEF Arrival, Refused, Authenticate
<1> QED BY <1>3, <1>4, <1>5, <1>6

\* Uploads are as they were.
UploadsKept ==
  \A r \in Requests : \A n \in Covers : /\ Used(n, r)' <=> Used(n, r)
                                        /\ Stored(n, r)' <=> Stored(n, r)
CoversKept ==
  /\ UploadsKept /\ UNCHANGED <<files, removing, coversMade, strays>>
  /\ \A e \in Events : \A n \in Covers : Named(n, e)' <=> Named(n, e)

LEMMA CoversStay ==
  ASSUME CoversKept, NEW n \in Covers, HasOnePlace(n)
  PROVE  HasOnePlace(n)'
<1>1. IsNamed(n)' <=> IsNamed(n)
  BY DEF CoversKept, IsNamed
<1> QED BY <1>1 DEF CoversKept, UploadsKept, HasOnePlace

\* Who was at no upload, and begins none, keeps them.
LEMMA UploadsStay ==
  ASSUME TypeOK, NEW r \in Requests, ~Doing(r, "store"), ~Doing(r, "set"),
         \A q \in Requests : q # r => request'[q] = request[q],
         Fades("store"), Fades("set")
  PROVE  UploadsKept
<1> SUFFICES ASSUME NEW q \in Requests, NEW n \in Covers
             PROVE  /\ Used(n, q)' <=> Used(n, q)
                    /\ Stored(n, q)' <=> Stored(n, q)
  BY DEF UploadsKept
<1>1. CASE q = r
  BY <1>1 DEF Fades, Used, Stored
<1>2. CASE q # r
  BY <1>2 DEF Doing, Used, Stored, Work
<1> QED BY <1>1, <1>2

LEMMA SameRequests ==
  ASSUME request' = request
  PROVE  UploadsKept
BY DEF UploadsKept, Used, Stored, Doing, Work

\* Work on maps and pictures, and arrivals, leave uploads alone.
LEMMA OtherWork ==
  ASSUME TypeOK, NEW r \in Requests, MapStep(r) \/ GalleryStep(r) \/ Arrival(r)
  PROVE  UploadsKept
<1>1. Fades("store") /\ Fades("set")
  BY MapStepFades, GalleryStepFades, SharedFades DEF SharedNext
<1>2. ~Doing(r, "store") /\ ~Doing(r, "set")
  <2>1. CASE MapStep(r)
    BY <2>1 DEF MapStep, PostMap, PostWriters, GetMap, PatchMap, Begins, Doing
  <2>2. CASE GalleryStep(r)
    BY <2>2 DEF GalleryStep, Upload, InsertPicture, PutPicture, OpenSetAll, WriteSetAll,
                SetAllPremium, DeletePicture, Unlink, Comment, Rate, Begins, Doing
  <2>3. CASE Arrival(r)
    BY <2>3 DEF Arrival, Refused, Authenticate, Begins, Doing
  <2> QED BY <2>1, <2>2, <2>3
<1> QED BY <1>1, <1>2, OthersGoOn, UploadsStay

LEMMA OthersKeepUploads ==
  ASSUME NEW r \in Requests, \A q \in Requests : q # r => request'[q] = request[q]
  PROVE  \A q \in Requests : q # r =>
           \A n \in Covers : (Used(n, q)' <=> Used(n, q)) /\ (Stored(n, q)' <=> Stored(n, q))
BY DEF Used, Stored, Doing, Work

\* Who was at no upload, and goes on with none, keeps them.
LEMMA NoUpload ==
  ASSUME NEW r \in Requests, \A q \in Requests : q # r => request'[q] = request[q],
         \A n \in Covers : ~Used(n, r) /\ ~Used(n, r)'
  PROVE  UploadsKept
<1>1. \A n \in Covers : ~Stored(n, r) /\ ~Stored(n, r)'
  BY DEF Used
<1> QED BY <1>1, OthersKeepUploads DEF UploadsKept

LEMMA AnswersUse ==
  ASSUME TypeOK, NEW r \in Requests, Answered(r)
  PROVE  \A n \in Covers : ~Used(n, r)' /\ ~Stored(n, r)'
BY AnswersFade DEF Used, Stored, Doing

LEMMA WorksUse ==
  ASSUME TypeOK, NEW r \in Requests, request[r] \in Row, NEW w \in WorkRow, GoesOn(r, w)
  PROVE  \A n \in Covers : /\ Stored(n, r)' <=> w.kind = "set" /\ w.cover = n
                           /\ Used(n, r)' <=> w.kind \in {"store", "set"} /\ w.cover = n
<1>1. request'[r] = [user |-> Caller(r), doing |-> w]
  BY WorksGoOn
<1>2. request'[r] # None /\ w # None
  <2>1. [user |-> Caller(r), doing |-> w] \in RequestRow(WorkRow)
    BY DEF Row, RequestRow, Caller
  <2> QED BY <1>1, <2>1, ContentAssumption
<1> QED BY <1>1, <1>2 DEF Used, Stored, Doing, Work

\* Rows that keep their covers.
SameCovers ==
  \A e \in Events : event'[e] = event[e]
                    \/ /\ event[e] # None /\ event'[e] # None
                       /\ event'[e].cover = event[e].cover

LEMMA NamesStay ==
  ASSUME SameCovers
  PROVE  \A e \in Events : \A n \in Covers : Named(n, e)' <=> Named(n, e)
BY DEF SameCovers, Named

\* Work on events other than their covers, and what begins it.
LEMMA PlainStepsKeepCovers ==
  ASSUME TypeOK, LockedRowsStay, CoversInv, NEW r \in Requests,
         \/ \E u \in Users, m \in Maps \cup {None}, k \in Keys \cup {None} : OpenPost(r, u, m, k)
         \/ \E e \in Events : WritePost(r, e)
         \/ \E e \in Events, u \in Users, m \in Maps \cup {None} : OpenPatch(r, e, u, m)
         \/ WritePatch(r)
         \/ \E e \in Events, takes \in BOOLEAN : SetParticipation(r, e, takes)
         \/ \E e \in Events : StartNoCover(r, e)
  PROVE  CoversInv'
<1>1. \A q \in Requests : q # r => request'[q] = request[q]
  BY OthersGoOn DEF EventStep
<1>2. \A n \in Covers : ~Used(n, r)
  BY DEF OpenPost, WritePost, OpenPatch, WritePatch, SetParticipation, StartNoCover, Begins,
         Doing, Used, Stored
<1>3. \A n \in Covers : ~Used(n, r)'
  <2>1. ASSUME NEW w \in WorkRow, Begins(r), GoesOn(r, w),
               w.kind \in {"post", "patch"} \/ w.cover = None
        PROVE  \A n \in Covers : ~Used(n, r)'
    BY <2>1, Begun, WorksUse, EventsAssumption
  <2>2. ASSUME NEW u \in Users, NEW m \in Maps \cup {None}, NEW k \in Keys \cup {None},
               OpenPost(r, u, m, k)
        PROVE  \A n \in Covers : ~Used(n, r)'
    <3> DEFINE w == [kind |-> "post", owner |-> u, map |-> m, key |-> k]
    <3>1. w \in WorkRow /\ w.kind = "post"
      BY DEF WorkRow, EventWork
    <3> HIDE DEF w
    <3> QED BY <2>1, <2>2, <3>1 DEF OpenPost, w
  <2>3. ASSUME NEW e \in Events, NEW u \in Users, NEW m \in Maps \cup {None}, OpenPatch(r, e, u, m)
        PROVE  \A n \in Covers : ~Used(n, r)'
    <3> DEFINE w == [kind |-> "patch", event |-> e, owner |-> u, map |-> m]
    <3>1. w \in WorkRow /\ w.kind = "patch"
      BY DEF WorkRow, EventWork
    <3> HIDE DEF w
    <3> QED BY <2>1, <2>3, <3>1 DEF OpenPatch, w
  <2>4. ASSUME NEW e \in Events, StartNoCover(r, e)
        PROVE  \A n \in Covers : ~Used(n, r)'
    <3> DEFINE w == [kind |-> "set", event |-> e, cover |-> None]
    <3>1. w \in WorkRow /\ w.cover = None
      BY DEF WorkRow, EventWork
    <3> HIDE DEF w
    <3> QED BY <2>1, <2>4, <3>1 DEF StartNoCover, w
  <2>5. CASE Answered(r)
    BY <2>5, AnswersUse
  <2> QED BY <2>2, <2>3, <2>4, <2>5 DEF WritePost, WritePatch, SetParticipation
<1>4. UploadsKept
  BY <1>1, <1>2, <1>3, NoUpload
<1>5. UNCHANGED <<files, removing, coversMade, strays>>
  BY DEF OpenPost, WritePost, OpenPatch, WritePatch, SetParticipation, StartNoCover, eventsVars
<1>6. /\ \A e \in Events : \A n \in Covers : Named(n, e)' <=> Named(n, e)
      /\ \A e \in Events : event'[e] # None => e \in eventsMade'
  <2>1. CASE UNCHANGED <<event, eventsMade>>
    BY <2>1 DEF Named, CoversInv
  <2>2. ASSUME NEW x \in Events, WritePost(r, x),
               event' = [event EXCEPT ![x] =
                       [owner |-> Work(r).owner, map |-> Work(r).map, key |-> Work(r).key,
                        cover |-> None]],
               eventsMade' = eventsMade \cup {x}
        PROVE  <1>6!:
    <3>1. event[x] = None
      BY <2>2 DEF WritePost, CoversInv
    <3>2. /\ event'[x].cover = None
          /\ \A e \in Events : e # x => event'[e] = event[e]
      BY <2>2 DEF TypeOK
    <3>3. \A n \in Covers : ~Named(n, x) /\ ~Named(n, x)'
      BY <3>1, <3>2, EventsAssumption DEF Named
    <3> QED BY <2>2, <3>2, <3>3 DEF Named, CoversInv
  <2>3. CASE WritePatch(r)
    <3> DEFINE x == Work(r).event
    <3>1. x \in Events /\ event[x] # None /\ event[x] \in EventRow
      BY <2>3, Works DEF WritePatch, LockedRowsStay, LockedEvents, TypeOK
    <3>2. CASE event' = [event EXCEPT ![x].owner = Work(r).owner, ![x].map = Work(r).map]
      <4>1. /\ event'[x].cover = event[x].cover /\ event'[x] \in EventRow
            /\ \A e \in Events : e # x => event'[e] = event[e]
        <5>1. event'[x] = [event[x] EXCEPT !.owner = Work(r).owner, !.map = Work(r).map]
          BY <3>1, <3>2 DEF TypeOK
        <5>2. Work(r).owner \in Users /\ Work(r).map \in Maps \cup {None}
          BY <2>3, Works DEF WritePatch
        <5>3. event'[x].cover = event[x].cover /\ event'[x] \in EventRow
          BY <3>1, <5>1, <5>2 DEF EventRow
        <5> QED BY <3>2, <5>3 DEF TypeOK
      <4>2. SameCovers
        BY <3>1, <4>1, EventsAssumption DEF SameCovers
      <4>3. \A e \in Events : event'[e] # None => event[e] # None
        BY <3>1, <4>1
      <4>4. eventsMade' = eventsMade
        BY <2>3 DEF WritePatch
      <4> QED BY <4>2, <4>3, <4>4, NamesStay DEF CoversInv
    <3>3. CASE event' = event
      BY <2>1, <2>3, <3>3 DEF WritePatch
    <3> QED BY <2>3, <3>2, <3>3 DEF WritePatch
  <2> QED BY <2>1, <2>2, <2>3 DEF OpenPost, WritePost, OpenPatch, SetParticipation, StartNoCover,
                                  eventsVars
<1> QED BY <1>4, <1>5, <1>6, CoversStay DEF CoversKept, CoversInv

\* The name of a new cover was nobody's.
LEMMA NewNames ==
  ASSUME TypeOK, CoversInv, NEW n \in Covers, n \notin coversMade
  PROVE  /\ \A r \in Requests : ~Used(n, r)
         /\ n \notin removing /\ n \notin strays /\ ~IsNamed(n) /\ files[n] = {}
<1>1. HasOnePlace(n)
  BY DEF CoversInv
<1> QED BY <1>1 DEF HasOnePlace

LEMMA StartKeepsCovers ==
  ASSUME TypeOK, CoversInv, NEW r \in Requests, NEW e \in Events, NEW c \in Covers,
         StartCover(r, e, c)
  PROVE  CoversInv'
<1> DEFINE w == [kind |-> "store", event |-> e, cover |-> c]
<1>1. w \in WorkRow /\ w.kind = "store" /\ w.cover = c
  BY DEF WorkRow, EventWork
<1>2. /\ GoesOn(r, w) /\ request[r] \in Row /\ c \notin coversMade
      /\ coversMade' = coversMade \cup {c}
      /\ UNCHANGED <<event, eventsMade, files, removing, strays>>
  BY Begun DEF StartCover
<1> HIDE DEF w
<1>3. \A q \in Requests : q # r =>
        \A n \in Covers : (Used(n, q)' <=> Used(n, q)) /\ (Stored(n, q)' <=> Stored(n, q))
  BY <1>1, <1>2, WorksGoOn, OthersKeepUploads
<1>4. \A n \in Covers : ~Stored(n, r)' /\ (Used(n, r)' <=> n = c)
  BY <1>1, <1>2, WorksUse
<1>5. \A n \in Covers : ~Used(n, r)
  BY DEF StartCover, Begins, Doing, Used, Stored
<1>6. ASSUME NEW n \in Covers
      PROVE  HasOnePlace(n)'
  <2>1. HasOnePlace(n) /\ (IsNamed(n)' <=> IsNamed(n))
        /\ \A d \in Events : Named(n, d)' <=> Named(n, d)
    BY <1>2 DEF CoversInv, IsNamed, Named
  <2>2. CASE n = c
    <3>1. /\ \A q \in Requests : ~Used(n, q)
          /\ n \notin removing /\ n \notin strays /\ ~IsNamed(n) /\ files[n] = {}
      BY <1>2, <2>2, NewNames
    <3>2. \A q \in Requests : Used(n, q)' => q = r
      BY <1>3, <3>1
    <3> QED BY <1>2, <1>4, <2>1, <2>2, <3>1, <3>2 DEF HasOnePlace, IsNamed
  <2>3. CASE n # c
    <3>1. \A q \in Requests : (Used(n, q)' <=> Used(n, q)) /\ (Stored(n, q)' => Stored(n, q))
      BY <1>3, <1>4, <1>5, <2>3
    <3> QED BY <1>2, <2>1, <2>3, <3>1 DEF HasOnePlace
  <2> QED BY <2>2, <2>3
<1> QED BY <1>2, <1>6 DEF CoversInv

LEMMA StoreKeepsCovers ==
  ASSUME TypeOK, CoversInv, NEW r \in Requests, StoreVariant(r)
  PROVE  CoversInv'
<1> DEFINE c == Work(r).cover
           w == [Work(r) EXCEPT !.kind = IF files'[c] = Sizes THEN "set" ELSE "store"]
<1>1. Doing(r, "store") /\ c \in Covers /\ request[r] \in Row
  BY Works DEF StoreVariant
<1>2. /\ files' = [files EXCEPT ![c] = IF @ = {} THEN {"large"} ELSE Sizes]
      /\ GoesOn(r, w) /\ UNCHANGED <<event, eventsMade, removing, coversMade, strays>>
  BY DEF StoreVariant
<1>3. Work(r) \in [kind: {"store"}, event: Events, cover: Covers]
  BY <1>1, Works
<1>4. /\ w \in WorkRow /\ w.cover = c
      /\ w.kind = IF files'[c] = Sizes THEN "set" ELSE "store"
  BY <1>3 DEF WorkRow, EventWork
<1> HIDE DEF w
<1>5. \A q \in Requests : q # r =>
        \A n \in Covers : (Used(n, q)' <=> Used(n, q)) /\ (Stored(n, q)' <=> Stored(n, q))
  BY <1>1, <1>2, <1>4, WorksGoOn, OthersKeepUploads
<1>6. \A n \in Covers : /\ Used(n, r)' <=> n = c
                        /\ Stored(n, r)' => n = c /\ files'[c] = Sizes
  BY <1>1, <1>2, <1>4, WorksUse
<1>7. \A n \in Covers : Used(n, r) <=> n = c
  BY <1>1 DEF Used, Stored, Doing
<1>8. \A n \in Covers : n # c => files'[n] = files[n]
  BY <1>1, <1>2 DEF TypeOK
<1> HIDE DEF c
<1>9. ASSUME NEW n \in Covers
      PROVE  HasOnePlace(n)'
  <2>1. HasOnePlace(n) /\ (IsNamed(n)' <=> IsNamed(n))
        /\ \A d \in Events : Named(n, d)' <=> Named(n, d)
    BY <1>2 DEF CoversInv, IsNamed, Named
  <2>2. \A q \in Requests : Used(n, q)' <=> Used(n, q)
    BY <1>5, <1>6, <1>7
  <2>3. CASE n = c
    <3>1. \A q \in Requests : Used(n, q) => q = r
      BY <1>7, <2>1, <2>3 DEF HasOnePlace
    <3> QED BY <1>2, <1>6, <1>7, <2>1, <2>2, <2>3, <3>1 DEF HasOnePlace
  <2>4. CASE n # c
    <3>1. \A q \in Requests : Stored(n, q)' => Stored(n, q)
      BY <1>5, <1>6, <2>4
    <3> QED BY <1>2, <1>8, <2>1, <2>2, <2>4, <3>1 DEF HasOnePlace
  <2> QED BY <2>3, <2>4
<1> QED BY <1>2, <1>9 DEF CoversInv

LEMMA CoversOfAre ==
  ASSUME NEW es \in SUBSET Events, NEW n \in Covers
  PROVE  n \in CoversOf(es) <=> \E e \in es : Named(n, e)
BY EventsAssumption DEF CoversOf, Named

\* A request that ends gives its name up.
LEMMA EndedUploads ==
  ASSUME TypeOK, NEW r \in Requests, Answered(r)
  PROVE  \A n \in Covers : \A q \in Requests :
           /\ Used(n, q)' <=> Used(n, q) /\ q # r
           /\ Stored(n, q)' <=> Stored(n, q) /\ q # r
<1>1. \A q \in Requests : q # r => request'[q] = request[q]
  BY AnswersFade
<1> QED BY <1>1, OthersKeepUploads, AnswersUse

LEMMA FailedUploadsGo ==
  ASSUME TypeOK, CoversInv, NEW r \in Requests, Doing(r, "store") \/ Doing(r, "set"), Answered(r),
         removing' = removing \cup Leftover(r),
         UNCHANGED <<event, eventsMade, files, coversMade, strays>>
  PROVE  CoversInv'
<1>1. \A n \in Covers : Used(n, r) <=> n \in Leftover(r)
  BY EventsAssumption DEF Used, Stored, Leftover
<1>2. ASSUME NEW n \in Covers
      PROVE  HasOnePlace(n)'
  <2>1. HasOnePlace(n) /\ (IsNamed(n)' <=> IsNamed(n))
        /\ \A d \in Events : Named(n, d)' <=> Named(n, d)
    BY DEF CoversInv, IsNamed, Named
  <2>2. \A q \in Requests : /\ Used(n, q)' <=> Used(n, q) /\ q # r
                            /\ Stored(n, q)' <=> Stored(n, q) /\ q # r
    BY EndedUploads
  <2>3. n \in removing' <=> n \in removing \/ Used(n, r)
    BY <1>1
  <2> QED BY <2>1, <2>2, <2>3 DEF HasOnePlace
<1> QED BY <1>2 DEF CoversInv

\* A cover set replaces the event's, and nobody else has that one.
LEMMA SetKeepsCovers ==
  ASSUME TypeOK, CoversInv, NEW r \in Requests, SetCover(r) \/ SetCoverUnanswered(r)
  PROVE  CoversInv'
<1> DEFINE e == Work(r).event
           c == Work(r).cover
<1>1. Doing(r, "set") /\ Answered(r) /\ e \in Events /\ c \in Covers \cup {None}
  BY Works DEF SetCover, SetCoverUnanswered
<1>2. CASE SetCover(r) /\ ~(event[e] # None /\ CanWriteEvent(r, e))
  BY <1>1, <1>2, FailedUploadsGo DEF SetCover
<1>3. CASE \/ SetCover(r) /\ event[e] # None /\ CanWriteEvent(r, e)
           \/ SetCoverUnanswered(r)
  <2>1. /\ event[e] # None /\ event' = [event EXCEPT ![e].cover = c]
        /\ UNCHANGED <<eventsMade, files, coversMade>>
    BY <1>3 DEF SetCover, SetCoverUnanswered
  <2>2. \A n \in Covers : /\ Used(n, r) <=> n = c
                          /\ Stored(n, r) <=> n = c
                          /\ n \in Leftover(r) <=> n = c
    BY <1>1, EventsAssumption DEF Used, Stored, Leftover, Doing
  <2>3. /\ event'[e] \in EventRow /\ event'[e].cover = c
        /\ \A d \in Events : d # e => event'[d] = event[d]
    <3>1. event[e] \in EventRow
      BY <1>1, <2>1 DEF TypeOK
    <3>2. event'[e] = [event[e] EXCEPT !.cover = c]
      BY <1>1, <2>1 DEF TypeOK
    <3> QED BY <1>1, <2>1, <3>1, <3>2 DEF EventRow, TypeOK
  <2>4. \A n \in Covers : \A d \in Events : Named(n, d)' <=> IF d = e THEN n = c ELSE Named(n, d)
    BY <2>3, EventsAssumption DEF Named
  <2>5. \A n \in Covers : n \in CoversOf({e}) <=> Named(n, e)
    BY <1>1, CoversOfAre
  <2>6. CASE SetCover(r)
    <3>1. removing' = removing \cup CoversOf({e}) /\ strays' = strays
      BY <1>3, <2>6, <2>1 DEF SetCover, SetCoverUnanswered
    <3>2. ASSUME NEW n \in Covers
          PROVE  HasOnePlace(n)'
      <4>1. HasOnePlace(n)
        BY DEF CoversInv
      <4>2. \A q \in Requests : /\ Used(n, q)' <=> Used(n, q) /\ q # r
                                /\ Stored(n, q)' <=> Stored(n, q) /\ q # r
        BY <1>1, EndedUploads
      <4>3. CASE n = c
        <5>1. /\ Used(n, r) /\ Stored(n, r) /\ ~IsNamed(n)
              /\ \A q \in Requests : Used(n, q) => q = r
          BY <2>2, <4>1, <4>3 DEF HasOnePlace
        <5>2. n \notin removing' /\ n \notin strays' /\ files'[n] = Sizes /\ n \in coversMade'
          BY <1>1, <2>1, <2>5, <3>1, <4>1, <5>1 DEF HasOnePlace, IsNamed
        <5>3. \A q \in Requests : ~Used(n, q)'
          BY <4>2, <5>1
        <5>4. \A d \in Events : Named(n, d)' => d = e
          BY <2>4, <5>1 DEF IsNamed
        <5>5. IsNamed(n)'
          BY <1>1, <2>4, <4>3 DEF IsNamed
        <5> QED BY <5>2, <5>3, <5>4, <5>5 DEF HasOnePlace
      <4>4. CASE n # c
        <5>1. \A d \in Events : Named(n, d)' <=> Named(n, d) /\ d # e
          BY <2>4, <4>4
        <5>2. \A q \in Requests : (Used(n, q)' <=> Used(n, q)) /\ (Stored(n, q)' <=> Stored(n, q))
          BY <2>2, <4>2, <4>4
        <5>3. /\ IsNamed(n)' => IsNamed(n)
              /\ IsNamed(n) => IsNamed(n)' \/ Named(n, e)
              /\ Named(n, e) => IsNamed(n) /\ ~IsNamed(n)'
          BY <1>1, <4>1, <5>1 DEF IsNamed, HasOnePlace
        <5>4. n \in removing' <=> n \in removing \/ Named(n, e)
          BY <2>5, <3>1
        <5> QED BY <2>1, <3>1, <4>1, <5>1, <5>2, <5>3, <5>4 DEF HasOnePlace
      <4> QED BY <4>3, <4>4
    <3> QED BY <2>1, <2>3, <3>2, <1>1 DEF CoversInv
  <2>7. CASE SetCoverUnanswered(r)
    <3>1. /\ removing' = removing \cup Leftover(r)
          /\ strays' = strays \cup CoversOf({e}) \cup Leftover(r)
      BY <2>7 DEF SetCoverUnanswered
    <3>2. ASSUME NEW n \in Covers
          PROVE  HasOnePlace(n)'
      <4>1. HasOnePlace(n)
        BY DEF CoversInv
      <4>2. \A q \in Requests : /\ Used(n, q)' <=> Used(n, q) /\ q # r
                                /\ Stored(n, q)' <=> Stored(n, q) /\ q # r
        BY <1>1, EndedUploads
      <4>3. CASE n = c
        <5>1. /\ Used(n, r) /\ ~IsNamed(n) /\ n \in coversMade
              /\ \A q \in Requests : Used(n, q) => q = r
          BY <2>2, <4>1, <4>3 DEF HasOnePlace
        <5>2. n \in strays'
          BY <2>2, <3>1, <4>3
        <5>3. \A q \in Requests : ~Used(n, q)'
          BY <4>2, <5>1
        <5>4. \A d \in Events : Named(n, d)' => d = e
          BY <2>4, <5>1 DEF IsNamed
        <5> QED BY <2>1, <5>1, <5>2, <5>3, <5>4 DEF HasOnePlace
      <4>4. CASE n # c
        <5>1. \A d \in Events : Named(n, d)' <=> Named(n, d) /\ d # e
          BY <2>4, <4>4
        <5>2. \A q \in Requests : (Used(n, q)' <=> Used(n, q)) /\ (Stored(n, q)' <=> Stored(n, q))
          BY <2>2, <4>2, <4>4
        <5>3. /\ IsNamed(n)' => IsNamed(n)
              /\ IsNamed(n) => IsNamed(n)' \/ Named(n, e)
              /\ Named(n, e) => IsNamed(n)
          BY <1>1, <5>1 DEF IsNamed
        <5>4. /\ n \in removing' <=> n \in removing
              /\ n \in strays' <=> n \in strays \/ Named(n, e)
          BY <2>2, <2>5, <3>1, <4>4
        <5> QED BY <2>1, <4>1, <5>1, <5>2, <5>3, <5>4 DEF HasOnePlace
      <4> QED BY <4>3, <4>4
    <3> QED BY <2>1, <2>3, <3>2, <1>1 DEF CoversInv
  <2> QED BY <1>3, <2>6, <2>7
<1> QED BY <1>2, <1>3

\* The covers of events that go are given up.
LEMMA GoneEventsKeepCovers ==
  ASSUME CoversInv, UploadsKept, NEW gone \in SUBSET Events,
         \A e \in Events : \A n \in Covers : Named(n, e)' <=> Named(n, e) /\ e \notin gone,
         \A e \in Events : event'[e] # None => event[e] # None,
         removing' = removing \cup CoversOf(gone),
         UNCHANGED <<eventsMade, files, coversMade, strays>>
  PROVE  CoversInv'
<1>1. ASSUME NEW n \in Covers
      PROVE  HasOnePlace(n)'
  <2>1. HasOnePlace(n)
    BY DEF CoversInv
  <2>2. n \in removing' <=> n \in removing \/ \E e \in gone : Named(n, e)
    BY CoversOfAre
  <2>3. /\ IsNamed(n)' => IsNamed(n) /\ ~\E e \in gone : Named(n, e)
        /\ IsNamed(n) => IsNamed(n)' \/ \E e \in gone : Named(n, e)
        /\ (\E e \in gone : Named(n, e)) => IsNamed(n)
    BY <2>1 DEF IsNamed, HasOnePlace
  <2>4. \A q \in Requests : (Used(n, q)' <=> Used(n, q)) /\ (Stored(n, q)' <=> Stored(n, q))
    BY DEF UploadsKept
  <2> QED BY <2>1, <2>2, <2>3, <2>4 DEF HasOnePlace
<1> QED BY <1>1 DEF CoversInv

LEMMA DeleteEventKeepsCovers ==
  ASSUME TypeOK, CoversInv, NEW r \in Requests, NEW e \in Events, DeleteEvent(r, e)
  PROVE  CoversInv'
<1>1. \A q \in Requests : q # r => request'[q] = request[q]
  BY AnswersFade DEF DeleteEvent
<1>2. \A n \in Covers : ~Used(n, r) /\ ~Used(n, r)'
  BY AnswersUse DEF DeleteEvent, Begins, Doing, Used, Stored
<1>3. UploadsKept
  BY <1>1, <1>2, NoUpload
<1>4. event'[e] = None /\ \A d \in Events : d # e => event'[d] = event[d]
  BY DEF DeleteEvent, TypeOK
<1>5. \A d \in Events : \A n \in Covers : Named(n, d)' <=> Named(n, d) /\ d \notin {e}
  BY <1>4 DEF Named
<1>6. \A d \in Events : event'[d] # None => event[d] # None
  BY <1>4
<1> QED BY <1>3, <1>5, <1>6, GoneEventsKeepCovers DEF DeleteEvent

\* Maps that go, and accounts that merge, leave the covers with their events.
LEMMA LinkChangesKeepCovers ==
  ASSUME TypeOK, CoversInv, UploadsKept,
         UNCHANGED <<eventsMade, files, removing, coversMade, strays>>,
         \/ \E gone \in SUBSET Maps : UnlinkMaps(gone)
         \/ \E source, target \in Users : MergeEvents(source, target)
  PROVE  CoversInv'
<1>1. \A e \in Events : event[e] # None => event[e] \in EventRow
  BY DEF TypeOK
<1>2. \A e \in Events : event[e] # None =>
        /\ [event[e] EXCEPT !.map = None] \in EventRow
        /\ [event[e] EXCEPT !.map = None].cover = event[e].cover
        /\ \A u \in Users : /\ [event[e] EXCEPT !.owner = u] \in EventRow
                            /\ [event[e] EXCEPT !.owner = u].cover = event[e].cover
  BY <1>1 DEF EventRow
<1>3. \A e \in Events :
        \/ event'[e] = event[e]
        \/ event[e] # None /\ event'[e] = [event[e] EXCEPT !.map = None]
        \/ event[e] # None /\ \E u \in Users : event'[e] = [event[e] EXCEPT !.owner = u]
  BY DEF UnlinkMaps, MergeEvents, Repointed, TypeOK
<1>4. ASSUME NEW e \in Events, event[e] # None, event'[e] # event[e]
      PROVE  event'[e] # None /\ event'[e].cover = event[e].cover
  <2>1. event'[e] \in EventRow /\ event'[e].cover = event[e].cover
    <3>1. CASE event'[e] = [event[e] EXCEPT !.map = None]
      BY <1>2, <1>4, <3>1
    <3>2. ASSUME NEW u \in Users, event'[e] = [event[e] EXCEPT !.owner = u]
          PROVE  event'[e] \in EventRow /\ event'[e].cover = event[e].cover
      BY <1>2, <1>4, <3>2
    <3> QED BY <1>3, <1>4, <3>1, <3>2
  <2> QED BY <2>1, EventsAssumption
<1>5. SameCovers /\ \A e \in Events : event'[e] # None => event[e] # None
  BY <1>3, <1>4 DEF SameCovers
<1> QED BY <1>5, NamesStay, CoversStay DEF CoversInv, CoversKept

LEMMA DeletionKeepsCovers ==
  ASSUME TypeOK, CoversInv, UploadsKept, NEW u \in Users, NEW gone \in SUBSET Maps,
         DeleteEventsOf(u, gone)
  PROVE  CoversInv'
<1>1. \A e \in Events : event[e] # None =>
        /\ event[e] \in EventRow
        /\ [event[e] EXCEPT !.map = None] \in EventRow
        /\ [event[e] EXCEPT !.map = None].cover = event[e].cover
  <2>1. \A e \in Events : event[e] # None => event[e] \in EventRow
    BY DEF TypeOK
  <2> QED BY <2>1 DEF EventRow
<1>2. \A e \in Events :
        IF e \in OwnedEvents(u) THEN event'[e] = None
        ELSE \/ event'[e] = event[e]
             \/ event[e] # None /\ event'[e] = [event[e] EXCEPT !.map = None]
  BY DEF DeleteEventsOf, WithoutOwner, OwnedEvents, TypeOK
<1>3. \A e \in Events : \A n \in Covers :
        Named(n, e)' <=> Named(n, e) /\ e \notin OwnedEvents(u)
  BY <1>1, <1>2, EventsAssumption DEF Named
<1>4. \A e \in Events : event'[e] # None => event[e] # None
  BY <1>2 DEF OwnedEvents
<1>5. OwnedEvents(u) \in SUBSET Events
  BY DEF OwnedEvents
<1> QED BY <1>3, <1>4, <1>5, GoneEventsKeepCovers DEF DeleteEventsOf

LEMMA RemovalKeepsCovers ==
  ASSUME TypeOK, CoversInv, NEW c \in Covers, RemoveCover(c)
  PROVE  CoversInv'
<1>1. UploadsKept
  BY SameRequests DEF RemoveCover, ownersVars
<1>2. ASSUME NEW n \in Covers
      PROVE  HasOnePlace(n)'
  <2>1. HasOnePlace(n) /\ (IsNamed(n)' <=> IsNamed(n))
        /\ \A d \in Events : Named(n, d)' <=> Named(n, d)
    BY DEF CoversInv, IsNamed, Named, RemoveCover
  <2>2. /\ n \in removing' <=> n \in removing /\ n # c
        /\ coversMade' = coversMade /\ c \in removing
        /\ \/ strays' = strays /\ files'[n] = IF n = c THEN {} ELSE files[n]
           \/ strays' = strays \cup {c} /\ files'[n] = files[n]
    BY DEF RemoveCover, TypeOK
  <2>3. \A q \in Requests : (Used(n, q)' <=> Used(n, q)) /\ (Stored(n, q)' <=> Stored(n, q))
    BY <1>1 DEF UploadsKept
  <2>4. CASE n = c
    BY <2>1, <2>2, <2>3, <2>4 DEF HasOnePlace
  <2>5. CASE n # c
    BY <2>1, <2>2, <2>3, <2>5 DEF HasOnePlace
  <2> QED BY <2>4, <2>5
<1> QED BY <1>2 DEF CoversInv, RemoveCover

LEMMA RestartKeepsCovers ==
  ASSUME TypeOK, CoversInv, Restart
  PROVE  CoversInv'
<1>1. \A n \in Covers : \A q \in Requests : ~Used(n, q)' /\ ~Stored(n, q)'
  BY DEF Restart, Used, Stored, Doing
<1>2. ASSUME NEW n \in Covers
      PROVE  HasOnePlace(n)'
  <2>1. HasOnePlace(n) /\ (IsNamed(n)' <=> IsNamed(n))
        /\ \A d \in Events : Named(n, d)' <=> Named(n, d)
    BY DEF CoversInv, IsNamed, Named, Restart, RestartEvents
  <2>2. n \in strays' <=> n \in strays \/ n \in removing \/ \E q \in Requests : Used(n, q)
    BY EventsAssumption DEF Restart, RestartEvents, Used, Stored
  <2>3. removing' = {} /\ UNCHANGED <<files, coversMade>>
    BY DEF Restart, RestartEvents
  <2> QED BY <1>1, <2>1, <2>2, <2>3 DEF HasOnePlace
<1> QED BY <1>2 DEF CoversInv, Restart, RestartEvents

LEMMA CoversInvNext ==
  ASSUME TypeOK, LockedRowsStay, CoversInv, [Next]_vars
  PROVE  CoversInv'
<1>1. ASSUME UploadsKept, UNCHANGED eventsVars
      PROVE  CoversInv'
  <2>1. CoversKept
    BY <1>1 DEF CoversKept, eventsVars, Named
  <2> QED BY <1>1, <2>1, CoversStay DEF CoversInv, eventsVars
<1>2. ASSUME NEW r \in Requests, MapStep(r) \/ GalleryStep(r) \/ Arrival(r), UNCHANGED eventsVars
      PROVE  CoversInv'
  BY <1>1, <1>2, OtherWork
<1>3. ASSUME NEW r \in Requests, NEW m \in Maps, DropMap(r, m)
      PROVE  CoversInv'
  <2>1. \A q \in Requests : q # r => request'[q] = request[q]
    BY <1>3, AnswersFade DEF DropMap, DeleteMap
  <2>2. \A n \in Covers : ~Used(n, r) /\ ~Used(n, r)'
    BY <1>3, AnswersUse DEF DropMap, DeleteMap, Begins, Doing, Used, Stored
  <2>3. UnlinkMaps({m})
    BY <1>3 DEF DropMap
  <2> QED BY <2>1, <2>2, <2>3, NoUpload, LinkChangesKeepCovers DEF UnlinkMaps
<1>4. ASSUME NEW r \in Requests, EventStep(r)
      PROVE  CoversInv'
  BY <1>4, PlainStepsKeepCovers, StartKeepsCovers, StoreKeepsCovers, SetKeepsCovers,
     FailedUploadsGo, DeleteEventKeepsCovers DEF EventStep, StoreFails
<1>5. ASSUME NEW source \in Users, NEW target \in Users, MergeAccounts(source, target)
      PROVE  CoversInv'
  <2>1. UploadsKept
    BY <1>5, SameRequests DEF MergeAccounts, MergeOwners
  <2> QED BY <1>5, <2>1, LinkChangesKeepCovers DEF MergeAccounts, MergeEvents
<1>6. ASSUME NEW u \in Users, DeleteAccount(u)
      PROVE  CoversInv'
  <2>1. UploadsKept
    BY <1>6, SameRequests DEF DeleteAccount, DeleteOwner
  <2>2. {m \in Maps : map[m] # None /\ map[m].owner = u} \in SUBSET Maps
    OBVIOUS
  <2> QED BY <1>6, <2>1, <2>2, DeletionKeepsCovers DEF DeleteAccount
<1>7. CASE Time \/ UNCHANGED vars
  BY <1>1, <1>7, SameRequests DEF Time, Tick, vars, ownersVars
<1>8. ASSUME NEW r \in Requests, Arrival(r)
      PROVE  CoversInv'
  BY <1>2, <1>8 DEF Arrival, Refused
<1> QED BY <1>2, <1>3, <1>4, <1>5, <1>6, <1>7, <1>8, RemovalKeepsCovers, RestartKeepsCovers
    DEF Next, MapsNext, EventsNext, GalleryNext, SharedNext, AccountStep

LEMMA CoversInvInit == Init => CoversInv
BY EventsAssumption
   DEF Init, OwnersInit, MapsInit, EventsInit, CoversInv, HasOnePlace, IsNamed, Named, Used,
       Stored, Doing

LEMMA CoversInvImplies == TypeOK /\ CoversInv => CoversMatchFiles
<1> SUFFICES ASSUME TypeOK, CoversInv PROVE CoversMatchFiles
  OBVIOUS
<1>1. CoversOf(Events) \subseteq Covers
  BY CoversAre, TypesAre
<1>2. \A n \in Covers : n \in CoversOf(Events) <=> IsNamed(n)
  BY CoversOfAre DEF IsNamed
<1>3. \A n \in Covers : (\E r \in Requests : Used(n, r)) =>
        n \in {Work(r).cover : r \in {q \in Requests : Doing(q, "store") \/ Doing(q, "set")}}
  BY DEF Used, Stored
<1>4. \A n \in Covers : HasOnePlace(n)
  BY DEF CoversInv
<1>5. \A n \in CoversOf(Events) \ strays : files[n] = Sizes /\ n \notin removing
  BY <1>1, <1>2, <1>4 DEF HasOnePlace
<1>6. \A n \in Covers \ strays : files[n] # {} =>
        \/ n \in CoversOf(Events) \cup removing
        \/ n \in {Work(r).cover : r \in {q \in Requests : Doing(q, "store") \/ Doing(q, "set")}}
  BY <1>2, <1>3, <1>4 DEF HasOnePlace
<1> QED BY <1>5, <1>6 DEF CoversMatchFiles

-------------------------------------------------------------------------------
(* Pictures *)

LEMMA EventStepFades ==
  ASSUME TypeOK, NEW r \in Requests, EventStep(r), NEW kind,
         kind \notin {"post", "patch", "store", "set"}
  PROVE  Fades(kind)
<1>1. ASSUME NEW w \in WorkRow, request[r] \in Row, GoesOn(r, w),
             w.kind \in {"post", "patch", "store", "set"}
      PROVE  Fades(kind)
  BY <1>1, GoesOnFades
<1>2. ASSUME NEW u \in Users, NEW m \in Maps \cup {None}, NEW k \in Keys \cup {None},
             OpenPost(r, u, m, k)
      PROVE  Fades(kind)
  <2> DEFINE w == [kind |-> "post", owner |-> u, map |-> m, key |-> k]
  <2>1. w \in WorkRow /\ w.kind = "post"
    BY DEF WorkRow, EventWork
  <2>2. request[r] \in Row /\ GoesOn(r, w)
    BY <1>2, Begun DEF OpenPost
  <2> HIDE DEF w
  <2> QED BY <2>1, <2>2, <1>1
<1>3. ASSUME NEW e \in Events, NEW u \in Users, NEW m \in Maps \cup {None}, OpenPatch(r, e, u, m)
      PROVE  Fades(kind)
  <2> DEFINE w == [kind |-> "patch", event |-> e, owner |-> u, map |-> m]
  <2>1. w \in WorkRow /\ w.kind = "patch"
    BY DEF WorkRow, EventWork
  <2>2. request[r] \in Row /\ GoesOn(r, w)
    BY <1>3, Begun DEF OpenPatch
  <2> HIDE DEF w
  <2> QED BY <2>1, <2>2, <1>1
<1>4. ASSUME NEW e \in Events, NEW n \in Covers, StartCover(r, e, n)
      PROVE  Fades(kind)
  <2> DEFINE w == [kind |-> "store", event |-> e, cover |-> n]
  <2>1. w \in WorkRow /\ w.kind = "store"
    BY DEF WorkRow, EventWork
  <2>2. request[r] \in Row /\ GoesOn(r, w)
    BY <1>4, Begun DEF StartCover
  <2> HIDE DEF w
  <2> QED BY <2>1, <2>2, <1>1
<1>5. ASSUME StoreVariant(r)
      PROVE  Fades(kind)
  <2> DEFINE to == IF files'[Work(r).cover] = Sizes THEN "set" ELSE "store"
             w == [Work(r) EXCEPT !.kind = to]
  <2>1. /\ Work(r) \in [kind: {"store"}, event: Events, cover: Covers] /\ request[r] \in Row
        /\ GoesOn(r, w)
    BY <1>5, Works DEF StoreVariant
  <2>2. to \in {"store", "set"}
    OBVIOUS
  <2> HIDE DEF to
  <2>3. w \in WorkRow /\ w.kind = to
    BY <2>1, <2>2 DEF WorkRow, EventWork
  <2> HIDE DEF w
  <2> QED BY <2>1, <2>2, <2>3, <1>1
<1>6. ASSUME NEW e \in Events, StartNoCover(r, e)
      PROVE  Fades(kind)
  <2> DEFINE w == [kind |-> "set", event |-> e, cover |-> None]
  <2>1. w \in WorkRow /\ w.kind = "set"
    BY DEF WorkRow, EventWork
  <2>2. request[r] \in Row /\ GoesOn(r, w)
    BY <1>6, Begun DEF StartNoCover
  <2> HIDE DEF w
  <2> QED BY <2>1, <2>2, <1>1
<1>7. CASE Answered(r)
  BY <1>7, AnsweredFades
<1> QED BY <1>2, <1>3, <1>4, <1>5, <1>6, <1>7
    DEF EventStep, WritePost, WritePatch, DeleteEvent, SetParticipation, StoreFails, SetCover,
        SetCoverUnanswered

\* Whoever is at work on pictures goes on with it, whatever happens elsewhere.
LEMMA GalleryWorkFades ==
  ASSUME TypeOK, NEW kind \in {"upload", "licences", "unlink"},
         MapsNext \/ EventsNext \/ SharedNext \/ UNCHANGED vars
  PROVE  Fades(kind)
<1>1. CASE MapsNext
  BY <1>1, MapStepFades, AnsweredFades DEF MapsNext, DropMap, DeleteMap
<1>2. CASE EventsNext
  BY <1>2, EventStepFades, KeptFades DEF EventsNext, RemoveCover, ownersVars
<1>3. CASE SharedNext \/ UNCHANGED vars
  BY <1>3, SharedFades
<1> QED BY <1>1, <1>2, <1>3

\* Nobody comes to a picture, and it keeps its file, as long as it has a row or an upload.
LEMMA PicturesFade ==
  ASSUME PicturesInv, Fades("upload"), Fades("unlink"), UNCHANGED picturesMade,
         NEW p \in Pictures,
         picture'[p] # None => picture[p] # None /\ p \in pictureFiles',
         picture[p] = None /\ p \in pictureFiles =>
           p \in pictureFiles' \/ \E r \in Requests : Unlinks(p, r)
  PROVE  HasItsFile(p)'
<1>1. HasItsFile(p)
  BY DEF PicturesInv
<1>2. \A r \in Requests : (Uploads(p, r)' => Uploads(p, r)) /\ (Unlinks(p, r)' => Unlinks(p, r))
  BY DEF Fades, Uploads, Unlinks, Work
<1> QED BY <1>1, <1>2 DEF HasItsFile

LEMMA PicturesKept ==
  ASSUME PicturesInv, Fades("upload"), Fades("unlink"), UNCHANGED <<picturesMade, pictureFiles>>,
         \A p \in Pictures : picture'[p] # None => picture[p] # None
  PROVE  PicturesInv'
<1>1. ASSUME NEW p \in Pictures
      PROVE  HasItsFile(p)'
  <2>1. picture'[p] # None => picture[p] # None /\ p \in pictureFiles'
    BY DEF PicturesInv, HasItsFile
  <2> QED BY <2>1, PicturesFade
<1> QED BY <1>1 DEF PicturesInv

\* What a request's work makes of its part in pictures.
LEMMA WorksOnPictures ==
  ASSUME TypeOK, NEW r \in Requests, request[r] \in Row, NEW w \in WorkRow, GoesOn(r, w),
         NEW p \in Pictures
  PROVE  /\ \A q \in Requests : q # r => /\ Uploads(p, q)' <=> Uploads(p, q)
                                         /\ Unlinks(p, q)' <=> Unlinks(p, q)
         /\ Uploads(p, r)' => w.kind = "upload" /\ w.picture = p
         /\ Unlinks(p, r)' => w.kind = "unlink" /\ p \in w.pictures
<1>1. \A q \in Requests : q # r => request'[q] = request[q]
  BY WorksGoOn
<1>2. request'[r] = [user |-> Caller(r), doing |-> w]
  BY WorksGoOn
<1>3. request'[r].doing = w
  BY <1>2
<1> QED BY <1>1, <1>3 DEF Uploads, Unlinks, Doing, Work

LEMMA AnswersOnPictures ==
  ASSUME TypeOK, NEW r \in Requests, Answered(r), NEW p \in Pictures
  PROVE  /\ \A q \in Requests : q # r => /\ Uploads(p, q)' <=> Uploads(p, q)
                                         /\ Unlinks(p, q)' <=> Unlinks(p, q)
         /\ ~Uploads(p, r)' /\ ~Unlinks(p, r)'
BY AnswersFade DEF Uploads, Unlinks, Doing, Work

LEMMA GalleryStepsKeepPictures ==
  ASSUME TypeOK, PicturesInv, NEW r \in Requests, GalleryStep(r)
  PROVE  PicturesInv'
<1>1. ASSUME NEW x \in Pictures, NEW l \in Licences, NEW premium \in BOOLEAN,
             Upload(r, x, l, premium)
      PROVE  PicturesInv'
  <2> DEFINE w == [kind |-> "upload", picture |-> x, licence |-> l, premium |-> premium,
                   createdAt |-> now]
  <2>1. w \in WorkRow /\ w.kind = "upload" /\ w.picture = x
    BY DEF TypeOK, WorkRow, GalleryWork
  <2>2. /\ request[r] \in Row /\ GoesOn(r, w) /\ x \notin picturesMade
        /\ picturesMade' = picturesMade \cup {x} /\ pictureFiles' = pictureFiles \cup {x}
        /\ picture' = picture
    BY <1>1, Begun DEF Upload
  <2>3. \A p \in Pictures : ~Uploads(p, r) /\ ~Unlinks(p, r)
    BY <1>1 DEF Upload, Begins, Doing, Uploads, Unlinks
  <2> HIDE DEF w
  <2>4. ASSUME NEW p \in Pictures
        PROVE  HasItsFile(p)'
    <3>1. HasItsFile(p)
      BY DEF PicturesInv
    <3>2. /\ \A q \in Requests : Uploads(p, q)' => Uploads(p, q) \/ (q = r /\ p = x)
          /\ \A q \in Requests : Unlinks(p, q)' => Unlinks(p, q)
      BY <2>1, <2>2, WorksOnPictures
    <3>3. CASE p = x
      <4>1. \A q \in Requests : ~Uploads(p, q) /\ ~Unlinks(p, q)
        BY <2>2, <3>1, <3>3 DEF HasItsFile
      <4> QED BY <2>2, <3>1, <3>2, <3>3, <4>1 DEF HasItsFile
    <3>4. CASE p # x
      BY <2>2, <3>1, <3>2, <3>4 DEF HasItsFile
    <3> QED BY <3>3, <3>4
  <2> QED BY <2>4 DEF PicturesInv
<1>2. ASSUME InsertPicture(r)
      PROVE  PicturesInv'
  <2> DEFINE x == Work(r).picture
  <2>1. Doing(r, "upload") /\ Answered(r) /\ x \in Pictures /\ Uploads(x, r)
    BY <1>2, Works DEF InsertPicture, Uploads
  <2>2. /\ UNCHANGED <<picturesMade, pictureFiles>>
        /\ \A p \in Pictures : p # x => picture'[p] = picture[p]
    BY <1>2, <2>1 DEF InsertPicture, TypeOK
  <2>3. ASSUME NEW p \in Pictures
        PROVE  HasItsFile(p)'
    <3>1. HasItsFile(p)
      BY DEF PicturesInv
    <3>2. \A q \in Requests : /\ Uploads(p, q)' => Uploads(p, q) /\ q # r
                              /\ Unlinks(p, q)' => Unlinks(p, q)
      BY <2>1, AnswersOnPictures
    <3>3. CASE p = x
      <4>1. \A q \in Requests : ~Unlinks(p, q) /\ (Uploads(p, q) => q = r)
        BY <2>1, <3>1, <3>3 DEF HasItsFile
      <4>2. p \in picturesMade \cap pictureFiles
        BY <2>1, <3>1, <3>3 DEF HasItsFile
      <4> QED BY <2>2, <3>2, <4>1, <4>2 DEF HasItsFile
    <3>4. CASE p # x
      BY <2>2, <3>1, <3>2, <3>4 DEF HasItsFile
    <3> QED BY <3>3, <3>4
  <2> QED BY <2>3 DEF PicturesInv
<1>3. ASSUME NEW x \in Pictures, DeletePicture(r, x)
      PROVE  PicturesInv'
  <2> DEFINE w == [kind |-> "unlink", pictures |-> {x}]
  <2>1. w \in WorkRow /\ w.kind = "unlink" /\ w.pictures = {x}
    BY DEF WorkRow, GalleryWork
  <2>2. /\ request[r] \in Row /\ GoesOn(r, w) /\ picture[x] # None
        /\ picture' = [picture EXCEPT ![x] = None]
        /\ UNCHANGED <<picturesMade, pictureFiles>>
    BY <1>3, Begun DEF DeletePicture
  <2> HIDE DEF w
  <2>3. ASSUME NEW p \in Pictures
        PROVE  HasItsFile(p)'
    <3>1. HasItsFile(p)
      BY DEF PicturesInv
    <3>2. /\ \A q \in Requests : Uploads(p, q)' => Uploads(p, q)
          /\ \A q \in Requests : Unlinks(p, q)' => Unlinks(p, q) \/ p = x
      BY <2>1, <2>2, WorksOnPictures
    <3>3. CASE p = x
      <4>1. /\ \A q \in Requests : ~Uploads(p, q)
            /\ p \in picturesMade /\ picture'[p] = None
        BY <2>2, <3>1, <3>3 DEF HasItsFile, TypeOK
      <4> QED BY <2>2, <3>2, <4>1 DEF HasItsFile
    <3>4. CASE p # x
      <4>1. picture'[p] = picture[p]
        BY <2>2, <3>4 DEF TypeOK
      <4> QED BY <2>2, <3>1, <3>2, <3>4, <4>1 DEF HasItsFile
    <3> QED BY <3>3, <3>4
  <2> QED BY <2>3 DEF PicturesInv
<1>4. ASSUME Unlink(r)
      PROVE  PicturesInv'
  <2>1. /\ Doing(r, "unlink") /\ UNCHANGED <<picture, picturesMade>>
        /\ pictureFiles' = pictureFiles \ Work(r).pictures
        /\ Fades("upload") /\ Fades("unlink")
    BY <1>4, AnsweredFades DEF Unlink
  <2>2. ASSUME NEW p \in Pictures
        PROVE  HasItsFile(p)'
    <3>1. HasItsFile(p) /\ (p \in Work(r).pictures <=> Unlinks(p, r))
      BY <2>1 DEF PicturesInv, Unlinks
    <3>2. picture'[p] # None => picture[p] # None /\ p \in pictureFiles'
      BY <2>1, <3>1 DEF HasItsFile
    <3>3. picture[p] = None /\ p \in pictureFiles =>
            p \in pictureFiles' \/ \E q \in Requests : Unlinks(p, q)
      BY <2>1, <3>1
    <3> QED BY <2>1, <3>2, <3>3, PicturesFade
  <2> QED BY <2>2 DEF PicturesInv
<1>5. ASSUME \/ \E l \in Licences : OpenSetAll(r, l)
             \/ WriteSetAll(r)
             \/ \E premium \in BOOLEAN : SetAllPremium(r, premium)
             \/ \E p \in Pictures, l \in Licences \cup {None}, premium \in BOOLEAN \cup {None} :
                  PutPicture(r, p, l, premium)
             \/ \E x \in Photos : Comment(r, x) \/ Rate(r, x)
      PROVE  PicturesInv'
  <2>1. Fades("upload") /\ Fades("unlink")
    <3>1. ASSUME NEW l \in Licences, OpenSetAll(r, l), ~Answered(r)
          PROVE  Fades("upload") /\ Fades("unlink")
      <4> DEFINE w == [kind |-> "licences", licence |-> l,
                       pictures |-> {p \in PicturesOf(Caller(r)) : picture[p].licence # l}]
      <4>1. w \in WorkRow /\ w.kind = "licences"
        BY DEF WorkRow, GalleryWork, PicturesOf
      <4>2. request[r] \in Row /\ GoesOn(r, w)
        BY <3>1, Begun DEF OpenSetAll
      <4> HIDE DEF w
      <4> QED BY <4>1, <4>2, GoesOnFades
    <3>2. CASE Answered(r)
      BY <3>2, AnsweredFades
    <3> QED BY <1>5, <3>1, <3>2 DEF WriteSetAll, SetAllPremium, PutPicture, Comment, Rate
  <2>2. UNCHANGED <<picturesMade, pictureFiles>>
    BY <1>5 DEF OpenSetAll, WriteSetAll, SetAllPremium, PutPicture, Comment, Rate, galleryVars
  <2>3. \A p \in Pictures : picture'[p] # None => picture[p] # None
    BY <1>5 DEF OpenSetAll, WriteSetAll, SetAllPremium, PutPicture, Comment, Rate, galleryVars,
                PicturesOf, TypeOK
  <2> QED BY <2>1, <2>2, <2>3, PicturesKept
<1> QED BY <1>1, <1>2, <1>3, <1>4, <1>5 DEF GalleryStep

LEMMA PicturesInvNext ==
  ASSUME TypeOK, PicturesInv, [Next]_vars
  PROVE  PicturesInv'
<1>1. CASE GalleryNext
  BY <1>1, GalleryStepsKeepPictures DEF GalleryNext
<1>2. CASE MapsNext \/ EventsNext \/ SharedNext \/ UNCHANGED vars
  <2>1. Fades("upload") /\ Fades("unlink")
    BY <1>2, GalleryWorkFades
  <2>2. CASE UNCHANGED galleryVars
    BY <2>1, <2>2, PicturesKept DEF galleryVars
  <2>3. ASSUME NEW source \in Users, NEW target \in Users, MergeAccounts(source, target)
        PROVE  PicturesInv'
    <3>1. /\ UNCHANGED <<picturesMade, pictureFiles>>
          /\ picture' = Repointed(picture, source, target)
      BY <2>3 DEF MergeAccounts, MergeGallery
    <3>2. \A p \in Pictures : picture'[p] # None => picture[p] # None
      BY <3>1 DEF Repointed, TypeOK
    <3> QED BY <2>1, <3>1, <3>2, PicturesKept
  <2>4. ASSUME NEW u \in Users, DeleteAccount(u)
        PROVE  PicturesInv'
    <3>1. /\ picturesMade' = picturesMade /\ pictureFiles' = pictureFiles \ PicturesOf(u)
          /\ picture' = WithoutOwner(picture, u)
      BY <2>4 DEF DeleteAccount, DeleteGalleryOf
    <3>2. ASSUME NEW p \in Pictures
          PROVE  HasItsFile(p)'
      <4>1. picture'[p] = IF p \in PicturesOf(u) THEN None ELSE picture[p]
        BY <3>1 DEF WithoutOwner, PicturesOf, TypeOK
      <4>2. p \in PicturesOf(u) => picture[p] # None
        BY DEF PicturesOf
      <4>3. picture[p] # None => p \in pictureFiles
        BY DEF PicturesInv, HasItsFile
      <4> QED BY <2>1, <3>1, <4>1, <4>2, <4>3, PicturesFade
    <3> QED BY <3>2 DEF PicturesInv
  <2>5. MapsNext \/ EventsNext \/ Restart \/ Time \/ UNCHANGED vars
          \/ (\E r \in Requests : Arrival(r)) => UNCHANGED galleryVars
    BY DEF MapsNext, EventsNext, DropMap, Restart, Time, Arrival, Refused, vars
  <2> QED BY <1>2, <2>2, <2>3, <2>4, <2>5 DEF SharedNext, AccountStep
<1> QED BY <1>1, <1>2 DEF Next

LEMMA PicturesInvInit == Init => PicturesInv
BY DEF Init, OwnersInit, GalleryInit, PicturesInv, HasItsFile, Uploads, Unlinks, Doing

LEMMA FilesInvNext ==
  ASSUME TypeOK, LinksInv, CoversInv, PicturesInv, [Next]_vars
  PROVE  TypeOK' /\ LinksInv' /\ CoversInv' /\ PicturesInv'
BY TypedNext, LinksInvNext, CoversInvNext, PicturesInvNext DEF LinksInv

\* The files on the disk are those of the rows: every picture with a row has its
\* file; an event's cover has both variants; and no file of a cover is left that
\* neither an event names nor a handler is about to use or remove, but for what a
\* restart, a failed unlink or a lost answer to a commit leaves.
THEOREM FilesAreTheRows == Spec => []FilesMatchRows
<1> DEFINE Inv == TypeOK /\ LinksInv /\ CoversInv /\ PicturesInv
<1>1. Init => Inv
  BY TypedInit, LinksInvInit, CoversInvInit, PicturesInvInit
<1>2. Inv /\ [Next]_vars => Inv'
  BY FilesInvNext
<1>3. Inv => FilesMatchRows
  BY CoversInvImplies DEF FilesMatchRows, PicturesHaveFiles, PicturesInv, HasItsFile
<1> QED BY <1>1, <1>2, <1>3, PTL DEF Spec

-------------------------------------------------------------------------------
(* Licences *)

LEMMA LogGrows ==
  ASSUME NEW log \in Seq(LicenceRow), NEW licence, NEW time \in Nat, NEW row \in LicenceRow,
         IsTraced(log, licence, time), row.licence # licence, row.at = time
  PROVE  IsTraced(Append(log, row), row.licence, time)
<1> DEFINE longer == Append(log, row)
<1>1. /\ Len(log) \in Nat \ {0} /\ Len(longer) = Len(log) + 1 /\ longer # <<>>
      /\ longer[Len(log) + 1] = row /\ \A i \in 1..Len(log) : longer[i] = log[i]
      /\ log[Len(log)].licence = licence
  BY DEF IsTraced
<1> HIDE DEF longer
<1>2. \A i \in 1..Len(log) : log[i].at <= time
  BY DEF IsTraced
<1>3. \A i \in 1..Len(longer) : longer[i].at <= time
  BY <1>1, <1>2
<1>4. ASSUME NEW i \in 2..Len(longer)
      PROVE  longer[i].licence # longer[i - 1].licence /\ longer[i].at >= longer[i - 1].at
  <2>1. CASE i = Len(log) + 1
    BY <1>1, <1>2, <2>1
  <2>2. CASE i \in 2..Len(log)
    <3>1. i \in 1..Len(log) /\ i - 1 \in 1..Len(log)
      BY <1>1, <2>2
    <3> QED BY <1>1, <2>2, <3>1 DEF IsTraced
  <2> QED BY <1>1, <2>1, <2>2
<1>5. IsTraced(longer, row.licence, time)
  BY <1>1, <1>3, <1>4 DEF IsTraced
<1> QED BY <1>5 DEF longer

LEMMA NewLog ==
  ASSUME NEW row \in LicenceRow, NEW time, row.at <= time
  PROVE  IsTraced(<<row>>, row.licence, time)
BY DEF IsTraced

LEMMA LogStays ==
  ASSUME TypeOK, NEW p \in Pictures, LogFits(p), now' \in Nat, now' >= now,
         picture'[p] # None => /\ picture[p] # None /\ picture'[p].licence = picture[p].licence
                               /\ licenceLog'[p] = licenceLog[p]
  PROVE  LogFits(p)'
<1> SUFFICES ASSUME picture'[p] # None
             PROVE  IsTraced(licenceLog[p], picture[p].licence, now')
  BY DEF LogFits
<1>1. IsTraced(licenceLog[p], picture[p].licence, now) /\ licenceLog[p] \in Seq(LicenceRow)
  BY DEF LogFits, TypeOK
<1>2. \A i \in 1..Len(licenceLog[p]) : licenceLog[p][i] \in LicenceRow
  BY <1>1
<1>3. \A i \in 1..Len(licenceLog[p]) : licenceLog[p][i].at \in Int
  BY <1>2 DEF LicenceRow
<1> QED BY <1>3, <1>1, <1>2 DEF IsTraced, TypeOK

LEMMA UploadsStayDue ==
  ASSUME TypeOK, LicencesInv, Fades("upload"), now' \in Nat, now' >= now
  PROVE  \A r \in Requests : Doing(r, "upload")' => Work(r)'.createdAt <= now'
<1> SUFFICES ASSUME NEW r \in Requests, Doing(r, "upload")'
             PROVE  Work(r)'.createdAt <= now'
  OBVIOUS
<1>1. Doing(r, "upload") /\ Work(r)' = Work(r)
  BY DEF Fades, Work
<1>2. Work(r).createdAt <= now /\ Work(r).createdAt \in Nat
  <2>1. Work(r).createdAt \in 0..MaxTime
    BY <1>1, Works
  <2> QED BY <1>1, <2>1, OwnersAssumption DEF LicencesInv
<1> QED BY <1>1, <1>2 DEF TypeOK

\* What nobody may touch under the lock on the gallery of `u`.
KeepsGallery(u) ==
  \A p \in Pictures : /\ picture'[p] # None /\ picture'[p].owner = u <=> p \in PicturesOf(u)
                      /\ p \in PicturesOf(u) => picture'[p].licence = picture[p].licence

LEMMA LocksStay ==
  ASSUME LocksHold, Fades("licences"),
         \A r \in Requests : SetsAll(r)' => KeepsGallery(Caller(r))
  PROVE  LocksHold'
<1>1. \A r \in Requests : SetsAll(r)' =>
        SetsAll(r) /\ Work(r)' = Work(r) /\ Caller(r)' = Caller(r)
  BY DEF Fades, SetsAll, Work, Caller
<1>2. ASSUME NEW r \in Requests, SetsAll(r)'
      PROVE  (Work(r).pictures = Differing(Caller(r), Work(r).licence))'
  <2>1. /\ SetsAll(r) /\ Work(r)' = Work(r) /\ Caller(r)' = Caller(r)
        /\ Work(r).pictures = Differing(Caller(r), Work(r).licence)
    BY <1>1, <1>2 DEF LocksHold
  <2>2. ASSUME NEW u, NEW l, KeepsGallery(u)
        PROVE  {p \in Pictures : /\ picture'[p] # None /\ picture'[p].owner = u
                                 /\ picture'[p].licence # l} = Differing(u, l)
    BY <2>2 DEF KeepsGallery, Differing, PicturesOf
  <2>3. \A u, l : {p \in {x \in Pictures : picture'[x] # None /\ picture'[x].owner = u} :
                    picture'[p].licence # l}
                  = {p \in Pictures : /\ picture'[p] # None /\ picture'[p].owner = u
                                      /\ picture'[p].licence # l}
    OBVIOUS
  <2>4. Differing(Caller(r), Work(r).licence)' =
          {p \in {x \in Pictures : picture'[x] # None /\ picture'[x].owner = Caller(r)'} :
             picture'[p].licence # Work(r)'.licence}
    BY DEF Differing, PicturesOf
  <2>5. KeepsGallery(Caller(r))
    BY <1>2
  <2>6. Differing(Caller(r), Work(r).licence)' = Differing(Caller(r), Work(r).licence)
    BY <2>1, <2>2, <2>3, <2>4, <2>5
  <2> QED BY <2>1, <2>6
<1> QED BY <1>1, <1>2 DEF LocksHold

\* Rows that keep their licences, in galleries that keep their pictures where they
\* are locked.
LEMMA LicencesStay ==
  ASSUME TypeOK, LicencesInv, Fades("upload"), Fades("licences"), now' \in Nat, now' >= now,
         \A p \in Pictures : picture'[p] # None =>
           /\ picture[p] # None /\ picture'[p].licence = picture[p].licence
           /\ licenceLog'[p] = licenceLog[p],
         \A r \in Requests : SetsAll(r) => KeepsGallery(Caller(r))
  PROVE  LicencesInv'
<1>1. \A p \in Pictures : LogFits(p)'
  BY LogStays DEF LicencesInv
<1>2. LocksHold'
  BY LocksStay DEF LicencesInv, Fades, SetsAll
<1> QED BY <1>1, <1>2, UploadsStayDue DEF LicencesInv

LEMMA PictureEdits ==
  ASSUME TypeOK, NEW p \in Pictures, picture[p] # None
  PROVE  /\ picture[p] \in PictureRow
         /\ \A premium \in BOOLEAN : LET row == [picture[p] EXCEPT !.premium = premium]
                                     IN /\ row # None /\ row.owner = picture[p].owner
                                        /\ row.licence = picture[p].licence
         /\ \A licence \in Licences : LET row == [picture[p] EXCEPT !.licence = licence]
                                      IN /\ row # None /\ row.owner = picture[p].owner
                                         /\ row.licence = licence
         /\ \A u \in Users : LET row == [picture[p] EXCEPT !.owner = u]
                             IN /\ row # None /\ row.owner = u /\ row.licence = picture[p].licence
<1>1. picture[p] \in PictureRow
  BY DEF TypeOK
<1>2. \A premium \in BOOLEAN : LET row == [picture[p] EXCEPT !.premium = premium]
                               IN /\ row \in PictureRow /\ row.owner = picture[p].owner
                                  /\ row.licence = picture[p].licence
  BY <1>1 DEF PictureRow
<1>3. \A licence \in Licences : LET row == [picture[p] EXCEPT !.licence = licence]
                                IN /\ row \in PictureRow /\ row.owner = picture[p].owner
                                   /\ row.licence = licence
  BY <1>1 DEF PictureRow
<1>4. \A u \in Users : LET row == [picture[p] EXCEPT !.owner = u]
                       IN /\ row \in PictureRow /\ row.owner = u
                          /\ row.licence = picture[p].licence
  BY <1>1 DEF PictureRow
<1> QED BY <1>1, <1>2, <1>3, <1>4, GalleryAssumption

LEMMA ClockRuns ==
  ASSUME TypeOK
  PROVE  now \in Nat /\ now >= now
BY OwnersAssumption DEF TypeOK

\* An upload, and its row once the locks let it in.
LEMMA UploadsKeepLicences ==
  ASSUME TypeOK, PicturesInv, LicencesInv, NEW r \in Requests,
         \/ \E p \in Pictures, l \in Licences, premium \in BOOLEAN : Upload(r, p, l, premium)
         \/ InsertPicture(r)
  PROVE  LicencesInv'
<1>1. ASSUME NEW x \in Pictures, NEW l \in Licences, NEW premium \in BOOLEAN,
             Upload(r, x, l, premium)
      PROVE  LicencesInv'
  <2> DEFINE w == [kind |-> "upload", picture |-> x, licence |-> l, premium |-> premium,
                   createdAt |-> now]
  <2>1. w \in WorkRow /\ w.kind = "upload" /\ w.createdAt = now
    BY DEF TypeOK, WorkRow, GalleryWork
  <2>2. /\ request[r] \in Row /\ GoesOn(r, w) /\ UNCHANGED <<picture, licenceLog>>
    BY <1>1, Begun DEF Upload
  <2> HIDE DEF w
  <2>3. now' = now /\ \A q \in Requests : q # r => request'[q] = request[q]
    BY <2>1, <2>2, WorksGoOn
  <2>4. request'[r] = [user |-> Caller(r), doing |-> w]
    BY <2>1, <2>2, WorksGoOn
  <2>5. \A q \in Requests : Doing(q, "upload")' => Work(q)'.createdAt <= now'
    <3>1. Work(r)' = w
      BY <2>4 DEF Work
    <3>2. Work(r)'.createdAt <= now'
      BY <2>1, <2>3, <3>1, ClockRuns
    <3>3. \A q \in Requests : q # r => /\ Doing(q, "upload")' <=> Doing(q, "upload")
                                       /\ Work(q)' = Work(q)
      BY <2>3 DEF Doing, Work
    <3> QED BY <2>3, <3>2, <3>3 DEF LicencesInv
  <2>6. Fades("licences")
    BY <2>1, <2>2, GoesOnFades
  <2>7. \A u \in Users : KeepsGallery(u)
    BY <2>2 DEF KeepsGallery, PicturesOf
  <2>8. LocksHold'
    BY <2>6, <2>7, LocksStay, Works DEF LicencesInv, Fades, SetsAll
  <2>9. \A p \in Pictures : LogFits(p)'
    BY <2>2, <2>3, LogStays, ClockRuns DEF LicencesInv
  <2> QED BY <2>5, <2>8, <2>9 DEF LicencesInv
<1>2. ASSUME InsertPicture(r)
      PROVE  LicencesInv'
  <2> DEFINE x == Work(r).picture
             entry == [licence |-> Work(r).licence, at |-> Work(r).createdAt]
  <2>1. /\ Doing(r, "upload") /\ Answered(r) /\ x \in Pictures
        /\ Work(r).licence \in Licences /\ Work(r).createdAt \in 0..MaxTime
        /\ Work(r).createdAt <= now /\ Caller(r) \notin LockedGalleries
    BY <1>2, Works DEF InsertPicture, LicencesInv
  <2>2. now' = now /\ now \in Nat
    BY <2>1, AnswersFade, ClockRuns
  <2>3. /\ \A p \in Pictures \ {x} : picture'[p] = picture[p] /\ licenceLog'[p] = licenceLog[p]
        /\ picture[x] = None
        /\ \/ picture'[x] = None
           \/ /\ picture'[x].owner = Caller(r) /\ picture'[x].licence = entry.licence
              /\ licenceLog'[x] = <<entry>>
    <3>1. picture[x] = None
      BY <2>1 DEF PicturesInv, HasItsFile, Uploads
    <3>2. CASE UNCHANGED <<picture, licenceLog>>
      BY <3>1, <3>2
    <3>3. CASE /\ picture' = [picture EXCEPT ![x] =
                    [owner |-> Caller(r), licence |-> Work(r).licence, premium |-> Work(r).premium]]
               /\ licenceLog' = [licenceLog EXCEPT ![x] = <<entry>>]
      BY <2>1, <3>1, <3>3 DEF TypeOK
    <3> QED BY <1>2, <3>2, <3>3 DEF InsertPicture
  <2>4. IsTraced(<<entry>>, entry.licence, now')
    <3>1. entry \in LicenceRow /\ entry.at <= now'
      BY <2>1, <2>2 DEF LicenceRow
    <3> QED BY <3>1, NewLog
  <2> HIDE DEF entry
  <2>5. ASSUME NEW p \in Pictures
        PROVE  LogFits(p)'
    <3>1. CASE p = x
      BY <2>3, <2>4, <3>1 DEF LogFits
    <3>2. CASE p # x
      BY <2>2, <2>3, <3>2, LogStays DEF LicencesInv
    <3> QED BY <3>1, <3>2
  <2>6. ASSUME NEW q \in Requests, SetsAll(q)
        PROVE  KeepsGallery(Caller(q))
    <3>1. Caller(q) # Caller(r)
      BY <2>1, <2>6 DEF LockedGalleries, SetsAll
    <3>2. \A p \in Pictures \ {x} : picture'[p] = picture[p]
      BY <2>3
    <3>3. picture[x] = None /\ (picture'[x] = None \/ picture'[x].owner = Caller(r))
      BY <2>3
    <3> HIDE DEF x
    <3> QED BY <3>1, <3>2, <3>3 DEF KeepsGallery, PicturesOf
  <2>7. Fades("upload") /\ Fades("licences")
    BY <2>1, AnsweredFades
  <2>8. LocksHold'
    BY <2>6, <2>7, LocksStay DEF LicencesInv, Fades, SetsAll
  <2> QED BY <2>2, <2>5, <2>7, <2>8, UploadsStayDue DEF LicencesInv
<1> QED BY <1>1, <1>2

LEMMA PutKeepsLicences ==
  ASSUME TypeOK, LicencesInv, NEW r \in Requests, NEW x \in Pictures,
         NEW l \in Licences \cup {None}, NEW premium \in BOOLEAN \cup {None},
         PutPicture(r, x, l, premium)
  PROVE  LicencesInv'
<1> DEFINE licence == IF l = None THEN picture[x].licence ELSE l
           row == [picture[x] EXCEPT !.licence = licence,
                                     !.premium = IF premium = None THEN @ ELSE premium]
<1>1. picture[x] # None /\ picture[x] \in PictureRow /\ ~IsLocked(x) /\ Answered(r)
  BY PictureEdits DEF PutPicture
<1>2. row \in PictureRow /\ row.licence = licence /\ row.owner = picture[x].owner
  BY <1>1 DEF PictureRow
<1>3. row # None
  BY <1>2, GalleryAssumption
<1>4. now' = now /\ now \in Nat /\ Fades("upload") /\ Fades("licences")
  BY <1>1, AnswersFade, AnsweredFades, ClockRuns
<1>5. picture'[x] = row /\ \A p \in Pictures \ {x} : picture'[p] = picture[p]
  <2>1. picture' = [picture EXCEPT ![x].licence = IF l = None THEN @ ELSE l,
                                   ![x].premium = IF premium = None THEN @ ELSE premium]
    BY DEF PutPicture
  <2>2. picture \in [Pictures -> PictureRow \cup {None}]
    BY DEF TypeOK
  <2> QED BY <2>1, <2>2, <1>1 DEF PictureRow
<1> HIDE DEF row
<1>6. \A p \in Pictures \ {x} : licenceLog'[p] = licenceLog[p]
  BY DEF PutPicture, TypeOK
<1>7. LogFits(x)'
  <2>1. CASE licence = picture[x].licence
    <3>1. licenceLog' = licenceLog
      BY <2>1 DEF PutPicture
    <3>2. LogFits(x)
      BY DEF LicencesInv
    <3> QED BY <1>1, <1>2, <1>4, <1>5, <2>1, <3>1, <3>2, LogStays
  <2>2. CASE licence # picture[x].licence
    <3>1. l \in Licences /\ licence = l
      BY <2>2
    <3>2. licenceLog'[x] = Append(licenceLog[x], LogEntry(l))
      BY <2>2, <3>1 DEF PutPicture, TypeOK
    <3>3. LogEntry(l) \in LicenceRow /\ LogEntry(l).licence = l /\ LogEntry(l).at = now
      BY <3>1 DEF LogEntry, LicenceRow, TypeOK
    <3>4. IsTraced(licenceLog[x], picture[x].licence, now) /\ licenceLog[x] \in Seq(LicenceRow)
      BY <1>1 DEF LicencesInv, LogFits, TypeOK
    <3>5. IsTraced(licenceLog'[x], l, now)
      BY <1>4, <2>2, <3>1, <3>2, <3>3, <3>4, LogGrows
    <3>6. picture'[x].licence = l
      BY <1>2, <1>5, <3>1
    <3> QED BY <1>4, <3>5, <3>6 DEF LogFits
  <2> QED BY <2>1, <2>2
<1>8. \A p \in Pictures : LogFits(p)'
  BY <1>4, <1>5, <1>6, <1>7, LogStays DEF LicencesInv
<1>9. ASSUME NEW q \in Requests, SetsAll(q)
      PROVE  KeepsGallery(Caller(q))
  <2>1. picture[x].owner # Caller(q)
    BY <1>1, <1>9 DEF IsLocked, LockedGalleries, SetsAll
  <2> QED BY <1>1, <1>2, <1>3, <1>5, <2>1 DEF KeepsGallery, PicturesOf
<1>10. LocksHold'
  BY <1>4, <1>9, LocksStay DEF LicencesInv, Fades, SetsAll
<1> QED BY <1>4, <1>8, <1>10, UploadsStayDue DEF LicencesInv

\* Under the owner's lock nobody else was at the licences of that gallery.
LEMMA OpenKeepsLicences ==
  ASSUME TypeOK, LicencesInv, NEW r \in Requests, NEW l \in Licences, OpenSetAll(r, l)
  PROVE  LicencesInv'
<1> DEFINE w == [kind |-> "licences", licence |-> l, pictures |-> Differing(Caller(r), l)]
<1>1. UNCHANGED <<picture, licenceLog>> /\ Caller(r) \notin LockedGalleries /\ request[r] \in Row
  BY Begun DEF OpenSetAll, galleryVars
<1>2. /\ w \in WorkRow /\ w.kind = "licences" /\ w.licence = l
      /\ w.pictures = Differing(Caller(r), l)
  BY DEF WorkRow, GalleryWork, Differing, PicturesOf
<1>3. Answered(r) \/ GoesOn(r, w)
  BY DEF OpenSetAll, Differing
<1>4. \A u \in Users : KeepsGallery(u)
  BY <1>1 DEF KeepsGallery, PicturesOf
<1>5. CASE Answered(r)
  <2>1. Fades("upload") /\ Fades("licences") /\ now' = now
    BY <1>5, AnsweredFades, AnswersFade
  <2>2. \A q \in Requests : SetsAll(q) => KeepsGallery(Caller(q))
    BY <1>4, Works DEF SetsAll
  <2> QED BY <1>1, <2>1, <2>2, LicencesStay, ClockRuns
<1>6. CASE GoesOn(r, w)
  <2> HIDE DEF w
  <2>1. now' = now /\ now \in Nat /\ Fades("upload")
    BY <1>1, <1>2, <1>6, WorksGoOn, GoesOnFades, ClockRuns
  <2>2. request'[r] = [user |-> Caller(r), doing |-> w]
    BY <1>1, <1>2, <1>6, WorksGoOn
  <2>3. Work(r)' = w /\ Caller(r)' = Caller(r)
    BY <2>2 DEF Work, Caller
  <2>4. \A q \in Requests : q # r => request'[q] = request[q]
    BY <1>1, <1>2, <1>6, WorksGoOn
  <2>5. \A q \in Requests : q # r => /\ SetsAll(q)' <=> SetsAll(q)
                                     /\ Work(q)' = Work(q) /\ Caller(q)' = Caller(q)
    BY <2>4 DEF SetsAll, Doing, Work, Caller
  <2>6. \A q \in Requests : SetsAll(q) => Caller(q) # Caller(r)
    BY <1>1 DEF SetsAll, LockedGalleries
  <2>7. ASSUME NEW q \in Requests, SetsAll(q)'
        PROVE  (Work(q).pictures = Differing(Caller(q), Work(q).licence))'
    <3>1. (Differing(Caller(q), Work(q).licence))' =
            {p \in {x \in Pictures : picture[x] # None /\ picture[x].owner = Caller(q)'} :
               picture[p].licence # Work(q)'.licence}
      BY <1>1 DEF Differing, PicturesOf
    <3>2. \A u, k : Differing(u, k) =
            {p \in {x \in Pictures : picture[x] # None /\ picture[x].owner = u} :
               picture[p].licence # k}
      BY DEF Differing, PicturesOf
    <3>3. CASE q = r
      BY <1>2, <2>3, <3>1, <3>2, <3>3
    <3>4. CASE q # r
      <4>1. Work(q).pictures = Differing(Caller(q), Work(q).licence)
        BY <2>5, <2>7, <3>4 DEF LicencesInv, LocksHold
      <4> QED BY <2>5, <3>1, <3>2, <3>4, <4>1
    <3> QED BY <3>3, <3>4
  <2>8. \A q, s \in Requests : SetsAll(q)' /\ SetsAll(s)' /\ Caller(q)' = Caller(s)' => q = s
    BY <2>3, <2>5, <2>6 DEF LicencesInv, LocksHold
  <2>9. LocksHold'
    BY <2>7, <2>8 DEF LocksHold
  <2>10. \A p \in Pictures : LogFits(p)'
    BY <1>1, <2>1, LogStays, ClockRuns DEF LicencesInv
  <2> QED BY <2>1, <2>9, <2>10, UploadsStayDue DEF LicencesInv
<1> QED BY <1>3, <1>5, <1>6

LEMMA WriteKeepsLicences ==
  ASSUME TypeOK, LicencesInv, NEW r \in Requests, WriteSetAll(r)
  PROVE  LicencesInv'
<1> DEFINE l == Work(r).licence
           u == Caller(r)
<1>1. SetsAll(r) /\ Answered(r) /\ l \in Licences /\ u \in Users
  BY Works DEF WriteSetAll, SetsAll
<1>2. Work(r).pictures = Differing(u, l)
  BY <1>1 DEF LicencesInv, LocksHold
<1>3. now' = now /\ now \in Nat /\ Fades("upload") /\ Fades("licences")
  BY <1>1, AnswersFade, AnsweredFades, ClockRuns
<1>4. \A p \in Pictures : /\ picture'[p] = IF p \in PicturesOf(u)
                                           THEN [picture[p] EXCEPT !.licence = l] ELSE picture[p]
                          /\ licenceLog'[p] = IF p \in Differing(u, l)
                                              THEN Append(licenceLog[p], LogEntry(l))
                                              ELSE licenceLog[p]
  BY <1>2 DEF WriteSetAll
<1> HIDE DEF l, u
<1>5. \A p \in PicturesOf(u) : /\ p \in Pictures /\ picture[p] # None /\ picture[p].owner = u
                               /\ picture'[p] # None /\ picture'[p].licence = l
                               /\ picture'[p].owner = u
  <2>1. \A p \in PicturesOf(u) : p \in Pictures /\ picture[p] # None /\ picture[p].owner = u
    BY DEF PicturesOf
  <2>2. ASSUME NEW p \in PicturesOf(u)
        PROVE  picture'[p] # None /\ picture'[p].licence = l /\ picture'[p].owner = u
    <3>1. picture'[p] = [picture[p] EXCEPT !.licence = l]
      BY <1>4, <2>1
    <3> QED BY <1>1, <2>1, <3>1, PictureEdits
  <2> QED BY <2>1, <2>2
<1>6. ASSUME NEW p \in Pictures
      PROVE  LogFits(p)'
  <2>1. CASE p \in Differing(u, l)
    <3>1. p \in PicturesOf(u) /\ picture[p].licence # l
      BY <2>1 DEF Differing
    <3>2. LogEntry(l) \in LicenceRow /\ LogEntry(l).licence = l /\ LogEntry(l).at = now
      BY <1>1 DEF LogEntry, LicenceRow, TypeOK
    <3>3. IsTraced(licenceLog[p], picture[p].licence, now) /\ licenceLog[p] \in Seq(LicenceRow)
      BY <1>5, <3>1 DEF LicencesInv, LogFits, TypeOK
    <3>4. IsTraced(Append(licenceLog[p], LogEntry(l)), l, now)
      BY <1>3, <3>1, <3>2, <3>3, LogGrows
    <3> QED BY <1>3, <1>4, <1>5, <2>1, <3>1, <3>4 DEF LogFits
  <2>2. CASE p \notin Differing(u, l)
    <3>1. LogFits(p) /\ licenceLog'[p] = licenceLog[p]
      BY <1>4, <2>2 DEF LicencesInv
    <3>2. CASE p \in PicturesOf(u)
      <4>1. picture[p].licence = l
        BY <2>2, <3>2 DEF Differing
      <4> QED BY <1>3, <1>5, <3>1, <3>2, <4>1, LogStays
    <3>3. CASE p \notin PicturesOf(u)
      <4>1. picture'[p] = picture[p]
        BY <1>4, <3>3
      <4> QED BY <1>3, <3>1, <4>1, LogStays
    <3> QED BY <3>2, <3>3
  <2> QED BY <2>1, <2>2
<1>7. ASSUME NEW q \in Requests, SetsAll(q)'
      PROVE  KeepsGallery(Caller(q))
  <2>1. SetsAll(q) /\ q # r
    BY <1>1, <1>3, <1>7, AnswersFade DEF Fades, SetsAll, Doing
  <2>2. Caller(q) # u
    BY <1>1, <2>1 DEF LicencesInv, LocksHold, u
  <2> QED BY <1>4, <1>5, <2>2 DEF KeepsGallery, PicturesOf
<1>8. LocksHold'
  BY <1>3, <1>7, LocksStay DEF LicencesInv
<1> QED BY <1>3, <1>6, <1>8, UploadsStayDue DEF LicencesInv

LEMMA GalleryStepsKeepLicences ==
  ASSUME TypeOK, PicturesInv, LicencesInv, NEW r \in Requests, GalleryStep(r)
  PROVE  LicencesInv'
<1>1. ASSUME NEW premium \in BOOLEAN, SetAllPremium(r, premium)
      PROVE  LicencesInv'
  <2>1. Answered(r) /\ licenceLog' = licenceLog
    BY <1>1 DEF SetAllPremium
  <2>2. ASSUME NEW p \in Pictures
        PROVE  /\ picture'[p] # None <=> picture[p] # None
               /\ picture[p] # None => /\ picture'[p].licence = picture[p].licence
                                       /\ picture'[p].owner = picture[p].owner
    <3>1. \/ picture'[p] = picture[p]
          \/ picture[p] # None /\ picture'[p] = [picture[p] EXCEPT !.premium = premium]
      BY <1>1 DEF SetAllPremium, PicturesOf
    <3>2. CASE picture[p] # None /\ picture'[p] = [picture[p] EXCEPT !.premium = premium]
      BY <3>2, PictureEdits
    <3> QED BY <3>1, <3>2
  <2>3. \A u : KeepsGallery(u)
    BY <2>2 DEF KeepsGallery, PicturesOf
  <2>4. now' = now /\ Fades("upload") /\ Fades("licences")
    BY <2>1, AnswersFade, AnsweredFades
  <2> QED BY <2>1, <2>2, <2>3, <2>4, LicencesStay, ClockRuns
<1>2. ASSUME Unlink(r) \/ \E x \in Photos : Comment(r, x) \/ Rate(r, x)
      PROVE  LicencesInv'
  <2>1. Answered(r) /\ UNCHANGED <<picture, licenceLog>>
    BY <1>2 DEF Unlink, Comment, Rate
  <2>2. \A u : KeepsGallery(u)
    BY <2>1 DEF KeepsGallery, PicturesOf
  <2>3. now' = now /\ Fades("upload") /\ Fades("licences")
    BY <2>1, AnswersFade, AnsweredFades
  <2> QED BY <2>1, <2>2, <2>3, LicencesStay, ClockRuns
<1>3. ASSUME NEW x \in Pictures, DeletePicture(r, x)
      PROVE  LicencesInv'
  <2> DEFINE w == [kind |-> "unlink", pictures |-> {x}]
  <2>1. w \in WorkRow /\ w.kind = "unlink"
    BY DEF WorkRow, GalleryWork
  <2>2. /\ request[r] \in Row /\ GoesOn(r, w) /\ picture[x] # None /\ ~IsLocked(x)
    BY <1>3, Begun DEF DeletePicture
  <2> HIDE DEF w
  <2>3. picture'[x] = None /\ \A p \in Pictures \ {x} : picture'[p] = picture[p]
                                                        /\ licenceLog'[p] = licenceLog[p]
    BY <1>3 DEF DeletePicture, TypeOK
  <2>4. ASSUME NEW q \in Requests, SetsAll(q)
        PROVE  KeepsGallery(Caller(q))
    <3>1. picture[x].owner # Caller(q)
      BY <2>2, <2>4 DEF IsLocked, LockedGalleries, SetsAll
    <3> QED BY <2>3, <3>1 DEF KeepsGallery, PicturesOf
  <2>5. now' = now /\ Fades("upload") /\ Fades("licences")
    BY <2>1, <2>2, WorksGoOn, GoesOnFades
  <2> QED BY <2>3, <2>4, <2>5, LicencesStay, ClockRuns
<1> QED BY <1>1, <1>2, <1>3, UploadsKeepLicences, PutKeepsLicences, OpenKeepsLicences,
           WriteKeepsLicences DEF GalleryStep

LEMMA LicencesInvNext ==
  ASSUME TypeOK, PicturesInv, LicencesInv, [Next]_vars
  PROVE  LicencesInv'
<1>1. CASE GalleryNext
  BY <1>1, GalleryStepsKeepLicences DEF GalleryNext
<1>2. CASE MapsNext \/ EventsNext \/ SharedNext \/ UNCHANGED vars
  <2>1. Fades("upload") /\ Fades("licences")
    BY <1>2, GalleryWorkFades
  <2>2. now' \in Nat /\ now' >= now
    <3>1. now' = now \/ now' = now + 1
      <4>1. CASE MapsNext
        <5>1. PICK r \in Requests : MapStep(r) \/ \E m \in Maps : DropMap(r, m)
          BY <4>1 DEF MapsNext
        <5>2. Answered(r) \/ (\E w : GoesOn(r, w))
          BY <5>1 DEF DropMap, DeleteMap, MapStep, PostMap, PostWriters, GetMap, PatchMap
        <5> QED BY <5>2 DEF Answered, GoesOn
      <4>2. ASSUME NEW r \in Requests, EventStep(r)
            PROVE  now' = now
        <5>1. Answered(r) \/ (\E w : GoesOn(r, w))
          BY <4>2 DEF EventStep, OpenPost, WritePost, OpenPatch, WritePatch, DeleteEvent,
                      SetParticipation, StartCover, StoreVariant, StoreFails, StartNoCover,
                      SetCover, SetCoverUnanswered
        <5> QED BY <5>1 DEF Answered, GoesOn
      <4>3. CASE EventsNext
        BY <4>2, <4>3 DEF EventsNext, RemoveCover, ownersVars
      <4>4. CASE \E r \in Requests : Arrival(r)
        BY <4>4 DEF Arrival, Authenticate, Refused, Answered
      <4>5. CASE AccountStep \/ Restart \/ Time \/ UNCHANGED vars
        BY <4>5 DEF AccountStep, MergeAccounts, MergeOwners, DeleteAccount, DeleteOwner, Restart,
                    Time, Tick, vars, ownersVars
      <4> QED BY <1>2, <4>1, <4>3, <4>4, <4>5 DEF SharedNext
    <3> QED BY <3>1, ClockRuns
  <2>3. ASSUME UNCHANGED galleryVars
        PROVE  LicencesInv'
    <3>1. \A u : KeepsGallery(u)
      BY <2>3 DEF KeepsGallery, PicturesOf, galleryVars
    <3> QED BY <2>1, <2>2, <2>3, <3>1, LicencesStay DEF galleryVars
  <2>4. ASSUME NEW source \in Users, NEW target \in Users, MergeAccounts(source, target)
        PROVE  LicencesInv'
    <3>1. /\ licenceLog' = licenceLog /\ source \notin LockedGalleries
          /\ target \notin LockedGalleries
          /\ picture' = Repointed(picture, source, target)
      BY <2>4 DEF MergeAccounts, MergeGallery
    <3>2. ASSUME NEW p \in Pictures
          PROVE  /\ picture'[p] # None <=> picture[p] # None
                 /\ picture[p] # None =>
                      /\ picture'[p].licence = picture[p].licence
                      /\ picture'[p].owner = IF picture[p].owner = source THEN target
                                             ELSE picture[p].owner
      <4>1. picture'[p] = IF picture[p] # None /\ picture[p].owner = source
                          THEN [picture[p] EXCEPT !.owner = target] ELSE picture[p]
        BY <3>1 DEF Repointed, TypeOK
      <4> QED BY <4>1, PictureEdits
    <3>3. ASSUME NEW q \in Requests, SetsAll(q)
          PROVE  KeepsGallery(Caller(q))
      <4>1. Caller(q) # source /\ Caller(q) # target
        BY <3>1, <3>3 DEF LockedGalleries, SetsAll
      <4> QED BY <3>2, <4>1 DEF KeepsGallery, PicturesOf
    <3> QED BY <2>1, <2>2, <3>1, <3>2, <3>3, LicencesStay
  <2>5. ASSUME NEW u \in Users, DeleteAccount(u)
        PROVE  LicencesInv'
    <3>1. u \notin LockedGalleries
      BY <2>5 DEF DeleteAccount, DeleteGalleryOf
    <3>2. \A p \in Pictures : IF p \in PicturesOf(u) THEN picture'[p] = None
                              ELSE picture'[p] = picture[p] /\ licenceLog'[p] = licenceLog[p]
      BY <2>5 DEF DeleteAccount, DeleteGalleryOf, WithoutOwner, PicturesOf, TypeOK
    <3>3. ASSUME NEW q \in Requests, SetsAll(q)
          PROVE  KeepsGallery(Caller(q))
      <4>1. Caller(q) # u
        BY <3>1, <3>3 DEF LockedGalleries, SetsAll
      <4> QED BY <3>2, <4>1 DEF KeepsGallery, PicturesOf
    <3> QED BY <2>1, <2>2, <3>2, <3>3, LicencesStay
  <2>6. MapsNext \/ EventsNext \/ Restart \/ Time \/ UNCHANGED vars
          \/ (\E r \in Requests : Arrival(r)) => UNCHANGED galleryVars
    BY DEF MapsNext, EventsNext, DropMap, Restart, Time, Arrival, Refused, vars
  <2> QED BY <1>2, <2>3, <2>4, <2>5, <2>6 DEF SharedNext, AccountStep
<1> QED BY <1>1, <1>2 DEF Next

LEMMA LicencesInvInit == Init => LicencesInv
BY DEF Init, OwnersInit, GalleryInit, LicencesInv, LogFits, LocksHold, SetsAll, Doing

\* The last row of a picture's log has its licence, every row is a change of the one
\* before and none is earlier, whoever edits one picture or all, merges accounts or
\* deletes them meanwhile.
THEOREM LicencesStayTraced == Spec => []LicencesAreTraced
<1> DEFINE Inv == TypeOK /\ LinksInv /\ PicturesInv /\ LicencesInv
<1>1. Init => Inv
  BY TypedInit, LinksInvInit, PicturesInvInit, LicencesInvInit
<1>2. Inv /\ [Next]_vars => Inv'
  BY TypedNext, LinksInvNext, PicturesInvNext, LicencesInvNext DEF LinksInv
<1>3. Inv => LicencesAreTraced
  BY DEF LicencesAreTraced, LicencesInv, LogFits, IsTraced, Last
<1> QED BY <1>1, <1>2, <1>3, PTL DEF Spec

-------------------------------------------------------------------------------
(* Merges *)

LEMMA AliveStays ==
  ASSUME [Next]_vars, ~AccountStep
  PROVE  UNCHANGED <<alive, userAlias>>
<1>1. ASSUME NEW r \in Requests, Answered(r) \/ \E w : GoesOn(r, w)
      PROVE  UNCHANGED <<alive, userAlias>>
  BY <1>1 DEF Answered, GoesOn
<1>2. ASSUME NEW r \in Requests, MapStep(r) \/ \E m \in Maps : DropMap(r, m)
      PROVE  Answered(r) \/ \E w : GoesOn(r, w)
  BY <1>2 DEF MapStep, PostMap, PostWriters, GetMap, PatchMap, DropMap, DeleteMap
<1>3. ASSUME NEW r \in Requests, EventStep(r)
      PROVE  Answered(r) \/ \E w : GoesOn(r, w)
  BY <1>3 DEF EventStep, OpenPost, WritePost, OpenPatch, WritePatch, DeleteEvent,
              SetParticipation, StartCover, StoreVariant, StoreFails, StartNoCover, SetCover,
              SetCoverUnanswered
<1>4. ASSUME NEW r \in Requests, GalleryStep(r)
      PROVE  Answered(r) \/ \E w : GoesOn(r, w)
  BY <1>4 DEF GalleryStep, Upload, InsertPicture, PutPicture, OpenSetAll, WriteSetAll,
              SetAllPremium, DeletePicture, Unlink, Comment, Rate
<1>5. CASE MapsNext \/ EventsNext \/ GalleryNext
  BY <1>1, <1>2, <1>3, <1>4, <1>5 DEF MapsNext, EventsNext, GalleryNext, RemoveCover, ownersVars
<1>6. CASE (\E r \in Requests : Arrival(r)) \/ Restart \/ Time \/ UNCHANGED vars
  BY <1>1, <1>6 DEF Arrival, Authenticate, Refused, Restart, Time, Tick, vars, ownersVars
<1> QED BY <1>5, <1>6 DEF Next, SharedNext

LEMMA AliasesLeadNext ==
  ASSUME TypeOK, AliasesLead, [Next]_vars
  PROVE  AliasesLead'
<1>1. ASSUME NEW source \in Users, NEW target \in Users, MergeAccounts(source, target)
      PROVE  AliasesLead'
  BY <1>1, OwnersAssumption DEF MergeAccounts, MergeOwners, AliasesLead, TypeOK
<1>2. ASSUME NEW u \in Users, DeleteAccount(u)
      PROVE  AliasesLead'
  BY <1>2 DEF DeleteAccount, DeleteOwner, AliasesLead, TypeOK
<1> QED BY <1>1, <1>2, AliveStays DEF AccountStep, AliasesLead

LEMMA MergeKeepsRows ==
  ASSUME TypeOK, NEW source \in Users, NEW target \in Users, MergeAccounts(source, target)
  PROVE  /\ \A m \in Maps : CanWriteMap(source, m) =>
              map'[m] # None /\ (map'[m].owner = target \/ target \in writers'[m])
         /\ \A e \in OwnedEvents(source) : event'[e] # None /\ event'[e].owner = target
         /\ \A e \in Events : source \in takesPart[e] => target \in takesPart'[e]
         /\ \A p \in PicturesOf(source) : picture'[p] # None /\ picture'[p].owner = target
         /\ \A p \in Pictures : /\ source \in comments[p] => target \in comments'[p]
                                /\ source \in ratings[p] => target \in ratings'[p]
<1>1. /\ map' = Repointed(map, source, target) /\ event' = Repointed(event, source, target)
      /\ picture' = Repointed(picture, source, target)
      /\ writers' = [m \in Maps |-> Renamed(writers[m], source, target)]
      /\ takesPart' = [e \in Events |-> Renamed(takesPart[e], source, target)]
      /\ comments' = WithMoved(comments, source, target)
      /\ ratings' = WithMoved(ratings, source, target)
  BY DEF MergeAccounts, MergeMaps, MergedWriters, MergeEvents, MergeGallery
<1>2. ASSUME NEW m \in Maps, CanWriteMap(source, m)
      PROVE  map'[m] # None /\ (map'[m].owner = target \/ target \in writers'[m])
  <2>1. map[m] # None /\ map[m] \in MapRow
    BY <1>2 DEF CanWriteMap, TypeOK
  <2>2. [map[m] EXCEPT !.owner = target] \in MapRow
        /\ [map[m] EXCEPT !.owner = target].owner = target
    BY <2>1 DEF MapRow
  <2>3. map'[m] = IF map[m].owner = source THEN [map[m] EXCEPT !.owner = target] ELSE map[m]
    BY <1>1, <2>1 DEF Repointed, TypeOK
  <2>4. source \in writers[m] => target \in writers'[m]
    BY <1>1 DEF Renamed
  <2> QED BY <1>2, <2>1, <2>2, <2>3, <2>4, MapsAssumption DEF CanWriteMap
<1>3. ASSUME NEW e \in OwnedEvents(source)
      PROVE  event'[e] # None /\ event'[e].owner = target
  <2>1. e \in Events /\ event[e] # None /\ event[e].owner = source /\ event[e] \in EventRow
    BY DEF OwnedEvents, TypeOK
  <2>2. event'[e] = [event[e] EXCEPT !.owner = target]
    BY <1>1, <2>1 DEF Repointed, TypeOK
  <2>3. event'[e] \in EventRow /\ event'[e].owner = target
    BY <2>1, <2>2 DEF EventRow
  <2> QED BY <2>3, EventsAssumption
<1>4. ASSUME NEW p \in PicturesOf(source)
      PROVE  picture'[p] # None /\ picture'[p].owner = target
  <2>1. p \in Pictures /\ picture[p] # None /\ picture[p].owner = source
    BY DEF PicturesOf
  <2>2. picture'[p] = [picture[p] EXCEPT !.owner = target]
    BY <1>1, <2>1 DEF Repointed, TypeOK
  <2> QED BY <2>1, <2>2, PictureEdits
<1>5. \A e \in Events : source \in takesPart[e] => target \in takesPart'[e]
  BY <1>1 DEF Renamed
<1>6. \A p \in Pictures : /\ source \in comments[p] => target \in comments'[p]
                          /\ source \in ratings[p] => target \in ratings'[p]
  BY <1>1 DEF WithMoved, Renamed, Photos
<1> QED BY <1>2, <1>3, <1>4, <1>5, <1>6

\* What an account may write, owns, takes part in and has said on pictures is the
\* other's after their merge, whatever rows both had.
THEOREM MergesKeepAll == Spec => KeptByMerge
<1> DEFINE Inv == TypeOK /\ LinksInv /\ AliasesLead
           Kept(source, target) ==
             /\ \A m \in Maps : CanWriteMap(source, m) =>
                  map'[m] # None /\ (map'[m].owner = target \/ target \in writers'[m])
             /\ \A e \in OwnedEvents(source) : event'[e] # None /\ event'[e].owner = target
             /\ \A e \in Events : source \in takesPart[e] => target \in takesPart'[e]
             /\ \A p \in PicturesOf(source) : picture'[p] # None /\ picture'[p].owner = target
             /\ \A p \in Pictures : /\ source \in comments[p] => target \in comments'[p]
                                    /\ source \in ratings[p] => target \in ratings'[p]
<1>1. Init => Inv
  BY TypedInit, LinksInvInit DEF Init, OwnersInit, AliasesLead
<1>2. Inv /\ [Next]_vars => Inv'
  BY TypedNext, LinksInvNext, AliasesLeadNext DEF LinksInv
<1>3. ASSUME Inv, [Next]_vars, NEW source \in alive \ alive', userAlias'[source] # None
      PROVE  Kept(source, userAlias'[source])
  <2>1. AccountStep /\ source \in Users
    BY <1>3, AliveStays DEF TypeOK
  <2>2. ASSUME NEW u \in Users, DeleteAccount(u)
        PROVE  FALSE
    BY <1>3, <2>1, <2>2 DEF DeleteAccount, DeleteOwner, AliasesLead
  <2>3. ASSUME NEW s \in Users, NEW target \in Users, MergeAccounts(s, target)
        PROVE  Kept(source, userAlias'[source])
    <3>1. source = s /\ userAlias'[source] = target
      BY <1>3, <2>1, <2>3 DEF MergeAccounts, MergeOwners
    <3>2. Kept(s, target)
      BY <1>3, <2>3, MergeKeepsRows
    <3> QED BY <3>1, <3>2
  <2> QED BY <2>1, <2>2, <2>3 DEF AccountStep
<1>4. Inv /\ [Next]_vars =>
        [\A source \in alive \ alive' : LET target == userAlias'[source] IN target # None =>
           Kept(source, target)]_vars
  BY <1>3
<1> QED BY <1>1, <1>2, <1>4, PTL DEF Spec, KeptByMerge
-------------------------------------------------------------------------------
(* Listings: rows cut and merged *)

\* What comes neither before nor after another may do either.
IsOrder(after, rows) ==
  /\ \A p, r \in rows : r \in after[p] => p \notin after[r]
  /\ \A p, q, r \in rows : r \in after[p] => q \in after[p] \/ r \in after[q]

LEMMA Together ==
  ASSUME NEW S, NEW T, IsFiniteSet(S), IsFiniteSet(T), S \cap T = {}
  PROVE  /\ IsFiniteSet(S \cup T) /\ Cardinality(S) \in Nat /\ Cardinality(T) \in Nat
         /\ Cardinality(S \cup T) = Cardinality(S) + Cardinality(T)
<1>1. Cardinality(S \cap T) = 0
  BY FS_EmptySet
<1>2. Cardinality(S \cup T) = Cardinality(S) + Cardinality(T) - Cardinality(S \cap T)
  BY FS_Union
<1>3. IsFiniteSet(S \cup T) /\ Cardinality(S) \in Nat /\ Cardinality(T) \in Nat
  BY FS_Union, FS_CardinalityType
<1> QED BY <1>1, <1>2, <1>3

\* The rows of an answer, each once.
LEMMA TopRows ==
  ASSUME NEW rows, IsFiniteSet(rows), NEW after, NEW n \in Nat, NEW sorted \in Top(rows, after, n)
  PROVE  LET k == Least(n, Cardinality(rows))
         IN /\ k \in Nat /\ DOMAIN sorted = 1..k /\ Len(sorted) = k
            /\ ToSet(sorted) \subseteq rows /\ IsFiniteSet(ToSet(sorted))
            /\ Cardinality(ToSet(sorted)) = k
            /\ \A i, j \in 1..k : i < j => sorted[i] # sorted[j]
<1> DEFINE k == Least(n, Cardinality(rows))
<1>1. k \in Nat
  BY FS_CardinalityType DEF Least
<1>2. /\ sorted \in [1..k -> rows]
      /\ \A i, j \in 1..k : i < j => sorted[i] # sorted[j]
  BY DEF Top
<1> HIDE DEF k
<1>3. DOMAIN sorted = 1..k /\ Len(sorted) = k
  BY <1>1, <1>2
<1>4. ToSet(sorted) \subseteq rows
  BY <1>2, <1>3 DEF ToSet
<1>5. ASSUME NEW i \in 1..k, NEW j \in 1..k, sorted[i] = sorted[j] PROVE i = j
  BY <1>1, <1>2, <1>5
<1>6. sorted \in Bijection(1..k, ToSet(sorted))
  <2>1. sorted \in [1..k -> ToSet(sorted)]
    BY <1>2, <1>3 DEF ToSet
  <2>2. \A x \in ToSet(sorted) : \E i \in 1..k : sorted[i] = x
    BY <1>3 DEF ToSet
  <2> QED BY <1>5, <2>1, <2>2 DEF Bijection, Injection, Surjection, IsInjective
<1>7. IsFiniteSet(ToSet(sorted)) /\ Cardinality(ToSet(sorted)) = k
  <2>1. IsFiniteSet(1..k) /\ Cardinality(1..k) = k
    BY <1>1, FS_Interval
  <2> QED BY <1>6, <2>1, FS_Bijection DEF ExistsBijection
<1> QED BY <1>1, <1>2, <1>3, <1>4, <1>7 DEF k

\* A row that is left out is so because there are as many as the limit, none of
\* them after it.
LEMMA LeftOut ==
  ASSUME NEW rows, IsFiniteSet(rows), NEW after, NEW n \in Nat, NEW sorted \in Top(rows, after, n),
         NEW p \in rows \ ToSet(sorted)
  PROVE  /\ Cardinality(ToSet(sorted)) = n
         /\ \A r \in ToSet(sorted) : r \notin after[p]
<1>1. /\ ToSet(sorted) \subseteq rows /\ IsFiniteSet(ToSet(sorted))
      /\ Cardinality(ToSet(sorted)) = Least(n, Cardinality(rows))
  BY TopRows
<1>2. Cardinality(ToSet(sorted)) # Cardinality(rows)
  BY <1>1, FS_Subset
<1>3. \A r \in ToSet(sorted) : r \notin after[p]
  BY DEF Top, ToSet
<1> QED BY <1>1, <1>2, <1>3 DEF Least

\* Nor does it come before a row of an answer that has as many.
LEMMA LeftOutOfMerge ==
  ASSUME NEW rows, IsFiniteSet(rows), NEW after, NEW all, rows \subseteq all, IsOrder(after, all),
         NEW sorted \in Top(rows, after, Limit), NEW p \in rows \ ToSet(sorted),
         NEW merged, IsFiniteSet(merged), ToSet(sorted) \subseteq merged, merged \subseteq all,
         NEW answered \in Top(merged, after, Limit)
  PROVE  \A i \in DOMAIN answered : answered[i] \notin after[p]
<1> Limit \in Nat
  BY QueriesAssumption
<1>1. /\ Cardinality(ToSet(sorted)) = Limit /\ IsFiniteSet(ToSet(sorted))
      /\ \A r \in ToSet(sorted) : r \notin after[p]
  BY LeftOut, TopRows
<1>2. Cardinality(merged) \in Nat /\ Limit <= Cardinality(merged)
  BY <1>1, FS_Subset, FS_CardinalityType
<1>3. /\ ToSet(answered) \subseteq merged /\ IsFiniteSet(ToSet(answered))
      /\ Cardinality(ToSet(answered)) = Limit
  BY <1>2, TopRows DEF Least
<1> SUFFICES ASSUME NEW i \in DOMAIN answered, answered[i] \in after[p]
             PROVE  FALSE
  OBVIOUS
<1>4. answered[i] \in ToSet(answered)
  BY DEF ToSet
<1>5. CASE ToSet(sorted) \subseteq ToSet(answered)
  <2>1. ToSet(sorted) = ToSet(answered)
    BY <1>1, <1>3, <1>5, FS_Subset
  <2> QED BY <1>1, <1>4, <2>1
<1>6. ASSUME NEW r \in ToSet(sorted) \ ToSet(answered) PROVE FALSE
  <2>1. answered[i] \notin after[r]
    BY <1>6 DEF Top
  <2>2. r \notin after[p]
    BY <1>1
  <2>3. p \in all /\ r \in all /\ answered[i] \in all
    BY <1>3, <1>4, <1>6
  <2> QED BY <2>1, <2>2, <2>3 DEF IsOrder
<1> QED BY <1>5, <1>6

\* Two tables cut to the limit and merged give what one query over both could.
LEMMA MergedTops ==
  ASSUME NEW own, NEW pages, IsFiniteSet(own), IsFiniteSet(pages), own \cap pages = {},
         NEW after, IsOrder(after, own \cup pages),
         NEW arm1 \in Arms(own, after), NEW arm2 \in Arms(pages, after),
         NEW answered \in Top(arm1 \cup arm2, after, Limit)
  PROVE  answered \in Top(own \cup pages, after, Limit)
<1> Limit \in Nat
  BY QueriesAssumption
<1>1. PICK s \in Top(own, after, Limit), t \in Top(pages, after, Limit) :
        arm1 = ToSet(s) /\ arm2 = ToSet(t)
  BY DEF Arms
<1>2. /\ arm1 \subseteq own /\ IsFiniteSet(arm1) /\ Cardinality(arm1) = Least(Limit, Cardinality(own))
      /\ arm2 \subseteq pages /\ IsFiniteSet(arm2)
      /\ Cardinality(arm2) = Least(Limit, Cardinality(pages))
  BY <1>1, TopRows
<1> DEFINE merged == arm1 \cup arm2
           all == own \cup pages
<1>3. IsFiniteSet(merged) /\ IsFiniteSet(all) /\ merged \subseteq all
  BY <1>2, FS_Union
<1>4. Least(Limit, Cardinality(merged)) = Least(Limit, Cardinality(all))
  <2>1. arm1 \cap arm2 = {}
    BY <1>2
  <2>2. Cardinality(merged) = Cardinality(arm1) + Cardinality(arm2)
    BY <1>2, <2>1, Together
  <2>3. /\ Cardinality(all) = Cardinality(own) + Cardinality(pages)
        /\ Cardinality(own) \in Nat /\ Cardinality(pages) \in Nat
    BY Together
  <2> HIDE DEF merged, all
  <2> QED BY <1>2, <2>2, <2>3 DEF Least
<1>5. /\ answered \in [1..Least(Limit, Cardinality(all)) -> all]
      /\ \A i, j \in DOMAIN answered : i < j =>
           answered[i] # answered[j] /\ answered[i] \notin after[answered[j]]
      /\ \A p \in merged \ ToSet(answered) : \A i \in DOMAIN answered : answered[i] \notin after[p]
  BY <1>3, <1>4 DEF Top
<1>6. ASSUME NEW p \in all \ ToSet(answered), NEW i \in DOMAIN answered
      PROVE  answered[i] \notin after[p]
  <2>1. CASE p \in merged
    BY <1>5, <2>1
  <2>2. CASE p \in own \ arm1
    BY <1>1, <1>3, <2>2, LeftOutOfMerge
  <2>3. CASE p \in pages \ arm2
    BY <1>1, <1>3, <2>3, LeftOutOfMerge
  <2> QED BY <2>1, <2>2, <2>3
<1> QED BY <1>5, <1>6 DEF Top
-------------------------------------------------------------------------------
(* Listings: the answers *)

\* An answer is what the handler makes of the tables, which no listing changes.
ListingInv ==
  /\ photos \in Catalogs /\ query \in Queries
  /\ \/ answer = Unset
     \/ query.by = "order" /\ answer \in ByOrder(query)
     \/ query.by = "radius" /\ answer \in ByRadius(query)
     \/ query.by = "bbox" /\ answer \in ByBbox(query)

LEMMA PhotosAre ==
  ASSUME photos \in Catalogs
  PROVE  /\ IsFiniteSet(photos)
         /\ \A p, r \in photos : p.id = r.id => p = r
         /\ \A p \in photos :
              /\ p.id \in Int /\ p.key \in Int /\ p.spot \in Int /\ p.id # 0
              /\ p.stars \in Nat /\ p.ratings \in Nat /\ (p.ratings = 0 => p.stars = 0)
              /\ p.private => IsOwn(p)
              /\ Rating(p) \in Int /\ Abs(p.id) \in Int
              /\ p.ratings = 0 => Rating(p) = bayesM * Twelve
<1>1. ASSUME NEW p \in photos
      PROVE  /\ p.id \in Int /\ p.key \in Int /\ p.spot \in Int /\ p.id # 0
             /\ p.stars \in Nat /\ p.ratings \in Nat /\ (p.ratings = 0 => p.stars = 0)
             /\ p.private => IsOwn(p)
  BY PhotosAssumption
<1>2. ASSUME NEW p \in photos
      PROVE  /\ Rating(p) \in Int /\ Abs(p.id) \in Int
             /\ p.ratings = 0 => Rating(p) = bayesM * Twelve
  <2>1. Abs(p.id) \in Int
    BY <1>1 DEF Abs
  <2>2. p.stars \in Nat /\ p.ratings \in Nat
    BY <1>1
  <2>3. Rating(p) \in Int
    BY <2>2 DEF Rating, bayesC, bayesM, Twelve
  <2>4. ASSUME p.ratings = 0 PROVE Rating(p) = bayesM * Twelve
    BY <1>1, <2>4 DEF Rating, bayesC, bayesM, Twelve
  <2> QED BY <2>1, <2>3, <2>4
<1>3. IsFiniteSet(photos) /\ \A p, r \in photos : p.id = r.id => p = r
  BY PhotosAssumption
<1> QED BY <1>1, <1>2, <1>3

LEMMA ArmOrderIsOrder ==
  ASSUME photos \in Catalogs, NEW q, q.direction \in {"asc", "desc"}
  PROVE  IsOrder(ArmOrder(q), photos)
<1> DEFINE ord(p) == Ord(q, p)
           id(p) == Abs(p.id)
<1>1. \A p \in photos : ord(p) \in Int /\ id(p) \in Int
  BY PhotosAre DEF Ord
<1>2. \A p, r \in photos : r \in ArmOrder(q)[p] <=>
        Less(q, ord(p), ord(r)) \/ (ord(p) = ord(r) /\ Less(q, id(p), id(r)))
  BY DEF ArmOrder
<1> HIDE DEF ord, id
<1>3. ASSUME NEW p \in photos, NEW r \in photos, r \in ArmOrder(q)[p]
      PROVE  p \notin ArmOrder(q)[r]
  BY <1>1, <1>2, <1>3 DEF Less
<1>4. ASSUME NEW p \in photos, NEW o \in photos, NEW r \in photos, r \in ArmOrder(q)[p]
      PROVE  o \in ArmOrder(q)[p] \/ r \in ArmOrder(q)[o]
  BY <1>1, <1>2, <1>4 DEF Less
<1> QED BY <1>3, <1>4 DEF IsOrder

LEMMA NearerIsOrder ==
  ASSUME photos \in Catalogs
  PROVE  IsOrder(Nearer, photos)
<1>1. ASSUME NEW p \in photos
      PROVE  \A i \in 1..5 : Place(p)[i] \in Int
  BY <1>1, PhotosAre DEF Place, Undated, Source
<1>2. \A p \in photos : DOMAIN Place(p) = 1..5
  BY DEF Place
<1>3. \A p, r \in photos : r \in Nearer[p] <=>
        \E i \in 1..5 : /\ Place(p)[i] < Place(r)[i]
                        /\ \A j \in 1..(i - 1) : Place(p)[j] = Place(r)[j]
  BY <1>2 DEF Nearer, Lexically
<1>4. ASSUME NEW p \in photos, NEW r \in photos, r \in Nearer[p]
      PROVE  p \notin Nearer[r]
  <2> SUFFICES ASSUME p \in Nearer[r] PROVE FALSE
    OBVIOUS
  <2>1. PICK i \in 1..5 : /\ Place(p)[i] < Place(r)[i]
                          /\ \A j \in 1..(i - 1) : Place(p)[j] = Place(r)[j]
    BY <1>3, <1>4
  <2>2. PICK k \in 1..5 : /\ Place(r)[k] < Place(p)[k]
                          /\ \A j \in 1..(k - 1) : Place(r)[j] = Place(p)[j]
    BY <1>3
  <2>3. i < k => i \in 1..(k - 1)
    OBVIOUS
  <2>4. k < i => k \in 1..(i - 1)
    OBVIOUS
  <2> QED BY <1>1, <2>1, <2>2, <2>3, <2>4
<1>5. ASSUME NEW p \in photos, NEW o \in photos, NEW r \in photos, r \in Nearer[p]
      PROVE  o \in Nearer[p] \/ r \in Nearer[o]
  <2>1. PICK i \in 1..5 : /\ Place(p)[i] < Place(r)[i]
                          /\ \A j \in 1..(i - 1) : Place(p)[j] = Place(r)[j]
    BY <1>3, <1>5
  <2>2. CASE \A j \in 1..(i - 1) : Place(o)[j] = Place(p)[j]
    <3>1. Place(p)[i] < Place(o)[i] \/ Place(o)[i] < Place(r)[i]
      BY <1>1, <2>1
    <3> QED BY <1>3, <2>1, <2>2, <3>1
  <2>3. CASE \E j \in 1..(i - 1) : Place(o)[j] # Place(p)[j]
    <3> DEFINE differs(j) == j \in 1..(i - 1) /\ Place(o)[j] # Place(p)[j]
    <3>1. \E j \in 1..5 : differs(j) /\ \A k \in 1..(j - 1) : ~differs(k)
      <4>1. i - 1 \in 0..4
        OBVIOUS
      <4>2. \E j \in {1, 2, 3, 4} : differs(j)
        BY <2>3, <4>1
      <4>3. /\ 1..(1 - 1) = {} /\ 1..(2 - 1) = {1} /\ 1..(3 - 1) = {1, 2}
            /\ 1..(4 - 1) = {1, 2, 3} /\ {1, 2, 3, 4} \subseteq 1..5
        OBVIOUS
      <4> HIDE DEF differs
      <4> QED BY <4>2, <4>3
    <3>2. PICK j \in 1..5 : differs(j) /\ \A k \in 1..(j - 1) : ~differs(k)
      BY <3>1
    <3>3. \A k \in 1..(j - 1) : Place(o)[k] = Place(p)[k] /\ Place(p)[k] = Place(r)[k]
      BY <2>1, <3>2
    <3>4. Place(p)[j] = Place(r)[j] /\ Place(o)[j] # Place(p)[j]
      BY <2>1, <3>2
    <3>5. Place(p)[j] < Place(o)[j] \/ Place(o)[j] < Place(r)[j]
      BY <1>1, <3>4
    <3> QED BY <1>3, <3>3, <3>5
  <2> QED BY <2>2, <2>3
<1> QED BY <1>4, <1>5 DEF IsOrder

LEMMA SubOrder ==
  ASSUME NEW after, NEW all, IsOrder(after, all), NEW some \in SUBSET all
  PROVE  IsOrder(after, some)
BY DEF IsOrder

\* Of every table, what the query asks for.
LEMMA OwnAreWanted ==
  ASSUME photos \in Catalogs, query \in Queries
  PROVE  OwnRows(query) = {p \in photos : /\ IsOwn(p) /\ "gallery" \in query.sources
                                         /\ MayShow(p, query) /\ BySomeoneAsked(p, query)
                                         /\ InRange(query, p)}
<1>1. ASSUME NEW p \in photos, IsOwn(p)
      PROVE  (query.userId # {} => p.owner \in Authors(query)) <=> BySomeoneAsked(p, query)
  BY <1>1 DEF Authors, BySomeoneAsked
<1> QED BY <1>1 DEF OwnRows, MayShow

LEMMA PagesAreWanted ==
  ASSUME photos \in Catalogs, query \in Queries
  PROVE  PagesInRange(query) = {p \in photos : /\ ~IsOwn(p) /\ "wikimedia" \in query.sources
                                              /\ MayShow(p, query) /\ BySomeoneAsked(p, query)
                                              /\ InRange(query, p)}
<1>1. ASSUME NEW p \in photos, ~IsOwn(p)
      PROVE  /\ MayShow(p, query)
             /\ BySomeoneAsked(p, query) <=> query.userId = {}
  BY <1>1, PhotosAre DEF MayShow, BySomeoneAsked
<1> QED BY <1>1 DEF PagesInRange, IncludeWikimedia

\* Leaving the unrated out leaves out none that is in the range.
LEMMA RatedSuffice ==
  ASSUME photos \in Catalogs, query \in Queries, ExcludesUnrated(query), NEW p \in photos,
         InRange(query, p)
  PROVE  p.ratings > 0
<1>1. /\ query.ratingFrom \in Int \cup {Unset} /\ query.ratingTo \in Int \cup {Unset}
      /\ p.ratings \in Nat
  BY QueriesAssumption, PhotosAre
<1>2. CASE p.ratings = 0
  <2>1. Rating(p) = 36 /\ bayesM * Twelve = 36
    BY <1>2, PhotosAre DEF bayesM, Twelve
  <2> QED BY <1>1, <2>1 DEF ExcludesUnrated, InRange
<1> QED BY <1>1, <1>2

LEMMA WikimediaRowsAreWanted ==
  ASSUME photos \in Catalogs, query \in Queries, query.by = "order", IncludeWikimedia(query)
  PROVE  WikimediaRows(query) = {p \in Wanted : ~IsOwn(p)}
<1>1. \A p \in photos : p \in Wanted /\ ~IsOwn(p) <=>
        /\ p \in PagesInRange(query)
        /\ IF query.orderBy = "rating" THEN p.ratings > 0 ELSE p.key # 0
  BY PagesAreWanted DEF Wanted, Suits
<1>2. \A p \in photos : p \in PagesInRange(query) <=> ~IsOwn(p) /\ InRange(query, p)
  BY DEF PagesInRange
<1>3. ExcludesUnrated(query) => \A p \in photos : InRange(query, p) => p.ratings > 0
  BY RatedSuffice
<1>4. Wanted \subseteq photos
  BY DEF Wanted
<1>5. CASE query.orderBy = "rating"
  <2>1. WikimediaRows(query) = {p \in photos : ~IsOwn(p) /\ p.ratings > 0 /\ InRange(query, p)}
    BY <1>5 DEF WikimediaRows
  <2> QED BY <1>1, <1>2, <1>4, <1>5, <2>1
<1>6. CASE query.orderBy = "lastCommentedAt"
  <2>1. WikimediaRows(query) = {p \in photos : ~IsOwn(p) /\ p.key # 0 /\ InRange(query, p)}
    BY <1>6 DEF WikimediaRows
  <2> QED BY <1>1, <1>2, <1>4, <1>6, <2>1
<1>7. CASE query.orderBy \notin {"rating", "lastCommentedAt"}
  <2>1. WikimediaRows(query) =
          {p \in photos : /\ ~IsOwn(p) /\ p.key # 0 /\ InRange(query, p)
                          /\ ExcludesUnrated(query) => p.ratings > 0}
    BY <1>7 DEF WikimediaRows
  <2> QED BY <1>1, <1>2, <1>3, <1>4, <1>7, <2>1
<1> QED BY <1>5, <1>6, <1>7

\* Every query has the photos as they are in range.
LEMMA RowsAre ==
  ASSUME photos \in Catalogs
  PROVE  /\ \A some \in SUBSET photos : IsFiniteSet(some)
         /\ OwnRows(query) \subseteq photos /\ PagesInRange(query) \subseteq photos
         /\ Wanted \subseteq photos
         /\ \A p \in OwnRows(query) : IsOwn(p)
         /\ \A p \in PagesInRange(query) : ~IsOwn(p)
<1>1. \A some \in SUBSET photos : IsFiniteSet(some)
  BY PhotosAre, FS_Subset
<1> QED BY <1>1 DEF OwnRows, PagesInRange, Wanted

LEMMA OrderListsTheTop ==
  ASSUME photos \in Catalogs, query \in Queries, query.by = "order", NEW answered \in ByOrder(query)
  PROVE  answered \in Top(Wanted, ArmOrder(query), Limit)
<1>1. OwnRows(query) = {p \in Wanted : IsOwn(p)}
  BY OwnAreWanted DEF Wanted, Suits
<1>2. CASE ~IncludeWikimedia(query)
  <2>1. Wanted \subseteq OwnRows(query)
    BY <1>1, <1>2 DEF Wanted, Suits, BySomeoneAsked, IncludeWikimedia
  <2>2. Wanted = OwnRows(query)
    BY <1>1, <2>1
  <2> QED BY <1>2, <2>2 DEF ByOrder
<1>3. CASE IncludeWikimedia(query)
  <2> DEFINE own == OwnRows(query)
             pages == WikimediaRows(query)
  <2>1. PICK arm1 \in Arms(own, ArmOrder(query)), arm2 \in Arms(pages, ArmOrder(query)) :
          answered \in Top(arm1 \cup arm2, MergeOrder(query), Limit)
    <3>1. ByOrder(query) = UNION {Top(arm1 \cup arm2, MergeOrder(query), Limit) :
                                   arm1 \in Arms(own, ArmOrder(query)),
                                   arm2 \in Arms(pages, ArmOrder(query))}
      BY <1>3 DEF ByOrder
    <3> HIDE DEF own, pages
    <3> QED BY <3>1
  <2>2. MergeOrder(query) = ArmOrder(query)
    BY DEF MergeOrder, ArmOrder, MergeTie
  <2>3. pages = {p \in Wanted : ~IsOwn(p)}
    BY <1>3, WikimediaRowsAreWanted
  <2>4. own \cup pages = Wanted /\ own \cap pages = {}
    BY <1>1, <2>3
  <2>5. IsFiniteSet(own) /\ IsFiniteSet(pages)
    BY <2>3, RowsAre
  <2>6. query.direction \in {"asc", "desc"}
    BY QueriesAssumption
  <2>7. IsOrder(ArmOrder(query), own \cup pages)
    BY <2>4, <2>6, ArmOrderIsOrder, SubOrder, RowsAre
  <2> HIDE DEF own, pages
  <2> QED BY <2>1, <2>2, <2>4, <2>5, <2>7, MergedTops
<1> QED BY <1>2, <1>3

LEMMA RadiusListsTheTop ==
  ASSUME photos \in Catalogs, query \in Queries, query.by = "radius", NEW answered \in ByRadius(query)
  PROVE  answered \in Top(Wanted, Nearer, Limit)
<1> DEFINE own == Near(query, OwnRows(query))
           pages == Near(query, PagesInRange(query))
<1>1. PICK arm1 \in Arms(own, Nearer), arm2 \in Arms(pages, Nearer) :
        answered \in Top(arm1 \cup arm2, Nearer, Limit)
  BY DEF ByRadius
<1>2. own = {p \in Wanted : IsOwn(p)}
  BY OwnAreWanted DEF Wanted, Suits, Near
<1>3. pages = {p \in Wanted : ~IsOwn(p)}
  BY PagesAreWanted DEF Wanted, Suits, Near
<1>4. own \cup pages = Wanted /\ own \cap pages = {}
  BY <1>2, <1>3
<1>5. IsFiniteSet(own) /\ IsFiniteSet(pages)
  BY <1>2, <1>3, RowsAre
<1>6. IsOrder(Nearer, own \cup pages)
  BY <1>4, NearerIsOrder, SubOrder, RowsAre
<1> HIDE DEF own, pages
<1> QED BY <1>1, <1>4, <1>5, <1>6, MergedTops

\* A photo is known by its ID.
LEMMA CountedById ==
  ASSUME photos \in Catalogs, NEW some \in SUBSET photos
  PROVE  Cardinality({p.id : p \in some}) = Cardinality(some)
<1> DEFINE ids == {p.id : p \in some}
           id == [p \in some |-> p.id]
<1>1. id \in Bijection(some, ids)
  <2>1. id \in [some -> ids]
    OBVIOUS
  <2>2. \A p, r \in some : id[p] = id[r] => p = r
    BY PhotosAre
  <2>3. \A x \in ids : \E p \in some : id[p] = x
    OBVIOUS
  <2> QED BY <2>1, <2>2, <2>3 DEF Bijection, Injection, Surjection, IsInjective
<1>2. IsFiniteSet(some)
  BY RowsAre
<1> QED BY <1>1, <1>2, FS_Bijection DEF ExistsBijection

\* How many a box may show of a source.
Capped(n) == IF query.limit = Unset THEN n ELSE Least(query.limit, n)

LEMMA OwnOfTheBox ==
  ASSUME photos \in Catalogs, query \in Queries, query.by = "bbox", NEW own \in OwnInBox(query)
  PROVE  LET wanted == {p \in Wanted : IsOwn(p)}
         IN own \subseteq wanted /\ Cardinality(own) = Capped(Cardinality(wanted))
<1> DEFINE rows == InBox(query, OwnRows(query))
<1>1. rows = {p \in Wanted : IsOwn(p)}
  BY OwnAreWanted DEF Wanted, Suits, InBox
<1>2. IsFiniteSet(rows)
  BY <1>1, RowsAre
<1>3. CASE query.limit = Unset
  BY <1>1, <1>3 DEF OwnInBox, Capped
<1>4. CASE query.limit # Unset
  <2>1. PICK some \in Top(rows, Sampled, query.limit) : own = ToSet(some)
    BY <1>4 DEF OwnInBox
  <2>2. query.limit \in Nat
    BY <1>4, QueriesAssumption
  <2> HIDE DEF rows
  <2>3. own \subseteq rows /\ Cardinality(own) = Least(query.limit, Cardinality(rows))
    BY <1>2, <2>1, <2>2, TopRows
  <2> QED BY <1>1, <1>4, <2>3 DEF Capped
<1> QED BY <1>3, <1>4

LEMMA PagesOfTheBox ==
  ASSUME photos \in Catalogs, query \in Queries, query.by = "bbox", NEW pages \in PagesInBox(query)
  PROVE  LET wanted == Wanted \ {p \in Wanted : IsOwn(p)}
         IN /\ pages \subseteq wanted
            /\ Cardinality(pages) = Least(BoxLimit, Capped(Cardinality(wanted)))
<1> DEFINE rows == InBox(query, PagesInRange(query))
<1>1. rows = Wanted \ {p \in Wanted : IsOwn(p)}
  BY PagesAreWanted DEF Wanted, Suits, InBox
<1>2. Cardinality(rows) \in Nat
  BY <1>1, RowsAre, FS_CardinalityType
<1>3. BoxLimit \in Nat /\ query.limit \in Nat \cup {Unset}
  BY QueriesAssumption
<1>4. /\ pages \subseteq rows
      /\ Cardinality(pages) =
           Least(IF query.limit = Unset THEN BoxLimit ELSE Least(query.limit, BoxLimit),
                 Cardinality(rows))
  BY DEF PagesInBox
<1> HIDE DEF rows
<1>5. Cardinality(pages) = Least(BoxLimit, Capped(Cardinality(rows)))
  BY <1>2, <1>3, <1>4 DEF Least, Capped
<1> QED BY <1>1, <1>4, <1>5

LEMMA BoxIsListed ==
  ASSUME photos \in Catalogs, query \in Queries, query.by = "bbox", answer \in ByBbox(query)
  PROVE  ListsTheBox
<1> DEFINE wanted == {p \in Wanted : IsOwn(p)}
<1>1. PICK own \in OwnInBox(query), pages \in PagesInBox(query) : answer \in Sent(own \cup pages)
  BY DEF ByBbox
<1> DEFINE rows == own \cup pages
           k == Cardinality(rows)
<1>2. PICK sorted \in Top(rows, Southern, k) : answer = Encoded(sorted)
  BY <1>1 DEF Sent
<1>3. /\ own \subseteq wanted /\ Cardinality(own) = Capped(Cardinality(wanted))
      /\ pages \subseteq Wanted \ wanted
      /\ Cardinality(pages) = Least(BoxLimit, Capped(Cardinality(Wanted \ wanted)))
  BY OwnOfTheBox, PagesOfTheBox
<1>4. rows \in SUBSET Wanted /\ own \in SUBSET photos /\ pages \in SUBSET photos
      /\ rows \in SUBSET photos /\ IsFiniteSet(rows) /\ k \in Nat
  BY <1>3, RowsAre, FS_CardinalityType
<1>5. \A p \in rows : p.id \in Int /\ p.id # 0 /\ p.spot \in Int /\ (p.id > 0 <=> p \in own)
  BY <1>3, <1>4, PhotosAre DEF IsOwn
<1>6. /\ DOMAIN sorted = 1..k /\ ToSet(sorted) = rows
      /\ \A i \in 1..k : sorted[i] \in rows
  <2>1. Least(k, Cardinality(rows)) = k
    BY <1>4 DEF Least
  <2> HIDE DEF rows, k
  <2>2. /\ DOMAIN sorted = 1..k /\ ToSet(sorted) \subseteq rows
        /\ IsFiniteSet(ToSet(sorted)) /\ Cardinality(ToSet(sorted)) = k
    BY <1>4, <2>1, TopRows
  <2>3. ToSet(sorted) = rows
    BY <1>4, <2>2, FS_Subset DEF k
  <2> QED BY <2>2, <2>3 DEF ToSet
<1> HIDE DEF k
<1>7. /\ DOMAIN answer = 1..k /\ Len(answer) = k
      /\ \A i \in 1..k : /\ answer[i].id = sorted[i].id
                         /\ answer[i].lat = IF i = 1 THEN Round(sorted[1].spot)
                                            ELSE FromLast(sorted, i)
  BY <1>2, <1>4, <1>6 DEF Encoded
<1> DEFINE listed == {answer[i].id : i \in DOMAIN answer}
<1>8. listed = {p.id : p \in rows}
  <2>1. listed = {sorted[i].id : i \in 1..k}
    BY <1>7
  <2>2. \A p \in rows : \E i \in 1..k : sorted[i] = p
    BY <1>6 DEF ToSet
  <2> HIDE DEF rows, listed
  <2> QED BY <1>6, <2>1, <2>2
<1>9. /\ {id \in listed : id > 0} = {p.id : p \in own}
      /\ {id \in listed : id < 0} = {p.id : p \in pages}
  <2>1. /\ \A p \in own : p \in rows /\ p.id > 0
        /\ \A p \in pages : p \in rows /\ p.id < 0
        /\ \A p \in rows : (p.id > 0 => p \in own) /\ (p.id < 0 => p \in pages)
    <3>1. \A p \in pages : p \notin own
      BY <1>3
    <3> QED BY <1>5, <3>1
  <2> HIDE DEF rows, listed
  <2> QED BY <1>8, <2>1
<1>10. /\ Cardinality(listed) = Len(answer)
       /\ Cardinality({id \in listed : id > 0}) = Cardinality(own)
       /\ Cardinality({id \in listed : id < 0}) = Cardinality(pages)
  <2> HIDE DEF rows, listed
  <2> QED BY <1>4, <1>7, <1>8, <1>9, CountedById DEF k
<1>11. \E shown \in [DOMAIN answer -> Wanted] :
         LET at(i) == IF i = 0 THEN 0 ELSE Round(shown[i].spot)
         IN \A i \in DOMAIN answer :
              shown[i].id = answer[i].id /\ at(i) = at(i - 1) + answer[i].lat
  <2> DEFINE shown == [i \in 1..k |-> sorted[i]]
             at(i) == IF i = 0 THEN 0 ELSE Round(shown[i].spot)
  <2>1. shown \in [DOMAIN answer -> Wanted]
    BY <1>4, <1>6, <1>7
  <2>2. \A i \in 1..k : Round(sorted[i].spot) \in Int
    BY <1>5, <1>6 DEF Round
  <2>3. ASSUME NEW i \in DOMAIN answer
        PROVE  shown[i].id = answer[i].id /\ at(i) = at(i - 1) + answer[i].lat
    <3>1. i \in 1..k /\ i \in Nat /\ i # 0
      BY <1>4, <1>7, <2>3
    <3>2. CASE i = 1
      BY <1>7, <2>2, <3>1, <3>2
    <3>3. CASE i # 1
      <4>1. i - 1 \in 1..k /\ i - 1 # 0
        BY <1>4, <3>1, <3>3
      <4>2. answer[i].lat = Round(sorted[i].spot) - Round(sorted[i - 1].spot)
        BY <1>7, <3>1, <3>3 DEF FromLast
      <4>3. at(i) = Round(sorted[i].spot) /\ at(i - 1) = Round(sorted[i - 1].spot)
        BY <3>1, <4>1
      <4> HIDE DEF at, shown
      <4>4. at(i) = at(i - 1) + answer[i].lat
        BY <2>2, <3>1, <4>1, <4>2, <4>3
      <4> QED BY <1>7, <3>1, <4>4 DEF shown
    <3> QED BY <3>2, <3>3
  <2> HIDE DEF at
  <2> QED BY <2>1, <2>3 DEF at
<1> QED BY <1>3, <1>10, <1>11 DEF ListsTheBox, Capped

\* However many photos there are and whatever is asked of them, an answer by order or
\* by distance is one that a single query over both tables could give, though each is
\* cut to its limit before they are merged (getPicturesHandler.ts:947-996), and a box
\* has of each source as many as the limits let, each where it is.
THEOREM ListingsStayExact == ListingSpec => []ListingsAreExact
<1>1. ListingInit => ListingInv
  BY DEF ListingInit, ListingInv
<1>2. ListingInv /\ [ListingNext]_listingVars => ListingInv'
  <2> SUFFICES ASSUME ListingInv, [ListingNext]_listingVars PROVE ListingInv'
    OBVIOUS
  <2>1. /\ photos' = photos /\ query' = query
        /\ answer' = answer \/ ListingNext
    BY DEF ListingNext, listingVars
  <2>2. OwnRows(query)' = OwnRows(query) /\ PagesInRange(query)' = PagesInRange(query)
    BY <2>1 DEF OwnRows, PagesInRange
  <2>3. /\ ArmOrder(query)' = ArmOrder(query) /\ MergeOrder(query)' = MergeOrder(query)
        /\ Nearer' = Nearer /\ Sampled' = Sampled /\ Southern' = Southern
        /\ WikimediaRows(query)' = WikimediaRows(query)
    BY <2>1 DEF ArmOrder, MergeOrder, Nearer, Sampled, Southern, WikimediaRows
  <2>4. /\ ByOrder(query)' = ByOrder(query)
        /\ ByRadius(query)' = ByRadius(query)
        /\ ByBbox(query)' = ByBbox(query)
    BY <2>1, <2>2, <2>3 DEF ByOrder, ByRadius, ByBbox, OwnInBox, PagesInBox, Sent
  <2> QED BY <2>1, <2>4 DEF ListingInv, ListingNext, AnswerOrder, AnswerRadius, AnswerBbox
<1>3. ListingInv => ListingsAreExact
  <2> SUFFICES ASSUME ListingInv PROVE ListingsAreExact
    OBVIOUS
  <2>1. query.by = "bbox" /\ answer # Unset => ListsTheBox
    BY BoxIsListed DEF ListingInv
  <2>2. query.by # "bbox" /\ answer # Unset => ListsTheTop
    BY OrderListsTheTop, RadiusListsTheTop DEF ListingInv, ListsTheTop
  <2>3. /\ query.by = "bbox" \/ answer = Unset => ListsTheTop
        /\ query.by # "bbox" \/ answer = Unset => ListsTheBox
    BY DEF ListsTheTop, ListsTheBox
  <2> QED BY <2>1, <2>2, <2>3 DEF ListingsAreExact
<1> QED BY <1>1, <1>2, <1>3, PTL DEF ListingSpec
===============================================================================
