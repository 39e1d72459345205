-------------------------------- MODULE Content --------------------------------
(***************************************************************************)
(* What the users keep - saved maps, events, pictures - beside the merges  *)
(* and deletions of their accounts and the restarts of the process. A      *)
(* merge and a deletion are a transaction each (userMerge.ts,              *)
(* deleteUserHandler.ts), and one action here.                             *)
(***************************************************************************)
EXTENDS Events, Gallery

\* What a request can be at.
WorkRow == MapWork \cup EventWork \cup GalleryWork

ASSUME ContentAssumption == None \notin WorkRow \cup RequestRow(WorkRow)

vars == <<ownersVars, mapsVars, eventsVars, galleryVars>>

Init == OwnersInit /\ MapsInit /\ EventsInit /\ GalleryInit
-------------------------------------------------------------------------------
(* Requests *)

MapStep(r) ==
  \/ \E m \in Maps, ws \in SUBSET Users : PostMap(r, m, ws)
  \/ PostWriters(r)
  \/ \E m \in Maps : GetMap(r, m)
  \/ \E m \in Maps, guarded, renames \in BOOLEAN, ws \in (SUBSET Users) \cup {None} :
        PatchMap(r, m, guarded, renames, ws)

\* A deleted map leaves the events that were linked to it.
DropMap(r, m) == DeleteMap(r, m) /\ UnlinkMaps({m}) /\ UNCHANGED galleryVars

EventStep(r) ==
  \/ \E u \in Users, m \in Maps \cup {None}, k \in Keys \cup {None} : OpenPost(r, u, m, k)
  \/ \E e \in Events : WritePost(r, e)
  \/ \E e \in Events, u \in Users, m \in Maps \cup {None} : OpenPatch(r, e, u, m)
  \/ WritePatch(r)
  \/ \E e \in Events : DeleteEvent(r, e)
  \/ \E e \in Events, takes \in BOOLEAN : SetParticipation(r, e, takes)
  \/ \E e \in Events, n \in Covers : StartCover(r, e, n)
  \/ StoreVariant(r) \/ StoreFails(r)
  \/ \E e \in Events : StartNoCover(r, e)
  \/ SetCover(r) \/ SetCoverUnanswered(r)

GalleryStep(r) ==
  \/ \E p \in Pictures, l \in Licences, premium \in BOOLEAN : Upload(r, p, l, premium)
  \/ InsertPicture(r)
  \/ \E p \in Pictures, l \in Licences \cup {None}, premium \in BOOLEAN \cup {None} :
        PutPicture(r, p, l, premium)
  \/ \E l \in Licences : OpenSetAll(r, l)
  \/ WriteSetAll(r)
  \/ \E premium \in BOOLEAN : SetAllPremium(r, premium)
  \/ \E p \in Pictures : DeletePicture(r, p)
  \/ Unlink(r)
  \/ \E x \in Photos : Comment(r, x) \/ Rate(r, x)

\* A request that is refused, or answered without a change.
Refused(r) == Begins(r) /\ Answered(r) /\ UNCHANGED <<mapsVars, eventsVars, galleryVars>>
-------------------------------------------------------------------------------
(* Accounts and the process *)

MergeAccounts(source, target) ==
  /\ MergeOwners(source, target)
  /\ MergeMaps(source, target) /\ MergeEvents(source, target) /\ MergeGallery(source, target)

DeleteAccount(u) ==
  /\ DeleteOwner(u)
  /\ DeleteMapsOf(u) /\ DeleteGalleryOf(u)
  /\ DeleteEventsOf(u, {m \in Maps : map[m] # None /\ map[m].owner = u})

Restart ==
  /\ \E r \in Requests : request[r] # None
  /\ request' = [r \in Requests |-> None] /\ UNCHANGED <<now, alive, userAlias>>
  /\ RestartEvents /\ UNCHANGED <<mapsVars, galleryVars>>

AccountStep ==
  \/ \E source, target \in Users : MergeAccounts(source, target)
  \/ \E u \in Users : DeleteAccount(u)

Arrival(r) ==
  \/ /\ \E u \in Users : Authenticate(r, u)
     /\ UNCHANGED <<mapsVars, eventsVars, galleryVars>>
  \/ Refused(r)

Time == Tick /\ UNCHANGED <<mapsVars, eventsVars, galleryVars>>

MapsNext ==
  \E r \in Requests :
    \/ MapStep(r) /\ UNCHANGED <<eventsVars, galleryVars>>
    \/ \E m \in Maps : DropMap(r, m)

EventsNext ==
  \/ \E r \in Requests : EventStep(r) /\ UNCHANGED <<mapsVars, galleryVars>>
  \/ \E n \in Covers : RemoveCover(n) /\ UNCHANGED <<mapsVars, galleryVars>>

GalleryNext == \E r \in Requests : GalleryStep(r) /\ UNCHANGED <<mapsVars, eventsVars>>

SharedNext == (\E r \in Requests : Arrival(r)) \/ AccountStep \/ Restart \/ Time

Next == MapsNext \/ EventsNext \/ GalleryNext \/ SharedNext

Spec == Init /\ [][Next]_vars
-------------------------------------------------------------------------------
(* What the users can rely on *)

\* Every variable stays within its type.
TypeOK ==
  /\ now \in 0..MaxTime /\ alive \subseteq Users
  /\ userAlias \in [Users -> Users \cup {None}]
  /\ request \in [Requests -> RequestRow(WorkRow) \cup {None}]
  /\ map \in [Maps -> MapRow \cup {None}]
  /\ writers \in [Maps -> SUBSET Users] /\ mapsMade \subseteq Maps
  /\ seen \in [Requests -> SeenRow \cup {None}]
  /\ event \in [Events -> EventRow \cup {None}]
  /\ eventsMade \subseteq Events /\ takesPart \in [Events -> SUBSET Users]
  /\ files \in [Covers -> SUBSET Sizes]
  /\ removing \subseteq Covers /\ coversMade \subseteq Covers /\ strays \subseteq Covers
  /\ picture \in [Pictures -> PictureRow \cup {None}]
  /\ picturesMade \subseteq Pictures /\ pictureFiles \subseteq Pictures
  /\ licenceLog \in [Pictures -> Seq(LicenceRow)]
  /\ comments \in [Photos -> SUBSET Users] /\ ratings \in [Photos -> SUBSET Users]

\* Nothing of what the merge moves is lost with the account merged away: the
\* target can write every map the source could, owns its events and pictures,
\* takes part where it did, and has its comments and ratings on pictures
\* (userMerge.ts:33-54, 132-146), also where both accounts had a row.
KeptByMerge ==
  [][\A source \in alive \ alive' : LET target == userAlias'[source] IN target # None =>
       /\ \A m \in Maps : CanWriteMap(source, m) => map'[m] # None /\ (map'[m].owner = target \/ target \in writers'[m])
       /\ \A e \in OwnedEvents(source) : event'[e] # None /\ event'[e].owner = target
       /\ \A e \in Events : source \in takesPart[e] => target \in takesPart'[e]
       /\ \A p \in PicturesOf(source) : picture'[p] # None /\ picture'[p].owner = target
       /\ \A p \in Pictures : /\ source \in comments[p] => target \in comments'[p]
                              /\ source \in ratings[p] => target \in ratings'[p]]_vars

\* The files on the disk are those of the rows, whatever order uploads, deletions,
\* merges and restarts come in (Events!CoversMatchFiles, Gallery!PicturesHaveFiles).
FilesMatchRows == CoversMatchFiles /\ PicturesHaveFiles
===============================================================================
