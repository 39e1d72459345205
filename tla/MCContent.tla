------------------------------- MODULE MCContent -------------------------------
(***************************************************************************)
(* What accounts have, for TLC, in parts that a behaviour is chosen from   *)
(* when it starts: their content beside their merges and deletions, and    *)
(* the listings of pictures. The parts bound what an instance of all would *)
(* reach. IDs are given in order.                                          *)
(***************************************************************************)
EXTENDS Content, Listings, TLC

VARIABLE part

-------------------------------------------------------------------------------
(* Listings: IDs of either sign, ties, and one photo more of a source than an arm keeps *)

Unrated == [stars |-> 0, ratings |-> 0]
High == [stars |-> 5, ratings |-> 1]
Low == [stars |-> 1, ratings |-> 1]
PhotoOf(id, private, key, rated, spot) ==
  [id |-> id, owner |-> "ann", private |-> private, key |-> key, stars |-> rated.stars,
   ratings |-> rated.ratings, spot |-> spot]

\* The keys 1 and 2 are dates or times of comments, 0 is none.
Ranked ==
  {{PhotoOf(1, private, k1, r1, 1), PhotoOf(2, FALSE, 1, Unrated, 1), PhotoOf(3, FALSE, k2, Low, 1),
    PhotoOf(-1, FALSE, k3, r2, 1), PhotoOf(-2, FALSE, 1, r3, 1), PhotoOf(-3, FALSE, 1, High, 1)} :
     private \in BOOLEAN, k1 \in {0, 1}, k2 \in {0, 2}, k3 \in 0..2, r1 \in {Unrated, High},
     r2 \in {Unrated, High}, r3 \in {Unrated, Low}}
Placed ==
  {{PhotoOf(1, private, k1, Unrated, s1), PhotoOf(2, FALSE, 1, High, s2),
    PhotoOf(-1, FALSE, k2, Unrated, s3), PhotoOf(-2, FALSE, 1, Unrated, s4),
    PhotoOf(-3, FALSE, 0, Low, 2)} :
     private \in BOOLEAN, k1 \in {0, 1}, k2 \in {0, 1},
     s1 \in {1, 2, 5}, s2 \in {3, 4}, s3 \in {1, 2, 5}, s4 \in {1, 4}}
Around == {near \cup {PhotoOf(3, FALSE, 1, Unrated, 2)} : near \in Placed}
MCCatalogs == Ranked \cup Placed \cup Around

\* Of everybody's photos, of those of one source, and as various clients see them.
Both == {"gallery", "wikimedia"}
Anyone == [viewer |-> "bob", moderator |-> FALSE, userId |-> {}]
Clients == {Anyone, [Anyone EXCEPT !.viewer = "ann"], [Anyone EXCEPT !.moderator = TRUE],
            [Anyone EXCEPT !.userId = {"old"}], [Anyone EXCEPT !.userId = {"bob"}]}
Ranges == {<<Unset, Unset>>, <<36, Unset>>, <<Unset, 36>>, <<40, Unset>>, <<Unset, 30>>}
Asked(client, sources, range) ==
  client @@ [sources |-> sources, ratingFrom |-> range[1], ratingTo |-> range[2]]
Plain ==
  {Asked(Anyone, Both, range) : range \in Ranges}
  \cup {Asked(client, sources, <<Unset, Unset>>) : client \in Clients, sources \in SUBSET Both}
MCQueries ==
  {q @@ [by |-> "order", orderBy |-> by, direction |-> dir] :
     q \in Plain, by \in {"takenAt", "rating", "lastCommentedAt"}, dir \in {"asc", "desc"}}
  \cup {q @@ [by |-> "radius", distance |-> 4] : q \in Plain}
  \cup {q @@ [by |-> "bbox", box |-> <<1, 4>>, limit |-> limit] : q \in Plain, limit \in {Unset, 1}}
MCAlias == "old" :> "ann"
MCCrc == 1 :> 2 @@ 2 :> 1 @@ 3 :> 3

MCListingInit ==
  /\ part = "listing" /\ Init /\ ListingInit
  /\ photos \in CASE query.by = "order"  -> Ranked
                   [] query.by = "radius" -> Around
                   [] query.by = "bbox"   -> Placed
NoListing == photos = {} /\ query = Unset /\ answer = Unset
-------------------------------------------------------------------------------
ContentParts == {"maps", "events", "covers", "pictures", "reactions"}

MCInit ==
  \/ part \in ContentParts /\ Init /\ NoListing
  \/ MCListingInit

Callers == {request'[r].user : r \in {q \in Requests : request'[q] # None}}
Works == {request'[r].doing : r \in {q \in Requests : request'[q] # None}} \ {None}
Kept(rows) == {rows[x] : x \in {y \in DOMAIN rows : rows[y] # None}}
Rows(rows) == Cardinality({e \in Photos \X Users : e[2] \in rows[e[1]]})

\* One map, edited by two clients.
MapsMove ==
  /\ part = "maps" /\ UNCHANGED <<eventsVars, galleryVars>>
  /\ mapsMade' \subseteq {1}
  /\ (Callers \cup UNION {writers'[m] : m \in Maps}) \cap Moderators = {}
  /\ \A w \in Works : w.kind = "writers" /\ w.writers \cap Moderators = {}

\* One event and one map; no covers, and the map stays as it is made.
\* Those taking part come to events without a map.
EventsMove ==
  /\ part = "events" /\ UNCHANGED <<now, galleryVars, coversMade, writers>>
  /\ \A w \in Works : w.kind # "writers"
  /\ mapsMade' \subseteq {1} /\ \A m \in Kept(map') : Len(m.edits) = 1
  /\ seen' = seen \/ map' # map
  /\ \A e \in Events : takesPart'[e] # {} =>
       takesPart'[e] \cap Moderators = {} /\ event'[e].map = None /\ event'[e].key = None
  /\ strays' = strays

\* One event without a map, and two uploads of its cover.
CoversMove ==
  /\ part = "covers" /\ UNCHANGED <<now, mapsVars, galleryVars, takesPart>>
  /\ \A e \in Kept(event') : e.key = None
  /\ Callers \cap Moderators = {}

\* Two pictures and their licences.
PicturesMove ==
  /\ part = "pictures" /\ UNCHANGED <<mapsVars, eventsVars, comments, ratings>>
  /\ picturesMade' \in {{}, {1}, {1, 2}} /\ Callers \cap Moderators = {}
  /\ \A p \in Kept(picture') : ~p.premium

\* One picture and a photo on Commons, who comments on and rates them, and a request
\* at a time.
ReactionsMove ==
  /\ part = "reactions" /\ UNCHANGED <<now, mapsVars, eventsVars>>
  /\ picturesMade' \subseteq {1} /\ \A p \in Pictures : Len(licenceLog'[p]) <= 1
  /\ Rows(comments') + Rows(ratings') <= 2
  /\ \A w \in Works : w.kind # "licences"
  /\ Cardinality({r \in Requests : request'[r] # None}) <= 1

OneAccountGoes == Cardinality(alive') + 1 >= Cardinality(Users)

ContentMove ==
  /\ UNCHANGED listingVars
  /\ \/ part \in {"maps", "events"} /\ MapsNext
     \/ part \in {"events", "covers"} /\ EventsNext
     \/ part \in {"pictures", "reactions"} /\ GalleryNext
     \/ part \in ContentParts /\ SharedNext
  /\ OneAccountGoes
  /\ MapsMove \/ EventsMove \/ CoversMove \/ PicturesMove \/ ReactionsMove

MCNext ==
  /\ part' = part
  /\ \/ ContentMove
     \/ part = "listing" /\ ListingNext /\ UNCHANGED vars
MCSpec == MCInit /\ [][MCNext]_<<vars, listingVars, part>>

Symmetry ==
  Permutations(Requests) \cup Permutations(Users \ Moderators) \cup Permutations(Covers)
===============================================================================
