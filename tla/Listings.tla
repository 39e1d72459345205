-------------------------------- MODULE Listings --------------------------------
(***************************************************************************)
(* Listing photos (routers/gallery/getPicturesHandler.ts): by order, by    *)
(* distance and in a box. Own pictures and photos on Commons come from     *)
(* tables apart, each arm of a query cut to its limit before the two are   *)
(* merged; a photo on Commons has the negative of its page's ID.           *)
(***************************************************************************)
EXTENDS Integers, Sequences, FiniteSets, SequencesExt

CONSTANTS
  Catalogs, \* sets of photos: what the tables may hold
  Queries,  \* what clients ask for
  Alias,    \* the userAlias table
  Crc,      \* CRC32 of an own picture's ID
  Limit,    \* of the rows of an arm and of the answer: 1000
  BoxLimit, \* WIKIMEDIA_BBOX_LIMIT
  Unset     \* of a query, and no answer yet

VARIABLES photos, query, answer

listingVars == <<photos, query, answer>>

IsOwn(p) == p.id > 0
Abs(n) == IF n < 0 THEN -n ELSE n

\* A photo on Commons is not private, and who is not rated has no stars.
ASSUME PhotosAssumption ==
  \A catalog \in Catalogs :
    /\ IsFiniteSet(catalog)
    /\ \A p, r \in catalog : p.id = r.id => p = r
    /\ \A p \in catalog :
         /\ {p.id, p.key, p.spot} \subseteq Int /\ p.id # 0
         /\ {p.stars, p.ratings} \subseteq Nat /\ (p.ratings = 0 => p.stars = 0)
         /\ p.private => IsOwn(p)

ASSUME QueriesAssumption ==
  /\ {Limit, BoxLimit} \subseteq Nat /\ Unset \notin Int
  /\ \A q \in Queries :
       /\ q.by \in {"order", "radius", "bbox"}
       /\ {q.ratingFrom, q.ratingTo} \subseteq Int \cup {Unset}
       /\ q.by = "order" => q.direction \in {"asc", "desc"}
       /\ q.by = "bbox" => q.limit \in Nat \cup {Unset}

\* The effective rating, rounded down to twelfths: exact for up to two ratings of a
\* photo, a quotient of whole numbers; beyond that some that differ may tie here.
bayesC == 2
bayesM == 3
Twelve == 12
Rating(p) == ((p.stars + bayesM * bayesC) * Twelve) \div (p.ratings + bayesC)

Least(a, b) == IF a < b THEN a ELSE b

\* ORDER BY and LIMIT: `after` has the rows that have to come after each; what
\* neither precedes the other comes either way.
Top(rows, after, n) ==
  {sorted \in [1..Least(n, Cardinality(rows)) -> rows] :
     /\ \A i, j \in DOMAIN sorted : i < j =>
          sorted[i] # sorted[j] /\ sorted[i] \notin after[sorted[j]]
     /\ \A p \in rows \ ToSet(sorted) : \A i \in DOMAIN sorted : sorted[i] \notin after[p]}

\* (mutation) an arm's LIMIT without its ORDER BY
ArmsUnordered(rows, after) ==
  {some \in SUBSET rows : Cardinality(some) = Least(Limit, Cardinality(rows))}

Arms(rows, after) == {ToSet(sorted) : sorted \in Top(rows, after, Limit)}
-------------------------------------------------------------------------------
(* The conditions of the arms *)

InRange(q, p) ==
  /\ q.ratingFrom # Unset => Rating(p) >= q.ratingFrom
  /\ q.ratingTo # Unset => Rating(p) <= q.ratingTo

\* withMergedUsers: an account that was merged stands for the one it went into.
Authors(q) == q.userId \cup {Alias[u] : u \in q.userId \cap DOMAIN Alias}

OwnRows(q) ==
  {p \in photos : /\ IsOwn(p) /\ "gallery" \in q.sources
                  /\ p.private => q.moderator \/ q.viewer = p.owner
                  /\ q.userId # {} => p.owner \in Authors(q)
                  /\ InRange(q, p)}

IncludeWikimedia(q) == "wikimedia" \in q.sources /\ q.userId = {}
-------------------------------------------------------------------------------
(* byOrder *)

\* No date and no comment is NULL, the least.
Ord(q, p) == IF q.orderBy = "rating" THEN Rating(p) ELSE p.key
Less(q, a, b) == IF q.direction = "asc" THEN a < b ELSE a > b

\* Each arm breaks its ties by its own primary key.
ArmOrder(q) ==
  [p \in photos |-> {r \in photos :
     \/ Less(q, Ord(q, p), Ord(q, r))
     \/ Ord(q, p) = Ord(q, r) /\ Less(q, Abs(p.id), Abs(r.id))}]

\* A range beyond the prior mean is answered from the ratings alone.
ExcludesUnrated(q) ==
  \/ q.ratingFrom # Unset /\ q.ratingFrom > bayesM * Twelve
  \/ q.ratingTo # Unset /\ q.ratingTo < bayesM * Twelve

WikimediaRows(q) ==
  LET pages == {p \in photos : ~IsOwn(p)}
      rated == {p \in pages : p.ratings > 0}
      keyed == {p \in pages : p.key # 0}
  IN CASE q.orderBy = "rating"          -> {p \in rated : InRange(q, p)}
       [] q.orderBy = "lastCommentedAt" -> {p \in keyed : InRange(q, p)}
       [] OTHER ->
            {p \in (IF ExcludesUnrated(q) THEN keyed \cap rated ELSE keyed) : InRange(q, p)}

\* A picture and a page of the same ID and key may come either way.
MergeTie(id) == Abs(id)
MergeOrder(q) ==
  [p \in photos |-> {r \in photos :
     \/ Less(q, Ord(q, p), Ord(q, r))
     \/ Ord(q, p) = Ord(q, r) /\ Less(q, MergeTie(p.id), MergeTie(r.id))}]

ByOrder(q) ==
  IF ~IncludeWikimedia(q) THEN Top(OwnRows(q), ArmOrder(q), Limit)
  ELSE UNION {Top(own \cup pages, MergeOrder(q), Limit) :
                own \in Arms(OwnRows(q), ArmOrder(q)),
                pages \in Arms(WikimediaRows(q), ArmOrder(q))}
-------------------------------------------------------------------------------
(* byRadius *)

\* Photos from one spot are in shooting order, the undated last.
Undated(p) == IF p.key = 0 THEN 1 ELSE 0
Source(p) == IF IsOwn(p) THEN 0 ELSE 1
Lexically(a, b) == \E i \in DOMAIN a : a[i] < b[i] /\ \A j \in 1..(i - 1) : a[j] = b[j]
Place(p) == <<p.spot, Undated(p), p.key, Source(p), Abs(p.id)>>
Nearer == [p \in photos |-> {r \in photos : Lexically(Place(p), Place(r))}]

\* HAVING distance <= ...; the box of degrees around it, which lets the index
\* find the rows, is taken to hold them all.
Near(q, rows) == {p \in rows : p.spot <= q.distance}
PagesInRange(q) == {p \in photos : IncludeWikimedia(q) /\ ~IsOwn(p) /\ InRange(q, p)}
ByRadius(q) ==
  UNION {Top(own \cup pages, Nearer, Limit) :
           own \in Arms(Near(q, OwnRows(q)), Nearer),
           pages \in Arms(Near(q, PagesInRange(q)), Nearer)}
-------------------------------------------------------------------------------
(* byBbox: `spot` is a latitude, in halves of a microdegree *)

InBox(q, rows) == {p \in rows : q.box[1] <= p.spot /\ p.spot <= q.box[2]}

\* Evenly over the box, by CRC32(picture.id).
Sampled ==
  LET own == {p \in photos : IsOwn(p)}
  IN [p \in own |-> {r \in own : Crc[p.id] < Crc[r.id]}]
OwnInBox(q) ==
  LET rows == InBox(q, OwnRows(q))
  IN IF q.limit = Unset THEN {rows} ELSE {ToSet(some) : some \in Top(rows, Sampled, q.limit)}

\* The rows the spatial index comes to first.
PagesInBox(q) ==
  LET rows == InBox(q, PagesInRange(q))
      cap == IF q.limit = Unset THEN BoxLimit ELSE Least(q.limit, BoxLimit)
  IN {some \in SUBSET rows : Cardinality(some) = Least(cap, Cardinality(rows))}

\* By latitude.
Southern == [p \in photos |-> {r \in photos : p.spot < r.spot}]

\* Math.round, and each picture's difference from the one before.
Round(x) == (x + 1) \div 2
FromLast(sorted, i) == Round(sorted[i].spot) - Round(sorted[i - 1].spot)
Encoded(sorted) ==
  [i \in DOMAIN sorted |->
     [id |-> sorted[i].id, lat |-> IF i = 1 THEN Round(sorted[1].spot) ELSE FromLast(sorted, i)]]

Sent(rows) == {Encoded(sorted) : sorted \in Top(rows, Southern, Cardinality(rows))}

ByBbox(q) == UNION {Sent(own \cup pages) : own \in OwnInBox(q), pages \in PagesInBox(q)}
-------------------------------------------------------------------------------
ListingInit == photos \in Catalogs /\ query \in Queries /\ answer = Unset

AnswerOrder == query.by = "order" /\ answer' \in ByOrder(query)
AnswerRadius == query.by = "radius" /\ answer' \in ByRadius(query)
AnswerBbox == query.by = "bbox" /\ answer' \in ByBbox(query)

ListingNext ==
  /\ answer = Unset /\ UNCHANGED <<photos, query>>
  /\ AnswerOrder \/ AnswerRadius \/ AnswerBbox

ListingSpec == ListingInit /\ [][ListingNext]_listingVars
-------------------------------------------------------------------------------
(* What a client may expect: of all the photos that fit the query, the first. *)

MayShow(p, q) == p.private => q.moderator \/ q.viewer = p.owner
BySomeoneAsked(p, q) == q.userId # {} =>
  IsOwn(p) /\ (p.owner \in q.userId \/ \E u \in q.userId \cap DOMAIN Alias : Alias[u] = p.owner)
Suits(p, q) ==
  /\ IF IsOwn(p) THEN "gallery" \in q.sources ELSE "wikimedia" \in q.sources
  /\ MayShow(p, q) /\ BySomeoneAsked(p, q) /\ InRange(q, p)
  /\ CASE q.by = "order"  -> IsOwn(p) \/ (IF q.orderBy = "rating" THEN p.ratings > 0 ELSE p.key # 0)
       [] q.by = "radius" -> p.spot <= q.distance
       [] q.by = "bbox"   -> q.box[1] <= p.spot /\ p.spot <= q.box[2]
Wanted == {p \in photos : Suits(p, query)}

\* "Every arm's LIMIT 1000 keeps precisely the rows this merged top-1000 selects at
\* a shared ord" (getPicturesHandler.ts:988), also where a range of ratings is
\* answered from the ratings alone: an answer by order or distance is one that a
\* single query over all the photos could give. It has as many as fit, up to the
\* limit, in order, and none is left out that comes before one of them. Nobody is
\* shown another's private picture.
ListsTheTop ==
  answer # Unset /\ query.by # "bbox" =>
    answer \in Top(Wanted, IF query.by = "radius" THEN Nearer ELSE ArmOrder(query), Limit)

\* And a box shows of each source all that fit, or as many as the limit lets; a client
\* that adds up the differences has each photo where it is, to the microdegree
\* (getPicturesHandler.ts:702-716), however many photos come before it.
ListsTheBox ==
  answer # Unset /\ query.by = "bbox" =>
    LET listed == {answer[i].id : i \in DOMAIN answer}
        cap(n) == IF query.limit = Unset THEN n ELSE Least(query.limit, n)
        own == {p \in Wanted : IsOwn(p)}
    IN /\ Cardinality(listed) = Len(answer)
       /\ Cardinality({id \in listed : id > 0}) = cap(Cardinality(own))
       /\ Cardinality({id \in listed : id < 0}) =
            Least(BoxLimit, cap(Cardinality(Wanted \ own)))
       /\ \E shown \in [DOMAIN answer -> Wanted] :
            LET at(i) == IF i = 0 THEN 0 ELSE Round(shown[i].spot)
            IN \A i \in DOMAIN answer :
                 shown[i].id = answer[i].id /\ at(i) = at(i - 1) + answer[i].lat
ListingsAreExact == ListsTheTop /\ ListsTheBox
===============================================================================
