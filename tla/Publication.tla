------------------------------ MODULE Publication ------------------------------
(***************************************************************************)
(* What the monthly import of Wikimedia photos promises the gallery: the   *)
(* table it reads is replaced in one step, by the photos of four dumps     *)
(* that were each read whole, and never by dumps older than the last ones. *)
(***************************************************************************)
EXTENDS Naturals

CONSTANTS
  Pages,       \* page IDs of files on Commons
  Photos,      \* the pages whose titles are those of photos
  Dumps,       \* geo_tags, page, image, mediainfo
  MaxVersion,  \* versions of a dump published while we look
  Holds        \* Holds[d][v]: the pages version v of dump d has a record of

VARIABLES
  latest,      \* the version each dump's "latest" URL leads to
  shown,       \* the rows of wikimediaPicture
  made         \* the versions of the dumps they were made from

Versions == 0..MaxVersion

\* A geotagged photo, with what the image and mediainfo dumps say of it.
RowOf(p, image, mediainfo) ==
  [page |-> p, image |-> p \in image, mediainfo |-> p \in mediainfo]
Whole(vs) ==
  {RowOf(p, Holds["image"][vs["image"]], Holds["mediainfo"][vs["mediainfo"]]) :
     p \in Holds["geo_tags"][vs["geo_tags"]] \cap Holds["page"][vs["page"]] \cap Photos}

Init ==
  /\ latest = [d \in Dumps |-> 0]
  /\ shown = {}
  /\ made = [d \in Dumps |-> 0]

Release(d) ==
  /\ latest[d] < MaxVersion
  /\ latest' = [latest EXCEPT ![d] = @ + 1]
  /\ UNCHANGED <<shown, made>>

Publish ==
  /\ made' \in [Dumps -> Versions]
  /\ \A d \in Dumps : made[d] <= made'[d] /\ made'[d] <= latest[d]
  /\ shown' = Whole(made')
  /\ UNCHANGED latest

Next == Publish \/ \E d \in Dumps : Release(d)
Spec == Init /\ [][Next]_<<latest, shown, made>>
===============================================================================
