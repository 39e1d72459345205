----------------------------- MODULE ImportsProofs -----------------------------
(***************************************************************************)
(* Theorems about what is taken over from others: WikimediaImport, for any *)
(* dumps, pages, versions, batch sizes and durations that fit the unit's   *)
(* time limit; Harvest, for any calendar, events, users' changes and       *)
(* failures of the requests; and SqlDump, for any rows of any strings, cut *)
(* anywhere.                                                               *)
(***************************************************************************)
EXTENDS WikimediaImport, Harvest, SqlDump, WellFoundedInduction, TLAPS

-------------------------------------------------------------------------------
(* The import of Wikimedia: types *)

LEMMA HeldPages ==
  ASSUME NEW d \in Dumps, NEW v \in Versions
  PROVE  Holds[d][v] \subseteq Pages
BY ImportAssumption

LEMMA RowsArePages ==
  ASSUME TypeOK, NEW d \in Dumps
  PROVE  RowsOf(d) \subseteq Pages
<1>1. Holds[d][pass[d].version] \subseteq Pages
  BY HeldPages DEF TypeOK, PassRecord
<1> QED BY <1>1 DEF RowsOf, GeoTagRows, PageKeepRows, ImageMetaRows, MediaInfoRows, Dumps

LEMMA TypedBits ==
  ASSUME TypeOK, NEW d \in Dumps, NEW rows \in SUBSET Pages, SetBits(d, rows)
  PROVE  /\ seen' \subseteq Pages /\ keptBits' \subseteq Pages
         /\ titleBits' \subseteq {Hash[p] : p \in Pages}
BY DEF SetBits, Within, TypeOK

LEMMA TypedInit == Init => TypeOK
<1> SUFFICES ASSUME Init PROVE TypeOK
  OBVIOUS
<1>1. Waiting \in PassRecord /\ 0 \in Versions
  BY ImportAssumption DEF Waiting, PassRecord, Versions
<1> QED BY <1>1 DEF Init, TypeOK, Importing, Building

LEMMA TypedLoad ==
  ASSUME TypeOK, NEW d \in Dumps, Load(d), pass' \in [Dumps -> PassRecord],
         phase' \in Importing \cup {"failed", "tidy", "published"},
         phase' \in Building => \A e \in Dumps : pass'[e].at = "done",
         since' \in Nat
  PROVE  TypeOK'
<1>1. staged' \in [Dumps -> SUBSET Pages]
  BY RowsArePages DEF Load, TypeOK
<1>2. /\ seen' \subseteq Pages /\ keptBits' \subseteq Pages
      /\ titleBits' \subseteq {Hash[p] : p \in Pages}
  BY TypedBits, RowsArePages DEF Load
<1> QED BY <1>1, <1>2 DEF Load, TypeOK, tables, told, Importing, Building

LEMMA TypedPass ==
  ASSUME TypeOK, NEW d \in Dumps
  PROVE  /\ Waiting \in PassRecord
         /\ [Waiting EXCEPT !.at = "lost"] \in PassRecord
         /\ Loading(d, 1) \in PassRecord
         /\ Done(d) \in [Dumps -> PassRecord]
         /\ pass[d].attempt < Attempts => Loading(d, pass[d].attempt + 1) \in PassRecord
<1>1. 0 \in Versions /\ 0 \in 0..Attempts /\ 1 \in 0..Attempts
  BY ImportAssumption DEF Versions
<1>2. pass[d] \in PassRecord /\ latest[d] \in Versions /\ clock \in Nat
  BY DEF TypeOK
<1>3. Waiting \in PassRecord /\ [Waiting EXCEPT !.at = "lost"] \in PassRecord
  BY <1>1 DEF Waiting, PassRecord
<1>4. [Waiting EXCEPT !.at = "done", !.version = pass[d].version] \in PassRecord
  BY <1>1, <1>2 DEF Waiting, PassRecord
<1>5. Done(d) \in [Dumps -> PassRecord]
  BY <1>4 DEF Done, TypeOK
<1>6. ASSUME pass[d].attempt < Attempts
      PROVE  pass[d].attempt + 1 \in 0..Attempts
  BY <1>2, <1>6, ImportAssumption DEF PassRecord
<1> QED BY <1>1, <1>2, <1>3, <1>5, <1>6 DEF Loading, PassRecord

\* Passes run in their order, and none runs when the table is being built.
Order ==
  /\ phase = "over" => \A d \in Dumps : pass[d].at = "waiting"
  /\ phase \in {"tidy", "published"} => \A d \in Dumps : pass[d].at = "done"
  /\ pass["page"].at # "waiting" => pass["geo_tags"].at = "done"
  /\ \A d \in Metadata : pass[d].at # "waiting" => pass["page"].at = "done"

\* What the final table is made of is there.
Ready ==
  /\ phase \in {"passes", "build"} /\ pass["geo_tags"].at = "done" => staged["geo_tags"] # {}
  /\ phase \in {"fill", "counted", "made", "swap"} => new # None
Typed == TypeOK /\ Order /\ Ready

Ended == {"failed", "tidy", "published"}

LEMMA DumpNames ==
  /\ "geo_tags" \in Dumps /\ "page" \in Dumps /\ Metadata \subseteq Dumps
  /\ Dumps = {"geo_tags", "page"} \cup Metadata
BY DEF Dumps, Metadata

\* A pass runs in "passes", or has been left behind by a run that failed.
LEMMA LoadingPhase ==
  ASSUME Typed, NEW d \in Dumps, pass[d].at = "loading"
  PROVE  phase \in {"passes", "failed"}
BY DEF Typed, TypeOK, Order, Importing, Building

LEMMA PassesInOrder ==
  ASSUME Typed, NEW d \in Dumps,
         \/ LoadGeoTags \/ LoadPage
         \/ d \in Metadata /\ LoadMetadata(d)
         \/ Interrupt(d)
  PROVE  /\ pass' \in [Dumps -> PassRecord]
         /\ phase' \in {"passes", "build", "failed"}
         /\ phase' = "build" => \A e \in Dumps : pass'[e].at = "done"
         /\ since' \in Nat
         /\ Order'
<1> USE DumpNames
<1>1. /\ pass \in [Dumps -> PassRecord] /\ clock \in Nat /\ since \in Nat
      /\ TypeOK /\ Order
  BY DEF Typed, TypeOK
<1>2. CASE LoadGeoTags
  <2>1. pass["geo_tags"].at = "loading" /\ phase \in {"passes", "failed"}
    BY <1>2, LoadingPhase DEF LoadGeoTags, Load
  <2>2. \A e \in Dumps \ {"geo_tags"} : pass[e].at = "waiting"
    BY <1>1, <2>1 DEF Order
  <2>3. pass' \in [Dumps -> PassRecord]
    BY <1>1, <1>2, TypedPass DEF LoadGeoTags
  <2>4. /\ pass'["geo_tags"].at = "done"
        /\ \A e \in Metadata : pass'[e].at = "waiting"
    BY <1>1, <1>2, <2>2 DEF LoadGeoTags, Done, Waiting, Loading, Metadata
  <2> QED BY <1>1, <1>2, <2>1, <2>3, <2>4 DEF LoadGeoTags, Order
<1>3. CASE LoadPage
  <2>1. pass["page"].at = "loading" /\ phase \in {"passes", "failed"}
    BY <1>3, LoadingPhase DEF LoadPage, Load
  <2>2. pass["geo_tags"].at = "done"
    BY <1>1, <2>1 DEF Order
  <2>3. pass' \in [Dumps -> PassRecord]
    <3>1. /\ Done("page") \in [Dumps -> PassRecord]
          /\ Loading("image", 1) \in PassRecord /\ Loading("mediainfo", 1) \in PassRecord
      BY <1>1, TypedPass DEF Metadata
    <3> QED BY <1>3, <3>1 DEF LoadPage
  <2>4. pass'["geo_tags"].at = "done" /\ pass'["page"].at = "done"
    BY <1>1, <1>3, <2>2 DEF LoadPage, Done, Waiting, Loading
  <2> QED BY <1>1, <1>3, <2>1, <2>3, <2>4 DEF LoadPage, Order
<1>4. CASE d \in Metadata /\ LoadMetadata(d)
  <2>1. pass[d].at = "loading" /\ phase \in {"passes", "failed"}
    BY <1>4, LoadingPhase DEF LoadMetadata, Load
  <2>2. pass["geo_tags"].at = "done" /\ pass["page"].at = "done"
    BY <1>1, <1>4, <2>1 DEF Order
  <2>3. pass' \in [Dumps -> PassRecord]
    BY <1>1, <1>4, TypedPass DEF LoadMetadata
  <2>4. /\ pass'[d].at = "done"
        /\ \A e \in Dumps \ {d} : pass'[e] = pass[e]
    BY <1>1, <1>4 DEF LoadMetadata, Done, Waiting
  <2>5. pass'["geo_tags"].at = "done" /\ pass'["page"].at = "done"
    BY <1>4, <2>2, <2>4 DEF Metadata
  <2>6. phase' \in {"passes", "build", "failed"} /\ since' \in Nat
    BY <1>1, <1>4, <2>1 DEF LoadMetadata
  <2>7. ASSUME phase' = "build" PROVE \A e \in Dumps : pass'[e].at = "done"
    <3>1. IsLast(d)
      BY <1>4, <2>1, <2>7 DEF LoadMetadata
    <3> QED BY <2>4, <2>5, <3>1 DEF IsLast
  <2> QED BY <2>3, <2>5, <2>6, <2>7 DEF Order
<1>5. CASE Interrupt(d)
  <2>1. pass[d].at = "loading" /\ phase \in {"passes", "failed"}
    BY <1>5, LoadingPhase DEF Interrupt
  <2>2. /\ \/ /\ pass[d].attempt < Attempts
               /\ pass' = [pass EXCEPT ![d] = Loading(d, pass[d].attempt + 1)]
               /\ phase' = phase
            \/ /\ pass' = [pass EXCEPT ![d] = [Waiting EXCEPT !.at = "lost"]]
               /\ phase' = "failed"
        /\ since' = since
    BY <1>1, <1>5 DEF Interrupt, MayRetry
  <2>3. pass' \in [Dumps -> PassRecord]
    BY <1>1, <2>2, TypedPass
  <2>4. /\ pass'[d].at \in {"loading", "lost"}
        /\ \A e \in Dumps \ {d} : pass'[e] = pass[e]
    BY <1>1, <2>2 DEF Waiting, Loading
  <2>5. Order'
    BY <1>1, <2>1, <2>2, <2>4 DEF Order
  <2> QED BY <1>1, <2>1, <2>2, <2>3, <2>5
<1> QED BY <1>2, <1>3, <1>4, <1>5

LEMMA TypedPasses ==
  ASSUME Typed, NEW d \in Dumps,
         \/ LoadGeoTags \/ LoadPage
         \/ d \in Metadata /\ LoadMetadata(d)
         \/ Interrupt(d)
  PROVE  Typed'
<1> USE DumpNames
<1>1. /\ pass' \in [Dumps -> PassRecord]
      /\ phase' \in {"passes", "build", "failed"}
      /\ phase' = "build" => \A e \in Dumps : pass'[e].at = "done"
      /\ since' \in Nat
      /\ Order'
  BY PassesInOrder
<1>2. TypeOK
  BY DEF Typed
<1>3. ASSUME NEW e \in Dumps, Load(e)
      PROVE  TypeOK'
  <2>1. phase' \in Building => \A x \in Dumps : pass'[x].at = "done"
    BY <1>1 DEF Building
  <2>2. phase' \in Importing \cup {"failed", "tidy", "published"}
    BY <1>1 DEF Importing, Building
  <2> QED BY <1>1, <1>2, <1>3, <2>1, <2>2, TypedLoad
<1>4. ASSUME Interrupt(d)
      PROVE  TypeOK'
  <2>1. RowsOf(d) \subseteq Pages
    BY <1>2, RowsArePages
  <2>2. PICK read \in SUBSET RowsOf(d), committed \in SUBSET Pages :
          /\ SetBits(d, read)
          /\ \/ staged' = [staged EXCEPT ![d] = Truncated(staged[d] \cup committed)]
             \/ staged' = [staged EXCEPT ![d] = staged[d] \cup committed]
    BY <1>2, <1>4 DEF Interrupt, TypeOK
  <2>3. /\ seen' \subseteq Pages /\ keptBits' \subseteq Pages
        /\ titleBits' \subseteq {Hash[p] : p \in Pages}
    BY <1>2, <2>1, <2>2, TypedBits
  <2>4. staged' \in [Dumps -> SUBSET Pages]
    BY <1>2, <2>2 DEF Truncated, TypeOK
  <2>5. /\ UNCHANGED <<latest, unit, runs, clock, since, tables, status, told>>
        /\ unit = "activating"
    BY <1>4 DEF Interrupt
  <2> QED BY <1>1, <1>2, <2>3, <2>4, <2>5 DEF TypeOK, tables, told, Importing, Building
<1>5. Interrupt(d) \/ \E e \in Dumps : Load(e)
  BY DEF LoadGeoTags, LoadPage, LoadMetadata
<1>6. TypeOK'
  BY <1>3, <1>4, <1>5
<1>7. UNCHANGED <<unit, new>>
  BY <1>5 DEF Interrupt, Load, tables
<1>8. Ready'
  <2>1. CASE LoadGeoTags
    <3>1. phase' # "failed" => staged'["geo_tags"] # {}
      BY <1>2, <2>1 DEF LoadGeoTags, Load, TypeOK
    <3> QED BY <1>1, <3>1 DEF Ready
  <2>2. CASE LoadPage \/ (d \in Metadata /\ LoadMetadata(d))
    <3>1. staged'["geo_tags"] = staged["geo_tags"]
      BY <1>2, <2>2 DEF LoadPage, LoadMetadata, Load, TypeOK, Metadata
    <3>2. pass["geo_tags"].at = "done" /\ phase \in {"passes", "failed"}
      <4>1. PICK e \in Dumps \ {"geo_tags"} : pass[e].at = "loading"
        BY <2>2 DEF LoadPage, LoadMetadata, Load, Metadata
      <4>2. pass["geo_tags"].at = "done"
        BY <4>1 DEF Typed, Order
      <4> QED BY <4>1, <4>2, LoadingPhase
    <3>3. phase = "failed" => phase' = "failed"
      BY <2>2 DEF LoadPage, LoadMetadata
    <3> QED BY <1>1, <3>1, <3>2, <3>3 DEF Ready, Typed
  <2>3. CASE Interrupt(d)
    <3>1. phase' = phase \/ phase' = "failed"
      BY <2>3 DEF Interrupt
    <3>2. pass[d].at = "loading" /\ pass'[d].at \in {"loading", "lost"}
      BY <1>2, <2>3 DEF Interrupt, Loading, Waiting, TypeOK
    <3>3. \A e \in Dumps \ {d} : pass'[e] = pass[e] /\ staged'[e] = staged[e]
      BY <1>2, <2>3 DEF Interrupt, TypeOK
    <3> QED BY <1>1, <3>1, <3>2, <3>3 DEF Ready, Typed
  <2> QED BY <2>1, <2>2, <2>3
<1> QED BY <1>1, <1>6, <1>8 DEF Typed

\* The rows of pages, in a new table.
LEMMA RowsFit ==
  ASSUME NEW ids \in SUBSET Pages, NEW i, NEW m
  PROVE  {RowOf(p, i, m) : p \in ids} \subseteq Table
<1> SUFFICES ASSUME NEW p \in ids PROVE RowOf(p, i, m) \in Table
  OBVIOUS
<1>1. (p \in i) \in BOOLEAN /\ (p \in m) \in BOOLEAN
  OBVIOUS
<1> QED BY <1>1 DEF RowOf, Table

LEMMA LowestRow ==
  ASSUME NEW ids \in SUBSET Nat, ids # {}
  PROVE  /\ Lowest(ids) \in ids
         /\ \A q \in ids : Lowest(ids) <= q
<1>1. PICK p \in ids : \A q \in ids : <<q, p>> \notin OpToRel(<, Nat)
  BY NatLessThanWellFounded, WFMin
<1>2. \A q \in ids : ~(q < p)
  BY <1>1 DEF OpToRel
<1>3. \A q \in ids : p <= q
  BY <1>2
<1> QED BY <1>3 DEF Lowest

LEMMA TypedInsert ==
  ASSUME Typed, MakeNew \/ InsertRange
  PROVE  Typed'
<1>1. TypeOK /\ Order /\ Ready /\ phase \in Building /\ unit = "activating"
  BY DEF Typed, MakeNew, InsertRange, Running, Building
<1>2. /\ phase' = "fill"
      /\ UNCHANGED <<pass, latest, unit, runs, clock, since, staged, seen, titleBits,
                     keptBits, live, old, made, published, status, mails, undelivered>>
  BY DEF MakeNew, InsertRange, Running, bits, told
<1>3. new' \in SUBSET Table /\ lo' \in Nat
  <2>1. CASE MakeNew
    <3>1. pass["geo_tags"].at = "done"
      BY <1>1, DumpNames DEF TypeOK
    <3>2. staged["geo_tags"] \in SUBSET Nat /\ staged["geo_tags"] # {}
      BY <1>1, <2>1, <3>1, DumpNames, ImportAssumption DEF TypeOK, MakeNew, Running, Ready
    <3>3. Lowest(staged["geo_tags"]) \in Nat
      BY <3>2, LowestRow
    <3> QED BY <2>1, <3>3 DEF MakeNew
  <2>2. CASE InsertRange
    <3>1. new \in SUBSET Table
      BY <1>1, <2>2 DEF TypeOK, Ready, InsertRange, Running
    <3>2. InRange \cap staged["page"] \in SUBSET Pages
      BY <1>1, DumpNames DEF TypeOK
    <3>3. {RowOf(p, staged["image"], staged["mediainfo"]) : p \in InRange \cap staged["page"]}
             \subseteq Table
      BY <3>2, RowsFit
    <3>4. Batch \in Nat /\ lo \in Nat
      BY <1>1, ImportAssumption DEF TypeOK
    <3> QED BY <2>2, <3>1, <3>3, <3>4 DEF InsertRange, Advanced
  <2> QED BY <2>1, <2>2
<1>4. TypeOK'
  BY <1>1, <1>2, <1>3 DEF TypeOK, Importing, Building
<1>5. Order' /\ Ready'
  BY <1>1, <1>2, <1>3, NoTableAssumption DEF Order, Ready, Building
<1> QED BY <1>4, <1>5 DEF Typed

LEMMA TypedTable ==
  ASSUME Typed, CheckCounts \/ MakeLive \/ DropOld \/ Swap \/ Tidy
  PROVE  Typed'
<1>1. TypeOK /\ Order /\ Ready /\ unit = "activating" /\ phase \in Building \cup {"tidy"}
  BY DEF Typed, CheckCounts, MakeLive, DropOld, Swap, Tidy, Running, Building
<1>2. /\ phase' \in {"counted", "made", "swap", "tidy", "published", "failed"}
      /\ UNCHANGED <<pass, latest, unit, runs, clock, since, seen, titleBits, keptBits, lo,
                     status, mails, undelivered>>
      /\ staged' \in [Dumps -> SUBSET Pages]
      /\ old' \in BOOLEAN
  BY <1>1 DEF CheckCounts, MakeLive, DropOld, Swap, Tidy, AfterTidy, bits, tables, told, TypeOK
<1>3. /\ new' = None \/ new' \subseteq Table
      /\ live' = None \/ live' \subseteq Table
      /\ made' \in [Dumps -> Versions]
      /\ published' \in BOOLEAN
  <2>1. \A d \in Dumps : pass[d].version \in Versions
    BY <1>1 DEF TypeOK, PassRecord
  <2> QED BY <1>1, <2>1 DEF CheckCounts, MakeLive, DropOld, Swap, Tidy, tables, TypeOK
<1>4. phase' \in Building => \A d \in Dumps : pass[d].at = "done"
  BY <1>1, <1>2 DEF CheckCounts, MakeLive, DropOld, Swap, Tidy, AfterTidy, Running, TypeOK,
                    Building
<1>5. TypeOK'
  BY <1>1, <1>2, <1>3, <1>4 DEF TypeOK, Importing, Building
<1>6. Order'
  BY <1>1, <1>2 DEF Order, Building, TypeOK
<1>7. Ready'
  BY <1>1, <1>2 DEF CheckCounts, MakeLive, DropOld, Swap, Tidy, AfterTidy, Running, tables, Ready
<1> QED BY <1>5, <1>6, <1>7 DEF Typed

LEMMA TypedEnd ==
  ASSUME Typed, ReportFailure \/ ReportSuccess \/ Die
  PROVE  Typed'
<1>1. TypeOK /\ Order /\ Ready
  BY DEF Typed
<1>2. Ends /\ unit' \in {"inactive", "failed"} /\ undelivered' = undelivered
  BY DEF ReportFailure, ReportSuccess, Die
<1>3. status' \in {0, 1, 2, 9}
  BY DEF ReportFailure, ReportSuccess, Die, Exit
<1>4. mails' \subseteq {"FAILED", "succeeded", "DIED"}
  <2>1. Sending \subseteq {"FAILED", "succeeded"}
    BY DEF Sending
  <2> QED BY <1>1, <2>1 DEF ReportFailure, ReportSuccess, Die, TypeOK
<1>5. pass' \in [Dumps -> PassRecord]
  BY <1>1, <1>2, DumpNames, TypedPass DEF Ends
<1>6. TypeOK'
  BY <1>1, <1>2, <1>3, <1>4, <1>5 DEF Ends, TypeOK, Importing, Building
<1>7. Order'
  BY <1>2, DumpNames DEF Ends, Order, Waiting
<1>8. Ready'
  BY <1>2 DEF Ends, Ready
<1> QED BY <1>6, <1>7, <1>8 DEF Typed

LEMMA TypedOther ==
  ASSUME Typed, Start \/ Tick \/ Fault \/ Backstop \/ \E d \in Dumps : Release(d)
  PROVE  Typed'
<1>1. TypeOK /\ Order /\ Ready
  BY DEF Typed
<1>2. CASE Start
  <2>1. latest["geo_tags"] \in Versions /\ 1 \in 0..Attempts
    BY <1>1, DumpNames, ImportAssumption DEF TypeOK
  <2>2. /\ Waiting \in PassRecord
        /\ [at |-> "loading", attempt |-> 1, version |-> latest["geo_tags"], begun |-> 0]
             \in PassRecord
    BY <1>1, <2>1, DumpNames, TypedPass DEF PassRecord
  <2>3. pass' \in [Dumps -> PassRecord]
    BY <1>2, <2>2 DEF Start
  <2>4. pass'["geo_tags"].at = "loading" /\ \A d \in Dumps \ {"geo_tags"} : pass'[d].at = "waiting"
    BY <1>2, DumpNames DEF Start, Waiting
  <2>5. TypeOK'
    <3>1. /\ phase' = "passes" /\ unit' = "activating" /\ clock' = 0 /\ since' = 0
          /\ runs' \in Nat /\ new' = None /\ published' = FALSE /\ undelivered' = FALSE
          /\ seen' = {} /\ titleBits' = {} /\ keptBits' = {} /\ mails' = {}
          /\ UNCHANGED <<latest, lo, live, old, made, status>>
      BY <1>1, <1>2 DEF Start, TypeOK
    <3>2. staged' \in [Dumps -> SUBSET Pages]
      BY <1>2 DEF Start
    <3> QED BY <1>1, <2>3, <3>1, <3>2 DEF TypeOK, Importing, Building
  <2>6. Order' /\ Ready'
    BY <1>2, <2>4, DumpNames DEF Start, Order, Ready, Metadata
  <2> QED BY <2>5, <2>6 DEF Typed
<1>3. CASE Tick
  <2>1. TypeOK'
    BY <1>1, <1>3 DEF Tick, TypeOK, bits, tables, told
  <2>2. Order' /\ Ready'
    BY <1>1, <1>3 DEF Tick, Order, Ready, tables
  <2> QED BY <2>1, <2>2 DEF Typed
<1>4. CASE Fault
  <2>1. TypeOK'
    BY <1>1, <1>4 DEF Fault, TypeOK, bits, tables, told, Importing, Building
  <2>2. Order' /\ Ready'
    BY <1>1, <1>4 DEF Fault, Order, Ready
  <2> QED BY <2>1, <2>2 DEF Typed
<1>5. CASE Backstop
  <2>1. /\ mails' \subseteq {"FAILED", "succeeded", "DIED"} /\ undelivered' \in BOOLEAN
        /\ phase' = phase /\ phase = "over" /\ unit' = "inactive"
    BY <1>1, <1>5 DEF Backstop, told, TypeOK
  <2>2. TypeOK'
    BY <1>1, <1>5, <2>1 DEF Backstop, TypeOK, bits, tables
  <2>3. Order' /\ Ready'
    BY <1>1, <1>5 DEF Backstop, Order, Ready, tables
  <2> QED BY <2>2, <2>3 DEF Typed
<1>6. ASSUME NEW d \in Dumps, Release(d)
      PROVE  Typed'
  <2>1. latest' \in [Dumps -> Versions]
    <3>1. latest[d] + 1 \in Versions
      BY <1>1, <1>6, ImportAssumption DEF Release, TypeOK, Versions
    <3> QED BY <1>1, <1>6, <3>1 DEF Release, TypeOK
  <2>2. TypeOK'
    BY <1>1, <1>6, <2>1 DEF Release, TypeOK, bits, tables, told
  <2>3. Order' /\ Ready'
    BY <1>1, <1>6 DEF Release, Order, Ready, tables
  <2> QED BY <2>2, <2>3 DEF Typed
<1> QED BY <1>2, <1>3, <1>4, <1>5, <1>6

LEMMA TypedInitially == Init => Typed
<1>1. Init => Order /\ Ready
  BY DumpNames DEF Init, Order, Ready, Waiting
<1> QED BY <1>1, TypedInit DEF Typed

LEMMA TypedNext == Typed /\ [Next]_vars => Typed'
<1> SUFFICES ASSUME Typed, [Next]_vars PROVE Typed'
  OBVIOUS
<1>1. CASE UNCHANGED vars
  BY <1>1 DEF vars, bits, tables, told, Typed, TypeOK, Order, Ready
<1>2. CASE Start \/ Tick \/ Fault \/ Backstop \/ \E d \in Dumps : Release(d)
  BY <1>2, TypedOther
<1>3. CASE \/ LoadGeoTags \/ LoadPage \/ (\E d \in Metadata : LoadMetadata(d))
           \/ \E d \in Dumps : Interrupt(d)
  BY <1>3, TypedPasses, DumpNames
<1>4. CASE MakeNew \/ InsertRange
  BY <1>4, TypedInsert
<1>5. CASE CheckCounts \/ MakeLive \/ DropOld \/ Swap \/ Tidy
  BY <1>5, TypedTable
<1>6. CASE ReportFailure \/ ReportSuccess \/ Die
  BY <1>6, TypedEnd
<1> QED BY <1>1, <1>2, <1>3, <1>4, <1>5, <1>6 DEF Next, Work

\* Every variable of the import keeps its type, and the final table is made only
\* after all the passes.
THEOREM TypeCorrect == Spec => []TypeOK
<1>1. Typed => TypeOK
  BY DEF Typed
<1> QED BY <1>1, TypedInitially, TypedNext, PTL DEF Spec


-------------------------------------------------------------------------------
(* Reports *)

\* A run that is not over has not reported, and has published if and only if it
\* is past the swap. A process that said its own failure was mailed is right.
Told ==
  /\ unit = "activating" => mails = {}
  /\ phase \in Importing \cup {"failed"} => ~published
  /\ phase \in {"tidy", "published"} => published
  /\ unit = "failed" /\ status = 2 => mails # {}

\* What the steps within a run do to what the reports are about.
LEMMA StepsOfARun ==
  ASSUME Typed,
         \/ Tick \/ Fault \/ LoadGeoTags \/ LoadPage
         \/ \E d \in Metadata : LoadMetadata(d)
         \/ \E d \in Dumps : Interrupt(d)
         \/ MakeNew \/ InsertRange \/ CheckCounts \/ MakeLive \/ DropOld \/ Tidy
  PROVE  /\ UNCHANGED <<unit, runs, status, mails, undelivered, published>>
         /\ unit = "activating"
         /\ \/ {phase, phase'} \subseteq Importing \cup {"failed"}
            \/ {phase, phase'} \subseteq {"tidy", "published"}
<1> USE DEF tables, told, Importing, Building
<1>1. CASE Tick \/ Fault
  BY <1>1 DEF Tick, Fault
<1>2. CASE LoadGeoTags \/ LoadPage \/ \E d \in Metadata : LoadMetadata(d)
  <2>1. PICK e \in Dumps : Load(e) /\ phase' \in {phase, "build", "failed"}
    BY <1>2, DumpNames DEF LoadGeoTags, LoadPage, LoadMetadata
  <2>2. phase \in {"passes", "failed"}
    BY <2>1, LoadingPhase DEF Load
  <2> QED BY <2>1, <2>2 DEF Load
<1>3. ASSUME NEW d \in Dumps, Interrupt(d)
      PROVE  /\ UNCHANGED <<unit, runs, status, mails, undelivered, published>>
             /\ unit = "activating"
             /\ {phase, phase'} \subseteq Importing \cup {"failed"}
  <2>1. phase \in {"passes", "failed"} /\ phase' \in {phase, "failed"}
    BY <1>3, LoadingPhase DEF Interrupt
  <2> QED BY <1>3, <2>1 DEF Interrupt
<1>4. CASE MakeNew \/ InsertRange \/ CheckCounts \/ MakeLive \/ DropOld
  BY <1>4 DEF MakeNew, InsertRange, CheckCounts, MakeLive, DropOld, Running
<1>5. CASE Tidy
  BY <1>5 DEF Tidy, AfterTidy, Running
<1> QED BY <1>1, <1>2, <1>3, <1>4, <1>5

LEMMA ToldNext ==
  ASSUME Typed, Told, ReportsAreTrue, [Next]_vars
  PROVE  Told' /\ ReportsAreTrue'
<1>1. TypeOK
  BY DEF Typed
<1>2. ASSUME UNCHANGED <<unit, runs, status, mails, undelivered, published, phase>>
      PROVE  Told' /\ ReportsAreTrue'
  BY <1>2 DEF Told, ReportsAreTrue
<1>3. CASE UNCHANGED vars
  BY <1>2, <1>3 DEF vars, tables, told
<1>4. CASE \E d \in Dumps : Release(d)
  BY <1>2, <1>4 DEF Release, tables, told
<1>5. CASE \/ Tick \/ Fault \/ LoadGeoTags \/ LoadPage
           \/ \E d \in Metadata : LoadMetadata(d)
           \/ \E d \in Dumps : Interrupt(d)
           \/ MakeNew \/ InsertRange \/ CheckCounts \/ MakeLive \/ DropOld \/ Tidy
  <2>1. /\ UNCHANGED <<unit, runs, status, mails, undelivered, published>>
        /\ unit = "activating"
        /\ \/ {phase, phase'} \subseteq Importing \cup {"failed"}
           \/ {phase, phase'} \subseteq {"tidy", "published"}
    BY <1>5, StepsOfARun
  <2> QED BY <2>1 DEF Told, ReportsAreTrue, Importing, Building
<1>6. CASE Swap
  BY <1>6 DEF Swap, Running, told, Told, ReportsAreTrue, Importing, Building
<1>7. CASE Start
  BY <1>7 DEF Start, Told, ReportsAreTrue, Importing, Building
<1>8. CASE ReportFailure
  <2>1. /\ phase = "failed" /\ ~published /\ mails = {} /\ unit' = "failed"
        /\ phase' = "over" /\ published' = published /\ mails' \subseteq {"FAILED"}
    BY <1>8 DEF ReportFailure, Running, Ends, Told
  <2>2. status' = 2 => mails' # {}
    BY <1>8 DEF ReportFailure, Exit
  <2> QED BY <2>1, <2>2 DEF Told, ReportsAreTrue, Importing, Building
<1>9. CASE ReportSuccess
  <2>1. /\ published /\ mails = {} /\ unit' = "inactive"
        /\ phase' = "over" /\ published' = published /\ mails' \subseteq {"succeeded"}
    BY <1>9 DEF ReportSuccess, Running, Ends, Told
  <2> QED BY <1>1, <2>1 DEF Told, ReportsAreTrue, Importing, Building, TypeOK
<1>10. CASE Die
  <2>1. /\ mails = {} /\ unit' = "failed" /\ status' = 9
        /\ phase' = "over" /\ published' = published /\ mails' \subseteq Sending
    BY <1>10 DEF Die, Ends, Told
  <2>2. /\ "FAILED" \in Sending => ~published
        /\ "succeeded" \in Sending => published
    BY DEF Sending, Told
  <2> QED BY <2>1, <2>2 DEF Told, ReportsAreTrue, Importing, Building
<1>11. CASE Backstop
  <2>1. /\ unit = "failed" /\ unit' = "inactive" /\ phase' = phase /\ phase = "over"
        /\ published' = published /\ mails' \subseteq mails \cup {"DIED"} /\ mails \subseteq mails'
    BY <1>1, <1>11 DEF Backstop, told, tables, TypeOK
  <2>2. mails' # {} \/ undelivered'
    BY <1>11 DEF Backstop, told, Told
  <2> QED BY <2>1, <2>2 DEF Told, ReportsAreTrue, Importing, Building
<1> QED BY <1>3, <1>4, <1>5, <1>6, <1>7, <1>8, <1>9, <1>10, <1>11 DEF Next, Work

\* A mail of a failure is sent only when the swap did not happen, one of success
\* only when it did, and a run that published nothing is reported unless the last
\* mail of all could not be delivered: for any runs, dumps and deaths.
THEOREM ReportsStayTrue == Spec => []ReportsAreTrue
<1>1. Init => Told /\ ReportsAreTrue
  BY DEF Init, Told, ReportsAreTrue, Importing, Building
<1>2. Typed /\ Told /\ ReportsAreTrue /\ [Next]_vars => Told' /\ ReportsAreTrue'
  BY ToldNext
<1> QED BY <1>1, <1>2, TypedInitially, TypedNext, PTL DEF Spec


-------------------------------------------------------------------------------
(* Time limits *)

\* The last hour an attempt at a dump may begin: within the budget, or right
\* after the pass before it.
LatestStart(d) ==
  CASE d = "geo_tags" -> Budget
    [] d = "page"     -> Budget + Download["geo_tags"]
    [] OTHER          -> Budget + Download["geo_tags"] + Download["page"]

InTime ==
  /\ unit = "activating" => clock < Timeout
  /\ \A d \in Dumps : pass[d].at = "loading" =>
       pass[d].begun <= LatestStart(d) /\ clock <= pass[d].begun + Download[d]
  /\ phase \in Building =>
       clock <= since + Build /\ \E d \in Metadata : since <= LatestStart(d) + Download[d]

LEMMA Durations ==
  /\ \A d \in Dumps : Download[d] \in Nat /\ LatestStart(d) \in Nat /\ Budget <= LatestStart(d)
  /\ LatestStart("geo_tags") = Budget
  /\ LatestStart("page") = Budget + Download["geo_tags"]
  /\ \A d \in Metadata : LatestStart(d) = Budget + Download["geo_tags"] + Download["page"]
  /\ {Build, Budget, Timeout} \subseteq Nat
<1>1. \A d \in Dumps : Download[d] \in Nat
  BY ImportAssumption
<1>2. {Build, Budget, Timeout} \subseteq Nat
  BY ImportAssumption
<1> QED BY <1>1, <1>2 DEF LatestStart, Dumps, Metadata

\* An attempt that begins at the latest leaves time for what comes after it.
LEMMA TimeEnough ==
  \A d \in Dumps : LatestStart(d) + Download[d] + Build < Timeout
<1>1. \A d \in Metadata : Budget + Download["geo_tags"] + Download["page"] + Download[d] + Build < Timeout
  BY TimeoutAssumption DEF Metadata
<1>2. "image" \in Metadata
  BY DEF Metadata
<1>3. LatestStart("geo_tags") + Download["geo_tags"] + Build < Timeout
  BY <1>1, <1>2, Durations, DumpNames
<1>4. LatestStart("page") + Download["page"] + Build < Timeout
  BY <1>1, <1>2, Durations, DumpNames
<1>5. \A d \in Metadata : LatestStart(d) + Download[d] + Build < Timeout
  BY <1>1, Durations, DumpNames
<1> QED BY <1>3, <1>4, <1>5, DumpNames

LEMMA InTimePasses ==
  ASSUME Typed, InTime, NEW d \in Dumps,
         \/ LoadGeoTags \/ LoadPage
         \/ d \in Metadata /\ LoadMetadata(d)
         \/ Interrupt(d)
  PROVE  InTime'
<1> USE DumpNames
<1>1. TypeOK /\ clock \in Nat /\ \A e \in Dumps : pass[e].begun \in Nat
  BY DEF Typed, TypeOK, PassRecord
<1>2. clock' = clock /\ unit' = unit
  BY DEF LoadGeoTags, LoadPage, LoadMetadata, Interrupt, Load
<1>3. CASE LoadGeoTags
  <2>0. pass \in [Dumps -> PassRecord]
    BY <1>1 DEF TypeOK
  <2>1. pass["geo_tags"].at = "loading" /\ phase \in {"passes", "failed"} /\ phase' \in {phase, "failed"}
    <3>1. pass["geo_tags"].at = "loading"
      BY <1>3 DEF LoadGeoTags, Load
    <3>2. phase \in {"passes", "failed"}
      BY <3>1, LoadingPhase
    <3>3. phase' \in {phase, "failed"}
      BY <1>3 DEF LoadGeoTags
    <3> QED BY <3>1, <3>2, <3>3
  <2>2. \A e \in Dumps \ {"page"} : pass'[e].at = "loading" => pass'[e] = pass[e]
    <3>1. pass'["geo_tags"].at = "done"
      BY <1>1, <1>3, <2>0 DEF LoadGeoTags, Done, Waiting
    <3>2. \A e \in Dumps \ {"geo_tags", "page"} : pass'[e] = pass[e]
      BY <1>1, <1>3, <2>0 DEF LoadGeoTags, Done
    <3> QED BY <3>1, <3>2
  <2>3. pass'["page"] = pass["page"] \/ pass'["page"].begun = clock
    BY <1>1, <1>3, <2>0 DEF LoadGeoTags, Done, Waiting, Loading
  <2>4. clock <= LatestStart("page")
    BY <1>1, <2>1, Durations DEF InTime
  <2>5. \A e \in Dumps : pass'[e].at = "loading" =>
          pass'[e].begun <= LatestStart(e) /\ clock' <= pass'[e].begun + Download[e]
    BY <1>1, <1>2, <2>2, <2>3, <2>4, Durations DEF InTime
  <2> QED BY <1>2, <2>1, <2>5 DEF InTime, Building
<1>4. CASE LoadPage
  <2>0. pass \in [Dumps -> PassRecord]
    BY <1>1 DEF TypeOK
  <2>1. pass["page"].at = "loading" /\ phase \in {"passes", "failed"} /\ phase' \in {phase, "failed"}
    <3>1. pass["page"].at = "loading"
      BY <1>4 DEF LoadPage, Load
    <3>2. phase \in {"passes", "failed"}
      BY <3>1, LoadingPhase
    <3>3. phase' \in {phase, "failed"}
      BY <1>4 DEF LoadPage
    <3> QED BY <3>1, <3>2, <3>3
  <2>2. \A e \in {"geo_tags", "page"} : pass'[e].at = "loading" => pass'[e] = pass[e]
    <3>1. pass'["page"].at = "done"
      BY <1>1, <1>4, <2>0 DEF LoadPage, Done, Waiting
    <3>2. pass'["geo_tags"] = pass["geo_tags"]
      BY <1>1, <1>4, <2>0 DEF LoadPage, Done
    <3> QED BY <3>1, <3>2
  <2>3. \A e \in Metadata : pass'[e] = pass[e] \/ pass'[e].begun = clock
    BY <1>1, <1>4, <2>0 DEF LoadPage, Done, Waiting, Loading, Metadata
  <2>4. \A e \in Metadata : clock <= LatestStart(e)
    BY <1>1, <2>1, Durations DEF InTime
  <2>5. \A e \in Dumps : pass'[e].at = "loading" =>
          pass'[e].begun <= LatestStart(e) /\ clock' <= pass'[e].begun + Download[e]
    BY <1>1, <1>2, <2>2, <2>3, <2>4, Durations DEF InTime
  <2> QED BY <1>2, <2>1, <2>5 DEF InTime, Building
<1>5. CASE d \in Metadata /\ LoadMetadata(d)
  <2>1. pass[d].at = "loading" /\ phase \in {"passes", "failed"}
    BY <1>5, LoadingPhase DEF LoadMetadata, Load
  <2>2. \A e \in Dumps : pass'[e].at = "loading" => pass'[e] = pass[e]
    BY <1>1, <1>5 DEF LoadMetadata, Done, Waiting, TypeOK
  <2>3. clock <= LatestStart(d) + Download[d]
    BY <1>1, <2>1, Durations DEF InTime
  <2>4. phase' \in Building => since' = clock
    BY <1>5, <2>1 DEF LoadMetadata, Building
  <2>5. phase' \in Building =>
          clock' <= since' + Build /\ \E e \in Metadata : since' <= LatestStart(e) + Download[e]
    BY <1>1, <1>2, <1>5, <2>3, <2>4, Durations
  <2> QED BY <1>2, <2>2, <2>5 DEF InTime
<1>6. CASE Interrupt(d)
  <2>1. phase \in {"passes", "failed"} /\ phase' \in {phase, "failed"}
    BY <1>6, LoadingPhase DEF Interrupt
  <2>2. \A e \in Dumps \ {d} : pass'[e] = pass[e]
    BY <1>1, <1>6 DEF Interrupt, TypeOK
  <2>3. pass'[d].at = "loading" => pass'[d].begun = clock /\ clock <= Budget
    BY <1>1, <1>6 DEF Interrupt, MayRetry, Loading, Waiting, TypeOK
  <2>4. \A e \in Dumps : pass'[e].at = "loading" =>
          pass'[e].begun <= LatestStart(e) /\ clock' <= pass'[e].begun + Download[e]
    BY <1>1, <1>2, <2>2, <2>3, Durations DEF InTime
  <2> QED BY <1>2, <2>1, <2>4 DEF InTime, Building
<1> QED BY <1>3, <1>4, <1>5, <1>6

LEMMA InTimeTick ==
  ASSUME Typed, InTime, Tick
  PROVE  InTime'
<1>1. /\ clock \in Nat /\ since \in Nat /\ \A e \in Dumps : pass[e].begun \in Nat
      /\ clock' = clock + 1 /\ unit = "activating" /\ UNCHANGED <<unit, phase, pass, since>>
  BY DEF Typed, TypeOK, PassRecord, Tick
<1>2. \A d \in Dumps : pass[d].at = "loading" => clock + 1 <= pass[d].begun + Download[d]
  BY <1>1, Durations DEF Tick
<1>3. phase \in Building => clock + 1 <= since + Build
  BY <1>1, Durations DEF Tick
<1>4. clock + 1 < Timeout
  <2>1. CASE phase \in Building
    <3>1. PICK d \in Metadata : since <= LatestStart(d) + Download[d]
      BY <2>1 DEF InTime
    <3>2. d \in Dumps
      BY <3>1, DumpNames
    <3>3. LatestStart(d) + Download[d] + Build < Timeout
      BY <3>2, TimeEnough
    <3> QED BY <1>1, <1>3, <2>1, <3>1, <3>2, <3>3, Durations
  <2>2. CASE phase \notin Building
    <3>1. PICK d \in Dumps : pass[d].at = "loading"
      BY <2>2 DEF Tick
    <3>2. pass[d].begun <= LatestStart(d)
      BY <3>1 DEF InTime
    <3>3. LatestStart(d) + Download[d] + Build < Timeout
      BY TimeEnough
    <3> QED BY <1>1, <1>2, <3>1, <3>2, <3>3, Durations
  <2> QED BY <2>1, <2>2
<1> QED BY <1>1, <1>2, <1>3, <1>4 DEF InTime

LEMMA InTimeNext ==
  ASSUME Typed, InTime, [Next]_vars
  PROVE  InTime'
<1>1. ASSUME UNCHANGED <<unit, clock, since, pass>>, phase' \in Building => phase \in Building
      PROVE  InTime'
  BY <1>1 DEF InTime
<1>2. CASE UNCHANGED vars \/ Backstop \/ Fault \/ \E d \in Dumps : Release(d)
  <2>1. CASE UNCHANGED vars
    BY <1>1, <2>1 DEF vars
  <2>2. CASE Backstop
    <3>1. unit = "failed" /\ unit' = "inactive" /\ UNCHANGED <<clock, since, pass, phase>>
      BY <2>2 DEF Backstop
    <3> QED BY <3>1 DEF InTime
  <2>3. CASE Fault
    BY <1>1, <2>3 DEF Fault, Building
  <2>4. CASE \E d \in Dumps : Release(d)
    BY <1>1, <2>4 DEF Release
  <2> QED BY <1>2, <2>1, <2>2, <2>3, <2>4
<1>3. CASE \/ LoadGeoTags \/ LoadPage \/ (\E d \in Metadata : LoadMetadata(d))
           \/ \E d \in Dumps : Interrupt(d)
  BY <1>3, InTimePasses, DumpNames
<1>4. CASE MakeNew \/ InsertRange \/ CheckCounts \/ MakeLive \/ DropOld \/ Swap \/ Tidy
  BY <1>1, <1>4 DEF MakeNew, InsertRange, CheckCounts, MakeLive, DropOld, Swap, Tidy, AfterTidy,
                    Running, Building
<1>5. CASE Tick
  BY <1>5, InTimeTick
<1>6. CASE Start
  <2>1. 0 < Timeout
    BY TimeEnough, Durations, DumpNames
  <2>2. /\ pass'["geo_tags"].begun = 0 /\ clock' = 0 /\ phase' = "passes"
        /\ \A d \in Dumps \ {"geo_tags"} : pass'[d].at = "waiting"
    BY <1>6, DumpNames DEF Start, Waiting
  <2>3. \A d \in Dumps : pass'[d].at = "loading" =>
          pass'[d].begun <= LatestStart(d) /\ clock' <= pass'[d].begun + Download[d]
    BY <2>2, Durations
  <2> QED BY <2>1, <2>2, <2>3 DEF InTime, Building
<1>7. CASE ReportFailure \/ ReportSuccess \/ Die
  <2>1. Ends /\ unit' # "activating"
    BY <1>7 DEF ReportFailure, ReportSuccess, Die
  <2> QED BY <2>1 DEF Ends, InTime, Waiting, Building
<1> QED BY <1>2, <1>3, <1>4, <1>5, <1>6, <1>7 DEF Next, Work

\* No run is still under way when systemd's start timeout strikes, whatever is
\* interrupted and retried, for any durations that fit as TimeoutAssumption says.
THEOREM RunsFitTheTimeout == Spec => []RunsEndThemselves
<1>1. Init => InTime
  BY DEF Init, InTime, Waiting, Building
<1>2. Typed /\ InTime /\ [Next]_vars => InTime'
  BY InTimeNext
<1>3. InTime => RunsEndThemselves
  BY DEF InTime, RunsEndThemselves
<1> QED BY <1>1, <1>2, <1>3, TypedInitially, TypedNext, PTL DEF Spec


-------------------------------------------------------------------------------
(* What is published *)

Held(d) == Holds[d][pass[d].version]

\* Versions only go up, from those of the live table to those being read.
Fresh ==
  \A d \in Dumps :
    /\ made[d] <= latest[d]
    /\ pass[d].at \in {"loading", "done"} =>
         made[d] <= pass[d].version /\ pass[d].version <= latest[d]

\* A pass that is done staged all of its dump that the table needs, and one that
\* is not has left nothing behind.
StagedWhole ==
  phase \in {"passes", "build", "fill"} =>
    /\ \A d \in Dumps : pass[d].at # "done" => staged[d] = {}
    /\ pass["geo_tags"].at = "done" =>
         staged["geo_tags"] = Held("geo_tags") /\ Held("geo_tags") \subseteq seen
    /\ pass["page"].at = "done" =>
         /\ staged["page"] = PageKeepRows(Held("page"))
         /\ staged["page"] \subseteq keptBits
         /\ \A p \in staged["page"] : Hash[p] \in titleBits
    /\ \A d \in Metadata : pass[d].at = "done" =>
         \A p \in staged["page"] : p \in staged[d] <=> p \in Held(d)

\* The new table holds the rows below lo, then all of them.
Rows(ids) == {RowOf(p, staged["image"], staged["mediainfo"]) : p \in ids}
Filled ==
  /\ phase = "fill" => new = Rows({p \in staged["geo_tags"] \cap staged["page"] : p < lo})
  /\ phase \in {"counted", "made", "swap"} =>
       new = Gallery!Whole([d \in Dumps |-> pass[d].version])

LEMMA VersionNumbers ==
  ASSUME TypeOK, NEW d \in Dumps
  PROVE  {latest[d], made[d], pass[d].version} \subseteq Versions /\ Versions \subseteq Nat
<1>1. pass[d] \in PassRecord
  BY DEF TypeOK
<1>2. MaxVersion \in Nat
  BY ImportAssumption
<1> QED BY <1>1, <1>2 DEF TypeOK, PassRecord, Versions

\* What a step of a pass does to it, and to the others.
LEMMA PassSteps ==
  ASSUME TypeOK, NEW d \in Dumps,
         \/ d = "geo_tags" /\ LoadGeoTags
         \/ d = "page" /\ LoadPage
         \/ d \in Metadata /\ LoadMetadata(d)
         \/ Interrupt(d)
  PROVE  /\ pass[d].at = "loading" /\ latest' = latest /\ made' = made
         /\ \/ pass'[d].at = "lost"
            \/ pass'[d].at = "done" /\ pass'[d].version = pass[d].version
            \/ pass'[d].at = "loading" /\ pass'[d].version = latest[d]
         /\ \A e \in Dumps \ {d} :
              \/ pass'[e] = pass[e]
              \/ pass'[e].at = "loading" /\ pass'[e].version = latest[e]
<1> USE DumpNames
<1>1. pass \in [Dumps -> PassRecord]
  BY DEF TypeOK
<1>0. /\ Done(d) \in [Dumps -> PassRecord]
      /\ Done(d)[d].at = "done" /\ Done(d)[d].version = pass[d].version
      /\ \A e \in Dumps \ {d} : Done(d)[e] = pass[e]
  BY <1>1, TypedPass DEF Done, Waiting
<1>2. CASE d = "geo_tags" /\ LoadGeoTags
  <2>1. pass[d].at = "loading" /\ latest' = latest /\ made' = made
    BY <1>2 DEF LoadGeoTags, Load, tables
  <2>2. pass' = Done(d) \/ pass' = [Done(d) EXCEPT !["page"] = Loading("page", 1)]
    BY <1>2 DEF LoadGeoTags
  <2>3. \A e \in Dumps \ {"page"} : pass'[e] = Done(d)[e]
    BY <1>0, <2>2
  <2>4. pass'["page"] = Done(d)["page"] \/ pass'["page"] = Loading("page", 1)
    BY <1>0, <2>2
  <2> QED BY <1>0, <1>2, <2>1, <2>3, <2>4 DEF Loading
<1>3. CASE d = "page" /\ LoadPage
  <2>1. pass[d].at = "loading" /\ latest' = latest /\ made' = made
    BY <1>3 DEF LoadPage, Load, tables
  <2>2. \/ pass' = Done(d)
        \/ pass' = [Done(d) EXCEPT !["image"] = Loading("image", 1),
                                   !["mediainfo"] = Loading("mediainfo", 1)]
    BY <1>3 DEF LoadPage
  <2>3. \A e \in {"geo_tags", "page"} : pass'[e] = Done(d)[e]
    BY <1>0, <2>2
  <2>4. \A e \in Metadata : pass'[e] = Done(d)[e] \/ pass'[e] = Loading(e, 1)
    BY <1>0, <2>2 DEF Metadata
  <2>5. \A e \in Dumps \ {d} : pass'[e] = pass[e] \/ pass'[e] = Loading(e, 1)
    BY <1>0, <1>3, <2>3, <2>4
  <2>6. pass'[d].at = "done" /\ pass'[d].version = pass[d].version
    BY <1>0, <1>3, <2>3
  <2>7. \A e \in Dumps : Loading(e, 1).at = "loading" /\ Loading(e, 1).version = latest[e]
    BY DEF Loading
  <2> HIDE DumpNames
  <2> QED BY <2>1, <2>5, <2>6, <2>7
<1>4. CASE d \in Metadata /\ LoadMetadata(d)
  <2>1. pass[d].at = "loading" /\ latest' = latest /\ made' = made /\ pass' = Done(d)
    BY <1>4 DEF LoadMetadata, Load, tables
  <2> QED BY <1>1, <2>1 DEF Done, Waiting
<1>5. CASE Interrupt(d)
  <2>1. pass[d].at = "loading" /\ latest' = latest /\ made' = made
    BY <1>5 DEF Interrupt, tables
  <2>2. \/ pass' = [pass EXCEPT ![d] = Loading(d, pass[d].attempt + 1)]
        \/ pass' = [pass EXCEPT ![d] = [Waiting EXCEPT !.at = "lost"]]
    BY <1>1, <1>5 DEF Interrupt
  <2> QED BY <1>1, <2>1, <2>2 DEF Waiting, Loading
<1> QED BY <1>2, <1>3, <1>4, <1>5

LEMMA FreshNext ==
  ASSUME Typed, Fresh, [Next]_vars
  PROVE  Fresh'
<1>1. TypeOK
  BY DEF Typed
<1>2. ASSUME UNCHANGED <<latest, pass, made>>
      PROVE  Fresh'
  BY <1>2 DEF Fresh
<1>3. CASE \/ UNCHANGED vars \/ Tick \/ Fault \/ Backstop
           \/ MakeNew \/ InsertRange \/ CheckCounts \/ MakeLive \/ DropOld \/ Tidy
  BY <1>2, <1>3 DEF vars, Tick, Fault, Backstop, MakeNew, InsertRange, CheckCounts, MakeLive,
                    DropOld, Tidy, tables
<1>4. ASSUME NEW d \in Dumps,
             \/ d = "geo_tags" /\ LoadGeoTags
             \/ d = "page" /\ LoadPage
             \/ d \in Metadata /\ LoadMetadata(d)
             \/ Interrupt(d)
      PROVE  Fresh'
  <2> SUFFICES ASSUME NEW e \in Dumps
               PROVE  /\ made'[e] <= latest'[e]
                      /\ pass'[e].at \in {"loading", "done"} =>
                           made'[e] <= pass'[e].version /\ pass'[e].version <= latest'[e]
    BY DEF Fresh
  <2>1. latest' = latest /\ made' = made
    BY <1>1, <1>4, PassSteps
  <2>2. \/ pass'[e] = pass[e]
        \/ pass'[e].at = "lost"
        \/ e = d /\ pass'[e].at = "done" /\ pass[e].at = "loading" /\ pass'[e].version = pass[e].version
        \/ pass'[e].at = "loading" /\ pass'[e].version = latest[e]
    BY <1>1, <1>4, PassSteps
  <2>3. {latest[e], made[e]} \subseteq Nat
    BY <1>1, VersionNumbers
  <2> QED BY <2>1, <2>2, <2>3 DEF Fresh
<1>5. CASE Start
  <2> SUFFICES ASSUME NEW e \in Dumps
               PROVE  /\ made'[e] <= latest'[e]
                      /\ pass'[e].at \in {"loading", "done"} =>
                           made'[e] <= pass'[e].version /\ pass'[e].version <= latest'[e]
    BY DEF Fresh
  <2>1. latest' = latest /\ made' = made
    BY <1>5 DEF Start
  <2>2. pass'[e].at = "waiting" \/ (pass'[e].at = "loading" /\ pass'[e].version = latest[e])
    BY <1>5, DumpNames DEF Start, Waiting
  <2>3. {latest[e], made[e]} \subseteq Nat
    BY <1>1, VersionNumbers
  <2> QED BY <2>1, <2>2, <2>3 DEF Fresh
<1>6. CASE ReportFailure \/ ReportSuccess \/ Die
  <2>1. Ends
    BY <1>6 DEF ReportFailure, ReportSuccess, Die
  <2> QED BY <2>1 DEF Ends, Waiting, Fresh
<1>7. CASE Swap
  <2>1. /\ latest' = latest /\ pass' = pass /\ made' = [d \in Dumps |-> pass[d].version]
        /\ \A d \in Dumps : pass[d].at = "done"
    BY <1>1, <1>7 DEF Swap, Running, TypeOK, Building
  <2>2. \A d \in Dumps : pass[d].version \in Nat
    BY <1>1, VersionNumbers
  <2> QED BY <2>1, <2>2 DEF Fresh
<1>8. ASSUME NEW d \in Dumps, Release(d)
      PROVE  Fresh'
  <2>1. /\ pass' = pass /\ made' = made
        /\ \A e \in Dumps : latest'[e] = latest[e] \/ latest'[e] = latest[e] + 1
    BY <1>1, <1>8 DEF Release, tables, TypeOK
  <2>2. \A e \in Dumps : {latest[e], made[e], pass[e].version} \subseteq Nat
    BY <1>1, VersionNumbers
  <2> QED BY <2>1, <2>2 DEF Fresh
<1> QED BY <1>3, <1>4, <1>5, <1>6, <1>7, <1>8, DumpNames DEF Next, Work


\* Each dump's bits are set by the pass over it, and reach all of its pages.
LEMMA BitsOfAPass ==
  ASSUME NEW d \in Dumps, NEW rows \in SUBSET Pages, SetBits(d, rows)
  PROVE  /\ d # "geo_tags" => seen' = seen
         /\ d # "page" => titleBits' = titleBits /\ keptBits' = keptBits
         /\ d = "geo_tags" => rows \subseteq seen'
         /\ d = "page" => rows \subseteq keptBits' /\ \A p \in rows : Hash[p] \in titleBits'
<1>1. Within(rows) = rows
  BY ImportAssumption DEF Within
<1> QED BY <1>1 DEF SetBits

LEMMA LoadStages ==
  ASSUME Typed, StagedWhole, phase = "passes", NEW d \in Dumps, Load(d)
  PROVE  /\ staged'[d] = RowsOf(d)
         /\ \A e \in Dumps \ {d} : staged'[e] = staged[e]
         /\ RowsOf(d) \in SUBSET Pages /\ SetBits(d, RowsOf(d))
<1>1. staged[d] = {}
  BY DEF Load, StagedWhole
<1>2. RowsOf(d) \in SUBSET Pages
  BY RowsArePages DEF Typed
<1> QED BY <1>1, <1>2 DEF Load, Typed, TypeOK

LEMMA WholeGeoTags ==
  ASSUME Typed, StagedWhole, LoadGeoTags, phase' = "passes"
  PROVE  StagedWhole'
<1> USE DumpNames
<1>1. phase = "passes" /\ Load("geo_tags") /\ pass["geo_tags"].at = "loading"
  BY DEF LoadGeoTags, Load
<1>2. \A d \in Dumps \ {"geo_tags"} : pass[d].at = "waiting" /\ staged[d] = {}
  BY <1>1 DEF Typed, Order, StagedWhole
<1>3. /\ staged'["geo_tags"] = Held("geo_tags") /\ RowsOf("geo_tags") = Held("geo_tags")
      /\ \A d \in Dumps \ {"geo_tags"} : staged'[d] = {}
  BY <1>1, <1>2, LoadStages DEF RowsOf, GeoTagRows, Held
<1>4. Held("geo_tags") \subseteq seen'
  BY <1>1, <1>3, LoadStages, BitsOfAPass
<1>5. /\ pass'["geo_tags"].at = "done" /\ pass'["geo_tags"].version = pass["geo_tags"].version
      /\ \A d \in Dumps \ {"geo_tags"} : pass'[d].at # "done"
  <2>0. pass \in [Dumps -> PassRecord]
    BY DEF Typed, TypeOK
  <2>1. pass'["geo_tags"].at = "done" /\ pass'["geo_tags"].version = pass["geo_tags"].version
    BY <2>0 DEF LoadGeoTags, Done, Waiting
  <2>2. \A d \in Dumps \ {"geo_tags"} : pass'[d] = pass[d] \/ pass'[d].at = "loading"
    BY PassSteps DEF Typed
  <2> QED BY <1>2, <2>1, <2>2
<1> QED BY <1>3, <1>4, <1>5 DEF StagedWhole, Held, Metadata

LEMMA WholePage ==
  ASSUME Typed, StagedWhole, LoadPage, phase' = "passes"
  PROVE  StagedWhole'
<1> USE DumpNames
<1>1. phase = "passes" /\ Load("page") /\ pass["page"].at = "loading"
  BY DEF LoadPage, Load
<1>2. /\ pass["geo_tags"].at = "done"
      /\ \A d \in Metadata : pass[d].at # "done" /\ staged[d] = {}
  BY <1>1 DEF Typed, Order, StagedWhole
<1>3. RowsOf("page") = PageKeepRows(Held("page")) /\ staged'["page"] = RowsOf("page")
  BY <1>1, LoadStages DEF RowsOf, Held
<1>4. \A d \in Dumps \ {"page"} : staged'[d] = staged[d]
  BY <1>1, LoadStages
<1>5. /\ seen' = seen /\ RowsOf("page") \subseteq keptBits'
      /\ \A p \in RowsOf("page") : Hash[p] \in titleBits'
  BY <1>1, LoadStages, BitsOfAPass
<1>6. /\ pass'["page"].at = "done" /\ pass'["page"].version = pass["page"].version
      /\ pass'["geo_tags"] = pass["geo_tags"]
      /\ \A d \in Metadata : pass'[d].at # "done"
  <2>0. pass \in [Dumps -> PassRecord]
    BY DEF Typed, TypeOK
  <2>1. pass'["page"].at = "done" /\ pass'["page"].version = pass["page"].version
    BY <2>0 DEF LoadPage, Done, Waiting
  <2>2. pass'["geo_tags"] = pass["geo_tags"]
    BY <2>0 DEF LoadPage, Done
  <2>3. \A d \in Dumps \ {"page"} : pass'[d] = pass[d] \/ pass'[d].at = "loading"
    BY PassSteps DEF Typed
  <2> QED BY <1>2, <2>1, <2>2, <2>3 DEF Metadata
<1>7. staged["geo_tags"] = Held("geo_tags") /\ Held("geo_tags") \subseteq seen
  BY <1>1, <1>2 DEF StagedWhole
<1>8. Held("geo_tags")' = Held("geo_tags") /\ Held("page")' = Held("page")
  BY <1>6 DEF Held
<1>9. PageKeepRows(Held("page"))' = PageKeepRows(Held("page"))
  BY <1>5, <1>8 DEF PageKeepRows
<1>10. /\ \A d \in Dumps : pass'[d].at # "done" => staged'[d] = {}
       /\ staged'["geo_tags"] = Held("geo_tags")' /\ Held("geo_tags")' \subseteq seen'
       /\ staged'["page"] = PageKeepRows(Held("page"))'
       /\ staged'["page"] \subseteq keptBits'
       /\ \A p \in staged'["page"] : Hash[p] \in titleBits'
  <2>1. \A d \in Metadata : staged'[d] = {}
    BY <1>2, <1>4 DEF Metadata
  <2> QED BY <1>2, <1>3, <1>4, <1>5, <1>6, <1>7, <1>8, <1>9, <2>1
<1> QED BY <1>6, <1>10 DEF StagedWhole


LEMMA WholeMetadata ==
  ASSUME Typed, StagedWhole, NEW d \in Metadata, LoadMetadata(d), phase' # "failed"
  PROVE  StagedWhole'
<1> USE DumpNames
<1>1. phase = "passes" /\ Load(d) /\ pass[d].at = "loading" /\ d \in Dumps
  <2>1. pass[d].at = "loading" /\ Load(d)
    BY DEF LoadMetadata, Load
  <2>2. phase # "failed"
    BY DEF LoadMetadata
  <2> QED BY <2>1, <2>2, LoadingPhase
<1>2. pass["geo_tags"].at = "done" /\ pass["page"].at = "done"
  BY <1>1 DEF Typed, Order
<1>3. /\ staged'[d] = RowsOf(d) /\ \A e \in Dumps \ {d} : staged'[e] = staged[e]
      /\ seen' = seen /\ titleBits' = titleBits /\ keptBits' = keptBits
  BY <1>1, LoadStages, BitsOfAPass DEF Metadata
<1>4. /\ pass'[d].at = "done" /\ pass'[d].version = pass[d].version
      /\ \A e \in Dumps \ {d} : pass'[e] = pass[e]
  BY <1>1 DEF LoadMetadata, Done, Waiting, Typed, TypeOK
<1>5. /\ staged["geo_tags"] = Held("geo_tags") /\ Held("geo_tags") \subseteq seen
      /\ staged["page"] = PageKeepRows(Held("page")) /\ staged["page"] \subseteq keptBits
      /\ \A p \in staged["page"] : Hash[p] \in titleBits
  BY <1>1, <1>2 DEF StagedWhole
<1>6. \A p \in staged["page"] : p \in RowsOf(d) <=> p \in Held(d)
  BY <1>5 DEF RowsOf, ImageMetaRows, MediaInfoRows, Held, Metadata
<1>7. \A e \in Dumps : Held(e)' = Held(e)
  BY <1>4 DEF Held
<1>8. staged'["geo_tags"] = staged["geo_tags"] /\ staged'["page"] = staged["page"]
  BY <1>3 DEF Metadata
<1>9. PageKeepRows(Held("page"))' = PageKeepRows(Held("page"))
  BY <1>3, <1>7 DEF PageKeepRows
<1>10. \A e \in Metadata : pass'[e].at = "done" =>
          \A p \in staged'["page"] : p \in staged'[e] <=> p \in Held(e)'
  BY <1>1, <1>3, <1>4, <1>6, <1>7, <1>8 DEF StagedWhole
<1>11. \A e \in Dumps : pass'[e].at # "done" => staged'[e] = {}
  BY <1>1, <1>3, <1>4 DEF StagedWhole
<1>12. /\ staged'["geo_tags"] = Held("geo_tags")' /\ Held("geo_tags")' \subseteq seen'
       /\ staged'["page"] = PageKeepRows(Held("page"))' /\ staged'["page"] \subseteq keptBits'
       /\ \A p \in staged'["page"] : Hash[p] \in titleBits'
  BY <1>3, <1>5, <1>7, <1>8, <1>9
<1> QED BY <1>10, <1>11, <1>12 DEF StagedWhole

LEMMA WholeInterrupt ==
  ASSUME Typed, StagedWhole, NEW d \in Dumps, Interrupt(d), phase' # "failed"
  PROVE  StagedWhole'
<1> USE DumpNames
<1>1. phase = "passes" /\ pass[d].at = "loading" /\ phase' = phase
  <2>1. pass[d].at = "loading" /\ phase' = phase
    BY DEF Interrupt
  <2> QED BY <2>1, LoadingPhase
<1>2. PICK read \in SUBSET RowsOf(d) :
        /\ SetBits(d, read)
        /\ staged' = [staged EXCEPT ![d] = {}]
        /\ pass' = [pass EXCEPT ![d] = Loading(d, pass[d].attempt + 1)]
  BY DEF Interrupt, Truncated, Typed, TypeOK
<1>3. /\ d # "geo_tags" => seen' = seen
      /\ d # "page" => titleBits' = titleBits /\ keptBits' = keptBits
  BY <1>2, RowsArePages, BitsOfAPass DEF Typed
<1>4. /\ pass'[d].at = "loading" /\ staged'[d] = {}
      /\ \A e \in Dumps \ {d} : pass'[e] = pass[e] /\ staged'[e] = staged[e]
  BY <1>2 DEF Loading, Typed, TypeOK
<1>5. /\ pass["page"].at # "waiting" => pass["geo_tags"].at = "done"
      /\ \A e \in Metadata : pass[e].at # "waiting" => pass["page"].at = "done"
  BY DEF Typed, Order
<1>6. \A e \in Dumps \ {d} : Held(e)' = Held(e)
  BY <1>4 DEF Held
<1>7. \A e \in Dumps : pass'[e].at # "done" => staged'[e] = {}
  BY <1>1, <1>4 DEF StagedWhole
<1>8. pass'["geo_tags"].at = "done" =>
        staged'["geo_tags"] = Held("geo_tags")' /\ Held("geo_tags")' \subseteq seen'
  BY <1>1, <1>3, <1>4, <1>6 DEF StagedWhole
<1>9. ASSUME pass'["page"].at = "done"
      PROVE  /\ d \in Metadata /\ pass["page"].at = "done"
             /\ staged'["page"] = staged["page"]
             /\ staged'["page"] = PageKeepRows(Held("page"))' /\ staged'["page"] \subseteq keptBits'
             /\ \A p \in staged'["page"] : Hash[p] \in titleBits'
  <2>1. d # "page" /\ pass["page"].at = "done"
    BY <1>4, <1>9
  <2>2. d # "geo_tags"
    BY <1>1, <1>5, <2>1
  <2>3. PageKeepRows(Held("page"))' = PageKeepRows(Held("page"))
    BY <1>3, <1>6, <2>1, <2>2 DEF PageKeepRows
  <2>4. /\ staged["page"] = PageKeepRows(Held("page")) /\ staged["page"] \subseteq keptBits
        /\ \A p \in staged["page"] : Hash[p] \in titleBits
    BY <1>1, <2>1 DEF StagedWhole
  <2>5. staged'["page"] = staged["page"]
    BY <1>4, <2>1
  <2> QED BY <1>3, <2>1, <2>2, <2>3, <2>4, <2>5
<1>10. ASSUME NEW e \in Metadata, pass'[e].at = "done"
       PROVE  \A p \in staged'["page"] : p \in staged'[e] <=> p \in Held(e)'
  <2>1. e # d /\ pass[e].at = "done" /\ pass["page"].at = "done"
    BY <1>4, <1>5, <1>10
  <2>2. staged'["page"] = staged["page"]
    BY <1>1, <1>4, <2>1
  <2>3. staged'[e] = staged[e] /\ Held(e)' = Held(e)
    BY <1>4, <1>6, <2>1
  <2> QED BY <1>1, <2>1, <2>2, <2>3 DEF StagedWhole
<1> QED BY <1>7, <1>8, <1>9, <1>10 DEF StagedWhole


LEMMA WholeNext ==
  ASSUME Typed, StagedWhole, [Next]_vars
  PROVE  StagedWhole'
<1>1. ASSUME UNCHANGED <<pass, staged, seen, titleBits, keptBits>>,
             phase' \in {"passes", "build", "fill"} => phase \in {"passes", "build", "fill"}
      PROVE  StagedWhole'
  BY <1>1 DEF StagedWhole, Held, PageKeepRows
<1>2. ASSUME phase' \notin {"passes", "build", "fill"}
      PROVE  StagedWhole'
  BY <1>2 DEF StagedWhole
<1>3. CASE UNCHANGED vars \/ Tick \/ Backstop \/ \E d \in Dumps : Release(d)
  BY <1>1, <1>3 DEF vars, bits, Tick, Backstop, Release
<1>4. CASE Fault \/ ReportFailure \/ ReportSuccess \/ Die
  BY <1>2, <1>4 DEF Fault, ReportFailure, ReportSuccess, Die, Ends
<1>5. CASE CheckCounts \/ MakeLive \/ DropOld \/ Swap \/ Tidy
  BY <1>2, <1>5 DEF CheckCounts, MakeLive, DropOld, Swap, Tidy, AfterTidy
<1>6. CASE MakeNew \/ InsertRange
  BY <1>1, <1>6 DEF MakeNew, InsertRange, Running, bits
<1>7. CASE Start
  <2>1. /\ \A d \in Dumps : staged'[d] = {}
        /\ \A d \in Dumps : pass'[d].at # "done"
    BY <1>7, DumpNames DEF Start, Waiting
  <2> QED BY <2>1, DumpNames DEF StagedWhole
<1>8. CASE LoadGeoTags
  <2>1. phase' \in {"passes", "failed"}
    BY <1>8, DumpNames, LoadingPhase DEF LoadGeoTags, Load
  <2> QED BY <1>2, <1>8, <2>1, WholeGeoTags
<1>9. CASE LoadPage
  <2>1. phase' \in {"passes", "failed"}
    BY <1>9, DumpNames, LoadingPhase DEF LoadPage, Load
  <2> QED BY <1>2, <1>9, <2>1, WholePage
<1>10. CASE \E d \in Metadata : LoadMetadata(d)
  <2>1. CASE phase' = "failed"
    BY <1>2, <2>1
  <2>2. CASE phase' # "failed"
    BY <1>10, <2>2, WholeMetadata
  <2> QED BY <2>1, <2>2
<1>11. CASE \E d \in Dumps : Interrupt(d)
  <2>1. CASE phase' = "failed"
    BY <1>2, <2>1
  <2>2. CASE phase' # "failed"
    BY <1>11, <2>2, WholeInterrupt
  <2> QED BY <2>1, <2>2
<1> QED BY <1>3, <1>4, <1>5, <1>6, <1>7, <1>8, <1>9, <1>10, <1>11 DEF Next, Work

\* The rows of everything staged are the rows the gallery was promised.
LEMMA RowsAreWhole ==
  ASSUME Typed, StagedWhole, phase = "fill"
  PROVE  Rows(staged["geo_tags"] \cap staged["page"])
           = Gallery!Whole([d \in Dumps |-> pass[d].version])
<1> USE DumpNames
<1>1. \A d \in Dumps : pass[d].at = "done"
  BY DEF Typed, TypeOK, Building
<1>2. /\ staged["geo_tags"] = Held("geo_tags") /\ Held("geo_tags") \subseteq seen
      /\ staged["page"] = PageKeepRows(Held("page"))
      /\ \A d \in Metadata : \A p \in staged["page"] : p \in staged[d] <=> p \in Held(d)
  BY <1>1 DEF StagedWhole
<1> DEFINE ids == staged["geo_tags"] \cap staged["page"]
           vs  == [d \in Dumps |-> pass[d].version]
<1>3. ids = Held("geo_tags") \cap Held("page") \cap Photos
  BY <1>2 DEF PageKeepRows
<1>4. \A d \in Dumps : Holds[d][vs[d]] = Held(d)
  BY DEF Held
<1>5. \A p \in ids : RowOf(p, staged["image"], staged["mediainfo"])
                       = Gallery!RowOf(p, Held("image"), Held("mediainfo"))
  BY <1>2 DEF RowOf, Gallery!RowOf, Metadata
<1>6. Gallery!Whole(vs) = {Gallery!RowOf(p, Held("image"), Held("mediainfo")) : p \in ids}
  BY <1>3, <1>4 DEF Gallery!Whole, Metadata
<1> HIDE DEF ids, vs
<1>7. Rows(ids) = {Gallery!RowOf(p, Held("image"), Held("mediainfo")) : p \in ids}
  BY <1>5 DEF Rows
<1>8. Rows(ids) = Gallery!Whole(vs)
  BY <1>6, <1>7
<1> QED BY <1>8 DEF ids, vs

LEMMA FilledNext ==
  ASSUME Typed, StagedWhole, Filled, [Next]_vars
  PROVE  Filled'
<1>1. ASSUME phase' \notin {"fill", "counted", "made", "swap"}
      PROVE  Filled'
  BY <1>1 DEF Filled
<1>2. ASSUME UNCHANGED <<phase, pass, staged, new, lo>>
      PROVE  Filled'
  BY <1>2 DEF Filled, Rows, Gallery!Whole, Gallery!RowOf
<1>3. CASE UNCHANGED vars \/ Tick \/ Backstop \/ \E d \in Dumps : Release(d)
  BY <1>2, <1>3 DEF vars, tables, Tick, Backstop, Release
<1>4. CASE Start \/ Fault \/ ReportFailure \/ ReportSuccess \/ Die \/ Swap \/ Tidy
  BY <1>1, <1>4 DEF Start, Fault, ReportFailure, ReportSuccess, Die, Ends, Swap, Tidy, AfterTidy
<1>5. CASE \/ LoadGeoTags \/ LoadPage \/ (\E d \in Metadata : LoadMetadata(d))
           \/ \E d \in Dumps : Interrupt(d)
  <2>1. phase' \in {"passes", "build", "failed"}
    BY <1>5, PassesInOrder, DumpNames
  <2> QED BY <1>1, <2>1
<1>6. CASE MakeNew
  <2>1. /\ phase' = "fill" /\ new' = {} /\ lo' = Lowest(staged["geo_tags"])
        /\ staged' = staged /\ staged["geo_tags"] \in SUBSET Nat
    BY <1>6, DumpNames, ImportAssumption DEF MakeNew, Typed, TypeOK
  <2>2. pass["geo_tags"].at = "done" /\ staged["geo_tags"] # {}
    BY <1>6, DumpNames DEF MakeNew, Running, Typed, TypeOK, Building, Ready
  <2>3. lo' \in Nat /\ \A q \in staged["geo_tags"] : lo' <= q
    BY <2>1, <2>2, LowestRow
  <2>4. {p \in staged["geo_tags"] \cap staged["page"] : p < lo'} = {}
    BY <2>1, <2>3
  <2> QED BY <2>1, <2>4 DEF Filled, Rows
<1>7. CASE InsertRange
  <2>1. /\ phase = "fill" /\ phase' = "fill" /\ staged' = staged /\ lo' = lo + Batch
        /\ new' = new \cup Rows(InRange \cap staged["page"])
    BY <1>7 DEF InsertRange, Running, Advanced, Rows
  <2>2. staged["geo_tags"] \in SUBSET Nat /\ lo \in Nat /\ Batch \in Nat
    BY DumpNames, ImportAssumption DEF Typed, TypeOK
  <2> DEFINE below(n) == {p \in staged["geo_tags"] \cap staged["page"] : p < n}
  <2>3. below(lo + Batch) = below(lo) \cup (InRange \cap staged["page"])
    BY <2>2 DEF InRange
  <2>4. \A a, b : Rows(a \cup b) = Rows(a) \cup Rows(b)
    BY DEF Rows
  <2>5. new' = Rows(below(lo + Batch))
    BY <2>1, <2>3, <2>4 DEF Filled
  <2> QED BY <2>1, <2>5 DEF Filled, Rows
<1>8. CASE CheckCounts
  <2>1. CASE phase' = "failed"
    BY <1>1, <2>1
  <2>2. CASE phase' # "failed"
    <3>1. phase = "fill" /\ phase' = "counted" /\ ~RangesLeft /\ new' = new /\ pass' = pass
      BY <1>8, <2>2 DEF CheckCounts, Running, tables
    <3>2. staged["geo_tags"] \in SUBSET Nat /\ lo \in Nat
      BY DumpNames, ImportAssumption DEF Typed, TypeOK
    <3>3. {p \in staged["geo_tags"] \cap staged["page"] : p < lo}
            = staged["geo_tags"] \cap staged["page"]
      BY <3>1, <3>2 DEF RangesLeft
    <3>4. new = Gallery!Whole([d \in Dumps |-> pass[d].version])
      BY <3>1, <3>3, RowsAreWhole DEF Filled
    <3> QED BY <3>1, <3>4 DEF Filled, Gallery!Whole, Gallery!RowOf
  <2> QED BY <2>1, <2>2
<1>9. CASE MakeLive \/ DropOld
  <2>1. /\ phase \in {"counted", "made", "swap"} /\ phase' \in {"counted", "made", "swap"}
        /\ new' = new /\ pass' = pass
    BY <1>9 DEF MakeLive, DropOld, Running
  <2> QED BY <2>1 DEF Filled, Gallery!Whole, Gallery!RowOf
<1> QED BY <1>3, <1>4, <1>5, <1>6, <1>7, <1>8, <1>9 DEF Next, Work


\* Each step of the import is the release of a dump, the publication of four
\* whole dumps, or hidden from the gallery.
LEMMA StepsPublish ==
  ASSUME Typed, Fresh, Filled, [Next]_vars
  PROVE  Gallery!Next \/ UNCHANGED <<latest, IF live = None THEN {} ELSE live, made>>
<1> DEFINE rows == IF live = None THEN {} ELSE live
<1>1. CASE \E d \in Dumps : Release(d)
  <2>1. PICK d \in Dumps : Release(d)
    BY <1>1
  <2>2. Gallery!Release(d)
    BY <2>1 DEF Release, Gallery!Release, tables
  <2> QED BY <2>2 DEF Gallery!Next
<1>2. CASE Swap
  <2>1. /\ phase = "swap" /\ latest' = latest /\ live' = new
        /\ made' = [d \in Dumps |-> pass[d].version]
    BY <1>2 DEF Swap, Running
  <2>2. rows' = new /\ new = Gallery!Whole(made')
    BY <2>1 DEF Typed, Ready, Filled
  <2>3. \A d \in Dumps : pass[d].at = "done"
    BY <2>1 DEF Typed, TypeOK, Building
  <2>4. made' \in [Dumps -> Versions]
    BY <2>1, VersionNumbers DEF Typed
  <2>5. \A d \in Dumps : made[d] <= made'[d] /\ made'[d] <= latest[d]
    BY <2>1, <2>3 DEF Fresh
  <2>6. Gallery!Publish
    BY <2>1, <2>2, <2>4, <2>5 DEF Gallery!Publish, Gallery!Versions, Versions
  <2> QED BY <2>6 DEF Gallery!Next
<1>3. CASE MakeLive
  BY <1>3 DEF MakeLive
<1>4. CASE \/ LoadGeoTags \/ LoadPage \/ (\E d \in Metadata : LoadMetadata(d))
           \/ \E d \in Dumps : Interrupt(d)
  <2>1. UNCHANGED <<latest, live, made>>
    BY <1>4 DEF LoadGeoTags, LoadPage, LoadMetadata, Interrupt, Load, tables
  <2> QED BY <2>1
<1>5. CASE \/ UNCHANGED vars \/ Start \/ Tick \/ Fault \/ Backstop
           \/ ReportFailure \/ ReportSuccess \/ Die
           \/ MakeNew \/ InsertRange \/ CheckCounts \/ DropOld \/ Tidy
  <2>1. UNCHANGED <<latest, live, made>>
    BY <1>5 DEF vars, tables, Start, Tick, Fault, Backstop, ReportFailure, ReportSuccess, Die,
                Ends, MakeNew, InsertRange, CheckCounts, DropOld, Tidy
  <2> QED BY <2>1
<1> QED BY <1>1, <1>2, <1>3, <1>4, <1>5 DEF Next, Work

\* The import implements what the gallery was promised: the table it reads is
\* replaced in one step, by the photos of four dumps each read whole and none
\* older than before, whatever was interrupted, retried or left behind.
THEOREM Published == Spec => PublishedWhole
<1>1. Init => Gallery!Init /\ Fresh /\ StagedWhole /\ Filled
  BY ImportAssumption
     DEF Init, Gallery!Init, Fresh, StagedWhole, Filled, Waiting, Versions
<1>2. Typed /\ Fresh /\ [Next]_vars => Fresh'
  BY FreshNext
<1>3. Typed /\ StagedWhole /\ [Next]_vars => StagedWhole'
  BY WholeNext
<1>4. Typed /\ StagedWhole /\ Filled /\ [Next]_vars => Filled'
  BY FilledNext
<1>5. Typed /\ Fresh /\ Filled /\ [Next]_vars =>
        [Gallery!Next]_<<latest, IF live = None THEN {} ELSE live, made>>
  BY StepsPublish
<1> QED
  BY <1>1, <1>2, <1>3, <1>4, <1>5, TypedInitially, TypedNext, PTL
     DEF Spec, PublishedWhole, Gallery!Spec

-------------------------------------------------------------------------------
(* The harvest of a calendar *)

Tables == [Keys -> Entries \cup {Nothing}]
Steps == {"mark", "post", "delete", "exit", "end", "red", "green"}
RunRecord ==
  [at: Steps, complete: BOOLEAN, listed: SUBSET Keys, body: Tables,
   duplicates: SUBSET Keys, todo: SUBSET Keys, gone: SUBSET Keys,
   failed: BOOLEAN, statsFailed: BOOLEAN]

HarvestTyped ==
  /\ calendar \in Tables /\ table \in Tables /\ byHand \subseteq Keys
  /\ run = Idle \/ run \in RunRecord

\* What the run read of the calendar is what it lists, unless somebody changed it.
ReadHolds ==
  run.at # "idle" =>
    \A k \in Keys \ touched :
      /\ k \in run.listed <=> calendar[k] # Nothing
      /\ run.body[k] \in {Nothing, calendar[k]}

\* The same for what was entered by hand.
MarkedHolds ==
  run.at \in {"post", "delete", "exit", "green"} =>
    \A k \in Keys \ touched : k \in run.duplicates <=> k \in Bodies /\ k \in byHand

Synced(k) ==
  \/ table[k] = IF k \in byHand THEN Nothing ELSE calendar[k]
  \/ k \in run.listed /\ run.body[k] = Nothing

\* As long as no request failed, what the run is through with is as it should be.
WorkHolds ==
  /\ run.at = "post" /\ ~run.statsFailed =>
       \A k \in (Bodies \ run.duplicates) \ (run.todo \cup touched) : table[k] = run.body[k]
  /\ run.at = "delete" /\ ~run.statsFailed =>
       \A k \in Keys \ (run.gone \cup touched) : Synced(k)
  /\ run.at \in {"exit", "green"} /\ run.complete /\ ~run.statsFailed =>
       \A k \in Keys \ touched : Synced(k)

OnlyGone == run.at = "delete" => run.gone \cap Kept = {}

RunEnds ==
  /\ run.at = "end" => run.failed
  /\ run.at = "green" => ~run.statsFailed

Harvested == HarvestTyped /\ ReadHolds /\ MarkedHolds /\ WorkHolds /\ OnlyGone /\ RunEnds


LEMMA RunsAreRecords ==
  ASSUME HarvestTyped, run.at # "idle"
  PROVE  run \in RunRecord
BY DEF HarvestTyped, Idle

\* What others change, they touch.
LEMMA OthersKeep ==
  ASSUME Harvested, NEW k \in Keys,
         ListChanges(k) \/ HandEntry(k) \/ EventChanges(k)
  PROVE  Harvested'
<1>1. /\ run' = run /\ touched' = touched \cup {k}
      /\ run.at \notin {"idle", "red", "green"}
  BY DEF ListChanges, HandEntry, EventChanges, Meddle
<1>2. /\ \A j \in Keys \ {k} :
           /\ calendar'[j] = calendar[j] /\ table'[j] = table[j]
           /\ j \in byHand' <=> j \in byHand
      /\ calendar' \in Tables /\ table' \in Tables /\ byHand' \subseteq Keys
  BY DEF ListChanges, HandEntry, EventChanges, Harvested, HarvestTyped, Tables
<1>3. HarvestTyped' /\ RunEnds'
  BY <1>1, <1>2 DEF Harvested, HarvestTyped, RunEnds
<1>4. ReadHolds'
  BY <1>1, <1>2 DEF Harvested, ReadHolds
<1>5. MarkedHolds'
  BY <1>1, <1>2 DEF Harvested, MarkedHolds, Bodies
<1>6. \A j \in Keys \ {k} : Synced(j) => Synced(j)'
  BY <1>1, <1>2 DEF Synced
<1>7. Bodies' = Bodies /\ Bodies \subseteq Keys
  BY <1>1 DEF Bodies, Present
<1>8. WorkHolds'
  BY <1>1, <1>2, <1>6, <1>7 DEF Harvested, WorkHolds
<1>9. OnlyGone'
  BY <1>1 DEF Harvested, OnlyGone, Kept
<1> QED BY <1>3, <1>4, <1>5, <1>8, <1>9 DEF Harvested

LEMMA ReadKeeps ==
  ASSUME Harvested, Read
  PROVE  Harvested'
<1>1. PICK complete \in BOOLEAN, failing \in SUBSET Present(calendar),
           unplaced \in SUBSET Present(calendar) :
        run' = [at |-> "mark", complete |-> complete, listed |-> Present(calendar),
                body |-> [k \in Keys |-> IF k \in failing \cup unplaced THEN Nothing ELSE calendar[k]],
                duplicates |-> {}, todo |-> {}, gone |-> {},
                failed |-> failing # {}, statsFailed |-> FALSE]
  BY ZenonT(30) DEF Read
<1>2. UNCHANGED <<calendar, table, byHand, touched>>
  BY DEF Read
<1>3. Present(calendar) \subseteq Keys
  BY DEF Present
<1>4. run' \in RunRecord
  <2>1. [k \in Keys |-> IF k \in failing \cup unplaced THEN Nothing ELSE calendar[k]] \in Tables
    BY DEF Harvested, HarvestTyped, Tables
  <2>2. (failing # {}) \in BOOLEAN
    OBVIOUS
  <2> QED BY <1>1, <1>3, <2>1, <2>2 DEF RunRecord, Steps
<1>5. HarvestTyped' /\ RunEnds'
  BY <1>1, <1>2, <1>4 DEF Harvested, HarvestTyped, RunEnds
<1>6. ReadHolds'
  BY <1>1, <1>2 DEF ReadHolds, Present
<1>7. MarkedHolds' /\ WorkHolds' /\ OnlyGone'
  BY <1>1 DEF MarkedHolds, WorkHolds, OnlyGone
<1> QED BY <1>5, <1>6, <1>7 DEF Harvested

LEMMA MarkKeeps ==
  ASSUME Harvested, MarkDuplicates
  PROVE  Harvested'
<1>1. /\ run.at = "mark" /\ UNCHANGED <<calendar, table, byHand, touched>>
      /\ run \in RunRecord
  BY RunsAreRecords DEF MarkDuplicates, Others, Harvested
<1>2. Bodies \subseteq Keys
  BY DEF Bodies, Present
<1>3. CASE Throws
  <2>1. /\ run'.at = "end" /\ run'.failed /\ run' \in RunRecord
        /\ run'.listed = run.listed /\ run'.body = run.body
    BY <1>1, <1>3 DEF Throws, RunRecord, Steps
  <2> QED BY <1>1, <2>1 DEF Harvested, HarvestTyped, ReadHolds, MarkedHolds, WorkHolds, OnlyGone, RunEnds
<1>4. CASE run' = [run EXCEPT !.at = "post", !.duplicates = Bodies \cap byHand,
                              !.todo = Bodies \ byHand]
  <2>1. /\ run'.at = "post" /\ run' \in RunRecord
        /\ run'.listed = run.listed /\ run'.body = run.body
        /\ run'.duplicates = Bodies \cap byHand /\ run'.todo = Bodies \ byHand
    BY <1>1, <1>2, <1>4 DEF RunRecord, Steps
  <2>2. Bodies' = Bodies
    BY <2>1 DEF Bodies, Present
  <2>3. MarkedHolds' /\ WorkHolds'
    BY <1>1, <2>1, <2>2 DEF MarkedHolds, WorkHolds
  <2> QED BY <1>1, <2>1, <2>3 DEF Harvested, HarvestTyped, ReadHolds, OnlyGone, RunEnds
<1> QED BY <1>3, <1>4 DEF MarkDuplicates

LEMMA PostKeeps ==
  ASSUME Harvested, NEW k \in Keys, Post(k)
  PROVE  Harvested'
<1>1. /\ run.at = "post" /\ k \in run.todo /\ UNCHANGED <<calendar, byHand, touched>>
      /\ run \in RunRecord
  BY RunsAreRecords DEF Post, Others, Harvested
<1>2. /\ run'.at = "post" /\ run' \in RunRecord
      /\ run'.listed = run.listed /\ run'.body = run.body
      /\ run'.duplicates = run.duplicates /\ run'.todo = run.todo \ {k}
      /\ run'.statsFailed \/ table' = [table EXCEPT ![k] = run.body[k]]
      /\ run.statsFailed => run'.statsFailed
  BY <1>1 DEF Post, RunRecord, Steps
<1>3. table' \in {table, [table EXCEPT ![k] = run.body[k]]}
  BY DEF Post
<1>4. table \in Tables /\ run.body \in Tables
  BY <1>1 DEF Harvested, HarvestTyped, RunRecord
<1>5. table' \in Tables
  BY <1>3, <1>4 DEF Tables
<1>6. Bodies' = Bodies /\ Bodies \subseteq Keys
  BY <1>2 DEF Bodies, Present
<1>7. WorkHolds'
  <2>1. SUFFICES ASSUME ~run'.statsFailed,
                        NEW j \in (Bodies \ run.duplicates) \ ((run.todo \ {k}) \cup touched)
                 PROVE  table'[j] = run.body[j]
    BY <1>1, <1>2, <1>6 DEF WorkHolds
  <2>2. table' = [table EXCEPT ![k] = run.body[k]] /\ ~run.statsFailed
    BY <1>1, <1>2, <2>1 DEF RunRecord
  <2>3. j \in Keys /\ j # k => table[j] = run.body[j]
    BY <1>1, <2>2 DEF Harvested, WorkHolds
  <2> QED BY <1>4, <1>6, <2>2, <2>3 DEF Tables
<1>8. HarvestTyped' /\ RunEnds' /\ OnlyGone'
  BY <1>1, <1>2, <1>5 DEF Harvested, HarvestTyped, RunEnds, OnlyGone
<1>9. ReadHolds' /\ MarkedHolds'
  BY <1>1, <1>2, <1>6 DEF Harvested, ReadHolds, MarkedHolds
<1> QED BY <1>7, <1>8, <1>9 DEF Harvested


LEMMA FindGoneKeeps ==
  ASSUME Harvested, FindGone
  PROVE  Harvested'
<1>1. /\ run.at = "post" /\ run.todo = {} /\ UNCHANGED <<calendar, table, byHand, touched>>
      /\ run \in RunRecord
  BY RunsAreRecords DEF FindGone, Others, Harvested
<1>2. Bodies \subseteq Keys
  BY DEF Bodies, Present
<1>3. CASE Throws
  <2>1. /\ run'.at = "end" /\ run'.failed /\ run' \in RunRecord
        /\ run'.listed = run.listed /\ run'.body = run.body
    BY <1>1, <1>3 DEF Throws, RunRecord, Steps
  <2> QED BY <1>1, <2>1 DEF Harvested, HarvestTyped, ReadHolds, MarkedHolds, WorkHolds, OnlyGone, RunEnds
<1>4. CASE ~run.complete /\ Goes("exit")
  <2>1. /\ run'.at = "exit" /\ run' \in RunRecord /\ ~run'.complete
        /\ run'.listed = run.listed /\ run'.body = run.body
        /\ run'.duplicates = run.duplicates
    BY <1>1, <1>4 DEF Goes, RunRecord, Steps
  <2>2. Bodies' = Bodies
    BY <2>1 DEF Bodies, Present
  <2> QED BY <1>1, <2>1, <2>2 DEF Harvested, HarvestTyped, ReadHolds, MarkedHolds, WorkHolds, OnlyGone, RunEnds
<1>5. CASE run' = [run EXCEPT !.at = "delete", !.gone = Present(table) \ Kept]
  <2>1. /\ run'.at = "delete" /\ run' \in RunRecord
        /\ run'.listed = run.listed /\ run'.body = run.body
        /\ run'.duplicates = run.duplicates /\ run'.statsFailed = run.statsFailed
        /\ run'.gone = Present(table) \ Kept
    BY <1>1, <1>5 DEF RunRecord, Steps, Present
  <2>2. Bodies' = Bodies /\ Kept' = Kept
    BY <2>1 DEF Bodies, Present, Kept
  <2>3. ASSUME ~run.statsFailed, NEW k \in Keys \ touched, k \notin run'.gone
        PROVE  Synced(k)
    <3>1. table[k] = Nothing \/ k \in Kept
      BY <2>1, <2>3 DEF Present
    <3>2. /\ k \in run.listed <=> calendar[k] # Nothing
          /\ run.body[k] \in {Nothing, calendar[k]}
          /\ k \in run.duplicates <=> k \in Bodies /\ k \in byHand
          /\ k \in Bodies <=> run.body[k] # Nothing
      BY <1>1, <2>3 DEF Harvested, ReadHolds, MarkedHolds, Bodies, Present
    <3>3. k \in Bodies \ run.duplicates => table[k] = run.body[k]
      BY <1>1, <2>3 DEF Harvested, WorkHolds
    <3> QED BY <3>1, <3>2, <3>3 DEF Synced, Kept
  <2>4. WorkHolds'
    <3>1. \A k : Synced(k)' <=> Synced(k)
      BY <1>1, <2>1 DEF Synced
    <3> QED BY <1>1, <2>1, <2>3, <3>1 DEF WorkHolds
  <2>5. OnlyGone'
    BY <2>1, <2>2 DEF OnlyGone
  <2> QED BY <1>1, <2>1, <2>2, <2>4, <2>5 DEF Harvested, HarvestTyped, ReadHolds, MarkedHolds, RunEnds
<1> QED BY <1>3, <1>4, <1>5 DEF FindGone

LEMMA DeleteKeeps ==
  ASSUME Harvested, NEW k \in Keys, Delete(k)
  PROVE  Harvested'
<1>1. /\ run.at = "delete" /\ k \in run.gone /\ UNCHANGED <<calendar, byHand, touched>>
      /\ run \in RunRecord
  BY RunsAreRecords DEF Delete, Others, Harvested
<1>2. /\ run'.at = "delete" /\ run' \in RunRecord
      /\ run'.listed = run.listed /\ run'.body = run.body
      /\ run'.duplicates = run.duplicates /\ run'.gone = run.gone \ {k}
      /\ run'.statsFailed \/ table' = [table EXCEPT ![k] = Nothing]
      /\ run.statsFailed => run'.statsFailed
  BY <1>1 DEF Delete, RunRecord, Steps
<1>3. table' \in {table, [table EXCEPT ![k] = Nothing]} /\ table \in Tables
  BY DEF Delete, Harvested, HarvestTyped
<1>4. table' \in Tables
  BY <1>3 DEF Tables
<1>5. Bodies' = Bodies /\ Kept' = Kept
  BY <1>2 DEF Bodies, Present, Kept
<1>6. OnlyGone'
  BY <1>1, <1>2, <1>5 DEF Harvested, OnlyGone
<1>7. WorkHolds'
  <2>1. SUFFICES ASSUME ~run'.statsFailed, NEW j \in Keys \ ((run.gone \ {k}) \cup touched)
                 PROVE  Synced(j)'
    BY <1>1, <1>2 DEF WorkHolds
  <2>2. table' = [table EXCEPT ![k] = Nothing] /\ ~run.statsFailed
    BY <1>1, <1>2, <2>1 DEF RunRecord
  <2>3. CASE j # k
    <3>1. Synced(j)
      BY <1>1, <2>1, <2>2, <2>3 DEF Harvested, WorkHolds
    <3> QED BY <1>1, <1>2, <1>3, <2>2, <2>3, <3>1 DEF Synced, Tables
  <2>4. CASE j = k
    <3>1. k \notin Kept
      BY <1>1 DEF Harvested, OnlyGone
    <3>2. k \notin run.listed \/ k \in byHand
      BY <1>1, <2>1, <2>4, <3>1 DEF Kept, Harvested, MarkedHolds
    <3>3. k \notin run.listed => calendar[k] = Nothing
      BY <1>1, <2>1, <2>4 DEF Harvested, ReadHolds
    <3>4. table'[k] = Nothing
      BY <1>3, <2>2 DEF Tables
    <3> QED BY <1>1, <2>4, <3>2, <3>3, <3>4 DEF Synced
  <2> QED BY <2>3, <2>4
<1> QED BY <1>1, <1>2, <1>4, <1>5, <1>6, <1>7
        DEF Harvested, HarvestTyped, ReadHolds, MarkedHolds, RunEnds

LEMMA DeletedKeeps ==
  ASSUME Harvested, Deleted
  PROVE  Harvested'
<1>1. /\ run.at = "delete" /\ run.gone = {} /\ UNCHANGED <<calendar, table, byHand, touched>>
      /\ run \in RunRecord
  BY RunsAreRecords DEF Deleted, Others, Harvested
<1>2. /\ run'.at = "exit" /\ run' \in RunRecord
      /\ run'.listed = run.listed /\ run'.body = run.body
      /\ run'.duplicates = run.duplicates /\ run'.statsFailed = run.statsFailed
  BY <1>1 DEF Deleted, Goes, RunRecord, Steps
<1>3. Bodies' = Bodies /\ \A k : Synced(k)' <=> Synced(k)
  BY <1>1, <1>2 DEF Bodies, Present, Synced
<1>4. WorkHolds'
  BY <1>1, <1>2, <1>3 DEF Harvested, WorkHolds
<1> QED BY <1>1, <1>2, <1>3, <1>4 DEF Harvested, HarvestTyped, ReadHolds, MarkedHolds, OnlyGone, RunEnds

LEMMA ExitKeeps ==
  ASSUME Harvested, ExitCode
  PROVE  Harvested'
<1>1. /\ run.at \in {"exit", "end"} /\ UNCHANGED <<calendar, table, byHand, touched>>
      /\ run \in RunRecord
  BY RunsAreRecords DEF ExitCode, Others, Harvested
<1>2. /\ run'.at \in {"red", "green"} /\ run' \in RunRecord
      /\ run'.at = "green" => ~run.failed /\ ~run.statsFailed
      /\ run'.listed = run.listed /\ run'.body = run.body /\ run'.complete = run.complete
      /\ run'.duplicates = run.duplicates /\ run'.statsFailed = run.statsFailed
  BY <1>1 DEF ExitCode, Failed, RunRecord, Steps
<1>3. run'.at = "green" => run.at = "exit"
  BY <1>1, <1>2 DEF Harvested, RunEnds
<1>4. Bodies' = Bodies /\ \A k : Synced(k)' <=> Synced(k)
  BY <1>1, <1>2 DEF Bodies, Present, Synced
<1>5. WorkHolds' /\ MarkedHolds'
  BY <1>1, <1>2, <1>3, <1>4 DEF Harvested, WorkHolds, MarkedHolds
<1> QED BY <1>1, <1>2, <1>5 DEF Harvested, HarvestTyped, ReadHolds, OnlyGone, RunEnds

LEMMA HarvestedNext == Harvested /\ [HarvestNext]_harvestVars => Harvested'
<1> SUFFICES ASSUME Harvested, [HarvestNext]_harvestVars PROVE Harvested'
  OBVIOUS
<1>1. CASE UNCHANGED harvestVars
  BY <1>1 DEF harvestVars, Harvested, HarvestTyped, ReadHolds, MarkedHolds, WorkHolds, Synced, OnlyGone, RunEnds,
              Bodies, Present, Kept
<1>2. CASE \E k \in Keys : ListChanges(k) \/ HandEntry(k) \/ EventChanges(k)
  BY <1>2, OthersKeep
<1>3. CASE \E k \in Keys : Post(k) \/ Delete(k)
  BY <1>3, PostKeeps, DeleteKeeps
<1>4. CASE Read \/ MarkDuplicates \/ FindGone \/ Deleted \/ ExitCode
  BY <1>4, ReadKeeps, MarkKeeps, FindGoneKeeps, DeletedKeeps, ExitKeeps
<1> QED BY <1>1, <1>2, <1>3, <1>4 DEF HarvestNext

LEMMA HarvestedInitially == HarvestInit => Harvested
BY DEF HarvestInit, Harvested, HarvestTyped, Tables, Idle, ReadHolds, MarkedHolds, WorkHolds, OnlyGone, RunEnds

-------------------------------------------------------------------------------
\* After a complete run that shows green the upcoming events are those of the
\* calendar, but for what others changed meanwhile and what has no place: for any
\* calendar, any failures, also of writes that took effect, and any changes.
THEOREM GreenRunsAreSynced == HarvestSpec => []GreenMeansSynced
<1>1. Harvested => GreenMeansSynced
  BY DEF Harvested, RunEnds, WorkHolds, Synced, GreenMeansSynced
<1> QED BY <1>1, HarvestedInitially, HarvestedNext, PTL DEF HarvestSpec

\* A run deletes nothing that the calendar it read lists, also what it could not
\* read or place, but for copies of what was entered by hand.
THEOREM ListedEventsStay == HarvestSpec => OnlyGoneIsDeleted
<1> DEFINE Step ==
      \A k \in Keys :
        run'.at = "delete" /\ run' # run /\ table[k] # Nothing /\ table'[k] = Nothing =>
          k \notin run.listed \/ k \in run.duplicates
<1>1. ASSUME Harvested, [HarvestNext]_harvestVars PROVE Step
  <2> SUFFICES ASSUME NEW k \in Keys, run'.at = "delete", run' # run,
                      table[k] # Nothing, table'[k] = Nothing
               PROVE  k \notin run.listed \/ k \in run.duplicates
    OBVIOUS
  <2>1. CASE \E j \in Keys : Delete(j)
    <3>1. PICK j \in Keys : Delete(j)
      BY <2>1
    <3>2. j = k
      <4>1. table' \in {table, [table EXCEPT ![j] = Nothing]}
        BY <3>1 DEF Delete
      <4>2. table \in Tables
        BY <1>1 DEF Harvested, HarvestTyped
      <4> QED BY <4>1, <4>2 DEF Tables
    <3>3. k \notin Kept
      BY <3>1, <3>2, <1>1 DEF Delete, Harvested, OnlyGone
    <3> QED BY <3>3 DEF Kept
  <2>2. CASE \E j \in Keys : Post(j)
    <3>1. PICK j \in Keys : Post(j)
      BY <2>2
    <3>2. run'.at = "post"
      BY <3>1, <1>1, RunsAreRecords DEF Post, RunRecord, Steps, Harvested
    <3> QED BY <3>2
  <2>3. CASE \E j \in Keys : ListChanges(j) \/ HandEntry(j) \/ EventChanges(j)
    BY <2>3 DEF ListChanges, HandEntry, EventChanges, Meddle
  <2>4. CASE Read \/ MarkDuplicates \/ FindGone \/ Deleted \/ ExitCode
    BY <2>4 DEF Read, MarkDuplicates, FindGone, Deleted, ExitCode
  <2> QED BY <1>1, <2>1, <2>2, <2>3, <2>4 DEF HarvestNext, harvestVars
<1>2. Harvested /\ [HarvestNext]_harvestVars => [Step]_harvestVars
  BY <1>1
<1> HIDE DEF Step
<1>3. HarvestSpec => [][Step]_harvestVars
  BY <1>2, HarvestedInitially, HarvestedNext, PTL DEF HarvestSpec
<1> QED BY <1>3 DEF Step, OnlyGoneIsDeleted
-------------------------------------------------------------------------------
(* The reader of dumps: going through a sequence *)

LEMMA Counting ==
  ASSUME NEW S, 0 \in S, \A k \in Nat : k \in S => k + 1 \in S
  PROVE  Nat \subseteq S
<1> SUFFICES ASSUME NEW T, T = Nat \ S, T # {} PROVE FALSE
  OBVIOUS
<1>1. PICK k \in T : \A l \in T : <<l, k>> \notin OpToRel(<, Nat)
  BY NatLessThanWellFounded, WFMin
<1>2. k \in T /\ \A l \in T : ~(l < k)
  BY <1>1 DEF OpToRel
<1>3. k \in Nat /\ k # 0 /\ k - 1 \in Nat
  BY <1>2
<1>4. k - 1 \in S
  BY <1>2, <1>3
<1> QED BY <1>2, <1>3, <1>4

\* What a recursive function goes through is there, and nothing else.
Walks(at, n, first, step) ==
  at[0] = first /\ \A i \in 1..n : at[i] = step[i][at[i - 1]]

Follows(at, n, first, step, States) ==
  /\ DOMAIN at = 0..n /\ at[0] = first
  /\ \A i \in 1..n : at[i - 1] \in States => at[i] = step[i][at[i - 1]]

LEMMA Going ==
  ASSUME NEW n \in Nat, NEW States, NEW first \in States, NEW step \in [1..n -> [States -> States]]
  PROVE  \E at \in [0..n -> States] :
           /\ Walks(at, n, first, step)
           /\ \A other : Follows(other, n, first, step, States) => other[n] = at[n]
<1> DEFINE So(k) == \E at \in [0..k -> States] :
                      at[0] = first /\ \A i \in 1..k : at[i] = step[i][at[i - 1]]
           S == {k \in Nat : k <= n => So(k)}
<1>1. 0 \in S
  <2>1. [i \in 0..0 |-> first] \in [0..0 -> States]
    OBVIOUS
  <2>2. 1..0 = {}
    OBVIOUS
  <2>3. So(0)
    <3> WITNESS [i \in 0..0 |-> first] \in [0..0 -> States]
    <3> QED BY <2>2
  <2> QED BY <2>3
<1>2. ASSUME NEW k \in Nat, k \in S PROVE k + 1 \in S
  <2> SUFFICES ASSUME k + 1 <= n PROVE So(k + 1)
    OBVIOUS
  <2>1. PICK at \in [0..k -> States] :
          at[0] = first /\ \A i \in 1..k : at[i] = step[i][at[i - 1]]
    BY <1>2
  <2> DEFINE on == [i \in 0..(k + 1) |-> IF i <= k THEN at[i] ELSE step[k + 1][at[k]]]
  <2>2. step[k + 1][at[k]] \in States
    BY <2>1
  <2>3. on \in [0..(k + 1) -> States]
    BY <2>1, <2>2
  <2>4. on[0] = first
    BY <2>1
  <2>5. ASSUME NEW i \in 1..(k + 1) PROVE on[i] = step[i][on[i - 1]]
    <3>1. CASE i <= k
      BY <2>1, <3>1
    <3>2. CASE i = k + 1
      BY <2>1, <3>2
    <3> QED BY <3>1, <3>2
  <2> QED BY <2>3, <2>4, <2>5
<1> HIDE DEF S
<1>3. n \in S
  BY <1>1, <1>2, Counting
<1>4. So(n)
  BY <1>3 DEF S
<1>5. PICK at \in [0..n -> States] : Walks(at, n, first, step)
  BY <1>4 DEF Walks
<1>6. ASSUME NEW other, Follows(other, n, first, step, States) PROVE other[n] = at[n]
  <2> DEFINE T == {k \in Nat : k <= n => other[k] = at[k]}
  <2>1. 0 \in T
    BY <1>5, <1>6 DEF Walks, Follows
  <2>2. ASSUME NEW k \in Nat, k \in T PROVE k + 1 \in T
    <3> SUFFICES ASSUME k + 1 <= n PROVE other[k + 1] = at[k + 1]
      OBVIOUS
    <3>1. k + 1 \in 1..n /\ (k + 1) - 1 = k /\ at[k] \in States /\ other[k] = at[k]
      BY <1>5, <2>2
    <3>2. at[k + 1] = step[k + 1][at[k]] /\ other[k + 1] = step[k + 1][other[k]]
      BY <1>5, <1>6, <3>1 DEF Walks, Follows
    <3> QED BY <3>1, <3>2
  <2> HIDE DEF T
  <2>3. Nat \subseteq T
    BY <2>1, <2>2, Counting
  <2> QED BY <2>3 DEF T
<1> QED BY <1>5, <1>6

-------------------------------------------------------------------------------
(* The reader of dumps: parseValues *)

Values == [quoted : BOOLEAN, text : Seq(Characters)]
ParseStates ==
  [at : {"between", "field", "string", "escape", "skip", "skipString", "skipEscape"},
   row : Seq(Values), field : Seq(Characters), quoted : BOOLEAN, rows : Seq(Seq(Values))]
Parser(point, row, field, quoted, rows) ==
  [at |-> point, row |-> row, field |-> field, quoted |-> quoted, rows |-> rows]

LEMMA ParseCharTyped ==
  ASSUME NEW p \in ParseStates, NEW c \in Characters
  PROVE  ParseChar(p, c) \in ParseStates
<1>1. /\ p.at \in {"between", "field", "string", "escape", "skip", "skipString", "skipEscape"}
      /\ p.row \in Seq(Values) /\ p.field \in Seq(Characters) /\ p.quoted \in BOOLEAN
      /\ p.rows \in Seq(Seq(Values))
  BY DEF ParseStates
<1>2. Append(p.field, c) \in Seq(Characters) /\ Append(p.field, Unescaped(c)) \in Seq(Characters)
  BY <1>1, CharactersAssumption DEF Unescaped
<1>3. FinishField(p) \in Values
  <2>1. <<"NULL">> \in Seq(Characters)
    BY CharactersAssumption
  <2> QED BY <1>1, <2>1 DEF FinishField, Null, Values
<1>4. EndField(p) \in ParseStates
  <2>1. Append(p.row, FinishField(p)) \in Seq(Values) /\ <<>> \in Seq(Characters)
    BY <1>1, <1>3
  <2> QED BY <2>1 DEF EndField, ParseStates
<1>5. ASSUME NEW q \in ParseStates PROVE EndRow(q) \in ParseStates
  <2>1. /\ <<>> \in Seq(Values) /\ <<>> \in Seq(Characters)
        /\ Append(q.rows, q.row) \in Seq(Seq(Values))
    BY DEF ParseStates
  <2> QED BY <2>1 DEF EndRow, Between, ParseStates
<1> DEFINE point == p.at
<1>6. CASE point = "between"
  BY <1>6 DEF ParseChar, ParseStates
<1>7. CASE point = "field"
  BY <1>2, <1>4, <1>5, <1>7 DEF ParseChar, ParseStates
<1>8. CASE point = "string"
  BY <1>2, <1>8 DEF ParseChar, ParseStates
<1>9. CASE point = "escape"
  BY <1>2, <1>9 DEF ParseChar, ParseStates
<1>10. CASE point \in {"skip", "skipString", "skipEscape"}
  BY <1>5, <1>10 DEF ParseChar, ParseStates
<1> QED BY <1>1, <1>6, <1>7, <1>8, <1>9, <1>10

ParseSteps(text) ==
  [i \in 1..Len(text) |-> [p \in ParseStates |-> ParseChar(p, text[i])]]

LEMMA ParseStepsAre ==
  ASSUME NEW text \in Seq(Characters)
  PROVE  ParseSteps(text) \in [1..Len(text) -> [ParseStates -> ParseStates]]
BY ParseCharTyped DEF ParseSteps

\* The states of the parser on its way through a text.
ParsedAlong(at, p, text) ==
  /\ at \in [0..Len(text) -> ParseStates] /\ at[0] = p
  /\ \A i \in 1..Len(text) : at[i] = ParseChar(at[i - 1], text[i])

LEMMA ParsedGoes ==
  ASSUME NEW text \in Seq(Characters), NEW p \in ParseStates
  PROVE  /\ \E at : ParsedAlong(at, p, text)
         /\ \A at : ParsedAlong(at, p, text) => Parsed(p, text) = at[Len(text)]
<1> DEFINE n == Len(text)
           step == ParseSteps(text)
           Is(g) == g = [i \in 0..n |-> IF i = 0 THEN p ELSE ParseChar(g[i - 1], text[i])]
<1>1. n \in Nat /\ step \in [1..n -> [ParseStates -> ParseStates]]
  BY ParseStepsAre
<1>2. PICK at \in [0..n -> ParseStates] :
        /\ Walks(at, n, p, step)
        /\ \A other : Follows(other, n, p, step, ParseStates) => other[n] = at[n]
  <2> HIDE DEF n, step
  <2> QED BY <1>1, Going
<1>3. ParsedAlong(at, p, text)
  <2>1. at[0] = p
    BY <1>2 DEF Walks
  <2>2. ASSUME NEW i \in 1..n PROVE at[i] = ParseChar(at[i - 1], text[i])
    <3>1. at[i] = step[i][at[i - 1]] /\ at[i - 1] \in ParseStates
      <4> HIDE DEF n, step
      <4> QED BY <1>1, <1>2 DEF Walks
    <3> QED BY <3>1 DEF ParseSteps
  <2> QED BY <2>1, <2>2 DEF ParsedAlong
<1>4. Is(at)
  <2>1. \A i \in 0..n : at[i] = IF i = 0 THEN p ELSE ParseChar(at[i - 1], text[i])
    <3> HIDE DEF n
    <3> QED BY <1>1, <1>3 DEF ParsedAlong, n
  <2> QED BY <2>1
<1>5. Parsed(p, text) = (CHOOSE g : Is(g))[n]
  BY DEF Parsed
<1> DEFINE other == CHOOSE g : Is(g)
<1>6. Is(other)
  BY <1>4
<1> HIDE DEF other
<1>7. Follows(other, n, p, step, ParseStates)
  BY <1>1, <1>6 DEF Follows, ParseSteps
<1>8. ASSUME NEW g, ParsedAlong(g, p, text) PROVE Follows(g, n, p, step, ParseStates)
  BY <1>1, <1>8 DEF ParsedAlong, Follows, ParseSteps
<1> HIDE DEF n, step, Is
<1>9. \A g : ParsedAlong(g, p, text) => g[n] = other[n]
  BY <1>2, <1>7, <1>8
<1> QED BY <1>3, <1>5, <1>9 DEF other, n

LEMMA ParsedOn ==
  ASSUME NEW p \in ParseStates, NEW s \in Seq(Characters), NEW t \in Seq(Characters)
  PROVE  /\ Parsed(p, s) \in ParseStates
         /\ Parsed(p, s \o t) = Parsed(Parsed(p, s), t)
<1> DEFINE m == Len(s)
           n == Len(t)
<1>1. /\ s \o t \in Seq(Characters) /\ Len(s \o t) = m + n /\ m \in Nat /\ n \in Nat
      /\ \A i \in 1..m : (s \o t)[i] = s[i]
      /\ \A i \in 1..n : (s \o t)[m + i] = t[i]
  OBVIOUS
<1>2. PICK at : ParsedAlong(at, p, s \o t)
  BY <1>1, ParsedGoes
<1> HIDE DEF m, n
<1> DEFINE first == [i \in 0..m |-> at[i]]
           then == [i \in 0..n |-> at[m + i]]
<1>3. /\ at \in [0..(m + n) -> ParseStates] /\ at[0] = p
      /\ \A i \in 1..(m + n) : at[i] = ParseChar(at[i - 1], (s \o t)[i])
  BY <1>1, <1>2 DEF ParsedAlong
<1>4. ParsedAlong(first, p, s)
  <2>1. first \in [0..m -> ParseStates] /\ first[0] = p
    BY <1>1, <1>3
  <2>2. ASSUME NEW i \in 1..m PROVE first[i] = ParseChar(first[i - 1], s[i])
    <3>1. i \in 1..(m + n) /\ i \in 0..m /\ i - 1 \in 0..m /\ (s \o t)[i] = s[i]
      BY <1>1
    <3> QED BY <1>3, <3>1
  <2> QED BY <2>1, <2>2 DEF ParsedAlong, m
<1>5. first[m] = Parsed(p, s) /\ first[m] \in ParseStates
  <2>1. Parsed(p, s) = first[m]
    BY <1>4, ParsedGoes DEF m
  <2> QED BY <1>1, <1>3, <2>1
<1>6. ParsedAlong(then, first[m], t)
  <2>1. then \in [0..n -> ParseStates] /\ then[0] = first[m]
    <3>1. \A i \in 0..n : m + i \in 0..(m + n)
      BY <1>1
    <3>2. m + 0 = m /\ 0 \in 0..n /\ m \in 0..m
      BY <1>1
    <3> QED BY <1>3, <3>1, <3>2
  <2>2. ASSUME NEW i \in 1..n PROVE then[i] = ParseChar(then[i - 1], t[i])
    <3>1. /\ m + i \in 1..(m + n) /\ (m + i) - 1 = m + (i - 1)
          /\ i \in 0..n /\ i - 1 \in 0..n /\ (s \o t)[m + i] = t[i]
      BY <1>1
    <3> QED BY <1>3, <3>1
  <2> QED BY <2>1, <2>2 DEF ParsedAlong, n
<1>7. Parsed(first[m], t) = then[n]
  BY <1>5, <1>6, ParsedGoes DEF n
<1>8. Parsed(p, s \o t) = at[m + n]
  BY <1>1, <1>2, ParsedGoes
<1> QED BY <1>1, <1>5, <1>7, <1>8

LEMMA ParsedOne ==
  ASSUME NEW p \in ParseStates, NEW c \in Characters
  PROVE  Parsed(p, <<c>>) = ParseChar(p, c) /\ Parsed(p, <<>>) = p
<1>1. <<c>> \in Seq(Characters) /\ Len(<<c>>) = 1 /\ <<c>>[1] = c
  OBVIOUS
<1>2. PICK at : ParsedAlong(at, p, <<c>>)
  BY <1>1, ParsedGoes
<1>3. Parsed(p, <<c>>) = at[1] /\ at[1] = ParseChar(at[0], c) /\ at[0] = p
  <2>1. Parsed(p, <<c>>) = at[1]
    BY <1>1, <1>2, ParsedGoes
  <2> QED BY <1>1, <1>2, <2>1 DEF ParsedAlong
<1>4. <<>> \in Seq(Characters) /\ Len(<<>>) = 0
  OBVIOUS
<1>5. PICK none : ParsedAlong(none, p, <<>>)
  BY <1>4, ParsedGoes
<1>6. Parsed(p, <<>>) = none[0] /\ none[0] = p
  <2>1. Parsed(p, <<>>) = none[0]
    BY <1>4, <1>5, ParsedGoes
  <2> QED BY <1>5, <2>1 DEF ParsedAlong
<1> QED BY <1>3, <1>6
-------------------------------------------------------------------------------
(* The reader of dumps: streamDumpRows *)

Modes == [inString : BOOLEAN, escaped : BOOLEAN, columns : BOOLEAN]
ScanStates == [scan : Modes, stmt : Seq(Characters), out : Seq(Seq(Values))]
Scanner(inString, escaped, columns, stmt, rows) ==
  [scan |-> [inString |-> inString, escaped |-> escaped, columns |-> columns],
   stmt |-> stmt, out |-> rows]

LEMMA ParseValuesTyped ==
  ASSUME NEW text \in Seq(Characters)
  PROVE  Between \in ParseStates /\ ParseValues(text) \in Seq(Seq(Values))
<1>1. Between \in ParseStates
  BY DEF Between, ParseStates
<1>2. Parsed(Between, text) \in ParseStates
  BY <1>1, ParsedOn
<1> QED BY <1>1, <1>2 DEF ParseValues, ParseStates

LEMMA ScanCharTyped ==
  ASSUME NEW r \in ScanStates, NEW c \in Characters
  PROVE  /\ ScanChar(r, c) \in ScanStates
         /\ \E more \in Seq(Seq(Values)) : ScanChar(r, c).out = r.out \o more
<1> DEFINE s == r.scan
           on(next) == [r EXCEPT !.scan = next, !.stmt = Append(@, c)]
<1>1. /\ s \in Modes /\ r.stmt \in Seq(Characters) /\ r.out \in Seq(Seq(Values))
      /\ s.inString \in BOOLEAN /\ s.escaped \in BOOLEAN /\ s.columns \in BOOLEAN
  BY DEF ScanStates, Modes
<1>2. ASSUME NEW next \in Modes
      PROVE  on(next) \in ScanStates /\ on(next).out = r.out
  <2>1. Append(r.stmt, c) \in Seq(Characters)
    BY <1>1
  <2> QED BY <2>1 DEF ScanStates
<1>3. /\ [s EXCEPT !.escaped = FALSE] \in Modes
      /\ [s EXCEPT !.escaped = TRUE] \in Modes
      /\ [s EXCEPT !.inString = c # "quote"] \in Modes
      /\ [s EXCEPT !.inString = TRUE] \in Modes
      /\ [s EXCEPT !.columns = @ \/ r.stmt = <<"CREATE">>] \in Modes
  BY <1>1 DEF Modes
<1>4. StatementRows(r.stmt, s.columns) \in Seq(Seq(Values))
  <2>1. CASE r.stmt # <<>>
    <3>1. Tail(r.stmt) \in Seq(Characters)
      BY <1>1, <2>1
    <3>2. ParseValues(Tail(r.stmt)) \in Seq(Seq(Values))
      BY <3>1, ParseValuesTyped
    <3> QED BY <3>2 DEF StatementRows
  <2>2. CASE r.stmt = <<>>
    BY <2>2 DEF StatementRows
  <2> QED BY <2>1, <2>2
<1> DEFINE ends == ~s.escaped /\ ~s.inString /\ c = "semicolon"
<1>5. CASE ends
  <2> DEFINE next == [scan |-> [s EXCEPT !.columns = @ \/ r.stmt = <<"CREATE">>],
                      stmt |-> <<>>, out |-> r.out \o StatementRows(r.stmt, s.columns)]
  <2>1. ScanChar(r, c) = next
    BY <1>5 DEF ScanChar
  <2>2. r.out \o StatementRows(r.stmt, s.columns) \in Seq(Seq(Values)) /\ <<>> \in Seq(Characters)
    BY <1>1, <1>4
  <2>3. next \in ScanStates
    BY <1>3, <2>2 DEF ScanStates
  <2>4. next.out = r.out \o StatementRows(r.stmt, s.columns)
    OBVIOUS
  <2> HIDE DEF next
  <2> QED BY <1>4, <2>1, <2>3, <2>4
<1>6. CASE ~ends
  <2>1. \/ ScanChar(r, c) = on([s EXCEPT !.escaped = FALSE])
        \/ ScanChar(r, c) = on([s EXCEPT !.escaped = TRUE])
        \/ ScanChar(r, c) = on([s EXCEPT !.inString = c # "quote"])
        \/ ScanChar(r, c) = on([s EXCEPT !.inString = TRUE])
        \/ ScanChar(r, c) = on(s)
    BY <1>6 DEF ScanChar
  <2>2. ScanChar(r, c) \in ScanStates /\ ScanChar(r, c).out = r.out
    <3> HIDE DEF on
    <3> QED BY <1>1, <1>2, <1>3, <2>1
  <2>3. r.out = r.out \o <<>> /\ <<>> \in Seq(Seq(Values))
    BY <1>1
  <2> QED BY <2>2, <2>3
<1> QED BY <1>5, <1>6

ScanSteps(text) ==
  [i \in 1..Len(text) |-> [r \in ScanStates |-> ScanChar(r, text[i])]]

LEMMA ScanStepsAre ==
  ASSUME NEW text \in Seq(Characters)
  PROVE  ScanSteps(text) \in [1..Len(text) -> [ScanStates -> ScanStates]]
<1>1. \A r \in ScanStates : \A c \in Characters : ScanChar(r, c) \in ScanStates
  BY ScanCharTyped
<1> QED BY <1>1 DEF ScanSteps

\* The states of the scan on its way through a text.
ScannedAlong(at, r, text) ==
  /\ at \in [0..Len(text) -> ScanStates] /\ at[0] = r
  /\ \A i \in 1..Len(text) : at[i] = ScanChar(at[i - 1], text[i])

LEMMA ScanGoes ==
  ASSUME NEW text \in Seq(Characters), NEW r \in ScanStates
  PROVE  /\ \E at : ScannedAlong(at, r, text)
         /\ \A at : ScannedAlong(at, r, text) => Scan(r, text) = at[Len(text)]
<1> DEFINE n == Len(text)
           step == ScanSteps(text)
           Is(g) == g = [i \in 0..n |-> IF i = 0 THEN r ELSE ScanChar(g[i - 1], text[i])]
<1>1. n \in Nat /\ step \in [1..n -> [ScanStates -> ScanStates]]
  BY ScanStepsAre
<1>2. PICK at \in [0..n -> ScanStates] :
        /\ Walks(at, n, r, step)
        /\ \A other : Follows(other, n, r, step, ScanStates) => other[n] = at[n]
  <2> HIDE DEF n, step
  <2> QED BY <1>1, Going
<1>3. ScannedAlong(at, r, text)
  <2>1. at[0] = r
    BY <1>2 DEF Walks
  <2>2. ASSUME NEW i \in 1..n PROVE at[i] = ScanChar(at[i - 1], text[i])
    <3>1. at[i] = step[i][at[i - 1]] /\ at[i - 1] \in ScanStates
      <4> HIDE DEF n, step
      <4> QED BY <1>1, <1>2 DEF Walks
    <3> QED BY <3>1 DEF ScanSteps
  <2> QED BY <2>1, <2>2 DEF ScannedAlong
<1>4. Is(at)
  <2>1. \A i \in 0..n : at[i] = IF i = 0 THEN r ELSE ScanChar(at[i - 1], text[i])
    <3> HIDE DEF n
    <3> QED BY <1>1, <1>3 DEF ScannedAlong, n
  <2> QED BY <2>1
<1>5. Scan(r, text) = (CHOOSE g : Is(g))[n]
  BY DEF Parsed
<1> DEFINE other == CHOOSE g : Is(g)
<1>6. Is(other)
  BY <1>4
<1> HIDE DEF other
<1>7. Follows(other, n, r, step, ScanStates)
  BY <1>1, <1>6 DEF Follows, ScanSteps
<1>8. ASSUME NEW g, ScannedAlong(g, r, text) PROVE Follows(g, n, r, step, ScanStates)
  BY <1>1, <1>8 DEF ScannedAlong, Follows, ScanSteps
<1> HIDE DEF n, step, Is
<1>9. \A g : ScannedAlong(g, r, text) => g[n] = other[n]
  BY <1>2, <1>7, <1>8
<1> QED BY <1>3, <1>5, <1>9 DEF other, n

LEMMA ScanOn ==
  ASSUME NEW r \in ScanStates, NEW s \in Seq(Characters), NEW t \in Seq(Characters)
  PROVE  /\ Scan(r, s) \in ScanStates
         /\ Scan(r, s \o t) = Scan(Scan(r, s), t)
<1> DEFINE m == Len(s)
           n == Len(t)
<1>1. /\ s \o t \in Seq(Characters) /\ Len(s \o t) = m + n /\ m \in Nat /\ n \in Nat
      /\ \A i \in 1..m : (s \o t)[i] = s[i]
      /\ \A i \in 1..n : (s \o t)[m + i] = t[i]
  OBVIOUS
<1>2. PICK at : ScannedAlong(at, r, s \o t)
  BY <1>1, ScanGoes
<1> HIDE DEF m, n
<1> DEFINE first == [i \in 0..m |-> at[i]]
           then == [i \in 0..n |-> at[m + i]]
<1>3. /\ at \in [0..(m + n) -> ScanStates] /\ at[0] = r
      /\ \A i \in 1..(m + n) : at[i] = ScanChar(at[i - 1], (s \o t)[i])
  BY <1>1, <1>2 DEF ScannedAlong
<1>4. ScannedAlong(first, r, s)
  <2>1. first \in [0..m -> ScanStates] /\ first[0] = r
    BY <1>1, <1>3
  <2>2. ASSUME NEW i \in 1..m PROVE first[i] = ScanChar(first[i - 1], s[i])
    <3>1. i \in 1..(m + n) /\ i \in 0..m /\ i - 1 \in 0..m /\ (s \o t)[i] = s[i]
      BY <1>1
    <3> QED BY <1>3, <3>1
  <2> QED BY <2>1, <2>2 DEF ScannedAlong, m
<1>5. first[m] = Scan(r, s) /\ first[m] \in ScanStates
  <2>1. Scan(r, s) = first[m]
    BY <1>4, ScanGoes DEF m
  <2> QED BY <1>1, <1>3, <2>1
<1>6. ScannedAlong(then, first[m], t)
  <2>1. then \in [0..n -> ScanStates] /\ then[0] = first[m]
    <3>1. \A i \in 0..n : m + i \in 0..(m + n)
      BY <1>1
    <3>2. m + 0 = m /\ 0 \in 0..n /\ m \in 0..m
      BY <1>1
    <3> QED BY <1>3, <3>1, <3>2
  <2>2. ASSUME NEW i \in 1..n PROVE then[i] = ScanChar(then[i - 1], t[i])
    <3>1. /\ m + i \in 1..(m + n) /\ (m + i) - 1 = m + (i - 1)
          /\ i \in 0..n /\ i - 1 \in 0..n /\ (s \o t)[m + i] = t[i]
      BY <1>1
    <3> QED BY <1>3, <3>1
  <2> QED BY <2>1, <2>2 DEF ScannedAlong, n
<1>7. Scan(first[m], t) = then[n]
  BY <1>5, <1>6, ScanGoes DEF n
<1>8. Scan(r, s \o t) = at[m + n]
  BY <1>1, <1>2, ScanGoes
<1> QED BY <1>1, <1>5, <1>7, <1>8

LEMMA ScanOne ==
  ASSUME NEW r \in ScanStates, NEW c \in Characters
  PROVE  Scan(r, <<c>>) = ScanChar(r, c) /\ Scan(r, <<>>) = r
<1>1. <<c>> \in Seq(Characters) /\ Len(<<c>>) = 1 /\ <<c>>[1] = c
  OBVIOUS
<1>2. PICK at : ScannedAlong(at, r, <<c>>)
  BY <1>1, ScanGoes
<1>3. Scan(r, <<c>>) = at[1] /\ at[1] = ScanChar(at[0], c) /\ at[0] = r
  <2>1. Scan(r, <<c>>) = at[1]
    BY <1>1, <1>2, ScanGoes
  <2> QED BY <1>1, <1>2, <2>1 DEF ScannedAlong
<1>4. <<>> \in Seq(Characters) /\ Len(<<>>) = 0
  OBVIOUS
<1>5. PICK none : ScannedAlong(none, r, <<>>)
  BY <1>4, ScanGoes
<1>6. Scan(r, <<>>) = none[0] /\ none[0] = r
  <2>1. Scan(r, <<>>) = none[0]
    BY <1>4, <1>5, ScanGoes
  <2> QED BY <1>5, <2>1 DEF ScannedAlong
<1> QED BY <1>3, <1>6

LEMMA RowsAssociate ==
  ASSUME NEW s \in Seq(Seq(Values)), NEW t \in Seq(Seq(Values)), NEW u \in Seq(Seq(Values))
  PROVE  (s \o t) \o u = s \o (t \o u)
OBVIOUS

\* What was read stays read.
LEMMA ScanGrows ==
  ASSUME NEW text \in Seq(Characters), NEW r \in ScanStates
  PROVE  \E more \in Seq(Seq(Values)) : Scan(r, text).out = r.out \o more
<1> DEFINE n == Len(text)
<1>1. PICK at : ScannedAlong(at, r, text)
  BY ScanGoes
<1>2. n \in Nat /\ Scan(r, text) = at[n]
  BY <1>1, ScanGoes
<1> DEFINE Grown(k) == \E more \in Seq(Seq(Values)) : at[k].out = r.out \o more
           S == {k \in Nat : k <= n => Grown(k)}
<1>3. r.out \in Seq(Seq(Values))
  BY DEF ScanStates
<1>4. Grown(0)
  <2>1. at[0] = r /\ r.out = r.out \o <<>> /\ <<>> \in Seq(Seq(Values))
    BY <1>1, <1>3 DEF ScannedAlong
  <2> QED BY <2>1
<1>5. ASSUME NEW k \in Nat, k + 1 <= n, Grown(k) PROVE Grown(k + 1)
  <2>1. /\ k + 1 \in 1..n /\ (k + 1) - 1 = k /\ at[k] \in ScanStates
        /\ at[k + 1] = ScanChar(at[k], text[k + 1]) /\ text[k + 1] \in Characters
    BY <1>1, <1>2, <1>5 DEF ScannedAlong
  <2>2. PICK more \in Seq(Seq(Values)) : at[k].out = r.out \o more
    BY <1>5
  <2>3. PICK last \in Seq(Seq(Values)) : at[k + 1].out = at[k].out \o last
    BY <2>1, ScanCharTyped
  <2>4. /\ (r.out \o more) \o last = r.out \o (more \o last)
        /\ more \o last \in Seq(Seq(Values))
    <3>1. PICK rows \in Seq(Seq(Values)) : rows = r.out
      BY <1>3
    <3>2. (rows \o more) \o last = rows \o (more \o last)
      BY <2>2, <2>3, <3>1, RowsAssociate
    <3>3. more \o last \in Seq(Seq(Values))
      BY <2>2, <2>3
    <3> QED BY <3>1, <3>2, <3>3
  <2> QED BY <2>2, <2>3, <2>4
<1> HIDE DEF Grown
<1>6. 0 \in S
  BY <1>4
<1>7. ASSUME NEW k \in Nat, k \in S PROVE k + 1 \in S
  BY <1>2, <1>5, <1>7
<1> HIDE DEF S
<1>8. n \in S
  BY <1>2, <1>6, <1>7, Counting
<1>9. Grown(n)
  BY <1>8, <1>2 DEF S
<1> QED BY <1>2, <1>9 DEF Grown
-------------------------------------------------------------------------------
(* The reader of dumps: what mysqldump writes *)

\* The pieces of a list, one after the other.
Pieced(at, pieces) ==
  at[0] = <<>> /\ \A i \in 1..Len(pieces) : at[i] = at[i - 1] \o pieces[i]

LEMMA Flattened ==
  ASSUME NEW X, NEW pieces \in Seq(Seq(X))
  PROVE  \E at \in [0..Len(pieces) -> Seq(X)] :
           Pieced(at, pieces) /\ FlattenSeq(pieces) = at[Len(pieces)]
<1> DEFINE n == Len(pieces)
           States == Seq(X)
           step == [i \in 1..n |-> [s \in States |-> s \o pieces[i]]]
           Is(g) == g = [i \in 1..n |-> IF i = 1 THEN pieces[i] ELSE g[i - 1] \o pieces[i]]
<1>1. n \in Nat /\ step \in [1..n -> [States -> States]] /\ <<>> \in States
  OBVIOUS
<1>2. PICK at \in [0..n -> States] :
        /\ Walks(at, n, <<>>, step)
        /\ \A other : Follows(other, n, <<>>, step, States) => other[n] = at[n]
  <2> HIDE DEF n, step, States
  <2> QED BY <1>1, Going
<1>3. at[0] = <<>> /\ \A i \in 1..n : at[i] = at[i - 1] \o pieces[i]
  <2>1. ASSUME NEW i \in 1..n PROVE at[i] = at[i - 1] \o pieces[i]
    <3>1. at[i] = step[i][at[i - 1]] /\ at[i - 1] \in States
      <4> HIDE DEF n, step, States
      <4> QED BY <1>1, <1>2 DEF Walks
    <3> QED BY <3>1
  <2> QED BY <1>2, <2>1 DEF Walks
<1>4. CASE n = 0
  <2>1. FlattenSeq(pieces) = pieces /\ pieces = <<>>
    BY <1>4 DEF FlattenSeq
  <2> QED BY <1>2, <1>3, <1>4, <2>1 DEF Pieced
<1>5. CASE n # 0
  <2> DEFINE flat == [i \in 1..n |-> at[i]]
             flatten == CHOOSE g : Is(g)
             other == [i \in 0..n |-> IF i = 0 THEN <<>> ELSE flatten[i]]
  <2>1. Is(flat)
    <3>1. \A i \in 1..n : pieces[i] \in Seq(X) /\ <<>> \o pieces[i] = pieces[i]
      OBVIOUS
    <3>2. ASSUME NEW i \in 1..n
          PROVE  flat[i] = IF i = 1 THEN pieces[i] ELSE flat[i - 1] \o pieces[i]
      <4> HIDE DEF n
      <4>1. i = 1 => i - 1 = 0
        OBVIOUS
      <4>2. i # 1 => i - 1 \in 1..n
        BY <1>1
      <4> QED BY <1>3, <3>1, <4>1, <4>2
    <3> QED BY <3>2
  <2>2. FlattenSeq(pieces) = flatten[n]
    BY <1>5 DEF FlattenSeq
  <2>3. Is(flatten)
    BY <2>1
  <2> HIDE DEF flatten
  <2>4. \A i \in 1..n : flatten[i] = IF i = 1 THEN pieces[i] ELSE flatten[i - 1] \o pieces[i]
    BY <2>3
  <2>5. ASSUME NEW i \in 1..n, other[i - 1] \in States PROVE other[i] = step[i][other[i - 1]]
    <3>1. <<>> \o pieces[i] = pieces[i]
      OBVIOUS
    <3>2. CASE i = 1
      BY <1>1, <2>4, <3>1, <3>2
    <3>3. CASE i # 1
      <4>1. i - 1 \in 0..n /\ i - 1 # 0 /\ i \in 0..n /\ i # 0
        BY <1>1, <3>3
      <4>2. other[i] = other[i - 1] \o pieces[i]
        <5> HIDE DEF n
        <5> QED BY <2>4, <3>3, <4>1
      <4> HIDE DEF other
      <4> QED BY <2>5, <4>2
    <3> QED BY <3>2, <3>3
  <2>6. Follows(other, n, <<>>, step, States)
    <3>1. DOMAIN other = 0..n /\ other[0] = <<>>
      BY <1>1
    <3> HIDE DEF other, step, States
    <3> QED BY <2>5, <3>1 DEF Follows
  <2>7. other[n] = at[n]
    <3> HIDE DEF other, step, n, States
    <3> QED BY <1>2, <2>6
  <2>8. other[n] = flatten[n]
    BY <1>1, <1>5
  <2>9. FlattenSeq(pieces) = at[n]
    BY <2>2, <2>7, <2>8
  <2> QED BY <1>2, <1>3, <2>9 DEF Pieced
<1> QED BY <1>4, <1>5

LEMMA ListedIsFlat ==
  ASSUME NEW pieces \in Seq(Seq(Characters))
  PROVE  \E parts \in Seq(Seq(Characters)) :
           /\ Len(parts) = Len(pieces) /\ Listed(pieces) = FlattenSeq(parts)
           /\ \A i \in 1..Len(pieces) :
                parts[i] = IF i = 1 THEN pieces[i] ELSE <<"comma">> \o pieces[i]
<1> DEFINE parts == [i \in DOMAIN pieces |->
                       IF i = 1 THEN pieces[i] ELSE <<"comma">> \o pieces[i]]
<1>1. DOMAIN pieces = 1..Len(pieces) /\ Len(pieces) \in Nat
  OBVIOUS
<1>2. ASSUME NEW i \in 1..Len(pieces)
      PROVE  (IF i = 1 THEN pieces[i] ELSE <<"comma">> \o pieces[i]) \in Seq(Characters)
  <2>1. <<"comma">> \in Seq(Characters) /\ pieces[i] \in Seq(Characters)
    BY CharactersAssumption
  <2>2. <<"comma">> \o pieces[i] \in Seq(Characters)
    BY <2>1
  <2> QED BY <2>1, <2>2
<1>3. parts \in Seq(Seq(Characters)) /\ Len(parts) = Len(pieces)
  BY <1>1, <1>2
<1> QED BY <1>1, <1>3 DEF Listed
-------------------------------------------------------------------------------
(* The reader of dumps: statements are found *)

LEMMA ScannerTyped ==
  ASSUME NEW b \in BOOLEAN, NEW e \in BOOLEAN, NEW k \in BOOLEAN, NEW s \in Seq(Characters),
         NEW o \in Seq(Seq(Values))
  PROVE  Scanner(b, e, k, s, o) \in ScanStates
BY DEF Scanner, ScanStates, Modes

LEMMA ScansEscaped ==
  ASSUME NEW b \in BOOLEAN, NEW k \in BOOLEAN, NEW s \in Seq(Characters),
         NEW o \in Seq(Seq(Values)), NEW c \in Characters
  PROVE  ScanChar(Scanner(b, TRUE, k, s, o), c) = Scanner(b, FALSE, k, s \o <<c>>, o)
<1>1. Append(s, c) = s \o <<c>>
  OBVIOUS
<1> QED BY <1>1 DEF ScanChar, Scanner

LEMMA ScansBackslash ==
  ASSUME NEW b \in BOOLEAN, NEW k \in BOOLEAN, NEW s \in Seq(Characters),
         NEW o \in Seq(Seq(Values))
  PROVE  ScanChar(Scanner(b, FALSE, k, s, o), "backslash") =
           Scanner(b, TRUE, k, s \o <<"backslash">>, o)
<1>1. Append(s, "backslash") = s \o <<"backslash">>
  BY CharactersAssumption
<1> QED BY <1>1 DEF ScanChar, Scanner

LEMMA ScansQuote ==
  ASSUME NEW b \in BOOLEAN, NEW k \in BOOLEAN, NEW s \in Seq(Characters),
         NEW o \in Seq(Seq(Values))
  PROVE  ScanChar(Scanner(b, FALSE, k, s, o), "quote") =
           Scanner(~b, FALSE, k, s \o <<"quote">>, o)
<1>1. Append(s, "quote") = s \o <<"quote">>
  BY CharactersAssumption
<1> QED BY <1>1 DEF ScanChar, Scanner

Inert(b, c) == c \notin {"backslash", "quote"} /\ (b \/ c # "semicolon")

LEMMA ScansOther ==
  ASSUME NEW b \in BOOLEAN, NEW k \in BOOLEAN, NEW s \in Seq(Characters),
         NEW o \in Seq(Seq(Values)), NEW c \in Characters, Inert(b, c)
  PROVE  ScanChar(Scanner(b, FALSE, k, s, o), c) = Scanner(b, FALSE, k, s \o <<c>>, o)
<1>1. Append(s, c) = s \o <<c>>
  OBVIOUS
<1> QED BY <1>1 DEF ScanChar, Scanner, Inert

LEMMA ScansEnd ==
  ASSUME NEW k \in BOOLEAN, NEW s \in Seq(Characters), NEW o \in Seq(Seq(Values))
  PROVE  ScanChar(Scanner(FALSE, FALSE, k, s, o), "semicolon") =
           Scanner(FALSE, FALSE, k \/ s = <<"CREATE">>, <<>>, o \o StatementRows(s, k))
BY DEF ScanChar, Scanner

\* A text the scan goes through, in a string or not, without finding an end.
Passes(b, text) ==
  \A k \in BOOLEAN, s \in Seq(Characters), o \in Seq(Seq(Values)) :
    Scan(Scanner(b, FALSE, k, s, o), text) = Scanner(b, FALSE, k, s \o text, o)

LEMMA PassesOn ==
  ASSUME NEW b \in BOOLEAN, NEW t \in Seq(Characters), NEW u \in Seq(Characters),
         Passes(b, t), Passes(b, u)
  PROVE  t \o u \in Seq(Characters) /\ Passes(b, t \o u)
<1>0. t \o u \in Seq(Characters)
  OBVIOUS
<1> SUFFICES ASSUME NEW k \in BOOLEAN, NEW s \in Seq(Characters), NEW o \in Seq(Seq(Values))
             PROVE  Scan(Scanner(b, FALSE, k, s, o), t \o u) = Scanner(b, FALSE, k, s \o (t \o u), o)
  BY <1>0 DEF Passes
<1>1. s \o t \in Seq(Characters) /\ (s \o t) \o u = s \o (t \o u)
  OBVIOUS
<1>2. Scan(Scanner(b, FALSE, k, s, o), t) = Scanner(b, FALSE, k, s \o t, o)
  BY DEF Passes
<1>3. Scan(Scanner(b, FALSE, k, s \o t, o), u) = Scanner(b, FALSE, k, (s \o t) \o u, o)
  BY <1>1 DEF Passes
<1>4. Scanner(b, FALSE, k, s, o) \in ScanStates
  BY ScannerTyped
<1>5. Scan(Scanner(b, FALSE, k, s, o), t \o u) = Scan(Scan(Scanner(b, FALSE, k, s, o), t), u)
  BY <1>4, ScanOn
<1> QED BY <1>1, <1>2, <1>3, <1>5

LEMMA PassesChar ==
  ASSUME NEW b \in BOOLEAN, NEW c \in Characters, Inert(b, c)
  PROVE  <<c>> \in Seq(Characters) /\ Passes(b, <<c>>)
<1>0. <<c>> \in Seq(Characters)
  OBVIOUS
<1> SUFFICES ASSUME NEW k \in BOOLEAN, NEW s \in Seq(Characters), NEW o \in Seq(Seq(Values))
             PROVE  Scan(Scanner(b, FALSE, k, s, o), <<c>>) = Scanner(b, FALSE, k, s \o <<c>>, o)
  BY <1>0 DEF Passes
<1>1. Scanner(b, FALSE, k, s, o) \in ScanStates
  BY ScannerTyped
<1>2. Scan(Scanner(b, FALSE, k, s, o), <<c>>) = ScanChar(Scanner(b, FALSE, k, s, o), c)
  BY <1>1, ScanOne
<1>3. ScanChar(Scanner(b, FALSE, k, s, o), c) = Scanner(b, FALSE, k, s \o <<c>>, o)
  BY ScansOther
<1> QED BY <1>2, <1>3

LEMMA PassesEscape ==
  ASSUME NEW c \in Characters
  PROVE  <<"backslash", c>> \in Seq(Characters) /\ Passes(TRUE, <<"backslash", c>>)
<1> "backslash" \in Characters
  BY CharactersAssumption
<1>0. <<"backslash", c>> \in Seq(Characters)
  OBVIOUS
<1> SUFFICES ASSUME NEW k \in BOOLEAN, NEW s \in Seq(Characters), NEW o \in Seq(Seq(Values))
             PROVE  Scan(Scanner(TRUE, FALSE, k, s, o), <<"backslash", c>>) =
                      Scanner(TRUE, FALSE, k, s \o <<"backslash", c>>, o)
  BY <1>0 DEF Passes
<1> DEFINE t == s \o <<"backslash">>
<1>1. /\ t \in Seq(Characters) /\ <<"backslash">> \in Seq(Characters) /\ <<c>> \in Seq(Characters)
      /\ <<"backslash", c>> = <<"backslash">> \o <<c>>
      /\ t \o <<c>> = s \o <<"backslash", c>>
  OBVIOUS
<1> HIDE DEF t
<1>2. Scanner(TRUE, FALSE, k, s, o) \in ScanStates /\ Scanner(TRUE, TRUE, k, t, o) \in ScanStates
  BY <1>1, ScannerTyped
<1>3. Scan(Scanner(TRUE, FALSE, k, s, o), <<"backslash">>) = Scanner(TRUE, TRUE, k, t, o)
  <2>1. ScanChar(Scanner(TRUE, FALSE, k, s, o), "backslash") = Scanner(TRUE, TRUE, k, t, o)
    BY ScansBackslash DEF t
  <2> QED BY <1>2, <2>1, ScanOne
<1>4. Scan(Scanner(TRUE, TRUE, k, t, o), <<c>>) = Scanner(TRUE, FALSE, k, t \o <<c>>, o)
  <2>1. ScanChar(Scanner(TRUE, TRUE, k, t, o), c) = Scanner(TRUE, FALSE, k, t \o <<c>>, o)
    BY <1>1, ScansEscaped
  <2> QED BY <1>2, <2>1, ScanOne
<1>5. Scan(Scanner(TRUE, FALSE, k, s, o), <<"backslash">> \o <<c>>) =
        Scan(Scan(Scanner(TRUE, FALSE, k, s, o), <<"backslash">>), <<c>>)
  BY <1>1, <1>2, ScanOn
<1> QED BY <1>1, <1>3, <1>4, <1>5

LEMMA PassesPieces ==
  ASSUME NEW b \in BOOLEAN, NEW pieces \in Seq(Seq(Characters)),
         \A i \in 1..Len(pieces) : Passes(b, pieces[i])
  PROVE  FlattenSeq(pieces) \in Seq(Characters) /\ Passes(b, FlattenSeq(pieces))
<1> DEFINE n == Len(pieces)
<1>1. n \in Nat /\ \A i \in 1..n : pieces[i] \in Seq(Characters)
  OBVIOUS
<1>2. PICK at \in [0..n -> Seq(Characters)] :
        Pieced(at, pieces) /\ FlattenSeq(pieces) = at[n]
  BY Flattened
<1> DEFINE S == {i \in Nat : i <= n => Passes(b, at[i])}
<1>3. 0 \in S
  <2> SUFFICES ASSUME NEW k \in BOOLEAN, NEW s \in Seq(Characters), NEW o \in Seq(Seq(Values))
               PROVE  Scan(Scanner(b, FALSE, k, s, o), <<>>) = Scanner(b, FALSE, k, s \o <<>>, o)
    BY <1>2 DEF Passes, Pieced
  <2>1. Scanner(b, FALSE, k, s, o) \in ScanStates
    BY ScannerTyped
  <2>3. s \o <<>> = s
    OBVIOUS
  <2>2. "comma" \in Characters
    BY CharactersAssumption
  <2> QED BY <2>1, <2>2, <2>3, ScanOne
<1>4. ASSUME NEW i \in Nat, i \in S PROVE i + 1 \in S
  <2> SUFFICES ASSUME i + 1 <= n PROVE Passes(b, at[i + 1])
    OBVIOUS
  <2>0. i + 1 \in 1..n /\ i \in 0..n /\ (i + 1) - 1 = i
    BY <1>1
  <2>1. /\ Passes(b, at[i]) /\ Passes(b, pieces[i + 1]) /\ at[i] \in Seq(Characters)
        /\ pieces[i + 1] \in Seq(Characters)
    <3>1. Passes(b, at[i])
      BY <1>4, <2>0
    <3>2. Passes(b, pieces[i + 1]) /\ pieces[i + 1] \in Seq(Characters)
      BY <1>1, <2>0
    <3>3. at[i] \in Seq(Characters)
      BY <1>2, <2>0
    <3> QED BY <3>1, <3>2, <3>3
  <2>2. at[i + 1] = at[i] \o pieces[i + 1]
    BY <1>2, <2>0 DEF Pieced
  <2> HIDE DEF n
  <2> QED BY <2>1, <2>2, PassesOn
<1> HIDE DEF S
<1>5. n \in S
  BY <1>1, <1>3, <1>4, Counting
<1>6. Passes(b, at[n]) /\ at[n] \in Seq(Characters)
  BY <1>1, <1>2, <1>5 DEF S
<1> QED BY <1>2, <1>6

\* The characters of a string, each as it is written.
EscapedText(text) == [i \in DOMAIN text |-> Escaped(text[i])]

LEMMA EscapedPasses ==
  ASSUME NEW text \in Seq(Characters)
  PROVE  /\ EscapedText(text) \in Seq(Seq(Characters)) /\ Len(EscapedText(text)) = Len(text)
         /\ FlattenSeq(EscapedText(text)) \in Seq(Characters)
         /\ Passes(TRUE, FlattenSeq(EscapedText(text)))
<1>1. ASSUME NEW c \in Characters
      PROVE  Escaped(c) \in Seq(Characters) /\ Passes(TRUE, Escaped(c))
  <2>1. CASE c = "newline"
    <3>1. Escaped(c) = <<"backslash", "n">> /\ "n" \in Characters
      BY <2>1, CharactersAssumption DEF Escaped
    <3> QED BY <3>1, PassesEscape
  <2>2. CASE c \in {"quote", "backslash"}
    <3>1. Escaped(c) = <<"backslash", c>>
      BY <2>2 DEF Escaped
    <3> QED BY <3>1, PassesEscape
  <2>3. CASE c \notin {"newline", "quote", "backslash"}
    <3>1. Escaped(c) = <<c>>
      BY <2>3 DEF Escaped
    <3>2. Inert(TRUE, c)
      BY <2>3 DEF Inert
    <3> QED BY <3>1, <3>2, PassesChar
  <2> QED BY <2>1, <2>2, <2>3
<1>2. DOMAIN text = 1..Len(text) /\ Len(text) \in Nat /\ \A i \in 1..Len(text) : text[i] \in Characters
  OBVIOUS
<1>3. EscapedText(text) \in Seq(Seq(Characters)) /\ Len(EscapedText(text)) = Len(text)
  <2>1. \A i \in 1..Len(text) : Escaped(text[i]) \in Seq(Characters)
    BY <1>1, <1>2
  <2>2. EscapedText(text) = [i \in 1..Len(text) |-> Escaped(text[i])]
    BY <1>2 DEF EscapedText
  <2> QED BY <1>2, <2>1, <2>2
<1>4. \A i \in 1..Len(EscapedText(text)) : Passes(TRUE, EscapedText(text)[i])
  BY <1>1, <1>2, <1>3 DEF EscapedText
<1> QED BY <1>3, <1>4, PassesPieces

LEMMA QuotedPasses ==
  ASSUME NEW text \in Seq(Characters), Passes(TRUE, text)
  PROVE  /\ <<"quote">> \o text \o <<"quote">> \in Seq(Characters)
         /\ Passes(FALSE, <<"quote">> \o text \o <<"quote">>)
<1> DEFINE q == <<"quote">>
           all == q \o text \o q
<1>1. "quote" \in Characters /\ q \in Seq(Characters)
  BY CharactersAssumption
<1>2. all \in Seq(Characters) /\ q \o text \in Seq(Characters)
  BY <1>1
<1> SUFFICES ASSUME NEW k \in BOOLEAN, NEW s \in Seq(Characters), NEW o \in Seq(Seq(Values))
             PROVE  Scan(Scanner(FALSE, FALSE, k, s, o), all) =
                      Scanner(FALSE, FALSE, k, s \o all, o)
  BY <1>2 DEF Passes
<1>3. s \o q \in Seq(Characters) /\ (s \o q) \o text \in Seq(Characters)
  BY <1>1
<1>4. ((s \o q) \o text) \o q = s \o all
  BY <1>1
<1>5. /\ Scanner(FALSE, FALSE, k, s, o) \in ScanStates
      /\ Scanner(TRUE, FALSE, k, s \o q, o) \in ScanStates
      /\ Scanner(TRUE, FALSE, k, (s \o q) \o text, o) \in ScanStates
  BY <1>3, ScannerTyped
<1>6. Scan(Scanner(FALSE, FALSE, k, s, o), q) = Scanner(TRUE, FALSE, k, s \o q, o)
  <2>1. ScanChar(Scanner(FALSE, FALSE, k, s, o), "quote") = Scanner(~FALSE, FALSE, k, s \o q, o)
    BY ScansQuote
  <2> QED BY <1>1, <1>5, <2>1, ScanOne
<1>7. Scan(Scanner(TRUE, FALSE, k, s \o q, o), text) =
        Scanner(TRUE, FALSE, k, (s \o q) \o text, o)
  BY <1>3 DEF Passes
<1>8. Scan(Scanner(TRUE, FALSE, k, (s \o q) \o text, o), q) = Scanner(FALSE, FALSE, k, s \o all, o)
  <2>1. ScanChar(Scanner(TRUE, FALSE, k, (s \o q) \o text, o), "quote") =
          Scanner(~TRUE, FALSE, k, ((s \o q) \o text) \o q, o)
    BY <1>3, ScansQuote
  <2> QED BY <1>1, <1>4, <1>5, <2>1, ScanOne
<1> HIDE DEF q
<1>9. /\ Scan(Scanner(FALSE, FALSE, k, s, o), q \o text) =
           Scan(Scan(Scanner(FALSE, FALSE, k, s, o), q), text)
      /\ Scan(Scanner(FALSE, FALSE, k, s, o), all) =
           Scan(Scan(Scanner(FALSE, FALSE, k, s, o), q \o text), q)
  BY <1>1, <1>2, <1>5, ScanOn
<1> QED BY <1>6, <1>7, <1>8, <1>9

LEMMA WordPasses ==
  ASSUME NEW w \in {"open", "close", "comma", "NULL", "7", "CREATE", "INSERT", "CREATE_other",
                    "INSERT_other"}
  PROVE  w \in Characters /\ <<w>> \in Seq(Characters) /\ Passes(FALSE, <<w>>)
<1>1. w \in Characters /\ Inert(FALSE, w)
  BY CharactersAssumption DEF Inert
<1> QED BY <1>1, PassesChar

LEMMA FieldPasses ==
  ASSUME NEW f \in Fields
  PROVE  FieldText(f) \in Seq(Characters) /\ Passes(FALSE, FieldText(f))
<1>1. CASE f \in [quoted : {TRUE}, text : Seq(Characters)]
  <2>1. f.quoted /\ f.text \in Seq(Characters)
    BY <1>1
  <2>2. FieldText(f) = <<"quote">> \o FlattenSeq(EscapedText(f.text)) \o <<"quote">>
    BY <2>1 DEF FieldText, EscapedText
  <2> QED BY <2>1, <2>2, EscapedPasses, QuotedPasses
<1>2. CASE f \in {Null, Number}
  <2>1. FieldText(f) = <<"NULL">> \/ FieldText(f) = <<"7">>
    BY <1>2 DEF FieldText, Null, Number
  <2> QED BY <2>1, WordPasses
<1> QED BY <1>1, <1>2 DEF Fields

LEMMA ListPasses ==
  ASSUME NEW pieces \in Seq(Seq(Characters)), \A i \in 1..Len(pieces) : Passes(FALSE, pieces[i])
  PROVE  Listed(pieces) \in Seq(Characters) /\ Passes(FALSE, Listed(pieces))
<1>1. PICK parts \in Seq(Seq(Characters)) :
        /\ Len(parts) = Len(pieces) /\ Listed(pieces) = FlattenSeq(parts)
        /\ \A i \in 1..Len(pieces) :
             parts[i] = IF i = 1 THEN pieces[i] ELSE <<"comma">> \o pieces[i]
  BY ListedIsFlat
<1>2. ASSUME NEW i \in 1..Len(parts) PROVE Passes(FALSE, parts[i])
  <2>0. i \in 1..Len(pieces)
    BY <1>1
  <2>1. pieces[i] \in Seq(Characters) /\ Passes(FALSE, pieces[i])
    <3>1. pieces[i] \in Seq(Characters)
      BY <2>0
    <3>2. Passes(FALSE, pieces[i])
      BY <2>0
    <3> QED BY <3>1, <3>2
  <2>2. <<"comma">> \in Seq(Characters) /\ Passes(FALSE, <<"comma">>)
    BY WordPasses
  <2>3. Passes(FALSE, <<"comma">> \o pieces[i])
    BY <2>1, <2>2, PassesOn
  <2> QED BY <1>1, <2>0, <2>1, <2>3
<1> QED BY <1>1, <1>2, PassesPieces

LEMMA RowPasses ==
  ASSUME NEW row \in Seq(Fields)
  PROVE  RowText(row) \in Seq(Characters) /\ Passes(FALSE, RowText(row))
<1> DEFINE texts == [i \in DOMAIN row |-> FieldText(row[i])]
<1>1. /\ DOMAIN row = 1..Len(row) /\ Len(row) \in Nat
      /\ \A i \in 1..Len(row) : row[i] \in Fields
  OBVIOUS
<1>2. texts \in Seq(Seq(Characters)) /\ Len(texts) = Len(row)
  <2>1. \A i \in 1..Len(row) : FieldText(row[i]) \in Seq(Characters)
    BY <1>1, FieldPasses
  <2> QED BY <1>1, <2>1
<1>3. \A i \in 1..Len(texts) : Passes(FALSE, texts[i])
  BY <1>1, <1>2, FieldPasses
<1> HIDE DEF texts
<1>4. Listed(texts) \in Seq(Characters) /\ Passes(FALSE, Listed(texts))
  BY <1>2, <1>3, ListPasses
<1>5. /\ <<"open">> \o Listed(texts) \in Seq(Characters)
      /\ Passes(FALSE, <<"open">> \o Listed(texts))
  BY <1>4, WordPasses, PassesOn
<1>6. /\ (<<"open">> \o Listed(texts)) \o <<"close">> \in Seq(Characters)
      /\ Passes(FALSE, (<<"open">> \o Listed(texts)) \o <<"close">>)
  BY <1>5, WordPasses, PassesOn
<1> QED BY <1>6 DEF RowText, texts
-------------------------------------------------------------------------------
(* The reader of dumps: fields are read *)

Points == {"between", "field", "string", "escape", "skip", "skipString", "skipEscape"}

LEMMA ParserTyped ==
  ASSUME NEW point \in Points, NEW row \in Seq(Values), NEW field \in Seq(Characters),
         NEW q \in BOOLEAN, NEW rows \in Seq(Seq(Values))
  PROVE  Parser(point, row, field, q, rows) \in ParseStates
BY DEF Parser, ParseStates, Points

\* Through one character.
LEMMA ParsedByChar ==
  ASSUME NEW point \in Points, NEW row \in Seq(Values), NEW field \in Seq(Characters),
         NEW q \in BOOLEAN, NEW rows \in Seq(Seq(Values)), NEW c \in Characters
  PROVE  Parsed(Parser(point, row, field, q, rows), <<c>>) =
           ParseChar(Parser(point, row, field, q, rows), c)
<1>1. Parser(point, row, field, q, rows) \in ParseStates
  BY ParserTyped
<1> QED BY <1>1, ParsedOne

\* Through two texts.
LEMMA ParsedByBoth ==
  ASSUME NEW p \in ParseStates, NEW next, NEW s \in Seq(Characters), NEW t \in Seq(Characters),
         Parsed(p, s) = next
  PROVE  Parsed(p, s \o t) = Parsed(next, t)
BY ParsedOn

\* Through pieces, one after the other.
LEMMA ParsedByPieces ==
  ASSUME NEW pieces \in Seq(Seq(Characters)), NEW n \in Nat, n = Len(pieces),
         NEW states \in [0..n -> ParseStates],
         \A i \in 1..n : Parsed(states[i - 1], pieces[i]) = states[i]
  PROVE  Parsed(states[0], FlattenSeq(pieces)) = states[n]
<1>1. PICK at \in [0..n -> Seq(Characters)] :
        Pieced(at, pieces) /\ FlattenSeq(pieces) = at[n]
  BY Flattened
<1> DEFINE S == {i \in Nat : i <= n => Parsed(states[0], at[i]) = states[i]}
<1>2. states[0] \in ParseStates
  OBVIOUS
<1>3. 0 \in S
  <2>1. at[0] = <<>> /\ "comma" \in Characters
    BY <1>1, CharactersAssumption DEF Pieced
  <2>2. Parsed(states[0], <<>>) = states[0]
    BY <1>2, <2>1, ParsedOne
  <2> QED BY <2>1, <2>2
<1>4. ASSUME NEW i \in Nat, i \in S PROVE i + 1 \in S
  <2> SUFFICES ASSUME i + 1 <= n PROVE Parsed(states[0], at[i + 1]) = states[i + 1]
    OBVIOUS
  <2>0. i + 1 \in 1..n /\ i \in 0..n /\ (i + 1) - 1 = i
    OBVIOUS
  <2>1. at[i + 1] = at[i] \o pieces[i + 1]
    BY <1>1, <2>0 DEF Pieced
  <2>2. at[i] \in Seq(Characters) /\ pieces[i + 1] \in Seq(Characters)
    <3>1. at[i] \in Seq(Characters)
      BY <1>1, <2>0
    <3> QED BY <2>0, <3>1
  <2>3. Parsed(states[0], at[i]) = states[i]
    BY <1>4, <2>0
  <2>4. Parsed(states[i], pieces[i + 1]) = states[i + 1]
    BY <2>0
  <2>5. Parsed(states[0], at[i] \o pieces[i + 1]) = Parsed(states[i], pieces[i + 1])
    BY <1>2, <2>2, <2>3, ParsedByBoth
  <2> QED BY <2>1, <2>4, <2>5
<1> HIDE DEF S
<1>5. n \in S
  BY <1>3, <1>4, Counting
<1> QED BY <1>1, <1>5 DEF S

Plain(c) == c \notin {"quote", "backslash", "comma", "close", "semicolon"}
InText(c) == c \notin {"quote", "backslash"}
ReadAs(c, d) == Escaped(d) = <<"backslash", c>> /\ Unescaped(c) = d

LEMMA EscapedAs ==
  ASSUME NEW d \in Characters
  PROVE  \/ Escaped(d) = <<d>> /\ InText(d)
         \/ \E c \in Characters : ReadAs(c, d)
<1>1. CASE d = "newline"
  <2>1. "n" \in Characters /\ ReadAs("n", d)
    BY <1>1, CharactersAssumption DEF ReadAs, Escaped, Unescaped
  <2> QED BY <2>1
<1>2. CASE d \in {"quote", "backslash"}
  <2>1. ReadAs(d, d)
    BY <1>2 DEF ReadAs, Escaped, Unescaped
  <2> QED BY <2>1
<1>3. CASE d \notin {"newline", "quote", "backslash"}
  BY <1>3 DEF Escaped, InText
<1> QED BY <1>1, <1>2, <1>3

\* A character of a string is read as what was written.
LEMMA EscapedParsed ==
  ASSUME NEW row \in Seq(Values), NEW field \in Seq(Characters), NEW rows \in Seq(Seq(Values)),
         NEW d \in Characters
  PROVE  Parsed(Parser("string", row, field, TRUE, rows), Escaped(d)) =
           Parser("string", row, field \o <<d>>, TRUE, rows)
<1> DEFINE p == Parser("string", row, field, TRUE, rows)
           e == Parser("escape", row, field, TRUE, rows)
           next == Parser("string", row, field \o <<d>>, TRUE, rows)
<1>1. /\ Append(field, d) = field \o <<d>> /\ "string" \in Points /\ "escape" \in Points
      /\ TRUE \in BOOLEAN /\ "backslash" \in Characters
  BY CharactersAssumption DEF Points
<1>2. CASE Escaped(d) = <<d>> /\ InText(d)
  <2>1. ParseChar(p, d) = next
    BY <1>1, <1>2 DEF ParseChar, Parser, InText
  <2> HIDE DEF next
  <2>2. Parsed(p, <<d>>) = next
    BY <1>1, <2>1, ParsedByChar
  <2> QED BY <1>2, <2>2 DEF next
<1>3. ASSUME NEW c \in Characters, ReadAs(c, d) PROVE Parsed(p, Escaped(d)) = next
  <2>1. ParseChar(p, "backslash") = e
    BY DEF ParseChar, Parser
  <2>2. ParseChar(e, c) = next
    BY <1>1, <1>3 DEF ParseChar, Parser, ReadAs
  <2>3. Parsed(p, <<"backslash">>) = e
    BY <1>1, <2>1, ParsedByChar
  <2>4. Parsed(e, <<c>>) = next
    BY <1>1, <2>2, ParsedByChar
  <2>5. /\ Escaped(d) = <<"backslash">> \o <<c>>
        /\ <<"backslash">> \in Seq(Characters) /\ <<c>> \in Seq(Characters)
    BY <1>1, <1>3 DEF ReadAs
  <2>6. p \in ParseStates
    BY <1>1, ParserTyped
  <2> DEFINE slash == <<"backslash">>
             one == <<c>>
  <2> HIDE DEF p, e, next, slash, one
  <2>7. Parsed(p, <<"backslash">> \o <<c>>) = Parsed(e, <<c>>)
    <3>1. Parsed(p, slash) = e /\ slash \in Seq(Characters) /\ one \in Seq(Characters)
      BY <2>3, <2>5 DEF slash, one
    <3>2. Parsed(p, slash \o one) = Parsed(e, one)
      BY <2>6, <3>1, ParsedByBoth
    <3> QED BY <3>2 DEF slash, one
  <2> QED BY <2>4, <2>5, <2>7
<1> QED BY <1>2, <1>3, EscapedAs

LEMMA EscapedSkipped ==
  ASSUME NEW row \in Seq(Values), NEW rows \in Seq(Seq(Values)), NEW d \in Characters
  PROVE  Parsed(Parser("skipString", row, <<>>, FALSE, rows), Escaped(d)) =
           Parser("skipString", row, <<>>, FALSE, rows)
<1> DEFINE p == Parser("skipString", row, <<>>, FALSE, rows)
           e == Parser("skipEscape", row, <<>>, FALSE, rows)
<1>1. /\ "skipString" \in Points /\ "skipEscape" \in Points /\ <<>> \in Seq(Characters)
      /\ FALSE \in BOOLEAN /\ "backslash" \in Characters
  BY CharactersAssumption DEF Points
<1>2. CASE Escaped(d) = <<d>> /\ InText(d)
  <2>1. ParseChar(p, d) = p
    BY <1>2 DEF ParseChar, Parser, InText
  <2>2. Parsed(p, <<d>>) = p
    BY <1>1, <2>1, ParsedByChar
  <2> QED BY <1>2, <2>2
<1>3. ASSUME NEW c \in Characters, ReadAs(c, d) PROVE Parsed(p, Escaped(d)) = p
  <2>1. ParseChar(p, "backslash") = e
    BY DEF ParseChar, Parser
  <2>2. ParseChar(e, c) = p
    BY DEF ParseChar, Parser
  <2>3. Parsed(p, <<"backslash">>) = e
    BY <1>1, <2>1, ParsedByChar
  <2>4. Parsed(e, <<c>>) = p
    BY <1>1, <2>2, ParsedByChar
  <2>5. /\ Escaped(d) = <<"backslash">> \o <<c>>
        /\ <<"backslash">> \in Seq(Characters) /\ <<c>> \in Seq(Characters)
    BY <1>1, <1>3 DEF ReadAs
  <2>6. p \in ParseStates
    BY <1>1, ParserTyped
  <2> DEFINE slash == <<"backslash">>
             one == <<c>>
  <2> HIDE DEF p, e, slash, one
  <2>7. Parsed(p, <<"backslash">> \o <<c>>) = Parsed(e, <<c>>)
    <3>1. Parsed(p, slash) = e /\ slash \in Seq(Characters) /\ one \in Seq(Characters)
      BY <2>3, <2>5 DEF slash, one
    <3>2. Parsed(p, slash \o one) = Parsed(e, one)
      BY <2>6, <3>1, ParsedByBoth
    <3> QED BY <3>2 DEF slash, one
  <2> QED BY <2>4, <2>5, <2>7
<1> QED BY <1>2, <1>3, EscapedAs

LEMMA EscapedPieces ==
  ASSUME NEW text \in Seq(Characters)
  PROVE  /\ EscapedText(text) \in Seq(Seq(Characters)) /\ Len(EscapedText(text)) = Len(text)
         /\ \A i \in 1..Len(text) : EscapedText(text)[i] = Escaped(text[i])
         /\ FlattenSeq(EscapedText(text)) \in Seq(Characters)
<1>1. DOMAIN text = 1..Len(text)
  OBVIOUS
<1> QED BY <1>1, EscapedPasses DEF EscapedText

LEMMA PrefixTyped ==
  ASSUME NEW X, NEW s \in Seq(X), NEW i \in 0..Len(s)
  PROVE  SubSeq(s, 1, i) \in Seq(X) /\ Len(SubSeq(s, 1, i)) = i
OBVIOUS

LEMMA PrefixGrows ==
  ASSUME NEW X, NEW s \in Seq(X), NEW i \in 1..Len(s)
  PROVE  SubSeq(s, 1, i - 1) \o <<s[i]>> = SubSeq(s, 1, i)
OBVIOUS

LEMMA WholePrefix ==
  ASSUME NEW X, NEW s \in Seq(X)
  PROVE  SubSeq(s, 1, 0) = <<>> /\ SubSeq(s, 1, Len(s)) = s /\ Len(s) \in Nat
OBVIOUS

LEMMA StringParsed ==
  ASSUME NEW text \in Seq(Characters), NEW row \in Seq(Values), NEW rows \in Seq(Seq(Values))
  PROVE  Parsed(Parser("string", row, <<>>, TRUE, rows), FlattenSeq(EscapedText(text))) =
           Parser("string", row, text, TRUE, rows)
<1> DEFINE n == Len(text)
           P(field) == Parser("string", row, field, TRUE, rows)
           states == [i \in 0..n |-> P(SubSeq(text, 1, i))]
<1>1. n \in Nat /\ SubSeq(text, 1, 0) = <<>> /\ SubSeq(text, 1, n) = text
  BY WholePrefix
<1>2. ASSUME NEW i \in 0..n PROVE P(SubSeq(text, 1, i)) \in ParseStates
  <2>1. SubSeq(text, 1, i) \in Seq(Characters) /\ "string" \in Points /\ TRUE \in BOOLEAN
    BY DEF Points
  <2> QED BY <2>1, ParserTyped
<1>3. states \in [0..n -> ParseStates]
  BY <1>2
<1>4. ASSUME NEW i \in 1..n PROVE Parsed(states[i - 1], EscapedText(text)[i]) = states[i]
  <2>1. /\ i - 1 \in 0..n /\ i \in 0..n /\ SubSeq(text, 1, i - 1) \in Seq(Characters)
        /\ text[i] \in Characters /\ SubSeq(text, 1, i - 1) \o <<text[i]>> = SubSeq(text, 1, i)
    <3>1. i - 1 \in 0..n /\ i \in 0..n
      BY <1>1
    <3>2. SubSeq(text, 1, i - 1) \in Seq(Characters) /\ text[i] \in Characters
      BY <3>1, PrefixTyped
    <3>3. SubSeq(text, 1, i - 1) \o <<text[i]>> = SubSeq(text, 1, i)
      BY PrefixGrows
    <3> QED BY <3>1, <3>2, <3>3
  <2>2. EscapedText(text)[i] = Escaped(text[i])
    BY EscapedPieces
  <2>3. Parsed(P(SubSeq(text, 1, i - 1)), Escaped(text[i])) = P(SubSeq(text, 1, i))
    BY <2>1, EscapedParsed
  <2> HIDE DEF P, n
  <2> QED BY <2>1, <2>2, <2>3
<1>5. EscapedText(text) \in Seq(Seq(Characters)) /\ n = Len(EscapedText(text))
  BY EscapedPieces
<1> HIDE DEF P, n
<1>6. states[0] = P(<<>>) /\ states[n] = P(text)
  <2>1. 0 \in 0..n /\ n \in 0..n
    BY <1>1
  <2> QED BY <1>1, <2>1
<1> HIDE DEF states
<1>7. Parsed(states[0], FlattenSeq(EscapedText(text))) = states[n]
  BY <1>1, <1>3, <1>4, <1>5, ParsedByPieces
<1> QED BY <1>6, <1>7 DEF P

LEMMA StringSkipped ==
  ASSUME NEW text \in Seq(Characters), NEW row \in Seq(Values), NEW rows \in Seq(Seq(Values))
  PROVE  Parsed(Parser("skipString", row, <<>>, FALSE, rows), FlattenSeq(EscapedText(text))) =
           Parser("skipString", row, <<>>, FALSE, rows)
<1> DEFINE n == Len(text)
           p == Parser("skipString", row, <<>>, FALSE, rows)
           states == [i \in 0..n |-> p]
<1>1. n \in Nat /\ p \in ParseStates
  <2>1. <<>> \in Seq(Characters) /\ "skipString" \in Points /\ FALSE \in BOOLEAN
    BY DEF Points
  <2>2. p \in ParseStates
    BY <2>1, ParserTyped
  <2> QED BY <2>2, WholePrefix
<1>2. ASSUME NEW i \in 1..n PROVE Parsed(states[i - 1], EscapedText(text)[i]) = states[i]
  <2>1. i - 1 \in 0..n /\ i \in 0..n /\ text[i] \in Characters
    BY <1>1
  <2>2. EscapedText(text)[i] = Escaped(text[i])
    BY EscapedPieces
  <2>3. Parsed(p, Escaped(text[i])) = p
    BY <2>1, EscapedSkipped
  <2> HIDE DEF p, n
  <2> QED BY <2>1, <2>2, <2>3
<1>3. EscapedText(text) \in Seq(Seq(Characters)) /\ n = Len(EscapedText(text))
  BY EscapedPieces
<1> HIDE DEF p, n
<1>4. states \in [0..n -> ParseStates] /\ states[0] = p /\ states[n] = p
  BY <1>1
<1> HIDE DEF states
<1>5. Parsed(states[0], FlattenSeq(EscapedText(text))) = states[n]
  BY <1>1, <1>2, <1>3, <1>4, ParsedByPieces
<1> QED BY <1>4, <1>5 DEF p

LEMMA FieldsAre ==
  ASSUME NEW f \in Fields
  PROVE  /\ f \in Values /\ f.text \in Seq(Characters) /\ f.quoted \in BOOLEAN
         /\ f = [quoted |-> f.quoted, text |-> f.text] /\ (f.quoted \/ f.text # <<>>)
         /\ ~f.quoted => f = Null \/ f = Number
<1>1. CASE f \in [quoted : {TRUE}, text : Seq(Characters)]
  BY <1>1 DEF Values
<1>2. CASE f \in {Null, Number}
  <2>1. <<"NULL">> \in Seq(Characters) /\ <<"7">> \in Seq(Characters)
    BY CharactersAssumption
  <2>2. CASE f = Null
    BY <2>1, <2>2 DEF Values, Null
  <2>3. CASE f = Number
    BY <2>1, <2>3 DEF Values, Number
  <2> QED BY <1>2, <2>2, <2>3
<1> QED BY <1>1, <1>2 DEF Fields

\* A field is read as what was written.
LEMMA FieldParsed ==
  ASSUME NEW f \in Fields, NEW row \in Seq(Values), NEW rows \in Seq(Seq(Values))
  PROVE  Parsed(Parser("field", row, <<>>, FALSE, rows), FieldText(f)) =
           Parser("field", row, f.text, f.quoted, rows)
<1> DEFINE p == Parser("field", row, <<>>, FALSE, rows)
           next == Parser("field", row, f.text, f.quoted, rows)
<1>1. /\ "field" \in Points /\ "string" \in Points /\ <<>> \in Seq(Characters)
      /\ TRUE \in BOOLEAN /\ FALSE \in BOOLEAN /\ "quote" \in Characters
      /\ <<"quote">> \in Seq(Characters) /\ f.text \in Seq(Characters)
  BY CharactersAssumption, FieldsAre DEF Points
<1>2. CASE f.quoted = TRUE
  <2> DEFINE opened == Parser("string", row, <<>>, TRUE, rows)
             through == Parser("string", row, f.text, TRUE, rows)
             text == FlattenSeq(EscapedText(f.text))
             quote == <<"quote">>
  <2>1. FieldText(f) = quote \o text \o quote
    BY <1>2 DEF FieldText, EscapedText
  <2>2. Parsed(p, quote) = opened
    <3>1. ParseChar(p, "quote") = opened
      BY DEF ParseChar, Parser
    <3> QED BY <1>1, <3>1, ParsedByChar
  <2>3. Parsed(opened, text) = through
    BY <1>1, StringParsed
  <2>4. Parsed(through, quote) = next
    <3>1. ParseChar(through, "quote") = next
      BY <1>2 DEF ParseChar, Parser
    <3> QED BY <1>1, <3>1, ParsedByChar
  <2>5. text \in Seq(Characters) /\ quote \in Seq(Characters) /\ quote \o text \in Seq(Characters)
    <3>1. text \in Seq(Characters)
      BY <1>1, EscapedPieces
    <3> HIDE DEF text
    <3> QED BY <1>1, <3>1
  <2>6. p \in ParseStates
    BY <1>1, ParserTyped
  <2> HIDE DEF p, next, opened, through, text, quote
  <2>7. Parsed(p, quote \o text) = through
    BY <2>2, <2>3, <2>5, <2>6, ParsedByBoth
  <2> DEFINE read == quote \o text
  <2> HIDE DEF read
  <2>8. Parsed(p, read \o quote) = next
    <3>1. read \in Seq(Characters) /\ Parsed(p, read) = through
      BY <2>5, <2>7 DEF read
    <3> QED BY <2>4, <2>5, <2>6, <3>1, ParsedByBoth
  <2> QED BY <2>1, <2>8 DEF p, next, read
<1>3. CASE ~f.quoted
  <2>1. PICK c \in Characters : FieldText(f) = <<c>> /\ f.text = <<c>> /\ Plain(c) /\ f.quoted = FALSE
    <3>1. f = Null \/ f = Number
      BY <1>3, FieldsAre
    <3>2. "NULL" \in Characters /\ "7" \in Characters
      BY CharactersAssumption
    <3> QED BY <3>1, <3>2 DEF FieldText, Null, Number, Plain
  <2>2. ParseChar(p, c) = next
    <3>1. Append(<<>>, c) = <<c>>
      OBVIOUS
    <3> QED BY <2>1, <3>1 DEF ParseChar, Parser, Plain
  <2>3. Parsed(p, <<c>>) = ParseChar(p, c)
    BY <1>1, ParsedByChar
  <2> HIDE DEF p, next
  <2> QED BY <2>1, <2>2, <2>3 DEF p, next
<1> QED BY <1>2, <1>3, FieldsAre

\* What is past the fields wanted is skipped.
LEMMA FieldSkipped ==
  ASSUME NEW f \in Fields, NEW row \in Seq(Values), NEW rows \in Seq(Seq(Values))
  PROVE  Parsed(Parser("skip", row, <<>>, FALSE, rows), FieldText(f)) =
           Parser("skip", row, <<>>, FALSE, rows)
<1> DEFINE p == Parser("skip", row, <<>>, FALSE, rows)
<1>1. /\ "skip" \in Points /\ "skipString" \in Points /\ <<>> \in Seq(Characters)
      /\ FALSE \in BOOLEAN /\ "quote" \in Characters
      /\ <<"quote">> \in Seq(Characters) /\ f.text \in Seq(Characters)
  BY CharactersAssumption, FieldsAre DEF Points
<1>2. CASE f.quoted = TRUE
  <2> DEFINE opened == Parser("skipString", row, <<>>, FALSE, rows)
             text == FlattenSeq(EscapedText(f.text))
             quote == <<"quote">>
  <2>1. FieldText(f) = quote \o text \o quote
    BY <1>2 DEF FieldText, EscapedText
  <2>2. Parsed(p, quote) = opened
    <3>1. ParseChar(p, "quote") = opened
      BY DEF ParseChar, Parser
    <3> QED BY <1>1, <3>1, ParsedByChar
  <2>3. Parsed(opened, text) = opened
    BY <1>1, StringSkipped
  <2>4. Parsed(opened, quote) = p
    <3>1. ParseChar(opened, "quote") = p
      BY DEF ParseChar, Parser
    <3> QED BY <1>1, <3>1, ParsedByChar
  <2>5. text \in Seq(Characters) /\ quote \in Seq(Characters) /\ quote \o text \in Seq(Characters)
    <3>1. text \in Seq(Characters)
      BY <1>1, EscapedPieces
    <3> HIDE DEF text
    <3> QED BY <1>1, <3>1
  <2>6. p \in ParseStates
    BY <1>1, ParserTyped
  <2> HIDE DEF p, opened, text, quote
  <2>7. Parsed(p, quote \o text) = opened
    BY <2>2, <2>3, <2>5, <2>6, ParsedByBoth
  <2> DEFINE read == quote \o text
  <2> HIDE DEF read
  <2>8. Parsed(p, read \o quote) = p
    <3>1. read \in Seq(Characters) /\ Parsed(p, read) = opened
      BY <2>5, <2>7 DEF read
    <3> QED BY <2>4, <2>5, <2>6, <3>1, ParsedByBoth
  <2> QED BY <2>1, <2>8 DEF p, read
<1>3. CASE ~f.quoted
  <2>1. PICK c \in Characters : FieldText(f) = <<c>> /\ Plain(c)
    <3>1. f = Null \/ f = Number
      BY <1>3, FieldsAre
    <3>2. "NULL" \in Characters /\ "7" \in Characters
      BY CharactersAssumption
    <3>3. Plain("NULL") /\ Plain("7")
      BY DEF Plain
    <3>4. FieldText(Null) = <<"NULL">> /\ FieldText(Number) = <<"7">>
      BY DEF FieldText, Null, Number
    <3> QED BY <3>1, <3>2, <3>3, <3>4
  <2>2. ParseChar(p, c) = p
    BY <2>1 DEF ParseChar, Parser, Plain
  <2>3. Parsed(p, <<c>>) = ParseChar(p, c)
    BY <1>1, ParsedByChar
  <2> HIDE DEF p
  <2> QED BY <2>1, <2>2, <2>3 DEF p
<1> QED BY <1>2, <1>3, FieldsAre

\* Whether no field is wanted after these.
Enough(row) == maxFields # 0 /\ Len(row) >= maxFields

LEMMA ParserMoves ==
  ASSUME NEW point, NEW next, NEW row, NEW field, NEW q, NEW rows
  PROVE  [Parser(point, row, field, q, rows) EXCEPT !.at = next] =
           Parser(next, row, field, q, rows)
BY DEF Parser

LEMMA FieldEnds ==
  ASSUME NEW f \in Fields, NEW row \in Seq(Values), NEW rows \in Seq(Seq(Values))
  PROVE  EndField(Parser("field", row, f.text, f.quoted, rows)) =
           Parser("field", row \o <<f>>, <<>>, FALSE, rows)
<1>1. /\ f \in Values /\ f = [quoted |-> f.quoted, text |-> f.text]
      /\ f.quoted \/ f.text # <<>>
  BY FieldsAre
<1>2. Append(row, f) = row \o <<f>>
  BY <1>1
<1> DEFINE p == Parser("field", row, f.text, f.quoted, rows)
<1>3. FinishField(p) = f
  BY <1>1 DEF FinishField, Parser
<1>4. EndField(p) = [p EXCEPT !.row = Append(p.row, FinishField(p)), !.field = <<>>, !.quoted = FALSE]
  BY DEF EndField
<1>5. p.row = row
  BY DEF Parser
<1>6. ASSUME NEW more
      PROVE  [p EXCEPT !.row = more, !.field = <<>>, !.quoted = FALSE] =
               Parser("field", more, <<>>, FALSE, rows)
  <2>1. PICK off : off = FALSE
    OBVIOUS
  <2>2. [p EXCEPT !.row = more] = Parser("field", more, f.text, f.quoted, rows)
    BY DEF Parser
  <2>3. [Parser("field", more, f.text, f.quoted, rows) EXCEPT !.field = <<>>] =
          Parser("field", more, <<>>, f.quoted, rows)
    BY DEF Parser
  <2>4. [Parser("field", more, <<>>, f.quoted, rows) EXCEPT !.quoted = off] =
          Parser("field", more, <<>>, off, rows)
    BY DEF Parser
  <2>5. [p EXCEPT !.row = more, !.field = <<>>, !.quoted = off] =
          [[[p EXCEPT !.row = more] EXCEPT !.field = <<>>] EXCEPT !.quoted = off]
    OBVIOUS
  <2> QED BY <2>1, <2>2, <2>3, <2>4, <2>5
<1> HIDE DEF p
<1> QED BY <1>2, <1>3, <1>4, <1>5, <1>6 DEF p

\* At a comma the next field begins, or what is left of the row is skipped.
LEMMA CommaParsed ==
  ASSUME NEW f \in Fields, NEW row \in Seq(Values), NEW rows \in Seq(Seq(Values))
  PROVE  Parsed(Parser("field", row, f.text, f.quoted, rows), <<"comma">>) =
           Parser(IF Enough(row \o <<f>>) THEN "skip" ELSE "field", row \o <<f>>, <<>>, FALSE, rows)
<1> DEFINE p == Parser("field", row, f.text, f.quoted, rows)
           ended == Parser("field", row \o <<f>>, <<>>, FALSE, rows)
<1>1. /\ "field" \in Points /\ f.text \in Seq(Characters) /\ f.quoted \in BOOLEAN
      /\ "comma" \in Characters
  BY CharactersAssumption, FieldsAre DEF Points
<1>2. Parsed(p, <<"comma">>) = ParseChar(p, "comma")
  BY <1>1, ParsedByChar
<1>3. ParseChar(p, "comma") =
        IF Capped(EndField(p)) THEN [EndField(p) EXCEPT !.at = "skip"] ELSE EndField(p)
  BY DEF ParseChar, Parser
<1>4. EndField(p) = ended
  BY FieldEnds
<1>5. Capped(ended) <=> Enough(row \o <<f>>)
  BY DEF Capped, Enough, Parser
<1>6. [ended EXCEPT !.at = "skip"] = Parser("skip", row \o <<f>>, <<>>, FALSE, rows)
  <2>1. PICK off : off = FALSE
    OBVIOUS
  <2>2. [Parser("field", row \o <<f>>, <<>>, off, rows) EXCEPT !.at = "skip"] =
          Parser("skip", row \o <<f>>, <<>>, off, rows)
    BY ParserMoves
  <2> QED BY <2>1, <2>2
<1> HIDE DEF p
<1> QED BY <1>2, <1>3, <1>4, <1>5, <1>6 DEF p

LEMMA CommaSkipped ==
  ASSUME NEW row \in Seq(Values), NEW rows \in Seq(Seq(Values))
  PROVE  Parsed(Parser("skip", row, <<>>, FALSE, rows), <<"comma">>) =
           Parser("skip", row, <<>>, FALSE, rows)
<1>1. "skip" \in Points /\ <<>> \in Seq(Characters) /\ FALSE \in BOOLEAN /\ "comma" \in Characters
  BY CharactersAssumption DEF Points
<1>2. ParseChar(Parser("skip", row, <<>>, FALSE, rows), "comma") =
        Parser("skip", row, <<>>, FALSE, rows)
  BY DEF ParseChar, Parser
<1> QED BY <1>1, <1>2, ParsedByChar

LEMMA CloseParsed ==
  ASSUME NEW f \in Fields, NEW row \in Seq(Values), NEW rows \in Seq(Seq(Values))
  PROVE  Parsed(Parser("field", row, f.text, f.quoted, rows), <<"close">>) =
           Parser("between", <<>>, <<>>, FALSE, rows \o <<row \o <<f>>>>)
<1> DEFINE p == Parser("field", row, f.text, f.quoted, rows)
           ended == Parser("field", row \o <<f>>, <<>>, FALSE, rows)
<1>1. /\ "field" \in Points /\ f.text \in Seq(Characters) /\ f.quoted \in BOOLEAN
      /\ "close" \in Characters /\ f \in Values
  BY CharactersAssumption, FieldsAre DEF Points
<1>2. Parsed(p, <<"close">>) = ParseChar(p, "close")
  BY <1>1, ParsedByChar
<1>3. ParseChar(p, "close") = EndRow(EndField(p))
  BY DEF ParseChar, Parser
<1>4. EndField(p) = ended
  BY FieldEnds
<1>5. EndRow(ended) = Parser("between", <<>>, <<>>, FALSE, rows \o <<row \o <<f>>>>)
  <2> DEFINE more == row \o <<f>>
  <2>1. more \in Seq(Values)
    BY <1>1
  <2> HIDE DEF more
  <2>2. Append(rows, more) = rows \o <<more>>
    BY <2>1
  <2>3. EndRow(Parser("field", more, <<>>, FALSE, rows)) =
          Parser("between", <<>>, <<>>, FALSE, Append(rows, more))
    <3>1. /\ Parser("field", more, <<>>, FALSE, rows).rows = rows
          /\ Parser("field", more, <<>>, FALSE, rows).row = more
      BY DEF Parser
    <3>2. PICK off : off = FALSE
      OBVIOUS
    <3>3. ASSUME NEW all
          PROVE  [Parser("between", <<>>, <<>>, off, <<>>) EXCEPT !.rows = all] =
                   Parser("between", <<>>, <<>>, off, all)
      BY DEF Parser
    <3>4. Between = Parser("between", <<>>, <<>>, FALSE, <<>>)
      BY DEF Between, Parser
    <3> QED BY <3>1, <3>2, <3>3, <3>4 DEF EndRow
  <2> QED BY <2>2, <2>3 DEF more
<1> HIDE DEF p, ended
<1> QED BY <1>2, <1>3, <1>4, <1>5 DEF p

LEMMA CloseSkipped ==
  ASSUME NEW row \in Seq(Values), NEW rows \in Seq(Seq(Values))
  PROVE  Parsed(Parser("skip", row, <<>>, FALSE, rows), <<"close">>) =
           Parser("between", <<>>, <<>>, FALSE, rows \o <<row>>)
<1>1. "skip" \in Points /\ <<>> \in Seq(Characters) /\ FALSE \in BOOLEAN /\ "close" \in Characters
  BY CharactersAssumption DEF Points
<1>2. Append(rows, row) = rows \o <<row>>
  OBVIOUS
<1>3. ParseChar(Parser("skip", row, <<>>, FALSE, rows), "close") =
        Parser("between", <<>>, <<>>, FALSE, rows \o <<row>>)
  BY <1>2 DEF ParseChar, Parser, EndRow, Between
<1> QED BY <1>1, <1>3, ParsedByChar

\* The parser after the i-th field of a row.
RowAt(row, rows, i) ==
  IF i = 0 THEN Parser("field", <<>>, <<>>, FALSE, rows)
  ELSE IF maxFields = 0 \/ i <= maxFields
  THEN Parser("field", SubSeq(row, 1, i - 1), row[i].text, row[i].quoted, rows)
  ELSE Parser("skip", SubSeq(row, 1, maxFields), <<>>, FALSE, rows)

LEMMA RowsAreValues ==
  ASSUME NEW row \in Seq(Fields)
  PROVE  row \in Seq(Values)
<1>1. \A i \in 1..Len(row) : row[i] \in Values
  <2>1. \A i \in 1..Len(row) : row[i] \in Fields
    OBVIOUS
  <2> QED BY <2>1, FieldsAre
<1> QED BY <1>1

LEMMA RowAtTyped ==
  ASSUME NEW row \in Seq(Fields), NEW rows \in Seq(Seq(Values)), NEW i \in 0..Len(row),
         maxFields \in Nat
  PROVE  RowAt(row, rows, i) \in ParseStates
<1>1. /\ "field" \in Points /\ "skip" \in Points /\ <<>> \in Seq(Characters)
      /\ <<>> \in Seq(Values) /\ FALSE \in BOOLEAN /\ row \in Seq(Values) /\ i \in Nat
  BY RowsAreValues DEF Points
<1>2. CASE i = 0
  <2>1. Parser("field", <<>>, <<>>, FALSE, rows) \in ParseStates
    BY <1>1, ParserTyped
  <2> QED BY <1>2, <2>1 DEF RowAt
<1>3. CASE i # 0 /\ (maxFields = 0 \/ i <= maxFields)
  <2>1. row[i] \in Fields /\ i - 1 \in 0..Len(row)
    BY <1>1, <1>3
  <2>2. /\ row[i].text \in Seq(Characters) /\ row[i].quoted \in BOOLEAN
        /\ SubSeq(row, 1, i - 1) \in Seq(Values)
    BY <1>1, <2>1, FieldsAre, PrefixTyped
  <2>3. Parser("field", SubSeq(row, 1, i - 1), row[i].text, row[i].quoted, rows) \in ParseStates
    BY <1>1, <2>2, ParserTyped
  <2> QED BY <1>3, <2>3 DEF RowAt
<1>4. CASE i # 0 /\ ~(maxFields = 0 \/ i <= maxFields)
  <2>1. maxFields \in 0..Len(row)
    BY <1>1, <1>4
  <2>2. SubSeq(row, 1, maxFields) \in Seq(Values)
    BY <1>1, <2>1, PrefixTyped
  <2>3. Parser("skip", SubSeq(row, 1, maxFields), <<>>, FALSE, rows) \in ParseStates
    BY <1>1, <2>2, ParserTyped
  <2> QED BY <1>4, <2>3 DEF RowAt
<1> QED BY <1>2, <1>3, <1>4

LEMMA FirstFieldParsed ==
  ASSUME NEW row \in Seq(Fields), row # <<>>, NEW rows \in Seq(Seq(Values)), maxFields \in Nat
  PROVE  Parsed(RowAt(row, rows, 0), FieldText(row[1])) = RowAt(row, rows, 1)
<1>1. row[1] \in Fields /\ <<>> \in Seq(Values) /\ SubSeq(row, 1, 1 - 1) = <<>>
  OBVIOUS
<1>2. maxFields = 0 \/ 1 <= maxFields
  OBVIOUS
<1>3. Parsed(Parser("field", <<>>, <<>>, FALSE, rows), FieldText(row[1])) =
        Parser("field", <<>>, row[1].text, row[1].quoted, rows)
  BY <1>1, FieldParsed
<1>4. RowAt(row, rows, 0) = Parser("field", <<>>, <<>>, FALSE, rows)
  BY DEF RowAt
<1>5. RowAt(row, rows, 1) = Parser("field", <<>>, row[1].text, row[1].quoted, rows)
  <2>1. PICK i \in 1..Len(row) : i = 1
    BY <1>1
  <2>2. i # 0 /\ (maxFields = 0 \/ i <= maxFields)
    BY <1>2, <2>1
  <2>3. RowAt(row, rows, i) = Parser("field", SubSeq(row, 1, i - 1), row[i].text, row[i].quoted, rows)
    BY <2>2 DEF RowAt
  <2> QED BY <1>1, <2>1, <2>3
<1> QED BY <1>3, <1>4, <1>5

LEMMA NextFieldParsed ==
  ASSUME NEW row \in Seq(Fields), NEW rows \in Seq(Seq(Values)), NEW i \in 1..Len(row), i # 1,
         maxFields \in Nat
  PROVE  Parsed(RowAt(row, rows, i - 1), <<"comma">> \o FieldText(row[i])) = RowAt(row, rows, i)
<1> DEFINE f == row[i]
           last == row[i - 1]
           so == SubSeq(row, 1, i - 1)
           comma == <<"comma">>
<1>1. /\ i \in Nat /\ i - 1 \in 1..Len(row) /\ i - 1 # 0 /\ i - 1 \in 0..Len(row)
      /\ (i - 1) - 1 \in 0..Len(row)
      /\ f \in Fields /\ last \in Fields
  OBVIOUS
<1>2. /\ row \in Seq(Values) /\ FieldText(f) \in Seq(Characters) /\ comma \in Seq(Characters)
      /\ RowAt(row, rows, i - 1) \in ParseStates
  BY <1>1, RowsAreValues, FieldPasses, WordPasses, RowAtTyped
<1>3. so \in Seq(Values) /\ Len(so) = i - 1
  BY <1>1, <1>2, PrefixTyped
<1>4. SubSeq(row, 1, (i - 1) - 1) \o <<last>> = so
  BY <1>1, <1>2, PrefixGrows
<1>5. SubSeq(row, 1, (i - 1) - 1) \in Seq(Values)
  BY <1>1, <1>2, PrefixTyped
<1>6. CASE maxFields = 0 \/ i <= maxFields
  <2>1. ~Enough(so) /\ (maxFields = 0 \/ i - 1 <= maxFields)
    BY <1>1, <1>3, <1>6 DEF Enough
  <2>2. RowAt(row, rows, i - 1) =
          Parser("field", SubSeq(row, 1, (i - 1) - 1), last.text, last.quoted, rows)
    BY <1>1, <2>1 DEF RowAt
  <2>3. Parsed(RowAt(row, rows, i - 1), comma) = Parser("field", so, <<>>, FALSE, rows)
    BY <1>1, <1>4, <1>5, <2>1, <2>2, CommaParsed
  <2>4. Parsed(Parser("field", so, <<>>, FALSE, rows), FieldText(f)) =
          Parser("field", so, f.text, f.quoted, rows)
    BY <1>1, <1>3, FieldParsed
  <2>5. RowAt(row, rows, i) = Parser("field", so, f.text, f.quoted, rows)
    <3>1. i # 0
      BY <1>1
    <3> QED BY <1>6, <3>1 DEF RowAt
  <2> HIDE DEF f, so, comma
  <2> QED BY <1>2, <2>3, <2>4, <2>5, ParsedByBoth DEF f, comma
<1>7. CASE ~(maxFields = 0 \/ i <= maxFields)
  <2> DEFINE kept == SubSeq(row, 1, maxFields)
             p == Parser("skip", kept, <<>>, FALSE, rows)
  <2>1. maxFields \in 0..Len(row)
    BY <1>1, <1>7
  <2>2. kept \in Seq(Values)
    BY <1>2, <2>1, PrefixTyped
  <2>3. Parsed(RowAt(row, rows, i - 1), comma) = p
    <3>1. CASE i - 1 = maxFields
      <4>1. Enough(so) /\ so = kept
        BY <1>3, <1>7, <3>1 DEF Enough
      <4>2. RowAt(row, rows, i - 1) =
              Parser("field", SubSeq(row, 1, (i - 1) - 1), last.text, last.quoted, rows)
        <5>1. i - 1 # 0 /\ (maxFields = 0 \/ i - 1 <= maxFields)
          BY <1>1, <3>1
        <5> QED BY <5>1 DEF RowAt
      <4> QED BY <1>1, <1>4, <1>5, <4>1, <4>2, CommaParsed
    <3>2. CASE i - 1 # maxFields
      <4>1. i - 1 # 0 /\ ~(maxFields = 0 \/ i - 1 <= maxFields)
        BY <1>1, <1>7, <3>2
      <4>2. RowAt(row, rows, i - 1) = p
        BY <4>1 DEF RowAt
      <4> QED BY <2>2, <4>2, CommaSkipped
    <3> QED BY <3>1, <3>2
  <2>4. Parsed(p, FieldText(f)) = p
    BY <1>1, <2>2, FieldSkipped
  <2>5. RowAt(row, rows, i) = p
    <3>1. i # 0
      BY <1>1
    <3> QED BY <1>7, <3>1 DEF RowAt
  <2> HIDE DEF f, so, comma, p
  <2> QED BY <1>2, <2>3, <2>4, <2>5, ParsedByBoth DEF f, comma
<1> QED BY <1>6, <1>7

FieldTexts(row) == [i \in DOMAIN row |-> FieldText(row[i])]

LEMMA FieldTextsAre ==
  ASSUME NEW row \in Seq(Fields)
  PROVE  /\ FieldTexts(row) \in Seq(Seq(Characters)) /\ Len(FieldTexts(row)) = Len(row)
         /\ \A i \in 1..Len(row) : FieldTexts(row)[i] = FieldText(row[i])
<1>1. DOMAIN row = 1..Len(row) /\ \A i \in 1..Len(row) : row[i] \in Fields
  OBVIOUS
<1>2. \A i \in 1..Len(row) : FieldText(row[i]) \in Seq(Characters)
  BY <1>1, FieldPasses
<1>3. FieldTexts(row) = [i \in 1..Len(row) |-> FieldText(row[i])]
  BY <1>1 DEF FieldTexts
<1> QED BY <1>2, <1>3

LEMMA FieldsParsed ==
  ASSUME NEW row \in Seq(Fields), row # <<>>, NEW rows \in Seq(Seq(Values)), maxFields \in Nat
  PROVE  Parsed(RowAt(row, rows, 0), Listed(FieldTexts(row))) = RowAt(row, rows, Len(row))
<1> DEFINE n == Len(row)
           states == [i \in 0..n |-> RowAt(row, rows, i)]
<1>1. PICK parts \in Seq(Seq(Characters)) :
        /\ Len(parts) = Len(FieldTexts(row)) /\ Listed(FieldTexts(row)) = FlattenSeq(parts)
        /\ \A i \in 1..Len(FieldTexts(row)) :
             parts[i] = IF i = 1 THEN FieldTexts(row)[i] ELSE <<"comma">> \o FieldTexts(row)[i]
  BY FieldTextsAre, ListedIsFlat
<1>2. n \in Nat /\ n = Len(parts) /\ \A i \in 1..n :
        parts[i] = IF i = 1 THEN FieldText(row[i]) ELSE <<"comma">> \o FieldText(row[i])
  BY <1>1, FieldTextsAre
<1>3. states \in [0..n -> ParseStates]
  BY RowAtTyped
<1>4. ASSUME NEW i \in 1..n PROVE Parsed(states[i - 1], parts[i]) = states[i]
  <2>1. states[i - 1] = RowAt(row, rows, i - 1) /\ states[i] = RowAt(row, rows, i)
    BY <1>2
  <2>2. CASE i = 1
    <3>1. parts[i] = FieldText(row[1]) /\ i - 1 = 0
      BY <1>2, <2>2
    <3> QED BY <2>1, <2>2, <3>1, FirstFieldParsed
  <2>3. CASE i # 1
    <3>1. parts[i] = <<"comma">> \o FieldText(row[i])
      BY <1>2, <2>3
    <3>2. Parsed(RowAt(row, rows, i - 1), <<"comma">> \o FieldText(row[i])) = RowAt(row, rows, i)
      BY <2>3, NextFieldParsed
    <3> QED BY <2>1, <3>1, <3>2
  <2> QED BY <2>2, <2>3
<1> HIDE DEF n
<1>5. states[0] = RowAt(row, rows, 0) /\ states[n] = RowAt(row, rows, n)
  BY <1>2
<1> HIDE DEF states
<1>6. Parsed(states[0], FlattenSeq(parts)) = states[n]
  BY <1>2, <1>3, <1>4, ParsedByPieces
<1> QED BY <1>1, <1>5, <1>6 DEF n

\* Of a row the first fields are read.
LEMMA RowParsed ==
  ASSUME NEW row \in Seq(Fields), row # <<>>, NEW rows \in Seq(Seq(Values)), maxFields \in Nat
  PROVE  /\ FirstFields(row) \in Seq(Values)
         /\ Parsed(Parser("between", <<>>, <<>>, FALSE, rows), RowText(row)) =
              Parser("between", <<>>, <<>>, FALSE, rows \o <<FirstFields(row)>>)
<1> DEFINE p == Parser("between", <<>>, <<>>, FALSE, rows)
           next == Parser("between", <<>>, <<>>, FALSE, rows \o <<FirstFields(row)>>)
           n == Len(row)
           text == Listed(FieldTexts(row))
           open == <<"open">>
           close == <<"close">>
<1>1. /\ "between" \in Points /\ <<>> \in Seq(Characters) /\ <<>> \in Seq(Values)
      /\ FALSE \in BOOLEAN /\ "open" \in Characters /\ row \in Seq(Values)
      /\ n \in Nat /\ n # 0 /\ n \in 1..n /\ n \in 0..n
  BY CharactersAssumption, RowsAreValues DEF Points
<1>2. p \in ParseStates
  BY <1>1, ParserTyped
<1>3. text \in Seq(Characters) /\ open \in Seq(Characters) /\ close \in Seq(Characters)
  <2>1. \A i \in 1..Len(FieldTexts(row)) : Passes(FALSE, FieldTexts(row)[i])
    <3>1. \A i \in 1..n : row[i] \in Fields
      OBVIOUS
    <3> QED BY <3>1, FieldTextsAre, FieldPasses
  <2> QED BY <2>1, FieldTextsAre, ListPasses, WordPasses
<1>4. Parsed(p, open) = RowAt(row, rows, 0)
  <2>1. ParseChar(p, "open") = Parser("field", <<>>, <<>>, FALSE, rows)
    BY DEF ParseChar, Parser
  <2> QED BY <1>1, <2>1, ParsedByChar DEF RowAt
<1>5. Parsed(RowAt(row, rows, 0), text) = RowAt(row, rows, n)
  BY FieldsParsed
<1>6. /\ FirstFields(row) \in Seq(Values)
      /\ Parsed(RowAt(row, rows, n), close) = next
  <2>1. CASE maxFields = 0 \/ n <= maxFields
    <3>1. FirstFields(row) = row
      BY <2>1 DEF FirstFields
    <3>2. RowAt(row, rows, n) =
            Parser("field", SubSeq(row, 1, n - 1), row[n].text, row[n].quoted, rows)
      BY <1>1, <2>1 DEF RowAt
    <3>3. SubSeq(row, 1, n - 1) \in Seq(Values)
      <4>1. n - 1 \in 0..n
        BY <1>1
      <4> QED BY <1>1, <4>1, PrefixTyped
    <3>4. SubSeq(row, 1, n - 1) \o <<row[n]>> = row
      BY <1>1, PrefixGrows, WholePrefix
    <3>5. row[n] \in Fields
      BY <1>1
    <3> HIDE DEF n
    <3> QED BY <1>1, <3>1, <3>2, <3>3, <3>4, <3>5, CloseParsed
  <2>2. CASE ~(maxFields = 0 \/ n <= maxFields)
    <3>1. FirstFields(row) = SubSeq(row, 1, maxFields)
      BY <2>2 DEF FirstFields
    <3>2. RowAt(row, rows, n) = Parser("skip", FirstFields(row), <<>>, FALSE, rows)
      BY <1>1, <2>2, <3>1 DEF RowAt
    <3>3. FirstFields(row) \in Seq(Values)
      <4>1. maxFields \in 0..n
        BY <1>1, <2>2
      <4> QED BY <1>1, <3>1, <4>1, PrefixTyped
    <3> QED BY <3>2, <3>3, CloseSkipped
  <2> QED BY <2>1, <2>2
<1>7. RowText(row) = (open \o text) \o close /\ open \o text \in Seq(Characters)
  <2>1. RowText(row) = open \o text \o close
    BY DEF RowText, FieldTexts
  <2> HIDE DEF text
  <2> QED BY <1>3, <2>1
<1> HIDE DEF p, next, n, text, open, close
<1>8. Parsed(p, open \o text) = RowAt(row, rows, n)
  BY <1>2, <1>3, <1>4, <1>5, ParsedByBoth
<1>9. Parsed(p, (open \o text) \o close) = Parsed(RowAt(row, rows, n), close)
  <2> DEFINE read == open \o text
             wide == RowAt(row, rows, n)
  <2>1. /\ read \in Seq(Characters) /\ close \in Seq(Characters) /\ p \in ParseStates
        /\ Parsed(p, read) = wide
    BY <1>2, <1>3, <1>7, <1>8
  <2> HIDE DEF read, wide
  <2>2. Parsed(p, read \o close) = Parsed(wide, close)
    BY <2>1, ParsedByBoth
  <2> QED BY <2>2 DEF read, wide
<1> QED BY <1>6, <1>7, <1>9 DEF p, next
-------------------------------------------------------------------------------
(* The reader of dumps: statements are read *)

RowTexts(held) == [i \in DOMAIN held |-> RowText(held[i])]
FirstRows(held) == [j \in DOMAIN held |-> FirstFields(held[j])]
InsertRows == Seq(Seq(Fields) \ {<<>>})

LEMMA RowTextsAre ==
  ASSUME NEW held \in InsertRows
  PROVE  /\ RowTexts(held) \in Seq(Seq(Characters)) /\ Len(RowTexts(held)) = Len(held)
         /\ \A i \in 1..Len(held) : RowTexts(held)[i] = RowText(held[i])
         /\ \A i \in 1..Len(RowTexts(held)) : Passes(FALSE, RowTexts(held)[i])
<1>1. DOMAIN held = 1..Len(held) /\ \A i \in 1..Len(held) : held[i] \in Seq(Fields)
  BY DEF InsertRows
<1>2. \A i \in 1..Len(held) :
        RowText(held[i]) \in Seq(Characters) /\ Passes(FALSE, RowText(held[i]))
  BY <1>1, RowPasses
<1>3. RowTexts(held) = [i \in 1..Len(held) |-> RowText(held[i])]
  BY <1>1 DEF RowTexts
<1>4. Len(held) \in Nat
  BY DEF InsertRows
<1>5. RowTexts(held) \in Seq(Seq(Characters)) /\ Len(RowTexts(held)) = Len(held)
  <2>1. RowTexts(held) \in [1..Len(held) -> Seq(Characters)]
    BY <1>2, <1>3
  <2> QED BY <1>4, <2>1
<1> QED BY <1>2, <1>3, <1>5

LEMMA FirstRowsAre ==
  ASSUME NEW held \in InsertRows, maxFields \in Nat
  PROVE  /\ FirstRows(held) \in Seq(Seq(Values)) /\ Len(FirstRows(held)) = Len(held)
         /\ \A i \in 1..Len(held) : FirstRows(held)[i] = FirstFields(held[i])
<1>1. /\ DOMAIN held = 1..Len(held) /\ Len(held) \in Nat
      /\ \A i \in 1..Len(held) : held[i] \in Seq(Fields) /\ held[i] # <<>>
  BY DEF InsertRows
<1>2. \A i \in 1..Len(held) : FirstFields(held[i]) \in Seq(Values)
  <2>1. <<>> \in Seq(Seq(Values))
    OBVIOUS
  <2> QED BY <1>1, <2>1, RowParsed
<1>3. FirstRows(held) = [i \in 1..Len(held) |-> FirstFields(held[i])]
  BY <1>1 DEF FirstRows
<1> QED BY <1>1, <1>2, <1>3

BetweenAt(rows) == Parser("between", <<>>, <<>>, FALSE, rows)

LEMMA BetweenTyped ==
  ASSUME NEW rows \in Seq(Seq(Values))
  PROVE  BetweenAt(rows) \in ParseStates /\ Between = BetweenAt(<<>>) /\ BetweenAt(rows).rows = rows
<1>1. /\ "between" \in Points /\ <<>> \in Seq(Characters) /\ <<>> \in Seq(Values)
      /\ FALSE \in BOOLEAN
  BY DEF Points
<1>2. BetweenAt(rows) \in ParseStates
  BY <1>1, ParserTyped DEF BetweenAt
<1> QED BY <1>2 DEF BetweenAt, Between, Parser

LEMMA CommaBetween ==
  ASSUME NEW rows \in Seq(Seq(Values))
  PROVE  Parsed(BetweenAt(rows), <<"comma">>) = BetweenAt(rows)
<1>1. "comma" \in Characters
  BY CharactersAssumption
<1>2. ParseChar(BetweenAt(rows), "comma") = BetweenAt(rows)
  BY DEF ParseChar, BetweenAt, Parser
<1> QED BY <1>1, <1>2, BetweenTyped, ParsedOne

\* An INSERT is read into the first fields of its rows.
LEMMA ValuesParsed ==
  ASSUME NEW held \in InsertRows, maxFields \in Nat
  PROVE  ParseValues(Listed(RowTexts(held))) = FirstRows(held)
<1> DEFINE n == Len(held)
           first == FirstRows(held)
           states == [i \in 0..n |-> BetweenAt(SubSeq(first, 1, i))]
<1>1. PICK parts \in Seq(Seq(Characters)) :
        /\ Len(parts) = Len(RowTexts(held)) /\ Listed(RowTexts(held)) = FlattenSeq(parts)
        /\ \A i \in 1..Len(RowTexts(held)) :
             parts[i] = IF i = 1 THEN RowTexts(held)[i] ELSE <<"comma">> \o RowTexts(held)[i]
  BY RowTextsAre, ListedIsFlat
<1>2. n \in Nat /\ n = Len(parts) /\ \A i \in 1..n :
        parts[i] = IF i = 1 THEN RowText(held[i]) ELSE <<"comma">> \o RowText(held[i])
  <2>1. n \in Nat
    BY DEF InsertRows
  <2> QED BY <1>1, <2>1, RowTextsAre
<1>3. /\ first \in Seq(Seq(Values)) /\ Len(first) = n
      /\ \A i \in 1..n : first[i] = FirstFields(held[i])
  BY FirstRowsAre
<1> HIDE DEF n, first
<1>4. ASSUME NEW i \in 0..n
      PROVE  SubSeq(first, 1, i) \in Seq(Seq(Values)) /\ BetweenAt(SubSeq(first, 1, i)) \in ParseStates
  BY <1>3, PrefixTyped, BetweenTyped
<1>5. states \in [0..n -> ParseStates]
  BY <1>4
<1>6. ASSUME NEW i \in 1..n PROVE Parsed(states[i - 1], parts[i]) = states[i]
  <2> DEFINE rows == SubSeq(first, 1, i - 1)
  <2>1. i - 1 \in 0..n /\ i \in 0..n /\ i \in 1..Len(first)
    BY <1>2, <1>3
  <2>2. /\ rows \in Seq(Seq(Values)) /\ BetweenAt(rows) \in ParseStates
        /\ rows \o <<first[i]>> = SubSeq(first, 1, i)
    BY <1>3, <1>4, <2>1, PrefixGrows
  <2>3. states[i - 1] = BetweenAt(rows) /\ states[i] = BetweenAt(rows \o <<first[i]>>)
    BY <2>1, <2>2
  <2> HIDE DEF states, rows
  <2>4. held[i] \in Seq(Fields) /\ held[i] # <<>>
    BY DEF InsertRows, n
  <2>5. Parsed(BetweenAt(rows), RowText(held[i])) = BetweenAt(rows \o <<first[i]>>)
    BY <1>3, <2>2, <2>4, RowParsed DEF BetweenAt
  <2>6. CASE i = 1
    BY <1>2, <2>3, <2>5, <2>6
  <2>7. CASE i # 1
    <3>1. parts[i] = <<"comma">> \o RowText(held[i])
      BY <1>2, <2>7
    <3>2. RowText(held[i]) \in Seq(Characters) /\ <<"comma">> \in Seq(Characters)
      BY <2>4, RowPasses, WordPasses
    <3>3. Parsed(BetweenAt(rows), <<"comma">>) = BetweenAt(rows)
      BY <2>2, CommaBetween
    <3>4. Parsed(BetweenAt(rows), <<"comma">> \o RowText(held[i])) =
            Parsed(BetweenAt(rows), RowText(held[i]))
      BY <2>2, <3>2, <3>3, ParsedByBoth
    <3> QED BY <2>3, <2>5, <3>1, <3>4
  <2> QED BY <2>6, <2>7
<1>7. states[0] = BetweenAt(<<>>) /\ states[n] = BetweenAt(first)
  <2>1. 0 \in 0..n /\ n \in 0..n
    BY <1>2
  <2>2. SubSeq(first, 1, 0) = <<>> /\ SubSeq(first, 1, n) = first
    BY <1>3, WholePrefix
  <2> QED BY <2>1, <2>2
<1> HIDE DEF states
<1>8. Parsed(states[0], FlattenSeq(parts)) = states[n]
  BY <1>2, <1>5, <1>6, ParsedByPieces
<1>9. Between = BetweenAt(<<>>) /\ BetweenAt(first).rows = first
  <2>1. <<>> \in Seq(Seq(Values))
    OBVIOUS
  <2> QED BY <1>3, <2>1, BetweenTyped
<1> QED BY <1>1, <1>7, <1>8, <1>9 DEF ParseValues, first

\* The scan at the beginning of a statement.
AtStart(columns, rows) == Scanner(FALSE, FALSE, columns, <<>>, rows)

LEMMA AtStartTyped ==
  ASSUME NEW columns \in BOOLEAN, NEW rows \in Seq(Seq(Values))
  PROVE  AtStart(columns, rows) \in ScanStates
<1>1. <<>> \in Seq(Characters) /\ FALSE \in BOOLEAN
  OBVIOUS
<1> QED BY <1>1, ScannerTyped DEF AtStart

LEMMA StatementScanned ==
  ASSUME NEW stmt \in Seq(Characters), Passes(FALSE, stmt),
         NEW columns \in BOOLEAN, NEW rows \in Seq(Seq(Values))
  PROVE  /\ stmt \o <<"semicolon">> \in Seq(Characters)
         /\ Scan(AtStart(columns, rows), stmt \o <<"semicolon">>) =
              AtStart(columns \/ stmt = <<"CREATE">>, rows \o StatementRows(stmt, columns))
<1> DEFINE end == <<"semicolon">>
           through == Scanner(FALSE, FALSE, columns, stmt, rows)
           next == AtStart(columns \/ stmt = <<"CREATE">>, rows \o StatementRows(stmt, columns))
<1>1. /\ "semicolon" \in Characters /\ end \in Seq(Characters) /\ <<>> \in Seq(Characters)
      /\ <<>> \o stmt = stmt /\ FALSE \in BOOLEAN
  BY CharactersAssumption
<1>2. Scan(AtStart(columns, rows), stmt) = through
  <2>1. Scan(Scanner(FALSE, FALSE, columns, <<>>, rows), stmt) =
          Scanner(FALSE, FALSE, columns, <<>> \o stmt, rows)
    BY <1>1 DEF Passes
  <2> QED BY <1>1, <2>1 DEF AtStart
<1>3. Scan(through, end) = next
  <2>1. through \in ScanStates
    BY <1>1, ScannerTyped
  <2>2. ScanChar(through, "semicolon") = next
    BY ScansEnd DEF AtStart
  <2>3. Scan(through, end) = ScanChar(through, "semicolon")
    BY <1>1, <2>1, ScanOne
  <2> QED BY <2>2, <2>3
<1>4. AtStart(columns, rows) \in ScanStates
  BY AtStartTyped
<1> HIDE DEF end, through, next
<1>5. Scan(AtStart(columns, rows), stmt \o end) = Scan(Scan(AtStart(columns, rows), stmt), end)
  BY <1>1, <1>4, ScanOn
<1>6. stmt \o end \in Seq(Characters)
  BY <1>1
<1> QED BY <1>2, <1>3, <1>5, <1>6 DEF end, next

Inserts == {"INSERT", "INSERT_other"}

LEMMA InsertPasses ==
  ASSUME NEW words \in Inserts, NEW held \in InsertRows
  PROVE  /\ Listed(RowTexts(held)) \in Seq(Characters)
         /\ <<words>> \o Listed(RowTexts(held)) \in Seq(Characters)
         /\ Passes(FALSE, <<words>> \o Listed(RowTexts(held)))
         /\ Insert(words, held) = (<<words>> \o Listed(RowTexts(held))) \o <<"semicolon">>
<1> DEFINE text == Listed(RowTexts(held))
<1>1. text \in Seq(Characters) /\ Passes(FALSE, text)
  BY RowTextsAre, ListPasses
<1>2. <<words>> \in Seq(Characters) /\ Passes(FALSE, <<words>>)
  BY WordPasses DEF Inserts
<1>3. <<words>> \o text \in Seq(Characters) /\ Passes(FALSE, <<words>> \o text)
  <2> HIDE DEF text
  <2> QED BY <1>1, <1>2, PassesOn
<1>4. Insert(words, held) = <<words>> \o text \o <<"semicolon">>
  BY DEF Insert, RowTexts
<1> QED BY <1>1, <1>3, <1>4

LEMMA HeadAndTail ==
  ASSUME NEW w \in Characters, NEW text \in Seq(Characters)
  PROVE  /\ <<w>> \o text # <<>> /\ Head(<<w>> \o text) = w /\ Tail(<<w>> \o text) = text
<1>1. /\ Len(<<w>> \o text) = Len(text) + 1 /\ (<<w>> \o text)[1] = w
      /\ <<w>> \o text \in Seq(Characters)
  OBVIOUS
<1>2. <<w>> \o text # <<>> /\ Head(<<w>> \o text) = w
  BY <1>1
<1>3. Tail(<<w>> \o text) = text
  OBVIOUS
<1> QED BY <1>2, <1>3

LEMMA InsertScanned ==
  ASSUME NEW held \in InsertRows, NEW rows \in Seq(Seq(Values)), maxFields \in Nat
  PROVE  /\ Insert("INSERT", held) \in Seq(Characters)
         /\ Scan(AtStart(TRUE, rows), Insert("INSERT", held)) =
              AtStart(TRUE, rows \o FirstRows(held))
<1> DEFINE text == Listed(RowTexts(held))
           stmt == <<"INSERT">> \o text
<1>1. /\ text \in Seq(Characters) /\ stmt \in Seq(Characters) /\ Passes(FALSE, stmt)
      /\ Insert("INSERT", held) = stmt \o <<"semicolon">>
  BY InsertPasses DEF Inserts
<1>2. StatementRows(stmt, TRUE) = FirstRows(held)
  <2>1. "INSERT" \in Characters
    BY CharactersAssumption
  <2>2. stmt # <<>> /\ Head(stmt) = "INSERT" /\ Tail(stmt) = text
    <3> HIDE DEF text
    <3> QED BY <1>1, <2>1, HeadAndTail
  <2>3. ParseValues(text) = FirstRows(held)
    BY ValuesParsed
  <2> HIDE DEF stmt, text
  <2> QED BY <2>2, <2>3 DEF StatementRows
<1>3. TRUE \in BOOLEAN
  OBVIOUS
<1> HIDE DEF stmt
<1>4. /\ stmt \o <<"semicolon">> \in Seq(Characters)
      /\ Scan(AtStart(TRUE, rows), stmt \o <<"semicolon">>) =
           AtStart(TRUE \/ stmt = <<"CREATE">>, rows \o StatementRows(stmt, TRUE))
  BY <1>1, <1>3, StatementScanned
<1>5. (TRUE \/ stmt = <<"CREATE">>) = TRUE
  OBVIOUS
<1> QED BY <1>1, <1>2, <1>4, <1>5

\* Through pieces, one after the other.
LEMMA ScanByPieces ==
  ASSUME NEW pieces \in Seq(Seq(Characters)), NEW n \in Nat, n = Len(pieces),
         NEW states \in [0..n -> ScanStates],
         \A i \in 1..n : Scan(states[i - 1], pieces[i]) = states[i]
  PROVE  /\ FlattenSeq(pieces) \in Seq(Characters)
         /\ Scan(states[0], FlattenSeq(pieces)) = states[n]
<1>1. PICK at \in [0..n -> Seq(Characters)] :
        Pieced(at, pieces) /\ FlattenSeq(pieces) = at[n]
  BY Flattened
<1> DEFINE S == {i \in Nat : i <= n => Scan(states[0], at[i]) = states[i]}
<1>2. states[0] \in ScanStates /\ at[n] \in Seq(Characters)
  BY <1>1
<1>3. 0 \in S
  <2>1. at[0] = <<>> /\ "comma" \in Characters
    BY <1>1, CharactersAssumption DEF Pieced
  <2>2. Scan(states[0], <<>>) = states[0]
    BY <1>2, <2>1, ScanOne
  <2> QED BY <2>1, <2>2
<1>4. ASSUME NEW i \in Nat, i \in S PROVE i + 1 \in S
  <2> SUFFICES ASSUME i + 1 <= n PROVE Scan(states[0], at[i + 1]) = states[i + 1]
    OBVIOUS
  <2>0. i + 1 \in 1..n /\ i \in 0..n /\ (i + 1) - 1 = i
    OBVIOUS
  <2>1. at[i + 1] = at[i] \o pieces[i + 1]
    BY <1>1, <2>0 DEF Pieced
  <2>2. at[i] \in Seq(Characters) /\ pieces[i + 1] \in Seq(Characters)
    <3>1. at[i] \in Seq(Characters)
      BY <1>1, <2>0
    <3> QED BY <2>0, <3>1
  <2>3. Scan(states[0], at[i]) = states[i]
    BY <1>4, <2>0
  <2>4. Scan(states[i], pieces[i + 1]) = states[i + 1]
    BY <2>0
  <2>5. Scan(states[0], at[i] \o pieces[i + 1]) = Scan(Scan(states[0], at[i]), pieces[i + 1])
    BY <1>2, <2>2, ScanOn
  <2> QED BY <2>1, <2>3, <2>4, <2>5
<1> HIDE DEF S
<1>5. n \in S
  BY <1>3, <1>4, Counting
<1> QED BY <1>1, <1>2, <1>5 DEF S

InsertTexts(inserts) == [i \in DOMAIN inserts |-> Insert("INSERT", inserts[i])]
DueRows(inserts) == [i \in DOMAIN inserts |-> FirstRows(inserts[i])]

LEMMA InsertsScanned ==
  ASSUME NEW inserts \in Seq(InsertRows), maxFields \in Nat
  PROVE  /\ FlattenSeq(DueRows(inserts)) \in Seq(Seq(Values))
         /\ FlattenSeq(InsertTexts(inserts)) \in Seq(Characters)
         /\ Scan(AtStart(TRUE, <<>>), FlattenSeq(InsertTexts(inserts))) =
              AtStart(TRUE, FlattenSeq(DueRows(inserts)))
<1> DEFINE n == Len(inserts)
           texts == InsertTexts(inserts)
           dues == DueRows(inserts)
<1>1. n \in Nat /\ DOMAIN inserts = 1..n /\ \A i \in 1..n : inserts[i] \in InsertRows
  OBVIOUS
<1>2. /\ \A i \in 1..n : FirstRows(inserts[i]) \in Seq(Seq(Values))
      /\ \A i \in 1..n : Insert("INSERT", inserts[i]) \in Seq(Characters)
  <2>1. <<>> \in Seq(Seq(Values))
    OBVIOUS
  <2> QED BY <1>1, <2>1, FirstRowsAre, InsertScanned
<1>3. /\ texts = [i \in 1..n |-> Insert("INSERT", inserts[i])]
      /\ dues = [i \in 1..n |-> FirstRows(inserts[i])]
  BY <1>1 DEF InsertTexts, DueRows
<1> HIDE DEF n, texts, dues
<1>4. texts \in [1..n -> Seq(Characters)] /\ dues \in [1..n -> Seq(Seq(Values))]
  BY <1>2, <1>3
<1>5. /\ texts \in Seq(Seq(Characters)) /\ Len(texts) = n
      /\ dues \in Seq(Seq(Seq(Values))) /\ Len(dues) = n
  BY <1>1, <1>4
<1>6. PICK at \in [0..n -> Seq(Seq(Values))] : Pieced(at, dues) /\ FlattenSeq(dues) = at[n]
  BY <1>5, Flattened
<1> DEFINE states == [i \in 0..n |-> AtStart(TRUE, at[i])]
<1>7. states \in [0..n -> ScanStates]
  <2>1. \A i \in 0..n : AtStart(TRUE, at[i]) \in ScanStates
    BY <1>6, AtStartTyped
  <2> QED BY <2>1
<1>8. ASSUME NEW i \in 1..n PROVE Scan(states[i - 1], texts[i]) = states[i]
  <2>1. i - 1 \in 0..n /\ i \in 0..n /\ at[i - 1] \in Seq(Seq(Values)) /\ inserts[i] \in InsertRows
    BY <1>1, <1>6
  <2>2. at[i] = at[i - 1] \o FirstRows(inserts[i]) /\ texts[i] = Insert("INSERT", inserts[i])
    BY <1>3, <1>5, <1>6 DEF Pieced
  <2>3. Scan(AtStart(TRUE, at[i - 1]), Insert("INSERT", inserts[i])) =
          AtStart(TRUE, at[i - 1] \o FirstRows(inserts[i]))
    BY <2>1, InsertScanned
  <2> QED BY <2>1, <2>2, <2>3
<1>9. states[0] = AtStart(TRUE, <<>>) /\ states[n] = AtStart(TRUE, at[n]) /\ at[n] \in Seq(Seq(Values))
  <2>1. 0 \in 0..n /\ n \in 0..n /\ at[0] = <<>>
    BY <1>1, <1>6 DEF Pieced
  <2> QED BY <1>6, <2>1
<1> HIDE DEF states
<1>10. FlattenSeq(texts) \in Seq(Characters) /\ Scan(states[0], FlattenSeq(texts)) = states[n]
  BY <1>1, <1>5, <1>7, <1>8, ScanByPieces
<1> QED BY <1>6, <1>9, <1>10 DEF texts, dues

LEMMA DueIs ==
  ASSUME written \in Seq(InsertRows)
  PROVE  Due = FlattenSeq(DueRows(written))
BY DEF Due, DueRows, FirstRows

\* What is before the table's own INSERTs says what its columns are.
LEMMA CreateScanned ==
  ASSUME NEW w \in {"CREATE", "CREATE_other"}, NEW columns \in BOOLEAN
  PROVE  /\ <<w, "semicolon">> \in Seq(Characters)
         /\ Scan(AtStart(columns, <<>>), <<w, "semicolon">>) =
              AtStart(columns \/ w = "CREATE", <<>>)
<1> DEFINE stmt == <<w>>
<1>1. /\ w \in Characters /\ "semicolon" \in Characters /\ stmt \in Seq(Characters)
      /\ <<w, "semicolon">> = stmt \o <<"semicolon">> /\ Passes(FALSE, stmt)
      /\ <<>> \in Seq(Seq(Values))
  <2>1. w \in Characters /\ stmt \in Seq(Characters) /\ Passes(FALSE, stmt)
    BY WordPasses
  <2>2. "semicolon" \in Characters
    BY CharactersAssumption
  <2>3. <<w, "semicolon">> = stmt \o <<"semicolon">> /\ <<>> \in Seq(Seq(Values))
    OBVIOUS
  <2> QED BY <2>1, <2>2, <2>3
<1>2. StatementRows(stmt, columns) = <<>>
  <2>1. Head(stmt) # "INSERT"
    BY <1>1
  <2> HIDE DEF stmt
  <2> QED BY <2>1 DEF StatementRows
<1>3. stmt = <<"CREATE">> <=> w = "CREATE"
  OBVIOUS
<1> HIDE DEF stmt
<1>4. /\ stmt \o <<"semicolon">> \in Seq(Characters)
      /\ Scan(AtStart(columns, <<>>), stmt \o <<"semicolon">>) =
           AtStart(columns \/ stmt = <<"CREATE">>, <<>> \o StatementRows(stmt, columns))
  BY <1>1, StatementScanned
<1>5. <<>> \o <<>> = <<>>
  OBVIOUS
<1> QED BY <1>1, <1>2, <1>3, <1>4, <1>5

LEMMA OtherScanned ==
  /\ Insert("INSERT_other", <<<<Null>>>>) \in Seq(Characters)
  /\ Scan(AtStart(FALSE, <<>>), Insert("INSERT_other", <<<<Null>>>>)) = AtStart(FALSE, <<>>)
<1> DEFINE held == <<<<Null>>>>
           text == Listed(RowTexts(held))
           stmt == <<"INSERT_other">> \o text
<1>1. held \in InsertRows /\ <<>> \in Seq(Seq(Values)) /\ "INSERT_other" \in Characters
  <2>1. Null \in Fields
    BY DEF Fields
  <2>2. <<Null>> \in Seq(Fields) /\ <<Null>> # <<>>
    BY <2>1
  <2> QED BY <2>2, CharactersAssumption DEF InsertRows
<1> HIDE DEF held
<1>2. /\ text \in Seq(Characters) /\ stmt \in Seq(Characters) /\ Passes(FALSE, stmt)
      /\ Insert("INSERT_other", held) = stmt \o <<"semicolon">>
  BY <1>1, InsertPasses DEF Inserts
<1>3. StatementRows(stmt, FALSE) = <<>>
  BY DEF StatementRows
<1>4. stmt # <<"CREATE">>
  <2>1. Head(stmt) = "INSERT_other"
    <3> HIDE DEF text
    <3> QED BY <1>1, <1>2, HeadAndTail
  <2>2. Head(<<"CREATE">>) = "CREATE"
    OBVIOUS
  <2> HIDE DEF stmt
  <2> QED BY <2>1, <2>2
<1> HIDE DEF stmt
<1>5. /\ stmt \o <<"semicolon">> \in Seq(Characters)
      /\ Scan(AtStart(FALSE, <<>>), stmt \o <<"semicolon">>) =
           AtStart(FALSE \/ stmt = <<"CREATE">>, <<>> \o StatementRows(stmt, FALSE))
  BY <1>1, <1>2, StatementScanned
<1>6. <<>> \o <<>> = <<>> /\ (FALSE \/ stmt = <<"CREATE">>) = FALSE
  BY <1>4
<1> QED BY <1>2, <1>3, <1>5, <1>6 DEF held

\* A whole dump is read into the rows that are due.
LEMMA DumpScanned ==
  ASSUME NEW inserts \in Seq(InsertRows), maxFields \in Nat
  PROVE  /\ Dump(inserts) \in Seq(Characters)
         /\ Scan(AtStart(FALSE, <<>>), Dump(inserts)) =
              AtStart(TRUE, FlattenSeq(DueRows(inserts)))
<1> DEFINE a == <<"CREATE_other", "semicolon">>
           b == Insert("INSERT_other", <<<<Null>>>>)
           c == <<"CREATE", "semicolon">>
           d == FlattenSeq(InsertTexts(inserts))
           unknown == AtStart(FALSE, <<>>)
           known == AtStart(TRUE, <<>>)
           all == AtStart(TRUE, FlattenSeq(DueRows(inserts)))
<1>1. FALSE \in BOOLEAN /\ TRUE \in BOOLEAN /\ <<>> \in Seq(Seq(Values))
  OBVIOUS
<1>2. a \in Seq(Characters) /\ Scan(unknown, a) = unknown
  <2>1. /\ a \in Seq(Characters)
        /\ Scan(unknown, a) = AtStart(FALSE \/ "CREATE_other" = "CREATE", <<>>)
    BY <1>1, CreateScanned
  <2>2. (FALSE \/ "CREATE_other" = "CREATE") = FALSE
    OBVIOUS
  <2> QED BY <2>1, <2>2
<1>3. b \in Seq(Characters) /\ Scan(unknown, b) = unknown
  BY OtherScanned
<1>4. c \in Seq(Characters) /\ Scan(unknown, c) = known
  <2>1. /\ c \in Seq(Characters)
        /\ Scan(unknown, c) = AtStart(FALSE \/ "CREATE" = "CREATE", <<>>)
    BY <1>1, CreateScanned
  <2>2. (FALSE \/ "CREATE" = "CREATE") = TRUE
    OBVIOUS
  <2> QED BY <2>1, <2>2
<1>5. d \in Seq(Characters) /\ Scan(known, d) = all
  BY InsertsScanned
<1>6. unknown \in ScanStates
  BY <1>1, AtStartTyped
<1>7. Dump(inserts) = ((a \o b) \o c) \o d
  BY DEF Dump, InsertTexts
<1> HIDE DEF a, b, c, d, unknown, known, all
<1>8. a \o b \in Seq(Characters) /\ Scan(unknown, a \o b) = unknown
  BY <1>2, <1>3, <1>6, ScanOn
<1>9. (a \o b) \o c \in Seq(Characters) /\ Scan(unknown, (a \o b) \o c) = known
  <2> DEFINE ab == a \o b
  <2> HIDE DEF ab
  <2>1. ab \in Seq(Characters) /\ Scan(unknown, ab) = unknown
    BY <1>8 DEF ab
  <2>2. ab \o c \in Seq(Characters) /\ Scan(unknown, ab \o c) = known
    BY <1>4, <1>6, <2>1, ScanOn
  <2> QED BY <2>2 DEF ab
<1>10. ((a \o b) \o c) \o d \in Seq(Characters) /\ Scan(unknown, ((a \o b) \o c) \o d) = all
  <2> DEFINE abc == (a \o b) \o c
  <2> HIDE DEF abc
  <2>1. abc \in Seq(Characters) /\ Scan(unknown, abc) = known
    BY <1>9 DEF abc
  <2>2. abc \o d \in Seq(Characters) /\ Scan(unknown, abc \o d) = all
    BY <1>5, <1>6, <2>1, ScanOn
  <2> QED BY <2>2 DEF abc
<1> QED BY <1>7, <1>10 DEF unknown, all

-------------------------------------------------------------------------------
(* The reader of dumps: wherever it is cut *)

\* Where the reader is.
Reader == [scan |-> scan, stmt |-> buf, out |-> out]

\* From here on through the rest, the rows that are due are read.
ReaderInv ==
  /\ written \in Seq(InsertRows) /\ maxFields \in Nat /\ rest \in Seq(Characters)
  /\ Reader \in ScanStates
  /\ Scan(Reader, rest) = AtStart(TRUE, Due)

LEMMA ReaderBegins == ReaderInit => ReaderInv
<1> SUFFICES ASSUME ReaderInit PROVE ReaderInv
  OBVIOUS
<1>1. written \in Seq(InsertRows) /\ maxFields \in Nat
  BY ContentsAssumption DEF ReaderInit, InsertRows
<1>2. Reader = AtStart(FALSE, <<>>)
  BY DEF ReaderInit, Reader, AtStart, Scanner
<1>3. Reader \in ScanStates
  <2>1. <<>> \in Seq(Seq(Values)) /\ FALSE \in BOOLEAN
    OBVIOUS
  <2> QED BY <1>2, <2>1, AtStartTyped
<1>4. rest = Dump(written)
  BY DEF ReaderInit
<1> QED BY <1>1, <1>2, <1>3, <1>4, DumpScanned, DueIs DEF ReaderInv

\* While the number of fields wanted stays, a text is scanned the same.
LEMMA ScanStays ==
  ASSUME maxFields' = maxFields, NEW CONSTANT r, NEW CONSTANT text
  PROVE  Scan(r, text)' = Scan(r, text)
BY DEF Scan, ScanChar, StatementRows, ParseValues, Parsed, ParseChar, Capped

LEMMA ReaderStays ==
  ASSUME ReaderInv, [ReaderNext]_readerVars
  PROVE  ReaderInv'
<1>1. CASE UNCHANGED readerVars
  <2>1. PICK state : state = Reader
    OBVIOUS
  <2>2. PICK text : text = rest
    OBVIOUS
  <2>3. maxFields' = maxFields /\ written' = written /\ rest' = text /\ Reader' = state
    BY <1>1, <2>1, <2>2 DEF readerVars, Reader
  <2>4. Due' = Due
    BY <2>3 DEF Due, FirstFields
  <2>5. Scan(Reader, rest)' = Scan(Reader, rest)
    BY <2>1, <2>2, <2>3, ScanStays
  <2> QED BY <2>1, <2>2, <2>3, <2>4, <2>5 DEF ReaderInv, AtStart, Scanner
<1>2. ASSUME NEW n \in 1..MaxChunk, Chunk(n) PROVE ReaderInv'
  <2> DEFINE chunk == SubSeq(rest, 1, n)
             left == SubSeq(rest, n + 1, Len(rest))
  <2>1. /\ chunk \in Seq(Characters) /\ left \in Seq(Characters) /\ rest = chunk \o left
        /\ rest' = left /\ maxFields' = maxFields /\ written' = written
    <3>1. n \in 1..Len(rest)
      BY <1>2, ContentsAssumption DEF Chunk
    <3> QED BY <1>2, <3>1 DEF ReaderInv, Chunk
  <2>2. Scan(Reader, chunk) \in ScanStates
    BY <2>1, ScanOn DEF ReaderInv
  <2>3. Reader' = Scan(Reader, chunk)
    <3>1. PICK r \in ScanStates : r = Scan(Reader, chunk)
      BY <2>2
    <3>2. scan' = r.scan /\ buf' = r.stmt /\ out' = r.out
      BY <1>2, <3>1 DEF Chunk, Scanned, Reader
    <3>3. r = [scan |-> r.scan, stmt |-> r.stmt, out |-> r.out]
      BY DEF ScanStates
    <3> QED BY <3>1, <3>2, <3>3 DEF Reader
  <2>4. Scan(Reader, rest) = Scan(Scan(Reader, chunk), left)
    <3>1. Scan(Reader, chunk \o left) = Scan(Scan(Reader, chunk), left)
      BY <2>1, ScanOn DEF ReaderInv
    <3> QED BY <2>1, <3>1
  <2>5. Scan(Reader, rest)' = Scan(Scan(Reader, chunk), left)
    <3>1. PICK state : state = Scan(Reader, chunk)
      OBVIOUS
    <3>2. PICK text : text = left
      OBVIOUS
    <3>3. Scan(state, text)' = Scan(state, text)
      BY <2>1, ScanStays
    <3> QED BY <2>1, <2>3, <3>1, <3>2, <3>3
  <2>6. Due' = Due
    BY <2>1 DEF Due, FirstFields
  <2> QED BY <2>1, <2>2, <2>3, <2>4, <2>5, <2>6 DEF ReaderInv, AtStart, Scanner
<1> QED BY <1>1, <1>2 DEF ReaderNext

LEMMA ReaderReads == ReaderInv => RowsAreRead
<1> SUFFICES ASSUME ReaderInv PROVE RowsAreRead
  OBVIOUS
<1>1. /\ Reader \in ScanStates /\ rest \in Seq(Characters)
      /\ Scan(Reader, rest).out = Due /\ Reader.out = out /\ out \in Seq(Seq(Values))
  <2>1. Reader \in ScanStates /\ rest \in Seq(Characters) /\ Scan(Reader, rest) = AtStart(TRUE, Due)
    BY DEF ReaderInv
  <2>2. AtStart(TRUE, Due).out = Due
    BY DEF AtStart, Scanner
  <2>3. Reader.out = out
    BY DEF Reader
  <2>4. Reader.out \in Seq(Seq(Values))
    BY <2>1 DEF ScanStates
  <2> QED BY <2>1, <2>2, <2>3, <2>4
<1>2. PICK more \in Seq(Seq(Values)) : Due = out \o more
  BY <1>1, ScanGrows
<1>3. IsPrefix(out, Due)
  <2>1. Len(out) <= Len(Due) /\ out = SubSeq(Due, 1, Len(out))
    BY <1>1, <1>2
  <2> QED BY <2>1 DEF IsPrefix
<1>4. ASSUME rest = <<>> PROVE out = Due
  <2>1. "comma" \in Characters
    BY CharactersAssumption
  <2>2. Scan(Reader, <<>>) = Reader
    BY <1>1, <2>1, ScanOne
  <2> QED BY <1>1, <1>4, <2>2
<1> QED BY <1>3, <1>4 DEF RowsAreRead

\* Through any dump, cut anywhere into chunks of any size, with any number of
\* fields wanted: what has been read is at every moment the beginning of the
\* rows that were written, and all of them at the end (sqlDumpParser.ts:177,
\* streamDumpRows and parseValues).
THEOREM DumpsAreRead == ReaderSpec => []RowsAreRead
<1>1. ReaderInv /\ [ReaderNext]_readerVars => ReaderInv'
  BY ReaderStays
<1> QED BY ReaderBegins, ReaderReads, <1>1, PTL DEF ReaderSpec
===============================================================================
