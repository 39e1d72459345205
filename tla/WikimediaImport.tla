---------------------------- MODULE WikimediaImport ----------------------------
(***************************************************************************)
(* The monthly import of geotagged Wikimedia Commons photos: four dumps    *)
(* are streamed into staging tables, joined into a new table, and swapped  *)
(* in (importWikimedia.ts); the run, or the systemd unit behind it, mails  *)
(* the administrators how it ended (importNotify.ts).                      *)
(* systemd merges a trigger into a run under way, so runs do not overlap.  *)
(***************************************************************************)
EXTENDS Integers, FiniteSets

CONSTANTS
  Pages, Photos, MaxVersion, Holds,  \* see Publication; Pages are numbers
  Capacity,    \* page IDs the bitsets of pages can hold
  Hash,        \* the bit of a page's title in the bitset of titles
  Batch,       \* PAGEID_BATCH
  Attempts,    \* attempts of a pass
  Download,    \* hours an attempt at a dump takes at most
  Build,       \* hours from the last pass to the swap at most
  Budget,      \* RETRY_BUDGET_MS
  Timeout,     \* TimeoutStartSec
  MaxRuns,     \* bound on the runs
  None         \* no such table

Dumps == {"geo_tags", "page", "image", "mediainfo"}
Versions == 0..MaxVersion

ASSUME ImportAssumption ==
  /\ Pages \subseteq Nat /\ IsFiniteSet(Pages) /\ Photos \subseteq Pages
  /\ MaxVersion \in Nat /\ Holds \in [Dumps -> [Versions -> SUBSET Pages]]
  /\ \A p \in Pages : p < Capacity
  /\ {Batch, Attempts} \subseteq Nat \ {0} /\ Download \in [Dumps -> Nat]
  /\ {Build, Budget, Timeout, MaxRuns, Capacity} \subseteq Nat

\* The derivation beside RETRY_BUDGET_MS, with the passes before the last two.
ASSUME TimeoutAssumption ==
  \A d \in {"image", "mediainfo"} :
    Budget + Download["geo_tags"] + Download["page"] + Download[d] + Build < Timeout

VARIABLES
  latest,    \* the version each dump's URL leads to
  unit,      \* the import unit: inactive, activating, failed
  runs,      \* runs begun
  phase,     \* how far the run is
  clock,     \* hours since it began
  since,     \* when the phase began
  pass,      \* of each dump: waiting, loading or done, the attempt, the version
  staged,    \* wm_stage, wm_keep, wm_img, wm_sdc
  seen,      \* the bitset of geotagged pages
  titleBits, \* of hashed titles that are kept
  keptBits,  \* of pages that are kept
  new,       \* wikimediaPicture_new, None when there is no such table
  lo,        \* the next range of page IDs to insert
  live,      \* wikimediaPicture
  old,       \* whether there is a wikimediaPicture_old
  status,    \* how the process ended
  made,      \* the versions the live table was made from (history)
  published, \* whether this run swapped its table in (history)
  mails,     \* the reports of this run that reached the administrators (history)
  undelivered \* whether the backstop failed to deliver its own (history)

bits == <<seen, titleBits, keptBits>>
tables == <<new, lo, live, old, made, published>>
told == <<mails, undelivered>>
vars == <<latest, unit, runs, phase, clock, since, pass, staged, bits, tables, status, told>>

RowOf(p, image, mediainfo) ==
  [page |-> p, image |-> p \in image, mediainfo |-> p \in mediainfo]
Table == [page: Pages, image: BOOLEAN, mediainfo: BOOLEAN]

\* No table is not an empty one.
ASSUME NoTableAssumption == \A rows \in SUBSET Table : rows # None

Waiting == [at |-> "waiting", attempt |-> 0, version |-> 0, begun |-> 0]
Loading(d, n) == [at |-> "loading", attempt |-> n, version |-> latest[d], begun |-> clock]

Init ==
  /\ latest = [d \in Dumps |-> 0]
  /\ unit = "inactive" /\ runs = 0 /\ phase = "over" /\ clock = 0 /\ since = 0
  /\ pass = [d \in Dumps |-> Waiting]
  /\ staged = [d \in Dumps |-> {}]
  /\ seen = {} /\ titleBits = {} /\ keptBits = {}
  /\ new = None /\ lo = 0 /\ live = None /\ old = FALSE
  /\ status = 0
  /\ made = [d \in Dumps |-> 0] /\ published = FALSE
  /\ mails = {} /\ undelivered = FALSE

Building == {"build", "fill", "counted", "made", "swap"}
Importing == {"passes"} \cup Building

\* Wikimedia publishes the next dump of a kind.
Release(d) ==
  /\ latest[d] < MaxVersion
  /\ latest' = [latest EXCEPT ![d] = @ + 1]
  /\ UNCHANGED <<unit, runs, phase, clock, since, pass, staged, bits, tables, status, told>>

\* An hour goes by: in the passes under way, or in the build.
Tick ==
  /\ unit = "activating" /\ phase \in Importing /\ clock < Timeout
  /\ phase \in Building => clock - since < Build
  /\ phase \notin Building => \E d \in Dumps : pass[d].at = "loading"
  /\ \A d \in Dumps : pass[d].at = "loading" => clock - pass[d].begun < Download[d]
  /\ clock' = clock + 1
  /\ UNCHANGED <<latest, unit, runs, phase, since, pass, staged, bits, tables, status, told>>

\* The timer, or an administrator, starts the unit. The process drops and makes
\* the staging tables, and asks for the first dump.
Start ==
  /\ unit = "inactive" /\ runs < MaxRuns
  /\ unit' = "activating" /\ runs' = runs + 1 /\ phase' = "passes"
  /\ clock' = 0 /\ since' = 0
  /\ staged' = [d \in Dumps |-> {}] /\ new' = None
  /\ seen' = {} /\ titleBits' = {} /\ keptBits' = {}
  /\ pass' = [[d \in Dumps |-> Waiting] EXCEPT !["geo_tags"] =
                [at |-> "loading", attempt |-> 1, version |-> latest["geo_tags"], begun |-> 0]]
  /\ published' = FALSE /\ mails' = {} /\ undelivered' = FALSE
  /\ UNCHANGED <<latest, lo, live, old, made, status>>
-------------------------------------------------------------------------------
(* The passes *)

\* What a pass stages of what its dump holds.
GeoTagRows(held)    == held
PageKeepRows(held)  == held \cap seen \cap Photos
ImageMetaRows(held) == {p \in held : Hash[p] \in titleBits}
MediaInfoRows(held) == held \cap keptBits
RowsOf(d) ==
  LET held == Holds[d][pass[d].version]
  IN CASE d = "geo_tags"  -> GeoTagRows(held)
       [] d = "page"      -> PageKeepRows(held)
       [] d = "image"     -> ImageMetaRows(held)
       [] d = "mediainfo" -> MediaInfoRows(held)

\* The bits a pass sets as it yields rows. A bitset ignores IDs beyond it.
Within(rows) == {p \in rows : p < Capacity}
SetBits(d, rows) ==
  /\ seen' = IF d = "geo_tags" THEN seen \cup Within(rows) ELSE seen
  /\ titleBits' = IF d = "page" THEN titleBits \cup {Hash[p] : p \in rows} ELSE titleBits
  /\ keptBits' = IF d = "page" THEN keptBits \cup Within(rows) ELSE keptBits

\* insertAll streams the rest of the dump into the table.
Load(d) ==
  /\ unit = "activating" /\ pass[d].at = "loading"
  /\ staged' = [staged EXCEPT ![d] = @ \cup RowsOf(d)]
  /\ SetBits(d, RowsOf(d))
  /\ UNCHANGED <<latest, unit, runs, clock, tables, status, told>>
Done(d) == [pass EXCEPT ![d] = [Waiting EXCEPT !.at = "done", !.version = pass[d].version]]

\* A dump that stages no rows is refused; otherwise the next passes begin.
LoadGeoTags ==
  /\ Load("geo_tags")
  /\ \/ /\ RowsOf("geo_tags") = {}
        /\ phase' = "failed" /\ pass' = Done("geo_tags")
     \/ /\ RowsOf("geo_tags") # {}
        /\ pass' = [Done("geo_tags") EXCEPT !["page"] = Loading("page", 1)]
        /\ UNCHANGED phase
  /\ UNCHANGED since

LoadPage ==
  /\ Load("page")
  /\ \/ /\ RowsOf("page") = {}
        /\ phase' = "failed" /\ pass' = Done("page")
     \/ /\ RowsOf("page") # {}
        /\ pass' = [Done("page") EXCEPT !["image"] = Loading("image", 1),
                                        !["mediainfo"] = Loading("mediainfo", 1)]
        /\ UNCHANGED phase
  /\ UNCHANGED since

\* The last two run side by side, and the run goes on after both; one may still
\* load when the other has failed.
Metadata == {"image", "mediainfo"}
IsLast(d) == \A e \in Metadata \ {d} : pass[e].at = "done"
LoadMetadata(d) ==
  /\ Load(d)
  /\ pass' = Done(d)
  /\ IF phase = "failed" \/ ~IsLast(d)
     THEN UNCHANGED <<phase, since>>
     ELSE /\ phase' = IF \E e \in Metadata : RowsOf(e) = {} THEN "failed" ELSE "build"
          /\ since' = clock

\* (mutation) retries however late it is
MayRetryLate(d) == pass[d].attempt < Attempts
MayRetry(d) == pass[d].attempt < Attempts /\ clock <= Budget
\* (mutation) the table keeps what was staged before
NotTruncated(rows) == rows
Truncated(rows) == {}

\* The stream or an insert fails with some rows read and fewer committed. A
\* dropped connection is tried again from an empty table, within the budget;
\* everything else fails the run.
Interrupt(d) ==
  /\ unit = "activating" /\ pass[d].at = "loading"
  /\ \E read \in SUBSET RowsOf(d), committed \in SUBSET Pages :
       /\ committed \subseteq read
       /\ SetBits(d, read)
       /\ \/ /\ MayRetry(d)
             /\ staged' = [staged EXCEPT ![d] = Truncated(@ \cup committed)]
             /\ pass' = [pass EXCEPT ![d] = Loading(d, @.attempt + 1)]
             /\ UNCHANGED phase
          \/ /\ staged' = [staged EXCEPT ![d] = @ \cup committed]
             /\ pass' = [pass EXCEPT ![d] = [Waiting EXCEPT !.at = "lost"]]
             /\ phase' = "failed"
  /\ UNCHANGED <<latest, unit, runs, clock, since, tables, status, told>>
-------------------------------------------------------------------------------
(* The final table *)

Running(p) == unit = "activating" /\ phase = p
Lowest(ids) == CHOOSE p \in ids : \A q \in ids : p <= q
InRange == {p \in staged["geo_tags"] : lo <= p /\ p < lo + Batch}
RangesLeft == \E p \in staged["geo_tags"] : lo <= p

\* Indexes, and an empty wikimediaPicture_new.
MakeNew ==
  /\ Running("build")
  /\ phase' = "fill" /\ new' = {} /\ lo' = Lowest(staged["geo_tags"])
  /\ UNCHANGED <<latest, unit, runs, clock, since, pass, staged, bits, live, old,
                 made, published, status, told>>

\* (mutation) on only after a range with rows
AdvancedIfAny == IF InRange = {} THEN lo ELSE lo + Batch
Advanced == lo + Batch

\* INSERT ... SELECT of one range of page IDs.
InsertRange ==
  /\ Running("fill") /\ RangesLeft
  /\ new' = new \cup {RowOf(p, staged["image"], staged["mediainfo"]) :
                        p \in InRange \cap staged["page"]}
  /\ lo' = Advanced
  /\ UNCHANGED <<latest, unit, runs, phase, clock, since, pass, staged, bits, live, old,
                 made, published, status, told>>

\* Too few photos for the table that is live.
Collapsed == live # None /\ 2 * Cardinality(new) < Cardinality(live)

\* Both tables are counted, a count that fails being no reason to refuse; the
\* staging tables make room for the indexes.
CheckCounts ==
  /\ Running("fill") /\ ~RangesLeft
  /\ \E counted \in BOOLEAN :
       IF counted /\ Collapsed
       THEN phase' = "failed" /\ UNCHANGED staged
       ELSE phase' = "counted" /\ staged' = [d \in Dumps |-> {}]
  /\ UNCHANGED <<latest, unit, runs, clock, since, pass, bits, tables, status, told>>

\* ADD INDEX, and CREATE TABLE IF NOT EXISTS for the first import of all.
MakeLive ==
  /\ Running("counted")
  /\ phase' = "made" /\ live' = IF live = None THEN {} ELSE live
  /\ UNCHANGED <<latest, unit, runs, clock, since, pass, staged, bits, new, lo, old,
                 made, published, status, told>>

DropOld ==
  /\ Running("made")
  /\ phase' = "swap" /\ old' = FALSE
  /\ UNCHANGED <<latest, unit, runs, clock, since, pass, staged, bits, new, lo, live,
                 made, published, status, told>>

\* RENAME TABLE live TO old, new TO live.
Swap ==
  /\ Running("swap") /\ ~old
  /\ phase' = "tidy" /\ live' = new /\ new' = None /\ old' = TRUE
  /\ made' = [d \in Dumps |-> pass[d].version] /\ published' = TRUE
  /\ UNCHANGED <<latest, unit, runs, clock, since, pass, staged, bits, lo, status, told>>

\* (mutation) a failure to tidy up fails the run
AfterTidyStrict == {"published", "failed"}
AfterTidy == {"published"}

\* Dropping the old table may fail and fails nothing.
Tidy ==
  /\ Running("tidy")
  /\ phase' \in AfterTidy /\ old' \in {FALSE, TRUE}
  /\ UNCHANGED <<latest, unit, runs, clock, since, pass, staged, bits, new, lo, live,
                 made, published, status, told>>

\* Any statement up to the swap may fail, and that fails the run.
Fault ==
  /\ unit = "activating" /\ phase \in Importing
  /\ phase' = "failed"
  /\ UNCHANGED <<latest, unit, runs, clock, since, pass, staged, bits, tables, status, told>>
-------------------------------------------------------------------------------
(* Reports *)

\* The process ends, and what it held in memory with it.
Ends ==
  /\ phase' = "over" /\ since' = 0 /\ clock' = 0
  /\ pass' = [d \in Dumps |-> Waiting]
  /\ seen' = {} /\ titleBits' = {} /\ keptBits' = {}
  /\ lo' = 0
  /\ UNCHANGED <<latest, runs, staged, new, live, old, made, published>>

\* notify() answers TRUE only for a mail that Mailgun took; one it took too late
\* to say so is delivered all the same.
Exit(said) == IF said THEN 2 ELSE 1
ReportFailure ==
  /\ Running("failed")
  /\ \E said, delivered \in BOOLEAN :
       /\ said => delivered
       /\ mails' = IF delivered THEN mails \cup {"FAILED"} ELSE mails
       /\ status' = Exit(said)
  /\ unit' = "failed" /\ UNCHANGED undelivered
  /\ Ends

\* Whether the mail is sent changes nothing.
ReportSuccess ==
  /\ Running("published")
  /\ \E delivered \in BOOLEAN :
       mails' = IF delivered THEN mails \cup {"succeeded"} ELSE mails
  /\ status' = 0 /\ unit' = "inactive" /\ UNCHANGED undelivered
  /\ Ends

\* The process is killed: out of memory, or by the start timeout. A mail it was
\* sending may get through.
Sending == CASE phase = "failed"    -> {"FAILED"}
             [] phase = "published" -> {"succeeded"}
             [] OTHER               -> {}
Die ==
  /\ unit = "activating"
  /\ mails' \in {mails, mails \cup Sending}
  /\ status' = 9 /\ unit' = "failed" /\ UNCHANGED undelivered
  /\ Ends

\* OnFailure= starts the unit that mails the deaths nobody has reported.
Backstop ==
  /\ unit = "failed"
  /\ unit' = "inactive"
  /\ \/ /\ status = 2 /\ UNCHANGED told
     \/ /\ status # 2
        /\ \E delivered \in BOOLEAN :
             /\ mails' = IF delivered THEN mails \cup {"DIED"} ELSE mails
             /\ undelivered' = ~delivered
  /\ UNCHANGED <<latest, runs, phase, clock, since, pass, staged, bits, tables, status>>

Work ==
  \/ LoadGeoTags \/ LoadPage \/ \E d \in Metadata : LoadMetadata(d)
  \/ MakeNew \/ InsertRange \/ CheckCounts \/ MakeLive \/ DropOld \/ Swap \/ Tidy
  \/ ReportFailure \/ ReportSuccess \/ Backstop

Next ==
  \/ Start \/ Tick \/ Work
  \/ \E d \in Dumps : Release(d) \/ Interrupt(d)
  \/ Fault \/ Die

\* Time passes, the process goes on until it ends, and systemd runs the backstop.
\* Nothing has to fail, and nobody has to start another run.
Fairness == WF_vars(Work \/ Tick)
Spec == Init /\ [][Next]_vars /\ Fairness
-------------------------------------------------------------------------------
PassRecord ==
  [at: {"waiting", "loading", "done", "lost"}, attempt: 0..Attempts, version: Versions,
   begun: Nat]

\* Passes run in their order, and never after the table is being built.
TypeOK ==
  /\ latest \in [Dumps -> Versions]
  /\ unit \in {"inactive", "activating", "failed"} /\ runs \in Nat
  /\ phase \in Importing \cup {"failed", "tidy", "published", "over"}
  /\ (unit = "activating") <=> (phase # "over")
  /\ clock \in Nat /\ since \in Nat /\ lo \in Nat
  /\ pass \in [Dumps -> PassRecord]
  /\ phase \in Building => \A d \in Dumps : pass[d].at = "done"
  /\ staged \in [Dumps -> SUBSET Pages]
  /\ seen \subseteq Pages /\ keptBits \subseteq Pages
  /\ titleBits \subseteq {Hash[p] : p \in Pages}
  /\ (new = None \/ new \subseteq Table) /\ (live = None \/ live \subseteq Table)
  /\ {old, published, undelivered} \subseteq BOOLEAN
  /\ status \in {0, 1, 2, 9}
  /\ made \in [Dumps -> Versions]
  /\ mails \subseteq {"FAILED", "succeeded", "DIED"}

\* The gallery reads a table made of four dumps that were read whole, whatever
\* was interrupted, retried or left behind before, and the next table replaces
\* it in one step (importWikimedia.ts:885-887).
Gallery == INSTANCE Publication WITH shown <- IF live = None THEN {} ELSE live
PublishedWhole == Gallery!Spec

\* "The gallery is unaffected" (importNotify.ts:191) is mailed only when the swap
\* did not happen, and a success only when it did. When a run ended without a new
\* table, the administrators have a mail about it, unless the backstop could not
\* deliver its own (importWikimedia.ts:943-948,
\* freemap-wikimedia-import-abort.service).
ReportsAreTrue ==
  /\ "FAILED" \in mails => ~published
  /\ "succeeded" \in mails => published
  /\ unit = "inactive" /\ runs > 0 /\ ~published => mails # {} \/ undelivered

\* A run ends by itself before systemd's start timeout would kill it, because
\* no retry begins after the budget (importWikimedia.ts:611-624).
RunsEndThemselves == unit = "activating" => clock < Timeout

\* Every run ends, and with it the state in which systemd swallows the timer's
\* next triggers (freemap-wikimedia-import.service).
EveryRunEnds == unit = "activating" ~> unit = "inactive"
===============================================================================
