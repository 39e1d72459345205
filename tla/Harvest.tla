-------------------------------- MODULE Harvest --------------------------------
(***************************************************************************)
(* Harvesting a club's calendar (scripts/harvest-events.mjs): a run reads  *)
(* what the source lists, leaves out what somebody entered by hand, posts  *)
(* the rest and deletes what is listed no more. The source, the database   *)
(* and its users change meanwhile, and any request may fail, a write also  *)
(* after it took effect.                                                   *)
(***************************************************************************)
EXTENDS Integers, FiniteSets

CONSTANTS
  Keys,        \* source keys of the calendar's events
  Entries,     \* what the calendar may list of an event: its title and dates
  MayGo,       \* how many may go in a run however few there are: 20
  Share,       \* and one of how many: 4
  MaxChanges,  \* bound on what others change
  Nothing

VARIABLES
  calendar, \* the source: what it lists of each event
  table,    \* the upcoming events of the source in our database
  byHand,   \* those that a public event entered by hand resembles
  changes,  \* how much others changed
  touched,  \* events that others changed since the run read the source (history)
  run       \* the run's state

harvestVars == <<calendar, table, byHand, changes, touched, run>>

Idle == [at |-> "idle"]
HarvestInit ==
  /\ calendar \in [Keys -> Entries \cup {Nothing}]
  /\ table \in [Keys -> Entries \cup {Nothing}]
  /\ byHand \in SUBSET Keys
  /\ changes = 0 /\ touched = {} /\ run = Idle

Present(rows) == {k \in Keys : rows[k] # Nothing}
-------------------------------------------------------------------------------
(* The others *)

\* While the run goes on: it begins and ends with any calendar and any table.
Meddle(k) ==
  /\ run.at \notin {"idle", "red", "green"}
  /\ changes < MaxChanges /\ changes' = changes + 1
  /\ touched' = touched \cup {k}
  /\ UNCHANGED run

ListChanges(k) ==
  /\ Meddle(k)
  /\ \E entry \in (Entries \cup {Nothing}) \ {calendar[k]} : calendar' = [calendar EXCEPT ![k] = entry]
  /\ UNCHANGED <<table, byHand>>

\* Somebody enters the event by hand, or deletes what they entered.
HandEntry(k) ==
  /\ Meddle(k)
  /\ byHand' = IF k \in byHand THEN byHand \ {k} ELSE byHand \cup {k}
  /\ UNCHANGED <<calendar, table>>

\* A manager deletes or edits the event, or it starts and is no longer upcoming.
EventChanges(k) ==
  /\ Meddle(k) /\ table[k] # Nothing
  /\ \E row \in (Entries \cup {Nothing}) \ {table[k]} : table' = [table EXCEPT ![k] = row]
  /\ UNCHANGED <<calendar, byHand>>
-------------------------------------------------------------------------------
(* A run *)

Others == UNCHANGED <<calendar, byHand, changes, touched>>
Goes(at) == run' = [run EXCEPT !.at = at]
\* An error that sync or the source throws.
Throws == run' = [run EXCEPT !.at = "end", !.failed = TRUE]

\* source.harvest: an event listed whose page fails, or whose place isn't found,
\* has no body; `complete` is a run without --from, --to and --limit. A page is
\* read again when the list says something else of the event.
Read ==
  /\ run.at = "idle"
  /\ \E complete \in BOOLEAN, failing, unplaced \in SUBSET Present(calendar) :
       /\ failing \cap unplaced = {}
       /\ run' = [at |-> "mark", complete |-> complete, listed |-> Present(calendar),
                  body |-> [k \in Keys |-> IF k \in failing \cup unplaced THEN Nothing ELSE calendar[k]],
                  duplicates |-> {}, todo |-> {}, gone |-> {},
                  failed |-> failing # {}, statsFailed |-> FALSE]
  /\ UNCHANGED <<calendar, table, byHand, changes, touched>>

Bodies == Present(run.body)

\* handEnteredEvents and markDuplicates; they, or source.harvest, may throw.
MarkDuplicates ==
  /\ run.at = "mark"
  /\ \/ run' = [run EXCEPT !.at = "post", !.duplicates = Bodies \cap byHand,
                           !.todo = Bodies \ byHand]
     \/ Throws
  /\ UNCHANGED table /\ Others

\* A POST updates the event of its key, or makes one. It is taken to be of one that
\* has not begun: GET /events/sources lists no others (sourceHandler.ts:56), so an
\* event that the calendar lists after its start would be stored and not be seen
\* again, neither counted nor deleted, by FindGone.
Post(k) ==
  /\ run.at = "post" /\ k \in run.todo
  /\ \/ /\ table' = [table EXCEPT ![k] = run.body[k]]
        /\ run' = [run EXCEPT !.todo = @ \ {k}]
     \/ /\ table' \in {table, [table EXCEPT ![k] = run.body[k]]}
        /\ run' = [run EXCEPT !.todo = @ \ {k}, !.statsFailed = TRUE]
  /\ Others

\* (mutation) only what could be read is kept
KeptBodies == Bodies \ run.duplicates

\* Whatever the source lists is kept, also what couldn't be read.
Kept == run.listed \ run.duplicates

\* GET of the upcoming events, and what of them goes.
FindGone ==
  /\ run.at = "post" /\ run.todo = {}
  /\ IF ~run.complete THEN Goes("exit")
     ELSE \/ LET gone == Present(table) \ Kept
             IN IF /\ Cardinality(gone) > MayGo
                   /\ Cardinality(gone) * Share > Cardinality(Present(table))
                THEN Throws ELSE run' = [run EXCEPT !.at = "delete", !.gone = gone]
          \/ Throws
  /\ UNCHANGED table /\ Others

\* DELETE of an event that is gone already is refused.
Delete(k) ==
  /\ run.at = "delete" /\ k \in run.gone
  /\ \/ /\ table[k] # Nothing
        /\ table' = [table EXCEPT ![k] = Nothing] /\ run' = [run EXCEPT !.gone = @ \ {k}]
     \/ /\ table' \in {table, [table EXCEPT ![k] = Nothing]}
        /\ run' = [run EXCEPT !.gone = @ \ {k}, !.statsFailed = TRUE]
  /\ Others

Deleted ==
  /\ run.at = "delete" /\ run.gone = {} /\ Goes("exit") /\ UNCHANGED table /\ Others

\* (mutation) a refused POST doesn't count as a failure
FailedRead == run.failed

Failed == run.failed \/ run.statsFailed

\* The exit code tells whether anything failed.
ExitCode ==
  /\ run.at \in {"exit", "end"}
  /\ run' = [run EXCEPT !.at = IF Failed THEN "red" ELSE "green"]
  /\ UNCHANGED table /\ Others

HarvestNext ==
  \/ \E k \in Keys : ListChanges(k) \/ HandEntry(k) \/ EventChanges(k) \/ Post(k) \/ Delete(k)
  \/ Read \/ MarkDuplicates \/ FindGone \/ Deleted \/ ExitCode

HarvestSpec == HarvestInit /\ [][HarvestNext]_harvestVars
-------------------------------------------------------------------------------
\* "A scheduled run shows red for a page not read, an event not posted or deleted, a
\* source broken" (harvest-events.mjs:385): after a complete run that shows green,
\* the upcoming events are those of the calendar without copies of those entered by
\* hand - but for what others changed since the run read the calendar, and for what
\* has no place.
GreenMeansSynced ==
  run.at = "green" /\ run.complete =>
    \A k \in Keys \ touched :
      \/ table[k] = IF k \in byHand THEN Nothing ELSE calendar[k]
      \/ k \in run.listed /\ run.body[k] = Nothing

\* "Whatever the source still lists is kept, even unread or unplaced this time"
\* (harvest-events.mjs:290): a run deletes no event that the calendar it read lists,
\* unless it is a copy of one entered by hand.
OnlyGoneIsDeleted ==
  [][\A k \in Keys :
       run'.at = "delete" /\ run' # run /\ table[k] # Nothing /\ table'[k] = Nothing =>
         k \notin run.listed \/ k \in run.duplicates]_harvestVars
===============================================================================
