--------------------------------- MODULE Events ---------------------------------
(***************************************************************************)
(* Events (routers/events): each with its owner, a linked map, a cover     *)
(* image in two files, the key it was harvested under and those taking     *)
(* part. A POST or PATCH checks the owner and the map by its transaction's *)
(* snapshot and writes later; an edit of an event holds its row's lock. An *)
(* upload writes the files of a new name, sets it under the lock and       *)
(* removes what it replaced after the commit.                              *)
(***************************************************************************)
EXTENDS SavedMaps

CONSTANTS
  Events, \* ids
  Keys,   \* source keys
  Covers  \* names of covers

EventRow == [owner: Users, map: Maps \cup {None}, key: Keys \cup {None},
             cover: Covers \cup {None}]
EventWork ==
  [kind: {"post"}, owner: Users, map: Maps \cup {None}, key: Keys \cup {None}]
  \cup [kind: {"patch"}, event: Events, owner: Users, map: Maps \cup {None}]
  \cup [kind: {"store"}, event: Events, cover: Covers]
  \cup [kind: {"set"}, event: Events, cover: Covers \cup {None}]

ASSUME EventsAssumption == None \notin Covers /\ None \notin EventRow

VARIABLES
  event,      \* the event table
  eventsMade, \* ids in use or used
  takesPart,  \* the eventParticipant table
  files,      \* the variants on the disk, of each cover
  removing,   \* covers whose files a handler is about to unlink
  coversMade, \* names given
  strays      \* those whose files a restart or an unlink's failure left, or whose
              \* commit went unanswered (history)

eventsVars == <<event, eventsMade, takesPart, files, removing, coversMade, strays>>

Sizes == {"large", "thumb"}

EventsInit ==
  /\ event = [e \in Events |-> None] /\ eventsMade = {}
  /\ takesPart = [e \in Events |-> {}]
  /\ files = [n \in Covers |-> {}] /\ removing = {} /\ coversMade = {} /\ strays = {}

\* Whoever PATCHes an event has locked its row, until it commits.
LockedEvents == {Work(r).event : r \in {q \in Requests : Doing(q, "patch")}}
CanWriteEvent(r, e) == IsOwnerOrRole(r, event[e].owner)

\* assertCanOwn and assertOwnMap, for an event of `owner`.
CanOwn(r, owner) == owner = Caller(r) \/ (HasRole(r) /\ owner \in alive)
MapFits(m, owner) == m # None => map[m] # None /\ map[m].owner = owner

\* The foreign keys: without the owner or the map the write fails.
RefersToRows(owner, m) == owner \in alive /\ (m # None => map[m] # None)
-------------------------------------------------------------------------------
OpenPost(r, owner, m, key) ==
  /\ Begins(r) /\ CanOwn(r, owner) /\ MapFits(m, owner)
  /\ key # None => HasRole(r)
  /\ GoesOn(r, [kind |-> "post", owner |-> owner, map |-> m, key |-> key])
  /\ UNCHANGED eventsVars

\* A known key updates what was harvested, not the owner, the map or the cover.
WritePost(r, e) ==
  /\ Doing(r, "post") /\ e \notin eventsMade
  /\ LET harvested == {x \in Events : event[x] # None /\ Work(r).key # None
                                                      /\ event[x].key = Work(r).key}
     IN /\ harvested \cap LockedEvents = {}
        /\ IF RefersToRows(Work(r).owner, Work(r).map) /\ harvested = {}
           THEN /\ event' = [event EXCEPT ![e] =
                       [owner |-> Work(r).owner, map |-> Work(r).map, key |-> Work(r).key,
                        cover |-> None]]
                /\ eventsMade' = eventsMade \cup {e}
           ELSE UNCHANGED <<event, eventsMade>>
  /\ Answered(r)
  /\ UNCHANGED <<takesPart, files, removing, coversMade, strays>>

\* (mutation) the map not checked against a new owner
MapNeedsCheckOnce(e, owner, m) == m # event[e].map

\* The map is checked when it or the owner changes.
MapNeedsCheck(e, owner, m) == m # event[e].map \/ owner # event[e].owner

OpenPatch(r, e, owner, m) ==
  /\ Begins(r) /\ event[e] # None /\ e \notin LockedEvents /\ CanWriteEvent(r, e)
  /\ owner # event[e].owner => CanOwn(r, owner)
  /\ MapNeedsCheck(e, owner, m) => MapFits(m, owner)
  /\ GoesOn(r, [kind |-> "patch", event |-> e, owner |-> owner, map |-> m])
  /\ UNCHANGED eventsVars

WritePatch(r) ==
  /\ Doing(r, "patch")
  /\ LET e == Work(r).event
     IN event' = IF RefersToRows(Work(r).owner, Work(r).map)
                 THEN [event EXCEPT ![e].owner = Work(r).owner, ![e].map = Work(r).map]
                 ELSE event
  /\ Answered(r)
  /\ UNCHANGED <<eventsMade, takesPart, files, removing, coversMade, strays>>

CoversOf(es) == {event[e].cover : e \in {x \in es : event[x] # None}} \ {None}

DeleteEvent(r, e) ==
  /\ Begins(r) /\ event[e] # None /\ e \notin LockedEvents /\ CanWriteEvent(r, e)
  /\ event' = [event EXCEPT ![e] = None] /\ takesPart' = [takesPart EXCEPT ![e] = {}]
  /\ removing' = removing \cup CoversOf({e})
  /\ Answered(r)
  /\ UNCHANGED <<eventsMade, files, coversMade, strays>>

SetParticipation(r, e, takes) ==
  /\ Begins(r) /\ event[e] # None /\ e \notin LockedEvents
  /\ takesPart' = [takesPart EXCEPT ![e] =
       IF ~takes THEN @ \ {Caller(r)} ELSE IF Caller(r) \in alive THEN @ \cup {Caller(r)} ELSE @]
  /\ Answered(r)
  /\ UNCHANGED <<event, eventsMade, files, removing, coversMade, strays>>
-------------------------------------------------------------------------------
(* Covers *)

StartCover(r, e, n) ==
  /\ Begins(r) /\ event[e] # None /\ CanWriteEvent(r, e) /\ n \notin coversMade
  /\ coversMade' = coversMade \cup {n}
  /\ GoesOn(r, [kind |-> "store", event |-> e, cover |-> n])
  /\ UNCHANGED <<event, eventsMade, takesPart, files, removing, strays>>

\* One variant after the other; what sharp can't do ends the upload.
StoreVariant(r) ==
  /\ Doing(r, "store")
  /\ LET n == Work(r).cover
     IN /\ files' = [files EXCEPT ![n] = IF @ = {} THEN {"large"} ELSE Sizes]
        /\ GoesOn(r, [Work(r) EXCEPT !.kind = IF files'[n] = Sizes THEN "set" ELSE "store"])
  /\ UNCHANGED <<event, eventsMade, takesPart, removing, coversMade, strays>>

\* (mutation) files of a failed upload left behind
NothingLeft(r) == {}

\* What a handler that fails removes.
Leftover(r) == {Work(r).cover} \ {None}

StoreFails(r) ==
  /\ Doing(r, "store")
  /\ removing' = removing \cup Leftover(r)
  /\ Answered(r)
  /\ UNCHANGED <<event, eventsMade, takesPart, files, coversMade, strays>>

\* DELETE of the cover starts where an upload has its files.
StartNoCover(r, e) ==
  /\ Begins(r) /\ event[e] # None
  /\ GoesOn(r, [kind |-> "set", event |-> e, cover |-> None])
  /\ UNCHANGED eventsVars

\* setCover reads the cover it replaces under the lock. If it fails, the new
\* files go.
SetCover(r) ==
  /\ Doing(r, "set")
  /\ LET e == Work(r).event
     IN /\ e \notin LockedEvents
        /\ IF event[e] # None /\ CanWriteEvent(r, e)
           THEN /\ event' = [event EXCEPT ![e].cover = Work(r).cover]
                /\ removing' = removing \cup CoversOf({e})
           ELSE /\ removing' = removing \cup Leftover(r)
                /\ UNCHANGED event
  /\ Answered(r)
  /\ UNCHANGED <<eventsMade, takesPart, files, coversMade, strays>>

\* The commit's answer is lost: the handler takes it for a failure.
SetCoverUnanswered(r) ==
  /\ Doing(r, "set")
  /\ LET e == Work(r).event
     IN /\ event[e] # None /\ CanWriteEvent(r, e) /\ e \notin LockedEvents
        /\ event' = [event EXCEPT ![e].cover = Work(r).cover]
        /\ removing' = removing \cup Leftover(r)
        /\ strays' = strays \cup CoversOf({e}) \cup Leftover(r)
  /\ Answered(r)
  /\ UNCHANGED <<eventsMade, takesPart, files, coversMade>>

RemoveCover(n) ==
  /\ n \in removing
  /\ removing' = removing \ {n}
  /\ \/ files' = [files EXCEPT ![n] = {}] /\ UNCHANGED strays
     \/ strays' = strays \cup {n} /\ UNCHANGED files
  /\ UNCHANGED <<ownersVars, event, eventsMade, takesPart, coversMade>>

\* The process restarts: transactions roll back, and nobody goes on with files.
RestartEvents ==
  /\ strays' = strays \cup removing
       \cup ({Work(r).cover : r \in {q \in Requests : Doing(q, "store") \/ Doing(q, "set")}} \ {None})
  /\ removing' = {}
  /\ UNCHANGED <<event, eventsMade, takesPart, files, coversMade>>
-------------------------------------------------------------------------------
(* Deleted maps and accounts, merged accounts *)

\* ON DELETE SET NULL waits for the events' locks, as the merge and the deletion do.
UnlinkMaps(gone) ==
  /\ \A e \in LockedEvents : event[e].map \notin gone
  /\ event' = [e \in Events |-> IF event[e] # None /\ event[e].map \in gone
                                THEN [event[e] EXCEPT !.map = None] ELSE event[e]]
  /\ UNCHANGED <<eventsMade, takesPart, files, removing, coversMade, strays>>

OwnedEvents(u) == {e \in Events : event[e] # None /\ event[e].owner = u}

MergeEvents(source, target) ==
  /\ OwnedEvents(source) \cap LockedEvents = {}
  /\ event' = Repointed(event, source, target)
  /\ takesPart' = [e \in Events |-> Renamed(takesPart[e], source, target)]
  /\ UNCHANGED <<eventsMade, files, removing, coversMade, strays>>

DeleteEventsOf(u, maps) ==
  /\ OwnedEvents(u) \cap LockedEvents = {}
  /\ \A e \in LockedEvents : event[e].map \notin maps
  /\ LET kept == WithoutOwner(event, u)
     IN event' = [e \in Events |-> IF kept[e] # None /\ kept[e].map \in maps
                                   THEN [kept[e] EXCEPT !.map = None] ELSE kept[e]]
  /\ takesPart' = [e \in Events |-> IF e \in OwnedEvents(u) THEN {} ELSE takesPart[e] \ {u}]
  /\ removing' = removing \cup CoversOf(OwnedEvents(u))
  /\ UNCHANGED <<eventsMade, files, coversMade, strays>>
-------------------------------------------------------------------------------
\* "The linked map must be the owner's - the new one's, if it changes"
\* (patchEventHandler.ts:121), "not to whoever edits it" (mapLink.ts:7): whatever
\* merges, deletions and edits by owners and managers come between the checks, by
\* a snapshot, and the write.
LinkedMapsAreOwners ==
  \A e \in Events : event[e] # None /\ event[e].map # None =>
    map[event[e].map] # None /\ map[event[e].map].owner = event[e].owner

\* A cover that an event names has both variants, and no file is left that neither
\* an event names nor a handler is about to use or remove - but for what a restart,
\* a failed unlink or a lost answer to a commit leaves (coverHandlers.ts:33-80, 156).
CoversMatchFiles ==
  LET named == CoversOf(Events)
      used == {Work(r).cover : r \in {q \in Requests : Doing(q, "store") \/ Doing(q, "set")}}
  IN /\ \A n \in named \ strays : files[n] = Sizes /\ n \notin removing
     /\ \A n \in Covers \ strays : files[n] # {} => n \in named \cup used \cup removing
===============================================================================
