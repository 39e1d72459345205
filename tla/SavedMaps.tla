------------------------------- MODULE SavedMaps -------------------------------
(***************************************************************************)
(* Saved maps (routers/maps): a map with its writers, edited by clients    *)
(* that name the modification time they know, as If-Unmodified-Since, in   *)
(* seconds. A PATCH holds the row's lock from its first statement to its   *)
(* commit, so it is one step; a POST writes the map and its writers apart. *)
(***************************************************************************)
EXTENDS Owners

CONSTANTS
  Maps,    \* ids
  MaxEdits \* bound on the editions of a map

EditRow == [at: 0..MaxTime, base: Nat \cup {None}]
MapRow  == [owner: Users, edits: Seq(EditRow)]
SeenRow == [map: Maps, edition: Nat]
MapWork == [kind: {"writers"}, map: Maps, writers: SUBSET Users]

ASSUME MapsAssumption == None \notin Maps /\ None \notin MapRow

VARIABLES
  map,      \* owner and editions of each map: when made, and over which guarded one
  writers,  \* the mapWriteAccess table
  mapsMade, \* ids in use or used
  seen      \* the map and edition each client knows

mapsVars == <<map, writers, mapsMade, seen>>

MapsInit ==
  /\ map = [m \in Maps |-> None] /\ writers = [m \in Maps |-> {}] /\ mapsMade = {}
  /\ seen = [r \in Requests |-> None]

Edition(base) == [at |-> now, base |-> base]

PostMap(r, m, ws) ==
  /\ Begins(r) /\ m \notin mapsMade /\ Caller(r) \in alive
  /\ map' = [map EXCEPT ![m] = [owner |-> Caller(r), edits |-> <<Edition(None)>>]]
  /\ mapsMade' = mapsMade \cup {m}
  /\ seen' = [seen EXCEPT ![r] = [map |-> m, edition |-> 1]]
  /\ IF ws = {} THEN Answered(r)
     ELSE GoesOn(r, [kind |-> "writers", map |-> m, writers |-> ws])
  /\ UNCHANGED writers

\* A writer who doesn't exist, or has access already, fails the statement: the
\* map stays with the writers it has.
PostWriters(r) ==
  /\ Doing(r, "writers")
  /\ LET m == Work(r).map  ws == Work(r).writers
     IN writers' = IF map[m] # None /\ ws \subseteq alive /\ ws \cap writers[m] = {}
                   THEN [writers EXCEPT ![m] = @ \cup ws] ELSE writers
  /\ Answered(r)
  /\ UNCHANGED <<map, mapsMade, seen>>

\* GET of a map: nothing keeps it from anyone who has its link.
GetMap(r, m) ==
  /\ Begins(r) /\ map[m] # None
  /\ seen' = [seen EXCEPT ![r] = [map |-> m, edition |-> Len(map[m].edits)]]
  /\ Answered(r)
  /\ UNCHANGED <<map, writers, mapsMade>>

\* A writer may change the data, but neither the name nor the writers.
MayPatch(r, m, renames) ==
  \/ IsOwnerOrRole(r, map[m].owner)
  \/ Caller(r) \in writers[m] /\ ~renames

\* (mutation) the header not compared
UnmodifiedAnyhow(r, m) == seen[r] # None /\ seen[r].map = m

\* If-Unmodified-Since names the second of the edition the client knows.
Unmodified(r, m) ==
  /\ seen[r] # None /\ seen[r].map = m
  /\ map[m].edits[seen[r].edition].at >= map[m].edits[Len(map[m].edits)].at

\* `ws` is None in a request that leaves the writers alone.
PatchMap(r, m, guarded, renames, ws) ==
  /\ Begins(r) /\ map[m] # None
  /\ MayPatch(r, m, renames \/ ws # None)
  /\ guarded => Unmodified(r, m)
  /\ ws # None => ws \subseteq alive
  /\ Len(map[m].edits) < MaxEdits
  /\ map' = [map EXCEPT ![m].edits =
               Append(@, Edition(IF guarded THEN seen[r].edition ELSE None))]
  /\ writers' = IF ws = None THEN writers ELSE [writers EXCEPT ![m] = ws]
  /\ seen' = [seen EXCEPT ![r] = [map |-> m, edition |-> Len(map[m].edits) + 1]]
  /\ Answered(r)
  /\ UNCHANGED mapsMade

DeleteMap(r, m) ==
  /\ Begins(r) /\ map[m] # None
  /\ IsOwnerOrRole(r, map[m].owner)
  /\ map' = [map EXCEPT ![m] = None] /\ writers' = [writers EXCEPT ![m] = {}]
  /\ seen' = [q \in Requests |-> IF seen[q] # None /\ seen[q].map = m THEN None ELSE seen[q]]
  /\ Answered(r)
  /\ UNCHANGED mapsMade

\* (mutation) the source's places left to the cascade
WritersWithout(source, target) == [m \in Maps |-> writers[m] \ {source}]

MergedWriters(source, target) == [m \in Maps |-> Renamed(writers[m], source, target)]
MergeMaps(source, target) ==
  /\ map' = Repointed(map, source, target)
  /\ writers' = MergedWriters(source, target)
  /\ UNCHANGED <<mapsMade, seen>>

DeleteMapsOf(u) ==
  /\ map' = WithoutOwner(map, u)
  /\ writers' = [m \in Maps |-> IF map[m] # None /\ map[m].owner = u THEN {}
                                ELSE writers[m] \ {u}]
  /\ seen' = [q \in Requests |-> IF seen[q] # None /\ map[seen[q].map] # None
                                    /\ map[seen[q].map].owner = u THEN None ELSE seen[q]]
  /\ UNCHANGED mapsMade
-------------------------------------------------------------------------------
\* If-Unmodified-Since keeps a client from overwriting what it hasn't seen
\* (patchMapHandler.ts:109-115), to the second: an edit accepted with it replaced
\* no edition that its client didn't know, save one made within the very second
\* of the edition it knew, whoever edited, renamed or merged meanwhile.
GuardedEditsLoseNothing ==
  \A m \in Maps : map[m] # None =>
    \A e \in 1..Len(map[m].edits) : LET base == map[m].edits[e].base IN
      base # None => \A lost \in (base + 1)..(e - 1) :
                       map[m].edits[lost].at = map[m].edits[base].at

CanWriteMap(u, m) == map[m] # None /\ (map[m].owner = u \/ u \in writers[m])
===============================================================================
