------------------------------- MODULE Tracking -------------------------------
(***************************************************************************)
(* Live tracking: devices report points, each in a transaction that holds  *)
(* the device's row, prunes, and tells the subscribed sockets before it    *)
(* commits (deviceTracking.ts); a socket subscribes to a device of its     *)
(* user or by an access token, is registered, and then the history is read *)
(* and sent (trackingSubscribeHandler.ts).                                 *)
(***************************************************************************)
EXTENDS Naturals, FiniteSets

CONSTANTS
  Devices, Links,  \* devices, and access tokens to them
  Stores,          \* reports of a point, over HTTP or the raw socket
  Subs,            \* tracking.subscribe requests
  Sockets,         \* connections of clients
  MaxCounts,       \* limits a device may be given
  Ages,            \* whether a device has a maxAge; TRUE prunes what FALSE does
  None

ASSUME TrackingAssumption ==
  /\ MaxCounts \subseteq Nat /\ Ages \subseteq BOOLEAN
  /\ None \notin MaxCounts \cup Devices \cup Links \cup Sockets
  /\ Devices \cap Links = {}

VARIABLES
  device,    \* trackingDevice: maxCount and whether maxAge is set
  link,      \* trackingAccessToken: its device, and whether now is in its window
  known,     \* devices and tokens ever made; their names are not used again
  points,    \* trackingPoint: the committed IDs of each device
  nextId,    \* AUTO_INCREMENT of trackingPoint
  store,     \* reports: how far, the device, the ID, the IDs pruned, the tokens read
  open,      \* sockets with readyState 1
  register,  \* trackRegister
  sub,       \* subscriptions: how far, the socket, the key, the rows of the history
  seen,      \* the IDs a subscription was sent (history)
  missable,  \* reports told but uncommitted when it was registered (history)
  left       \* subscriptions the client gave up (history)

tables == <<device, link, known, points>>
clients == <<open, register, sub, seen, missable, left>>
vars == <<tables, nextId, store, clients>>

Keys == Devices \cup Links
Limit == MaxCounts \cup {None}

\* NULL is no row.
ASSUME NoRowAssumption ==
  None \notin [maxCount: Limit, byAge: Ages] \cup [device: Devices, open: BOOLEAN]

Init ==
  /\ device = [d \in Devices |-> None]
  /\ link = [k \in Links |-> None]
  /\ known = {}
  /\ points = [d \in Devices |-> {}]
  /\ nextId = 1
  /\ store = [s \in Stores |-> [at |-> "idle"]]
  /\ open = Sockets
  /\ register = [x \in Keys |-> {}]
  /\ sub = [r \in Subs |-> [at |-> "idle"]]
  /\ seen = [r \in Subs |-> {}]
  /\ missable = [r \in Subs |-> {}]
  /\ left = {}

-------------------------------------------------------------------------------
(* Reports *)

Storing(s) == store[s].at \in {"inserted", "read", "told"}

\* (mutation) the device's row read without FOR UPDATE
LockedNever(d) == FALSE

\* Whoever changes the device, its points or its tokens waits for its row,
\* which a report holds from its first statement to its end.
Locked(d) == \E s \in Stores : Storing(s) /\ store[s].device = d

\* All but the newest, by ID.
BeyondCount(ids, limit) ==
  IF limit = None THEN {} ELSE {i \in ids : Cardinality({j \in ids : j > i}) >= limit}

\* pruneTrackPoints; which points are too old for maxAge depends on the times
\* the device gave.
Prunable(ids, row) ==
  {old \cup BeyondCount(ids \ old, row.maxCount) :
     old \in IF row.byAge THEN SUBSET ids ELSE {{}}}

\* The row is locked, the point inserted, older ones pruned.  A device that is
\* not found answers 404, a parameter out of range 400 and a rollback.
StoreInsert(s) ==
  /\ store[s].at = "idle"
  /\ \E d \in Devices :
       /\ device[d] # None /\ ~Locked(d)
       /\ \E gone \in Prunable(points[d] \cup {nextId}, device[d]) :
            store' = [store EXCEPT ![s] = [at |-> "inserted", device |-> d, id |-> nextId,
                                           gone |-> gone, to |-> {}]]
  /\ nextId' = nextId + 1
  /\ UNCHANGED <<tables, clients>>

StoreReadTokens(s) ==
  /\ store[s].at = "inserted"
  /\ store' = [store EXCEPT ![s].at = "read",
                 ![s].to = {k \in Links : /\ link[k] # None /\ link[k].open
                                          /\ link[k].device = store[s].device}]
  /\ UNCHANGED <<tables, nextId, clients>>

\* The subscriptions a report goes to.
Told(s) ==
  {r \in Subs : /\ sub[r].at # "idle"
                /\ sub[r].key \in store[s].to \cup {store[s].device}
                /\ sub[r].ws \in register[sub[r].key] \cap open}

\* Without an await, between the tokens' arrival and the COMMIT.
StoreTell(s) ==
  /\ store[s].at = "read"
  /\ store' = [store EXCEPT ![s].at = "told"]
  /\ seen' = [r \in Subs |-> IF r \in Told(s) THEN seen[r] \cup {store[s].id} ELSE seen[r]]
  /\ UNCHANGED <<tables, nextId, open, register, sub, missable, left>>

StoreCommit(s) ==
  /\ store[s].at = "told"
  /\ points' = [points EXCEPT ![store[s].device] = (@ \cup {store[s].id}) \ store[s].gone]
  /\ store' = [store EXCEPT ![s] = [at |-> "done"]]
  /\ UNCHANGED <<device, link, known, nextId, clients>>

\* A statement fails, the COMMIT included: a rollback, and 500.  What is tried
\* again after a deadlock is a report of its own.
StoreFail(s) ==
  /\ Storing(s)
  /\ store' = [store EXCEPT ![s] = [at |-> "done"]]
  /\ UNCHANGED <<tables, nextId, clients>>

-------------------------------------------------------------------------------
(* Devices and access tokens *)

PostDevice(d) ==
  /\ d \notin known
  /\ known' = known \cup {d}
  /\ \E limit \in Limit, byAge \in Ages :
       device' = [device EXCEPT ![d] = [maxCount |-> limit, byAge |-> byAge]]
  /\ UNCHANGED <<link, points, nextId, store, clients>>

PutDevice(d) ==
  /\ device[d] # None /\ ~Locked(d)
  /\ \E limit \in Limit, byAge \in Ages :
       LET row == [maxCount |-> limit, byAge |-> byAge]
       IN /\ device' = [device EXCEPT ![d] = row]
          /\ \E gone \in Prunable(points[d], row) : points' = [points EXCEPT ![d] = @ \ gone]
  /\ UNCHANGED <<link, known, nextId, store, clients>>

LinksWithout(d) ==
  [k \in Links |-> IF link[k] # None /\ link[k].device = d THEN None ELSE link[k]]

\* The device's points and tokens cascade.  So they do when its user goes.
DeleteDevice(d) ==
  /\ device[d] # None /\ ~Locked(d)
  /\ device' = [device EXCEPT ![d] = None]
  /\ points' = [points EXCEPT ![d] = {}]
  /\ link' = LinksWithout(d)
  /\ UNCHANGED <<known, nextId, store, clients>>

\* Its foreign key waits for the device's row as well.
PostToken(k) ==
  /\ k \notin known
  /\ known' = known \cup {k}
  /\ \E d \in Devices, isOpen \in BOOLEAN :
       /\ device[d] # None /\ ~Locked(d)
       /\ link' = [link EXCEPT ![k] = [device |-> d, open |-> isOpen]]
  /\ UNCHANGED <<device, points, nextId, store, clients>>

\* (mutation) only the token's own row is locked
LinkLockedAlone(k) == FALSE

\* JOIN trackingDevice ... FOR UPDATE
LinkLocked(k) == Locked(link[k].device)

PutToken(k) ==
  /\ link[k] # None /\ ~LinkLocked(k)
  /\ link' = [link EXCEPT ![k].open = ~@]
  /\ UNCHANGED <<device, known, points, nextId, store, clients>>

DeleteToken(k) ==
  /\ link[k] # None /\ ~LinkLocked(k)
  /\ link' = [link EXCEPT ![k] = None]
  /\ UNCHANGED <<device, known, points, nextId, store, clients>>

\* timeFrom or timeTo comes.
WindowTurns(k) ==
  /\ link[k] # None
  /\ link' = [link EXCEPT ![k].open = ~@]
  /\ UNCHANGED <<device, known, points, nextId, store, clients>>

-------------------------------------------------------------------------------
(* Subscriptions *)

Exists(x) == IF x \in Devices THEN device[x] # None ELSE link[x] # None

\* The request, of the device's owner or with a token, finds its row.
SubFind(r) ==
  /\ sub[r].at = "idle"
  /\ \E w \in open, x \in Keys :
       /\ Exists(x)
       /\ sub' = [sub EXCEPT ![r] = [at |-> "found", ws |-> w, key |-> x]]
  /\ UNCHANGED <<tables, nextId, store, open, register, seen, missable, left>>

\* Whatever became meanwhile of the socket, and of the row.
SubRegister(r) ==
  /\ sub[r].at = "found"
  /\ register' = [register EXCEPT ![sub[r].key] = @ \cup {sub[r].ws}]
  /\ sub' = [sub EXCEPT ![r].at = "registered"]
  /\ missable' = [missable EXCEPT ![r] =
                    {store[s].id : s \in {x \in Stores : store[x].at = "told" /\ r \notin left}}]
  /\ UNCHANGED <<tables, nextId, store, open, seen, left>>

\* The points a subscription without limits of its own is sent; by a token those
\* dated in its window.
History(x) ==
  IF x \in Devices THEN {points[x]}
  ELSE IF link[x] = None THEN {{}} ELSE SUBSET points[link[x].device]

\* The query is awaited: reports, deletions and the socket go on before its rows
\* are sent.  One that fails answers 500, and the socket stays registered.
SubRead(r) ==
  /\ sub[r].at = "registered"
  /\ \E ids \in History(sub[r].key) :
       sub' = [sub EXCEPT ![r] = [at |-> "read", ws |-> sub[r].ws, key |-> sub[r].key,
                                  rows |-> ids]]
  /\ UNCHANGED <<tables, nextId, store, open, register, seen, missable, left>>

SubSend(r) ==
  /\ sub[r].at = "read"
  /\ sub' = [sub EXCEPT ![r] = [at |-> "answered", ws |-> sub[r].ws, key |-> sub[r].key]]
  /\ seen' = IF sub[r].ws \in open
             THEN [seen EXCEPT ![r] = @ \cup sub[r].rows] ELSE seen
  /\ UNCHANGED <<tables, nextId, store, open, register, missable, left>>

\* (mutation) the key deleted though others are registered under it
RegisterWithoutKey(w, x) == [register EXCEPT ![x] = {}]
RegisterWithout(w, x)    == [register EXCEPT ![x] = @ \ {w}]

SubsOf(w) == {r \in Subs : sub[r].at # "idle" /\ sub[r].ws = w}

Unsubscribe(w, x) ==
  /\ w \in open
  /\ \E r \in SubsOf(w) \ left : sub[r].key = x
  /\ register' = RegisterWithout(w, x)
  /\ left' = left \cup {r \in SubsOf(w) : sub[r].key = x}
  /\ UNCHANGED <<tables, nextId, store, open, sub, seen, missable>>

\* To the tables a restart is the closing of every socket and the failure of
\* every report.  What a client gone was sent does not matter any more.
Close(w) ==
  /\ w \in open
  /\ open' = open \ {w}
  /\ register' = [x \in Keys |-> register[x] \ {w}]
  /\ left' = left \cup SubsOf(w)
  /\ seen' = [r \in Subs |-> IF r \in SubsOf(w) THEN {} ELSE seen[r]]
  /\ missable' = [r \in Subs |-> IF r \in SubsOf(w) THEN {} ELSE missable[r]]
  /\ UNCHANGED <<tables, nextId, store, sub>>

Next ==
  \/ \E s \in Stores : \/ StoreInsert(s) \/ StoreReadTokens(s) \/ StoreTell(s)
                       \/ StoreCommit(s) \/ StoreFail(s)
  \/ \E d \in Devices : PostDevice(d) \/ PutDevice(d) \/ DeleteDevice(d)
  \/ \E k \in Links : PostToken(k) \/ PutToken(k) \/ DeleteToken(k) \/ WindowTurns(k)
  \/ \E r \in Subs : SubFind(r) \/ SubRegister(r) \/ SubRead(r) \/ SubSend(r)
  \/ \E w \in Sockets : Close(w) \/ \E x \in Keys : Unsubscribe(w, x)

Spec == Init /\ [][Next]_vars

-------------------------------------------------------------------------------
(* What tracking promises *)

StoreRecord ==
  [at: {"idle", "done"}]
  \cup [at: {"inserted", "read", "told"}, device: Devices, id: Nat, gone: SUBSET Nat,
        to: SUBSET Links]

\* Every variable stays within its type, and no foreign key dangles.
TypeOK ==
  /\ device \in [Devices -> [maxCount: Limit, byAge: Ages] \cup {None}]
  /\ link \in [Links -> [device: Devices, open: BOOLEAN] \cup {None}]
  /\ \A k \in Links : link[k] # None => device[link[k].device] # None
  /\ known \subseteq Keys
  /\ points \in [Devices -> SUBSET Nat]
  /\ nextId \in Nat
  /\ store \in [Stores -> StoreRecord]
  /\ open \subseteq Sockets
  /\ register \in [Keys -> SUBSET Sockets]
  /\ sub \in [Subs -> [at: {"idle"}]
                \cup [at: {"found", "registered", "answered"}, ws: Sockets, key: Keys]
                \cup [at: {"read"}, ws: Sockets, key: Keys, rows: SUBSET Nat]]
  /\ seen \in [Subs -> SUBSET Nat]
  /\ missable \in [Subs -> SUBSET Nat]
  /\ left \subseteq Subs

\* "Callers hold the trackingDevice row FOR UPDATE, so one device's inserts and
\* prunes run one at a time" (deviceTracking.ts:5): a device never keeps more
\* points than it is to, whatever reports and new limits overlap.
Retention ==
  \A d \in Devices :
    device[d] # None /\ device[d].maxCount # None
      => Cardinality(points[d]) <= device[d].maxCount

\* A client that watches its device has every stored point, from the history or
\* live; only one told before it was registered and committed after may be
\* missing.
WatchersMissNothingElse ==
  \A r \in Subs \ left :
    sub[r].at = "answered" /\ sub[r].key \in Devices
      => points[sub[r].key] \subseteq seen[r] \cup missable[r]

\* Once an access token is deleted, itself or with its device, its holders are
\* shown no further report, not even one under way.  A history is read while its
\* key is there; one that was read before the deletion is still sent
\* (trackingSubscribeHandler.ts:102-125), with what it read and no more.
RevokedLinksAreSilent ==
  [][\A r \in Subs :
       /\ \/ seen'[r] \subseteq seen[r] \/ Exists(sub[r].key)
          \/ sub[r].at = "read" /\ seen'[r] \subseteq seen[r] \cup sub[r].rows
       /\ sub'[r] # sub[r] /\ sub'[r].at = "read" =>
            sub'[r].rows = {} \/ Exists(sub[r].key)]_vars
===============================================================================
