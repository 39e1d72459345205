---------------------------- MODULE TrackingProofs ----------------------------
(***************************************************************************)
(* Theorems about Tracking, for any number of devices, tokens, reports,    *)
(* subscriptions and sockets.                                              *)
(***************************************************************************)
EXTENDS Tracking, FiniteSetTheorems, WellFoundedInduction, TLAPS

-------------------------------------------------------------------------------
(* Types *)

Report == [at: {"inserted", "read", "told"}, device: Devices, id: Nat,
           gone: SUBSET Nat, to: SUBSET Links]
Subscription ==
  [at: {"found", "registered", "answered"}, ws: Sockets, key: Keys]
  \cup [at: {"read"}, ws: Sockets, key: Keys, rows: SUBSET Nat]
DeviceRow == [maxCount: Limit, byAge: Ages]
LinkRow == [device: Devices, open: BOOLEAN]

LEMMA StoringRecord ==
  ASSUME TypeOK, NEW s \in Stores, Storing(s)
  PROVE  store[s] \in Report
BY DEF TypeOK, StoreRecord, Storing, Report

LEMMA SubRecord ==
  ASSUME TypeOK, NEW r \in Subs, sub[r].at # "idle"
  PROVE  sub[r] \in Subscription
BY DEF TypeOK, Subscription

LEMMA RowsAreNotNull == None \notin DeviceRow /\ None \notin LinkRow
BY NoRowAssumption DEF DeviceRow, LinkRow

\* What a prune leaves out are IDs.
LEMMA PrunableIds ==
  ASSUME NEW ids \in SUBSET Nat, NEW row, NEW gone \in Prunable(ids, row)
  PROVE  gone \subseteq ids
BY DEF Prunable, BeyondCount

LEMMA TypedInit == Init => TypeOK
BY DEF Init, TypeOK, StoreRecord

LEMMA TypedStores ==
  ASSUME TypeOK, NEW s \in Stores,
         \/ StoreInsert(s) \/ StoreReadTokens(s) \/ StoreTell(s)
         \/ StoreCommit(s) \/ StoreFail(s)
  PROVE  TypeOK'
<1> USE DEF TypeOK, tables, clients
<1>1. CASE StoreInsert(s)
  <2>0. PICK d \in Devices :
          \E gone \in Prunable(points[d] \cup {nextId}, device[d]) :
            store' = [store EXCEPT ![s] = [at |-> "inserted", device |-> d, id |-> nextId,
                                           gone |-> gone, to |-> {}]]
    BY <1>1 DEF StoreInsert
  <2>1. PICK gone \in Prunable(points[d] \cup {nextId}, device[d]) :
          store' = [store EXCEPT ![s] = [at |-> "inserted", device |-> d, id |-> nextId,
                                         gone |-> gone, to |-> {}]]
    BY <2>0
  <2>2. gone \in SUBSET Nat
    <3>1. points[d] \cup {nextId} \in SUBSET Nat
      OBVIOUS
    <3> QED BY <2>1, <3>1, PrunableIds
  <2>3. [at |-> "inserted", device |-> d, id |-> nextId, gone |-> gone, to |-> {}]
          \in StoreRecord
    BY <2>2 DEF StoreRecord
  <2>4. store' \in [Stores -> StoreRecord]
    BY <2>1, <2>3
  <2> QED BY <1>1, <2>4 DEF StoreInsert
<1>2. CASE StoreReadTokens(s)
  <2>1. store[s] \in Report
    BY <1>2, StoringRecord DEF StoreReadTokens, Storing
  <2>2. store'[s] \in StoreRecord
    BY <1>2, <2>1 DEF StoreReadTokens, StoreRecord, Report
  <2>3. store' \in [Stores -> StoreRecord]
    BY <1>2, <2>2 DEF StoreReadTokens
  <2> QED BY <1>2, <2>3 DEF StoreReadTokens
<1>3. CASE StoreTell(s)
  <2>1. store[s] \in Report
    BY <1>3, StoringRecord DEF StoreTell, Storing
  <2>2. store'[s] \in StoreRecord
    BY <1>3, <2>1 DEF StoreTell, StoreRecord, Report
  <2>3. store' \in [Stores -> StoreRecord]
    BY <1>3, <2>2 DEF StoreTell
  <2>4. store[s].id \in Nat
    BY <2>1 DEF Report
  <2>5. seen' \in [Subs -> SUBSET Nat]
    BY <1>3, <2>4 DEF StoreTell
  <2> QED BY <1>3, <2>3, <2>5 DEF StoreTell
<1>4. CASE StoreCommit(s)
  <2>1. store[s] \in Report
    BY <1>4, StoringRecord DEF StoreCommit, Storing
  <2>2. store' \in [Stores -> StoreRecord]
    BY <1>4 DEF StoreCommit, StoreRecord
  <2>3. store[s].device \in Devices /\ store[s].id \in Nat
    BY <2>1 DEF Report
  <2>4. points' \in [Devices -> SUBSET Nat]
    BY <1>4, <2>3 DEF StoreCommit
  <2> QED BY <1>4, <2>2, <2>4 DEF StoreCommit
<1>5. CASE StoreFail(s)
  <2>1. store' \in [Stores -> StoreRecord]
    BY <1>5 DEF StoreFail, StoreRecord
  <2> QED BY <1>5, <2>1 DEF StoreFail
<1> QED BY <1>1, <1>2, <1>3, <1>4, <1>5

LEMMA TypedDevices ==
  ASSUME TypeOK, NEW d \in Devices, PostDevice(d) \/ PutDevice(d) \/ DeleteDevice(d)
  PROVE  TypeOK'
<1> USE DEF TypeOK, clients
<1>1. ASSUME NEW row \in DeviceRow, device' = [device EXCEPT ![d] = row]
      PROVE  /\ device' \in [Devices -> DeviceRow \cup {None}]
             /\ \A e \in Devices : device[e] # None => device'[e] # None
  BY <1>1, RowsAreNotNull DEF DeviceRow
<1>2. CASE PostDevice(d)
  <2>1. PICK limit \in Limit, byAge \in Ages :
          device' = [device EXCEPT ![d] = [maxCount |-> limit, byAge |-> byAge]]
    BY <1>2 DEF PostDevice
  <2>2. [maxCount |-> limit, byAge |-> byAge] \in DeviceRow
    BY DEF DeviceRow
  <2>3. /\ device' \in [Devices -> DeviceRow \cup {None}]
        /\ \A e \in Devices : device[e] # None => device'[e] # None
    BY <1>1, <2>1, <2>2
  <2>4. known' \subseteq Keys
    BY <1>2 DEF PostDevice, Keys
  <2> QED BY <1>2, <2>3, <2>4 DEF PostDevice, DeviceRow
<1>3. CASE PutDevice(d)
  <2>1. PICK limit \in Limit, byAge \in Ages :
          /\ device' = [device EXCEPT ![d] = [maxCount |-> limit, byAge |-> byAge]]
          /\ \E gone : points' = [points EXCEPT ![d] = @ \ gone]
    BY <1>3 DEF PutDevice
  <2>2. [maxCount |-> limit, byAge |-> byAge] \in DeviceRow
    BY DEF DeviceRow
  <2>3. /\ device' \in [Devices -> DeviceRow \cup {None}]
        /\ \A e \in Devices : device[e] # None => device'[e] # None
    BY <1>1, <2>1, <2>2
  <2>4. points' \in [Devices -> SUBSET Nat]
    BY <2>1
  <2> QED BY <1>3, <2>3, <2>4 DEF PutDevice, DeviceRow
<1>4. CASE DeleteDevice(d)
  <2>1. /\ device' \in [Devices -> DeviceRow \cup {None}]
        /\ points' \in [Devices -> SUBSET Nat]
        /\ \A e \in Devices \ {d} : device'[e] = device[e]
    BY <1>4 DEF DeleteDevice, DeviceRow
  <2>2. /\ link' \in [Links -> LinkRow \cup {None}]
        /\ \A k \in Links : link'[k] # None => link'[k] = link[k] /\ link[k].device # d
    BY <1>4 DEF DeleteDevice, LinksWithout, LinkRow
  <2>3. \A k \in Links : link'[k] # None => device'[link'[k].device] # None
    <3>1. SUFFICES ASSUME NEW k \in Links, link'[k] # None
                   PROVE  device'[link'[k].device] # None
      OBVIOUS
    <3>2. link'[k] = link[k] /\ link[k] # None /\ link[k].device \in Devices \ {d}
      BY <2>2, <3>1 DEF LinkRow
    <3> QED BY <2>1, <3>2
  <2> QED BY <1>4, <2>1, <2>2, <2>3 DEF DeleteDevice, DeviceRow, LinkRow
<1> QED BY <1>2, <1>3, <1>4

LEMMA TypedLinks ==
  ASSUME TypeOK, NEW k \in Links,
         PostToken(k) \/ PutToken(k) \/ DeleteToken(k) \/ WindowTurns(k)
  PROVE  TypeOK'
<1> USE DEF TypeOK, clients
<1>1. CASE PostToken(k)
  <2>1. PICK d \in Devices, isOpen \in BOOLEAN :
          device[d] # None /\ link' = [link EXCEPT ![k] = [device |-> d, open |-> isOpen]]
    BY <1>1 DEF PostToken
  <2>2. link' \in [Links -> LinkRow \cup {None}]
    BY <2>1 DEF LinkRow
  <2>3. \A j \in Links : link'[j] # None => device[link'[j].device] # None
    BY <2>1
  <2>4. known' \subseteq Keys
    BY <1>1 DEF PostToken, Keys
  <2> QED BY <1>1, <2>2, <2>3, <2>4 DEF PostToken, LinkRow
<1>2. ASSUME link[k] # None, link' = [link EXCEPT ![k].open = ~@], UNCHANGED device
      PROVE  /\ link' \in [Links -> LinkRow \cup {None}]
             /\ \A j \in Links : link'[j] # None => device'[link'[j].device] # None
  <2>1. link[k] \in LinkRow
    BY <1>2 DEF LinkRow
  <2>2. link'[k] \in LinkRow /\ link'[k].device = link[k].device
    BY <1>2, <2>1 DEF LinkRow
  <2>3. link' \in [Links -> LinkRow \cup {None}]
    BY <1>2, <2>2 DEF LinkRow
  <2>4. \A j \in Links \ {k} : link'[j] = link[j]
    BY <1>2
  <2> QED BY <1>2, <2>2, <2>3, <2>4
<1>3. CASE PutToken(k)
  BY <1>2, <1>3 DEF PutToken, LinkRow
<1>4. CASE WindowTurns(k)
  BY <1>2, <1>4 DEF WindowTurns, LinkRow
<1>5. CASE DeleteToken(k)
  <2>1. link' \in [Links -> LinkRow \cup {None}]
    BY <1>5 DEF DeleteToken, LinkRow
  <2>2. \A j \in Links : link'[j] # None => device[link'[j].device] # None
    BY <1>5 DEF DeleteToken
  <2> QED BY <1>5, <2>1, <2>2 DEF DeleteToken, LinkRow
<1> QED BY <1>1, <1>3, <1>4, <1>5

LEMMA TypedSubs ==
  ASSUME TypeOK, NEW r \in Subs, SubFind(r) \/ SubRegister(r) \/ SubRead(r) \/ SubSend(r)
  PROVE  TypeOK'
<1> USE DEF TypeOK, tables
<1>1. CASE SubFind(r)
  BY <1>1 DEF SubFind
<1>2. CASE SubRegister(r)
  <2>1. sub[r] \in Subscription
    BY <1>2, SubRecord DEF SubRegister
  <2>2. register' \in [Keys -> SUBSET Sockets]
    BY <1>2, <2>1 DEF SubRegister, Subscription
  <2>3. sub'[r] \in Subscription
    BY <1>2, <2>1 DEF SubRegister, Subscription
  <2>4. \A s \in Stores : store[s].at = "told" => store[s].id \in Nat
    BY StoringRecord DEF Storing, Report
  <2>5. missable' \in [Subs -> SUBSET Nat]
    BY <1>2, <2>4 DEF SubRegister
  <2> QED BY <1>2, <2>2, <2>3, <2>5 DEF SubRegister, Subscription
<1>3. CASE SubRead(r)
  <2>1. sub[r] \in Subscription
    BY <1>3, SubRecord DEF SubRead
  <2>2. PICK ids \in History(sub[r].key) :
          sub' = [sub EXCEPT ![r] = [at |-> "read", ws |-> sub[r].ws, key |-> sub[r].key,
                                     rows |-> ids]]
    BY <1>3 DEF SubRead
  <2>3. ids \subseteq Nat
    <3>1. CASE sub[r].key \in Devices
      BY <2>2, <3>1 DEF History
    <3>2. CASE sub[r].key \in Links /\ sub[r].key \notin Devices
      BY <2>2, <3>2 DEF History
    <3> QED BY <2>1, <3>1, <3>2 DEF Subscription, Keys
  <2>4. sub'[r] \in Subscription
    BY <2>1, <2>2, <2>3 DEF Subscription
  <2> QED BY <1>3, <2>2, <2>4 DEF SubRead, Subscription
<1>4. CASE SubSend(r)
  <2>1. sub[r] \in Subscription /\ sub[r].at = "read"
    BY <1>4, SubRecord DEF SubSend
  <2>2. sub[r].rows \subseteq Nat /\ sub[r].ws \in Sockets /\ sub[r].key \in Keys
    BY <2>1 DEF Subscription
  <2>3. sub'[r] \in Subscription
    BY <1>4, <2>2 DEF SubSend, Subscription
  <2>4. seen' \in [Subs -> SUBSET Nat]
    BY <1>4, <2>2 DEF SubSend
  <2> QED BY <1>4, <2>3, <2>4 DEF SubSend, Subscription
<1> QED BY <1>1, <1>2, <1>3, <1>4

LEMMA TypedSockets ==
  ASSUME TypeOK, NEW w \in Sockets,
         Close(w) \/ \E x \in Keys : Unsubscribe(w, x)
  PROVE  TypeOK'
<1> USE DEF TypeOK, tables, SubsOf
<1>1. CASE Close(w)
  BY <1>1 DEF Close
<1>2. ASSUME NEW x \in Keys, Unsubscribe(w, x)
      PROVE  TypeOK'
  BY <1>2 DEF Unsubscribe, RegisterWithout
<1> QED BY <1>1, <1>2

LEMMA TypedNext == TypeOK /\ [Next]_vars => TypeOK'
<1> SUFFICES ASSUME TypeOK, [Next]_vars PROVE TypeOK'
  OBVIOUS
<1>1. CASE UNCHANGED vars
  BY <1>1 DEF TypeOK, vars, tables, clients
<1>2. CASE Next
  BY <1>2, TypedStores, TypedDevices, TypedLinks, TypedSubs, TypedSockets DEF Next
<1> QED BY <1>1, <1>2

\* Type correctness: every row, request and subscription keeps its type, and a
\* token's foreign key never dangles.
THEOREM TypeCorrect == Spec => []TypeOK
BY TypedInit, TypedNext, PTL DEF Spec

-------------------------------------------------------------------------------
(* Retention *)

LEMMA LeastElement ==
  ASSUME NEW ids \in SUBSET Nat, ids # {}
  PROVE  \E i \in ids : \A j \in ids : i <= j
<1>1. PICK i \in ids : \A j \in ids : <<j, i>> \notin OpToRel(<, Nat)
  BY NatLessThanWellFounded, WFMin
<1>2. \A j \in ids : ~(j < i)
  BY <1>1 DEF OpToRel
<1> QED BY <1>2

\* What pruneTrackPoints leaves is within the limit.
LEMMA PruneLeavesRoom ==
  ASSUME NEW ids \in SUBSET Nat, IsFiniteSet(ids),
         NEW row, row.maxCount \in Nat, row.maxCount # None,
         NEW gone \in Prunable(ids, row)
  PROVE  Cardinality(ids \ gone) <= row.maxCount
<1>1. PICK old \in SUBSET ids : gone = old \cup BeyondCount(ids \ old, row.maxCount)
  BY DEF Prunable
<1> DEFINE rest == ids \ old
           newer(i) == {j \in rest : j > i}
<1>2. PICK kept : kept = ids \ gone
  OBVIOUS
<1>3. \A i \in kept : i \in rest /\ ~(Cardinality(newer(i)) >= row.maxCount)
  BY <1>1, <1>2 DEF BeyondCount
<1>4. IsFiniteSet(kept) /\ kept \subseteq Nat
  BY <1>2, FS_Subset
<1>5. CASE kept = {}
  <2>1. Cardinality(kept) = 0
    BY <1>5, FS_EmptySet
  <2> QED BY <2>1, <1>2
<1>6. CASE kept # {}
  <2>1. PICK i \in kept : \A j \in kept : i <= j
    BY <1>4, <1>6, LeastElement
  <2>2. PICK after : after = newer(i)
    OBVIOUS
  <2>3. after \in SUBSET ids
    BY <2>2
  <2>4. IsFiniteSet(after)
    BY <2>3, FS_Subset
  <2>5. Cardinality(after) \in Nat /\ Cardinality(after) < row.maxCount
    BY <2>1, <2>2, <2>4, <1>3, FS_CardinalityType
  <2>6. kept \ {i} \in SUBSET after
    <3>1. SUFFICES ASSUME NEW j \in kept, j # i PROVE j \in after
      OBVIOUS
    <3>2. j > i
      BY <2>1, <3>1, <1>4
    <3> QED BY <2>2, <3>2, <1>3
  <2>7. Cardinality(kept \ {i}) <= Cardinality(after)
    BY <2>4, <2>6, FS_Subset
  <2>8. Cardinality(kept \ {i}) = Cardinality(kept) - 1 /\ Cardinality(kept) \in Nat
    BY <2>1, <1>4, FS_RemoveElement, FS_CardinalityType
  <2> QED BY <2>5, <2>7, <2>8, <1>2
<1> QED BY <1>5, <1>6

RowsKnown == \A d \in Devices : device[d] # None => d \in known

\* A report's device stays as long as the report lasts, ...
ReportsHold == \A s \in Stores : Storing(s) => device[store[s].device] # None

\* ... and no other report of that device runs beside it.
OneAtATime ==
  \A s, t \in Stores :
    Storing(s) /\ Storing(t) /\ store[s].device = store[t].device => s = t

GoneKeepNothing == \A d \in Devices : device[d] = None => points[d] = {}

FinitePoints == \A d \in Devices : IsFiniteSet(points[d])

\* What a device will have if the report commits.
Committed(s) == (points[store[s].device] \cup {store[s].id}) \ store[s].gone

ReportsLeaveRoom ==
  \A s \in Stores :
    Storing(s) /\ device[store[s].device].maxCount # None
      => Cardinality(Committed(s)) <= device[store[s].device].maxCount

\* Retention alone is not inductive: a commit replaces the points by a set that
\* was pruned two steps before.
RetentionInv ==
  /\ TypeOK /\ RowsKnown /\ ReportsHold /\ OneAtATime
  /\ GoneKeepNothing /\ FinitePoints /\ ReportsLeaveRoom
  /\ Retention

LEMMA DeviceRecord ==
  ASSUME TypeOK, NEW d \in Devices, device[d] # None, device[d].maxCount # None
  PROVE  device[d].maxCount \in Nat
BY TrackingAssumption DEF TypeOK, Limit

LEMMA RetentionInit == Init => RetentionInv
BY TypedInit, FS_EmptySet
   DEF Init, RetentionInv, RowsKnown, ReportsHold, OneAtATime, GoneKeepNothing,
       FinitePoints, ReportsLeaveRoom, Retention, Storing

\* Steps that leave devices and points alone and, if anything, end reports.
LEMMA ReportsGoOn ==
  ASSUME RetentionInv, TypeOK', UNCHANGED <<device, points>>, known \subseteq known',
         \A s \in Stores : Storing(s)' =>
           /\ Storing(s)
           /\ store'[s].device = store[s].device
           /\ store'[s].id = store[s].id
           /\ store'[s].gone = store[s].gone
  PROVE  RetentionInv'
<1> USE DEF RetentionInv
<1>1. RowsKnown' /\ GoneKeepNothing' /\ FinitePoints' /\ Retention'
  BY DEF RowsKnown, GoneKeepNothing, FinitePoints, Retention
<1>2. ReportsHold' /\ OneAtATime'
  BY DEF ReportsHold, OneAtATime
<1>3. ReportsLeaveRoom'
  BY DEF ReportsLeaveRoom, Committed
<1> QED BY <1>1, <1>2, <1>3

\* Steps that change a device no report holds.
LEMMA FreeDeviceChanges ==
  ASSUME RetentionInv, TypeOK', NEW d \in Devices, ~Locked(d),
         UNCHANGED store, known \subseteq known',
         \A e \in Devices \ {d} : device'[e] = device[e] /\ points'[e] = points[e],
         device'[d] = None => points'[d] = {},
         device'[d] # None => d \in known',
         IsFiniteSet(points'[d]),
         device'[d] # None /\ device'[d].maxCount # None
           => Cardinality(points'[d]) <= device'[d].maxCount
  PROVE  RetentionInv'
<1> USE DEF RetentionInv
<1>1. \A s \in Stores : Storing(s) => store[s].device \in Devices \ {d}
  BY StoringRecord DEF Report, Locked
<1>2. RowsKnown' /\ GoneKeepNothing' /\ FinitePoints'
  BY DEF RowsKnown, GoneKeepNothing, FinitePoints
<1>3. Retention'
  BY DEF Retention
<1>4. ReportsHold' /\ OneAtATime'
  BY <1>1 DEF ReportsHold, OneAtATime, Storing
<1>5. ReportsLeaveRoom'
  BY <1>1 DEF ReportsLeaveRoom, Committed, Storing
<1> QED BY <1>2, <1>3, <1>4, <1>5

LEMMA RetentionInserts ==
  ASSUME RetentionInv, TypeOK', NEW s \in Stores, StoreInsert(s)
  PROVE  RetentionInv'
<1> USE DEF RetentionInv
<1>1. PICK d \in Devices :
        /\ device[d] # None /\ ~Locked(d)
        /\ \E gone \in Prunable(points[d] \cup {nextId}, device[d]) :
             store' = [store EXCEPT ![s] = [at |-> "inserted", device |-> d, id |-> nextId,
                                            gone |-> gone, to |-> {}]]
  BY DEF StoreInsert
<1>2. PICK gone \in Prunable(points[d] \cup {nextId}, device[d]) :
        store' = [store EXCEPT ![s] = [at |-> "inserted", device |-> d, id |-> nextId,
                                       gone |-> gone, to |-> {}]]
  BY <1>1
<1>3. UNCHANGED <<device, known, points>>
  BY DEF StoreInsert, tables
<1>4. store'[s].device = d /\ store'[s].id = nextId /\ store'[s].gone = gone
  BY <1>2 DEF TypeOK
<1>5. \A t \in Stores \ {s} : store'[t] = store[t] /\ (Storing(t)' <=> Storing(t))
  BY <1>2 DEF TypeOK, Storing
<1>6. \A t \in Stores : Storing(t) => store[t].device # d
  BY <1>1 DEF Locked
<1>7. RowsKnown' /\ GoneKeepNothing' /\ FinitePoints' /\ Retention'
  BY <1>3 DEF RowsKnown, GoneKeepNothing, FinitePoints, Retention
<1>8. ReportsHold' /\ OneAtATime'
  BY <1>1, <1>3, <1>4, <1>5, <1>6 DEF ReportsHold, OneAtATime
<1>9. device[d].maxCount # None
        => Cardinality((points[d] \cup {nextId}) \ gone) <= device[d].maxCount
  <2>1. points[d] \cup {nextId} \in SUBSET Nat
    BY DEF TypeOK
  <2>2. IsFiniteSet(points[d])
    BY DEF FinitePoints
  <2>3. IsFiniteSet(points[d] \cup {nextId})
    BY <2>2, FS_AddElement
  <2>4. device[d].maxCount # None => device[d].maxCount \in Nat
    BY <1>1, DeviceRecord
  <2> QED BY <1>2, <2>1, <2>3, <2>4, PruneLeavesRoom
<1>10. ReportsLeaveRoom'
  <2>1. SUFFICES ASSUME NEW t \in Stores, Storing(t)',
                        device'[store'[t].device].maxCount # None
                 PROVE  Cardinality(Committed(t)') <= device'[store'[t].device].maxCount
    BY DEF ReportsLeaveRoom
  <2>2. CASE t = s
    BY <2>1, <2>2, <1>3, <1>4, <1>9 DEF Committed
  <2>3. CASE t # s
    BY <2>1, <2>3, <1>3, <1>5 DEF ReportsLeaveRoom, Committed
  <2> QED BY <2>2, <2>3
<1> QED BY <1>7, <1>8, <1>10

LEMMA RetentionCommits ==
  ASSUME RetentionInv, TypeOK', NEW s \in Stores, StoreCommit(s)
  PROVE  RetentionInv'
<1> USE DEF RetentionInv
<1>1. PICK d \in Devices : d = store[s].device
  BY StoringRecord DEF StoreCommit, Storing, Report
<1>2. /\ points' = [points EXCEPT ![d] = Committed(s)]
      /\ UNCHANGED <<device, known>> /\ Storing(s)
  BY <1>1 DEF StoreCommit, Committed, Storing, TypeOK
<1>3. \A t \in Stores : Storing(t)' => Storing(t) /\ t # s /\ store'[t] = store[t]
  BY DEF StoreCommit, Storing, TypeOK
<1>4. \A t \in Stores : Storing(t)' => store[t].device \in Devices \ {d}
  BY <1>1, <1>2, <1>3, StoringRecord DEF OneAtATime, Report
<1>5. points'[d] = Committed(s) /\ \A e \in Devices \ {d} : points'[e] = points[e]
  BY <1>2 DEF TypeOK
<1>6. device[d] # None
  BY <1>1, <1>2 DEF ReportsHold
<1>7. IsFiniteSet(Committed(s))
  <2>1. IsFiniteSet(points[d] \cup {store[s].id})
    BY FS_AddElement DEF FinitePoints
  <2> QED BY <1>1, <2>1, FS_Subset DEF Committed
<1>8. RowsKnown' /\ GoneKeepNothing' /\ FinitePoints'
  BY <1>2, <1>5, <1>6, <1>7 DEF RowsKnown, GoneKeepNothing, FinitePoints
<1>9. Retention'
  BY <1>1, <1>2, <1>5 DEF Retention, ReportsLeaveRoom
<1>10. ReportsHold' /\ OneAtATime'
  BY <1>2, <1>3 DEF ReportsHold, OneAtATime
<1>11. ReportsLeaveRoom'
  BY <1>2, <1>3, <1>4, <1>5 DEF ReportsLeaveRoom, Committed
<1> QED BY <1>8, <1>9, <1>10, <1>11

LEMMA RetentionDevices ==
  ASSUME RetentionInv, TypeOK', NEW d \in Devices,
         PostDevice(d) \/ PutDevice(d) \/ DeleteDevice(d)
  PROVE  RetentionInv'
<1> USE DEF RetentionInv, TypeOK, clients
<1>1. CASE PostDevice(d)
  <2>1. device[d] = None /\ points[d] = {}
    BY <1>1 DEF PostDevice, RowsKnown, GoneKeepNothing
  <2>2. ~Locked(d)
    BY <2>1 DEF Locked, ReportsHold
  <2>3. points'[d] = {} /\ Cardinality({}) = 0
    BY <1>1, <2>1, FS_EmptySet DEF PostDevice
  <2>4. device'[d] # None /\ device'[d].maxCount # None => device'[d].maxCount \in Nat
    BY TrackingAssumption DEF Limit
  <2>5. device'[d] # None
    BY <1>1, RowsAreNotNull DEF PostDevice, DeviceRow
  <2>6. /\ UNCHANGED store /\ known \subseteq known' /\ d \in known'
        /\ \A e \in Devices \ {d} : device'[e] = device[e] /\ points'[e] = points[e]
    BY <1>1 DEF PostDevice
  <2>7. IsFiniteSet(points'[d])
    BY <2>3, FS_EmptySet
  <2>8. device'[d].maxCount # None => Cardinality(points'[d]) <= device'[d].maxCount
    BY <2>3, <2>4, <2>5
  <2> HIDE DEF RetentionInv, TypeOK
  <2> QED BY <2>2, <2>5, <2>6, <2>7, <2>8, FreeDeviceChanges
<1>2. CASE PutDevice(d)
  <2>1. PICK limit \in Limit, byAge \in Ages :
          LET row == [maxCount |-> limit, byAge |-> byAge]
          IN /\ device' = [device EXCEPT ![d] = row]
             /\ \E gone \in Prunable(points[d], row) :
                  points' = [points EXCEPT ![d] = @ \ gone]
    BY <1>2 DEF PutDevice
  <2>2. PICK row \in DeviceRow :
          /\ device' = [device EXCEPT ![d] = row]
          /\ \E gone \in Prunable(points[d], row) : points' = [points EXCEPT ![d] = @ \ gone]
    BY <2>1 DEF DeviceRow
  <2>3. PICK gone \in Prunable(points[d], row) : points' = [points EXCEPT ![d] = @ \ gone]
    BY <2>2
  <2>4. device'[d] = row /\ row # None /\ points'[d] = points[d] \ gone
    BY <2>2, <2>3, RowsAreNotNull
  <2>5. IsFiniteSet(points[d]) /\ IsFiniteSet(points'[d])
    BY <2>4, FS_Subset DEF FinitePoints
  <2>6. row.maxCount # None => Cardinality(points'[d]) <= row.maxCount
    <3>1. row.maxCount # None => row.maxCount \in Nat
      BY TrackingAssumption DEF DeviceRow, Limit
    <3> QED BY <2>3, <2>4, <2>5, <3>1, PruneLeavesRoom
  <2>7. /\ ~Locked(d) /\ UNCHANGED store /\ UNCHANGED known /\ d \in known
        /\ \A e \in Devices \ {d} : device'[e] = device[e] /\ points'[e] = points[e]
    BY <1>2, <2>2, <2>3 DEF PutDevice, RowsKnown
  <2> HIDE DEF RetentionInv, TypeOK
  <2> QED BY <2>4, <2>5, <2>6, <2>7, FreeDeviceChanges
<1>3. CASE DeleteDevice(d)
  <2>1. /\ ~Locked(d) /\ UNCHANGED store /\ UNCHANGED known
        /\ device'[d] = None /\ points'[d] = {}
        /\ \A e \in Devices \ {d} : device'[e] = device[e] /\ points'[e] = points[e]
    BY <1>3 DEF DeleteDevice
  <2>2. IsFiniteSet(points'[d])
    BY <2>1, FS_EmptySet
  <2> HIDE DEF RetentionInv, TypeOK
  <2> QED BY <2>1, <2>2, FreeDeviceChanges
<1> QED BY <1>1, <1>2, <1>3

LEMMA RetentionNext == RetentionInv /\ [Next]_vars => RetentionInv'
<1> SUFFICES ASSUME RetentionInv, [Next]_vars PROVE RetentionInv'
  OBVIOUS
<1>1. TypeOK /\ TypeOK'
  BY TypedNext DEF RetentionInv
<1>2. ASSUME UNCHANGED <<device, points, store>>, known \subseteq known'
      PROVE  RetentionInv'
  BY <1>1, <1>2, ReportsGoOn DEF Storing
<1>3. CASE UNCHANGED vars
  BY <1>2, <1>3 DEF vars, tables
<1>4. ASSUME NEW s \in Stores, StoreReadTokens(s) \/ StoreTell(s) \/ StoreFail(s)
      PROVE  RetentionInv'
  <2>1. UNCHANGED <<device, points, known>>
    BY <1>4 DEF StoreReadTokens, StoreTell, StoreFail, tables
  <2>2. CASE StoreFail(s)
    <3>1. \A t \in Stores : Storing(t)' => Storing(t) /\ store'[t] = store[t]
      BY <1>1, <2>2 DEF StoreFail, Storing, TypeOK
    <3> QED BY <1>1, <2>1, <3>1, ReportsGoOn
  <2>3. CASE StoreReadTokens(s) \/ StoreTell(s)
    <3>1. Storing(s) /\ store[s] \in Report
      BY <1>1, <2>3, StoringRecord DEF StoreReadTokens, StoreTell, Storing
    <3>2. /\ store'[s].device = store[s].device
          /\ store'[s].id = store[s].id /\ store'[s].gone = store[s].gone
      BY <1>1, <2>3, <3>1 DEF StoreReadTokens, StoreTell, TypeOK, Report
    <3>3. \A t \in Stores \ {s} : store'[t] = store[t]
      BY <1>1, <2>3 DEF StoreReadTokens, StoreTell, TypeOK
    <3> QED BY <1>1, <2>1, <3>1, <3>2, <3>3, ReportsGoOn DEF Storing
  <2> QED BY <1>4, <2>2, <2>3
<1>5. ASSUME NEW s \in Stores, StoreInsert(s) \/ StoreCommit(s)
      PROVE  RetentionInv'
  BY <1>1, <1>5, RetentionInserts, RetentionCommits
<1>6. ASSUME NEW d \in Devices, PostDevice(d) \/ PutDevice(d) \/ DeleteDevice(d)
      PROVE  RetentionInv'
  BY <1>1, <1>6, RetentionDevices
<1>7. ASSUME NEW k \in Links, PostToken(k) \/ PutToken(k) \/ DeleteToken(k) \/ WindowTurns(k)
      PROVE  RetentionInv'
  BY <1>2, <1>7 DEF PostToken, PutToken, DeleteToken, WindowTurns
<1>8. ASSUME NEW r \in Subs, SubFind(r) \/ SubRegister(r) \/ SubRead(r) \/ SubSend(r)
      PROVE  RetentionInv'
  BY <1>2, <1>8 DEF SubFind, SubRegister, SubRead, SubSend, tables
<1>9. ASSUME NEW w \in Sockets, Close(w) \/ \E x \in Keys : Unsubscribe(w, x)
      PROVE  RetentionInv'
  BY <1>2, <1>9 DEF Close, Unsubscribe, tables
<1> QED BY <1>3, <1>4, <1>5, <1>6, <1>7, <1>8, <1>9 DEF Next

\* A device never keeps more points than its limit, however its reports and new
\* limits overlap ("Callers hold the trackingDevice row FOR UPDATE").
THEOREM PointsAreRetained == Spec => []Retention
<1>1. RetentionInv => Retention
  BY DEF RetentionInv
<1> QED BY <1>1, RetentionInit, RetentionNext, PTL DEF Spec

-------------------------------------------------------------------------------
(* Watchers *)

\* Until the client gives it up, a subscription's socket is open, ...
SocketsOpen == \A r \in Subs \ left : sub[r].at # "idle" => sub[r].ws \in open

Watching(r) == sub[r].at \in {"registered", "read", "answered"}

\* ... it stays registered, although others of its key or socket leave, ...
StaysRegistered ==
  \A r \in Subs \ left : Watching(r) => sub[r].ws \in register[sub[r].key]

\* ... and it has what was told of its device and may yet be committed.
HasTold ==
  \A r \in Subs \ left, s \in Stores :
    /\ Watching(r) /\ sub[r].key \in Devices
    /\ store[s].at = "told" /\ store[s].device = sub[r].key
    => store[s].id \in seen[r] \cup missable[r]

\* What was committed since a history was read was told meanwhile.
HasRead ==
  \A r \in Subs \ left :
    sub[r].at = "read" /\ sub[r].key \in Devices
      => points[sub[r].key] \subseteq seen[r] \cup missable[r] \cup sub[r].rows

WatchInv ==
  SocketsOpen /\ StaysRegistered /\ HasTold /\ HasRead /\ WatchersMissNothingElse

LEMMA WatchInit == Init => WatchInv
BY DEF Init, WatchInv, SocketsOpen, StaysRegistered, HasTold, HasRead,
       WatchersMissNothingElse, Watching

\* Steps that tell and store nothing.
LEMMA WatchersUndisturbed ==
  ASSUME WatchInv, UNCHANGED clients,
         \A d \in Devices : points'[d] \subseteq points[d],
         \A s \in Stores : store'[s].at = "told" => store'[s] = store[s]
  PROVE  WatchInv'
<1> USE DEF WatchInv, clients
<1>1. SocketsOpen' /\ StaysRegistered'
  BY DEF SocketsOpen, StaysRegistered, Watching
<1>2. HasTold'
  BY DEF HasTold, Watching
<1>3. HasRead' /\ WatchersMissNothingElse'
  BY DEF HasRead, WatchersMissNothingElse
<1> QED BY <1>1, <1>2, <1>3

LEMMA WatchedStores ==
  ASSUME TypeOK, WatchInv, NEW s \in Stores,
         \/ StoreInsert(s) \/ StoreReadTokens(s) \/ StoreTell(s)
         \/ StoreCommit(s) \/ StoreFail(s)
  PROVE  WatchInv'
<1>1. CASE StoreInsert(s) \/ StoreReadTokens(s) \/ StoreFail(s)
  <2>1. UNCHANGED clients /\ UNCHANGED points
    BY <1>1 DEF StoreInsert, StoreReadTokens, StoreFail, tables
  <2>2. /\ store'[s].at # "told"
        /\ \A t \in Stores \ {s} : store'[t] = store[t]
    <3>1. CASE StoreInsert(s)
      BY <3>1 DEF StoreInsert, TypeOK
    <3>2. CASE StoreReadTokens(s)
      <4>1. store[s] \in Report
        BY <3>2, StoringRecord DEF StoreReadTokens, Storing
      <4> QED BY <3>2, <4>1 DEF StoreReadTokens, TypeOK, Report
    <3>3. CASE StoreFail(s)
      BY <3>3 DEF StoreFail, TypeOK
    <3> QED BY <1>1, <3>1, <3>2, <3>3
  <2> QED BY <2>1, <2>2, WatchersUndisturbed
<1>2. CASE StoreTell(s)
  <2>1. UNCHANGED <<open, register, sub, missable, left, points>>
    BY <1>2 DEF StoreTell, tables
  <2>2. store[s] \in Report
    BY <1>2, StoringRecord DEF StoreTell, Storing
  <2>3. /\ store'[s].device = store[s].device /\ store'[s].id = store[s].id
        /\ \A t \in Stores \ {s} : store'[t] = store[t]
    BY <1>2, <2>2 DEF StoreTell, TypeOK, Report
  <2>4. \A r \in Subs : seen[r] \subseteq seen'[r]
    BY <1>2 DEF StoreTell, TypeOK
  <2>5. \A r \in Subs : r \in Told(s) => store[s].id \in seen'[r]
    BY <1>2 DEF StoreTell, TypeOK
  <2>6. SocketsOpen' /\ StaysRegistered'
    BY <2>1 DEF WatchInv, SocketsOpen, StaysRegistered, Watching
  <2>7. HasTold'
    <3>1. SUFFICES ASSUME NEW r \in Subs \ left, NEW t \in Stores,
                          Watching(r), sub[r].key \in Devices,
                          store'[t].at = "told", store'[t].device = sub[r].key
                   PROVE  store'[t].id \in seen'[r] \cup missable[r]
      BY <2>1 DEF HasTold, Watching
    <3>2. CASE t = s
      <4>1. sub[r].key = store[s].device
        BY <2>3, <3>1, <3>2
      <4>2. sub[r].at # "idle" /\ sub[r].ws \in register[sub[r].key] \cap open
        BY <3>1 DEF WatchInv, SocketsOpen, StaysRegistered, Watching
      <4>3. r \in Told(s)
        BY <4>1, <4>2 DEF Told
      <4> QED BY <2>3, <2>5, <3>2, <4>3
    <3>3. CASE t # s
      BY <2>3, <2>4, <3>1, <3>3 DEF WatchInv, HasTold
    <3> QED BY <3>2, <3>3
  <2>8. HasRead' /\ WatchersMissNothingElse'
    BY <2>1, <2>4 DEF WatchInv, HasRead, WatchersMissNothingElse
  <2> QED BY <2>6, <2>7, <2>8 DEF WatchInv
<1>3. CASE StoreCommit(s)
  <2>1. UNCHANGED clients
    BY <1>3 DEF StoreCommit
  <2>2. store[s] \in Report /\ store[s].at = "told"
    BY <1>3, StoringRecord DEF StoreCommit, Storing
  <2>3. /\ points'[store[s].device] \subseteq points[store[s].device] \cup {store[s].id}
        /\ \A d \in Devices \ {store[s].device} : points'[d] = points[d]
    BY <1>3, <2>2 DEF StoreCommit, TypeOK, Report
  <2>4. \A t \in Stores : store'[t].at = "told" => store'[t] = store[t]
    BY <1>3 DEF StoreCommit, TypeOK
  <2>5. SocketsOpen' /\ StaysRegistered'
    BY <2>1 DEF WatchInv, SocketsOpen, StaysRegistered, Watching, clients
  <2>6. HasTold'
    BY <2>1, <2>4 DEF WatchInv, HasTold, Watching, clients
  <2>7. \A r \in Subs \ left :
          Watching(r) /\ sub[r].key = store[s].device => store[s].id \in seen[r] \cup missable[r]
    BY <2>2 DEF WatchInv, HasTold, Report
  <2>8. HasRead'
    <3>1. SUFFICES ASSUME NEW r \in Subs \ left,
                          sub[r].at = "read", sub[r].key \in Devices
                   PROVE  points'[sub[r].key] \subseteq seen[r] \cup missable[r] \cup sub[r].rows
      BY <2>1 DEF HasRead, clients
    <3>2. points[sub[r].key] \subseteq seen[r] \cup missable[r] \cup sub[r].rows
      BY <3>1 DEF WatchInv, HasRead
    <3> QED BY <2>3, <2>7, <3>1, <3>2 DEF Watching
  <2>9. WatchersMissNothingElse'
    <3>1. SUFFICES ASSUME NEW r \in Subs \ left,
                          sub[r].at = "answered", sub[r].key \in Devices
                   PROVE  points'[sub[r].key] \subseteq seen[r] \cup missable[r]
      BY <2>1 DEF WatchersMissNothingElse, clients
    <3>2. points[sub[r].key] \subseteq seen[r] \cup missable[r]
      BY <3>1 DEF WatchInv, WatchersMissNothingElse
    <3> QED BY <2>3, <2>7, <3>1, <3>2 DEF Watching
  <2> QED BY <2>5, <2>6, <2>8, <2>9 DEF WatchInv
<1> QED BY <1>1, <1>2, <1>3

LEMMA WatchedSubs ==
  ASSUME TypeOK, WatchInv, NEW r \in Subs, SubFind(r) \/ SubRegister(r) \/ SubRead(r) \/ SubSend(r)
  PROVE  WatchInv'
<1>1. \A q \in Subs \ {r} : sub'[q] = sub[q]
  BY DEF SubFind, SubRegister, SubRead, SubSend, TypeOK
<1>2. UNCHANGED <<points, store, open, left>>
  BY DEF SubFind, SubRegister, SubRead, SubSend, tables
<1>3. CASE SubFind(r)
  <2>1. UNCHANGED <<register, seen, missable>>
    BY <1>3 DEF SubFind
  <2>2. sub'[r].at = "found" /\ sub'[r].ws \in open
    BY <1>3 DEF SubFind, TypeOK
  <2>3. SocketsOpen' /\ StaysRegistered'
    BY <1>1, <1>2, <2>1, <2>2 DEF WatchInv, SocketsOpen, StaysRegistered, Watching
  <2>4. HasTold' /\ HasRead' /\ WatchersMissNothingElse'
    BY <1>1, <1>2, <2>1, <2>2
       DEF WatchInv, HasTold, HasRead, WatchersMissNothingElse, Watching
  <2> QED BY <2>3, <2>4 DEF WatchInv
<1>4. CASE SubRegister(r)
  <2>1. sub[r] \in Subscription
    BY <1>4, SubRecord DEF SubRegister
  <2>2. /\ sub'[r].at = "registered"
        /\ sub'[r].ws = sub[r].ws /\ sub'[r].key = sub[r].key
    BY <1>4, <2>1 DEF SubRegister, TypeOK, Subscription
  <2>3. /\ UNCHANGED seen
        /\ \A q \in Subs \ {r} : missable'[q] = missable[q]
        /\ r \notin left => \A s \in Stores : store[s].at = "told" => store[s].id \in missable'[r]
    BY <1>4 DEF SubRegister, TypeOK
  <2>4. /\ \A x \in Keys : register[x] \subseteq register'[x]
        /\ sub[r].ws \in register'[sub[r].key]
    BY <1>4, <2>1 DEF SubRegister, TypeOK, Subscription
  <2>5. SocketsOpen'
    BY <1>1, <1>2, <1>4, <2>2 DEF WatchInv, SocketsOpen, SubRegister
  <2>6. StaysRegistered'
    <3>1. \A q \in Subs : Watching(q) => sub[q].key \in Keys
      BY SubRecord DEF Watching, Subscription
    <3> QED BY <1>1, <1>2, <2>2, <2>4, <3>1 DEF WatchInv, StaysRegistered, Watching
  <2>7. HasTold'
    BY <1>1, <1>2, <2>2, <2>3 DEF WatchInv, HasTold, Watching
  <2>8. HasRead' /\ WatchersMissNothingElse'
    BY <1>1, <1>2, <2>2, <2>3 DEF WatchInv, HasRead, WatchersMissNothingElse
  <2> QED BY <2>5, <2>6, <2>7, <2>8 DEF WatchInv
<1>5. CASE SubRead(r)
  <2>1. sub[r] \in Subscription /\ sub[r].at = "registered"
    BY <1>5, SubRecord DEF SubRead
  <2>2. /\ sub'[r].at = "read" /\ sub'[r].rows \in History(sub[r].key)
        /\ sub'[r].ws = sub[r].ws /\ sub'[r].key = sub[r].key
    BY <1>5, <2>1 DEF SubRead, TypeOK
  <2>3. UNCHANGED <<register, seen, missable>>
    BY <1>5 DEF SubRead
  <2>4. SocketsOpen' /\ StaysRegistered'
    BY <1>1, <1>2, <2>1, <2>2, <2>3 DEF WatchInv, SocketsOpen, StaysRegistered, Watching
  <2>5. HasTold'
    BY <1>1, <1>2, <2>1, <2>2, <2>3 DEF WatchInv, HasTold, Watching
  <2>6. sub[r].key \in Devices => points[sub[r].key] = sub'[r].rows
    BY <2>2 DEF History
  <2>7. HasRead' /\ WatchersMissNothingElse'
    BY <1>1, <1>2, <2>2, <2>3, <2>6 DEF WatchInv, HasRead, WatchersMissNothingElse
  <2> QED BY <2>4, <2>5, <2>7 DEF WatchInv
<1>6. CASE SubSend(r)
  <2>1. sub[r] \in Subscription /\ sub[r].at = "read"
    BY <1>6, SubRecord DEF SubSend
  <2>2. /\ sub'[r].at = "answered"
        /\ sub'[r].ws = sub[r].ws /\ sub'[r].key = sub[r].key
    BY <1>6, <2>1 DEF SubSend, TypeOK
  <2>3. UNCHANGED <<register, missable>>
    BY <1>6 DEF SubSend
  <2>4. \A q \in Subs : seen[q] \subseteq seen'[q]
    BY <1>6 DEF SubSend, TypeOK
  <2>5. r \notin left => sub[r].rows \subseteq seen'[r]
    <3>1. r \notin left => sub[r].ws \in open
      BY <2>1 DEF WatchInv, SocketsOpen
    <3> QED BY <1>6, <3>1 DEF SubSend, TypeOK
  <2>6. SocketsOpen' /\ StaysRegistered'
    BY <1>1, <1>2, <2>1, <2>2, <2>3 DEF WatchInv, SocketsOpen, StaysRegistered, Watching
  <2>7. HasTold'
    BY <1>1, <1>2, <2>1, <2>2, <2>3, <2>4 DEF WatchInv, HasTold, Watching
  <2>8. HasRead'
    BY <1>1, <1>2, <2>2, <2>3, <2>4 DEF WatchInv, HasRead
  <2>9. WatchersMissNothingElse'
    <3>1. r \notin left /\ sub[r].key \in Devices
            => points[sub[r].key] \subseteq seen'[r] \cup missable[r]
      BY <2>1, <2>4, <2>5 DEF WatchInv, HasRead
    <3> QED BY <1>1, <1>2, <2>2, <2>3, <2>4, <3>1 DEF WatchInv, WatchersMissNothingElse
  <2> QED BY <2>6, <2>7, <2>8, <2>9 DEF WatchInv
<1> QED BY <1>3, <1>4, <1>5, <1>6

LEMMA WatchedSockets ==
  ASSUME TypeOK, WatchInv, NEW w \in Sockets,
         Close(w) \/ \E x \in Keys : Unsubscribe(w, x)
  PROVE  WatchInv'
<1>1. UNCHANGED <<points, store, sub>>
  BY DEF Close, Unsubscribe, tables
<1>2. \A q \in Subs : Watching(q) => sub[q].key \in Keys
  BY SubRecord DEF Watching, Subscription
<1> DEFINE Undisturbed(q) ==
             /\ q \notin left /\ seen'[q] = seen[q] /\ missable'[q] = missable[q]
             /\ sub[q].at # "idle" /\ sub[q].ws \in open => sub[q].ws \in open'
             /\ Watching(q) /\ sub[q].ws \in register[sub[q].key]
                  => sub[q].ws \in register'[sub[q].key]
<1>3. \A q \in Subs \ left' : Undisturbed(q)
  <2>1. CASE Close(w)
    BY <1>2, <2>1 DEF Close, SubsOf, TypeOK, Watching
  <2>2. ASSUME NEW x \in Keys, Unsubscribe(w, x)
        PROVE  \A q \in Subs \ left' : Undisturbed(q)
    BY <1>2, <2>2 DEF Unsubscribe, RegisterWithout, SubsOf, TypeOK, Watching
  <2> QED BY <2>1, <2>2
<1>4. SocketsOpen' /\ StaysRegistered'
  BY <1>1, <1>3 DEF WatchInv, SocketsOpen, StaysRegistered, Watching
<1>5. HasTold' /\ HasRead' /\ WatchersMissNothingElse'
  BY <1>1, <1>3 DEF WatchInv, HasTold, HasRead, WatchersMissNothingElse, Watching
<1> QED BY <1>4, <1>5 DEF WatchInv

LEMMA WatchNext == TypeOK /\ WatchInv /\ [Next]_vars => WatchInv'
<1> SUFFICES ASSUME TypeOK, WatchInv, [Next]_vars PROVE WatchInv'
  OBVIOUS
<1>1. CASE UNCHANGED vars
  BY <1>1, WatchersUndisturbed DEF vars, tables
<1>2. ASSUME NEW d \in Devices, PostDevice(d) \/ PutDevice(d) \/ DeleteDevice(d)
      PROVE  WatchInv'
  <2>1. UNCHANGED clients /\ UNCHANGED store
    BY <1>2 DEF PostDevice, PutDevice, DeleteDevice
  <2>2. \A e \in Devices : points'[e] \subseteq points[e]
    <3>1. CASE PostDevice(d)
      BY <3>1 DEF PostDevice
    <3>2. CASE PutDevice(d)
      <4>1. PICK gone : points' = [points EXCEPT ![d] = @ \ gone]
        BY <3>2 DEF PutDevice
      <4> QED BY <4>1 DEF TypeOK
    <3>3. CASE DeleteDevice(d)
      BY <3>3 DEF DeleteDevice, TypeOK
    <3> QED BY <1>2, <3>1, <3>2, <3>3
  <2> QED BY <2>1, <2>2, WatchersUndisturbed
<1>3. ASSUME NEW k \in Links, PostToken(k) \/ PutToken(k) \/ DeleteToken(k) \/ WindowTurns(k)
      PROVE  WatchInv'
  BY <1>3, WatchersUndisturbed DEF PostToken, PutToken, DeleteToken, WindowTurns
<1> QED BY <1>1, <1>2, <1>3, WatchedStores, WatchedSubs, WatchedSockets DEF Next

\* A client that watches its device has every stored point, but for those told
\* before it was registered and committed after (trackingSubscribeHandler.ts
\* registers first, reads the history then and sends it at last).
THEOREM WatchersAreServed == Spec => []WatchersMissNothingElse
<1>1. WatchInv => WatchersMissNothingElse
  BY DEF WatchInv
<1> QED BY <1>1, TypedInit, TypedNext, WatchInit, WatchNext, PTL DEF Spec

-------------------------------------------------------------------------------
(* Revoked tokens *)

LinksKnown == \A k \in Links : link[k] # None => k \in known

\* The tokens a report has read stay, and stay its device's, until it ends.
ReadLinksStay ==
  \A s \in Stores :
    Storing(s) => \A k \in store[s].to : link[k] # None /\ link[k].device = store[s].device

LinkInv == LinksKnown /\ ReadLinksStay

LEMMA LinkInit == Init => LinkInv
BY DEF Init, LinkInv, LinksKnown, ReadLinksStay, Storing

\* Tokens change only while no report holds their device, or but in their window.
LEMMA LinksHeld ==
  ASSUME TypeOK, LinkInv, UNCHANGED store, LinksKnown',
         \A k \in Links : link[k] # None =>
           \/ link'[k] # None /\ link'[k].device = link[k].device
           \/ ~Locked(link[k].device)
  PROVE  LinkInv'
<1> SUFFICES ASSUME NEW s \in Stores, Storing(s), NEW k \in store[s].to
             PROVE  link'[k] # None /\ link'[k].device = store[s].device
  BY DEF LinkInv, ReadLinksStay, Storing
<1>1. k \in Links
  BY StoringRecord DEF Report
<1>2. link[k] # None /\ link[k].device = store[s].device
  BY DEF LinkInv, ReadLinksStay
<1>3. Locked(link[k].device)
  BY <1>2 DEF Locked
<1> QED BY <1>1, <1>2, <1>3

LEMMA LinkNext == TypeOK /\ LinkInv /\ [Next]_vars => LinkInv'
<1> SUFFICES ASSUME TypeOK, LinkInv, [Next]_vars PROVE LinkInv'
  OBVIOUS
<1>1. ASSUME UNCHANGED <<store, link>>, known \subseteq known'
      PROVE  LinkInv'
  BY <1>1 DEF LinkInv, LinksKnown, ReadLinksStay, Storing
<1>2. ASSUME NEW s \in Stores,
             \/ StoreInsert(s) \/ StoreReadTokens(s) \/ StoreTell(s)
             \/ StoreCommit(s) \/ StoreFail(s)
      PROVE  LinkInv'
  <2>1. UNCHANGED <<link, known>> /\ \A t \in Stores \ {s} : store'[t] = store[t]
    BY <1>2 DEF StoreInsert, StoreReadTokens, StoreTell, StoreCommit, StoreFail,
                tables, TypeOK
  <2>2. Storing(s)' =>
          \A k \in store'[s].to : link[k] # None /\ link[k].device = store'[s].device
    <3>1. CASE StoreInsert(s)
      BY <3>1 DEF StoreInsert, TypeOK
    <3>2. CASE StoreReadTokens(s)
      <4>1. store[s] \in Report
        BY <3>2, StoringRecord DEF StoreReadTokens, Storing
      <4>2. /\ store'[s].device = store[s].device
            /\ store'[s].to = {k \in Links : /\ link[k] # None /\ link[k].open
                                             /\ link[k].device = store[s].device}
        BY <3>2, <4>1 DEF StoreReadTokens, TypeOK, Report
      <4> QED BY <4>2
    <3>3. CASE StoreTell(s)
      <4>1. store[s] \in Report /\ Storing(s)
        BY <3>3, StoringRecord DEF StoreTell, Storing
      <4>2. store'[s].device = store[s].device /\ store'[s].to = store[s].to
        BY <3>3, <4>1 DEF StoreTell, TypeOK, Report
      <4> QED BY <4>1, <4>2 DEF LinkInv, ReadLinksStay
    <3>4. CASE StoreCommit(s) \/ StoreFail(s)
      BY <3>4 DEF StoreCommit, StoreFail, TypeOK, Storing
    <3> QED BY <1>2, <3>1, <3>2, <3>3, <3>4
  <2> QED BY <2>1, <2>2 DEF LinkInv, LinksKnown, ReadLinksStay, Storing
<1>3. ASSUME NEW d \in Devices, PostDevice(d) \/ PutDevice(d)
      PROVE  LinkInv'
  BY <1>1, <1>3 DEF PostDevice, PutDevice
<1>4. ASSUME NEW d \in Devices, DeleteDevice(d)
      PROVE  LinkInv'
  BY <1>4, LinksHeld DEF DeleteDevice, LinksWithout, LinkInv, LinksKnown
<1>5. ASSUME NEW k \in Links, PostToken(k)
      PROVE  LinkInv'
  <2>1. link[k] = None /\ \A j \in Links \ {k} : link'[j] = link[j]
    BY <1>5 DEF PostToken, TypeOK, LinkInv, LinksKnown
  <2>2. LinksKnown'
    BY <1>5, <2>1 DEF PostToken, LinkInv, LinksKnown
  <2>3. UNCHANGED store
    BY <1>5 DEF PostToken
  <2> QED BY <2>1, <2>2, <2>3, LinksHeld
<1>6. ASSUME NEW k \in Links, PutToken(k) \/ DeleteToken(k) \/ WindowTurns(k)
      PROVE  LinkInv'
  <2>1. /\ link[k] # None /\ UNCHANGED <<store, known>>
        /\ \A j \in Links \ {k} : link'[j] = link[j]
    BY <1>6 DEF PutToken, DeleteToken, WindowTurns, TypeOK
  <2>2. LinksKnown'
    BY <2>1 DEF LinkInv, LinksKnown
  <2>3. ~Locked(link[k].device) \/ (link'[k] # None /\ link'[k].device = link[k].device)
    <3>1. CASE PutToken(k) \/ DeleteToken(k)
      BY <3>1 DEF PutToken, DeleteToken, LinkLocked
    <3>2. CASE WindowTurns(k)
      <4>1. link[k] \in LinkRow
        BY <2>1 DEF TypeOK, LinkRow
      <4>2. link'[k] \in LinkRow /\ link'[k].device = link[k].device
        BY <3>2, <4>1 DEF WindowTurns, TypeOK, LinkRow
      <4> QED BY <4>2, RowsAreNotNull
    <3> QED BY <1>6, <3>1, <3>2
  <2> QED BY <2>1, <2>2, <2>3, LinksHeld
<1>7. CASE UNCHANGED vars
  BY <1>1, <1>7 DEF vars, tables
<1>8. ASSUME NEW r \in Subs, SubFind(r) \/ SubRegister(r) \/ SubRead(r) \/ SubSend(r)
      PROVE  LinkInv'
  BY <1>1, <1>8 DEF SubFind, SubRegister, SubRead, SubSend, tables
<1>9. ASSUME NEW w \in Sockets, Close(w) \/ \E x \in Keys : Unsubscribe(w, x)
      PROVE  LinkInv'
  BY <1>1, <1>9 DEF Close, Unsubscribe, tables
<1> QED BY <1>2, <1>3, <1>4, <1>5, <1>6, <1>7, <1>8, <1>9 DEF Next

\* A report shows points only under keys that are there, ...
LEMMA ToldOnlyUnderKeys ==
  ASSUME TypeOK, ReportsHold, LinkInv, [Next]_vars, NEW r \in Subs
  PROVE  \/ seen'[r] \subseteq seen[r] \/ Exists(sub[r].key)
         \/ sub[r].at = "read" /\ seen'[r] \subseteq seen[r] \cup sub[r].rows
<1> DEFINE Shown == \/ seen'[r] \subseteq seen[r] \/ Exists(sub[r].key)
                    \/ sub[r].at = "read" /\ seen'[r] \subseteq seen[r] \cup sub[r].rows
<1>1. CASE UNCHANGED seen
  BY <1>1
<1>2. ASSUME NEW s \in Stores, StoreTell(s)
      PROVE  Shown
  <2>1. CASE r \notin Told(s)
    BY <1>2, <2>1 DEF StoreTell, TypeOK
  <2>2. CASE sub[r].key = store[s].device
    <3>1. Storing(s) /\ store[s].device \in Devices
      BY <1>2, StoringRecord DEF StoreTell, Storing, Report
    <3> QED BY <2>2, <3>1 DEF ReportsHold, Exists
  <2>3. CASE sub[r].key \in store[s].to
    <3>1. Storing(s) /\ store[s].to \subseteq Links
      BY <1>2, StoringRecord DEF StoreTell, Storing, Report
    <3> QED BY <2>3, <3>1, TrackingAssumption DEF LinkInv, ReadLinksStay, Exists
  <2> QED BY <2>1, <2>2, <2>3 DEF Told
<1>3. ASSUME NEW q \in Subs, SubSend(q)
      PROVE  Shown
  <2>1. CASE r # q
    BY <1>3, <2>1 DEF SubSend, TypeOK
  <2>2. CASE r = q
    BY <1>3, <2>2 DEF SubSend, TypeOK
  <2> QED BY <2>1, <2>2
<1>4. ASSUME NEW w \in Sockets, Close(w)
      PROVE  Shown
  BY <1>4 DEF Close, TypeOK
<1>5. CASE UNCHANGED vars
  BY <1>1, <1>5 DEF vars, clients
<1>6. ASSUME NEW s \in Stores,
             StoreInsert(s) \/ StoreReadTokens(s) \/ StoreCommit(s) \/ StoreFail(s)
      PROVE  UNCHANGED seen
  BY <1>6 DEF StoreInsert, StoreReadTokens, StoreCommit, StoreFail, clients
<1>7. ASSUME NEW d \in Devices, PostDevice(d) \/ PutDevice(d) \/ DeleteDevice(d)
      PROVE  UNCHANGED seen
  BY <1>7 DEF PostDevice, PutDevice, DeleteDevice, clients
<1>8. ASSUME NEW k \in Links, PostToken(k) \/ PutToken(k) \/ DeleteToken(k) \/ WindowTurns(k)
      PROVE  UNCHANGED seen
  BY <1>8 DEF PostToken, PutToken, DeleteToken, WindowTurns, clients
<1>9. ASSUME NEW q \in Subs, SubFind(q) \/ SubRegister(q) \/ SubRead(q)
      PROVE  UNCHANGED seen
  BY <1>9 DEF SubFind, SubRegister, SubRead
<1>10. ASSUME NEW w \in Sockets, NEW x \in Keys, Unsubscribe(w, x)
       PROVE  UNCHANGED seen
  BY <1>10 DEF Unsubscribe
<1> QED BY <1>1, <1>2, <1>3, <1>4, <1>5, <1>6, <1>7, <1>8, <1>9, <1>10 DEF Next

\* ... and so is a history read.
LEMMA ReadOnlyUnderKeys ==
  ASSUME TypeOK, GoneKeepNothing, [Next]_vars, NEW r \in Subs,
         sub'[r] # sub[r], sub'[r].at = "read"
  PROVE  sub'[r].rows = {} \/ Exists(sub[r].key)
<1>1. CASE UNCHANGED sub
  BY <1>1
<1>2. ASSUME NEW q \in Subs, SubRead(q)
      PROVE  sub'[r].rows = {} \/ Exists(sub[r].key)
  <2>1. r = q
    BY <1>2 DEF SubRead, TypeOK
  <2>2. sub'[r].rows \in History(sub[r].key)
    BY <1>2, <2>1 DEF SubRead, TypeOK
  <2>3. ~Exists(sub[r].key) => History(sub[r].key) = {{}}
    <3>1. sub[r] \in Subscription
      BY <1>2, <2>1, SubRecord DEF SubRead
    <3>2. sub[r].key \in Keys
      BY <3>1 DEF Subscription
    <3> QED BY <3>2 DEF Exists, History, GoneKeepNothing, Keys
  <2> QED BY <2>2, <2>3
<1>3. ASSUME NEW q \in Subs, SubFind(q) \/ SubRegister(q) \/ SubSend(q)
      PROVE  sub'[q].at # "read" /\ \A p \in Subs \ {q} : sub'[p] = sub[p]
  <2>1. CASE SubFind(q)
    BY <2>1 DEF SubFind, TypeOK
  <2>2. CASE SubRegister(q)
    <3>1. sub[q] \in Subscription
      BY <2>2, SubRecord DEF SubRegister
    <3> QED BY <2>2, <3>1 DEF SubRegister, TypeOK, Subscription
  <2>3. CASE SubSend(q)
    BY <2>3 DEF SubSend, TypeOK
  <2> QED BY <1>3, <2>1, <2>2, <2>3
<1>4. ASSUME NEW s \in Stores,
             \/ StoreInsert(s) \/ StoreReadTokens(s) \/ StoreTell(s)
             \/ StoreCommit(s) \/ StoreFail(s)
      PROVE  UNCHANGED sub
  BY <1>4 DEF StoreInsert, StoreReadTokens, StoreTell, StoreCommit, StoreFail, clients
<1>5. ASSUME NEW d \in Devices, PostDevice(d) \/ PutDevice(d) \/ DeleteDevice(d)
      PROVE  UNCHANGED sub
  BY <1>5 DEF PostDevice, PutDevice, DeleteDevice, clients
<1>6. ASSUME NEW k \in Links, PostToken(k) \/ PutToken(k) \/ DeleteToken(k) \/ WindowTurns(k)
      PROVE  UNCHANGED sub
  BY <1>6 DEF PostToken, PutToken, DeleteToken, WindowTurns, clients
<1>7. ASSUME NEW w \in Sockets, Close(w) \/ \E x \in Keys : Unsubscribe(w, x)
      PROVE  UNCHANGED sub
  BY <1>7 DEF Close, Unsubscribe
<1>8. CASE UNCHANGED vars
  BY <1>8 DEF vars, clients
<1> QED BY <1>1, <1>2, <1>3, <1>4, <1>5, <1>6, <1>7, <1>8 DEF Next

\* Once an access token is gone, by itself or with its device, its holders are
\* shown no further report: DELETE waits for the device's row, which a report
\* holds from its first statement until it has told the watchers.  A history is
\* read by a query that joins the token; only one read before is still sent.
THEOREM RevokedLinksStaySilent == Spec => RevokedLinksAreSilent
<1> DEFINE Silent ==
      \A r \in Subs :
        /\ \/ seen'[r] \subseteq seen[r] \/ Exists(sub[r].key)
           \/ sub[r].at = "read" /\ seen'[r] \subseteq seen[r] \cup sub[r].rows
        /\ sub'[r] # sub[r] /\ sub'[r].at = "read" =>
             sub'[r].rows = {} \/ Exists(sub[r].key)
<1>1. TypeOK /\ RetentionInv /\ LinkInv /\ [Next]_vars => [Silent]_vars
  BY ToldOnlyUnderKeys, ReadOnlyUnderKeys DEF RetentionInv
<1> QED BY <1>1, TypedInit, TypedNext, RetentionInit, RetentionNext,
           LinkInit, LinkNext, PTL DEF Spec, RevokedLinksAreSilent
===============================================================================
