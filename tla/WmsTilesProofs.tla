---------------------------- MODULE WmsTilesProofs ----------------------------
(***************************************************************************)
(* Theorems about WmsTiles, for any requests, renders, tiles, slots and    *)
(* retries: slots are neither lost nor counted twice, and renders are      *)
(* shared; and about WmsProxy, for any documents and clients: its counters *)
(* are true.                                                               *)
(***************************************************************************)
EXTENDS WmsTiles, WmsProxy, SequenceTheorems, FiniteSetTheorems, TLAPS

-------------------------------------------------------------------------------
(* The queues of the gate *)

NoRepeats(s) == \A i, j \in DOMAIN s : s[i] = s[j] => i = j

LEMMA SplicedFits ==
  ASSUME NEW S, NEW q \in Seq(S), NoRepeats(q), NEW r
  PROVE  /\ Spliced(q, r) \in Seq(S) /\ NoRepeats(Spliced(q, r))
         /\ Elements(Spliced(q, r)) = Elements(q) \ {r}
<1>1. CASE r \notin Elements(q)
  BY <1>1 DEF Spliced
<1>2. CASE r \in Elements(q)
  <2>1. PICK i \in DOMAIN q : q[i] = r /\ i = (CHOOSE k \in DOMAIN q : q[k] = r)
    <3>1. \E k \in DOMAIN q : q[k] = r
      BY <1>2 DEF Elements
    <3> QED BY <3>1
  <2> DEFINE front == SubSeq(q, 1, i - 1)
             back == SubSeq(q, i + 1, Len(q))
             s == front \o back
  <2>2. /\ Spliced(q, r) = s /\ q[i] = r
        /\ i \in 1..Len(q) /\ Len(q) \in Nat /\ DOMAIN q = 1..Len(q)
    <3>1. Spliced(q, r) = s
      BY <1>2, <2>1, Zenon DEF Spliced
    <3>2. Len(q) \in Nat /\ DOMAIN q = 1..Len(q)
      BY LenProperties
    <3> QED BY <2>1, <3>1, <3>2
  <2>3. \A k \in 1..Len(q) : q[k] \in S
    BY ElementOfSeq
  <2>4. /\ front \in Seq(S) /\ Len(front) = i - 1
        /\ \A k \in 1..i-1 : front[k] = q[k]
    BY <2>2, SubSeqProperties
  <2>5. /\ back \in Seq(S) /\ Len(back) = Len(q) - i
        /\ \A k \in 1..Len(q)-i : back[k] = q[k + i]
    <3>1. i + 1 \in Int /\ Len(q) \in Int /\ \A k \in (i + 1)..Len(q) : q[k] \in S
      BY <2>2, <2>3
    <3>2. /\ back \in Seq(S) 
          /\ Len(back) = IF i + 1 <= Len(q) THEN Len(q) - (i + 1) + 1 ELSE 0
          /\ \A k \in 1..Len(q) - (i + 1) + 1 : back[k] = q[(i + 1) + k - 1]
      BY <3>1, SubSeqProperties
    <3> HIDE DEF back
    <3>3. Len(back) = Len(q) - i
      <4>1. CASE i + 1 <= Len(q)
        BY <2>2, <3>2, <4>1
      <4>2. CASE ~(i + 1 <= Len(q))
        BY <2>2, <3>2, <4>2
      <4> QED BY <4>1, <4>2
    <3>4. ASSUME NEW k \in 1..Len(q)-i PROVE back[k] = q[k + i]
      <4>1. k \in 1..Len(q) - (i + 1) + 1 /\ (i + 1) + k - 1 = k + i
        BY <2>2
      <4> QED BY <3>2, <4>1
    <3> QED BY <3>2, <3>3, <3>4
  <2> HIDE DEF front, back
  <2>6. /\ s \in Seq(S) /\ Len(s) = Len(front) + Len(back)
        /\ \A k \in 1..Len(front) + Len(back) :
             s[k] = IF k <= Len(front) THEN front[k] ELSE back[k - Len(front)]
    BY <2>4, <2>5, ConcatProperties
  <2> HIDE DEF s
  <2>7. /\ DOMAIN s = 1..Len(q)-1
        /\ \A k \in 1..Len(q)-1 : s[k] = IF k < i THEN q[k] ELSE q[k + 1]
    <3>1. Len(s) = Len(q) - 1 /\ DOMAIN s = 1..Len(s)
      BY <2>2, <2>4, <2>5, <2>6
    <3>2. ASSUME NEW k \in 1..Len(q)-1 PROVE s[k] = IF k < i THEN q[k] ELSE q[k + 1]
      <4>1. CASE k < i
        <5>1. k \in 1..Len(front) + Len(back) /\ k <= Len(front) /\ k \in 1..i-1
          BY <2>2, <2>4, <2>5, <4>1
        <5>2. s[k] = front[k]
          BY <2>6, <5>1
        <5> QED BY <2>4, <4>1, <5>1, <5>2
      <4>2. CASE k >= i
        <5>1. k \in 1..Len(front) + Len(back) /\ ~(k <= Len(front))
              /\ k - Len(front) \in 1..Len(q)-i /\ k - Len(front) + i = k + 1
          BY <2>2, <2>4, <2>5, <4>2
        <5>2. s[k] = back[k - Len(front)] /\ back[k - Len(front)] = q[k - Len(front) + i]
          BY <2>5, <2>6, <5>1
        <5> QED BY <2>2, <4>2, <5>1, <5>2
      <4> QED BY <2>2, <4>1, <4>2
    <3> QED BY <3>1, <3>2
  <2>8. NoRepeats(s)
    <3> DEFINE place(k) == IF k < i THEN k ELSE k + 1
    <3>1. \A k \in DOMAIN s : place(k) \in DOMAIN q /\ s[k] = q[place(k)]
      BY <2>2, <2>7
    <3>2. \A k, l \in DOMAIN s : place(k) = place(l) => k = l
      BY <2>2, <2>7
    <3> HIDE DEF place
    <3> QED BY <3>1, <3>2 DEF NoRepeats
  <2>9. Elements(s) \subseteq Elements(q) \ {r}
    <3> SUFFICES ASSUME NEW k \in DOMAIN s PROVE s[k] \in Elements(q) \ {r}
      BY DEF Elements
    <3>1. CASE k < i
      <4>1. k \in DOMAIN q /\ k # i /\ s[k] = q[k]
        BY <2>2, <2>7, <3>1
      <4> QED BY <2>2, <4>1 DEF NoRepeats, Elements
    <3>2. CASE ~(k < i)
      <4>1. k + 1 \in DOMAIN q /\ k + 1 # i /\ s[k] = q[k + 1]
        BY <2>2, <2>7, <3>2
      <4> QED BY <2>2, <4>1 DEF NoRepeats, Elements
    <3> QED BY <3>1, <3>2
  <2>10. ASSUME NEW k \in DOMAIN q, q[k] # r PROVE q[k] \in Elements(s)
    <3>1. CASE k < i
      <4>1. k \in DOMAIN s /\ s[k] = q[k]
        BY <2>2, <2>7, <3>1
      <4> QED BY <4>1 DEF Elements
    <3>2. CASE k > i
      <4>1. k - 1 \in DOMAIN s /\ s[k - 1] = q[k]
        BY <2>2, <2>7, <3>2
      <4> QED BY <4>1 DEF Elements
    <3> QED BY <2>2, <2>10, <3>1, <3>2
  <2>11. Elements(s) = Elements(q) \ {r}
    BY <2>9, <2>10 DEF Elements
  <2> QED BY <2>2, <2>6, <2>8, <2>11
<1> QED BY <1>1, <1>2

LEMMA TailFits ==
  ASSUME NEW S, NEW q \in Seq(S), NoRepeats(q), q # <<>>
  PROVE  /\ Tail(q) \in Seq(S) /\ NoRepeats(Tail(q))
         /\ Head(q) \in Elements(q) /\ Elements(Tail(q)) = Elements(q) \ {Head(q)}
<1>1. /\ Tail(q) \in Seq(S) /\ Len(q) \in Nat \ {0} /\ DOMAIN q = 1..Len(q)
      /\ DOMAIN Tail(q) = 1..Len(q)-1 /\ Head(q) = q[1]
      /\ \A k \in 1..Len(q)-1 : Tail(q)[k] = q[k + 1]
  BY HeadTailProperties, EmptySeq
<1> DEFINE s == Tail(q)
<1> HIDE DEF s
<1>2. NoRepeats(s)
  BY <1>1 DEF NoRepeats, s
<1>3. Elements(s) \subseteq Elements(q) \ {q[1]}
  BY <1>1 DEF NoRepeats, Elements, s
<1>4. ASSUME NEW k \in DOMAIN q, q[k] # q[1] PROVE q[k] \in Elements(s)
  <2>1. k - 1 \in DOMAIN s /\ s[k - 1] = q[k]
    BY <1>1, <1>4 DEF s
  <2> QED BY <2>1 DEF Elements
<1>5. q[1] \in Elements(q)
  BY <1>1 DEF Elements
<1> QED BY <1>1, <1>2, <1>3, <1>4, <1>5 DEF Elements, s

LEMMA AppendFits ==
  ASSUME NEW S, NEW q \in Seq(S), NoRepeats(q), NEW r \in S, r \notin Elements(q)
  PROVE  /\ Append(q, r) \in Seq(S) /\ NoRepeats(Append(q, r))
         /\ Elements(Append(q, r)) = Elements(q) \cup {r}
<1> DEFINE s == Append(q, r)
<1>1. /\ s \in Seq(S) /\ Len(q) \in Nat /\ DOMAIN q = 1..Len(q)
      /\ DOMAIN s = 1..Len(q)+1 /\ s[Len(q) + 1] = r
      /\ \A k \in 1..Len(q) : s[k] = q[k]
  BY AppendProperties
<1> HIDE DEF s
<1>2. NoRepeats(s)
  BY <1>1 DEF NoRepeats, Elements
<1>3. Elements(s) \subseteq Elements(q) \cup {r}
  BY <1>1 DEF Elements
<1>4. Elements(q) \subseteq Elements(s)
  BY <1>1 DEF Elements
<1>5. r \in Elements(s)
  BY <1>1 DEF Elements
<1> QED BY <1>1, <1>2, <1>3, <1>4, <1>5 DEF s

LEMMA FirstFits ==
  ASSUME NEW S, NEW q \in Seq(S), NoRepeats(q), NEW r \in S, r \notin Elements(q)
  PROVE  /\ <<r>> \o q \in Seq(S) /\ NoRepeats(<<r>> \o q)
         /\ Elements(<<r>> \o q) = Elements(q) \cup {r}
<1> DEFINE s == <<r>> \o q
<1>1. /\ s \in Seq(S) /\ Len(q) \in Nat /\ DOMAIN q = 1..Len(q)
      /\ DOMAIN s = 1..Len(q)+1 /\ s[1] = r
      /\ \A k \in 2..Len(q)+1 : s[k] = q[k - 1]
  <2>1. <<r>> \in Seq(S) /\ Len(<<r>>) = 1 /\ <<r>>[1] = r
    OBVIOUS
  <2>2. Len(q) \in Nat /\ DOMAIN q = 1..Len(q)
    OBVIOUS
  <2>3. /\ s \in Seq(S) /\ Len(s) = Len(<<r>>) + Len(q)
        /\ \A k \in 1..Len(<<r>>) + Len(q) :
             s[k] = IF k <= Len(<<r>>) THEN <<r>>[k] ELSE q[k - Len(<<r>>)]
    BY <2>1, ConcatProperties
  <2> HIDE DEF s
  <2> QED BY <2>1, <2>2, <2>3
<1> HIDE DEF s
<1>2. NoRepeats(s)
  <2> SUFFICES ASSUME NEW k \in DOMAIN s, NEW l \in DOMAIN s, s[k] = s[l]
               PROVE  k = l
    BY DEF NoRepeats
  <2>1. ASSUME NEW m \in DOMAIN s, m # 1
        PROVE  m - 1 \in DOMAIN q /\ s[m] = q[m - 1] /\ s[m] # s[1]
    BY <1>1, <2>1 DEF Elements
  <2>2. CASE k = 1 \/ l = 1
    BY <1>1, <2>1, <2>2
  <2>3. CASE k # 1 /\ l # 1
    <3>1. k - 1 = l - 1
      BY <2>1, <2>3 DEF NoRepeats
    <3> QED BY <1>1, <3>1
  <2> QED BY <2>2, <2>3
<1>3. Elements(s) \subseteq Elements(q) \cup {r}
  BY <1>1 DEF Elements
<1>4. ASSUME NEW k \in DOMAIN q PROVE q[k] \in Elements(s)
  <2>1. k + 1 \in DOMAIN s /\ s[k + 1] = q[k]
    BY <1>1
  <2> QED BY <2>1 DEF Elements
<1>5. r \in Elements(s)
  BY <1>1 DEF Elements
<1>6. Elements(s) = Elements(q) \cup {r}
  BY <1>3, <1>4, <1>5 DEF Elements
<1> QED BY <1>1, <1>2, <1>6 DEF s

-------------------------------------------------------------------------------
(* The invariant *)

WaitsIn(table, r)  ==
  table[r].at = "requeued" \/ (table[r].at = "queued" /\ ~table[r].background)
BehindIn(table, r) == table[r].at = "queued" /\ table[r].background

\* Each queue has, once, the renders that say they are in it.
QueuesFit(table, ahead, behind) ==
  /\ ahead \in Seq(Renders) /\ NoRepeats(ahead)
  /\ behind \in Seq(Renders) /\ NoRepeats(behind)
  /\ Elements(ahead) = {r \in Renders : WaitsIn(table, r)}
  /\ Elements(behind) = {r \in Renders : BehindIn(table, r)}

Active(r) == render[r].at \notin {"idle"} \cup Outcomes

\* The map has the renders that go on, each at its tile, but for the aborted
\* ones, which have been handed a slot and do not know it.
MapFits ==
  /\ \A r \in Renders : Active(r) /\ ~render[r].aborted => current[render[r].tile] = r
  /\ \A t \in Tiles : current[t] # None =>
       /\ Active(current[t]) /\ render[current[t]].tile = t /\ ~render[current[t]].aborted
  /\ \A r \in Renders : Active(r) /\ render[r].aborted => render[r].at = "handed"

\* A request's own render begins with it; one that is awaited has begun.
RendersBegin ==
  /\ \A q \in Reqs : req[q].at \in {"idle", "missed"} => render[q].at = "idle"
  /\ \A q \in Reqs, r \in Renders : Joined(q, r) => render[r].at # "idle"

\* What a user awaits does not give way: it runs, or is no prerender's.
UsersGoFirst ==
  \A q \in Reqs, r \in Renders : Joined(q, r) /\ ~req[q].background =>
    /\ render[r].at # "aborted"
    /\ render[r].at \in {"queued", "handed"} => ~render[r].background /\ ~render[r].aborted

TilesInv ==
  /\ TypeOK /\ QueuesFit(render, waiting, background)
  /\ MapFits /\ RendersBegin /\ UsersGoFirst /\ SlotsAreHeld

Waiting == {"queued", "handed", "fetching", "sleeping", "requeued", "writing"}

LEMMA RecordMoves ==
  ASSUME NEW x \in RenderRecord, x.at \notin {"idle"} \cup Outcomes, NEW a \in Waiting
  PROVE  /\ x.at \in Waiting /\ [x EXCEPT !.at = a] \in RenderRecord
         /\ [x EXCEPT !.aborted = TRUE] \in RenderRecord
         /\ x.attempt < Retries => [x EXCEPT !.at = a, !.attempt = @ + 1] \in RenderRecord
<1> DEFINE Moving == [at: Waiting, tile: Tiles, background: BOOLEAN, aborted: BOOLEAN,
                       attempt: 0..Retries]
<1>1. x \in Moving /\ Moving \subseteq RenderRecord
  BY DEF RenderRecord, Outcomes, Waiting
<1>2. x.at \in Waiting /\ [x EXCEPT !.at = a] \in Moving /\ [x EXCEPT !.aborted = TRUE] \in Moving
  BY <1>1
<1>3. ASSUME x.attempt < Retries
      PROVE  [x EXCEPT !.at = a, !.attempt = @ + 1] \in Moving
  <2>1. x.attempt + 1 \in 0..Retries
    BY <1>1, <1>3, WmsTilesAssumption
  <2> QED BY <1>1, <2>1
<1> QED BY <1>1, <1>2, <1>3

\* The renders wait in one of the queues, not both; who is next is in it.
LEMMA LineMoves ==
  ASSUME TypeOK, QueuesFit(render, waiting, background), Leave
  PROVE  /\ waiting' \in Seq(Renders) /\ NoRepeats(waiting')
         /\ background' \in Seq(Renders) /\ NoRepeats(background')
         /\ Elements(waiting') = Elements(waiting) \ {NextInLine}
         /\ Elements(background') = Elements(background) \ {NextInLine}
         /\ NextInLine = None => /\ waiting' = <<>> /\ background' = <<>>
                                 /\ running' = running - 1
         /\ NextInLine # None => /\ NextInLine \in Renders /\ running' = running
                                 /\ render[NextInLine].at \in {"queued", "requeued"}
                                 /\ waiting # <<>> \/ background # <<>>
<1> USE GateAssumption DEF QueuesFit
<1>1. CASE waiting # <<>>
  <2>1. NextInLine = Head(waiting) /\ waiting' = Tail(waiting) /\ background' = background
    BY <1>1 DEF Leave, NextInLine
  <2>2. /\ Tail(waiting) \in Seq(Renders) /\ NoRepeats(Tail(waiting))
        /\ Head(waiting) \in Elements(waiting)
        /\ Elements(Tail(waiting)) = Elements(waiting) \ {Head(waiting)}
    BY <1>1, TailFits
  <2>3. WaitsIn(render, NextInLine) /\ NextInLine \in Renders /\ NextInLine # None
    BY <2>1, <2>2
  <2>4. NextInLine \notin Elements(background)
    BY <2>3 DEF WaitsIn, BehindIn
  <2>5. running' = running
    BY <2>3 DEF Leave
  <2> QED BY <1>1, <2>1, <2>2, <2>3, <2>4, <2>5 DEF WaitsIn
<1>2. CASE waiting = <<>> /\ background # <<>>
  <2>1. NextInLine = Head(background) /\ waiting' = waiting
    BY <1>2 DEF Leave, NextInLine
  <2>2. /\ Tail(background) \in Seq(Renders) /\ NoRepeats(Tail(background))
        /\ Head(background) \in Elements(background)
        /\ Elements(Tail(background)) = Elements(background) \ {Head(background)}
    BY <1>2, TailFits
  <2>3. BehindIn(render, NextInLine) /\ NextInLine \in Renders /\ NextInLine # None
    BY <2>1, <2>2
  <2>4. NextInLine \notin Elements(waiting)
    BY <2>3 DEF WaitsIn, BehindIn
  <2>5. running' = running /\ background' = Tail(background)
    BY <1>2, <2>3 DEF Leave
  <2> QED BY <1>2, <2>1, <2>2, <2>3, <2>4, <2>5 DEF BehindIn
<1>3. CASE waiting = <<>> /\ background = <<>>
  <2>1. NextInLine = None /\ waiting' = <<>> /\ background' = <<>> /\ running' = running - 1
    BY <1>3 DEF Leave, NextInLine
  <2>2. Elements(<<>>) = {}
    BY DEF Elements
  <2> QED BY <1>3, <2>1, <2>2
<1> QED BY <1>1, <1>2, <1>3

\* What becomes of the other renders when r leaves the gate.
HandsOn(r) ==
  \A s \in Renders \ {r} :
    IF s = NextInLine
      THEN /\ render[s].at = "queued" /\ render'[s] = [render[s] EXCEPT !.at = "handed"]
           \/ /\ render[s].at = "requeued" /\ render'[s] = [render[s] EXCEPT !.at = "fetching"]
      ELSE render'[s] = render[s]

LEMMA SlotGoesOn ==
  ASSUME TypeOK, QueuesFit(render, waiting, background), Leave, NEW r \in Renders,
         render[r].at \in {"fetching", "handed"},
         NEW table \in [Renders -> RenderRecord], \A s \in Renders \ {r} : table[s] = render[s],
         render' = Handed(table, NextInLine)
  PROVE  /\ HandsOn(r) /\ render'[r] = table[r]
         /\ render' \in [Renders -> RenderRecord]
<1>1. CASE NextInLine = None
  <2>1. render' = table
    BY <1>1 DEF Handed
  <2> QED BY <1>1, <2>1, GateAssumption DEF HandsOn
<1>2. CASE NextInLine # None
  <2> DEFINE n == NextInLine
  <2>1. n \in Renders /\ n # r /\ n # None /\ render[n].at \in {"queued", "requeued"}
    BY <1>2, LineMoves
  <2> HIDE DEF n
  <2>2. table[n] = render[n] /\ render[n] \in RenderRecord
    BY <2>1 DEF TypeOK
  <2>3. CASE render[n].at = "queued"
    <3>1. render' = [table EXCEPT ![n] = [table[n] EXCEPT !.at = "handed"]]
      BY <2>1, <2>3 DEF Handed, n
    <3>2. [table[n] EXCEPT !.at = "handed"] \in RenderRecord
      BY <2>2, <2>3, RecordMoves DEF Outcomes, Waiting
    <3> QED BY <2>1, <2>2, <2>3, <3>1, <3>2 DEF HandsOn, n
  <2>4. CASE render[n].at = "requeued"
    <3>1. render' = [table EXCEPT ![n] = [table[n] EXCEPT !.at = "fetching"]]
      BY <2>1, <2>4 DEF Handed, n
    <3>2. [table[n] EXCEPT !.at = "fetching"] \in RenderRecord
      BY <2>2, <2>4, RecordMoves DEF Outcomes, Waiting
    <3> QED BY <2>1, <2>2, <2>4, <3>1, <3>2 DEF HandsOn, n
  <2> QED BY <2>1, <2>3, <2>4
<1> QED BY <1>1, <1>2

\* A render that leaves the gate leaves no slot behind: it is the next one's, or
\* nobody waits.
LEMMA SlotsPassOn ==
  ASSUME TypeOK, QueuesFit(render, waiting, background), SlotsAreHeld, Leave,
         NEW r \in Renders, render[r].at \in {"fetching", "handed"},
         HandsOn(r), render' \in [Renders -> RenderRecord],
         render'[r].at \notin {"fetching", "handed", "queued", "requeued"}
  PROVE  QueuesFit(render, waiting, background)' /\ SlotsAreHeld'
<1> DEFINE n == NextInLine
           held == {s \in Renders : render'[s].at \in {"handed", "fetching"}}
<1>1. /\ \A s \in Renders \ {r} : s # n => render'[s] = render[s]
      /\ n # None => /\ n \in Renders /\ n # r
                     /\ render[n].at \in {"queued", "requeued"}
                     /\ render'[n].at \in {"handed", "fetching"}
  <2>1. ASSUME n # None PROVE render[n] \in RenderRecord
    BY <2>1, LineMoves DEF TypeOK
  <2> QED BY <2>1, LineMoves DEF HandsOn, RenderRecord, Outcomes
<1>2. QueuesFit(render', waiting', background')
  <2>1. /\ waiting' \in Seq(Renders) /\ NoRepeats(waiting')
        /\ background' \in Seq(Renders) /\ NoRepeats(background')
        /\ Elements(waiting') = Elements(waiting) \ {n}
        /\ Elements(background') = Elements(background) \ {n}
    BY LineMoves
  <2> HIDE DEF n
  <2>2. \A s \in Renders : WaitsIn(render', s) <=> WaitsIn(render, s) /\ s # n
    BY <1>1, GateAssumption DEF WaitsIn
  <2>3. \A s \in Renders : BehindIn(render', s) <=> BehindIn(render, s) /\ s # n
    BY <1>1, GateAssumption DEF BehindIn
  <2> QED BY <2>1, <2>2, <2>3 DEF QueuesFit
<1>3. IsFiniteSet(Holding) /\ r \in Holding /\ Cardinality(Holding) \in Nat
  BY GateAssumption, FS_Subset, FS_CardinalityType DEF Holding
<1>4. /\ IsFiniteSet(Holding \ {r}) /\ Cardinality(Holding \ {r}) = Cardinality(Holding) - 1
  BY <1>3, FS_RemoveElement
<1>5. running \in Nat /\ running = Cardinality(Holding) /\ running <= Max
  BY DEF TypeOK, SlotsAreHeld
<1>6. CASE n = None
  <2>1. held = Holding \ {r}
    BY <1>1, <1>6, GateAssumption DEF Holding
  <2>2. running' = running - 1 /\ waiting' = <<>> /\ background' = <<>>
    BY <1>6, LineMoves
  <2> HIDE DEF n, held
  <2>3. running' = Cardinality(held) /\ running' <= Max
    BY <1>3, <1>4, <1>5, <2>1, <2>2, GateAssumption
  <2>4. Holding' = held
    BY DEF Holding, held
  <2> QED BY <1>2, <2>2, <2>3, <2>4 DEF SlotsAreHeld, QueuesFit, WaitsIn, BehindIn
<1>7. CASE n # None
  <2>1. held = (Holding \ {r}) \cup {n} /\ n \notin Holding \ {r}
    BY <1>1, <1>7, GateAssumption DEF Holding
  <2>2. running' = running /\ running = Max
    BY <1>7, LineMoves DEF SlotsAreHeld
  <2> HIDE DEF n, held
  <2>3. Cardinality(held) = Cardinality(Holding \ {r}) + 1
    BY <1>4, <2>1, FS_AddElement
  <2>4. running' = Cardinality(held) /\ running' <= Max
    BY <1>3, <1>4, <1>5, <2>2, <2>3
  <2>5. Holding' = held
    BY DEF Holding, held
  <2> QED BY <1>2, <2>2, <2>4, <2>5 DEF SlotsAreHeld, QueuesFit, WaitsIn, BehindIn
<1> QED BY <1>6, <1>7

\* Without taking or giving a slot, the queues as their renders say.
LEMMA SlotsStay ==
  ASSUME SlotsAreHeld, running' = running,
         \A r \in Renders : render'[r].at \in {"handed", "fetching"}
                              <=> render[r].at \in {"handed", "fetching"},
         waiting' # <<>> \/ background' # <<>> => running = Max
  PROVE  SlotsAreHeld'
<1>1. Holding' = Holding
  BY DEF Holding
<1> QED BY <1>1 DEF SlotsAreHeld

LEMMA SlotTaken ==
  ASSUME TypeOK, SlotsAreHeld, SlotFree, running' = running + 1, NEW r \in Renders,
         render[r].at \notin {"handed", "fetching"}, render'[r].at \in {"handed", "fetching"},
         \A s \in Renders \ {r} : render'[s].at \in {"handed", "fetching"}
                                    <=> render[s].at \in {"handed", "fetching"},
         waiting' = <<>>, background' = <<>>
  PROVE  SlotsAreHeld'
<1>1. Holding' = Holding \cup {r} /\ r \notin Holding
  BY DEF Holding
<1>2. IsFiniteSet(Holding)
  BY GateAssumption, FS_Subset DEF Holding
<1>3. Cardinality(Holding \cup {r}) = Cardinality(Holding) + 1
  BY <1>1, <1>2, FS_AddElement
<1> QED BY <1>1, <1>3, GateAssumption DEF TypeOK, SlotsAreHeld, SlotFree

\* A queue without a render that leaves it.
LEMMA QueuesWithout ==
  ASSUME QueuesFit(render, waiting, background), NEW r, NEW table,
         \A s \in Renders \ {r} : table[s] = render[s],
         ~WaitsIn(table, r), ~BehindIn(table, r)
  PROVE  QueuesFit(table, WaitingWithout(r), BackgroundWithout(r))
<1>1. /\ WaitingWithout(r) \in Seq(Renders) /\ NoRepeats(WaitingWithout(r))
      /\ Elements(WaitingWithout(r)) = Elements(waiting) \ {r}
  BY SplicedFits DEF QueuesFit, WaitingWithout
<1>2. /\ BackgroundWithout(r) \in Seq(Renders) /\ NoRepeats(BackgroundWithout(r))
      /\ Elements(BackgroundWithout(r)) = Elements(background) \ {r}
  BY SplicedFits DEF QueuesFit, BackgroundWithout
<1> QED BY <1>1, <1>2 DEF QueuesFit, WaitsIn, BehindIn

\* A queue is empty, or of those that were in it.
LEMMA NobodyJoins ==
  ASSUME NEW ahead \in Seq(Renders), NEW behind \in Seq(Renders),
         Elements(ahead) \subseteq Elements(behind), ahead # <<>>
  PROVE  behind # <<>>
<1>1. Len(ahead) \in Nat \ {0} /\ DOMAIN ahead = 1..Len(ahead)
  BY EmptySeq
<1>2. ahead[1] \in Elements(ahead)
  BY <1>1 DEF Elements
<1>3. Elements(<<>>) = {}
  BY DEF Elements
<1> QED BY <1>2, <1>3

\* An abort takes a render out of its queue, or is noted.
LEMMA Aborts ==
  ASSUME TypeOK, QueuesFit(render, waiting, background), NEW r \in Renders, ~Started(r)
  PROVE  LET table == Aborted(render, r)
             ahead == WaitingWithout(r)
             behind == BackgroundWithout(r)
         IN /\ table \in [Renders -> RenderRecord]
            /\ \A s \in Renders \ {r} : table[s] = render[s]
            /\ QueuesFit(table, ahead, behind)
            /\ render[r].at = "queued" => table[r].at = "aborted"
            /\ render[r].at = "handed" => table[r] = [render[r] EXCEPT !.aborted = TRUE]
            /\ render[r].at \notin {"queued", "handed"} => table[r] = render[r]
            /\ ahead # <<>> => waiting # <<>>
            /\ behind # <<>> => background # <<>>
<1> DEFINE table == Aborted(render, r)
<1>1. /\ render \in [Renders -> RenderRecord] /\ render[r] \in RenderRecord
      /\ [at |-> "aborted"] \in RenderRecord
  BY DEF TypeOK, RenderRecord, Outcomes
<1>2. render[r].at = "handed" => [render[r] EXCEPT !.aborted = TRUE] \in RenderRecord
  BY <1>1, RecordMoves DEF Outcomes, Waiting
<1>4. /\ table \in [Renders -> RenderRecord]
      /\ \A s \in Renders \ {r} : table[s] = render[s]
      /\ render[r].at = "queued" => table[r] = [at |-> "aborted"]
      /\ render[r].at = "handed" => table[r] = [render[r] EXCEPT !.aborted = TRUE]
      /\ render[r].at \notin {"queued", "handed"} => table[r] = render[r]
  <2>1. CASE render[r].at = "queued"
    BY <1>1, <2>1 DEF Aborted
  <2>2. CASE render[r].at = "handed"
    <3>1. table = [render EXCEPT ![r] = [render[r] EXCEPT !.aborted = TRUE]]
      BY <1>1, <2>2 DEF Aborted
    <3> QED BY <1>1, <1>2, <2>2, <3>1
  <2>3. CASE render[r].at \notin {"queued", "handed"}
    BY <1>1, <2>3 DEF Aborted
  <2> QED BY <2>1, <2>2, <2>3
<1> HIDE DEF table
<1>5. ~WaitsIn(table, r) /\ ~BehindIn(table, r)
  <2>1. table[r].at \notin {"queued", "requeued"}
    <3>1. render[r].at \notin {"queued", "handed"} => table[r].at # "queued"
      BY <1>4
    <3>2. render[r].at = "handed" => table[r].at = "handed"
      <4>1. ASSUME render[r].at = "handed" PROVE "at" \in DOMAIN render[r]
        BY <1>1, <4>1 DEF RenderRecord
      <4> QED BY <1>4, <4>1
    <3> QED BY <1>4, <3>1, <3>2 DEF Started
  <2> QED BY <2>1 DEF WaitsIn, BehindIn
<1>6. QueuesFit(table, WaitingWithout(r), BackgroundWithout(r))
  BY <1>4, <1>5, QueuesWithout
<1>7. /\ Elements(WaitingWithout(r)) \subseteq Elements(waiting)
      /\ Elements(BackgroundWithout(r)) \subseteq Elements(background)
  BY SplicedFits DEF QueuesFit, WaitingWithout, BackgroundWithout
<1>8. /\ WaitingWithout(r) # <<>> => waiting # <<>>
      /\ BackgroundWithout(r) # <<>> => background # <<>>
  BY <1>6, <1>7, NobodyJoins DEF QueuesFit
<1> QED BY <1>4, <1>6, <1>8 DEF table

-------------------------------------------------------------------------------
(* The map and the requests *)

\* The map without the renders in `gone`, each of which is over or aborted.
LEMMA MapLoses ==
  ASSUME TypeOK, MapFits, NEW gone \in SUBSET Renders,
         \A r \in gone : Active(r)' => /\ render'[r].at = "handed" /\ render'[r].aborted
                                       /\ render'[r].tile \in Tiles,
         \A r \in Renders \ gone :
           /\ Active(r)' <=> Active(r)
           /\ Active(r) => /\ render'[r].tile = render[r].tile
                           /\ render'[r].aborted = render[r].aborted
                           /\ render[r].aborted => render'[r].at = render[r].at,
         current' = [t \in Tiles |-> IF current[t] \in gone THEN None ELSE current[t]]
  PROVE  MapFits'
<1> USE GateAssumption DEF TypeOK, MapFits
<1>1. ASSUME NEW r \in Renders, Active(r)', ~render'[r].aborted
      PROVE  current'[render'[r].tile] = r
  <2>1. r \notin gone /\ Active(r) /\ ~render[r].aborted /\ render'[r].tile = render[r].tile
    BY <1>1
  <2>2. current[render[r].tile] = r /\ render[r].tile \in Tiles
    BY <2>1 DEF RenderRecord, Active
  <2> QED BY <2>1, <2>2
<1>2. ASSUME NEW t \in Tiles, current'[t] # None
      PROVE  /\ Active(current[t])' /\ current'[t] = current[t]
             /\ render'[current[t]].tile = t /\ ~render'[current[t]].aborted
  BY <1>2 DEF Active
<1>3. ASSUME NEW r \in Renders, Active(r)', render'[r].aborted
      PROVE  render'[r].at = "handed"
  BY <1>3
<1> QED BY <1>1, <1>2, <1>3 DEF Active

LEMMA MapLosesOne ==
  ASSUME TypeOK, MapFits, NEW r \in Renders,
         Active(r)' => /\ render'[r].at = "handed" /\ render'[r].aborted
                       /\ render'[r].tile \in Tiles,
         \A s \in Renders \ {r} :
           /\ Active(s)' <=> Active(s)
           /\ Active(s) => /\ render'[s].tile = render[s].tile
                           /\ render'[s].aborted = render[s].aborted
                           /\ render[s].aborted => render'[s].at = render[s].at,
         current' = CurrentWithout(r)
  PROVE  MapFits'
<1> DEFINE gone == {r}
<1>1. /\ gone \in SUBSET Renders /\ r \in gone /\ \A s \in gone : s = r
      /\ Renders \ gone = Renders \ {r}
      /\ \A t \in Tiles : current[t] = r <=> current[t] \in gone
  OBVIOUS
<1> HIDE DEF gone
<1>2. current' = [t \in Tiles |-> IF current[t] \in gone THEN None ELSE current[t]]
  BY <1>1 DEF CurrentWithout
<1> QED BY <1>1, <1>2, MapLoses

LEMMA MapKept ==
  ASSUME TypeOK, MapFits,
         \A s \in Renders :
           /\ Active(s)' <=> Active(s)
           /\ Active(s) => /\ render'[s].tile = render[s].tile
                           /\ render'[s].aborted = render[s].aborted
                           /\ render[s].aborted => render'[s].at = render[s].at,
         current' = current
  PROVE  MapFits'
<1> DEFINE gone == {}
<1>1. gone \in SUBSET Renders /\ \A s \in gone : FALSE /\ Renders \ gone = Renders
  OBVIOUS
<1> HIDE DEF gone
<1>2. current' = [t \in Tiles |-> IF current[t] \in gone THEN None ELSE current[t]]
  BY <1>1 DEF TypeOK
<1> QED BY <1>1, <1>2, MapLoses

\* What a step of the renders has to leave alone for the requests' sake.
RendersGoOn ==
  \A r \in Renders :
    /\ render'[r].at = "idle" <=> render[r].at = "idle"
    /\ render'[r].at = "aborted" =>
         render[r].at = "aborted" \/ (render[r].at = "handed" /\ render[r].aborted)
    /\ render'[r].at \in {"queued", "handed"} =>
         /\ render[r].at \in {"queued", "handed"}
         /\ render'[r].background = render[r].background
         /\ render'[r].aborted = render[r].aborted

LEMMA RequestsStay ==
  ASSUME RendersBegin, UsersGoFirst, req' = req, RendersGoOn
  PROVE  RendersBegin' /\ UsersGoFirst'
<1>1. RendersBegin'
  BY WmsTilesAssumption DEF RendersBegin, RendersGoOn, Joined
<1>2. UsersGoFirst'
  BY DEF UsersGoFirst, RendersGoOn, Joined
<1> QED BY <1>1, <1>2

-------------------------------------------------------------------------------
(* The steps of a render *)

\* r leaves the gate, settled or to go on without a slot.
LEMMA LeavesTheGate ==
  ASSUME TilesInv, Leave, NEW r \in Renders, render[r].at \in {"fetching", "handed"},
         NEW table \in [Renders -> RenderRecord], \A s \in Renders \ {r} : table[s] = render[s],
         render' = Handed(table, NextInLine),
         req' = req, cached' \subseteq Tiles, unreachable' \in BOOLEAN,
         \/ /\ table[r].at \in Outcomes /\ current' = CurrentWithout(r)
            /\ table[r].at = "aborted" => render[r].at = "handed" /\ render[r].aborted
         \/ /\ render[r].at = "fetching" /\ table[r].at \in {"sleeping", "writing"}
            /\ table[r].tile = render[r].tile /\ table[r].aborted = render[r].aborted
            /\ current' = current
  PROVE  TilesInv'
<1> USE DEF TilesInv
<1>1. /\ HandsOn(r) /\ render'[r] = table[r]
      /\ render' \in [Renders -> RenderRecord]
  BY SlotGoesOn
<1>2. QueuesFit(render, waiting, background)' /\ SlotsAreHeld'
  <2>1. render'[r].at \notin {"fetching", "handed", "queued", "requeued"}
    BY <1>1 DEF Outcomes
  <2> QED BY <1>1, <2>1, SlotsPassOn
<1>3. ASSUME NEW s \in Renders \ {r}
      PROVE  \/ render'[s] = render[s]
             \/ /\ render[s].at \in {"queued", "requeued"}
                /\ render'[s].at = IF render[s].at = "queued" THEN "handed" ELSE "fetching"
                /\ render'[s].tile = render[s].tile
                /\ render'[s].background = render[s].background
                /\ render'[s].aborted = render[s].aborted
  <2>1. CASE s # NextInLine
    BY <1>1, <2>1 DEF HandsOn
  <2>2. CASE s = NextInLine
    <3>1. render[s] \in RenderRecord /\ render[s].at \in {"queued", "requeued"}
      BY <1>1, <2>2 DEF HandsOn, TypeOK
    <3>2. /\ DOMAIN render[s] = {"at", "tile", "background", "aborted", "attempt"}
          /\ render'[s] = [render[s] EXCEPT !.at = IF render[s].at = "queued"
                                                   THEN "handed" ELSE "fetching"]
      BY <1>1, <2>2, <3>1 DEF HandsOn, RenderRecord, Outcomes
    <3> QED BY <3>1, <3>2
  <2> QED BY <2>1, <2>2
<1>4. TypeOK'
  <2>1. running' \in Nat
    <3>1. IsFiniteSet(Holding')
      BY GateAssumption, FS_Subset DEF Holding
    <3> QED BY <1>2, <3>1, FS_CardinalityType DEF SlotsAreHeld
  <2>2. current' \in [Tiles -> Renders \cup {None}]
    BY DEF TypeOK, CurrentWithout
  <2> QED BY <1>1, <1>2, <2>1, <2>2 DEF TypeOK, QueuesFit
<1>5. MapFits'
  <2>1. \A s \in Renders \ {r} :
          /\ Active(s)' <=> Active(s)
          /\ Active(s) => /\ render'[s].tile = render[s].tile
                          /\ render'[s].aborted = render[s].aborted
                          /\ render[s].aborted => render'[s].at = render[s].at
    BY <1>3 DEF Active, MapFits, Outcomes
  <2>2. CASE table[r].at \in Outcomes /\ current' = CurrentWithout(r)
    <3>1. ~Active(r)'
      BY <1>1, <2>2 DEF Active
    <3> QED BY <2>1, <2>2, <3>1, MapLosesOne
  <2>3. CASE /\ render[r].at = "fetching" /\ table[r].at \in {"sleeping", "writing"}
             /\ table[r].tile = render[r].tile /\ table[r].aborted = render[r].aborted
             /\ current' = current
    <3>1. Active(r) /\ Active(r)' /\ ~render[r].aborted
      BY <1>1, <2>3 DEF Active, Outcomes, MapFits
    <3>2. render'[r].tile = render[r].tile /\ render'[r].aborted = render[r].aborted
      BY <1>1, <2>3
    <3> HIDE DEF Active
    <3> QED BY <2>1, <2>3, <3>1, <3>2, MapKept
  <2> QED BY <2>2, <2>3
<1>6. RendersGoOn
  BY <1>1, <1>3 DEF RendersGoOn, Outcomes
<1> QED BY <1>2, <1>4, <1>5, <1>6, RequestsStay

\* Only r moves, and gives no slot up.
LEMMA MovesAlone ==
  ASSUME TilesInv, NEW r \in Renders, NEW x \in RenderRecord, render' = [render EXCEPT ![r] = x],
         QueuesFit(render, waiting, background)', SlotsAreHeld',
         req' = req, cached' \subseteq Tiles, unreachable' \in BOOLEAN,
         \/ /\ x.at \in {"failed", "image"} /\ current' = CurrentWithout(r)
            /\ render[r].at # "idle"
         \/ /\ Active(r) /\ x.at \in {"fetching", "requeued"}
            /\ x.tile = render[r].tile /\ x.aborted = render[r].aborted
            /\ ~render[r].aborted /\ current' = current
  PROVE  TilesInv'
<1> USE DEF TilesInv
<1>1. /\ render'[r] = x /\ \A s \in Renders \ {r} : render'[s] = render[s]
      /\ render' \in [Renders -> RenderRecord]
  BY DEF TypeOK
<1>2. TypeOK'
  <2>1. running' \in Nat
    <3>1. IsFiniteSet(Holding')
      BY GateAssumption, FS_Subset DEF Holding
    <3> QED BY <3>1, FS_CardinalityType DEF SlotsAreHeld
  <2>2. current' \in [Tiles -> Renders \cup {None}]
    BY DEF TypeOK, CurrentWithout
  <2> QED BY <1>1, <2>1, <2>2 DEF TypeOK, QueuesFit
<1>3. MapFits'
  <2>1. CASE x.at \in {"failed", "image"} /\ current' = CurrentWithout(r)
    <3>1. ~Active(r)'
      BY <1>1, <2>1 DEF Active, Outcomes
    <3>2. \A s \in Renders \ {r} : Active(s)' <=> Active(s)
      BY <1>1 DEF Active
    <3> QED BY <1>1, <2>1, <3>1, <3>2, MapLosesOne
  <2>2. CASE /\ Active(r) /\ x.at \in {"fetching", "requeued"}
             /\ x.tile = render[r].tile /\ x.aborted = render[r].aborted
             /\ ~render[r].aborted /\ current' = current
    <3>1. Active(r)'
      BY <1>1, <2>2 DEF Active, Outcomes
    <3>2. \A s \in Renders :
            /\ Active(s)' <=> Active(s)
            /\ Active(s) => /\ render'[s].tile = render[s].tile
                            /\ render'[s].aborted = render[s].aborted
                            /\ render[s].aborted => render'[s].at = render[s].at
      BY <1>1, <2>2, <3>1 DEF Active
    <3> QED BY <2>2, <3>2, MapKept
  <2> QED BY <2>1, <2>2
<1>4. RendersGoOn
  BY <1>1 DEF RendersGoOn, Active
<1> QED BY <1>2, <1>3, <1>4, RequestsStay

LEMMA RenderStepsKeepTilesInv ==
  ASSUME TilesInv, NEW r \in Renders, RenderStep(r) PROVE TilesInv'
<1> USE GateAssumption DEF TilesInv
<1>1. /\ render \in [Renders -> RenderRecord] /\ render[r] \in RenderRecord
      /\ \A o \in Outcomes : [at |-> o] \in RenderRecord
      /\ cached \subseteq Tiles /\ unreachable \in BOOLEAN
  BY DEF TypeOK, RenderRecord
<1>2. ASSUME render[r].at \in {"fetching", "handed"}, NEW o \in Outcomes, SettleAndLeave(r, o),
             o = "aborted" => render[r].at = "handed" /\ render[r].aborted,
             req' = req, cached' \subseteq Tiles, unreachable' \in BOOLEAN
      PROVE  TilesInv'
  <2> DEFINE table == [render EXCEPT ![r] = [at |-> o]]
  <2>1. /\ table \in [Renders -> RenderRecord] /\ table[r].at = o
        /\ \A s \in Renders \ {r} : table[s] = render[s]
    BY <1>1
  <2>2. Leave /\ render' = Handed(table, NextInLine) /\ current' = CurrentWithout(r)
    BY <1>2 DEF SettleAndLeave
  <2> HIDE DEF table
  <2> QED BY <1>2, <2>1, <2>2, LeavesTheGate
<1>3. CASE Resume(r)
  <2>1. CASE render[r].aborted /\ Abandon(r, "aborted")
    BY <1>2, <1>3, <2>1, <1>1 DEF Resume, Abandon, Outcomes
  <2>2. CASE ~render[r].aborted /\ unreachable /\ Abandon(r, "failed")
    BY <1>2, <1>3, <2>2, <1>1 DEF Resume, Abandon, Outcomes
  <2>3. CASE /\ ~render[r].aborted /\ ~unreachable
             /\ render' = [render EXCEPT ![r].at = "fetching"]
             /\ UNCHANGED <<gateVars, current>>
    <3> DEFINE x == [render[r] EXCEPT !.at = "fetching"]
    <3>1. x \in RenderRecord
      BY <1>1, <1>3, RecordMoves DEF Resume, Outcomes, Waiting
    <3>2. render' = [render EXCEPT ![r] = x] /\ render[r].at = "handed"
      BY <1>3, <2>3 DEF Resume
    <3>3. /\ x.at = "fetching" /\ x.tile = render[r].tile /\ x.aborted = render[r].aborted
      BY <1>1, <3>2 DEF RenderRecord, Outcomes
    <3> HIDE DEF x
    <3>4. /\ render'[r] = x /\ \A s \in Renders \ {r} : render'[s] = render[s]
      BY <1>1, <3>2
    <3>5. SlotsAreHeld'
      BY <2>3, <3>2, <3>3, <3>4, SlotsStay DEF gateVars, SlotsAreHeld
    <3>6. QueuesFit(render', waiting', background')
      <4>1. \A s \in Renders : /\ WaitsIn(render', s) <=> WaitsIn(render, s)
                               /\ BehindIn(render', s) <=> BehindIn(render, s)
        BY <3>2, <3>3, <3>4 DEF WaitsIn, BehindIn
      <4> QED BY <2>3, <4>1 DEF QueuesFit, gateVars
    <3>7. Active(r)
      BY <3>2 DEF Active, Outcomes
    <3>8. QueuesFit(render, waiting, background)' /\ cached' = cached /\ unreachable' = unreachable /\ req' = req
      BY <1>3, <3>6 DEF Resume
    <3> QED BY <1>1, <2>3, <3>1, <3>2, <3>3, <3>5, <3>7, <3>8, MovesAlone
  <2> QED BY <1>3, <2>1, <2>2, <2>3 DEF Resume
<1>4. CASE FetchTile(r)
  <2> DEFINE x == [render[r] EXCEPT !.at = "writing"]
             table == [render EXCEPT ![r] = x]
  <2>1. x \in RenderRecord /\ render[r].at = "fetching"
    BY <1>1, <1>4, RecordMoves DEF FetchTile, Outcomes, Waiting
  <2>2. x.at = "writing" /\ x.tile = render[r].tile /\ x.aborted = render[r].aborted
    BY <1>1, <2>1 DEF RenderRecord, Outcomes
  <2>3. render' = Handed(table, NextInLine)
    BY <1>4 DEF FetchTile
  <2> HIDE DEF x
  <2>4. /\ table \in [Renders -> RenderRecord] /\ table[r] = x
        /\ \A s \in Renders \ {r} : table[s] = render[s]
    BY <1>1, <2>1
  <2> HIDE DEF table
  <2> QED BY <1>1, <1>4, <2>1, <2>2, <2>3, <2>4, LeavesTheGate DEF FetchTile
<1>5. CASE FetchFails(r)
  BY <1>2, <1>5, <1>1 DEF FetchFails, Outcomes
<1>6. CASE FetchTransient(r)
  <2> DEFINE x == [render[r] EXCEPT !.at = "sleeping", !.attempt = @ + 1]
             table == [render EXCEPT ![r] = x]
  <2>1. x \in RenderRecord /\ render[r].at = "fetching"
    BY <1>1, <1>6, RecordMoves DEF FetchTransient, MayRetry, Outcomes, Waiting
  <2>2. x.at = "sleeping" /\ x.tile = render[r].tile /\ x.aborted = render[r].aborted
    BY <1>1, <2>1 DEF RenderRecord, Outcomes
  <2>3. render' = Handed(table, NextInLine)
    BY <1>6 DEF FetchTransient
  <2> HIDE DEF x
  <2>4. /\ table \in [Renders -> RenderRecord] /\ table[r] = x
        /\ \A s \in Renders \ {r} : table[s] = render[s]
    BY <1>1, <2>1
  <2> HIDE DEF table
  <2> QED BY <1>1, <1>6, <2>1, <2>2, <2>3, <2>4, LeavesTheGate DEF FetchTransient
<1>7. CASE TimeOut(r)
  <2> DEFINE x == [at |-> "failed"]
  <2>1. /\ x \in RenderRecord /\ x.at = "failed"
        /\ render' = [render EXCEPT ![r] = x] /\ current' = CurrentWithout(r)
        /\ waiting' = WaitingWithout(r) /\ background' = background /\ running' = running
        /\ WaitsIn(render, r) /\ render[r].at \in {"requeued", "queued"}
        /\ req' = req /\ cached' = cached /\ unreachable' = unreachable
    BY <1>1, <1>7 DEF TimeOut, Settle, WaitsIn, Outcomes
  <2> HIDE DEF x
  <2>2. /\ render'[r] = x /\ \A s \in Renders \ {r} : render'[s] = render[s]
    BY <1>1, <2>1
  <2>3. /\ WaitingWithout(r) \in Seq(Renders) /\ NoRepeats(WaitingWithout(r))
        /\ Elements(WaitingWithout(r)) = Elements(waiting) \ {r}
    BY SplicedFits DEF QueuesFit, WaitingWithout
  <2>4. QueuesFit(render', waiting', background')
    <3>1. \A s \in Renders : /\ WaitsIn(render', s) <=> WaitsIn(render, s) /\ s # r
                             /\ BehindIn(render', s) <=> BehindIn(render, s)
      BY <2>1, <2>2 DEF WaitsIn, BehindIn
    <3> QED BY <2>1, <2>3, <3>1 DEF QueuesFit
  <2>5. waiting' # <<>> => waiting # <<>>
    BY <2>1, <2>3, NobodyJoins DEF QueuesFit
  <2>6. SlotsAreHeld'
    BY <2>1, <2>2, <2>5, SlotsStay DEF SlotsAreHeld
  <2>7. QueuesFit(render, waiting, background)'
    BY <2>4
  <2> QED BY <1>1, <2>1, <2>6, <2>7, MovesAlone
<1>8. CASE WakeUp(r)
  <2>1. CASE unreachable /\ Settle(r, "failed") /\ UNCHANGED gateVars
    <3> DEFINE x == [at |-> "failed"]
    <3>1. /\ x \in RenderRecord /\ x.at = "failed"
          /\ render' = [render EXCEPT ![r] = x] /\ current' = CurrentWithout(r)
          /\ UNCHANGED <<waiting, background, running, req, cached, unreachable>>
          /\ render[r].at = "sleeping"
      BY <1>1, <1>8, <2>1 DEF WakeUp, Settle, Outcomes, gateVars
    <3> HIDE DEF x
    <3>2. /\ render'[r] = x /\ \A s \in Renders \ {r} : render'[s] = render[s]
      BY <1>1, <3>1
    <3>3. QueuesFit(render', waiting', background')
      BY <3>1, <3>2 DEF QueuesFit, WaitsIn, BehindIn
    <3>4. SlotsAreHeld'
      BY <3>1, <3>2, SlotsStay DEF SlotsAreHeld
    <3>5. QueuesFit(render, waiting, background)'
      BY <3>3
    <3> QED BY <1>1, <3>1, <3>4, <3>5, MovesAlone
  <2>2. CASE /\ ~unreachable /\ SlotFree
             /\ render' = [render EXCEPT ![r].at = "fetching"]
             /\ running' = running + 1
             /\ UNCHANGED <<waiting, background, current>>
    <3> DEFINE x == [render[r] EXCEPT !.at = "fetching"]
    <3>1. x \in RenderRecord /\ render[r].at = "sleeping" /\ render' = [render EXCEPT ![r] = x]
      BY <1>1, <1>8, <2>2, RecordMoves DEF WakeUp, Outcomes, Waiting
    <3>2. x.at = "fetching" /\ x.tile = render[r].tile /\ x.aborted = render[r].aborted
      BY <1>1, <3>1 DEF RenderRecord, Outcomes
    <3> HIDE DEF x
    <3>3. /\ render'[r] = x /\ \A s \in Renders \ {r} : render'[s] = render[s]
      BY <1>1, <3>1
    <3>4. QueuesFit(render', waiting', background')
      BY <2>2, <3>1, <3>2, <3>3 DEF QueuesFit, WaitsIn, BehindIn
    <3>5. waiting' = <<>> /\ background' = <<>>
      BY <2>2 DEF SlotFree, SlotsAreHeld, TypeOK
    <3>6. SlotsAreHeld'
      BY <2>2, <3>1, <3>2, <3>3, <3>5, SlotTaken
    <3>7. /\ Active(r) /\ ~render[r].aborted
          /\ QueuesFit(render, waiting, background)'
          /\ UNCHANGED <<req, cached, unreachable>>
      BY <1>8, <3>1, <3>4 DEF Active, MapFits, WakeUp, Outcomes
    <3> QED BY <1>1, <2>2, <3>1, <3>2, <3>6, <3>7, MovesAlone
  <2>3. CASE /\ ~unreachable /\ ~SlotFree
             /\ render' = [render EXCEPT ![r].at = "requeued"]
             /\ Queued(r, "first", waiting, background)
             /\ UNCHANGED <<running, current>>
    <3> DEFINE x == [render[r] EXCEPT !.at = "requeued"]
    <3>1. x \in RenderRecord /\ render[r].at = "sleeping" /\ render' = [render EXCEPT ![r] = x]
      BY <1>1, <1>8, <2>3, RecordMoves DEF WakeUp, Outcomes, Waiting
    <3>2. x.at = "requeued" /\ x.tile = render[r].tile /\ x.aborted = render[r].aborted
      BY <1>1, <3>1 DEF RenderRecord, Outcomes
    <3> HIDE DEF x
    <3>3. /\ render'[r] = x /\ \A s \in Renders \ {r} : render'[s] = render[s]
      BY <1>1, <3>1
    <3>4. waiting' = <<r>> \o waiting /\ background' = background
      BY <2>3 DEF Queued
    <3>5. /\ <<r>> \o waiting \in Seq(Renders) /\ NoRepeats(<<r>> \o waiting)
          /\ Elements(<<r>> \o waiting) = Elements(waiting) \cup {r}
      <4>1. r \notin Elements(waiting)
        BY <3>1 DEF QueuesFit, WaitsIn
      <4> QED BY <4>1, FirstFits DEF QueuesFit
    <3>6. QueuesFit(render', waiting', background')
      <4>1. \A s \in Renders : /\ WaitsIn(render', s) <=> WaitsIn(render, s) \/ s = r
                               /\ BehindIn(render', s) <=> BehindIn(render, s)
        BY <3>1, <3>2, <3>3 DEF WaitsIn, BehindIn
      <4> QED BY <3>4, <3>5, <4>1 DEF QueuesFit
    <3>7. running = Max
      BY <2>3 DEF SlotFree, SlotsAreHeld, TypeOK
    <3>8. SlotsAreHeld'
      BY <2>3, <3>1, <3>2, <3>3, <3>7, SlotsStay
    <3>9. /\ Active(r) /\ ~render[r].aborted
          /\ QueuesFit(render, waiting, background)'
          /\ UNCHANGED <<req, cached, unreachable>>
      BY <1>8, <3>1, <3>6 DEF Active, MapFits, WakeUp, Outcomes
    <3> QED BY <1>1, <2>3, <3>1, <3>2, <3>8, <3>9, MovesAlone
  <2> QED BY <1>8, <2>1, <2>2, <2>3 DEF WakeUp
<1>9. CASE Write(r)
  <2> DEFINE x == [at |-> "image"]
  <2>1. /\ x \in RenderRecord /\ x.at = "image"
        /\ render' = [render EXCEPT ![r] = x] /\ current' = CurrentWithout(r)
        /\ UNCHANGED <<waiting, background, running, req, unreachable>>
        /\ render[r].at = "writing"
    BY <1>1, <1>9 DEF Write, Settle, Outcomes, gateVars
  <2>2. cached' \subseteq Tiles
    <3>1. render[r].tile \in Tiles
      BY <1>1, <2>1 DEF RenderRecord, Outcomes
    <3> QED BY <1>1, <1>9, <3>1 DEF Write
  <2> HIDE DEF x
  <2>3. /\ render'[r] = x /\ \A s \in Renders \ {r} : render'[s] = render[s]
    BY <1>1, <2>1
  <2>4. QueuesFit(render', waiting', background')
    BY <2>1, <2>3 DEF QueuesFit, WaitsIn, BehindIn
  <2>5. SlotsAreHeld'
    BY <2>1, <2>3, SlotsStay DEF SlotsAreHeld
  <2>6. QueuesFit(render, waiting, background)'
    BY <2>4
  <2> QED BY <1>1, <2>1, <2>2, <2>5, <2>6, MovesAlone
<1> QED BY <1>3, <1>4, <1>5, <1>6, <1>7, <1>8, <1>9 DEF RenderStep

-------------------------------------------------------------------------------
(* The steps of a request *)

LEMMA AskKeepsTilesInv ==
  ASSUME TilesInv, NEW q \in Reqs, Ask(q) \/ Answer(q) \/ JoinCurrent(q) PROVE TilesInv'
<1> USE WmsTilesAssumption, GateAssumption DEF TilesInv
<1>1. /\ UNCHANGED <<running, waiting, background, render, current, cached, unreachable>>
      /\ \A p \in Reqs \ {q} : req'[p] = req[p]
      /\ req[q] \in RequestRecord
  BY DEF Ask, Answer, JoinCurrent, Join, gateVars, TypeOK
<1>2. /\ QueuesFit(render', waiting', background') /\ SlotsAreHeld' /\ MapFits'
      /\ TypeOK' <=> req' \in [Reqs -> RequestRecord]
  BY <1>1 DEF SlotsAreHeld, Holding, MapFits, Active, TypeOK
<1>3. QueuesFit(render, waiting, background)'
  BY <1>2
<1>4. CASE Ask(q)
  <2>1. \/ req'[q] = [at |-> "over"]
        \/ \E t \in Tiles, behind \in BOOLEAN :
             req'[q] = [at |-> "missed", tile |-> t, background |-> behind]
    BY <1>4 DEF Ask, TypeOK
  <2>2. req'[q] \in RequestRecord /\ req'[q].at \in {"over", "missed"} /\ req[q].at = "idle"
    <3>1. [at |-> "over"] \in RequestRecord
      BY DEF RequestRecord
    <3>2. \A t \in Tiles, behind \in BOOLEAN :
            [at |-> "missed", tile |-> t, background |-> behind] \in RequestRecord
      BY DEF RequestRecord
    <3>3. req'[q] \in RequestRecord /\ req'[q].at \in {"over", "missed"}
      <4>1. CASE req'[q] = [at |-> "over"]
        BY <3>1, <4>1
      <4>2. ASSUME NEW t \in Tiles, NEW behind \in BOOLEAN,
                   req'[q] = [at |-> "missed", tile |-> t, background |-> behind]
            PROVE  req'[q] \in RequestRecord /\ req'[q].at \in {"over", "missed"}
        BY <3>2, <4>2
      <4> QED BY <2>1, <4>1, <4>2
    <3> QED BY <1>4, <3>3 DEF Ask
  <2>3. req' \in [Reqs -> RequestRecord]
    BY <1>1, <1>4, <2>2 DEF Ask, TypeOK
  <2>4. RendersBegin' /\ UsersGoFirst'
    BY <1>1, <2>2 DEF RendersBegin, UsersGoFirst, Joined
  <2> QED BY <1>2, <1>3, <2>3, <2>4
<1>5. CASE Answer(q)
  <2>1. req' = [req EXCEPT ![q] = [at |-> "over"]] /\ [at |-> "over"] \in RequestRecord
    BY <1>5 DEF Answer, RequestRecord
  <2>2. req' \in [Reqs -> RequestRecord] /\ req'[q].at = "over"
    BY <2>1 DEF TypeOK
  <2>3. RendersBegin' /\ UsersGoFirst'
    BY <1>1, <2>2 DEF RendersBegin, UsersGoFirst, Joined
  <2> QED BY <1>2, <1>3, <2>2, <2>3
<1>6. CASE JoinCurrent(q)
  <2> DEFINE t == req[q].tile
             r == current[t]
             x == [at |-> "joined", render |-> r, background |-> req[q].background]
  <2>1. t \in Tiles /\ req[q].background \in BOOLEAN
    BY <1>1, <1>6 DEF JoinCurrent, RequestRecord
  <2>2. r \in Renders /\ Active(r) /\ ~render[r].aborted
    BY <1>6, <2>1 DEF JoinCurrent, TypeOK, MapFits
  <2>3. req' = [req EXCEPT ![q] = x] /\ x \in RequestRecord
    BY <1>6, <2>1, <2>2 DEF JoinCurrent, Join, RequestRecord
  <2>4. req'[q] = x /\ req' \in [Reqs -> RequestRecord]
    BY <2>3 DEF TypeOK
  <2>5. ~req[q].background => ~render[r].background \/ Started(r)
    BY <1>6, <2>1, <2>2 DEF JoinCurrent, GivesWay
  <2>6. RendersBegin'
    BY <1>1, <2>2, <2>4 DEF RendersBegin, Joined, Active
  <2>7. UsersGoFirst'
    <3> SUFFICES ASSUME NEW p \in Reqs, NEW s \in Renders, Joined(p, s)', ~req'[p].background
                 PROVE  /\ render[s].at # "aborted"
                        /\ render[s].at \in {"queued", "handed"} =>
                             ~render[s].background /\ ~render[s].aborted
      BY <1>1 DEF UsersGoFirst
    <3>1. CASE p # q
      BY <1>1, <3>1 DEF UsersGoFirst, Joined
    <3>2. CASE p = q
      <4>1. s = r /\ ~req[q].background
        BY <2>4, <3>2 DEF Joined
      <4> QED BY <2>2, <2>5, <4>1 DEF Active, Outcomes, Started
    <3> QED BY <3>1, <3>2
  <2> QED BY <1>2, <1>3, <2>4, <2>6, <2>7
<1> QED BY <1>4, <1>5, <1>6

LEMMA CloseKeepsTilesInv ==
  ASSUME TilesInv, NEW q \in Reqs, Close(q) PROVE TilesInv'
<1> USE WmsTilesAssumption, GateAssumption DEF TilesInv
<1>1. /\ req' = [req EXCEPT ![q] = [at |-> "over"]] /\ [at |-> "over"] \in RequestRecord
      /\ UNCHANGED <<running, cached, unreachable>> /\ req[q] \in RequestRecord
  BY DEF Close, RequestRecord, TypeOK
<1>2. /\ req' \in [Reqs -> RequestRecord] /\ req'[q].at = "over"
      /\ \A p \in Reqs \ {q} : req'[p] = req[p]
  BY <1>1 DEF TypeOK
<1>3. CASE UNCHANGED <<render, current, waiting, background>>
  <2>1. /\ QueuesFit(render', waiting', background') /\ SlotsAreHeld' /\ MapFits' /\ TypeOK'
    BY <1>1, <1>2, <1>3 DEF SlotsAreHeld, Holding, MapFits, Active, TypeOK
  <2>2. RendersBegin' /\ UsersGoFirst'
    BY <1>2, <1>3 DEF RendersBegin, UsersGoFirst, Joined
  <2>3. QueuesFit(render, waiting, background)'
    BY <2>1
  <2> QED BY <2>1, <2>2, <2>3
<1>4. CASE req[q].at = "joined" /\ LastToLeave(q, req[q].render)
  <2> PICK r \in Renders : req[q].render = r
    BY <1>1, <1>4 DEF RequestRecord
  <2>1. /\ render' = Aborted(render, r) /\ current' = CurrentWithout(r)
        /\ waiting' = WaitingWithout(r) /\ background' = BackgroundWithout(r)
    BY <1>4 DEF Close
  <2>2. ~Started(r) /\ LastToLeave(q, r)
    BY <1>4 DEF LastToLeave
  <2>3. \A p \in Reqs : ~Joined(p, r)'
    <3>1. ~Joined(q, r)'
      BY <1>2 DEF Joined
    <3>2. \A p \in Reqs \ {q} : Joined(p, r)' => Joined(p, r)
      BY <1>2 DEF Joined
    <3>3. \A p \in Reqs \ {q} : ~Joined(p, r)
      BY <2>2 DEF LastToLeave
    <3> QED BY <3>1, <3>2, <3>3
  <2>4. /\ render' \in [Renders -> RenderRecord]
        /\ \A s \in Renders \ {r} : render'[s] = render[s]
        /\ QueuesFit(render', waiting', background')
        /\ render[r].at = "queued" => render'[r].at = "aborted"
        /\ render[r].at = "handed" => render'[r] = [render[r] EXCEPT !.aborted = TRUE]
        /\ render[r].at \notin {"queued", "handed"} => render'[r] = render[r]
        /\ waiting' # <<>> => waiting # <<>>
        /\ background' # <<>> => background # <<>>
    BY <2>1, <2>2, Aborts
  <2>5. /\ render[r] \in RenderRecord /\ render[r].at \notin {"fetching", "sleeping", "requeued", "writing"}
        /\ render[r].at = "handed" =>
             /\ render'[r].at = "handed" /\ render'[r].aborted
             /\ render'[r].tile \in Tiles /\ render[r].tile \in Tiles
    <3>1. render[r] \in RenderRecord
      BY <2>2 DEF TypeOK
    <3> QED BY <2>2, <2>4, <3>1 DEF RenderRecord, Outcomes, Started
  <2>6. SlotsAreHeld'
    <3>1. \A s \in Renders : render'[s].at \in {"handed", "fetching"}
                               <=> render[s].at \in {"handed", "fetching"}
      BY <2>2, <2>4, <2>5
    <3> QED BY <1>1, <2>4, <3>1, SlotsStay DEF SlotsAreHeld
  <2>7. MapFits'
    <3>1. Active(r)' => /\ render'[r].at = "handed" /\ render'[r].aborted
                        /\ render'[r].tile \in Tiles
      <4>1. CASE render[r].at = "queued"
        BY <2>4, <4>1 DEF Active, Outcomes
      <4>2. CASE render[r].at = "handed"
        BY <2>5, <4>2
      <4>3. CASE render[r].at \notin {"queued", "handed"}
        <5>1. render'[r] = render[r] /\ ~Active(r)
          BY <2>4, <2>5, <4>3 DEF Active, Outcomes, RenderRecord
        <5> QED BY <5>1 DEF Active
      <4> QED BY <4>1, <4>2, <4>3
    <3>2. \A s \in Renders \ {r} : Active(s)' <=> Active(s)
      BY <2>4 DEF Active
    <3> QED BY <2>1, <2>2, <2>4, <3>1, <3>2, MapLosesOne
  <2>8. TypeOK'
    <3>1. current' \in [Tiles -> Renders \cup {None}]
      BY <2>1 DEF TypeOK, CurrentWithout
    <3> QED BY <1>1, <1>2, <2>4, <3>1 DEF TypeOK, QueuesFit
  <2>9. RendersBegin'
    <3>1. \A s \in Renders : render'[s].at = "idle" <=> render[s].at = "idle"
      BY <2>2, <2>4, <2>5
    <3> QED BY <1>2, <3>1 DEF RendersBegin, Joined
  <2>10. UsersGoFirst'
    BY <1>2, <2>3, <2>4 DEF UsersGoFirst, Joined
  <2>11. QueuesFit(render, waiting, background)'
    BY <2>4
  <2> QED BY <2>6, <2>7, <2>8, <2>9, <2>10, <2>11
<1> QED BY <1>3, <1>4 DEF Close

\* A request starts a render of its own; the prerender's one it does not wait
\* behind gives way.
LEMMA StartKeepsTilesInv ==
  ASSUME TilesInv, NEW q \in Reqs, StartRender(q) PROVE TilesInv'
<1> USE WmsTilesAssumption, GateAssumption DEF TilesInv
<1> DEFINE t == req[q].tile
           old == current[t]
           table == IF old = None THEN render ELSE Aborted(render, old)
           ahead == IF old = None THEN waiting ELSE WaitingWithout(old)
           behind == IF old = None THEN background ELSE BackgroundWithout(old)
           priority == IF req[q].background THEN "background" ELSE "normal"
           created(at) == [at |-> at, tile |-> t, background |-> req[q].background,
                           aborted |-> FALSE, attempt |-> 0]
           x == [at |-> "joined", render |-> q, background |-> req[q].background]
<1>1. /\ req[q].at = "missed" /\ t \in Tiles /\ req[q].background \in BOOLEAN
      /\ q \in Renders /\ render[q].at = "idle"
  <2>1. req[q] \in RequestRecord /\ req[q].at = "missed"
    BY DEF StartRender, TypeOK
  <2> QED BY <2>1 DEF RequestRecord, RendersBegin
<1>2. /\ req' = [req EXCEPT ![q] = x] /\ x \in RequestRecord
      /\ old = None \/ GivesWay(t, q)
      /\ UNCHANGED <<cached, unreachable>>
  BY <1>1 DEF StartRender, Join, RequestRecord
<1>3. /\ req' \in [Reqs -> RequestRecord] /\ req'[q] = x
      /\ \A p \in Reqs \ {q} : req'[p] = req[p]
  BY <1>2 DEF TypeOK
<1>4. \/ /\ render' = [table EXCEPT ![q] = [at |-> "failed"]]
         /\ current' = [current EXCEPT ![t] = None]
         /\ waiting' = ahead /\ background' = behind /\ running' = running
      \/ /\ SlotFree
         /\ render' = [table EXCEPT ![q] = created("handed")]
         /\ current' = [current EXCEPT ![t] = q]
         /\ running' = running + 1 /\ waiting' = ahead /\ background' = behind
      \/ /\ ~SlotFree
         /\ render' = [table EXCEPT ![q] = created("queued")]
         /\ current' = [current EXCEPT ![t] = q]
         /\ Queued(q, priority, ahead, behind) /\ running' = running
  BY DEF StartRender
<1>5. old # None => /\ old \in Renders /\ old # q /\ ~Started(old)
                    /\ Active(old) /\ render[old].tile = t /\ ~render[old].aborted
                    /\ render[old].background /\ ~req[q].background
                    /\ render[old].at \in {"queued", "handed"}
  <2> SUFFICES ASSUME old # None
               PROVE  /\ old \in Renders /\ old # q /\ ~Started(old)
                      /\ Active(old) /\ render[old].tile = t /\ ~render[old].aborted
                      /\ render[old].background /\ ~req[q].background
                      /\ render[old].at \in {"queued", "handed"}
    OBVIOUS
  <2>1. GivesWay(t, q)
    BY <1>2
  <2>2. /\ old \in Renders /\ Active(old) /\ render[old].tile = t /\ ~render[old].aborted
    BY <1>1 DEF TypeOK, MapFits
  <2>3. render[old] \in RenderRecord
    BY <2>2 DEF TypeOK
  <2> QED BY <1>1, <2>1, <2>2, <2>3 DEF GivesWay, Active, Started, RenderRecord, Outcomes
<1>6. /\ table \in [Renders -> RenderRecord] /\ QueuesFit(table, ahead, behind)
      /\ \A s \in Renders : s # old => table[s] = render[s]
      /\ old # None => \/ /\ render[old].at = "queued" /\ table[old].at = "aborted"
                       \/ /\ render[old].at = "handed" /\ table[old].at = "handed"
                          /\ table[old].aborted /\ table[old].tile = t
                          /\ table[old].background
      /\ ahead # <<>> => waiting # <<>>
      /\ behind # <<>> => background # <<>>
  <2>1. CASE old = None
    BY <2>1 DEF TypeOK
  <2>2. CASE old # None
    <3>1. /\ table = Aborted(render, old)
          /\ ahead = WaitingWithout(old) /\ behind = BackgroundWithout(old)
      BY <2>2
    <3>2. /\ old \in Renders /\ ~Started(old) /\ render[old].tile = t /\ render[old].background
          /\ render[old].at \in {"queued", "handed"}
      BY <1>5, <2>2
    <3> HIDE DEF old, table, ahead, behind
    <3>3. /\ table \in [Renders -> RenderRecord]
          /\ \A s \in Renders \ {old} : table[s] = render[s]
          /\ QueuesFit(table, ahead, behind)
          /\ render[old].at = "queued" => table[old].at = "aborted"
          /\ render[old].at = "handed" => table[old] = [render[old] EXCEPT !.aborted = TRUE]
          /\ ahead # <<>> => waiting # <<>>
          /\ behind # <<>> => background # <<>>
      BY <3>1, <3>2, Aborts
    <3>4. render[old] \in RenderRecord
      BY <3>2 DEF TypeOK
    <3>5. render[old].at = "handed" => /\ table[old].at = "handed" /\ table[old].aborted
                                       /\ table[old].tile = t /\ table[old].background
      BY <3>2, <3>3, <3>4 DEF RenderRecord, Outcomes
    <3> QED BY <3>2, <3>3, <3>5
  <2> QED BY <2>1, <2>2
<1> HIDE DEF old, table, ahead, behind, priority, x
<1>7. q # old => table[q] = render[q]
  BY <1>1, <1>6
<1>8. q \notin Elements(ahead) /\ q \notin Elements(behind) /\ q # old /\ table[q].at = "idle"
  <2>1. q # old
    BY <1>1, <1>5
  <2> QED BY <1>1, <1>6, <1>7, <2>1 DEF QueuesFit, WaitsIn, BehindIn
<1>9. \A s \in Renders \ {q} : render'[s] = table[s]
  BY <1>4, <1>6
<1>10. \/ render'[q] = [at |-> "failed"]
       \/ render'[q] = created("handed")
       \/ render'[q] = created("queued")
  BY <1>1, <1>4, <1>6
<1>11. /\ render' \in [Renders -> RenderRecord]
       /\ current' \in [Tiles -> Renders \cup {None}]
  <2>1. /\ [at |-> "failed"] \in RenderRecord
        /\ created("handed") \in RenderRecord /\ created("queued") \in RenderRecord
    BY <1>1 DEF RenderRecord, Outcomes
  <2> HIDE DEF created, t
  <2> QED BY <1>1, <1>4, <1>6, <2>1 DEF TypeOK
<1>12. QueuesFit(render', waiting', background') /\ SlotsAreHeld'
  <2>1. \A s \in Renders \ {q} : render'[s].at \in {"handed", "fetching"}
                                   <=> render[s].at \in {"handed", "fetching"}
    BY <1>5, <1>6, <1>9
  <2>2. CASE /\ render' = [table EXCEPT ![q] = [at |-> "failed"]]
             /\ waiting' = ahead /\ background' = behind /\ running' = running
    <3>1. render'[q].at = "failed"
      BY <1>1, <1>6, <2>2
    <3>2. QueuesFit(render', waiting', background')
      BY <1>6, <1>8, <1>9, <2>2, <3>1 DEF QueuesFit, WaitsIn, BehindIn
    <3>3. SlotsAreHeld'
      BY <1>1, <1>6, <2>1, <2>2, <3>1, SlotsStay DEF SlotsAreHeld
    <3> QED BY <3>2, <3>3
  <2>3. CASE /\ SlotFree
             /\ render' = [table EXCEPT ![q] = created("handed")]
             /\ running' = running + 1 /\ waiting' = ahead /\ background' = behind
    <3>1. render'[q].at = "handed"
      BY <1>1, <1>6, <2>3
    <3>2. QueuesFit(render', waiting', background')
      BY <1>6, <1>8, <1>9, <2>3, <3>1 DEF QueuesFit, WaitsIn, BehindIn
    <3>3. waiting' = <<>> /\ background' = <<>>
      BY <1>6, <2>3 DEF SlotFree, SlotsAreHeld, TypeOK
    <3>4. SlotsAreHeld'
      BY <1>1, <2>1, <2>3, <3>1, <3>3, SlotTaken
    <3> QED BY <3>2, <3>4
  <2>4. CASE /\ ~SlotFree
             /\ render' = [table EXCEPT ![q] = created("queued")]
             /\ Queued(q, priority, ahead, behind) /\ running' = running
    <3>1. render'[q].at = "queued" /\ render'[q].background = req[q].background
      BY <1>1, <1>6, <2>4
    <3>2. ASSUME req[q].background PROVE QueuesFit(render', waiting', background')
      <4>1. waiting' = ahead /\ background' = Append(behind, q)
        BY <2>4, <3>2 DEF Queued, priority
      <4>2. /\ Append(behind, q) \in Seq(Renders) /\ NoRepeats(Append(behind, q))
            /\ Elements(Append(behind, q)) = Elements(behind) \cup {q}
        BY <1>1, <1>6, <1>8, AppendFits DEF QueuesFit
      <4>3. \A s \in Renders : /\ WaitsIn(render', s) <=> WaitsIn(table, s)
                               /\ BehindIn(render', s) <=> BehindIn(table, s) \/ s = q
        BY <1>8, <1>9, <3>1, <3>2 DEF WaitsIn, BehindIn
      <4>4. /\ {s \in Renders : WaitsIn(render', s)} = {s \in Renders : WaitsIn(table, s)}
            /\ {s \in Renders : BehindIn(render', s)}
                 = {s \in Renders : BehindIn(table, s)} \cup {q}
        BY <1>1, <4>3
      <4> QED BY <1>6, <4>1, <4>2, <4>4 DEF QueuesFit
    <3>3. ASSUME ~req[q].background PROVE QueuesFit(render', waiting', background')
      <4>1. waiting' = Append(ahead, q) /\ background' = behind
        BY <2>4, <3>3 DEF Queued, priority
      <4>2. /\ Append(ahead, q) \in Seq(Renders) /\ NoRepeats(Append(ahead, q))
            /\ Elements(Append(ahead, q)) = Elements(ahead) \cup {q}
        BY <1>1, <1>6, <1>8, AppendFits DEF QueuesFit
      <4>3. \A s \in Renders : /\ WaitsIn(render', s) <=> WaitsIn(table, s) \/ s = q
                               /\ BehindIn(render', s) <=> BehindIn(table, s)
        BY <1>8, <1>9, <3>1, <3>3 DEF WaitsIn, BehindIn
      <4>4. /\ {s \in Renders : BehindIn(render', s)} = {s \in Renders : BehindIn(table, s)}
            /\ {s \in Renders : WaitsIn(render', s)}
                 = {s \in Renders : WaitsIn(table, s)} \cup {q}
        BY <1>1, <4>3
      <4> QED BY <1>6, <4>1, <4>2, <4>4 DEF QueuesFit
    <3>4. running = Max
      BY <2>4 DEF SlotFree, SlotsAreHeld, TypeOK
    <3>5. SlotsAreHeld'
      BY <1>1, <2>1, <2>4, <3>1, <3>4, SlotsStay
    <3> QED BY <3>2, <3>3, <3>5
  <2> QED BY <1>4, <2>2, <2>3, <2>4
<1>13. TypeOK'
  <2>1. running' \in Nat
    BY <1>4 DEF TypeOK
  <2> QED BY <1>2, <1>3, <1>11, <1>12, <2>1 DEF TypeOK, QueuesFit
<1>14. MapFits'
  <2>1. ASSUME NEW s \in Renders \ {q}, Active(s)', ~render'[s].aborted
        PROVE  /\ Active(s) /\ ~render[s].aborted /\ render'[s] = render[s]
               /\ render[s].tile \in Tiles /\ render[s].tile # t
               /\ current[render[s].tile] = s
    <3>1. s # old
      BY <1>5, <1>6, <1>9, <2>1 DEF Active, Outcomes
    <3>2. render'[s] = render[s] /\ Active(s) /\ ~render[s].aborted
      BY <1>6, <1>9, <2>1, <3>1 DEF Active
    <3>3. render[s] \in RenderRecord /\ current[render[s].tile] = s
      BY <3>2 DEF TypeOK, MapFits
    <3>4. render[s].tile \in Tiles
      BY <3>2, <3>3 DEF RenderRecord, Active
    <3> QED BY <3>1, <3>2, <3>3, <3>4 DEF old
  <2>2. CASE /\ render'[q] = [at |-> "failed"]
             /\ current' = [current EXCEPT ![t] = None]
    <3>1. ~Active(q)'
      BY <2>2 DEF Active, Outcomes
    <3>2. ASSUME NEW u \in Tiles, current'[u] # None
          PROVE  /\ u # t /\ current'[u] = current[u] /\ current[u] \in Renders
                 /\ current[u] # q /\ current[u] # old
                 /\ Active(current[u]) /\ render[current[u]].tile = u
                 /\ ~render[current[u]].aborted
      <4>1. u # t /\ current'[u] = current[u]
        BY <1>1, <2>2, <3>2 DEF TypeOK
      <4>2. /\ current[u] \in Renders /\ Active(current[u]) /\ render[current[u]].tile = u
            /\ ~render[current[u]].aborted
        BY <3>2, <4>1 DEF TypeOK, MapFits
      <4> QED BY <1>1, <1>5, <4>1, <4>2 DEF Active
    <3>3. \A u \in Tiles : current'[u] # None => render'[current'[u]] = render[current[u]]
      BY <1>6, <1>9, <3>2
    <3>4. ASSUME NEW s \in Renders, Active(s)', ~render'[s].aborted
          PROVE  current'[render'[s].tile] = s
      BY <1>1, <2>1, <2>2, <3>1, <3>4 DEF TypeOK
    <3>5. ASSUME NEW s \in Renders, Active(s)', render'[s].aborted PROVE render'[s].at = "handed"
      BY <1>5, <1>6, <1>9, <3>1, <3>5 DEF Active, MapFits, Outcomes
    <3> QED BY <3>2, <3>3, <3>4, <3>5 DEF MapFits, Active
  <2>3. CASE /\ render'[q] = created("handed") \/ render'[q] = created("queued")
             /\ current' = [current EXCEPT ![t] = q]
    <3>1. /\ render'[q].at \in {"handed", "queued"} /\ render'[q].tile = t
          /\ ~render'[q].aborted
      BY <2>3
    <3>2. current'[t] = q /\ \A u \in Tiles \ {t} : current'[u] = current[u]
      BY <1>1, <2>3 DEF TypeOK
    <3>3. ASSUME NEW u \in Tiles \ {t}, current'[u] # None
          PROVE  /\ current[u] \in Renders
                 /\ current[u] # q /\ current[u] # old
                 /\ Active(current[u]) /\ render[current[u]].tile = u
                 /\ ~render[current[u]].aborted
      <4>1. /\ current[u] \in Renders /\ Active(current[u]) /\ render[current[u]].tile = u
            /\ ~render[current[u]].aborted
        BY <3>2, <3>3 DEF TypeOK, MapFits
      <4> QED BY <1>1, <1>5, <4>1 DEF Active
    <3>4. \A u \in Tiles \ {t} : current'[u] # None => render'[current'[u]] = render[current[u]]
      BY <1>6, <1>9, <3>2, <3>3
    <3>5. ASSUME NEW s \in Renders, Active(s)', ~render'[s].aborted
          PROVE  current'[render'[s].tile] = s
      BY <2>1, <3>1, <3>2, <3>5
    <3>6. ASSUME NEW s \in Renders, Active(s)', render'[s].aborted PROVE render'[s].at = "handed"
      BY <1>5, <1>6, <1>9, <3>1, <3>6 DEF Active, MapFits, Outcomes
    <3>7. ASSUME NEW u \in Tiles, current'[u] # None
          PROVE  /\ Active(current[u])' /\ render'[current'[u]].tile = u
                 /\ ~render'[current'[u]].aborted
      <4>1. CASE u = t
        BY <3>1, <3>2, <4>1 DEF Active, Outcomes
      <4>2. CASE u # t
        BY <3>2, <3>3, <3>4, <3>7, <4>2 DEF Active
      <4> QED BY <4>1, <4>2
    <3> QED BY <3>5, <3>6, <3>7 DEF MapFits
  <2> QED BY <1>1, <1>4, <1>6, <2>2, <2>3
<1>15. RendersBegin'
  <2>1. \A s \in Renders \ {q} : render'[s].at = "idle" <=> render[s].at = "idle"
    BY <1>5, <1>6, <1>9
  <2>2. render'[q].at # "idle" /\ req'[q].at = "joined" /\ req'[q].render = q
    BY <1>3, <1>10 DEF x
  <2> QED BY <1>3, <2>1, <2>2 DEF RendersBegin, Joined
<1>16. UsersGoFirst'
  <2> SUFFICES ASSUME NEW p \in Reqs, NEW s \in Renders, Joined(p, s)', ~req'[p].background
               PROVE  /\ render'[s].at # "aborted"
                      /\ render'[s].at \in {"queued", "handed"} =>
                           ~render'[s].background /\ ~render'[s].aborted
    BY DEF UsersGoFirst
  <2>1. CASE p = q
    <3>1. s = q /\ ~req[q].background
      BY <1>3, <2>1 DEF Joined, x
    <3> QED BY <1>10, <3>1
  <2>2. CASE p # q
    <3>1. Joined(p, s) /\ ~req[p].background
      BY <1>3, <2>2 DEF Joined
    <3>2. s # q
      BY <1>1, <3>1 DEF RendersBegin
    <3>3. s # old
      BY <1>5, <3>1 DEF UsersGoFirst
    <3>4. render'[s] = render[s]
      BY <1>6, <1>9, <3>2, <3>3
    <3> QED BY <3>1, <3>4 DEF UsersGoFirst
  <2> QED BY <2>1, <2>2
<1>17. QueuesFit(render, waiting, background)'
  BY <1>12
<1> QED BY <1>12, <1>13, <1>14, <1>15, <1>16, <1>17

-------------------------------------------------------------------------------
(* The theorems *)

LEMMA TilesInvHolds == Spec => []TilesInv
<1>1. Init => TilesInv
  <2> SUFFICES ASSUME Init PROVE TilesInv
    OBVIOUS
  <2> USE GateAssumption, WmsTilesAssumption DEF Init, InitGate
  <2>1. \A r \in Renders : render[r] = [at |-> "idle"]
    OBVIOUS
  <2>2. TypeOK
    <3>1. [at |-> "idle"] \in RequestRecord /\ [at |-> "idle"] \in RenderRecord
      BY DEF RequestRecord, RenderRecord
    <3>2. running \in Nat /\ waiting \in Seq(Renders) /\ background \in Seq(Renders)
      OBVIOUS
    <3>3. req \in [Reqs -> RequestRecord] /\ render \in [Renders -> RenderRecord]
      BY <3>1
    <3> QED BY <3>2, <3>3 DEF TypeOK
  <2>3. QueuesFit(render, waiting, background)
    BY <2>1 DEF QueuesFit, NoRepeats, Elements, WaitsIn, BehindIn
  <2>4. Holding = {}
    BY <2>1 DEF Holding
  <2>5. SlotsAreHeld
    BY <2>4, FS_EmptySet DEF SlotsAreHeld
  <2>6. MapFits
    BY <2>1 DEF MapFits, Active
  <2>7. RendersBegin /\ UsersGoFirst
    BY <2>1 DEF RendersBegin, UsersGoFirst, Joined
  <2> QED BY <2>2, <2>3, <2>5, <2>6, <2>7 DEF TilesInv
<1>2. TilesInv /\ [Next]_vars => TilesInv'
  <2> SUFFICES ASSUME TilesInv, [Next]_vars PROVE TilesInv'
    OBVIOUS
  <2>1. ASSUME UNCHANGED <<gateVars, req, render, current>>, cached' \subseteq Tiles,
               unreachable' \in BOOLEAN
        PROVE  TilesInv'
    <3>1. QueuesFit(render', waiting', background')
      BY <2>1 DEF TilesInv, gateVars
    <3>2. QueuesFit(render, waiting, background)'
      BY <3>1
    <3> QED BY <2>1, <3>2 DEF TilesInv, gateVars, TypeOK, MapFits, Active, RendersBegin, UsersGoFirst,
                         Joined, SlotsAreHeld, Holding
  <2>2. ASSUME NEW q \in Reqs, Ask(q) \/ RequestStep(q) \/ Close(q) PROVE TilesInv'
    BY <2>2, AskKeepsTilesInv, StartKeepsTilesInv, CloseKeepsTilesInv DEF RequestStep
  <2>3. ASSUME NEW r \in Renders, RenderStep(r) PROVE TilesInv'
    BY <2>3, RenderStepsKeepTilesInv
  <2>4. ASSUME NEW t \in Tiles, Sweep(t) PROVE TilesInv'
    BY <2>1, <2>4 DEF Sweep, TilesInv, TypeOK
  <2>5. CASE BackoffEnds
    BY <2>1, <2>5 DEF BackoffEnds, TilesInv, TypeOK
  <2>6. CASE UNCHANGED vars
    BY <2>1, <2>6 DEF vars, TilesInv, TypeOK
  <2> QED BY <2>2, <2>3, <2>4, <2>5, <2>6 DEF Next
<1> QED BY <1>1, <1>2, PTL DEF Spec

\* Every variable stays within its type: what a request and a render carry at
\* each of their stages, the queues, the map of renders, the cache.
THEOREM TypeCorrect == Spec => []TypeOK
<1>1. TilesInv => TypeOK
  BY DEF TilesInv
<1> QED BY <1>1, TilesInvHolds, PTL

\* "Renders at once per upstream host": the count of the gate is that of the
\* renders that hold a slot, whichever way they leave it, and nobody waits while
\* one is free.
THEOREM SlotsStayHeld == Spec => []SlotsAreHeld
<1>1. TilesInv => SlotsAreHeld
  BY DEF TilesInv
<1> QED BY <1>1, TilesInvHolds, PTL

\* "rendered once for all who ask": a tile is asked of the server by one render
\* at a time, and a user's request never sees its render aborted.
THEOREM RendersStayShared == Spec => []RendersAreShared
<1>1. TilesInv => RendersAreShared
  <2> SUFFICES ASSUME TilesInv PROVE RendersAreShared
    OBVIOUS
  <2>1. RenderedOnce
    BY DEF TilesInv, MapFits, RenderedOnce, Started, Active, Outcomes
  <2>2. UsersKeepTheirRender
    BY DEF TilesInv, UsersGoFirst, UsersKeepTheirRender
  <2> QED BY <2>1, <2>2 DEF RendersAreShared
<1> QED BY <1>1, TilesInvHolds, PTL
-------------------------------------------------------------------------------
(* The cache of the proxy *)

LEMMA BytesOfOne ==
  ASSUME NEW d, Size(d) \in Nat
  PROVE  /\ IsFiniteSet(BytesOf({d})) /\ Cardinality(BytesOf({d})) = Size(d)
<1> DEFINE T == {d} \X (1..Size(d))
           f == [b \in 1..Size(d) |-> <<d, b>>]
<1>1. BytesOf({d}) = T
  BY DEF BytesOf
<1>2. f \in Bijection(1..Size(d), T)
  <2>1. f \in [1..Size(d) -> T]
    OBVIOUS
  <2>2. \A a, b \in 1..Size(d) : f[a] = f[b] => a = b
    OBVIOUS
  <2>3. \A t \in T : \E b \in 1..Size(d) : f[b] = t
    OBVIOUS
  <2> QED BY <2>1, <2>2, <2>3, Zenon DEF Bijection, Injection, Surjection, IsInjective
<1>3. ExistsBijection(1..Size(d), T)
  BY <1>2, Zenon DEF ExistsBijection
<1>4. IsFiniteSet(1..Size(d)) /\ Cardinality(1..Size(d)) = Size(d)
  BY FS_Interval
<1> QED BY <1>1, <1>3, <1>4, FS_Bijection

LEMMA BytesAdd ==
  ASSUME NEW D, NEW E, D \cap E = {}, IsFiniteSet(BytesOf(D)), IsFiniteSet(BytesOf(E))
  PROVE  /\ IsFiniteSet(BytesOf(D \cup E))
         /\ Cardinality(BytesOf(D)) \in Nat /\ Cardinality(BytesOf(E)) \in Nat
         /\ Cardinality(BytesOf(D \cup E)) = Cardinality(BytesOf(D)) + Cardinality(BytesOf(E))
<1>1. BytesOf(D \cup E) = BytesOf(D) \cup BytesOf(E)
  BY DEF BytesOf
<1>2. BytesOf(D) \cap BytesOf(E) = {}
  BY DEF BytesOf
<1>3. /\ IsFiniteSet(BytesOf(D) \cup BytesOf(E))
      /\ Cardinality(BytesOf(D) \cup BytesOf(E)) =
           Cardinality(BytesOf(D)) + Cardinality(BytesOf(E)) - Cardinality(BytesOf(D) \cap BytesOf(E))
  BY FS_Union
<1>4. Cardinality({}) = 0 /\ Cardinality(BytesOf(D)) \in Nat /\ Cardinality(BytesOf(E)) \in Nat
  BY FS_EmptySet, FS_CardinalityType
<1>5. Cardinality(BytesOf(D) \cup BytesOf(E)) =
        Cardinality(BytesOf(D)) + Cardinality(BytesOf(E)) - Cardinality({})
  BY <1>2, <1>3, Zenon
<1>6. Cardinality(BytesOf(D) \cup BytesOf(E)) = Cardinality(BytesOf(D)) + Cardinality(BytesOf(E))
  BY <1>4, <1>5
<1> QED BY <1>1, <1>3, <1>4, <1>6, Zenon

LEMMA BytesOfPart ==
  ASSUME NEW D, NEW E \in SUBSET D, IsFiniteSet(BytesOf(D))
  PROVE  IsFiniteSet(BytesOf(E))
<1>1. BytesOf(E) \subseteq BytesOf(D)
  BY DEF BytesOf
<1> QED BY <1>1, FS_Subset

\* A sequence cut in two.
LEMMA CutFits ==
  ASSUME NEW S, NEW q \in Seq(S), NoRepeats(q), NEW n \in 0..Len(q)
  PROVE  LET front == SubSeq(q, 1, n)
             back  == SubSeq(q, n + 1, Len(q))
         IN  /\ back \in Seq(S) /\ NoRepeats(back)
             /\ Elements(front) \cup Elements(back) = Elements(q)
             /\ Elements(front) \cap Elements(back) = {}
<1> DEFINE front == SubSeq(q, 1, n)
           back  == SubSeq(q, n + 1, Len(q))
<1>1. Len(q) \in Nat /\ DOMAIN q = 1..Len(q) /\ \A k \in 1..Len(q) : q[k] \in S
  BY ElementOfSeq, LenProperties
<1>2. /\ DOMAIN front = 1..n
      /\ \A k \in 1..n : front[k] = q[k]
  <2>1. /\ front \in Seq(S) /\ Len(front) = IF 1 <= n THEN n - 1 + 1 ELSE 0
        /\ \A k \in 1..n - 1 + 1 : front[k] = q[1 + k - 1]
    <3>1. 1 \in Int /\ n \in Int /\ \A k \in 1..n : q[k] \in S
      BY <1>1
    <3> QED BY <3>1, SubSeqProperties
  <2> HIDE DEF front
  <2>2. Len(front) = n /\ DOMAIN front = 1..Len(front)
    BY <2>1, LenProperties
  <2> QED BY <2>1, <2>2
<1>3. /\ back \in Seq(S) /\ DOMAIN back = 1..Len(q) - n
      /\ \A k \in 1..Len(q) - n : back[k] = q[k + n]
  <2>1. /\ back \in Seq(S) /\ Len(back) = IF n + 1 <= Len(q) THEN Len(q) - (n + 1) + 1 ELSE 0
        /\ \A k \in 1..Len(q) - (n + 1) + 1 : back[k] = q[(n + 1) + k - 1]
    <3>1. n + 1 \in Int /\ Len(q) \in Int /\ \A k \in (n + 1)..Len(q) : q[k] \in S
      BY <1>1
    <3> QED BY <3>1, SubSeqProperties
  <2> HIDE DEF back
  <2>2. Len(back) = Len(q) - n /\ DOMAIN back = 1..Len(back)
    BY <1>1, <2>1, LenProperties
  <2>3. ASSUME NEW k \in 1..Len(q) - n PROVE back[k] = q[k + n]
    <3>1. k \in 1..Len(q) - (n + 1) + 1 /\ (n + 1) + k - 1 = k + n
      BY <1>1
    <3> QED BY <2>1, <3>1
  <2> QED BY <2>1, <2>2, <2>3
<1> HIDE DEF front, back
<1>4. NoRepeats(back)
  <2> SUFFICES ASSUME NEW i \in 1..Len(q) - n, NEW j \in 1..Len(q) - n, back[i] = back[j]
               PROVE  i = j
    BY <1>3 DEF NoRepeats
  <2>1. i + n \in 1..Len(q) /\ j + n \in 1..Len(q) /\ q[i + n] = q[j + n]
    BY <1>1, <1>3
  <2>2. i + n = j + n
    BY <1>1, <2>1, Zenon DEF NoRepeats
  <2> QED BY <2>2
<1>5. Elements(front) = {q[k] : k \in 1..n}
  BY <1>2 DEF Elements
<1>6. Elements(back) = {q[k] : k \in n + 1..Len(q)}
  <2>1. ASSUME NEW k \in n + 1..Len(q)
        PROVE  k - n \in 1..Len(q) - n /\ q[k] = back[k - n]
    <3>1. k - n \in 1..Len(q) - n /\ (k - n) + n = k
      BY <1>1
    <3> QED BY <1>3, <3>1
  <2>2. \A k \in 1..Len(q) - n : k + n \in n + 1..Len(q)
    BY <1>1
  <2> QED BY <1>3, <2>1, <2>2 DEF Elements
<1>7. Elements(front) \cup Elements(back) = Elements(q)
  <2>1. 1..Len(q) = (1..n) \cup (n + 1..Len(q))
    BY <1>1
  <2> QED BY <1>1, <1>5, <1>6, <2>1 DEF Elements
<1>8. Elements(front) \cap Elements(back) = {}
  BY <1>1, <1>5, <1>6 DEF NoRepeats
<1> QED BY <1>3, <1>4, <1>7, <1>8 DEF front, back

\* Each document is cached once and for a day, and takes finitely many bytes.
CacheRow == [document: Documents, expires: Int, since: Int]
CacheFits(entries) ==
  /\ entries \in Seq(CacheRow) /\ NoRepeats(entries)
  /\ \A e, f \in Elements(entries) : e.document = f.document => e = f
  /\ \A e \in Elements(entries) : e.expires = e.since + Day
  /\ IsFiniteSet(BytesOf(DocumentsOf(entries)))

ProxyInv ==
  /\ now \in Nat /\ CacheFits(cache)
  /\ inFlight \subseteq Documents /\ IsFiniteSet(inFlight)
  /\ upstream \in [Kinds -> Int]
  /\ client = [c \in Clients |-> client[c]]
  /\ CacheIsSound

LEMMA DocumentsOfElements ==
  ASSUME NEW q PROVE DocumentsOf(q) = {e.document : e \in Elements(q)}
BY DEF DocumentsOf, Elements

LEMMA PartFits ==
  ASSUME NEW q, CacheFits(q), NEW s \in Seq(CacheRow), NoRepeats(s), Elements(s) \subseteq Elements(q)
  PROVE  CacheFits(s)
<1>1. DocumentsOf(s) \subseteq DocumentsOf(q)
  BY DocumentsOfElements
<1>2. IsFiniteSet(BytesOf(DocumentsOf(s)))
  BY <1>1, BytesOfPart DEF CacheFits
<1> QED BY <1>2 DEF CacheFits

\* forget() takes one entry out, and its bytes off the counter.
LEMMA WithoutFits ==
  ASSUME CacheFits(cache), NEW d \in Documents, cacheBytes = Bytes(cache)
  PROVE  /\ CacheFits(Without(d)) /\ DocumentsOf(Without(d)) = DocumentsOf(cache) \ {d}
         /\ BytesWithout(d) = Bytes(Without(d)) /\ Bytes(Without(d)) \in Nat
         /\ Has(d) => Entry(d) \in Elements(cache) /\ Entry(d).document = d
         /\ Bytes(Without(d)) <= Bytes(cache) /\ Bytes(cache) \in Nat
<1>0. Size(d) \in Nat
  BY ProxyAssumption
<1>1. CASE ~Has(d)
  <2>1. Bytes(cache) \in Nat
    BY FS_CardinalityType DEF Bytes, CacheFits
  <2>2. DocumentsOf(cache) = DocumentsOf(cache) \ {d}
    BY <1>1 DEF Has
  <2>3. Without(d) = cache /\ BytesWithout(d) = cacheBytes
    BY <1>1, <2>1 DEF Without, BytesWithout
  <2> QED BY <1>1, <2>1, <2>2, <2>3
<1>2. CASE Has(d)
  <2> DEFINE r == Entry(d)
  <2>1. Place(d) \in DOMAIN cache /\ cache[Place(d)].document = d
    <3>1. \E i \in DOMAIN cache : cache[i].document = d
      BY <1>2 DEF Has, DocumentsOf
    <3> QED BY <3>1, Zenon DEF Place
  <2>2. r \in Elements(cache) /\ r.document = d /\ cache[Place(d)] = r
    BY <2>1, Zenon DEF Entry, Elements
  <2>3. (CHOOSE k \in DOMAIN cache : cache[k] = r) = Place(d)
    <3>1. \A k \in DOMAIN cache : cache[k] = r => k = Place(d)
      BY <2>1, <2>2, Zenon DEF CacheFits, NoRepeats
    <3> QED BY <2>1, <2>2, <3>1, Zenon
  <2>4. Without(d) = Spliced(cache, r)
    BY <1>2, <2>2, <2>3, Zenon DEF Without, Spliced
  <2>5. /\ Without(d) \in Seq(CacheRow) /\ NoRepeats(Without(d))
        /\ Elements(Without(d)) = Elements(cache) \ {r}
    <3>1. cache \in Seq(CacheRow) /\ NoRepeats(cache)
      BY DEF CacheFits
    <3> QED BY <2>4, <3>1, SplicedFits
  <2>6. CacheFits(Without(d))
    <3>1. Elements(Without(d)) \subseteq Elements(cache)
      BY <2>5
    <3> QED BY <2>5, <3>1, PartFits
  <2>7. DocumentsOf(Without(d)) = DocumentsOf(cache) \ {d}
    <3>1. \A e \in Elements(cache) : e.document = d <=> e = r
      BY <2>2, Zenon DEF CacheFits
    <3>2. {e.document : e \in Elements(cache) \ {r}} = {e.document : e \in Elements(cache)} \ {d}
      BY <3>1
    <3> QED BY <2>5, <3>2, DocumentsOfElements
  <2>8. DocumentsOf(cache) = DocumentsOf(Without(d)) \cup {d}
    BY <1>2, <2>7 DEF Has
  <2>9. /\ Bytes(cache) = Bytes(Without(d)) + Size(d)
        /\ Bytes(Without(d)) \in Nat
    <3>1. DocumentsOf(Without(d)) \cap {d} = {}
      BY <2>7
    <3>2. IsFiniteSet(BytesOf({d})) /\ Cardinality(BytesOf({d})) = Size(d)
      BY <1>0, BytesOfOne
    <3>3. IsFiniteSet(BytesOf(DocumentsOf(Without(d))))
      BY <2>6 DEF CacheFits
    <3> QED BY <2>8, <3>1, <3>2, <3>3, BytesAdd DEF Bytes
  <2>10. BytesWithout(d) = Bytes(Without(d))
    BY <1>0, <1>2, <2>9 DEF BytesWithout
  <2> QED BY <1>0, <2>2, <2>6, <2>7, <2>9, <2>10
<1> QED BY <1>1, <1>2

LEMMA AddFits ==
  ASSUME NEW q, CacheFits(q), NEW e \in CacheRow, e.document \notin DocumentsOf(q),
         e.expires = e.since + Day
  PROVE  /\ CacheFits(Append(q, e)) /\ Bytes(q) \in Nat
         /\ DocumentsOf(Append(q, e)) = DocumentsOf(q) \cup {e.document}
         /\ Bytes(Append(q, e)) = Bytes(q) + Size(e.document)
<1> DEFINE s == Append(q, e)
<1>0. Size(e.document) \in Nat
  BY ProxyAssumption DEF CacheRow
<1>1. e \notin Elements(q)
  BY DocumentsOfElements
<1>2. s \in Seq(CacheRow) /\ NoRepeats(s) /\ Elements(s) = Elements(q) \cup {e}
  <2>1. q \in Seq(CacheRow) /\ NoRepeats(q)
    BY DEF CacheFits
  <2> QED BY <1>1, <2>1, AppendFits
<1> HIDE DEF s
<1>3. DocumentsOf(s) = DocumentsOf(q) \cup {e.document}
  <2>1. {x.document : x \in Elements(q) \cup {e}} = {x.document : x \in Elements(q)} \cup {e.document}
    OBVIOUS
  <2> QED BY <1>2, <2>1, DocumentsOfElements
<1>4. DocumentsOf(q) \cap {e.document} = {}
  OBVIOUS
<1>5. IsFiniteSet(BytesOf({e.document})) /\ Cardinality(BytesOf({e.document})) = Size(e.document)
  BY <1>0, BytesOfOne
<1>6. IsFiniteSet(BytesOf(DocumentsOf(q)))
  BY DEF CacheFits
<1>7. /\ IsFiniteSet(BytesOf(DocumentsOf(s))) /\ Bytes(q) \in Nat
      /\ Bytes(s) = Bytes(q) + Size(e.document)
  BY <1>3, <1>4, <1>5, <1>6, BytesAdd DEF Bytes
<1>8. \A x, y \in Elements(s) : x.document = y.document => x = y
  <2>1. \A x \in Elements(q) : x.document # e.document
    BY DocumentsOfElements
  <2> QED BY <1>2, <2>1 DEF CacheFits
<1>9. \A x \in Elements(s) : x.expires = x.since + Day
  BY <1>2 DEF CacheFits
<1>10. CacheFits(s)
  BY <1>2, <1>7, <1>8, <1>9 DEF CacheFits
<1> QED BY <1>3, <1>7, <1>10 DEF s
-------------------------------------------------------------------------------
(* The steps of the proxy *)

Asking == {c \in Clients : client[c].at = "asking"}

\* A client's request goes on, and asks nobody for feature info.
LEMMA ClientsGoOn ==
  ASSUME ProxyInv, NEW c \in Clients, Ready(c), NEW v, v.at # "asking",
         client' = [client EXCEPT ![c] = v],
         v.at = "over" /\ v.age # NoAge => v.age <= Day
  PROVE  /\ client' = [p \in Clients |-> client'[p]]
         /\ \A p \in Clients : client'[p].at = "over" /\ client'[p].age # NoAge => client'[p].age <= Day
         /\ {p \in Clients : client'[p].at = "asking"} = Asking
<1>1. client = [p \in Clients |-> client[p]]
  BY DEF ProxyInv
<1>2. client' = [p \in Clients |-> IF p = c THEN v ELSE client[p]]
  BY <1>1
<1>3. /\ client' = [p \in Clients |-> client'[p]]
      /\ \A p \in Clients : client'[p] = IF p = c THEN v ELSE client[p]
  BY <1>2
<1> QED BY <1>3 DEF ProxyInv, CacheIsSound, Asking, Ready

LEMMA HitKeepsProxyInv ==
  ASSUME ProxyInv, NEW c \in Clients, NEW d \in Documents, Hit(c, d)
  PROVE  ProxyInv'
<1> USE DEF Hit
<1> DEFINE e == Entry(d)
<1>1. /\ CacheFits(Without(d)) /\ DocumentsOf(Without(d)) = DocumentsOf(cache) \ {d}
      /\ e \in Elements(cache) /\ e.document = d
      /\ BytesWithout(d) = Bytes(Without(d)) /\ Has(d) /\ Bytes(cache) \in Nat
  BY WithoutFits DEF ProxyInv, CacheIsSound, Valid
<1>2. e \in CacheRow /\ e.expires = e.since + Day
  BY <1>1, ElementOfSeq DEF ProxyInv, CacheFits, Elements
<1> HIDE DEF e
<1>3. /\ CacheFits(Append(Without(d), e)) /\ Bytes(Without(d)) \in Nat
      /\ Bytes(Append(Without(d), e)) = Bytes(Without(d)) + Size(d)
  BY <1>1, <1>2, AddFits
<1>4. cache' = Append(Without(d), e) /\ cacheBytes' = cacheBytes
  BY DEF Used, e
<1>5. CacheFits(cache') /\ cacheBytes' = Bytes(cache') /\ cacheBytes' <= MaxCache
  <2>1. Size(d) \in Nat
    BY ProxyAssumption
  <2> QED BY <1>1, <1>3, <1>4, <2>1 DEF BytesWithout, ProxyInv, CacheIsSound
<1>6. now - e.since <= Day
  BY <1>2, ProxyAssumption DEF Valid, e, ProxyInv, CacheRow
<1>7. /\ client' = [p \in Clients |-> client'[p]]
      /\ \A p \in Clients : client'[p].at = "over" /\ client'[p].age # NoAge => client'[p].age <= Day
      /\ {p \in Clients : client'[p].at = "asking"} = Asking
  <2> DEFINE v == Over(now - e.since)
  <2>1. v.at = "over" /\ v.age = now - e.since /\ client' = [client EXCEPT ![c] = v]
    BY DEF Over, Answered, e
  <2> HIDE DEF v
  <2> QED BY <1>6, <2>1, ClientsGoOn
<1>8. /\ upstream'["getcapabilities"] = Cardinality(inFlight')
      /\ upstream'["getfeatureinfo"] = Cardinality(Asking)
  BY DEF ProxyInv, CacheIsSound, Asking
<1>9. CacheFits(cache)'
  BY <1>5 DEF CacheFits
<1> QED BY <1>5, <1>7, <1>8, <1>9 DEF ProxyInv, CacheIsSound, Asking, Bytes

LEMMA MissKeepsProxyInv ==
  ASSUME ProxyInv, NEW c \in Clients, NEW d \in Documents, Miss(c, d)
  PROVE  ProxyInv'
<1> USE DEF Miss
<1>1. CacheFits(cache') /\ cacheBytes' = Bytes(cache') /\ cacheBytes' <= MaxCache
  <2>1. /\ CacheFits(Without(d)) /\ BytesWithout(d) = Bytes(Without(d))
        /\ Bytes(Without(d)) \in Nat /\ Bytes(Without(d)) <= Bytes(cache) /\ Bytes(cache) \in Nat
    BY WithoutFits DEF ProxyInv, CacheIsSound
  <2>2. cache' = Without(d) /\ cacheBytes' = BytesWithout(d)
    BY DEF Forget
  <2> QED BY <2>1, <2>2, ProxyAssumption DEF ProxyInv, CacheIsSound
<1>2. CacheFits(cache)'
  BY <1>1 DEF CacheFits
<1>3. /\ client' = [p \in Clients |-> client'[p]]
      /\ \A p \in Clients : client'[p].at = "over" /\ client'[p].age # NoAge => client'[p].age <= Day
      /\ {p \in Clients : client'[p].at = "asking"} = Asking
  <2>1. CASE Answered(c, NoAge)
    <3> DEFINE v == Over(NoAge)
    <3>1. v.at = "over" /\ v.age = NoAge /\ client' = [client EXCEPT ![c] = v]
      BY <2>1 DEF Over, Answered
    <3> HIDE DEF v
    <3> QED BY <3>1, ClientsGoOn
  <2>2. CASE Waits(c, d)
    <3> DEFINE v == [at |-> "waiting", document |-> d]
    <3>1. v.at = "waiting" /\ client' = [client EXCEPT ![c] = v]
      BY <2>2 DEF Waits
    <3> HIDE DEF v
    <3> QED BY <3>1, ClientsGoOn
  <2> QED BY <2>1, <2>2
<1>4. /\ inFlight' \subseteq Documents /\ IsFiniteSet(inFlight')
      /\ upstream' \in [Kinds -> Int]
      /\ upstream'["getcapabilities"] = Cardinality(inFlight')
      /\ upstream'["getfeatureinfo"] = Cardinality(Asking)
  <2>0. /\ upstream["getcapabilities"] = Cardinality(inFlight)
        /\ upstream["getfeatureinfo"] = Cardinality(Asking)
        /\ inFlight \subseteq Documents /\ IsFiniteSet(inFlight) /\ upstream \in [Kinds -> Int]
    BY DEF ProxyInv, CacheIsSound, Asking
  <2>1. CASE UNCHANGED <<inFlight, upstream>>
    BY <2>0, <2>1
  <2>2. CASE d \notin inFlight /\ inFlight' = inFlight \cup {d} /\ Runs("getcapabilities", 1)
    <3>1. IsFiniteSet(inFlight') /\ Cardinality(inFlight') = Cardinality(inFlight) + 1
      BY <2>0, <2>2, FS_AddElement
    <3> QED BY <2>0, <2>2, <3>1 DEF Runs, Kinds
  <2> QED BY <2>1, <2>2
<1> QED BY <1>1, <1>2, <1>3, <1>4 DEF ProxyInv, CacheIsSound, Asking, Bytes

\* What the end of a download does to everything but the cache.
LEMMA DownloadEnds ==
  ASSUME ProxyInv, NEW d \in Documents, NEW age, Downloaded(d, age), age # NoAge => age = 0
  PROVE  /\ inFlight' \subseteq Documents /\ IsFiniteSet(inFlight)' /\ now' = now
         /\ upstream' \in [Kinds -> Int]
         /\ client' = [p \in Clients |-> client'[p]]
         /\ \A p \in Clients : client'[p].at = "over" /\ client'[p].age # NoAge => client'[p].age <= Day
         /\ upstream'["getcapabilities"] = Cardinality(inFlight)'
         /\ upstream'["getfeatureinfo"] = Cardinality({p \in Clients : client[p].at = "asking"})'
<1>0. /\ upstream["getcapabilities"] = Cardinality(inFlight)
      /\ upstream["getfeatureinfo"] = Cardinality(Asking)
      /\ inFlight \subseteq Documents /\ IsFiniteSet(inFlight) /\ upstream \in [Kinds -> Int]
  BY DEF ProxyInv, CacheIsSound, Asking
<1>1. /\ d \in inFlight /\ inFlight' = inFlight \ {d} /\ Runs("getcapabilities", -1)
      /\ client' = [p \in Clients |-> IF p \in WaitingFor(d) THEN Over(age) ELSE client[p]]
      /\ now' = now
  BY DEF Downloaded
<1>2. IsFiniteSet(inFlight') /\ Cardinality(inFlight') = Cardinality(inFlight) - 1
  BY <1>0, <1>1, FS_RemoveElement
<1>3. \A p \in Clients : client'[p] = IF p \in WaitingFor(d) THEN Over(age) ELSE client[p]
  BY <1>1
<1>4. \A p \in Clients : client'[p].at = "over" /\ client'[p].age # NoAge => client'[p].age <= Day
  BY <1>3, ProxyAssumption DEF Over, ProxyInv, CacheIsSound
<1>5. {p \in Clients : client'[p].at = "asking"} = Asking
  BY <1>3 DEF Asking, WaitingFor, Over
<1>6. /\ upstream' \in [Kinds -> Int] /\ upstream'["getfeatureinfo"] = upstream["getfeatureinfo"]
      /\ upstream'["getcapabilities"] = upstream["getcapabilities"] - 1
  BY <1>0, <1>1 DEF Runs, Kinds
<1> QED BY <1>0, <1>1, <1>2, <1>4, <1>5, <1>6

LEMMA FailureKeepsProxyInv ==
  ASSUME ProxyInv, NEW d \in Documents, IsFailure(d)
  PROVE  ProxyInv'
<1>1. Downloaded(d, NoAge) /\ UNCHANGED <<cache, cacheBytes>>
  BY DEF IsFailure
<1>2. CacheFits(cache)'
  BY <1>1 DEF ProxyInv, CacheFits
<1>3. cacheBytes' = Bytes(cache)' /\ cacheBytes' <= MaxCache
  BY <1>1 DEF ProxyInv, CacheIsSound, Bytes
<1> QED BY <1>1, <1>2, <1>3, DownloadEnds DEF ProxyInv, CacheIsSound

\* remember(): what is left after the eviction and the document fit.
LEMMA RememberFits ==
  ASSUME CacheFits(cache), NEW d \in Documents, cacheBytes = Bytes(cache), cacheBytes <= MaxCache,
         now \in Nat, Remember(d)
  PROVE  CacheFits(cache') /\ cacheBytes' = Bytes(cache') /\ cacheBytes' <= MaxCache
<1> DEFINE w == Without(d)
           e == [document |-> d, expires |-> now + Day, since |-> now]
<1>0. Size(d) \in Nat /\ Size(d) <= MaxCache /\ Day \in Nat /\ MaxCache \in Nat
  BY ProxyAssumption
<1>1. /\ CacheFits(w) /\ DocumentsOf(w) = DocumentsOf(cache) \ {d}
      /\ BytesWithout(d) = Bytes(w) /\ Bytes(w) \in Nat
  BY WithoutFits
<1>2. PICK gone \in 0..Len(w) :
        /\ Fits(d, gone)
        /\ cache' = Append(SubSeq(w, gone + 1, Len(w)), e) /\ cacheBytes' = BytesAfter(d, gone)
  BY Zenon DEF Remember
<1> DEFINE front == SubSeq(w, 1, gone)
           back  == SubSeq(w, gone + 1, Len(w))
<1>3. w \in Seq(CacheRow) /\ NoRepeats(w)
  BY <1>1 DEF CacheFits
<1>f. Fits(d, gone) <=> gone = Len(w) \/ BytesAfter(d, gone) <= MaxCache
  BY DEF Fits
<1>b. BytesAfter(d, gone) = BytesWithout(d) - Bytes(front) + Size(d)
  BY DEF BytesAfter
<1> HIDE DEF w
<1>4. /\ back \in Seq(CacheRow) /\ NoRepeats(back)
      /\ Elements(front) \cup Elements(back) = Elements(w)
      /\ Elements(front) \cap Elements(back) = {}
  BY <1>2, <1>3, CutFits
<1>5. gone = Len(w) => back = <<>>
  <2>1. Len(w) \in Nat
    BY <1>3, LenProperties
  <2> QED BY <2>1, SubSeqEmpty
<1> HIDE DEF front, back, e
<1>6. CacheFits(back)
  BY <1>1, <1>4, PartFits
<1>7. /\ DocumentsOf(front) \cup DocumentsOf(back) = DocumentsOf(w)
      /\ DocumentsOf(front) \cap DocumentsOf(back) = {}
  <2>1. \A x, y \in Elements(w) : x.document = y.document => x = y
    BY <1>1 DEF CacheFits
  <2> QED BY <1>4, <2>1, DocumentsOfElements
<1>8. Bytes(w) = Bytes(front) + Bytes(back) /\ Bytes(front) \in Nat /\ Bytes(back) \in Nat
  <2>1. IsFiniteSet(BytesOf(DocumentsOf(w)))
    BY <1>1 DEF CacheFits
  <2>2. IsFiniteSet(BytesOf(DocumentsOf(front))) /\ IsFiniteSet(BytesOf(DocumentsOf(back)))
    BY <1>7, <2>1, BytesOfPart
  <2> QED BY <1>7, <2>2, BytesAdd DEF Bytes
<1>9. d \notin DocumentsOf(back)
  BY <1>1, <1>7
<1>10. e \in CacheRow /\ e.document = d /\ e.expires = e.since + Day
  BY <1>0 DEF e, CacheRow
<1>11. /\ CacheFits(Append(back, e)) /\ Bytes(Append(back, e)) = Bytes(back) + Size(d)
  BY <1>6, <1>9, <1>10, AddFits
<1>12. cache' = Append(back, e)
  BY <1>2 DEF back
<1>13. cacheBytes' = Bytes(back) + Size(d)
  BY <1>0, <1>1, <1>2, <1>8, <1>b
<1>14. cacheBytes' <= MaxCache
  <2>1. CASE gone = Len(w)
    <3>1. Bytes(<<>>) = 0
      BY FS_EmptySet DEF Bytes, BytesOf, DocumentsOf
    <3> QED BY <1>0, <1>5, <1>13, <2>1, <3>1
  <2>2. CASE BytesAfter(d, gone) <= MaxCache
    BY <1>2, <2>2
  <2> QED BY <1>2, <1>f, <2>1, <2>2
<1> QED BY <1>11, <1>12, <1>13, <1>14

LEMMA DocumentKeepsProxyInv ==
  ASSUME ProxyInv, NEW d \in Documents, IsDocument(d)
  PROVE  ProxyInv'
<1>1. Downloaded(d, 0) /\ Remember(d)
  BY DEF IsDocument
<1>2. CacheFits(cache') /\ cacheBytes' = Bytes(cache') /\ cacheBytes' <= MaxCache
  BY <1>1, RememberFits DEF ProxyInv, CacheIsSound
<1>3. CacheFits(cache)' /\ cacheBytes' = Bytes(cache)'
  BY <1>2 DEF CacheFits, Bytes
<1> QED BY <1>1, <1>2, <1>3, DownloadEnds DEF ProxyInv, CacheIsSound

LEMMA InfoKeepsProxyInv ==
  ASSUME ProxyInv, NEW c \in Clients, NEW h, AskInfo(c, h) \/ InfoEnds(c)
  PROVE  ProxyInv'
<1>0. /\ upstream["getcapabilities"] = Cardinality(inFlight)
      /\ upstream["getfeatureinfo"] = Cardinality(Asking)
      /\ inFlight \subseteq Documents /\ IsFiniteSet(inFlight) /\ upstream \in [Kinds -> Int]
      /\ client = [p \in Clients |-> client[p]]
      /\ IsFiniteSet(Asking)
  <2>1. Asking \subseteq Clients
    BY DEF Asking
  <2> QED BY <2>1, ProxyAssumption, FS_Subset DEF ProxyInv, CacheIsSound, Asking
<1>1. CacheFits(cache)' /\ cacheBytes' = Bytes(cache)' /\ cacheBytes' <= MaxCache
  BY DEF ProxyInv, CacheFits, CacheIsSound, Bytes, AskInfo, InfoEnds
<1>2. now' = now /\ inFlight' = inFlight
  BY DEF AskInfo, InfoEnds
<1>3. CASE Ready(c) /\ Answered(c, NoAge) /\ UNCHANGED upstream
  <2> DEFINE v == Over(NoAge)
  <2>1. v.at = "over" /\ v.age = NoAge /\ client' = [client EXCEPT ![c] = v]
    BY <1>3 DEF Over, Answered
  <2> HIDE DEF v
  <2>2. /\ client' = [p \in Clients |-> client'[p]]
        /\ \A p \in Clients : client'[p].at = "over" /\ client'[p].age # NoAge => client'[p].age <= Day
        /\ {p \in Clients : client'[p].at = "asking"} = Asking
    BY <1>3, <2>1, ClientsGoOn
  <2> QED BY <1>0, <1>1, <1>2, <1>3, <2>2 DEF ProxyInv, CacheIsSound
<1>4. CASE /\ Ready(c) /\ client' = [client EXCEPT ![c] = [at |-> "asking", host |-> h]]
           /\ Runs("getfeatureinfo", 1)
  <2>1. \A p \in Clients : client'[p] = IF p = c THEN [at |-> "asking", host |-> h] ELSE client[p]
    BY <1>0, <1>4
  <2>2. {p \in Clients : client'[p].at = "asking"} = Asking \cup {c} /\ c \notin Asking
    BY <1>4, <2>1 DEF Asking, Ready
  <2>3. Cardinality(Asking \cup {c}) = Cardinality(Asking) + 1
    BY <1>0, <2>2, FS_AddElement
  <2>4. /\ upstream' \in [Kinds -> Int] /\ upstream'["getcapabilities"] = upstream["getcapabilities"]
        /\ upstream'["getfeatureinfo"] = upstream["getfeatureinfo"] + 1
    BY <1>0, <1>4 DEF Runs, Kinds
  <2>5. client' = [p \in Clients |-> client'[p]]
    BY <1>0, <1>4
  <2>6. \A p \in Clients : client'[p].at = "over" /\ client'[p].age # NoAge => client'[p].age <= Day
    BY <2>1 DEF ProxyInv, CacheIsSound
  <2> QED BY <1>0, <1>1, <1>2, <2>2, <2>3, <2>4, <2>5, <2>6 DEF ProxyInv, CacheIsSound
<1>5. CASE InfoEnds(c)
  <2>0. client[c].at = "asking" /\ Runs("getfeatureinfo", -1) /\ client' = [client EXCEPT ![c] = Over(NoAge)]
    BY <1>5 DEF InfoEnds, Answered
  <2>1. \A p \in Clients : client'[p] = IF p = c THEN Over(NoAge) ELSE client[p]
    BY <1>0, <2>0
  <2>2. {p \in Clients : client'[p].at = "asking"} = Asking \ {c} /\ c \in Asking
    BY <2>0, <2>1 DEF Asking, Over
  <2>3. Cardinality(Asking \ {c}) = Cardinality(Asking) - 1
    BY <1>0, <2>2, FS_RemoveElement
  <2>4. /\ upstream' \in [Kinds -> Int] /\ upstream'["getcapabilities"] = upstream["getcapabilities"]
        /\ upstream'["getfeatureinfo"] = upstream["getfeatureinfo"] - 1
    BY <1>0, <2>0 DEF Runs, Kinds
  <2>5. client' = [p \in Clients |-> client'[p]]
    BY <1>0, <2>0
  <2>6. \A p \in Clients : client'[p].at = "over" /\ client'[p].age # NoAge => client'[p].age <= Day
    BY <2>1 DEF ProxyInv, CacheIsSound, Over
  <2> QED BY <1>0, <1>1, <1>2, <2>2, <2>3, <2>4, <2>5, <2>6 DEF ProxyInv, CacheIsSound
<1> QED BY <1>3, <1>4, <1>5 DEF AskInfo

\* "Capabilities are cached for a day": the counters of the cache and of the
\* requests upstream are what they count, the cache stays within its size and
\* nobody is given what is older than a day, also when entries expire, are evicted
\* or come again (wmsProxyHandler.ts:238-284).
THEOREM CacheStaysSound == ProxySpec => []CacheIsSound
<1>1. ProxyInit => ProxyInv
  <2> SUFFICES ASSUME ProxyInit PROVE ProxyInv
    OBVIOUS
  <2>1. DocumentsOf(<<>>) = {} /\ Elements(<<>>) = {} /\ BytesOf({}) = {}
    BY DEF DocumentsOf, Elements, BytesOf
  <2>2. IsFiniteSet({}) /\ Cardinality({}) = 0
    BY FS_EmptySet
  <2>3. CacheFits(<<>>) /\ Bytes(<<>>) = 0
    <3>1. <<>> \in Seq(CacheRow) /\ NoRepeats(<<>>)
      BY DEF NoRepeats
    <3>2. IsFiniteSet(BytesOf(DocumentsOf(<<>>))) /\ Cardinality(BytesOf(DocumentsOf(<<>>))) = 0
      BY <2>1, <2>2, Zenon
    <3> QED BY <2>1, <3>1, <3>2 DEF CacheFits, Bytes
  <2>4. {c \in Clients : client[c].at = "asking"} = {}
    BY DEF ProxyInit
  <2>5. upstream \in [Kinds -> Int] /\ \A k \in Kinds : upstream[k] = 0
    BY DEF ProxyInit
  <2>6. CacheIsSound
    <3>1. upstream["getcapabilities"] = 0 /\ upstream["getfeatureinfo"] = 0
      BY <2>5 DEF Kinds
    <3>2. cacheBytes = Bytes(cache) /\ cacheBytes <= MaxCache
      BY <2>3, ProxyAssumption DEF ProxyInit
    <3>3. \A c \in Clients : client[c].at # "over"
      BY DEF ProxyInit
    <3>4. Cardinality(inFlight) = 0
      BY <2>2 DEF ProxyInit
    <3>5. Cardinality({c \in Clients : client[c].at = "asking"}) = 0
      BY <2>2, <2>4, Zenon
    <3> QED BY <3>1, <3>2, <3>3, <3>4, <3>5 DEF CacheIsSound
  <2> QED BY <2>2, <2>3, <2>5, <2>6 DEF ProxyInv, ProxyInit
<1>2. ProxyInv /\ [ProxyNext]_proxyVars => ProxyInv'
  <2> SUFFICES ASSUME ProxyInv, [ProxyNext]_proxyVars PROVE ProxyInv'
    OBVIOUS
  <2>1. CASE UNCHANGED <<cache, cacheBytes, inFlight, upstream, client>> /\ now' \in Nat
    <3>1. CacheFits(cache)' /\ Bytes(cache)' = Bytes(cache)
      BY <2>1 DEF ProxyInv, CacheFits, Bytes
    <3> QED BY <2>1, <3>1 DEF ProxyInv, CacheIsSound
  <2>2. CASE Tick
    BY <2>1, <2>2 DEF Tick, ProxyInv
  <2>3. CASE UNCHANGED proxyVars
    BY <2>1, <2>3 DEF proxyVars, ProxyInv
  <2>4. ASSUME NEW c \in Clients, NEW d \in Documents, Hit(c, d) \/ Miss(c, d) PROVE ProxyInv'
    BY <2>4, HitKeepsProxyInv, MissKeepsProxyInv
  <2>5. ASSUME NEW d \in Documents, IsDocument(d) \/ IsFailure(d) PROVE ProxyInv'
    BY <2>5, DocumentKeepsProxyInv, FailureKeepsProxyInv
  <2>6. ASSUME NEW c \in Clients, InfoEnds(c) \/ \E h \in Hosts : AskInfo(c, h) PROVE ProxyInv'
    BY <2>6, InfoKeepsProxyInv
  <2> QED BY <2>2, <2>3, <2>4, <2>5, <2>6 DEF ProxyNext
<1>3. ProxyInv => CacheIsSound
  BY DEF ProxyInv
<1> QED BY <1>1, <1>2, <1>3, PTL DEF ProxySpec
===============================================================================
