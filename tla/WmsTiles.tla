------------------------------- MODULE WmsTiles -------------------------------
(***************************************************************************)
(* Cached tiles of a WMS overlay (wmsTileHandler.ts): requests for a tile  *)
(* the disk lacks share one render of it, which enters the gate of its     *)
(* upstream host, asks the server, again when that is busy, and writes the *)
(* tile.  A user's request jumps the prerender's; a request whose client   *)
(* is gone leaves its render.  One host; a request is of one layer.        *)
(***************************************************************************)
EXTENDS Gate

CONSTANTS
  Reqs,   \* requests, each with the render it may have to start
  Tiles,  \* layer tiles (paths in the cache)
  Retries \* the number of RETRY_DELAYS

ASSUME WmsTilesAssumption ==
  /\ Retries \in Nat
  /\ Reqs \subseteq Renders

VARIABLES
  req,         \* requests: how far, the tile, whether the prerender's, the render
  render,      \* renders: how far, the tile, background, aborted, attempts
  current,     \* the map `renders`: the render of a tile
  cached,      \* tiles on disk and fresh
  unreachable  \* whether the host is backed off from

vars == <<gateVars, req, render, current, cached, unreachable>>

Init ==
  /\ InitGate
  /\ req = [q \in Reqs |-> [at |-> "idle"]]
  /\ render = [r \in Renders |-> [at |-> "idle"]]
  /\ current = [t \in Tiles |-> None]
  /\ cached = {}
  /\ unreachable = FALSE

\* A render that failed answers 502 or 503, one aborted 503.
Outcomes == {"image", "failed", "aborted"}
Settled(r) == render[r].at \in Outcomes
\* entry.started
Started(r) == render[r].at \in {"fetching", "sleeping", "requeued", "writing"}

\* The request's render, its promise awaited.
Joined(q, r) == req[q].at = "joined" /\ req[q].render = r

\* A settled render leaves the map, unless another took its place.
CurrentWithout(r) == [t \in Tiles |-> IF current[t] = r THEN None ELSE current[t]]

Settle(r, outcome) ==
  /\ render' = [render EXCEPT ![r] = [at |-> outcome]]
  /\ current' = CurrentWithout(r)

\* `table` with the slot handed over to `n`: a queued one has yet to run on, one
\* that asks again does so at once, and one that waits no more misses it.
Handed(table, n) ==
  IF n = None THEN table
  ELSE CASE render[n].at = "queued"   -> [table EXCEPT ![n].at = "handed"]
         [] render[n].at = "requeued" -> [table EXCEPT ![n].at = "fetching"]
         [] OTHER                     -> table

\* r leaves the gate and settles.
SettleAndLeave(r, outcome) ==
  /\ Leave
  /\ render' = Handed([render EXCEPT ![r] = [at |-> outcome]], NextInLine)
  /\ current' = CurrentWithout(r)

\* `table` with r aborted: out of its queue, or to find out when it runs on.
Aborted(table, r) ==
  CASE render[r].at = "queued" -> [table EXCEPT ![r] = [at |-> "aborted"]]
    [] render[r].at = "handed" -> [table EXCEPT ![r].aborted = TRUE]
    [] OTHER -> table

-------------------------------------------------------------------------------
(* Requests *)

\* The disk is read before the capabilities are waited for.
Ask(q) ==
  /\ req[q].at = "idle"
  /\ \E t \in Tiles, behind \in BOOLEAN :
       req' = [req EXCEPT ![q] = IF t \in cached THEN [at |-> "over"]
                ELSE [at |-> "missed", tile |-> t, background |-> behind]]
  /\ UNCHANGED <<gateVars, render, current, cached, unreachable>>

\* (mutation) a render that is running given up as well
GivesWayStarted(t, q) ==
  /\ current[t] # None
  /\ render[current[t]].background /\ ~req[q].background

\* "A user doesn't wait behind the background": its render gives way.
GivesWay(t, q) ==
  /\ current[t] # None
  /\ render[current[t]].background /\ ~req[q].background
  /\ ~Started(current[t])

Join(q, r) ==
  req' = [req EXCEPT ![q] = [at |-> "joined", render |-> r, background |-> @.background]]

JoinCurrent(q) ==
  /\ req[q].at = "missed"
  /\ current[req[q].tile] # None /\ ~GivesWay(req[q].tile, q)
  /\ Join(q, current[req[q].tile])
  /\ UNCHANGED <<gateVars, render, current, cached, unreachable>>

\* A render of its own, up to the first await: the host backed off from, a slot
\* had, the queue full or joined; the one that gives way has left it before.
StartRender(q) ==
  /\ req[q].at = "missed"
  /\ LET r == q
         t == req[q].tile
         old == current[t]
         table == IF old = None THEN render ELSE Aborted(render, old)
         ahead == IF old = None THEN waiting ELSE WaitingWithout(old)
         behind == IF old = None THEN background ELSE BackgroundWithout(old)
         priority == IF req[q].background THEN "background" ELSE "normal"
         created(at) == [at |-> at, tile |-> t, background |-> req[q].background,
                         aborted |-> FALSE, attempt |-> 0]
         goesOn(at) == /\ render' = [table EXCEPT ![r] = created(at)]
                       /\ current' = [current EXCEPT ![t] = r]
     IN /\ old = None \/ GivesWay(t, q)
        /\ \/ /\ unreachable \/ ~(SlotFree \/ Accepts(Len(ahead) + Len(behind), priority))
              /\ render' = [table EXCEPT ![r] = [at |-> "failed"]]
              /\ current' = [current EXCEPT ![t] = None]
              /\ waiting' = ahead /\ background' = behind /\ UNCHANGED running
           \/ /\ ~unreachable /\ SlotFree
              /\ goesOn("handed")
              /\ running' = running + 1 /\ waiting' = ahead /\ background' = behind
           \/ /\ ~unreachable /\ ~SlotFree /\ Accepts(Len(ahead) + Len(behind), priority)
              /\ goesOn("queued")
              /\ Queued(r, priority, ahead, behind) /\ UNCHANGED running
  /\ Join(q, q)
  /\ UNCHANGED <<cached, unreachable>>

Answer(q) ==
  /\ req[q].at = "joined" /\ Settled(req[q].render)
  /\ req' = [req EXCEPT ![q] = [at |-> "over"]]
  /\ UNCHANGED <<gateVars, render, current, cached, unreachable>>

\* --waiters === 0 && !started
LastToLeave(q, r) == ~Started(r) /\ \A p \in Reqs \ {q} : ~Joined(p, r)

\* The client is gone.
Close(q) ==
  /\ req[q].at \in {"missed", "joined"}
  /\ req' = [req EXCEPT ![q] = [at |-> "over"]]
  /\ IF req[q].at = "joined" /\ LastToLeave(q, req[q].render)
       THEN /\ render' = Aborted(render, req[q].render)
            /\ current' = CurrentWithout(req[q].render)
            /\ waiting' = WaitingWithout(req[q].render)
            /\ background' = BackgroundWithout(req[q].render)
       ELSE UNCHANGED <<render, current, waiting, background>>
  /\ UNCHANGED <<running, cached, unreachable>>

-------------------------------------------------------------------------------
(* Renders *)

\* (mutation) an aborted render that keeps the slot it was handed
AbandonWithSlot(r, outcome) == Settle(r, outcome) /\ UNCHANGED gateVars
Abandon(r, outcome) == SettleAndLeave(r, outcome)

\* "The last waiter may have left between the slot's handover and now, or the
\* host died while this waited."
Resume(r) ==
  /\ render[r].at = "handed"
  /\ \/ render[r].aborted /\ Abandon(r, "aborted")
     \/ ~render[r].aborted /\ unreachable /\ Abandon(r, "failed")
     \/ /\ ~render[r].aborted /\ ~unreachable
        /\ render' = [render EXCEPT ![r].at = "fetching"]
        /\ UNCHANGED <<gateVars, current>>
  /\ UNCHANGED <<req, cached, unreachable>>

\* A timeout of the queue, 60 s; none for the prerender's.
TimeOut(r) ==
  /\ render[r].at = "requeued" \/ (render[r].at = "queued" /\ ~render[r].background)
  /\ Settle(r, "failed")
  /\ waiting' = WaitingWithout(r)
  /\ UNCHANGED <<running, background, req, cached, unreachable>>

FetchTile(r) ==
  /\ render[r].at = "fetching"
  /\ Leave
  /\ render' = Handed([render EXCEPT ![r].at = "writing"], NextInLine)
  /\ UNCHANGED <<req, current, cached, unreachable>>

\* No image, or the last attempt; a host that is not there is backed off from.
FetchFails(r) ==
  /\ render[r].at = "fetching"
  /\ SettleAndLeave(r, "failed")
  /\ unreachable' \in {unreachable, TRUE}
  /\ UNCHANGED <<req, cached>>

\* ~last
MayRetry(r) == render[r].attempt < Retries

\* Failed in a way load explains: the slot is given up while it waits.
FetchTransient(r) ==
  /\ render[r].at = "fetching" /\ MayRetry(r)
  /\ Leave
  /\ render' = Handed([render EXCEPT ![r].at = "sleeping", ![r].attempt = @ + 1], NextInLine)
  /\ UNCHANGED <<req, current, cached, unreachable>>

WakeUp(r) ==
  /\ render[r].at = "sleeping"
  /\ \/ unreachable /\ Settle(r, "failed") /\ UNCHANGED gateVars
     \/ /\ ~unreachable /\ SlotFree
        /\ render' = [render EXCEPT ![r].at = "fetching"]
        /\ running' = running + 1
        /\ UNCHANGED <<waiting, background, current>>
     \/ /\ ~unreachable /\ ~SlotFree
        /\ render' = [render EXCEPT ![r].at = "requeued"]
        /\ Queued(r, "first", waiting, background)
        /\ UNCHANGED <<running, current>>
  /\ UNCHANGED <<req, cached, unreachable>>

\* "WMS tile not cached" is only logged.
Write(r) ==
  /\ render[r].at = "writing"
  /\ cached' \in {cached, cached \cup {render[r].tile}}
  /\ Settle(r, "image")
  /\ UNCHANGED <<gateVars, req, unreachable>>

-------------------------------------------------------------------------------
(* Time *)

\* A tile's days are over; sweep() deletes it.
Sweep(t) ==
  /\ t \in cached
  /\ cached' = cached \ {t}
  /\ UNCHANGED <<gateVars, req, render, current, unreachable>>

BackoffEnds ==
  /\ unreachable
  /\ unreachable' = FALSE
  /\ UNCHANGED <<gateVars, req, render, current, cached>>

RequestStep(q) == Answer(q) \/ JoinCurrent(q) \/ StartRender(q)
RenderStep(r) ==
  \/ Resume(r) \/ FetchTile(r) \/ FetchFails(r) \/ FetchTransient(r)
  \/ TimeOut(r) \/ WakeUp(r) \/ Write(r)

Next ==
  \/ \E q \in Reqs : Ask(q) \/ RequestStep(q) \/ Close(q)
  \/ \E r \in Renders : RenderStep(r)
  \/ \E t \in Tiles : Sweep(t)
  \/ BackoffEnds

\* A fetch ends in 30 s, timers fire, callbacks run.
Fairness ==
  /\ \A q \in Reqs : WF_vars(RequestStep(q))
  /\ \A r \in Renders : WF_vars(RenderStep(r))

Spec == Init /\ [][Next]_vars /\ Fairness

-------------------------------------------------------------------------------
(* What the tiles promise *)

RenderRecord ==
  [at: {"idle"} \cup Outcomes]
  \cup [at: {"queued", "handed", "fetching", "sleeping", "requeued", "writing"},
        tile: Tiles, background: BOOLEAN, aborted: BOOLEAN, attempt: 0..Retries]

RequestRecord ==
  [at: {"idle", "over"}]
  \cup [at: {"missed"}, tile: Tiles, background: BOOLEAN]
  \cup [at: {"joined"}, render: Renders, background: BOOLEAN]

\* Every variable stays within its type.
TypeOK ==
  /\ running \in Nat
  /\ waiting \in Seq(Renders) /\ background \in Seq(Renders)
  /\ req \in [Reqs -> RequestRecord]
  /\ render \in [Renders -> RenderRecord]
  /\ current \in [Tiles -> Renders \cup {None}]
  /\ cached \subseteq Tiles
  /\ unreachable \in BOOLEAN

Holding == {r \in Renders : render[r].at \in {"handed", "fetching"}}

\* "Renders at once per upstream host": never more than the slots, no slot is
\* lost or counted twice, whichever way a render leaves the gate, and nobody
\* waits while one is free.
SlotsAreHeld ==
  /\ running = Cardinality(Holding) /\ running <= Max
  /\ waiting # <<>> \/ background # <<>> => running = Max

\* "rendered once for all who ask": a tile is asked of the server by one render
\* at a time, also when a user's render took the place of the prerender's, and
\* only the prerender's requests see their render aborted while they wait.
RenderedOnce ==
  \A r, s \in Renders : Started(r) /\ Started(s) /\ render[r].tile = render[s].tile => r = s
UsersKeepTheirRender ==
  \A q \in Reqs, r \in Renders :
    /\ Joined(q, r) /\ ~req[q].background
    => /\ render[r].at # "aborted"
       /\ render[r].at = "handed" => ~render[r].aborted
RendersAreShared == RenderedOnce /\ UsersKeepTheirRender

\* Every request is answered, the prerender's too, which has no time limit.
EveryoneIsAnswered ==
  \A q \in Reqs : req[q].at \in {"missed", "joined"} ~> req[q].at \notin {"missed", "joined"}
===============================================================================
