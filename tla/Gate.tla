--------------------------------- MODULE Gate ---------------------------------
(***************************************************************************)
(* class Gate of wmsTileHandler.ts: a slot per running render of a host,   *)
(* handed on to the next waiting one.  Whoever uses it says what becomes   *)
(* of the renders; here are the counter and the two queues.                *)
(***************************************************************************)
EXTENDS Integers, Sequences, FiniteSets

CONSTANTS
  Renders,     \* those that may enter
  Max,         \* slots (PER_HOST)
  MaxWaiting,  \* MAX_WAITING
  None

ASSUME GateAssumption ==
  /\ Max \in Nat \ {0} /\ MaxWaiting \in Nat
  /\ None \notin Renders
  /\ IsFiniteSet(Renders)

VARIABLES running, waiting, background

gateVars == <<running, waiting, background>>

InitGate == running = 0 /\ waiting = <<>> /\ background = <<>>

Elements(q) == {q[i] : i \in DOMAIN q}

\* (mutation) a waiting one that gives up stays in its queue
SplicedNot(q, r) == q

\* queue.indexOf, queue.splice
Spliced(q, r) ==
  IF r \in Elements(q)
    THEN LET i == CHOOSE i \in DOMAIN q : q[i] = r
         IN SubSeq(q, 1, i - 1) \o SubSeq(q, i + 1, Len(q))
    ELSE q

\* done(false), at a timeout or an abort: `r` leaves the queue it is in.
WaitingWithout(r)    == Spliced(waiting, r)
BackgroundWithout(r) == Spliced(background, r)

SlotFree == running < Max

\* Whether `enter` queues, `queued` being those that wait.
Accepts(queued, priority) == priority = "first" \/ queued < MaxWaiting

\* The queues `ahead` and `behind` once `r` is in one.
Queued(r, priority, ahead, behind) ==
  /\ waiting' = CASE priority = "first"      -> <<r>> \o ahead
                  [] priority = "normal"     -> Append(ahead, r)
                  [] priority = "background" -> ahead
  /\ background' = IF priority = "background" THEN Append(behind, r) ELSE behind

\* Who gets the slot that is left.
NextInLine ==
  IF waiting # <<>> THEN Head(waiting)
  ELSE IF background # <<>> THEN Head(background) ELSE None

\* Without a next in line the slot is free, otherwise it is not counted free.
Leave ==
  /\ running' = IF NextInLine = None THEN running - 1 ELSE running
  /\ waiting' = IF waiting = <<>> THEN waiting ELSE Tail(waiting)
  /\ background' = IF waiting # <<>> \/ NextInLine = None THEN background ELSE Tail(background)
===============================================================================
