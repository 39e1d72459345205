--------------------------- MODULE EmailCodesProofs ---------------------------
(* What the email codes promise, for any numbers of requests, mailboxes,      *)
(* limits and windows: types, single use, spacing, what a code lets in for,   *)
(* the caps on guesses and on codes, and the life of the code asked for last. *)
EXTENDS EmailCodes, FiniteSetTheorems, TLAPS

\* Types as an induction needs them: a request past its start has its input.
Typed ==
  /\ TypeOK
  /\ \A s \in Sends : spc[s] # "idle" => asked[s] \in Request
  /\ \A c \in Checks : cpc[c] \notin {"idle", "failed"} => entered[c] \in Topic

LEMMA ExpiredIsRow ==
  ASSUME NEW row \in Row, NEW time \in Nat PROVE [row EXCEPT !.expireAt = time] \in Row
BY DEF Row

LEMMA TypedInit == Init => Typed
BY WindowsAssumption DEF Init, Typed, TypeOK, SendStates, CheckStates

\* No step of a send leaves the types.
LEMMA TypedSend ==
  ASSUME Typed, NEW s \in Sends, SendStep(s) PROVE Typed'
<1> USE WindowsAssumption DEF Typed, TypeOK, SendStates, checkVars
<1>1. CASE SendStart(s)
  <2>1. PICK topic \in Topic, ip \in Ips :
          /\ asked' = [asked EXCEPT ![s] =
                         [topic |-> topic, ip |-> ip, at |-> now, boot |-> boot]]
          /\ \/ /\ spc' = [spc EXCEPT ![s] = "insert"]
                /\ ipSlots' = ipSlots \cup {[send |-> s, ip |-> ip, at |-> now]}
             \/ /\ spc' = [spc EXCEPT ![s] = "failed"]
                /\ ipSlots' = ipSlots
    BY <1>1 DEF SendStart
  <2>2. [topic |-> topic, ip |-> ip, at |-> now, boot |-> boot] \in Request
    BY DEF Request
  <2>3. [send |-> s, ip |-> ip, at |-> now] \in IpSlot
    BY DEF IpSlot
  <2> QED BY <1>1, <2>1, <2>2, <2>3 DEF SendStart
<1>2. CASE SendInsert(s)
  <2>1. [topic |-> asked[s].topic, ip |-> asked[s].ip, createdAt |-> now,
         expireAt |-> now + Ttl, attempts |-> 0] \in Row
    BY <1>2 DEF SendInsert, Row, Request
  <2> QED BY <1>2, <2>1 DEF SendInsert
<1>3. CASE SendCount(s)
  BY <1>3 DEF SendCount
<1>4. CASE SendUndo(s)
  BY <1>4 DEF SendUndo, ReleaseIpSlot
<1>5. CASE SendMail(s)
  BY <1>5 DEF SendMail
<1>6. CASE SendVoid(s)
  <2>1. \A t \in Superseded(s) : [code[t] EXCEPT !.expireAt = now] \in Row
    BY DEF Superseded, Stored, Row
  <2> QED BY <1>6, <2>1 DEF SendVoid
<1>7. CASE SendDbFault(s)
  BY <1>7 DEF SendDbFault, ReleaseIpSlot
<1> QED
  BY <1>1, <1>2, <1>3, <1>4, <1>5, <1>6, <1>7 DEF SendStep

\* No step of a check leaves the types.
LEMMA TypedCheck ==
  ASSUME Typed, NEW c \in Checks, CheckStep(c) PROVE Typed'
<1> USE WindowsAssumption DEF Typed, TypeOK, CheckStates, CheckFails, sendVars
<1>1. CASE CheckStart(c)
  <2>1. \A topic \in Topic :
          [mailbox |-> topic.mailbox, check |-> c, nth |-> 0, at |-> now] \in GuessSlot
    BY DEF GuessSlot, Topic
  <2> QED BY <1>1, <2>1 DEF CheckStart
<1>2. CASE CheckLock(c)
  <2>1. \A s \in LiveFor(entered[c]) : [code[s] EXCEPT !.attempts = @ + 1] \in Row
    BY DEF LiveFor, Live, Stored, Row
  <2>2. LiveFor(entered[c]) \subseteq Sends
    BY DEF LiveFor
  <2> QED BY <1>2, <2>1, <2>2 DEF CheckLock
<1>3. CASE CheckCompare(c)
  <2>1. entered[c].mailbox \in Mailboxes
    BY <1>3 DEF CheckCompare, Topic
  <2>2. guessSlots' \subseteq GuessSlot
    <3>1. \A n \in 1..MaxGuesses :
            [mailbox |-> entered[c].mailbox, check |-> c, nth |-> n, at |-> now] \in GuessSlot
      BY <2>1 DEF GuessSlot
    <3> QED BY <1>3, <3>1 DEF CheckCompare, TakeExtraGuesses
  <2>3. \A s \in locked[c] :
          [check |-> c, row |-> s, mailbox |-> entered[c].mailbox,
           began |-> began[c], boot |-> boot] \in Comparison
    BY <2>1 DEF Comparison
  <2>4. compared' \subseteq Comparison
    BY <1>3, <2>3 DEF CheckCompare
  <2>5. Comparable(c) \subseteq Sends
    BY DEF Comparable
  <2> QED BY <1>3, <2>2, <2>4, <2>5 DEF CheckCompare
<1>4. CASE CheckSpend(c)
  <2>1. match[c] \in Stored => [code[match[c]] EXCEPT !.expireAt = now] \in Row
    BY DEF Stored, Row
  <2> QED BY <1>4, <2>1 DEF CheckSpend, Stored
<1>5. CASE CheckVoid(c)
  <2>1. \A s \in Stored : [code[s] EXCEPT !.expireAt = now] \in Row
    BY DEF Stored, Row
  <2> QED BY <1>5, <2>1 DEF CheckVoid
<1>6. CASE CheckDbFault(c)
  BY <1>6 DEF CheckDbFault
<1> QED
  BY <1>1, <1>2, <1>3, <1>4, <1>5, <1>6 DEF CheckStep

\* Neither do time, the daily clean-up and a restart.
LEMMA TypedEnvironment ==
  ASSUME Typed, Tick \/ CleanUp \/ Restart PROVE Typed'
<1> USE DEF Typed, TypeOK
<1>1. CASE Tick
  BY <1>1 DEF Tick, sendVars, checkVars
<1>2. CASE CleanUp
  BY <1>2 DEF CleanUp, sendVars, checkVars
<1>3. CASE Restart
  BY <1>3 DEF Restart, InFlight, Entering, SendStates, CheckStates
<1> QED BY <1>1, <1>2, <1>3

LEMMA TypedStep == Typed /\ [Next]_vars => Typed'
<1>1. Typed /\ UNCHANGED vars => Typed'
  BY DEF vars, sendVars, checkVars, Typed, TypeOK
<1> QED
  BY <1>1, TypedSend, TypedCheck, TypedEnvironment DEF Next

LEMMA AlwaysTyped == Spec => []Typed
BY TypedInit, TypedStep, PTL DEF Spec

\* The variables keep their types whatever the limits and the requests are.
THEOREM TypeCorrect == Spec => []TypeOK
<1>1. Typed => TypeOK
  BY DEF Typed
<1> QED BY <1>1, AlwaysTyped, PTL

-------------------------------------------------------------------------------
(* A code lets in once *)

\* A row belongs to a send that has inserted it, and only such rows are read
\* and matched: none of them is inserted again.
Inserted(s) == spc[s] \notin {"idle", "insert"}

RowsInserted ==
  /\ \A s \in Stored : Inserted(s)
  /\ \A c \in Checks : \A s \in locked[c] : Inserted(s)
  /\ \A c \in Checks : match[c] \in Sends => Inserted(match[c])

\* What lets a request in stays unusable: spent, or deleted after a day.
SpentForGood ==
  \A c \in Checks :
    Accepted(c) => /\ match[c] \in Sends
                   /\ match[c] \in Stored => ~Unexpired(match[c])

SpentInv == Typed /\ RowsInserted /\ SpentForGood /\ SpentOnce

LEMMA SpentInit == Init => SpentInv
BY TypedInit, NullsAssumption DEF Init, SpentInv, RowsInserted, SpentForGood, SpentOnce, Accepted,
                 Stored, Inserted

\* A send writes its own row once and otherwise only brings expiry forward.
LEMMA SpentSend ==
  ASSUME SpentInv, NEW s \in Sends, SendStep(s), Typed' PROVE SpentInv'
<1> USE WindowsAssumption DEF SpentInv, Typed, TypeOK, Accepted, Stored, Inserted, checkVars
<1>0. /\ \A t \in Sends : Inserted(t) => Inserted(t)'
      /\ \A t \in Sends : code'[t] # None /\ code[t] = None => t = s /\ spc[s] = "insert"
      /\ \A t \in Sends : code[t] # None /\ code'[t] # None
                            => code'[t].expireAt = code[t].expireAt \/ code'[t].expireAt = now
      /\ code'[s] # None => spc'[s] # "insert"
      /\ now' = now
  <2>1. CASE SendStart(s)
    BY <2>1 DEF SendStart, RowsInserted
  <2>2. CASE SendInsert(s)
    BY <2>2 DEF SendInsert, RowsInserted
  <2>3. CASE SendCount(s)
    BY <2>3 DEF SendCount
  <2>4. CASE SendUndo(s)
    BY <2>4 DEF SendUndo
  <2>5. CASE SendMail(s)
    BY <2>5 DEF SendMail
  <2>6. CASE SendVoid(s)
    BY <2>6 DEF SendVoid, Superseded, Row
  <2>7. CASE SendDbFault(s)
    BY <2>7 DEF SendDbFault, RowsInserted
  <2> QED BY <2>1, <2>2, <2>3, <2>4, <2>5, <2>6, <2>7 DEF SendStep
<1>1. UNCHANGED <<cpc, locked, match>>
  BY DEF SendStep, SendStart, SendInsert, SendCount, SendUndo, SendMail, SendVoid, SendDbFault
<1>2. RowsInserted'
  <2>1. \A t \in Sends : code'[t] # None => Inserted(t)'
    BY <1>0 DEF RowsInserted, SendStep, SendStart, SendInsert, SendCount, SendUndo,
                SendMail, SendVoid, SendDbFault
  <2> QED BY <1>0, <1>1, <2>1 DEF RowsInserted
<1>3. SpentForGood'
  BY <1>0, <1>1 DEF SpentForGood, RowsInserted, Unexpired, Row
<1>4. SpentOnce'
  BY <1>1 DEF SpentOnce
<1> QED BY <1>2, <1>3, <1>4

\* A check that fails forgets what it read and matched.
LEMMA FailingKeepsSpentInv ==
  ASSUME SpentInv, NEW c \in Checks, CheckFails(c), UNCHANGED <<now, code, spc>>, Typed'
  PROVE  SpentInv'
<1> USE DEF SpentInv, Typed, TypeOK, Accepted, Stored, Inserted
<1>1. /\ cpc' = [cpc EXCEPT ![c] = "failed"]
      /\ locked' = [locked EXCEPT ![c] = {}]
      /\ match' = [match EXCEPT ![c] = None]
  BY DEF CheckFails
<1>2. RowsInserted'
  BY <1>1, NullsAssumption DEF RowsInserted
<1>3. SpentForGood'
  BY <1>1 DEF SpentForGood, Unexpired
<1>4. SpentOnce'
  BY <1>1 DEF SpentOnce
<1> QED BY <1>2, <1>3, <1>4

\* A check that passes finds the matched row unexpired, which nobody let in
\* before can have left so.
LEMMA SpentCheck ==
  ASSUME SpentInv, NEW c \in Checks, CheckStep(c), Typed' PROVE SpentInv'
<1> USE WindowsAssumption DEF SpentInv, Typed, TypeOK, Accepted, Stored, Inserted, sendVars
<1>1. CASE CheckStart(c)
  <2>1. UNCHANGED <<now, code, spc>>
    BY <1>1 DEF CheckStart
  <2>2. CASE CheckFails(c)
    BY <2>1, <2>2, FailingKeepsSpentInv
  <2>3. CASE cpc' = [cpc EXCEPT ![c] = "lock"] /\ UNCHANGED <<locked, match>>
    <3>1. RowsInserted' /\ SpentOnce'
      BY <2>1, <2>3 DEF RowsInserted, SpentOnce
    <3>2. SpentForGood'
      BY <2>1, <2>3 DEF SpentForGood, Unexpired
    <3> QED BY <3>1, <3>2
  <2> QED BY <1>1, <2>2, <2>3 DEF CheckStart
<1>2. CASE CheckLock(c)
  <2>1. \A s \in Sends : code[s] # None /\ code'[s] # None
                           => code'[s].expireAt = code[s].expireAt
    BY <1>2 DEF CheckLock, LiveFor, Live, Row
  <2>2. RowsInserted'
    BY <1>2 DEF CheckLock, LiveFor, Live, RowsInserted
  <2>3. \A s \in Sends : code'[s] # None => code[s] # None
    BY <1>2 DEF CheckLock, LiveFor, Live
  <2>4. SpentForGood'
    BY <1>2, <2>1, <2>3 DEF CheckLock, SpentForGood, Unexpired
  <2> QED BY <1>2, <2>2, <2>4 DEF CheckLock, SpentOnce
<1>3. CASE CheckCompare(c)
  <2>1. UNCHANGED <<now, code, spc>>
    BY <1>3 DEF CheckCompare
  <2>2. CASE CheckFails(c)
    BY <2>1, <2>2, FailingKeepsSpentInv
  <2>3. CASE \E s \in Comparable(c) :
               /\ match' = [match EXCEPT ![c] = s]
               /\ cpc' = [cpc EXCEPT ![c] = "spend"]
               /\ locked' = [locked EXCEPT ![c] = {}]
    <3>1. PICK s \in locked[c] : /\ match' = [match EXCEPT ![c] = s]
                                 /\ cpc' = [cpc EXCEPT ![c] = "spend"]
                                 /\ locked' = [locked EXCEPT ![c] = {}]
      BY <2>3 DEF Comparable
    <3>2. RowsInserted'
      BY <2>1, <3>1 DEF RowsInserted
    <3>3. SpentForGood'
      BY <2>1, <3>1 DEF SpentForGood, Unexpired
    <3>4. SpentOnce'
      BY <3>1 DEF SpentOnce
    <3> QED BY <3>2, <3>3, <3>4
  <2> QED BY <1>3, <2>2, <2>3 DEF CheckCompare
<1>4. CASE CheckSpend(c)
  <2>1. CASE match[c] \in Stored /\ Unexpired(match[c])
    <3>1. /\ code' = [code EXCEPT ![match[c]].expireAt = now]
          /\ cpc' = [cpc EXCEPT ![c] = "void"]
          /\ UNCHANGED <<now, spc, locked, match>>
      BY <1>4, <2>1 DEF CheckSpend
    <3>2. /\ \A s \in Sends \ {match[c]} : code'[s] = code[s]
          /\ code[match[c]] \in Row
          /\ code'[match[c]] = [code[match[c]] EXCEPT !.expireAt = now]
      BY <2>1, <3>1
    <3>3. \A s \in Sends : code'[s] # None => code[s] # None
      BY <2>1, <3>2
    <3>4. code'[match[c]].expireAt = now
      BY <3>2 DEF Row
    <3>5. RowsInserted'
      BY <3>1, <3>3 DEF RowsInserted
    <3>6. \A d \in Checks : Accepted(d) => match[d] # match[c]
      BY <2>1 DEF SpentForGood
    <3>7. SpentForGood'
      BY <2>1, <3>1, <3>2, <3>4 DEF SpentForGood, Unexpired
    <3>8. SpentOnce'
      BY <3>1, <3>6 DEF SpentOnce
    <3> QED BY <3>5, <3>7, <3>8
  <2>2. CASE ~(match[c] \in Stored /\ Unexpired(match[c]))
    BY <1>4, <2>2, FailingKeepsSpentInv DEF CheckSpend
  <2> QED BY <2>1, <2>2
<1>5. CASE CheckVoid(c)
  <2>1. \A s \in Sends : code'[s] # None =>
          code[s] # None /\ (code'[s].expireAt = code[s].expireAt \/ code'[s].expireAt = now)
    BY <1>5 DEF CheckVoid, Row
  <2>2. RowsInserted'
    BY <1>5, <2>1 DEF CheckVoid, RowsInserted
  <2>3. SpentForGood'
    BY <1>5, <2>1 DEF CheckVoid, SpentForGood, Unexpired
  <2> QED BY <1>5, <2>2, <2>3 DEF CheckVoid, SpentOnce
<1>6. CASE CheckDbFault(c)
  BY <1>6, FailingKeepsSpentInv DEF CheckDbFault
<1> QED
  BY <1>1, <1>2, <1>3, <1>4, <1>5, <1>6 DEF CheckStep

LEMMA SpentEnvironment ==
  ASSUME SpentInv, Tick \/ CleanUp \/ Restart, Typed' PROVE SpentInv'
<1> USE WindowsAssumption, NullsAssumption
    DEF SpentInv, Typed, TypeOK, Accepted, Stored, Inserted, RowsInserted, SpentForGood,
        SpentOnce, Unexpired
<1>1. CASE Tick
  <2>1. \A s \in Sends : code[s] # None => code[s].expireAt \in Nat
    BY DEF Row
  <2> QED BY <1>1, <2>1 DEF Tick, sendVars, checkVars
<1>2. CASE CleanUp
  BY <1>2 DEF CleanUp, sendVars, checkVars
<1>3. CASE Restart
  BY <1>3 DEF Restart, InFlight, Entering, SendStates, CheckStates
<1> QED BY <1>1, <1>2, <1>3

LEMMA AlwaysSpentInv == Spec => []SpentInv
<1>1. SpentInv /\ [Next]_vars => SpentInv'
  <2> SUFFICES ASSUME SpentInv, [Next]_vars PROVE SpentInv'
    OBVIOUS
  <2>1. Typed'
    BY TypedStep DEF SpentInv
  <2>2. CASE UNCHANGED vars
    BY <2>1, <2>2 DEF vars, sendVars, checkVars, SpentInv, RowsInserted, SpentForGood,
                      SpentOnce, Accepted, Stored, Inserted, Unexpired
  <2> QED
    BY <2>1, <2>2, SpentSend, SpentCheck, SpentEnvironment DEF Next
<1> QED BY SpentInit, <1>1, PTL DEF Spec

\* No two requests are let in by the same code: the row is read by both, but
\* the conditional UPDATE finds it unexpired for one of them only.
THEOREM CodesAreSpentOnce == Spec => []SpentOnce
<1>1. SpentInv => SpentOnce
  BY DEF SpentInv
<1> QED BY <1>1, AlwaysSpentInv, PTL

-------------------------------------------------------------------------------
(* Limits on what goes out *)

LetGo(s) == s \in mailed \/ spc[s] = "mail"

\* SendSpacing from the moment the limits let a code go.
SpacedApprovals ==
  \A s, t \in Stored :
    /\ s # t /\ LetGo(s) /\ LetGo(t)
    /\ code[s].topic.mailbox = code[t].topic.mailbox
    /\ code[s].topic.purpose = code[t].topic.purpose
    => \/ code[s].createdAt + MinResend <= approvedAt[t]
       \/ code[t].createdAt + MinResend <= approvedAt[s]

\* A row is its send's request, and no mail goes out before the limits allow it.
RowsOwned ==
  /\ \A s \in Stored : code[s].topic = asked[s].topic /\ code[s].ip = asked[s].ip
  /\ \A s \in Sends : spc[s] \in {"idle", "insert", "count"} => s \notin mailed
  /\ \A s \in Stored : Inserted(s)

SendInv == Typed /\ RowsOwned /\ SpacedApprovals /\ OneLivePerRequester

LEMMA SendInvInit == Init => SendInv
BY TypedInit DEF Init, SendInv, RowsOwned, SpacedApprovals, OneLivePerRequester, Stored,
                 Live, LetGo

\* What every step but a send's own insert, count and closing update does to the
\* rows: keep or delete them, never make one live again.
RowsOnlyFade ==
  /\ now <= now'
  /\ \A t \in Sends : code'[t] # None =>
       /\ code[t] # None
       /\ code'[t].topic = code[t].topic /\ code'[t].ip = code[t].ip
       /\ code'[t].createdAt = code[t].createdAt
       /\ Live(t)' => Live(t)
  /\ approvedAt' = approvedAt
  /\ asked' = asked
  /\ \A t \in Sends : LetGo(t)' => LetGo(t)
  /\ mailed' \subseteq mailed \cup {t \in Sends : spc[t] = "mail"}
  /\ \A t \in Sends : /\ spc'[t] # spc[t] => spc'[t] \in {"void", "undo", "failed"}
                      /\ spc'[t] \in {"idle", "insert", "count"} => spc[t] = spc'[t]

LEMMA FadingKeepsSendInv ==
  ASSUME SendInv, RowsOnlyFade, Typed' PROVE SendInv'
<1> USE DEF SendInv, RowsOnlyFade, Stored
<1>1. RowsOwned'
  BY DEF RowsOwned, Inserted
<1>2. SpacedApprovals'
  BY DEF SpacedApprovals
<1>3. OneLivePerRequester'
  <2> SUFFICES ASSUME NEW s \in Sends, NEW t \in Sends, s # t,
                      spc'[s] = "sent", spc'[t] = "sent", Live(s)', Live(t)'
               PROVE  code'[s].topic # code'[t].topic \/ code'[s].ip # code'[t].ip
    BY DEF OneLivePerRequester
  <2>1. code'[s] # None /\ code'[t] # None
    BY DEF Live
  <2>2. Live(s) /\ Live(t) /\ spc[s] = "sent" /\ spc[t] = "sent"
    BY <2>1
  <2> QED BY <2>1, <2>2 DEF OneLivePerRequester
<1> QED BY <1>1, <1>2, <1>3

LEMMA ChecksFade ==
  ASSUME SendInv, NEW c \in Checks, CheckStep(c), Typed' PROVE RowsOnlyFade
<1> USE WindowsAssumption DEF SendInv, Typed, TypeOK, sendVars, RowsOnlyFade, Live, Stored,
                              Unexpired, LetGo, Row
<1>1. CASE CheckStart(c)
  BY <1>1 DEF CheckStart
<1>2. CASE CheckLock(c)
  BY <1>2 DEF CheckLock, LiveFor
<1>3. CASE CheckCompare(c)
  BY <1>3 DEF CheckCompare
<1>4. CASE CheckSpend(c)
  BY <1>4 DEF CheckSpend
<1>5. CASE CheckVoid(c)
  BY <1>5 DEF CheckVoid
<1>6. CASE CheckDbFault(c)
  BY <1>6 DEF CheckDbFault
<1> QED BY <1>1, <1>2, <1>3, <1>4, <1>5, <1>6 DEF CheckStep

LEMMA EnvironmentFades ==
  ASSUME SendInv, Tick \/ CleanUp \/ Restart, Typed' PROVE RowsOnlyFade
<1> USE WindowsAssumption DEF SendInv, Typed, TypeOK, sendVars, checkVars, RowsOnlyFade,
                              Live, Stored, Unexpired, LetGo, Row
<1>1. CASE Tick
  BY <1>1 DEF Tick
<1>2. CASE CleanUp
  BY <1>2 DEF CleanUp
<1>3. CASE Restart
  BY <1>3 DEF Restart, InFlight, SendStates
<1> QED BY <1>1, <1>2, <1>3

LEMMA SendsKeepSendInv ==
  ASSUME SendInv, NEW s \in Sends, SendStep(s), Typed' PROVE SendInv'
<1> USE WindowsAssumption DEF SendInv, Typed, TypeOK, checkVars
<1>1. CASE SendStart(s)
  BY <1>1 DEF SendStart, RowsOwned, SpacedApprovals, OneLivePerRequester, Live, Stored,
              LetGo, Inserted, Unexpired
<1>2. CASE SendInsert(s)
  <2>1. /\ \A t \in Sends \ {s} : code'[t] = code[t] /\ spc'[t] = spc[t]
        /\ code'[s].topic = asked[s].topic /\ code'[s].ip = asked[s].ip
        /\ spc'[s] = "count" /\ spc[s] = "insert"
        /\ UNCHANGED <<now, asked, approvedAt, mailed>>
    BY <1>2 DEF SendInsert
  <2>2. RowsOwned'
    BY <2>1 DEF RowsOwned, Stored, Inserted
  <2>3. SpacedApprovals'
    BY <2>1, <2>2 DEF SpacedApprovals, RowsOwned, Stored, LetGo
  <2>4. OneLivePerRequester'
    <3> SUFFICES ASSUME NEW x \in Sends, NEW y \in Sends, x # y,
                        spc'[x] = "sent", spc'[y] = "sent", Live(x)', Live(y)'
                 PROVE  code'[x].topic # code'[y].topic \/ code'[x].ip # code'[y].ip
      BY DEF OneLivePerRequester
    <3>1. x # s /\ y # s
      BY <2>1
    <3> QED BY <2>1, <3>1 DEF OneLivePerRequester, Live, Stored, Unexpired
  <2> QED BY <2>2, <2>3, <2>4
<1>3. CASE SendCount(s)
  <2>1. /\ UNCHANGED <<now, code, asked, mailed>>
        /\ spc[s] = "count" /\ spc'[s] \in {"mail", "undo"}
        /\ \A t \in Sends \ {s} : spc'[t] = spc[t] /\ approvedAt'[t] = approvedAt[t]
    BY <1>3 DEF SendCount
  <2>2. RowsOwned'
    BY <2>1 DEF RowsOwned, Stored, Inserted
  <2>3. OneLivePerRequester'
    BY <2>1 DEF OneLivePerRequester, Live, Stored, Unexpired
  <2>4. ASSUME LetGo(s)', NEW t \in Stored \ {s}, s \in Stored,
               code[s].topic.mailbox = code[t].topic.mailbox,
               code[s].topic.purpose = code[t].topic.purpose
        PROVE  code[t].createdAt + MinResend <= approvedAt'[s]
    <3>1. spc'[s] = "mail"
      BY <2>1, <2>4 DEF LetGo, RowsOwned
    <3>2. TooSoonAfter(s) = {} /\ approvedAt'[s] = now
      BY <1>3, <3>1 DEF SendCount, WithinLimits
    <3>3. code[t].createdAt \in Nat
      BY DEF Stored, Row
    <3>4. code[t].createdAt + MinResend <= now
      <4> SUFFICES ASSUME code[t].createdAt + MinResend > now PROVE FALSE
        BY <3>3 DEF Stored
      <4>1. Recent(code[t].createdAt, MinResend) /\ Recent(code[t].createdAt, Hour)
        BY <3>3 DEF Recent
      <4>2. t \in TooSoonAfter(s)
        BY <2>4, <4>1 DEF TooSoonAfter, CountedWith
      <4> QED BY <3>2, <4>2
    <3> QED BY <3>2, <3>4
  <2>5. SpacedApprovals'
    <3> SUFFICES ASSUME NEW x \in Stored', NEW y \in Stored', x # y, LetGo(x)', LetGo(y)',
                        code'[x].topic.mailbox = code'[y].topic.mailbox,
                        code'[x].topic.purpose = code'[y].topic.purpose
                 PROVE  \/ code'[x].createdAt + MinResend <= approvedAt'[y]
                        \/ code'[y].createdAt + MinResend <= approvedAt'[x]
      BY DEF SpacedApprovals
    <3>1. x \in Stored /\ y \in Stored /\ code' = code
      BY <2>1 DEF Stored
    <3>2. CASE x = s
      BY <2>4, <3>1, <3>2
    <3>3. CASE y = s
      BY <2>4, <3>1, <3>3
    <3>4. CASE x # s /\ y # s
      BY <2>1, <3>1, <3>4 DEF SpacedApprovals, LetGo, Stored
    <3> QED BY <3>2, <3>3, <3>4
  <2> QED BY <2>2, <2>3, <2>5
<1>4. CASE SendVoid(s)
  <2>1. /\ UNCHANGED <<now, asked, approvedAt, mailed>>
        /\ spc[s] = "void" /\ spc' = [spc EXCEPT ![s] = "sent"]
        /\ code' = [t \in Sends |-> IF t \in Superseded(s)
                                      THEN [code[t] EXCEPT !.expireAt = now]
                                      ELSE code[t]]
    BY <1>4 DEF SendVoid
  <2>2. \A t \in Sends :
          /\ t \in Superseded(s) => ~Live(t)'
          /\ t \notin Superseded(s) => code'[t] = code[t]
          /\ code'[t] # None => /\ code[t] # None
                                /\ code'[t].topic = code[t].topic
                                /\ code'[t].ip = code[t].ip
                                /\ code'[t].createdAt = code[t].createdAt
    BY <2>1 DEF Superseded, Live, Unexpired, Stored, Row
  <2>3. RowsOwned'
    BY <2>1, <2>2 DEF RowsOwned, Stored, Inserted
  <2>4. SpacedApprovals'
    BY <2>1, <2>2 DEF SpacedApprovals, Stored, LetGo
  <2>5. OneLivePerRequester'
    <3> SUFFICES ASSUME NEW x \in Sends, NEW y \in Sends, x # y,
                        spc'[x] = "sent", spc'[y] = "sent", Live(x)', Live(y)'
                 PROVE  code'[x].topic # code'[y].topic \/ code'[x].ip # code'[y].ip
      BY DEF OneLivePerRequester
    <3>1. /\ code'[x] = code[x] /\ code'[y] = code[y]
          /\ Live(x) /\ Live(y)
      BY <2>1, <2>2 DEF Live, Unexpired, Stored
    <3>2. \A t \in Sends \ {s} :
            Live(t) /\ Live(t)' => code[t].topic # asked[s].topic \/ code[t].ip # asked[s].ip
      BY <2>2 DEF Superseded, Live
    <3>3. s \in Stored => code[s].topic = asked[s].topic /\ code[s].ip = asked[s].ip
      BY DEF RowsOwned
    <3>4. CASE x = s \/ y = s
      BY <3>1, <3>2, <3>3, <3>4 DEF Live
    <3>5. CASE x # s /\ y # s
      BY <2>1, <3>1, <3>5 DEF OneLivePerRequester
    <3> QED BY <3>4, <3>5
  <2> QED BY <2>3, <2>4, <2>5
<1>5. ASSUME SendUndo(s) \/ SendMail(s) \/ SendDbFault(s) PROVE RowsOnlyFade
  BY <1>5 DEF SendUndo, SendMail, SendDbFault, RowsOnlyFade, Live, Stored, Unexpired, LetGo
<1> QED
  BY <1>1, <1>2, <1>3, <1>4, <1>5, FadingKeepsSendInv DEF SendStep

LEMMA AlwaysSendInv == Spec => []SendInv
<1>1. SendInv /\ [Next]_vars => SendInv'
  <2> SUFFICES ASSUME SendInv, [Next]_vars PROVE SendInv'
    OBVIOUS
  <2>1. Typed'
    BY TypedStep DEF SendInv
  <2>2. CASE UNCHANGED vars
    BY <2>1, <2>2 DEF vars, sendVars, checkVars, SendInv, RowsOwned, SpacedApprovals,
                      OneLivePerRequester, Live, Stored, Unexpired, LetGo, Inserted
  <2> QED
    BY <2>1, <2>2, SendsKeepSendInv, ChecksFade, EnvironmentFades, FadingKeepsSendInv DEF Next
<1> QED BY SendInvInit, <1>1, PTL DEF Spec

\* Of parallel sends for one mailbox and purpose never more than one per
\* MinResend goes out, because each row is inserted before its send counts.
THEOREM SendsAreSpaced == Spec => []SendSpacing
<1>1. SendInv => SendSpacing
  BY DEF SendInv, SpacedApprovals, SendSpacing, WentOut, LetGo
<1> QED BY <1>1, AlwaysSendInv, PTL

\* Of one requester's completed sends at most one is live: whichever completes
\* later has expired the other.
THEOREM OneLiveCode == Spec => []OneLivePerRequester
<1>1. SendInv => OneLivePerRequester
  BY DEF SendInv
<1> QED BY <1>1, AlwaysSendInv, PTL

-------------------------------------------------------------------------------
(* What a code lets in for *)

\* What every step does to the rows: a send inserts its own, every other row
\* stays, goes, is counted at or expires sooner.
RowsKept ==
  /\ now <= now' /\ boot <= boot' /\ compared \subseteq compared'
  /\ \A s \in Sends : /\ Inserted(s) => Inserted(s)'
                      /\ spc[s] # "idle" => asked'[s] = asked[s]
  /\ \A s \in Sends : code'[s] # None =>
       \/ /\ spc[s] = "insert" /\ spc'[s] = "count" /\ now' = now
          /\ code'[s].createdAt = now /\ code'[s].expireAt = now + Ttl
          /\ code'[s].attempts = 0
       \/ /\ s \in Stored
          /\ code'[s].topic = code[s].topic /\ code'[s].ip = code[s].ip
          /\ code'[s].createdAt = code[s].createdAt
          /\ code'[s].expireAt <= code[s].expireAt
          /\ code[s].attempts <= code'[s].attempts

LEMMA SendsKeepRows ==
  ASSUME Typed, RowsInserted, NEW s \in Sends, SendStep(s) PROVE RowsKept
<1> USE WindowsAssumption DEF Typed, TypeOK, RowsKept, Stored, Inserted, Row, RowsInserted,
                              checkVars
<1>1. CASE SendStart(s)
  BY <1>1 DEF SendStart
<1>2. CASE SendInsert(s)
  BY <1>2 DEF SendInsert
<1>3. CASE SendCount(s)
  BY <1>3 DEF SendCount
<1>4. CASE SendUndo(s)
  BY <1>4 DEF SendUndo
<1>5. CASE SendMail(s)
  BY <1>5 DEF SendMail
<1>6. CASE SendVoid(s)
  BY <1>6 DEF SendVoid, Superseded, Unexpired
<1>7. CASE SendDbFault(s)
  BY <1>7 DEF SendDbFault
<1> QED BY <1>1, <1>2, <1>3, <1>4, <1>5, <1>6, <1>7 DEF SendStep

LEMMA ChecksKeepRows ==
  ASSUME Typed, RowsInserted, NEW c \in Checks, CheckStep(c) PROVE RowsKept
<1> USE WindowsAssumption DEF Typed, TypeOK, RowsKept, Stored, Inserted, Row, RowsInserted,
                              sendVars
<1>1. CASE CheckStart(c)
  BY <1>1 DEF CheckStart
<1>2. CASE CheckLock(c)
  BY <1>2 DEF CheckLock, LiveFor, Live
<1>3. CASE CheckCompare(c)
  BY <1>3 DEF CheckCompare
<1>4. CASE CheckSpend(c)
  BY <1>4 DEF CheckSpend, Unexpired
<1>5. CASE CheckVoid(c)
  BY <1>5 DEF CheckVoid, Unexpired
<1>6. CASE CheckDbFault(c)
  BY <1>6 DEF CheckDbFault
<1> QED BY <1>1, <1>2, <1>3, <1>4, <1>5, <1>6 DEF CheckStep

LEMMA StepsKeepRows ==
  ASSUME Typed, RowsInserted, [Next]_vars PROVE RowsKept
<1> USE DEF Typed, TypeOK, RowsKept, Stored, Inserted, Row, RowsInserted, sendVars, checkVars
<1>1. CASE Tick
  BY <1>1 DEF Tick
<1>2. CASE CleanUp
  BY <1>2 DEF CleanUp
<1>3. CASE Restart
  BY <1>3 DEF Restart, InFlight, SendStates
<1>4. CASE UNCHANGED vars
  BY <1>4 DEF vars
<1> QED BY <1>1, <1>2, <1>3, <1>4, SendsKeepRows, ChecksKeepRows DEF Next

\* No row is younger than now or lives longer than Ttl.
RowsAged ==
  \A s \in Stored : /\ code[s].createdAt <= now
                    /\ code[s].expireAt <= code[s].createdAt + Ttl

\* What a check holds is of the topic it was entered for, and was compared in
\* the process that keyed it.
Due(c) ==
  /\ cpc[c] # "compare" => locked[c] = {}
  /\ \A s \in locked[c] : asked[s].topic = entered[c]
  /\ cpc[c] \in {"spend", "void", "passed"} =>
       /\ match[c] \in Sends
       /\ asked[match[c]].topic = entered[c]
       /\ \E x \in compared : /\ x.check = c /\ x.row = match[c]
                              /\ x.boot = asked[match[c]].boot

HeldIsDue ==
  /\ \A c \in Checks : Due(c)
  /\ \A x \in compared : Inserted(x.row)

\* A code that let someone in was brought to expire before its time.
CutShort ==
  \A c \in Checks : Accepted(c) /\ match[c] \in Stored =>
    code[match[c]].expireAt < code[match[c]].createdAt + Ttl

DueInv == SendInv /\ SpentInv /\ RowsAged /\ HeldIsDue /\ CutShort

LEMMA DueInit == Init => DueInv
BY SendInvInit, SpentInit
   DEF Init, DueInv, RowsAged, HeldIsDue, Due, CutShort, Stored, Accepted

LEMMA RowsStayAged ==
  ASSUME Typed, Typed', RowsKept, RowsAged PROVE RowsAged'
BY WindowsAssumption DEF Typed, TypeOK, RowsKept, RowsAged, Stored, Row

\* Only the checks' own steps and a restart touch their variables.
LEMMA OneStepOf ==
  [Next]_vars => \/ \E c \in Checks : CheckStep(c)
                 \/ UNCHANGED checkVars
                 \/ Restart
BY DEF Next, SendStep, SendStart, SendInsert, SendCount, SendUndo, SendMail, SendVoid,
       SendDbFault, Tick, CleanUp, vars

\* A check that holds no more than it did stays with what is due.
LEMMA DueStays ==
  ASSUME Typed, RowsInserted, RowsKept, NEW c \in Checks, Due(c),
         cpc'[c] = cpc[c] \/ (cpc[c] \in {"spend", "void"} /\ cpc'[c] \in {"void", "passed"}),
         locked'[c] = locked[c], entered'[c] = entered[c], match'[c] = match[c]
  PROVE  Due(c)'
BY DEF Typed, TypeOK, RowsInserted, RowsKept, Due, Inserted

LEMMA FailingIsDue ==
  ASSUME Typed, NEW c \in Checks, CheckFails(c) PROVE Due(c)'
BY DEF Typed, TypeOK, CheckFails, Due

LEMMA ChecksHoldWhatIsDue ==
  ASSUME DueInv, RowsKept, NEW c \in Checks, CheckStep(c) PROVE HeldIsDue'
<1> USE DEF DueInv, SendInv, SpentInv, Typed, TypeOK
<1>1. /\ UNCHANGED <<spc, asked>>
      /\ \A d \in Checks \ {c} : /\ cpc'[d] = cpc[d] /\ entered'[d] = entered[d]
                                /\ locked'[d] = locked[d] /\ match'[d] = match[d]
  BY DEF CheckStep, CheckStart, CheckLock, CheckCompare, CheckSpend, CheckVoid,
         CheckDbFault, CheckFails, sendVars
<1>2. ASSUME NEW d \in Checks \ {c} PROVE Due(d)'
  <2>1. Due(d)
    BY DEF HeldIsDue
  <2> QED BY <1>1, <2>1 DEF Due, RowsKept, RowsInserted, Inserted
<1>3. ASSUME compared' = compared PROVE \A x \in compared' : Inserted(x.row)'
  BY <1>1, <1>3 DEF HeldIsDue, Inserted
<1>4. Due(c)
  BY DEF HeldIsDue
<1>5. Due(c)' /\ \A x \in compared' : Inserted(x.row)'
  <2>1. CASE CheckStart(c)
    <3>1. CASE CheckFails(c)
      BY <1>3, <2>1, <3>1, FailingIsDue DEF CheckStart
    <3>2. CASE cpc[c] = "idle" /\ cpc'[c] = "lock" /\ UNCHANGED <<locked, match>>
      BY <1>3, <1>4, <2>1, <3>2 DEF CheckStart, Due
    <3> QED BY <2>1, <3>1, <3>2 DEF CheckStart
  <2>2. CASE CheckLock(c)
    <3>1. /\ locked'[c] = LiveFor(entered[c]) /\ cpc'[c] = "compare"
          /\ entered'[c] = entered[c]
      BY <2>2 DEF CheckLock
    <3>2. \A s \in LiveFor(entered[c]) : asked[s].topic = entered[c]
      BY DEF LiveFor, Live, RowsOwned
    <3> QED BY <1>1, <1>3, <2>2, <3>1, <3>2 DEF CheckLock, Due
  <2>3. CASE CheckCompare(c)
    <3>1. \A x \in compared' : Inserted(x.row)'
      BY <1>1, <2>3 DEF CheckCompare, HeldIsDue, RowsInserted, Inserted
    <3>2. CASE CheckFails(c)
      BY <3>1, <3>2, FailingIsDue
    <3>3. CASE ~CheckFails(c)
      <4>1. PICK s \in Comparable(c) :
              /\ match' = [match EXCEPT ![c] = s]
              /\ cpc' = [cpc EXCEPT ![c] = "spend"]
              /\ locked' = [locked EXCEPT ![c] = {}]
              /\ UNCHANGED entered
        BY <2>3, <3>3 DEF CheckCompare
      <4>2. [check |-> c, row |-> s, mailbox |-> entered[c].mailbox,
             began |-> began[c], boot |-> boot] \in compared'
        BY <2>3, <3>3 , <4>1 DEF CheckCompare, Comparable
      <4>3. /\ s \in Sends /\ asked[s].topic = entered[c] /\ asked[s].boot = boot
        BY <1>4 DEF Comparable, Due
      <4> QED BY <1>1, <3>1, <4>1, <4>2, <4>3 DEF Due
    <3> QED BY <3>2, <3>3
  <2>4. CASE CheckSpend(c)
    <3>1. CASE CheckFails(c)
      BY <1>3, <2>4, <3>1, FailingIsDue DEF CheckSpend
    <3>2. CASE ~CheckFails(c)
      BY <1>3, <1>4, <2>4, <3>2, DueStays DEF CheckSpend
    <3> QED BY <3>1, <3>2
  <2>5. CASE CheckVoid(c)
    BY <1>3, <1>4, <2>5, DueStays DEF CheckVoid
  <2>6. CASE CheckDbFault(c)
    BY <1>3, <2>6, FailingIsDue DEF CheckDbFault
  <2> QED BY <2>1, <2>2, <2>3, <2>4, <2>5, <2>6 DEF CheckStep
<1> QED BY <1>2, <1>5 DEF HeldIsDue

LEMMA OthersHoldWhatIsDue ==
  ASSUME DueInv, RowsKept,
         UNCHANGED checkVars \/ Restart
  PROVE  HeldIsDue'
<1> USE DEF DueInv, SendInv, SpentInv
<1>1. compared' = compared
  BY DEF checkVars, Restart
<1>2. \A x \in compared' : Inserted(x.row)'
  BY <1>1 DEF HeldIsDue, RowsKept, Comparison, Typed, TypeOK
<1>3. CASE UNCHANGED checkVars
  <2>1. ASSUME NEW d \in Checks PROVE Due(d)'
    <3>1. Due(d)
      BY DEF HeldIsDue
    <3> QED BY <1>3, <3>1 DEF checkVars, Due, RowsKept, RowsInserted, Inserted, Typed, TypeOK
  <2> QED BY <1>2, <2>1 DEF HeldIsDue
<1>4. CASE Restart
  <2> SUFFICES ASSUME NEW c \in Checks PROVE Due(c)'
    BY <1>2 DEF HeldIsDue
  <2> USE DEF Typed, TypeOK
  <2>1. locked'[c] = {} /\ asked' = asked
    BY <1>4 DEF Restart
  <2>2. CASE Entering(c)
    BY <1>4, <2>1, <2>2 DEF Restart, Due
  <2>3. CASE ~Entering(c)
    BY <1>1, <1>4, <2>1, <2>3 DEF Restart, Due, HeldIsDue
  <2> QED BY <2>2, <2>3
<1> QED BY <1>3, <1>4

LEMMA CutShortStays ==
  ASSUME DueInv, RowsKept, [Next]_vars, Typed' PROVE CutShort'
<1> USE DEF DueInv, SendInv, SpentInv, Typed, TypeOK
<1> SUFFICES ASSUME NEW c \in Checks, Accepted(c)', match'[c] \in Stored'
             PROVE  code'[match'[c]].expireAt < code'[match'[c]].createdAt + Ttl
  BY DEF CutShort
<1>1. CASE Accepted(c) /\ match'[c] = match[c]
  <2>1. match[c] \in Sends /\ Inserted(match[c])
    BY <1>1 DEF SpentForGood, RowsInserted
  <2>2. /\ match[c] \in Stored
        /\ code'[match[c]].createdAt = code[match[c]].createdAt
        /\ code'[match[c]].expireAt <= code[match[c]].expireAt
    BY <1>1, <2>1 DEF RowsKept, Stored, Inserted
  <2>3. /\ code[match[c]] \in Row /\ code'[match[c]] \in Row
    BY <1>1, <2>1, <2>2 DEF Stored
  <2> QED BY <1>1, <2>2, <2>3, WindowsAssumption DEF CutShort, Row
<1>2. CASE CheckSpend(c) /\ cpc'[c] = "void"
  <2>1. /\ match[c] \in Stored /\ Unexpired(match[c])
        /\ code' = [code EXCEPT ![match[c]].expireAt = now]
        /\ match' = match
    BY <1>2 DEF CheckSpend, CheckFails
  <2>2. code[match[c]] \in Row /\ match[c] \in Sends
    BY <2>1 DEF Stored
  <2>3. /\ code'[match[c]].expireAt = now
        /\ code'[match[c]].createdAt = code[match[c]].createdAt
    BY <2>1, <2>2 DEF Row
  <2>4. now < code[match[c]].createdAt + Ttl
    BY <2>1, <2>2, WindowsAssumption DEF RowsAged, Unexpired, Row
  <2> QED BY <2>1, <2>3, <2>4
<1>3. (Accepted(c) /\ match'[c] = match[c]) \/ (CheckSpend(c) /\ cpc'[c] = "void")
  <2>1. CASE UNCHANGED checkVars
    BY <2>1 DEF Accepted, checkVars
  <2>2. CASE Restart
    BY <2>2 DEF Restart, Entering, Accepted
  <2>3. ASSUME NEW d \in Checks, CheckStep(d)
        PROVE  (Accepted(c) /\ match'[c] = match[c]) \/ (CheckSpend(c) /\ cpc'[c] = "void")
    BY <2>3 DEF CheckStep, CheckStart, CheckLock, CheckCompare, CheckSpend, CheckVoid,
                CheckDbFault, CheckFails, Accepted
  <2> QED BY <2>1, <2>2, <2>3, OneStepOf
<1> QED BY <1>1, <1>2, <1>3

LEMMA AlwaysDueInv == Spec => []DueInv
<1>1. DueInv /\ SendInv' /\ SpentInv' /\ [Next]_vars => DueInv'
  <2> SUFFICES ASSUME DueInv, SendInv', SpentInv', [Next]_vars PROVE DueInv'
    OBVIOUS
  <2> USE DEF DueInv
  <2>1. Typed /\ Typed' /\ RowsInserted
    BY DEF SpentInv
  <2>2. RowsKept
    BY <2>1, StepsKeepRows
  <2>3. RowsAged'
    BY <2>1, <2>2, RowsStayAged
  <2>4. CutShort'
    BY <2>1, <2>2, CutShortStays
  <2>5. HeldIsDue'
    BY <2>2, OneStepOf, ChecksHoldWhatIsDue, OthersHoldWhatIsDue
  <2> QED BY <2>3, <2>4, <2>5
<1> QED BY DueInit, AlwaysSendInv, AlwaysSpentInv, <1>1, PTL DEF Spec

\* A code lets in only for the topic it was asked for, before its time is over
\* and in the process that keyed it.
THEOREM AcceptedCodesAreDue == Spec => []AcceptedIsDue
<1>1. DueInv => AcceptedIsDue
  BY DEF DueInv, HeldIsDue, Due, CutShort, AcceptedIsDue, Accepted
<1> QED BY <1>1, AlwaysDueInv, PTL

-------------------------------------------------------------------------------
(* How often a code, and a mailbox's codes, are guessed at *)

\* The records one check adds, at most one for each row it holds.
Comparisons(c) ==
  {[check |-> c, row |-> s, mailbox |-> entered[c].mailbox,
    began |-> began[c], boot |-> boot] : s \in locked[c]}

LEMMA ComparisonsAreFew ==
  ASSUME Typed, NEW c \in Checks
  PROVE  /\ IsFiniteSet(locked[c]) /\ Cardinality(locked[c]) \in Nat
         /\ IsFiniteSet(Comparisons(c))
         /\ Cardinality(Comparisons(c)) <= Cardinality(locked[c])
<1> DEFINE record == [s \in locked[c] |->
                        [check |-> c, row |-> s, mailbox |-> entered[c].mailbox,
                         began |-> began[c], boot |-> boot]]
<1>1. IsFiniteSet(locked[c]) /\ Cardinality(locked[c]) \in Nat
  <2>1. locked[c] \in SUBSET Sends
    BY DEF Typed, TypeOK
  <2> QED BY <2>1, FS_Subset, FS_CardinalityType, WindowsAssumption
<1>2. record \in Surjection(locked[c], Comparisons(c))
  BY DEF Surjection, Comparisons
<1> QED BY <1>1, <1>2, FS_Surjection

TriesAt(s) == {c \in Checks : s \in locked[c]}
ComparedWith(s) == {x \in compared : x.row = s}

\* Tries at a row, those underway and those made, are counted in its attempts.
TriesCounted ==
  \A s \in Sends :
    /\ Cardinality(TriesAt(s)) + Cardinality(ComparedWith(s)) <= MaxAttempts
    /\ s \in Stored =>
         Cardinality(TriesAt(s)) + Cardinality(ComparedWith(s)) <= code[s].attempts

TriesInv == DueInv /\ IsFiniteSet(compared) /\ TriesCounted

LEMMA TriesInit == Init => TriesInv
<1> SUFFICES ASSUME Init PROVE TriesInv
  OBVIOUS
<1>1. /\ DueInv /\ IsFiniteSet(compared) /\ Stored = {}
      /\ \A s \in Sends : TriesAt(s) = {} /\ ComparedWith(s) = {}
  BY DueInit, FS_EmptySet DEF Init, Stored, TriesAt, ComparedWith
<1> QED BY <1>1, FS_EmptySet, WindowsAssumption DEF TriesInv, TriesCounted

LEMMA TriesAreFinite ==
  ASSUME Typed, IsFiniteSet(compared), NEW s \in Sends
  PROVE  /\ IsFiniteSet(TriesAt(s)) /\ Cardinality(TriesAt(s)) \in Nat
         /\ IsFiniteSet(ComparedWith(s)) /\ Cardinality(ComparedWith(s)) \in Nat
<1>1. TriesAt(s) \in SUBSET Checks /\ ComparedWith(s) \in SUBSET compared
  BY DEF TriesAt, ComparedWith
<1> QED BY <1>1, FS_Subset, FS_CardinalityType, WindowsAssumption

\* Nothing to count at a row that is not inserted yet; a row that stays has
\* counted at least what it had.
LEMMA FewerTriesCounted ==
  ASSUME TriesInv, RowsKept, Typed', NEW s \in Sends,
         TriesAt(s)' \subseteq TriesAt(s), ComparedWith(s)' = ComparedWith(s)
  PROVE  /\ Cardinality(TriesAt(s)') + Cardinality(ComparedWith(s)') <= MaxAttempts
         /\ code'[s] # None =>
              Cardinality(TriesAt(s)') + Cardinality(ComparedWith(s)') <= code'[s].attempts
<1>0. Typed /\ RowsInserted /\ HeldIsDue
  BY DEF TriesInv, DueInv, SpentInv
<1>1. /\ IsFiniteSet(TriesAt(s)) /\ Cardinality(TriesAt(s)) \in Nat
      /\ IsFiniteSet(ComparedWith(s)) /\ Cardinality(ComparedWith(s)) \in Nat
  BY <1>0, TriesAreFinite DEF TriesInv
<1>2. Cardinality(TriesAt(s)') <= Cardinality(TriesAt(s)) /\ Cardinality(TriesAt(s)') \in Nat
  <2>1. TriesAt(s)' \in SUBSET TriesAt(s)
    OBVIOUS
  <2> QED BY <1>1, <2>1, FS_Subset, FS_CardinalityType
<1>3. /\ Cardinality(TriesAt(s)) + Cardinality(ComparedWith(s)) <= MaxAttempts
      /\ s \in Stored =>
           Cardinality(TriesAt(s)) + Cardinality(ComparedWith(s)) <= code[s].attempts
  BY DEF TriesInv, TriesCounted
<1>4. ASSUME code'[s] # None
      PROVE  Cardinality(TriesAt(s)') + Cardinality(ComparedWith(s)') <= code'[s].attempts
  <2>1. CASE /\ spc[s] = "insert" /\ code'[s].attempts = 0
    <3>1. ~Inserted(s)
      BY <2>1 DEF Inserted
    <3>2. TriesAt(s) = {} /\ ComparedWith(s) = {}
      BY <1>0, <3>1 DEF TriesAt, ComparedWith, RowsInserted, HeldIsDue
    <3> QED BY <2>1, <3>2, FS_EmptySet
  <2>2. CASE s \in Stored /\ code[s].attempts <= code'[s].attempts
    <3>1. code[s].attempts \in Nat /\ code'[s].attempts \in Nat
      BY <1>0, <1>4, <2>2 DEF Typed, TypeOK, Stored, Row
    <3> QED BY <1>1, <1>2, <1>3, <2>2, <3>1
  <2> QED BY <1>4, <2>1, <2>2 DEF RowsKept
<1> QED BY <1>1, <1>2, <1>3, <1>4, WindowsAssumption

LEMMA LockingCounts ==
  ASSUME TriesInv, RowsKept, Typed', NEW c \in Checks, CheckLock(c) PROVE TriesCounted'
<1>0. Typed
  BY DEF TriesInv, DueInv, SpentInv
<1>1. /\ compared' = compared
      /\ locked' = [locked EXCEPT ![c] = LiveFor(entered[c])]
      /\ \A s \in LiveFor(entered[c]) :
           /\ s \in Stored /\ code[s].attempts \in Nat /\ code[s].attempts < MaxAttempts
           /\ code'[s].attempts = code[s].attempts + 1
  <2>1. \A s \in LiveFor(entered[c]) : s \in Stored /\ code[s] \in Row
    BY <1>0 DEF LiveFor, Live, Stored, Typed, TypeOK
  <2>2. \A s \in LiveFor(entered[c]) : code'[s].attempts = code[s].attempts + 1
    BY <2>1 DEF CheckLock, LiveFor, Row
  <2> QED BY <2>1, <2>2 DEF CheckLock, LiveFor, Live, Row
<1> SUFFICES ASSUME NEW s \in Sends
             PROVE  /\ Cardinality(TriesAt(s)') + Cardinality(ComparedWith(s)') <= MaxAttempts
                    /\ s \in Stored' =>
                         Cardinality(TriesAt(s)') + Cardinality(ComparedWith(s)')
                           <= code'[s].attempts
  BY DEF TriesCounted
<1>2. ComparedWith(s)' = ComparedWith(s)
  BY <1>1 DEF ComparedWith
<1>3. CASE s \notin LiveFor(entered[c])
  <2>1. TriesAt(s)' \subseteq TriesAt(s)
    BY <1>0, <1>1, <1>3 DEF TriesAt, Typed, TypeOK
  <2> QED BY <1>2, <2>1, FewerTriesCounted DEF Stored
<1>4. CASE s \in LiveFor(entered[c])
  <2>1. /\ IsFiniteSet(TriesAt(s)) /\ Cardinality(TriesAt(s)) \in Nat
        /\ IsFiniteSet(ComparedWith(s)) /\ Cardinality(ComparedWith(s)) \in Nat
    BY <1>0, TriesAreFinite DEF TriesInv
  <2>2. TriesAt(s)' \in SUBSET (TriesAt(s) \cup {c})
    BY <1>0, <1>1 DEF TriesAt, Typed, TypeOK
  <2>3. /\ Cardinality(TriesAt(s)') <= Cardinality(TriesAt(s)) + 1
        /\ Cardinality(TriesAt(s)') \in Nat
    <3>1. /\ IsFiniteSet(TriesAt(s) \cup {c})
          /\ Cardinality(TriesAt(s) \cup {c}) <= Cardinality(TriesAt(s)) + 1
      BY <2>1, FS_AddElement
    <3>2. /\ IsFiniteSet(TriesAt(s)')
          /\ Cardinality(TriesAt(s)') <= Cardinality(TriesAt(s) \cup {c})
      BY <2>2, <3>1, FS_Subset
    <3> QED BY <2>1, <3>1, <3>2, FS_CardinalityType
  <2>4. Cardinality(TriesAt(s)) + Cardinality(ComparedWith(s)) <= code[s].attempts
    BY <1>1, <1>4 DEF TriesInv, TriesCounted
  <2> QED BY <1>1, <1>2, <1>4, <2>1, <2>3, <2>4, WindowsAssumption
<1> QED BY <1>3, <1>4

LEMMA ComparingCounts ==
  ASSUME TriesInv, RowsKept, Typed', NEW c \in Checks, CheckCompare(c)
  PROVE  TriesCounted' /\ IsFiniteSet(compared')
<1>0. Typed
  BY DEF TriesInv, DueInv, SpentInv
<1>1. /\ code' = code
      /\ locked' = [locked EXCEPT ![c] = {}]
      /\ compared' = compared \/ compared' = compared \cup Comparisons(c)
  BY DEF CheckCompare, CheckFails, Comparisons
<1>2. IsFiniteSet(compared')
  BY <1>0, <1>1, ComparisonsAreFew, FS_Union DEF TriesInv
<1> SUFFICES ASSUME NEW s \in Sends
             PROVE  /\ Cardinality(TriesAt(s)') + Cardinality(ComparedWith(s)') <= MaxAttempts
                    /\ s \in Stored' =>
                         Cardinality(TriesAt(s)') + Cardinality(ComparedWith(s)')
                           <= code'[s].attempts
  BY <1>2 DEF TriesCounted
<1>3. TriesAt(s)' = TriesAt(s) \ {c}
  BY <1>0, <1>1 DEF TriesAt, Typed, TypeOK
<1>4. CASE compared' = compared \/ s \notin locked[c]
  <2>1. ComparedWith(s)' = ComparedWith(s)
    BY <1>1, <1>4 DEF ComparedWith, Comparisons
  <2> QED BY <1>3, <2>1, FewerTriesCounted DEF Stored
<1>5. CASE compared' = compared \cup Comparisons(c) /\ s \in locked[c]
  <2> DEFINE record == [check |-> c, row |-> s, mailbox |-> entered[c].mailbox,
                        began |-> began[c], boot |-> boot]
  <2>1. ComparedWith(s)' = ComparedWith(s) \cup {record}
    BY <1>5 DEF ComparedWith, Comparisons
  <2> HIDE DEF record
  <2>2. /\ IsFiniteSet(TriesAt(s)) /\ Cardinality(TriesAt(s)) \in Nat
        /\ IsFiniteSet(ComparedWith(s)) /\ Cardinality(ComparedWith(s)) \in Nat
    BY <1>0, TriesAreFinite DEF TriesInv
  <2>3. c \in TriesAt(s)
    BY <1>5 DEF TriesAt
  <2>4. Cardinality(TriesAt(s)') = Cardinality(TriesAt(s)) - 1
    BY <1>3, <2>2, <2>3, FS_RemoveElement
  <2>5. /\ Cardinality(ComparedWith(s)') <= Cardinality(ComparedWith(s)) + 1
        /\ Cardinality(ComparedWith(s)') \in Nat
    <3>1. /\ IsFiniteSet(ComparedWith(s) \cup {record})
          /\ \/ Cardinality(ComparedWith(s) \cup {record}) = Cardinality(ComparedWith(s))
             \/ Cardinality(ComparedWith(s) \cup {record}) = Cardinality(ComparedWith(s)) + 1
      BY <2>2, FS_AddElement, Zenon
    <3> QED BY <2>1, <2>2, <3>1, FS_CardinalityType
  <2>6. Cardinality(TriesAt(s)') + Cardinality(ComparedWith(s)')
          <= Cardinality(TriesAt(s)) + Cardinality(ComparedWith(s))
    BY <2>2, <2>4, <2>5
  <2>7. code[s] # None => code[s].attempts \in Nat
    BY <1>0 DEF Typed, TypeOK, Row
  <2> QED BY <1>1, <2>2, <2>4, <2>5, <2>6, <2>7, WindowsAssumption
          DEF TriesInv, TriesCounted, Stored
<1> QED BY <1>1, <1>4, <1>5

LEMMA AlwaysTriesInv == Spec => []TriesInv
<1>1. TriesInv /\ DueInv' /\ [Next]_vars => TriesInv'
  <2> SUFFICES ASSUME TriesInv, DueInv', [Next]_vars PROVE TriesInv'
    OBVIOUS
  <2>1. Typed /\ Typed' /\ RowsInserted
    BY DEF TriesInv, DueInv, SpentInv
  <2>2. RowsKept
    BY <2>1, StepsKeepRows
  <2>3. ASSUME compared' = compared, \A d \in Checks : locked'[d] \subseteq locked[d]
        PROVE  TriesCounted' /\ IsFiniteSet(compared')
    <3>1. \A s \in Sends : TriesAt(s)' \subseteq TriesAt(s) /\ ComparedWith(s)' = ComparedWith(s)
      BY <2>3 DEF TriesAt, ComparedWith
    <3> QED BY <2>1, <2>2, <2>3, <3>1, FewerTriesCounted DEF TriesCounted, Stored, TriesInv
  <2>4. CASE UNCHANGED checkVars \/ Restart
    BY <2>1, <2>3, <2>4 DEF checkVars, Restart, Typed, TypeOK, TriesInv
  <2>5. ASSUME NEW c \in Checks, CheckStep(c) PROVE TriesCounted' /\ IsFiniteSet(compared')
    <3>1. CASE CheckLock(c)
      BY <2>1, <2>2, <3>1, LockingCounts DEF CheckLock, TriesInv
    <3>2. CASE CheckCompare(c)
      BY <2>1, <2>2, <3>2, ComparingCounts
    <3>3. CASE CheckStart(c) \/ CheckSpend(c) \/ CheckVoid(c) \/ CheckDbFault(c)
      BY <2>1, <2>3, <3>3 DEF CheckStart, CheckSpend, CheckVoid, CheckDbFault, CheckFails,
                              Typed, TypeOK
    <3> QED BY <2>5, <3>1, <3>2, <3>3 DEF CheckStep
  <2> QED BY <2>4, <2>5, OneStepOf DEF TriesInv
<1> QED BY TriesInit, AlwaysDueInv, <1>1, PTL DEF Spec

\* A code is compared with at most MaxAttempts entries, because every try is
\* counted at its row, under the row's lock, before it is made.
THEOREM AttemptsAreCapped == Spec => []AttemptCap
<1>1. TriesInv => AttemptCap
  <2> SUFFICES ASSUME TriesInv, NEW s \in Sends
               PROVE  Cardinality({x \in compared : x.row = s}) <= MaxAttempts
    BY DEF AttemptCap
  <2>1. Cardinality(TriesAt(s)) \in Nat /\ Cardinality(ComparedWith(s)) \in Nat
    BY TriesAreFinite DEF TriesInv, DueInv, SpentInv
  <2>2. Cardinality(TriesAt(s)) + Cardinality(ComparedWith(s)) <= MaxAttempts
    BY DEF TriesInv, TriesCounted
  <2> QED BY <2>1, <2>2, WindowsAssumption DEF ComparedWith
<1> QED BY <1>1, AlwaysTriesInv, PTL

\* A mailbox's guesses after a moment: comparisons made in this process, checks
\* that may still compare, and the slots of the limiter taken for them.
ComparedSince(m, time) ==
  {x \in compared : x.mailbox = m /\ x.boot = boot /\ x.began + Day > time}

Guessing(c) == cpc[c] \in {"lock", "compare"}

GuessingSince(m, time) ==
  {c \in Checks : Guessing(c) /\ entered[c].mailbox = m /\ began[c] + Day > time}

SlotsSince(m, time) ==
  {g \in guessSlots : g.mailbox = m /\ g.at + Day > time}

\* Every comparison, and the first one of a check underway, has its slot.
GuessesPaid ==
  \A m \in Mailboxes, time \in Nat :
    Cardinality(ComparedSince(m, time)) + Cardinality(GuessingSince(m, time))
      <= Cardinality(SlotsSince(m, time))

SlotsCapped ==
  \A m \in Mailboxes, time \in Nat :
    now <= time => Cardinality(SlotsSince(m, time)) <= MaxGuesses

\* A check underway has its first slot only, and nothing is of a later process.
GuessBooks ==
  /\ IsFiniteSet(guessSlots)
  /\ \A g \in guessSlots : /\ cpc[g.check] # "idle"
                           /\ Guessing(g.check) => g.nth = 0
  /\ \A x \in compared : x.boot <= boot
  /\ \A c \in Checks : Guessing(c) => began[c] <= now

GuessInv == Typed /\ IsFiniteSet(compared) /\ GuessBooks /\ GuessesPaid /\ SlotsCapped

LEMMA GuessInit == Init => GuessInv
<1> SUFFICES ASSUME Init PROVE GuessInv
  OBVIOUS
<1>1. /\ Typed /\ compared = {} /\ guessSlots = {}
      /\ \A c \in Checks : cpc[c] = "idle"
  BY TypedInit DEF Init
<1>2. \A m \in Mailboxes, time \in Nat :
        ComparedSince(m, time) = {} /\ GuessingSince(m, time) = {} /\ SlotsSince(m, time) = {}
  BY <1>1 DEF ComparedSince, GuessingSince, Guessing, SlotsSince
<1>3. GuessesPaid
  BY <1>2, FS_EmptySet DEF GuessesPaid
<1>4. SlotsCapped
  <2>1. \A m \in Mailboxes, time \in Nat : Cardinality(SlotsSince(m, time)) = 0
    BY <1>2, FS_EmptySet
  <2> QED BY <2>1, WindowsAssumption DEF SlotsCapped
<1> QED BY <1>1, <1>3, <1>4, FS_EmptySet DEF GuessInv, GuessBooks, Guessing

LEMMA SinceAreFinite ==
  ASSUME GuessInv, NEW m \in Mailboxes, NEW time \in Nat
  PROVE  /\ IsFiniteSet(ComparedSince(m, time)) /\ Cardinality(ComparedSince(m, time)) \in Nat
         /\ IsFiniteSet(GuessingSince(m, time)) /\ Cardinality(GuessingSince(m, time)) \in Nat
         /\ IsFiniteSet(SlotsSince(m, time)) /\ Cardinality(SlotsSince(m, time)) \in Nat
<1>1. /\ ComparedSince(m, time) \in SUBSET compared
      /\ GuessingSince(m, time) \in SUBSET Checks
      /\ SlotsSince(m, time) \in SUBSET guessSlots
  BY DEF ComparedSince, GuessingSince, SlotsSince
<1>2. IsFiniteSet(compared) /\ IsFiniteSet(Checks) /\ IsFiniteSet(guessSlots)
  BY WindowsAssumption DEF GuessInv, GuessBooks
<1> QED BY <1>1, <1>2, FS_Subset, FS_CardinalityType

\* A step that starts and compares nothing: checks underway go on or end.
Quiet ==
  /\ now <= now' /\ UNCHANGED <<boot, compared, guessSlots>>
  /\ \A c \in Checks : cpc'[c] = "idle" => cpc[c] = "idle"
  /\ \A c \in Checks : Guessing(c)' => /\ Guessing(c) /\ entered'[c] = entered[c]
                                       /\ began'[c] = began[c]

LEMMA QuietKeepsGuessInv ==
  ASSUME GuessInv, Quiet, Typed' PROVE GuessInv'
<1> USE DEF Typed, TypeOK
<1>1. GuessBooks'
  <2>1. \A g \in guessSlots : g.check \in Checks
    BY DEF GuessInv, GuessSlot
  <2> QED BY <2>1 DEF GuessInv, GuessBooks, Quiet
<1>2. \A m \in Mailboxes, time \in Nat :
        /\ ComparedSince(m, time)' = ComparedSince(m, time)
        /\ SlotsSince(m, time)' = SlotsSince(m, time)
        /\ GuessingSince(m, time)' \in SUBSET GuessingSince(m, time)
  BY DEF Quiet, ComparedSince, SlotsSince, GuessingSince
<1>3. GuessesPaid'
  <2> SUFFICES ASSUME NEW m \in Mailboxes, NEW time \in Nat
               PROVE  Cardinality(ComparedSince(m, time)') + Cardinality(GuessingSince(m, time)')
                        <= Cardinality(SlotsSince(m, time)')
    BY DEF GuessesPaid
  <2>1. /\ Cardinality(ComparedSince(m, time)) \in Nat
        /\ IsFiniteSet(GuessingSince(m, time)) /\ Cardinality(GuessingSince(m, time)) \in Nat
        /\ Cardinality(SlotsSince(m, time)) \in Nat
    BY SinceAreFinite
  <2>2. /\ Cardinality(GuessingSince(m, time)') <= Cardinality(GuessingSince(m, time))
        /\ Cardinality(GuessingSince(m, time)') \in Nat
    BY <1>2, <2>1, FS_Subset, FS_CardinalityType
  <2> QED BY <1>2, <2>1, <2>2 DEF GuessInv, GuessesPaid
<1>4. SlotsCapped'
  BY <1>2 DEF GuessInv, SlotsCapped, Quiet
<1> QED BY <1>1, <1>3, <1>4 DEF GuessInv, Quiet

\* The limiter refuses at MaxGuesses slots and has never taken more.
LEMMA GuessesLeftOver ==
  ASSUME GuessInv, NEW m \in Mailboxes
  PROVE  /\ GuessesLeft(m) \in 0..MaxGuesses
         /\ \A time \in Nat : now <= time =>
              GuessesLeft(m) + Cardinality(SlotsSince(m, time)) <= MaxGuesses
<1> DEFINE recent == {x \in guessSlots : x.mailbox = m /\ Recent(x.at, Day)}
<1>1. now \in Nat /\ guessSlots \subseteq GuessSlot
  BY DEF GuessInv, Typed, TypeOK
<1>2. ASSUME NEW time \in Nat, now <= time
      PROVE  SlotsSince(m, time) \in SUBSET recent
  BY <1>1, <1>2, WindowsAssumption DEF SlotsSince, Recent, GuessSlot
<1>3. ASSUME NEW time \in Nat, time = now PROVE SlotsSince(m, time) = recent
  BY <1>3 DEF SlotsSince, Recent
<1>4. /\ IsFiniteSet(recent) /\ Cardinality(recent) \in Nat
      /\ Cardinality(recent) <= MaxGuesses
  <2>1. PICK time \in Nat : time = now
    BY <1>1
  <2>2. recent = SlotsSince(m, time)
    BY <1>3, <2>1
  <2> HIDE DEF recent
  <2>3. now <= time
    BY <1>1, <2>1
  <2> QED BY <2>2, <2>3, SinceAreFinite DEF GuessInv, SlotsCapped
<1>5. GuessesLeft(m) = MaxGuesses - Cardinality(recent)
  BY DEF GuessesLeft
<1>6. ASSUME NEW time \in Nat, now <= time
      PROVE  /\ Cardinality(SlotsSince(m, time)) <= Cardinality(recent)
             /\ Cardinality(SlotsSince(m, time)) \in Nat
  BY <1>2, <1>4, <1>6, FS_Subset, FS_CardinalityType
<1> HIDE DEF recent
<1> QED BY <1>4, <1>5, <1>6, WindowsAssumption

LEMMA StartingPays ==
  ASSUME GuessInv, NEW c \in Checks, CheckStart(c), ~CheckFails(c), Typed' PROVE GuessInv'
<1> USE DEF Typed, TypeOK
<1>1. PICK topic \in Topic :
        /\ GuessesLeft(topic.mailbox) > 0
        /\ cpc' = [cpc EXCEPT ![c] = "lock"]
        /\ entered' = [entered EXCEPT ![c] = topic]
        /\ began' = [began EXCEPT ![c] = now]
        /\ guessSlots' = guessSlots \cup
             {[mailbox |-> topic.mailbox, check |-> c, nth |-> 0, at |-> now]}
  BY DEF CheckStart
<1>2. cpc[c] = "idle" /\ UNCHANGED <<now, boot, compared>>
  BY DEF CheckStart
<1> DEFINE slot == [mailbox |-> topic.mailbox, check |-> c, nth |-> 0, at |-> now]
           m0 == topic.mailbox
<1>3. m0 \in Mailboxes
  BY DEF Topic
<1>4. slot \notin guessSlots
  BY <1>2 DEF GuessInv, GuessBooks
<1>5. GuessBooks'
  <2>1. \A g \in guessSlots : g.check \in Checks
    BY DEF GuessInv, GuessSlot
  <2>2. IsFiniteSet(guessSlots')
    BY <1>1, FS_AddElement DEF GuessInv, GuessBooks
  <2> QED BY <1>1, <1>2, <2>1, <2>2 DEF GuessInv, GuessBooks, Guessing
<1>6. \A m \in Mailboxes, time \in Nat :
        /\ ComparedSince(m, time)' = ComparedSince(m, time)
        /\ ~(m = m0 /\ now + Day > time) =>
             /\ SlotsSince(m, time)' = SlotsSince(m, time)
             /\ GuessingSince(m, time)' = GuessingSince(m, time)
        /\ m = m0 /\ now + Day > time =>
             /\ SlotsSince(m, time)' = SlotsSince(m, time) \cup {slot}
             /\ GuessingSince(m, time)' = GuessingSince(m, time) \cup {c}
  BY <1>1, <1>2 DEF ComparedSince, SlotsSince, GuessingSince, Guessing, GuessInv
<1>7. \A m \in Mailboxes, time \in Nat : slot \notin SlotsSince(m, time) /\ c \notin GuessingSince(m, time)
  BY <1>2, <1>4 DEF SlotsSince, GuessingSince, Guessing
<1> HIDE DEF slot
<1>8. GuessesPaid'
  <2> SUFFICES ASSUME NEW m \in Mailboxes, NEW time \in Nat
               PROVE  Cardinality(ComparedSince(m, time)') + Cardinality(GuessingSince(m, time)')
                        <= Cardinality(SlotsSince(m, time)')
    BY DEF GuessesPaid
  <2>1. /\ Cardinality(ComparedSince(m, time)) \in Nat
        /\ IsFiniteSet(GuessingSince(m, time)) /\ Cardinality(GuessingSince(m, time)) \in Nat
        /\ IsFiniteSet(SlotsSince(m, time)) /\ Cardinality(SlotsSince(m, time)) \in Nat
    BY SinceAreFinite
  <2>2. /\ Cardinality(GuessingSince(m, time) \cup {c}) = Cardinality(GuessingSince(m, time)) + 1
        /\ Cardinality(SlotsSince(m, time) \cup {slot}) = Cardinality(SlotsSince(m, time)) + 1
    BY <1>7, <2>1, FS_AddElement
  <2>3. Cardinality(ComparedSince(m, time)) + Cardinality(GuessingSince(m, time))
          <= Cardinality(SlotsSince(m, time))
    BY DEF GuessInv, GuessesPaid
  <2>4. CASE m = m0 /\ now + Day > time
    <3>1. /\ ComparedSince(m, time)' = ComparedSince(m, time)
          /\ SlotsSince(m, time)' = SlotsSince(m, time) \cup {slot}
          /\ GuessingSince(m, time)' = GuessingSince(m, time) \cup {c}
      BY <1>6, <2>4
    <3> QED BY <2>1, <2>2, <2>3, <3>1
  <2>5. CASE ~(m = m0 /\ now + Day > time)
    BY <1>6, <2>3, <2>5
  <2> QED BY <2>4, <2>5
<1>9. SlotsCapped'
  <2> SUFFICES ASSUME NEW m \in Mailboxes, NEW time \in Nat, now <= time
               PROVE  Cardinality(SlotsSince(m, time)') <= MaxGuesses
    BY <1>2 DEF SlotsCapped
  <2>1. IsFiniteSet(SlotsSince(m, time)) /\ Cardinality(SlotsSince(m, time)) \in Nat
    BY SinceAreFinite
  <2>2. Cardinality(SlotsSince(m, time) \cup {slot}) = Cardinality(SlotsSince(m, time)) + 1
    BY <1>7, <2>1, FS_AddElement
  <2>3. Cardinality(SlotsSince(m, time)) <= MaxGuesses
    BY DEF GuessInv, SlotsCapped
  <2>4. m = m0 => Cardinality(SlotsSince(m, time)) + 1 <= MaxGuesses
    BY <1>1, <1>3, <2>1, GuessesLeftOver, WindowsAssumption
  <2>5. CASE m = m0 /\ now + Day > time
    BY <1>6, <2>2, <2>4, <2>5
  <2>6. CASE ~(m = m0 /\ now + Day > time)
    BY <1>6, <2>3, <2>6
  <2> QED BY <2>5, <2>6
<1> QED BY <1>2, <1>5, <1>8, <1>9 DEF GuessInv

\* The slots a check takes on top of its first: one for each further row it
\* holds, as far as they go.
ExtraSlots(c) ==
  {[mailbox |-> entered[c].mailbox, check |-> c, nth |-> n, at |-> now] :
     n \in {k \in 1..MaxGuesses : /\ k < Cardinality(locked[c])
                                  /\ k <= GuessesLeft(entered[c].mailbox)}}

ExtraCount(c) ==
  IF Cardinality(locked[c]) = 0 THEN 0
  ELSE IF Cardinality(locked[c]) - 1 <= GuessesLeft(entered[c].mailbox)
         THEN Cardinality(locked[c]) - 1
         ELSE GuessesLeft(entered[c].mailbox)

LEMMA ExtraSlotsCount ==
  ASSUME GuessInv, NEW c \in Checks, entered[c].mailbox \in Mailboxes
  PROVE  /\ IsFiniteSet(ExtraSlots(c)) /\ Cardinality(ExtraSlots(c)) = ExtraCount(c)
         /\ ExtraCount(c) \in Nat
         /\ ExtraCount(c) <= GuessesLeft(entered[c].mailbox)
<1> DEFINE slotOf == [n \in 1..ExtraCount(c) |->
                        [mailbox |-> entered[c].mailbox, check |-> c, nth |-> n, at |-> now]]
<1>1. Cardinality(locked[c]) \in Nat
  BY ComparisonsAreFew DEF GuessInv
<1>2. GuessesLeft(entered[c].mailbox) \in 0..MaxGuesses
  BY GuessesLeftOver
<1>3. ExtraCount(c) \in Nat /\ ExtraCount(c) <= GuessesLeft(entered[c].mailbox)
  BY <1>1, <1>2, WindowsAssumption DEF ExtraCount
<1>4. {k \in 1..MaxGuesses : /\ k < Cardinality(locked[c])
                             /\ k <= GuessesLeft(entered[c].mailbox)} = 1..ExtraCount(c)
  BY <1>1, <1>2, WindowsAssumption DEF ExtraCount
<1>5. ExtraSlots(c) = {[mailbox |-> entered[c].mailbox, check |-> c, nth |-> n, at |-> now] :
                         n \in 1..ExtraCount(c)}
  BY <1>4 DEF ExtraSlots
<1>6. slotOf \in Bijection(1..ExtraCount(c), ExtraSlots(c))
  <2>1. slotOf \in [1..ExtraCount(c) -> ExtraSlots(c)]
    BY <1>5
  <2>2. \A a, b \in 1..ExtraCount(c) : slotOf[a] = slotOf[b] => a = b
    <3> SUFFICES ASSUME NEW a \in 1..ExtraCount(c), NEW b \in 1..ExtraCount(c), slotOf[a] = slotOf[b]
                 PROVE  a = b
      OBVIOUS
    <3>1. slotOf[a].nth = a /\ slotOf[b].nth = b
      OBVIOUS
    <3> QED BY <3>1
  <2>3. \A g \in ExtraSlots(c) : \E n \in 1..ExtraCount(c) : slotOf[n] = g
    BY <1>5
  <2> QED BY <2>1, <2>2, <2>3 DEF Bijection, Injection, Surjection, IsInjective
<1>7. IsFiniteSet(1..ExtraCount(c)) /\ Cardinality(1..ExtraCount(c)) = ExtraCount(c)
  BY <1>3, FS_Interval
<1> QED BY <1>3, <1>6, <1>7, FS_Bijection DEF ExistsBijection

LEMMA ComparingPays ==
  ASSUME GuessInv, NEW c \in Checks, CheckCompare(c), Typed' PROVE GuessInv'
<1> USE DEF Typed, TypeOK
<1> DEFINE m0 == entered[c].mailbox
           paid == /\ compared' = compared \cup Comparisons(c)
                   /\ Cardinality(locked[c]) <= GuessesLeft(m0) + 1
<1>1. /\ cpc[c] = "compare" /\ m0 \in Mailboxes /\ UNCHANGED <<now, boot>>
      /\ guessSlots' = guessSlots \cup ExtraSlots(c)
      /\ compared' = compared \/ paid
      /\ \A d \in Checks \ {c} : /\ cpc'[d] = cpc[d] /\ entered'[d] = entered[d]
                                 /\ began'[d] = began[d]
      /\ cpc'[c] \in {"failed", "spend"}
  BY DEF CheckCompare, CheckFails, TakeExtraGuesses, ExtraSlots, Comparisons, GuessInv, Topic
<1>2. /\ IsFiniteSet(ExtraSlots(c)) /\ Cardinality(ExtraSlots(c)) = ExtraCount(c)
      /\ ExtraCount(c) \in Nat
      /\ ExtraCount(c) <= GuessesLeft(m0)
  BY <1>1, ExtraSlotsCount
<1>3. /\ Cardinality(locked[c]) \in Nat
      /\ IsFiniteSet(Comparisons(c)) /\ Cardinality(Comparisons(c)) \in Nat
      /\ Cardinality(Comparisons(c)) <= Cardinality(locked[c])
  BY ComparisonsAreFew, FS_CardinalityType DEF GuessInv
<1>4. IsFiniteSet(compared')
  <2>1. IsFiniteSet(compared \cup Comparisons(c))
    BY <1>3, FS_Union DEF GuessInv
  <2> QED BY <1>1, <2>1 DEF GuessInv
<1>5. \A g \in ExtraSlots(c) : /\ g.mailbox = m0 /\ g.check = c /\ g.at = now
                               /\ g \notin guessSlots
  <2>1. \A g \in ExtraSlots(c) : /\ g.mailbox = m0 /\ g.check = c /\ g.at = now /\ g.nth # 0
    BY DEF ExtraSlots
  <2> QED BY <1>1, <2>1 DEF GuessInv, GuessBooks, Guessing
<1>6. \A x \in Comparisons(c) : x.mailbox = m0 /\ x.boot = boot /\ x.began = began[c]
  BY DEF Comparisons
<1>7. GuessBooks'
  <2>1. \A g \in guessSlots : g.check \in Checks
    BY DEF GuessInv, GuessSlot
  <2>2. IsFiniteSet(guessSlots')
    BY <1>1, <1>2, FS_Union DEF GuessInv, GuessBooks
  <2>3. \A g \in guessSlots' : /\ cpc'[g.check] # "idle"
                               /\ Guessing(g.check)' => g.nth = 0
    BY <1>1, <1>5, <2>1 DEF GuessInv, GuessBooks, Guessing
  <2>4. \A x \in compared' : x.boot <= boot'
    BY <1>1, <1>6 DEF GuessInv, GuessBooks
  <2> QED BY <1>1, <2>2, <2>3, <2>4 DEF GuessInv, GuessBooks, Guessing
<1>8. \A m \in Mailboxes, time \in Nat :
        /\ GuessingSince(m, time)' = GuessingSince(m, time) \ {c}
        /\ SlotsSince(m, time)' = IF m = m0 /\ now + Day > time
                                    THEN SlotsSince(m, time) \cup ExtraSlots(c)
                                    ELSE SlotsSince(m, time)
        /\ SlotsSince(m, time) \cap ExtraSlots(c) = {}
  BY <1>1, <1>5 DEF GuessingSince, Guessing, SlotsSince
<1>9. \A m \in Mailboxes, time \in Nat :
        \/ ComparedSince(m, time)' = ComparedSince(m, time)
        \/ /\ m = m0 /\ began[c] + Day > time /\ paid
           /\ ComparedSince(m, time)' = ComparedSince(m, time) \cup Comparisons(c)
  BY <1>1, <1>6 DEF ComparedSince
<1> HIDE DEF paid
<1>10. \A m \in Mailboxes, time \in Nat :
        Cardinality(SlotsSince(m, time)') = IF m = m0 /\ now + Day > time
                                              THEN Cardinality(SlotsSince(m, time)) + ExtraCount(c)
                                              ELSE Cardinality(SlotsSince(m, time))
  <2> TAKE m \in Mailboxes, time \in Nat
  <2>1. IsFiniteSet(SlotsSince(m, time)) /\ Cardinality(SlotsSince(m, time)) \in Nat
    BY SinceAreFinite
  <2>2. Cardinality(SlotsSince(m, time) \cup ExtraSlots(c))
          = Cardinality(SlotsSince(m, time)) + ExtraCount(c)
    <3>1. Cardinality(SlotsSince(m, time) \cap ExtraSlots(c)) = 0
      BY <1>8, FS_EmptySet
    <3>2. Cardinality(SlotsSince(m, time) \cup ExtraSlots(c))
            = Cardinality(SlotsSince(m, time)) + Cardinality(ExtraSlots(c))
                - Cardinality(SlotsSince(m, time) \cap ExtraSlots(c))
      BY <1>2, <2>1, FS_Union
    <3> QED BY <1>2, <2>1, <3>1, <3>2
  <2> QED BY <1>8, <2>2
<1>11. GuessesPaid'
  <2> SUFFICES ASSUME NEW m \in Mailboxes, NEW time \in Nat
               PROVE  Cardinality(ComparedSince(m, time)') + Cardinality(GuessingSince(m, time)')
                        <= Cardinality(SlotsSince(m, time)')
    BY DEF GuessesPaid
  <2>1. /\ IsFiniteSet(ComparedSince(m, time)) /\ Cardinality(ComparedSince(m, time)) \in Nat
        /\ IsFiniteSet(GuessingSince(m, time)) /\ Cardinality(GuessingSince(m, time)) \in Nat
        /\ IsFiniteSet(SlotsSince(m, time)) /\ Cardinality(SlotsSince(m, time)) \in Nat
    BY SinceAreFinite
  <2>2. Cardinality(ComparedSince(m, time)) + Cardinality(GuessingSince(m, time))
          <= Cardinality(SlotsSince(m, time))
    BY DEF GuessInv, GuessesPaid
  <2>3. Cardinality(GuessingSince(m, time)')
          = IF c \in GuessingSince(m, time) THEN Cardinality(GuessingSince(m, time)) - 1
            ELSE Cardinality(GuessingSince(m, time))
    BY <1>8, <2>1, FS_RemoveElement
  <2>4. /\ Cardinality(SlotsSince(m, time)') >= Cardinality(SlotsSince(m, time))
        /\ Cardinality(SlotsSince(m, time)') \in Nat
    BY <1>2, <1>10, <2>1
  <2>5. CASE ComparedSince(m, time)' = ComparedSince(m, time)
    BY <2>1, <2>2, <2>3, <2>4, <2>5
  <2>6. CASE /\ m = m0 /\ began[c] + Day > time /\ paid
             /\ ComparedSince(m, time)' = ComparedSince(m, time) \cup Comparisons(c)
    <3>1. c \in GuessingSince(m, time)
      BY <1>1, <2>6 DEF GuessingSince, Guessing
    <3>2. now + Day > time
      <4>1. began[c] <= now /\ began[c] \in Nat /\ now \in Nat
        BY <1>1 DEF GuessInv, GuessBooks, Guessing
      <4> QED BY <2>6, <4>1, WindowsAssumption
    <3>3. Cardinality(SlotsSince(m, time)') = Cardinality(SlotsSince(m, time)) + ExtraCount(c)
      BY <1>10, <2>6, <3>2
    <3>4. Cardinality(locked[c]) <= GuessesLeft(m0) + 1
      BY <2>6 DEF paid
    <3>5. Cardinality(locked[c]) - 1 <= ExtraCount(c)
      BY <1>1, <1>3, <3>4, GuessesLeftOver, WindowsAssumption DEF ExtraCount
    <3>6. /\ Cardinality(ComparedSince(m, time)')
               <= Cardinality(ComparedSince(m, time)) + Cardinality(locked[c])
          /\ Cardinality(ComparedSince(m, time)') \in Nat
      <4>1. /\ IsFiniteSet(ComparedSince(m, time) \cup Comparisons(c))
            /\ Cardinality(ComparedSince(m, time) \cup Comparisons(c))
                 = Cardinality(ComparedSince(m, time)) + Cardinality(Comparisons(c))
                     - Cardinality(ComparedSince(m, time) \cap Comparisons(c))
        BY <1>3, <2>1, FS_Union
      <4>2. Cardinality(ComparedSince(m, time) \cap Comparisons(c)) \in Nat
        BY <2>1, FS_Intersection, FS_CardinalityType
      <4>3. Cardinality(ComparedSince(m, time) \cup Comparisons(c))
              <= Cardinality(ComparedSince(m, time)) + Cardinality(locked[c])
        BY <1>3, <2>1, <4>1, <4>2
      <4>4. Cardinality(ComparedSince(m, time) \cup Comparisons(c)) \in Nat
        BY <4>1, FS_CardinalityType
      <4> QED BY <2>6, <4>3, <4>4
    <3> QED BY <1>2, <1>3, <2>1, <2>2, <2>3, <3>1, <3>3, <3>5, <3>6
  <2> QED BY <1>9, <2>5, <2>6
<1>12. SlotsCapped'
  <2> SUFFICES ASSUME NEW m \in Mailboxes, NEW time \in Nat, now <= time
               PROVE  Cardinality(SlotsSince(m, time)') <= MaxGuesses
    BY <1>1 DEF SlotsCapped
  <2>1. /\ Cardinality(SlotsSince(m, time)) \in Nat
        /\ Cardinality(SlotsSince(m, time)) <= MaxGuesses
    BY SinceAreFinite DEF GuessInv, SlotsCapped
  <2>2. GuessesLeft(m0) \in Nat
    BY <1>1, GuessesLeftOver
  <2>3. m = m0 => Cardinality(SlotsSince(m, time)) + GuessesLeft(m0) <= MaxGuesses
    BY <1>1, <2>1, <2>2, GuessesLeftOver
  <2>4. CASE m = m0 /\ now + Day > time
    BY <1>2, <1>10, <2>1, <2>2, <2>3, <2>4, WindowsAssumption
  <2>5. CASE ~(m = m0 /\ now + Day > time)
    BY <1>10, <2>1, <2>5
  <2> QED BY <2>4, <2>5
<1> QED BY <1>4, <1>7, <1>11, <1>12 DEF GuessInv

LEMMA RestartPays ==
  ASSUME GuessInv, Restart, Typed' PROVE GuessInv'
<1> USE DEF Typed, TypeOK
<1>1. /\ guessSlots' = {} /\ compared' = compared /\ boot' = boot + 1
      /\ \A c \in Checks : ~Guessing(c)'
  BY DEF Restart, Entering, Guessing, CheckStates, GuessInv
<1>2. \A x \in compared : x.boot \in Nat /\ x.boot <= boot
  BY DEF GuessInv, GuessBooks, Comparison
<1>3. boot \in Nat
  BY DEF GuessInv
<1>4. \A m \in Mailboxes, time \in Nat : /\ ComparedSince(m, time)' = {} /\ GuessingSince(m, time)' = {}
                   /\ SlotsSince(m, time)' = {}
  BY <1>1, <1>2, <1>3 DEF ComparedSince, GuessingSince, SlotsSince
<1>5. GuessesPaid'
  <2>1. \A m \in Mailboxes, time \in Nat :
          /\ Cardinality(ComparedSince(m, time)') = 0 /\ Cardinality(GuessingSince(m, time)') = 0
          /\ Cardinality(SlotsSince(m, time)') = 0
    BY <1>4, FS_EmptySet
  <2> QED BY <2>1 DEF GuessesPaid
<1>6. SlotsCapped'
  <2>1. \A m \in Mailboxes, time \in Nat : Cardinality(SlotsSince(m, time)') = 0
    BY <1>4, FS_EmptySet
  <2> QED BY <2>1, WindowsAssumption DEF SlotsCapped
<1>7. GuessBooks'
  BY <1>1, <1>2, <1>3, FS_EmptySet DEF GuessBooks, Guessing
<1> QED BY <1>1, <1>5, <1>6, <1>7 DEF GuessInv

LEMMA AlwaysGuessInv == Spec => []GuessInv
<1>1. GuessInv /\ [Next]_vars => GuessInv'
  <2> SUFFICES ASSUME GuessInv, [Next]_vars PROVE GuessInv'
    OBVIOUS
  <2>1. Typed /\ Typed'
    BY TypedStep DEF GuessInv
  <2> USE WindowsAssumption DEF Typed, TypeOK, Guessing
  <2>2. CASE UNCHANGED checkVars /\ ~Restart
    <3>1. now <= now' /\ boot' = boot
      <4>1. ASSUME NEW s \in Sends, SendStep(s) PROVE UNCHANGED <<now, boot>>
        BY <4>1 DEF SendStep, SendStart, SendInsert, SendCount, SendUndo, SendMail, SendVoid,
                    SendDbFault
      <4>2. ASSUME NEW c \in Checks, CheckStep(c) PROVE UNCHANGED <<now, boot>>
        BY <4>2 DEF CheckStep, CheckStart, CheckLock, CheckCompare, CheckSpend, CheckVoid,
                    CheckDbFault
      <4>3. CASE Tick \/ CleanUp \/ UNCHANGED vars
        BY <2>1, <4>3 DEF Tick, CleanUp, vars
      <4> QED BY <2>1, <2>2, <4>1, <4>2, <4>3 DEF Next
    <3> QED BY <2>1, <2>2, <3>1, QuietKeepsGuessInv DEF Quiet, checkVars
  <2>3. CASE Restart
    BY <2>1, <2>3, RestartPays
  <2>4. ASSUME NEW c \in Checks, CheckStep(c) PROVE GuessInv'
    <3>1. CASE CheckStart(c) /\ ~CheckFails(c)
      BY <2>1, <3>1, StartingPays
    <3>2. CASE CheckCompare(c)
      BY <2>1, <3>2, ComparingPays
    <3>3. ASSUME \/ CheckStart(c) /\ CheckFails(c)
                 \/ CheckLock(c) \/ CheckSpend(c) \/ CheckVoid(c) \/ CheckDbFault(c)
          PROVE  Quiet
      <4>1. CASE CheckStart(c) /\ CheckFails(c)
        BY <2>1, <4>1 DEF CheckStart, CheckFails, Quiet
      <4>2. CASE CheckLock(c)
        BY <2>1, <4>2 DEF CheckLock, Quiet
      <4>3. CASE CheckSpend(c)
        BY <2>1, <4>3 DEF CheckSpend, CheckFails, Quiet
      <4>4. CASE CheckVoid(c)
        BY <2>1, <4>4 DEF CheckVoid, Quiet
      <4>5. CASE CheckDbFault(c)
        BY <2>1, <4>5 DEF CheckDbFault, CheckFails, Quiet
      <4> QED BY <3>3, <4>1, <4>2, <4>3, <4>4, <4>5
    <3> QED BY <2>1, <2>4, <3>1, <3>2, <3>3, QuietKeepsGuessInv DEF CheckStep
  <2> QED BY <2>2, <2>3, <2>4, OneStepOf
<1> QED BY GuessInit, <1>1, PTL DEF Spec

\* A code is compared with at most MaxAttempts entries, a mailbox's codes with
\* at most MaxGuesses in a day: both are counted before the comparison is made.
THEOREM GuessesAreCapped == Spec => []GuessingIsCapped
<1>1. GuessInv => GuessCap
  <2> SUFFICES ASSUME GuessInv, NEW m \in Mailboxes
               PROVE  Cardinality({x \in compared : /\ x.mailbox = m /\ x.boot = boot
                                                    /\ Recent(x.began, Day)}) <= MaxGuesses
    BY DEF GuessCap
  <2>1. PICK time \in Nat : time = now
    BY DEF GuessInv, Typed, TypeOK
  <2>2. {x \in compared : x.mailbox = m /\ x.boot = boot /\ Recent(x.began, Day)}
          = ComparedSince(m, time)
    BY <2>1 DEF ComparedSince, Recent
  <2>3. /\ Cardinality(ComparedSince(m, time)) \in Nat
        /\ Cardinality(GuessingSince(m, time)) \in Nat
        /\ Cardinality(SlotsSince(m, time)) \in Nat
    BY SinceAreFinite
  <2>4. /\ Cardinality(ComparedSince(m, time)) + Cardinality(GuessingSince(m, time))
             <= Cardinality(SlotsSince(m, time))
        /\ Cardinality(SlotsSince(m, time)) <= MaxGuesses
    BY <2>1 DEF GuessInv, GuessesPaid, SlotsCapped
  <2>5. Cardinality(ComparedSince(m, time)) <= MaxGuesses
    BY <2>3, <2>4, WindowsAssumption
  <2> QED BY <2>2, <2>5
<1> QED BY <1>1, AttemptsAreCapped, AlwaysGuessInv, PTL DEF GuessingIsCapped

-------------------------------------------------------------------------------
(* What an hour may bring *)

\* The codes of a mailbox that count against an hour's cap, from the moment the
\* limits let them go.
GoneLately(m) ==
  {s \in Stored : /\ LetGo(s) /\ code[s].topic.mailbox = m
                  /\ Recent(code[s].createdAt, Hour)}

ApprovedCap == \A m \in Mailboxes : Cardinality(GoneLately(m)) <= MaxPerAddress

LEMMA GoneIsFinite ==
  ASSUME NEW m
  PROVE  IsFiniteSet(GoneLately(m)) /\ Cardinality(GoneLately(m)) \in Nat
<1>1. GoneLately(m) \in SUBSET Sends
  BY DEF GoneLately, Stored
<1> QED BY <1>1, FS_Subset, FS_CardinalityType, WindowsAssumption

LEMMA FewerGone ==
  ASSUME ApprovedCap, \A m \in Mailboxes : GoneLately(m)' \subseteq GoneLately(m)
  PROVE  ApprovedCap'
<1> SUFFICES ASSUME NEW m \in Mailboxes
             PROVE  Cardinality(GoneLately(m)') <= MaxPerAddress
  BY DEF ApprovedCap
<1>1. GoneLately(m)' \in SUBSET GoneLately(m)
  OBVIOUS
<1>2. /\ Cardinality(GoneLately(m)') <= Cardinality(GoneLately(m))
      /\ Cardinality(GoneLately(m)) \in Nat /\ Cardinality(GoneLately(m)') \in Nat
  BY <1>1, GoneIsFinite, FS_Subset, FS_CardinalityType
<1> QED BY <1>2, WindowsAssumption DEF ApprovedCap

\* Whoever is let go has just found fewer than MaxPerAddress others.
LEMMA LettingGo ==
  ASSUME SendInv, ApprovedCap, NEW s \in Sends, SendCount(s) PROVE ApprovedCap'
<1> USE DEF SendInv, Typed, TypeOK
<1>1. /\ UNCHANGED <<now, code, mailed>>
      /\ \A t \in Sends \ {s} : spc'[t] = spc[t]
      /\ spc'[s] \in {"mail", "undo"}
  BY DEF SendCount
<1>2. CASE spc'[s] = "undo"
  <2>1. \A m \in Mailboxes : GoneLately(m)' \subseteq GoneLately(m)
    BY <1>1, <1>2 DEF GoneLately, Stored, LetGo, Recent
  <2> QED BY <2>1, FewerGone
<1>3. CASE spc'[s] = "mail"
  <2>1. s \in Stored /\ Cardinality(CountedWith(s)) < MaxPerAddress
    BY <1>3 DEF SendCount, WithinLimits
  <2> SUFFICES ASSUME NEW m \in Mailboxes
               PROVE  Cardinality(GoneLately(m)') <= MaxPerAddress
    BY DEF ApprovedCap
  <2>2. CASE code[s].topic.mailbox # m
    <3>1. GoneLately(m)' = GoneLately(m)
      BY <1>1, <2>2 DEF GoneLately, Stored, LetGo, Recent
    <3> QED BY <3>1 DEF ApprovedCap
  <2>3. CASE code[s].topic.mailbox = m
    <3>1. GoneLately(m)' \in SUBSET (CountedWith(s) \cup {s})
      BY <1>1, <2>3 DEF GoneLately, CountedWith, Stored, Recent
    <3>2. IsFiniteSet(CountedWith(s)) /\ Cardinality(CountedWith(s)) \in Nat
      <4>1. CountedWith(s) \in SUBSET Sends
        BY DEF CountedWith, Stored
      <4> QED BY <4>1, FS_Subset, FS_CardinalityType, WindowsAssumption
    <3>3. /\ IsFiniteSet(CountedWith(s) \cup {s})
          /\ Cardinality(CountedWith(s) \cup {s}) = Cardinality(CountedWith(s)) + 1
      <4>1. s \notin CountedWith(s)
        BY DEF CountedWith
      <4> QED BY <3>2, <4>1, FS_AddElement
    <3>4. /\ Cardinality(GoneLately(m)') <= Cardinality(CountedWith(s) \cup {s})
          /\ Cardinality(GoneLately(m)') \in Nat
      BY <3>1, <3>3, FS_Subset, FS_CardinalityType
    <3> QED BY <2>1, <3>2, <3>3, <3>4, WindowsAssumption
  <2> QED BY <2>2, <2>3
<1> QED BY <1>1, <1>2, <1>3

\* Only the count lets a code go.
LEMMA LetGoByCount ==
  ASSUME Typed, [Next]_vars
  PROVE  (\E s \in Sends : SendCount(s)) \/ (\A s \in Sends : LetGo(s)' => LetGo(s))
<1> USE DEF Typed, TypeOK, LetGo
<1>1. ASSUME NEW s \in Sends, SendStep(s), ~SendCount(s)
      PROVE  \A t \in Sends : LetGo(t)' => LetGo(t)
  BY <1>1 DEF SendStep, SendStart, SendInsert, SendUndo, SendMail, SendVoid, SendDbFault
<1>2. ASSUME NEW c \in Checks, CheckStep(c) PROVE UNCHANGED <<spc, mailed>>
  BY <1>2 DEF CheckStep, CheckStart, CheckLock, CheckCompare, CheckSpend, CheckVoid,
              CheckDbFault, sendVars
<1>3. CASE Tick \/ CleanUp \/ UNCHANGED vars
  BY <1>3 DEF Tick, CleanUp, vars, sendVars
<1>4. CASE Restart
  BY <1>4 DEF Restart, InFlight
<1> QED BY <1>1, <1>2, <1>3, <1>4 DEF Next

LEMMA AlwaysApprovedCap == Spec => []ApprovedCap
<1>1. Init => ApprovedCap
  <2> SUFFICES ASSUME Init, NEW m \in Mailboxes PROVE Cardinality(GoneLately(m)) <= MaxPerAddress
    BY DEF ApprovedCap
  <2>1. GoneLately(m) = {}
    BY DEF Init, GoneLately, Stored
  <2> QED BY <2>1, FS_EmptySet, WindowsAssumption
<1>2. SpentInv /\ SendInv /\ SendInv' /\ ApprovedCap /\ [Next]_vars => ApprovedCap'
  <2> SUFFICES ASSUME SpentInv, SendInv, SendInv', ApprovedCap, [Next]_vars PROVE ApprovedCap'
    OBVIOUS
  <2>1. Typed /\ Typed' /\ RowsInserted /\ RowsOwned'
    BY DEF SendInv, SpentInv
  <2>2. RowsKept
    BY <2>1, StepsKeepRows
  <2>3. ASSUME \A s \in Sends : LetGo(s)' => LetGo(s) PROVE ApprovedCap'
    <3>1. \A m \in Mailboxes : GoneLately(m)' \subseteq GoneLately(m)
      <4> SUFFICES ASSUME NEW m \in Mailboxes, NEW s \in GoneLately(m)'
                   PROVE  s \in GoneLately(m)
        OBVIOUS
      <4>1. s \in Sends /\ code'[s] # None /\ LetGo(s)' /\ LetGo(s)
        BY <2>3 DEF GoneLately, Stored
      <4>2. spc'[s] # "count"
        BY <2>1, <4>1 DEF RowsOwned, LetGo
      <4>3. /\ code[s] # None /\ code'[s].topic = code[s].topic
            /\ code'[s].createdAt = code[s].createdAt /\ now <= now'
        BY <2>2, <4>1, <4>2 DEF RowsKept, Stored
      <4>4. code[s].createdAt \in Nat /\ now \in Nat /\ now' \in Nat
        BY <2>1, <4>1, <4>3 DEF Typed, TypeOK, Row
      <4> QED BY <4>1, <4>3, <4>4, WindowsAssumption DEF GoneLately, Stored, Recent
    <3> QED BY <3>1, FewerGone
  <2> QED BY <2>1, <2>3, LettingGo, LetGoByCount
<1> QED BY <1>1, <1>2, AlwaysSendInv, AlwaysSpentInv, PTL DEF Spec

\* The limiter's slots of an address, and the slot a send holds unless it fails.
IpSlotsSince(ip, time) == {x \in ipSlots : x.ip = ip /\ x.at + Hour > time}
SlotOf(s) == [send |-> s, ip |-> asked[s].ip, at |-> asked[s].at]

IpInv ==
  /\ Typed
  /\ IsFiniteSet(ipSlots)
  /\ \A ip \in Ips, time \in Nat :
       now <= time => Cardinality(IpSlotsSince(ip, time)) <= MaxPerIp
  /\ \A s \in Sends : spc[s] # "idle" => asked[s].boot <= boot
  /\ \A s \in Sends : spc[s] \notin {"idle", "failed"} /\ asked[s].boot = boot =>
                        SlotOf(s) \in ipSlots
  /\ \A x \in ipSlots : /\ spc[x.send] \notin {"idle", "failed"}
                         /\ x = SlotOf(x.send) /\ asked[x.send].boot = boot

LEMMA IpSlotsAreFinite ==
  ASSUME IsFiniteSet(ipSlots), NEW ip \in Ips, NEW time \in Nat
  PROVE  IsFiniteSet(IpSlotsSince(ip, time)) /\ Cardinality(IpSlotsSince(ip, time)) \in Nat
<1>1. IpSlotsSince(ip, time) \in SUBSET ipSlots
  BY DEF IpSlotsSince
<1> QED BY <1>1, FS_Subset, FS_CardinalityType

LEMMA FewerIpSlots ==
  ASSUME IpInv, now <= now', Typed', ipSlots' \in SUBSET ipSlots
  PROVE  /\ IsFiniteSet(ipSlots')
         /\ \A ip \in Ips, time \in Nat :
              now' <= time => Cardinality(IpSlotsSince(ip, time)') <= MaxPerIp
<1>1. IsFiniteSet(ipSlots')
  BY FS_Subset DEF IpInv
<1>2. ASSUME NEW ip \in Ips, NEW time \in Nat, now' <= time
      PROVE  Cardinality(IpSlotsSince(ip, time)') <= MaxPerIp
  <2>1. IpSlotsSince(ip, time)' \in SUBSET IpSlotsSince(ip, time)
    BY DEF IpSlotsSince
  <2>2. /\ IsFiniteSet(IpSlotsSince(ip, time)) /\ Cardinality(IpSlotsSince(ip, time)) \in Nat
    BY IpSlotsAreFinite DEF IpInv
  <2>3. /\ Cardinality(IpSlotsSince(ip, time)') <= Cardinality(IpSlotsSince(ip, time))
        /\ Cardinality(IpSlotsSince(ip, time)') \in Nat
    BY <2>1, <2>2, FS_Subset, FS_CardinalityType
  <2>4. Cardinality(IpSlotsSince(ip, time)) <= MaxPerIp
    BY <1>2 DEF IpInv, Typed, TypeOK
  <2> QED BY <2>2, <2>3, <2>4, WindowsAssumption
<1> QED BY <1>1, <1>2

LEMMA StartingTakesASlot ==
  ASSUME IpInv, NEW s \in Sends, SendStart(s), Typed' PROVE IpInv'
<1> USE DEF Typed, TypeOK
<1>1. PICK topic \in Topic, ip0 \in Ips :
        /\ asked' = [asked EXCEPT ![s] =
                       [topic |-> topic, ip |-> ip0, at |-> now, boot |-> boot]]
        /\ \/ /\ IpSlotsLeft(ip0)
              /\ spc' = [spc EXCEPT ![s] = "insert"]
              /\ ipSlots' = ipSlots \cup {[send |-> s, ip |-> ip0, at |-> now]}
           \/ /\ spc' = [spc EXCEPT ![s] = "failed"]
              /\ ipSlots' = ipSlots
  BY DEF SendStart
<1>2. spc[s] = "idle" /\ UNCHANGED <<now, boot>>
  BY DEF SendStart
<1> DEFINE slot == [send |-> s, ip |-> ip0, at |-> now]
<1>3. /\ asked'[s].boot = boot /\ asked'[s].ip = ip0 /\ asked'[s].at = now
      /\ \A t \in Sends \ {s} : asked'[t] = asked[t] /\ spc'[t] = spc[t]
  BY <1>1 DEF IpInv
<1>4. ipSlots' \in {ipSlots, ipSlots \cup {slot}}
  BY <1>1
<1>5. /\ \A t \in Sends : spc'[t] # "idle" => asked'[t].boot <= boot'
      /\ \A t \in Sends : spc'[t] \notin {"idle", "failed"} /\ asked'[t].boot = boot' =>
                            SlotOf(t)' \in ipSlots'
  BY <1>1, <1>2, <1>3 DEF IpInv, SlotOf
<1>8. \A x \in ipSlots' : /\ spc'[x.send] \notin {"idle", "failed"}
                          /\ x = SlotOf(x.send)' /\ asked'[x.send].boot = boot'
  <2>1. ASSUME NEW x \in ipSlots
        PROVE  /\ spc'[x.send] \notin {"idle", "failed"}
               /\ x = SlotOf(x.send)' /\ asked'[x.send].boot = boot'
    <3>1. x.send \in Sends /\ x.send # s
      BY <1>2, <2>1 DEF IpInv, IpSlot
    <3> QED BY <1>2, <1>3, <2>1, <3>1 DEF IpInv, SlotOf
  <2>2. CASE ipSlots' = ipSlots
    BY <2>1, <2>2
  <2>3. CASE ipSlots' = ipSlots \cup {slot} /\ spc' = [spc EXCEPT ![s] = "insert"]
    <3>1. spc'[s] = "insert" /\ slot = SlotOf(s)' /\ asked'[s].boot = boot' /\ slot.send = s
      BY <1>2, <1>3, <2>3 DEF IpInv, SlotOf
    <3> HIDE DEF slot
    <3> QED BY <2>1, <2>3, <3>1
  <2> QED BY <1>1, <2>2, <2>3
<1>6. CASE ipSlots' = ipSlots
  <2>1. /\ IsFiniteSet(ipSlots')
        /\ \A ip \in Ips, time \in Nat :
             now' <= time => Cardinality(IpSlotsSince(ip, time)') <= MaxPerIp
    BY <1>2, <1>6, FewerIpSlots DEF IpInv
  <2> QED BY <1>5, <1>8, <2>1 DEF IpInv
<1>7. CASE IpSlotsLeft(ip0) /\ ipSlots' = ipSlots \cup {slot}
  <2> HIDE DEF slot
  <2>1. IsFiniteSet(ipSlots')
    BY <1>7, FS_AddElement DEF IpInv
  <2>2. ASSUME NEW ip \in Ips, NEW time \in Nat, now <= time
        PROVE  Cardinality(IpSlotsSince(ip, time)') <= MaxPerIp
    <3>1. /\ IsFiniteSet(IpSlotsSince(ip, time)) /\ Cardinality(IpSlotsSince(ip, time)) \in Nat
          /\ Cardinality(IpSlotsSince(ip, time)) <= MaxPerIp
      BY <2>2, IpSlotsAreFinite DEF IpInv
    <3>2. CASE ip # ip0
      <4>1. IpSlotsSince(ip, time)' = IpSlotsSince(ip, time)
        BY <1>7, <3>2 DEF IpSlotsSince, slot
      <4> QED BY <3>1, <4>1
    <3>3. CASE ip = ip0
      <4> DEFINE recent == {x \in ipSlots : x.ip = ip0 /\ Recent(x.at, Hour)}
      <4>1. IpSlotsSince(ip, time) \in SUBSET recent
        BY <2>2, <3>3, WindowsAssumption DEF IpInv, IpSlotsSince, Recent, IpSlot
      <4>2. Cardinality(recent) < MaxPerIp
        BY <1>7 DEF IpSlotsLeft
      <4>3. recent \in SUBSET ipSlots
        OBVIOUS
      <4> HIDE DEF recent
      <4>4. IsFiniteSet(recent) /\ Cardinality(recent) \in Nat
        BY <4>3, FS_Subset, FS_CardinalityType DEF IpInv
      <4>5. Cardinality(IpSlotsSince(ip, time)) <= Cardinality(recent)
        BY <4>1, <4>4, FS_Subset
      <4>6. IpSlotsSince(ip, time)' \in SUBSET (IpSlotsSince(ip, time) \cup {slot})
        BY <1>7 DEF IpSlotsSince
      <4>7. /\ IsFiniteSet(IpSlotsSince(ip, time) \cup {slot})
            /\ \/ Cardinality(IpSlotsSince(ip, time) \cup {slot})
                    = Cardinality(IpSlotsSince(ip, time))
               \/ Cardinality(IpSlotsSince(ip, time) \cup {slot})
                    = Cardinality(IpSlotsSince(ip, time)) + 1
        BY <3>1, FS_AddElement, Zenon
      <4>8. /\ Cardinality(IpSlotsSince(ip, time)')
                 <= Cardinality(IpSlotsSince(ip, time) \cup {slot})
            /\ Cardinality(IpSlotsSince(ip, time)') \in Nat
        BY <4>6, <4>7, FS_Subset, FS_CardinalityType
      <4> QED BY <3>1, <4>2, <4>4, <4>5, <4>7, <4>8, WindowsAssumption
    <3> QED BY <3>2, <3>3
  <2> QED BY <1>2, <1>5, <1>8, <2>1, <2>2 DEF IpInv
<1> QED BY <1>1, <1>6, <1>7

\* Other steps only give slots back, a send its own when it fails.
LEMMA SlotsGivenBack ==
  ASSUME IpInv, Typed', [Next]_vars, \A s \in Sends : ~SendStart(s) PROVE IpInv'
<1> USE DEF Typed, TypeOK
<1> DEFINE KeepsSlot(s) ==
             /\ spc'[s] # "idle" => spc[s] # "idle"
             /\ spc'[s] \notin {"idle", "failed"} =>
                  /\ spc[s] \notin {"idle", "failed"}
                  /\ SlotOf(s) \in ipSlots => SlotOf(s) \in ipSlots'
<1>1. CASE Restart
  <2>1. /\ ipSlots' = {} /\ now' = now /\ boot' = boot + 1 /\ asked' = asked
        /\ \A s \in Sends : spc'[s] # "idle" => spc[s] # "idle"
    BY <1>1 DEF Restart, InFlight, IpInv
  <2>2. \A s \in Sends : spc[s] # "idle" => asked[s].boot \in Nat /\ asked[s].boot <= boot
    BY DEF IpInv, Request
  <2>3. /\ IsFiniteSet(ipSlots')
        /\ \A ip \in Ips, time \in Nat :
             now' <= time => Cardinality(IpSlotsSince(ip, time)') <= MaxPerIp
    BY <2>1, FewerIpSlots DEF IpInv
  <2>4. boot \in Nat
    BY DEF IpInv
  <2> QED BY <2>1, <2>2, <2>3, <2>4 DEF IpInv
<1>2. CASE ~Restart
  <2> DEFINE Kept ==
               /\ now <= now' /\ ipSlots' \in SUBSET ipSlots /\ boot' = boot /\ asked' = asked
               /\ \A s \in Sends : KeepsSlot(s)
               /\ \A x \in ipSlots' : spc'[x.send] \notin {"idle", "failed"}
  <2>1. Kept
    <3>1. ASSUME NEW s \in Sends, SendStep(s) PROVE Kept
      <4>1. /\ now' = now /\ boot' = boot /\ asked' = asked
            /\ spc[s] # "idle" /\ \A t \in Sends \ {s} : spc'[t] = spc[t]
            /\ spc'[s] \in SendStates \ {"idle"} /\ spc[s] \notin {"idle", "failed"}
            /\ \/ ipSlots' = ipSlots /\ spc'[s] # "failed"
               \/ ReleaseIpSlot(s) /\ spc'[s] = "failed"
        BY <3>1 DEF SendStep, SendInsert, SendCount, SendUndo, SendMail, SendVoid,
                    SendDbFault, SendStates, IpInv
      <4>2. \A t \in Sends \ {s} : SlotOf(t).send # s
        BY DEF SlotOf
      <4>3. \A t \in Sends : KeepsSlot(t)
        BY <4>1, <4>2 DEF ReleaseIpSlot, IpInv
      <4>4. ipSlots' \in SUBSET ipSlots
        BY <4>1 DEF ReleaseIpSlot
      <4>5. ASSUME NEW x \in ipSlots' PROVE spc'[x.send] \notin {"idle", "failed"}
        <5>1. x \in ipSlots /\ x.send \in Sends /\ spc[x.send] \notin {"idle", "failed"}
          BY <4>4, <4>5 DEF IpInv, IpSlot
        <5>2. CASE x.send # s
          BY <4>1, <5>1, <5>2
        <5>3. CASE x.send = s
          BY <4>1, <4>5, <5>3 DEF ReleaseIpSlot
        <5> QED BY <5>2, <5>3
      <4> QED BY <4>1, <4>3, <4>4, <4>5 DEF IpInv
    <3>2. ASSUME NEW c \in Checks, CheckStep(c) PROVE Kept
      <4>1. UNCHANGED <<now, boot, asked, spc, ipSlots>>
        BY <3>2 DEF CheckStep, CheckStart, CheckLock, CheckCompare, CheckSpend, CheckVoid,
                    CheckDbFault, sendVars
      <4> QED BY <4>1 DEF IpInv
    <3>3. CASE Tick \/ CleanUp \/ UNCHANGED vars
      BY <3>3 DEF Tick, CleanUp, vars, sendVars, IpInv
    <3> QED BY <1>2, <3>1, <3>2, <3>3 DEF Next
  <2>2. /\ IsFiniteSet(ipSlots')
        /\ \A ip \in Ips, time \in Nat :
             now' <= time => Cardinality(IpSlotsSince(ip, time)') <= MaxPerIp
    BY <2>1, FewerIpSlots
  <2>3. \A s \in Sends : SlotOf(s)' = SlotOf(s)
    BY <2>1 DEF SlotOf
  <2>4. \A x \in ipSlots' : /\ x \in ipSlots /\ x.send \in Sends
                            /\ x = SlotOf(x.send) /\ asked[x.send].boot = boot
    BY <2>1 DEF IpInv, IpSlot
  <2>5. \A x \in ipSlots' : /\ spc'[x.send] \notin {"idle", "failed"}
                            /\ x = SlotOf(x.send)' /\ asked'[x.send].boot = boot'
    BY <2>1, <2>3, <2>4
  <2> QED BY <2>1, <2>2, <2>3, <2>5 DEF IpInv
<1> QED BY <1>1, <1>2

LEMMA AlwaysIpInv == Spec => []IpInv
<1>1. Init => IpInv
  <2> SUFFICES ASSUME Init PROVE IpInv
    OBVIOUS
  <2>1. Typed /\ ipSlots = {} /\ \A s \in Sends : spc[s] = "idle"
    BY TypedInit DEF Init
  <2>2. \A ip \in Ips, time \in Nat : IpSlotsSince(ip, time) = {}
    BY <2>1 DEF IpSlotsSince
  <2>3. \A ip \in Ips, time \in Nat : Cardinality(IpSlotsSince(ip, time)) = 0
    BY <2>2, FS_EmptySet
  <2> QED BY <2>1, <2>3, FS_EmptySet, WindowsAssumption DEF IpInv
<1>2. IpInv /\ [Next]_vars => IpInv'
  <2> SUFFICES ASSUME IpInv, [Next]_vars PROVE IpInv'
    OBVIOUS
  <2>1. Typed'
    BY TypedStep DEF IpInv
  <2> QED BY <2>1, StartingTakesASlot, SlotsGivenBack
<1> QED BY <1>1, <1>2, PTL DEF Spec

\* An hour brings a mailbox at most MaxPerAddress codes, whatever sends race,
\* and a requester's address at most MaxPerIp: each send holds its slot from its
\* start, and one that fails gives it back.
THEOREM HoursAreCapped == Spec => []HourCaps
<1>1. ApprovedCap => AddressHourCap
  <2> SUFFICES ASSUME ApprovedCap, NEW m \in Mailboxes
               PROVE  Cardinality({s \in Stored : /\ WentOut(s) /\ code[s].topic.mailbox = m
                                                  /\ Recent(code[s].createdAt, Hour)}) <= MaxPerAddress
    BY DEF AddressHourCap
  <2> DEFINE out == {s \in Stored : /\ WentOut(s) /\ code[s].topic.mailbox = m
                                    /\ Recent(code[s].createdAt, Hour)}
  <2>1. out \in SUBSET GoneLately(m)
    BY DEF GoneLately, WentOut, LetGo
  <2> HIDE DEF out
  <2>2. Cardinality(out) <= Cardinality(GoneLately(m)) /\ Cardinality(out) \in Nat
    BY <2>1, GoneIsFinite, FS_Subset, FS_CardinalityType
  <2>3. Cardinality(GoneLately(m)) <= MaxPerAddress /\ Cardinality(GoneLately(m)) \in Nat
    BY GoneIsFinite DEF ApprovedCap
  <2>4. Cardinality(out) <= MaxPerAddress
    BY <2>2, <2>3, WindowsAssumption
  <2> QED BY <2>4 DEF out
<1>2. IpInv => IpHourCap
  <2> SUFFICES ASSUME IpInv, NEW ip \in Ips
               PROVE  Cardinality({s \in mailed : /\ spc[s] \in {"void", "sent"}
                                                  /\ asked[s].ip = ip /\ asked[s].boot = boot
                                                  /\ Recent(asked[s].at, Hour)}) <= MaxPerIp
    BY DEF IpHourCap
  <2> DEFINE out == {s \in mailed : /\ spc[s] \in {"void", "sent"}
                                    /\ asked[s].ip = ip /\ asked[s].boot = boot
                                    /\ Recent(asked[s].at, Hour)}
             slotOf == [s \in out |-> SlotOf(s)]
  <2>1. PICK time \in Nat : time = now
    BY DEF IpInv, Typed, TypeOK
  <2>2. \A s \in out : SlotOf(s) \in IpSlotsSince(ip, time)
    BY <2>1 DEF IpInv, Typed, TypeOK, IpSlotsSince, SlotOf, Recent
  <2>3. \A s, t \in out : SlotOf(s) = SlotOf(t) => s = t
    <3>1. \A s \in out : SlotOf(s).send = s
      BY DEF SlotOf
    <3> QED BY <3>1
  <2> HIDE DEF out
  <2>4. slotOf \in Injection(out, IpSlotsSince(ip, time))
    BY <2>2, <2>3 DEF Injection, IsInjective
  <2>5. /\ IsFiniteSet(IpSlotsSince(ip, time)) /\ Cardinality(IpSlotsSince(ip, time)) \in Nat
        /\ Cardinality(IpSlotsSince(ip, time)) <= MaxPerIp
    BY <2>1, IpSlotsAreFinite DEF IpInv
  <2>6. Cardinality(out) <= Cardinality(IpSlotsSince(ip, time)) /\ Cardinality(out) \in Nat
    BY <2>4, <2>5, FS_Injection, FS_CardinalityType
  <2>7. Cardinality(out) <= MaxPerIp
    BY <2>5, <2>6, WindowsAssumption
  <2> QED BY <2>7 DEF out
<1>3. IpInv => SlotsAreKept
  <2> SUFFICES ASSUME IpInv PROVE SlotsAreKept
    OBVIOUS
  <2>1. \A x, y \in ipSlots : x.send = y.send => x = y
    BY DEF IpInv
  <2>2. \A x \in ipSlots : /\ x.send \in Sends /\ spc[x.send] \notin {"idle", "failed"}
                           /\ asked[x.send].boot = boot
    BY DEF IpInv, Typed, TypeOK, IpSlot
  <2>3. \A s \in Sends : spc[s] \notin {"idle", "failed"} /\ asked[s].boot = boot =>
                          SlotOf(s) \in ipSlots /\ SlotOf(s).send = s
    BY DEF IpInv, SlotOf
  <2> QED BY <2>1, <2>2, <2>3 DEF SlotsAreKept
<1> QED BY <1>1, <1>2, <1>3, AlwaysApprovedCap, AlwaysIpInv, PTL DEF HourCaps

-------------------------------------------------------------------------------
(* The code asked for last *)

\* The clock waits for a send, so its row, its approval and its mail are not
\* far from its start.
OnTime(s) ==
  /\ spc[s] # "idle" => asked[s].at <= now
  /\ InFlight(s) => now <= asked[s].at + SendTime
  /\ spc[s] \in {"count", "mail", "void"} => s \in Stored
  /\ spc[s] \in {"void", "sent"} => s \in mailed
  /\ s \in Stored => asked[s].at <= code[s].createdAt
  /\ s \in Stored /\ LetGo(s) => approvedAt[s] <= now /\ approvedAt[s] <= asked[s].at + SendTime

Uncompared(s) == \A x \in compared : asked[x.row].topic # code[s].topic

\* t is a completed send that will make the count of s find it too soon.
TooSoonFor(s, t) ==
  /\ t \in Stored \ {s} /\ spc[t] = "sent" /\ code[t].topic = code[s].topic
  /\ asked[s].at + SendTime < code[t].createdAt + MinResend

\* t is the requester's later code.
LaterThan(s, t) ==
  /\ t \in Stored \ {s} /\ spc[t] = "sent"
  /\ code[t].topic = code[s].topic /\ code[t].ip = code[s].ip
  /\ code[s].createdAt <= code[t].createdAt

\* Why a code that nobody's entry touched was brought to expire: its send has
\* failed or is bound to, or the requester has a later one.
VoidedWhy(s) ==
  /\ s \in Stored /\ Uncompared(s) /\ code[s].expireAt # code[s].createdAt + Ttl
  => \/ spc[s] \in {"undo", "failed"}
     \/ spc[s] = "count" /\ \E t \in Sends : TooSoonFor(s, t)
     \/ \E t \in Sends : LaterThan(s, t)

QuickSends == SendTime + SendTime < MinResend

LatestInv == DueInv /\ \A s \in Sends : OnTime(s) /\ VoidedWhy(s)

LEMMA LatestInit == Init => LatestInv
BY DueInit DEF Init, LatestInv, OnTime, VoidedWhy, InFlight, Stored

LEMMA RowsAreKept == DueInv /\ [Next]_vars => RowsKept
BY StepsKeepRows DEF DueInv, SpentInv

LEMMA SendsOnTime ==
  ASSUME QuickSends, LatestInv, RowsKept, NEW s \in Sends, SendStep(s), Typed', NEW t \in Sends
  PROVE  OnTime(t)'
<1> USE WindowsAssumption DEF Typed, TypeOK, SendStates, InFlight
<1>0. /\ Typed /\ RowsInserted /\ RowsOwned /\ OnTime(s) /\ OnTime(t)
  BY DEF LatestInv, DueInv, SendInv, SpentInv
<1>1. CASE SendStart(s)
  BY <1>0, <1>1 DEF SendStart, OnTime, RowsInserted, RowsOwned, Inserted, Stored, LetGo
<1>2. CASE SendInsert(s)
  <2>1. code'[s] # None /\ code'[s].createdAt = now
    <3>1. [topic |-> asked[s].topic, ip |-> asked[s].ip, createdAt |-> now,
           expireAt |-> now + Ttl, attempts |-> 0] \in Row
      BY <1>0, <1>2 DEF SendInsert, Row, Request
    <3> QED BY <1>0, <1>2, <3>1, NoneIsNoRow DEF SendInsert
  <2>2. /\ s \notin mailed /\ spc'[s] = "count" /\ spc[s] = "insert"
        /\ UNCHANGED <<now, asked, approvedAt, mailed>>
        /\ \A u \in Sends \ {s} : spc'[u] = spc[u] /\ code'[u] = code[u]
    BY <1>0, <1>2 DEF SendInsert, RowsOwned
  <2> QED BY <1>0, <2>1, <2>2 DEF OnTime, Stored, LetGo
<1>3. CASE SendCount(s)
  BY <1>0, <1>3 DEF SendCount, OnTime, Stored, LetGo, Request
<1>4. CASE SendUndo(s)
  BY <1>0, <1>4 DEF SendUndo, OnTime, Stored, LetGo
<1>5. CASE SendMail(s)
  BY <1>0, <1>5 DEF SendMail, OnTime, Stored, LetGo
<1>6. CASE SendVoid(s)
  <2>1. /\ spc[s] = "void" /\ spc' = [spc EXCEPT ![s] = "sent"]
        /\ UNCHANGED <<now, asked, approvedAt, mailed>>
    BY <1>6 DEF SendVoid
  <2>2. code'[t] # None => code[t] # None /\ code'[t].createdAt = code[t].createdAt
    BY <1>0, <1>6 DEF SendVoid, Superseded, Stored, Row
  <2>3. code[t] # None => code'[t] # None
    <3>1. code[t] # None => [code[t] EXCEPT !.expireAt = now] \in Row
      BY <1>0, ExpiredIsRow
    <3> QED BY <1>0, <1>6, <3>1, NoneIsNoRow DEF SendVoid, Superseded, Stored
  <2> QED BY <1>0, <2>1, <2>2, <2>3 DEF OnTime, Stored, LetGo
<1>7. CASE SendDbFault(s)
  BY <1>0, <1>7 DEF SendDbFault, OnTime, Stored, LetGo
<1> QED BY <1>1, <1>2, <1>3, <1>4, <1>5, <1>6, <1>7 DEF SendStep

LEMMA ChecksDeleteNothing ==
  ASSUME Typed, NEW c \in Checks, CheckStep(c), NEW t \in Sends, code[t] # None
  PROVE  code'[t] # None
<1>1. code[t] \in Row
  BY DEF Typed, TypeOK
<1>2. /\ code[t].attempts < MaxAttempts =>
           [code[t] EXCEPT !.attempts = code[t].attempts + 1] \in Row
      /\ [code[t] EXCEPT !.expireAt = now] \in Row
  BY <1>1, WindowsAssumption DEF Typed, TypeOK, Row
<1>3. \/ code'[t] = code[t]
      \/ /\ code[t].attempts < MaxAttempts
         /\ code'[t] = [code[t] EXCEPT !.attempts = code[t].attempts + 1]
      \/ code'[t] = [code[t] EXCEPT !.expireAt = now]
  BY DEF CheckStep, CheckStart, CheckLock, CheckCompare, CheckSpend, CheckVoid,
         CheckDbFault, Typed, TypeOK, LiveFor, Live
<1> QED BY <1>2, <1>3, NoneIsNoRow

LEMMA ChecksOnTime ==
  ASSUME LatestInv, RowsKept, NEW c \in Checks, CheckStep(c), NEW t \in Sends
  PROVE  OnTime(t)'
<1>1. Typed /\ OnTime(t)
  BY DEF LatestInv, DueInv, SpentInv
<1>2. UNCHANGED <<now, spc, asked, mailed, approvedAt>>
  BY DEF CheckStep, CheckStart, CheckLock, CheckCompare, CheckSpend, CheckVoid,
         CheckDbFault, sendVars
<1>3. code[t] # None => code'[t] # None
  BY <1>1, ChecksDeleteNothing
<1> QED BY <1>1, <1>2, <1>3 DEF OnTime, RowsKept, Stored, InFlight, LetGo

LEMMA EnvironmentOnTime ==
  ASSUME QuickSends, LatestInv, Tick \/ CleanUp \/ Restart, Typed', NEW t \in Sends
  PROVE  OnTime(t)'
<1> USE WindowsAssumption DEF Typed, TypeOK, InFlight, SendStates, Stored, LetGo
<1>1. Typed /\ OnTime(t)
  BY DEF LatestInv, DueInv, SpentInv
<1>2. CASE Tick
  BY <1>1, <1>2 DEF Tick, OnTime, sendVars, Request
<1>3. CASE CleanUp
  <2>1. UNCHANGED <<now, spc, asked, mailed, approvedAt>> /\ code'[t] \in {code[t], None}
    BY <1>1, <1>3 DEF CleanUp, sendVars
  <2>2. InFlight(t) /\ code[t] # None => code'[t] = code[t]
    <3> SUFFICES ASSUME InFlight(t), code[t] # None, code[t].createdAt + Day < now PROVE FALSE
      BY <1>1, <1>3 DEF CleanUp
    <3>1. /\ asked[t].at \in Nat /\ code[t].createdAt \in Nat /\ now \in Nat
          /\ asked[t].at <= code[t].createdAt /\ now <= asked[t].at + SendTime
      BY <1>1 DEF OnTime, Request, Row
    <3> QED BY <3>1 DEF QuickSends
  <2> QED BY <1>1, <2>1, <2>2 DEF OnTime
<1>4. CASE Restart
  BY <1>1, <1>4 DEF Restart, OnTime
<1> QED BY <1>2, <1>3, <1>4

\* A row whose expiry no step has changed is as explained as before, as long as
\* the completed sends that explain it are stored.
LEMMA VoidedWhyStays ==
  ASSUME LatestInv, RowsKept, NEW s \in Sends, code[s] # None,
         code'[s] # None => code'[s].expireAt = code[s].expireAt,
         \/ spc'[s] = spc[s] \/ spc'[s] \in {"undo", "failed"}
         \/ spc[s] \notin {"count", "undo", "failed"},
         \A t \in Sends :
           (spc[s] = "count" /\ TooSoonFor(s, t)) \/ LaterThan(s, t) =>
             spc'[t] = "sent" /\ code'[t] # None
  PROVE  VoidedWhy(s)'
<1> SUFFICES ASSUME code'[s] # None, Uncompared(s)', code'[s].expireAt # code'[s].createdAt + Ttl
             PROVE  \/ spc'[s] \in {"undo", "failed"}
                    \/ spc'[s] = "count" /\ \E t \in Sends : TooSoonFor(s, t)'
                    \/ \E t \in Sends : LaterThan(s, t)'
  BY DEF VoidedWhy, Stored
<1>0. Typed /\ RowsInserted /\ HeldIsDue /\ VoidedWhy(s)
  BY DEF LatestInv, DueInv, SpentInv
<1>1. /\ code'[s].topic = code[s].topic /\ code'[s].ip = code[s].ip
      /\ code'[s].createdAt = code[s].createdAt /\ asked'[s] = asked[s]
  BY <1>0 DEF RowsKept, RowsInserted, Stored, Inserted
<1>2. Uncompared(s)
  BY <1>0, <1>1 DEF Uncompared, RowsKept, HeldIsDue, Inserted, Typed, TypeOK, Comparison
<1>3. \A t \in Sends : spc[s] = "count" /\ TooSoonFor(s, t) => TooSoonFor(s, t)'
  BY <1>0, <1>1 DEF TooSoonFor, RowsKept, Stored
<1>4. \A t \in Sends : LaterThan(s, t) => LaterThan(s, t)'
  BY <1>0, <1>1 DEF LaterThan, RowsKept, Stored
<1> QED BY <1>0, <1>1, <1>2, <1>3, <1>4 DEF VoidedWhy, Stored

\* A send that completes expires codes that are older than its own, or whose
\* send it makes fail: with quick sends no other can have been let go by then.
LEMMA VoidingExplained ==
  ASSUME QuickSends, LatestInv, RowsKept, Typed', NEW t \in Sends, SendVoid(t),
         NEW s \in Superseded(t)
  PROVE  VoidedWhy(s)'
<1> USE WindowsAssumption DEF Typed, TypeOK, InFlight, SendStates
<1>0. /\ Typed /\ RowsOwned /\ SpacedApprovals /\ RowsInserted
      /\ OnTime(s) /\ OnTime(t)
  BY DEF LatestInv, DueInv, SendInv, SpentInv, Superseded, Stored
<1>1. /\ spc[t] = "void" /\ spc' = [spc EXCEPT ![t] = "sent"]
      /\ UNCHANGED <<now, asked, approvedAt, mailed>>
      /\ code' = [u \in Sends |-> IF u \in Superseded(t)
                                    THEN [code[u] EXCEPT !.expireAt = now]
                                    ELSE code[u]]
  BY DEF SendVoid
<1>2. /\ s \in Sends /\ code[s] # None /\ code[s] \in Row /\ s # t
      /\ code[s].topic = asked[t].topic /\ code[s].ip = asked[t].ip
  BY <1>0 DEF Superseded, Stored
<1>3. /\ code[t] # None /\ code[t] \in Row /\ t \in mailed
      /\ code[t].topic = asked[t].topic /\ code[t].ip = asked[t].ip
      /\ asked[t].at \in Nat /\ asked[t].at <= code[t].createdAt
      /\ now <= asked[t].at + SendTime
      /\ approvedAt[t] <= asked[t].at + SendTime
  BY <1>0, <1>1 DEF OnTime, RowsOwned, Stored, LetGo, Request
<1>4. /\ code'[t] = code[t] /\ spc'[t] = "sent" /\ spc'[s] = spc[s]
      /\ code'[s] = [code[s] EXCEPT !.expireAt = now]
      /\ code'[s].topic = code[s].topic /\ code'[s].ip = code[s].ip
      /\ code'[s].createdAt = code[s].createdAt
  BY <1>0, <1>1, <1>2 DEF Superseded, Row
<1>5. spc[s] \in {"count", "undo", "mail", "void", "sent", "failed"}
  BY <1>0, <1>2 DEF RowsInserted, Inserted, Stored
<1>6. CASE code[s].createdAt <= code[t].createdAt
  <2>1. LaterThan(s, t)'
    BY <1>2, <1>3, <1>4, <1>6 DEF LaterThan, Stored
  <2> QED BY <2>1 DEF VoidedWhy
<1>7. CASE code[t].createdAt < code[s].createdAt /\ spc[s] \in {"undo", "failed"}
  BY <1>4, <1>7 DEF VoidedWhy
<1>8. CASE code[t].createdAt < code[s].createdAt /\ spc[s] = "count"
  <2>1. asked[s].at \in Nat /\ asked[s].at <= now
    BY <1>0, <1>2, <1>8 DEF OnTime, Request
  <2>2. asked[s].at + SendTime < code[t].createdAt + MinResend
    BY <1>0, <1>3, <2>1 DEF QuickSends, Row
  <2>3. TooSoonFor(s, t)'
    BY <1>1, <1>2, <1>3, <1>4, <2>2 DEF TooSoonFor, Stored
  <2> QED BY <1>4, <1>8, <2>3 DEF VoidedWhy
<1>9. CASE code[t].createdAt < code[s].createdAt /\ spc[s] \in {"mail", "void", "sent"}
  <2>1. /\ LetGo(s) /\ LetGo(t) /\ s \in Stored /\ t \in Stored
    BY <1>0, <1>2, <1>3, <1>9 DEF OnTime, LetGo, Stored
  <2>2. \/ code[s].createdAt + MinResend <= approvedAt[t]
        \/ code[t].createdAt + MinResend <= approvedAt[s]
    BY <1>0, <1>2, <1>3, <2>1 DEF SpacedApprovals
  <2>3. /\ approvedAt[s] <= now /\ approvedAt[s] \in Nat /\ approvedAt[t] \in Nat
        /\ now \in Nat /\ code[s].createdAt \in Nat /\ code[t].createdAt \in Nat
    BY <1>0, <1>2, <1>3, <2>1 DEF OnTime, Row
  <2>4. FALSE
    BY <1>3, <1>9, <2>2, <2>3 DEF QuickSends
  <2> QED BY <2>4
<1> QED
  <2>1. code[s].createdAt \in Nat /\ code[t].createdAt \in Nat
    BY <1>2, <1>3 DEF Row
  <2> QED BY <1>5, <1>6, <1>7, <1>8, <1>9, <2>1

LEMMA SendsExplain ==
  ASSUME QuickSends, LatestInv, RowsKept, Typed', NEW t \in Sends, SendStep(t),
         NEW s \in Sends
  PROVE  VoidedWhy(s)'
<1> USE WindowsAssumption DEF Typed, TypeOK, SendStates
<1>0. Typed /\ RowsInserted /\ VoidedWhy(s) /\ OnTime(s) /\ RowsOwned
  BY DEF LatestInv, DueInv, SpentInv, SendInv
<1>1. \A u \in Sends : TooSoonFor(s, u) \/ LaterThan(s, u) => spc[u] = "sent" /\ code[u] # None
  BY DEF TooSoonFor, LaterThan, Stored
<1>2. CASE code[s] = None
  <2>1. code'[s] # None => code'[s].expireAt = code'[s].createdAt + Ttl
    BY <1>2 DEF RowsKept, Stored
  <2> QED BY <2>1 DEF VoidedWhy, Stored
<1>3. CASE code[s] # None /\ SendCount(t)
  <2>1. /\ UNCHANGED <<now, code, asked>>
        /\ \A u \in Sends \ {t} : spc'[u] = spc[u]
        /\ spc[t] = "count" /\ spc'[t] \in {"mail", "undo"}
    BY <1>0, <1>3 DEF SendCount
  <2>2. ASSUME s = t, spc'[s] = "mail", NEW u \in Sends, TooSoonFor(s, u) PROVE FALSE
    <3>1. TooSoonAfter(s) = {}
      BY <1>3, <2>1, <2>2 DEF SendCount, WithinLimits
    <3>2. /\ code[u] \in Row /\ asked[s].at \in Nat /\ now \in Nat
          /\ now <= asked[s].at + SendTime
          /\ asked[s].at + SendTime < code[u].createdAt + MinResend
      BY <1>0, <2>1, <2>2 DEF TooSoonFor, OnTime, InFlight, Stored, Request
    <3>3. Recent(code[u].createdAt, MinResend) /\ Recent(code[u].createdAt, Hour)
      BY <3>2 DEF Recent, Row
    <3>4. u \in TooSoonAfter(s)
      BY <2>2, <3>3 DEF TooSoonAfter, CountedWith, TooSoonFor
    <3> QED BY <3>1, <3>4
  <2>3. CASE s = t /\ spc'[s] = "mail"
    <3>1. \A u \in Sends : LaterThan(s, u) => LaterThan(s, u)'
      BY <1>1, <2>1 DEF LaterThan, Stored
    <3>2. Uncompared(s)' => Uncompared(s)
      BY <2>1 DEF Uncompared, RowsKept
    <3> QED BY <1>0, <2>1, <2>2, <2>3, <3>1, <3>2 DEF VoidedWhy, Stored
  <2>4. CASE ~(s = t /\ spc'[s] = "mail")
    <3>1. \A u \in Sends : TooSoonFor(s, u) \/ LaterThan(s, u) =>
                              spc'[u] = "sent" /\ code'[u] # None
      BY <1>1, <2>1
    <3>2. spc'[s] = spc[s] \/ spc'[s] \in {"undo", "failed"}
      BY <2>1, <2>4
    <3> QED BY <1>3, <2>1, <3>1, <3>2, VoidedWhyStays
  <2> QED BY <2>3, <2>4
<1>4. CASE code[s] # None /\ SendVoid(t) /\ s \notin Superseded(t)
  <2>1. code'[s] = code[s]
    BY <1>4 DEF SendVoid
  <2>2. /\ spc[t] = "void" /\ spc'[t] = "sent"
        /\ \A u \in Sends \ {t} : spc'[u] = spc[u]
    BY <1>0, <1>4 DEF SendVoid
  <2>3. \A u \in Sends : code[u] # None => code'[u] # None
    <3>1. \A u \in Sends : code[u] # None => [code[u] EXCEPT !.expireAt = now] \in Row
      BY <1>0, ExpiredIsRow
    <3> QED BY <1>4, <3>1, NoneIsNoRow DEF SendVoid
  <2>4. \A u \in Sends : TooSoonFor(s, u) \/ LaterThan(s, u) =>
                            spc'[u] = "sent" /\ code'[u] # None
    BY <1>1, <2>2, <2>3
  <2> QED BY <1>4, <2>1, <2>2, <2>4, VoidedWhyStays
<1>5. CASE code[s] # None /\ SendVoid(t) /\ s \in Superseded(t)
  BY <1>5, VoidingExplained
<1>6. CASE /\ code[s] # None
           /\ SendStart(t) \/ SendInsert(t) \/ SendUndo(t) \/ SendMail(t) \/ SendDbFault(t)
  <2>1. /\ \A u \in Sends \ {t} : spc'[u] = spc[u] /\ code'[u] = code[u]
        /\ spc[t] # "sent"
        /\ spc'[t] \in {"undo", "failed"} \/ spc[t] \in {"idle", "insert", "mail"}
        /\ spc[t] # "insert" /\ code'[t] # None => code'[t] = code[t]
    BY <1>0, <1>6 DEF SendStart, SendInsert, SendUndo, SendMail, SendDbFault
  <2>2. \A u \in Sends : TooSoonFor(s, u) \/ LaterThan(s, u) =>
                            spc'[u] = "sent" /\ code'[u] # None
    BY <1>1, <2>1
  <2>3. s = t => spc[t] # "insert"
    BY <1>0, <1>6 DEF RowsInserted, Inserted, Stored
  <2> QED BY <1>6, <2>1, <2>2, <2>3, VoidedWhyStays
<1> QED BY <1>2, <1>3, <1>4, <1>5, <1>6 DEF SendStep

\* A check leaves the code alone, or has compared an entry with one of its topic.
LEMMA ChecksExplain ==
  ASSUME LatestInv, RowsKept, Typed', NEW c \in Checks, CheckStep(c), NEW s \in Sends
  PROVE  VoidedWhy(s)'
<1> USE WindowsAssumption DEF Typed, TypeOK
<1>0. Typed /\ RowsInserted /\ VoidedWhy(s) /\ RowsOwned /\ Due(c) /\ HeldIsDue
  BY DEF LatestInv, DueInv, SpentInv, SendInv, HeldIsDue
<1>1. UNCHANGED <<now, spc, asked>>
  BY DEF CheckStep, CheckStart, CheckLock, CheckCompare, CheckSpend, CheckVoid,
         CheckDbFault, sendVars
<1>2. CASE code[s] = None
  <2>1. code'[s] # None => code'[s].expireAt = code'[s].createdAt + Ttl
    BY <1>2 DEF RowsKept, Stored
  <2> QED BY <2>1 DEF VoidedWhy, Stored
<1>3. \A u \in Sends : code[u] # None => code'[u] # None
  BY <1>0, ChecksDeleteNothing
<1>4. CASE code[s] # None /\ code'[s].expireAt = code[s].expireAt
  <2>1. \A u \in Sends : TooSoonFor(s, u) \/ LaterThan(s, u) =>
                            spc'[u] = "sent" /\ code'[u] # None
    BY <1>1, <1>3 DEF TooSoonFor, LaterThan, Stored
  <2> QED BY <1>1, <1>4, <2>1, VoidedWhyStays
<1>5. CASE code[s] # None /\ code'[s].expireAt # code[s].expireAt
  <2>1. \/ CheckSpend(c) /\ s = match[c]
        \/ CheckVoid(c) /\ code[s].topic = entered[c]
    BY <1>0, <1>5 DEF CheckStep, CheckStart, CheckLock, CheckCompare, CheckSpend, CheckVoid,
           CheckDbFault, LiveFor, Row
  <2>2. PICK x \in compared : x.row = match[c]
    BY <1>0, <2>1 DEF CheckSpend, CheckVoid, Due
  <2>3. asked[x.row].topic = code[s].topic
    BY <1>0, <1>5, <2>1, <2>2 DEF CheckSpend, CheckVoid, Due, RowsOwned, Stored
  <2>4. code'[s] # None => code'[s].topic = code[s].topic
    BY <1>0, <1>1, <1>5 DEF RowsKept, RowsInserted, Inserted, Stored
  <2>5. code'[s] # None => ~Uncompared(s)'
    BY <1>1, <2>2, <2>3, <2>4 DEF Uncompared, RowsKept
  <2> QED BY <2>5 DEF VoidedWhy, Stored
<1> QED BY <1>2, <1>4, <1>5

\* The daily clean-up takes no code and leaves an older one.
LEMMA EnvironmentExplains ==
  ASSUME QuickSends, LatestInv, RowsKept, Typed', Tick \/ CleanUp \/ Restart, NEW s \in Sends
  PROVE  VoidedWhy(s)'
<1> USE WindowsAssumption DEF Typed, TypeOK
<1>0. Typed /\ VoidedWhy(s) /\ OnTime(s)
  BY DEF LatestInv, DueInv, SpentInv
<1>1. CASE code[s] = None
  <2>1. code'[s] = None
    BY <1>1 DEF Tick, CleanUp, Restart
  <2> QED BY <2>1 DEF VoidedWhy, Stored
<1>2. CASE code[s] # None /\ (Tick \/ Restart)
  <2>1. /\ code' = code
        /\ \A u \in Sends : spc'[u] = spc[u] \/ (spc[u] # "sent" /\ spc'[u] = "failed")
    <3>1. CASE Tick
      BY <3>1 DEF Tick, sendVars
    <3>2. CASE Restart
      BY <1>0, <3>2 DEF Restart, InFlight
    <3> QED BY <1>2, <3>1, <3>2
  <2>2. \A u \in Sends : TooSoonFor(s, u) \/ LaterThan(s, u) =>
                            spc'[u] = "sent" /\ code'[u] # None
    BY <2>1 DEF TooSoonFor, LaterThan, Stored
  <2> QED BY <1>2, <2>1, <2>2, VoidedWhyStays
<1>3. CASE code[s] # None /\ CleanUp
  <2>1. /\ spc' = spc /\ now' = now
        /\ \A u \in Sends : code'[u] = IF code[u] # None /\ code[u].createdAt + Day < now
                                          THEN None ELSE code[u]
    BY <1>3 DEF CleanUp, Stored, sendVars
  <2>2. CASE code'[s] = None
    BY <2>2 DEF VoidedWhy, Stored
  <2>3. CASE code'[s] # None
    <3>1. code'[s] = code[s] /\ ~(code[s].createdAt + Day < now)
      BY <1>3, <2>1, <2>3
    <3>2. ASSUME NEW u \in Sends, LaterThan(s, u) PROVE spc'[u] = "sent" /\ code'[u] # None
      <4>1. /\ code[u] # None /\ spc[u] = "sent" /\ code[u] \in Row /\ code[s] \in Row
            /\ code[s].createdAt <= code[u].createdAt
        BY <1>0, <1>3, <3>2 DEF LaterThan, Stored
      <4>2. ~(code[u].createdAt + Day < now)
        BY <1>0, <3>1, <4>1 DEF Row
      <4> QED BY <2>1, <4>1, <4>2
    <3>3. ASSUME NEW u \in Sends, TooSoonFor(s, u), spc[s] = "count"
          PROVE  spc'[u] = "sent" /\ code'[u] # None
      <4>1. /\ code[u] # None /\ spc[u] = "sent" /\ code[u] \in Row /\ asked[s].at \in Nat
            /\ asked[s].at + SendTime < code[u].createdAt + MinResend
            /\ now <= asked[s].at + SendTime
        BY <1>0, <3>3 DEF TooSoonFor, Stored, OnTime, InFlight, SendStates, Request
      <4>2. ~(code[u].createdAt + Day < now)
        BY <1>0, <4>1 DEF Row
      <4> QED BY <2>1, <4>1, <4>2
    <3> QED BY <1>3, <2>1, <3>1, <3>2, <3>3, VoidedWhyStays
  <2> QED BY <2>2, <2>3
<1> QED BY <1>1, <1>2, <1>3

LEMMA LatestStep ==
  ASSUME QuickSends, LatestInv, DueInv', [Next]_vars PROVE LatestInv'
<1>1. Typed' /\ RowsKept
  BY RowsAreKept DEF LatestInv, DueInv, SpentInv
<1>2. ASSUME NEW s \in Sends, SendStep(s) PROVE LatestInv'
  <2>1. \A t \in Sends : OnTime(t)'
    BY <1>1, <1>2, SendsOnTime
  <2>2. \A t \in Sends : VoidedWhy(t)'
    BY <1>1, <1>2, SendsExplain
  <2> QED BY <2>1, <2>2 DEF LatestInv
<1>3. ASSUME NEW c \in Checks, CheckStep(c) PROVE LatestInv'
  <2>1. \A t \in Sends : OnTime(t)'
    BY <1>1, <1>3, ChecksOnTime
  <2>2. \A t \in Sends : VoidedWhy(t)'
    BY <1>1, <1>3, ChecksExplain
  <2> QED BY <2>1, <2>2 DEF LatestInv
<1>4. CASE Tick \/ CleanUp \/ Restart
  <2>1. \A t \in Sends : OnTime(t)'
    BY <1>1, <1>4, EnvironmentOnTime
  <2>2. \A t \in Sends : VoidedWhy(t)'
    BY <1>1, <1>4, EnvironmentExplains
  <2> QED BY <2>1, <2>2 DEF LatestInv
<1>5. CASE UNCHANGED vars
  BY <1>5 DEF vars, sendVars, checkVars, LatestInv, OnTime, InFlight, LetGo, VoidedWhy,
              Uncompared, TooSoonFor, LaterThan, Stored
<1> QED BY <1>2, <1>3, <1>4, <1>5 DEF Next

\* The code a requester asked for last works until it expires, if no send takes
\* half as long as two sends must be apart; the code has no such bound, and
\* without it an older send that ends late takes the newer code with it.
THEOREM LatestCodeWorks == ASSUME QuickSends PROVE Spec => []LatestCodeLives
<1>1. LatestInv /\ DueInv' /\ [Next]_vars => LatestInv'
  BY LatestStep
<1>2. LatestInv => LatestCodeLives
  <2> SUFFICES ASSUME LatestInv, NEW s \in Stored,
                      spc[s] = "sent", now < code[s].createdAt + Ttl, Uncompared(s),
                      \A t \in Stored \ {s} : /\ code[t].topic = code[s].topic
                                               /\ code[t].ip = code[s].ip
                                               => code[t].createdAt < code[s].createdAt
               PROVE  Unexpired(s)
    BY DEF LatestCodeLives, Uncompared
  <2>1. Typed /\ VoidedWhy(s) /\ s \in Sends
    BY DEF LatestInv, DueInv, SpentInv, Stored
  <2>2. \A t \in Sends : ~LaterThan(s, t)
    <3>1. \A t \in Stored : code[t].createdAt \in Nat
      BY <2>1 DEF Stored, Typed, TypeOK, Row
    <3> QED BY <3>1 DEF LaterThan
  <2>3. code[s].expireAt = code[s].createdAt + Ttl
    BY <2>1, <2>2 DEF VoidedWhy
  <2> QED BY <2>3 DEF Unexpired
<1> QED BY LatestInit, AlwaysDueInv, <1>1, <1>2, PTL DEF Spec
===============================================================================
