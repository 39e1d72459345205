------------------------------ MODULE EmailCodes ------------------------------
(***************************************************************************)
(* The one-time codes that prove a mailbox: sendEmailCode and              *)
(* checkEmailCode of emailCodes.ts, reached through the routes of          *)
(* emailCodeHandlers.ts.  A request is a process that gives way at every   *)
(* await, so sends and checks interleave statement by statement over the   *)
(* emailCode table and over the two in-memory limiters, which a restart    *)
(* of the process empties together with the key of the stored hashes.      *)
(***************************************************************************)
EXTENDS Integers, FiniteSets

CONSTANTS
  Sends,          \* the requests for a code; each writes at most one row
  Checks,         \* the requests that enter a code
  Mailboxes,      \* normalized addresses (emailKey)
  Users,          \* accounts that may ask to confirm an address
  Ips,            \* requesters' addresses (requestIp)
  NoUser, None,   \* SQL NULL; "not yet"
  MaxPerIp,       \* MAX_PER_IP_PER_HOUR
  MaxPerAddress,  \* MAX_PER_ADDRESS_PER_HOUR
  MaxAttempts,    \* MAX_ATTEMPTS of one code
  MaxGuesses,     \* MAX_GUESSES_PER_ADDRESS_PER_DAY
  MinResend, Ttl, Hour, Day,  \* the windows, in ticks
  SendTime,       \* a send takes at most this long (no bound in the code)
  MaxTime,        \* bound on the clock
  MaxRestarts,    \* bound on restarts
  DbFaults        \* whether a statement may fail and end its request

ASSUME WindowsAssumption ==
  /\ {MinResend, Ttl, Hour, Day, SendTime, MaxTime, MaxRestarts} \subseteq Nat
  /\ {MaxPerIp, MaxPerAddress, MaxAttempts, MaxGuesses} \subseteq Nat
  /\ MinResend <= Hour /\ Hour <= Day /\ Ttl <= Day
  /\ DbFaults \in BOOLEAN
  /\ IsFiniteSet(Sends) /\ IsFiniteSet(Checks)

ASSUME NullsAssumption == NoUser \notin Users /\ None \notin Sends

VARIABLES
  now,        \* the clock of the database and of the process
  boot,       \* restarts so far; a hash is keyed with its boot's CODE_KEY
  spc, asked, \* control state and input of each send
  approvedAt, \* when the limits let a send go out (history)
  mailed,     \* the sends whose mail went out (history)
  code,       \* the emailCode table, a row under the send that wrote it
  ipSlots,    \* sendsByIp
  cpc, entered, began, \* control state, input and start of each check
  locked,     \* the rows a check read under its lock
  match,      \* the row whose hash its code equals
  guessSlots, \* guessesByAddress
  compared    \* comparisons made so far (history)

sendVars  == <<spc, asked, approvedAt, mailed, ipSlots>>
checkVars == <<cpc, entered, began, locked, match, guessSlots, compared>>
vars == <<now, boot, code, sendVars, checkVars>>

(***************************************************************************)
(* What a code is for: `userId <=> ...` tells apart the confirmations of   *)
(* different accounts, a login code belongs to none.                       *)
(***************************************************************************)
Topic == [mailbox: Mailboxes, purpose: {"login"}, user: {NoUser}]
         \cup [mailbox: Mailboxes, purpose: {"change"}, user: Users]

Request == [topic: Topic, ip: Ips, at: Nat, boot: Nat]
Row     == [topic: Topic, ip: Ips, createdAt: Nat, expireAt: Nat,
            attempts: 0..MaxAttempts]
IpSlot    == [send: Sends, ip: Ips, at: Nat]
GuessSlot == [mailbox: Mailboxes, check: Checks, nth: Nat, at: Nat]
Comparison == [check: Checks, row: Sends, mailbox: Mailboxes, began: Nat, boot: Nat]

ASSUME NoneIsNoRow == None \notin Row

SendStates  == {"idle", "insert", "count", "mail", "undo", "void", "sent", "failed"}
CheckStates == {"idle", "lock", "compare", "spend", "void", "passed", "failed"}

Stored == {s \in Sends : code[s] # None}

\* SQL `expireAt > NOW() AND attempts < MAX_ATTEMPTS`
Unexpired(s) == code[s].expireAt > now
Live(s) == s \in Stored /\ Unexpired(s) /\ code[s].attempts < MaxAttempts

\* takeSlot counts `t > now - window`
Recent(t, window) == t + window > now

Init ==
  /\ now = 0 /\ boot = 0
  /\ spc = [s \in Sends |-> "idle"]
  /\ asked = [s \in Sends |-> None]
  /\ approvedAt = [s \in Sends |-> 0]
  /\ mailed = {}
  /\ code = [s \in Sends |-> None]
  /\ ipSlots = {}
  /\ cpc = [c \in Checks |-> "idle"]
  /\ entered = [c \in Checks |-> None]
  /\ began = [c \in Checks |-> 0]
  /\ locked = [c \in Checks |-> {}]
  /\ match = [c \in Checks |-> None]
  /\ guessSlots = {}
  /\ compared = {}

-------------------------------------------------------------------------------
(* sendEmailCode *)

IpSlotsLeft(ip) ==
  Cardinality({x \in ipSlots : x.ip = ip /\ Recent(x.at, Hour)}) < MaxPerIp

ReleaseIpSlot(s) == ipSlots' = {x \in ipSlots : x.send # s}

\* The IP's slot is taken before the first await; without one the request is
\* answered 429.
SendStart(s) ==
  /\ spc[s] = "idle"
  /\ \E topic \in Topic, ip \in Ips :
       /\ asked' = [asked EXCEPT ![s] =
                      [topic |-> topic, ip |-> ip, at |-> now, boot |-> boot]]
       /\ IF IpSlotsLeft(ip)
            THEN /\ spc' = [spc EXCEPT ![s] = "insert"]
                 /\ ipSlots' = ipSlots \cup {[send |-> s, ip |-> ip, at |-> now]}
            ELSE /\ spc' = [spc EXCEPT ![s] = "failed"]
                 /\ UNCHANGED ipSlots
  /\ UNCHANGED <<now, boot, code, approvedAt, mailed, checkVars>>

SendInsert(s) ==
  /\ spc[s] = "insert"
  /\ spc' = [spc EXCEPT ![s] = "count"]
  /\ code' = [code EXCEPT ![s] =
                [topic |-> asked[s].topic, ip |-> asked[s].ip, createdAt |-> now,
                 expireAt |-> now + Ttl, attempts |-> 0]]
  /\ UNCHANGED <<now, boot, asked, approvedAt, mailed, ipSlots, checkVars>>

\* The other rows of the mailbox the SELECT counts, and those of the same
\* purpose that make it `recent`.
CountedWith(s) ==
  {t \in Stored \ {s} : /\ code[t].topic.mailbox = code[s].topic.mailbox
                        /\ Recent(code[t].createdAt, Hour)}

\* (mutation) counting delivered codes only, so parallel sends miss each other
TooSoonAfterMailed(s) ==
  {t \in CountedWith(s) \cap mailed : /\ code[t].topic.purpose = code[s].topic.purpose
                                      /\ Recent(code[t].createdAt, MinResend)}

TooSoonAfter(s) ==
  {t \in CountedWith(s) : /\ code[t].topic.purpose = code[s].topic.purpose
                          /\ Recent(code[t].createdAt, MinResend)}

\* (mutation) off by one: the own row forgotten
WithinLimitsLoose(s) ==
  Cardinality(CountedWith(s)) <= MaxPerAddress /\ TooSoonAfter(s) = {}

WithinLimits(s) ==
  Cardinality(CountedWith(s)) < MaxPerAddress /\ TooSoonAfter(s) = {}

SendCount(s) ==
  /\ spc[s] = "count"
  /\ IF s \in Stored /\ WithinLimits(s)
       THEN /\ spc' = [spc EXCEPT ![s] = "mail"]
            /\ approvedAt' = [approvedAt EXCEPT ![s] = now]
       ELSE /\ spc' = [spc EXCEPT ![s] = "undo"]
            /\ UNCHANGED approvedAt
  /\ UNCHANGED <<now, boot, code, asked, mailed, ipSlots, checkVars>>

\* DELETE of the own row, then the throw that gives the slot back: past the
\* limits (429), or after a mail that did not go out.
SendUndo(s) ==
  /\ spc[s] = "undo"
  /\ code' = [code EXCEPT ![s] = None]
  /\ spc' = [spc EXCEPT ![s] = "failed"]
  /\ ReleaseIpSlot(s)
  /\ UNCHANGED <<now, boot, asked, approvedAt, mailed, checkVars>>

SendMail(s) ==
  /\ spc[s] = "mail"
  /\ \/ /\ spc' = [spc EXCEPT ![s] = "void"]
        /\ mailed' = mailed \cup {s}
     \/ /\ spc' = [spc EXCEPT ![s] = "undo"]
        /\ UNCHANGED mailed
  /\ UNCHANGED <<now, boot, code, asked, approvedAt, ipSlots, checkVars>>

\* (mutation) without `id <> insertId`, the fresh code goes too
SupersededWithOwn(s) ==
  {t \in Stored : /\ code[t].topic = asked[s].topic
                  /\ code[t].ip = asked[s].ip
                  /\ Unexpired(t)}

\* (mutation) the comparison of requestIp the wrong way round
SupersededElsewhere(s) ==
  {t \in Stored \ {s} : /\ code[t].topic = asked[s].topic
                        /\ code[t].ip # asked[s].ip
                        /\ Unexpired(t)}

\* The requester's other unexpired codes for the topic.
Superseded(s) ==
  {t \in Stored \ {s} : /\ code[t].topic = asked[s].topic
                        /\ code[t].ip = asked[s].ip
                        /\ Unexpired(t)}

SendVoid(s) ==
  /\ spc[s] = "void"
  /\ code' = [t \in Sends |-> IF t \in Superseded(s)
                                THEN [code[t] EXCEPT !.expireAt = now]
                                ELSE code[t]]
  /\ spc' = [spc EXCEPT ![s] = "sent"]
  /\ UNCHANGED <<now, boot, asked, approvedAt, mailed, ipSlots, checkVars>>

\* A statement that fails ends the request; sendEmailCode's catch gives the
\* slot back whatever had happened by then.
SendDbFault(s) ==
  /\ DbFaults
  /\ spc[s] \in {"insert", "count", "undo", "void"}
  /\ spc' = [spc EXCEPT ![s] = "failed"]
  /\ ReleaseIpSlot(s)
  /\ UNCHANGED <<now, boot, code, asked, approvedAt, mailed, checkVars>>

-------------------------------------------------------------------------------
(* checkEmailCode *)

GuessesLeft(mailbox) ==
  MaxGuesses - Cardinality({x \in guessSlots : /\ x.mailbox = mailbox
                                               /\ Recent(x.at, Day)})

\* The request is answered 403, 429 or 500; its locals go with it.
CheckFails(c) ==
  /\ cpc' = [cpc EXCEPT ![c] = "failed"]
  /\ entered' = [entered EXCEPT ![c] = None]
  /\ began' = [began EXCEPT ![c] = 0]
  /\ locked' = [locked EXCEPT ![c] = {}]
  /\ match' = [match EXCEPT ![c] = None]

\* The first guess is taken before the first await.
CheckStart(c) ==
  /\ cpc[c] = "idle"
  /\ \E topic \in Topic :
       \/ /\ GuessesLeft(topic.mailbox) > 0
          /\ cpc' = [cpc EXCEPT ![c] = "lock"]
          /\ entered' = [entered EXCEPT ![c] = topic]
          /\ began' = [began EXCEPT ![c] = now]
          /\ guessSlots' = guessSlots \cup
               {[mailbox |-> topic.mailbox, check |-> c, nth |-> 0, at |-> now]}
          /\ UNCHANGED <<locked, match>>
       \/ /\ GuessesLeft(topic.mailbox) <= 0
          /\ CheckFails(c)
          /\ UNCHANGED guessSlots
  /\ UNCHANGED <<now, boot, code, compared, sendVars>>

LiveFor(topic) == {s \in Sends : Live(s) /\ code[s].topic = topic}

\* SELECT ... FOR UPDATE and attempts + 1, one transaction.
CheckLock(c) ==
  /\ cpc[c] = "lock"
  /\ locked' = [locked EXCEPT ![c] = LiveFor(entered[c])]
  /\ code' = [s \in Sends |-> IF s \in LiveFor(entered[c])
                                THEN [code[s] EXCEPT !.attempts = @ + 1]
                                ELSE code[s]]
  /\ cpc' = [cpc EXCEPT ![c] = "compare"]
  /\ UNCHANGED <<now, boot, entered, began, match, guessSlots, compared, sendVars>>

\* (mutation) one guess per request, however many codes it is compared with
TakeNoExtraGuess(c) == guessSlots' = guessSlots

\* The takeGuess of every row but the first, until one is refused.
TakeExtraGuesses(c) ==
  guessSlots' = guessSlots \cup
    {[mailbox |-> entered[c].mailbox, check |-> c, nth |-> n, at |-> now] :
       n \in {k \in 1..MaxGuesses : /\ k < Cardinality(locked[c])
                                    /\ k <= GuessesLeft(entered[c].mailbox)}}

\* (mutation) hashes keyed the same across restarts
ComparableAnyKey(c) == locked[c]

\* A row's hash is keyed with the CODE_KEY of the process that wrote it.
Comparable(c) == {s \in locked[c] : asked[s].boot = boot}

\* Without an await from the extra guesses to the comparison.  Whether the
\* entered digits are a row's is the environment's choice.
CheckCompare(c) ==
  /\ cpc[c] = "compare"
  /\ TakeExtraGuesses(c)
  /\ \/ /\ Cardinality(locked[c]) > GuessesLeft(entered[c].mailbox) + 1
        /\ CheckFails(c)
        /\ UNCHANGED compared
     \/ /\ Cardinality(locked[c]) <= GuessesLeft(entered[c].mailbox) + 1
        /\ compared' = compared \cup
             {[check |-> c, row |-> s, mailbox |-> entered[c].mailbox,
               began |-> began[c], boot |-> boot] : s \in locked[c]}
        /\ \/ CheckFails(c)
           \/ \E s \in Comparable(c) :
                /\ match' = [match EXCEPT ![c] = s]
                /\ cpc' = [cpc EXCEPT ![c] = "spend"]
                /\ locked' = [locked EXCEPT ![c] = {}]
                /\ UNCHANGED <<entered, began>>
  /\ UNCHANGED <<now, boot, code, sendVars>>

\* (mutation) the code spent without looking whether it still is unexpired
CheckSpendBlindly(c) ==
  /\ cpc[c] = "spend"
  /\ match[c] \in Stored
  /\ code' = [code EXCEPT ![match[c]].expireAt = now]
  /\ cpc' = [cpc EXCEPT ![c] = "void"]
  /\ UNCHANGED <<now, boot, entered, began, locked, match, guessSlots, compared, sendVars>>

\* UPDATE ... WHERE id = matchId AND expireAt > NOW(); 403 unless it changed one.
CheckSpend(c) ==
  /\ cpc[c] = "spend"
  /\ \/ /\ match[c] \in Stored /\ Unexpired(match[c])
        /\ code' = [code EXCEPT ![match[c]].expireAt = now]
        /\ cpc' = [cpc EXCEPT ![c] = "void"]
        /\ UNCHANGED <<entered, began, locked, match>>
     \/ /\ ~(match[c] \in Stored /\ Unexpired(match[c]))
        /\ CheckFails(c)
        /\ UNCHANGED code
  /\ UNCHANGED <<now, boot, guessSlots, compared, sendVars>>

\* The topic's other codes go with the spent one, whoever asked for them.
CheckVoid(c) ==
  /\ cpc[c] = "void"
  /\ code' = [s \in Sends |->
                IF s \in Stored /\ code[s].topic = entered[c] /\ Unexpired(s)
                  THEN [code[s] EXCEPT !.expireAt = now]
                  ELSE code[s]]
  /\ cpc' = [cpc EXCEPT ![c] = "passed"]
  /\ began' = [began EXCEPT ![c] = 0]
  /\ UNCHANGED <<now, boot, entered, locked, match, guessSlots, compared, sendVars>>

CheckDbFault(c) ==
  /\ DbFaults
  /\ cpc[c] \in {"lock", "spend", "void"}
  /\ CheckFails(c)
  /\ UNCHANGED <<now, boot, code, guessSlots, compared, sendVars>>

-------------------------------------------------------------------------------
(* The environment *)

InFlight(s) == spc[s] \in SendStates \ {"idle", "sent", "failed"}
Entering(c) == cpc[c] \in CheckStates \ {"idle", "passed", "failed"}

Tick ==
  /\ now < MaxTime
  /\ \A s \in Sends : InFlight(s) => now < asked[s].at + SendTime
  /\ now' = now + 1
  /\ UNCHANGED <<boot, code, sendVars, checkVars>>

\* The hourly cleanup() of database.ts: rows older than a day.
CleanUp ==
  /\ \E s \in Stored : code[s].createdAt + Day < now
  /\ code' = [s \in Sends |-> IF s \in Stored /\ code[s].createdAt + Day < now
                                THEN None ELSE code[s]]
  /\ UNCHANGED <<now, boot, sendVars, checkVars>>

\* The process dies and starts afresh: requests in flight are gone, rows stay.
Restart ==
  /\ boot < MaxRestarts
  /\ boot' = boot + 1
  /\ spc' = [s \in Sends |-> IF InFlight(s) THEN "failed" ELSE spc[s]]
  /\ cpc' = [c \in Checks |-> IF Entering(c) THEN "failed" ELSE cpc[c]]
  /\ entered' = [c \in Checks |-> IF Entering(c) THEN None ELSE entered[c]]
  /\ began' = [c \in Checks |-> 0]
  /\ locked' = [c \in Checks |-> {}]
  /\ match' = [c \in Checks |-> IF Entering(c) THEN None ELSE match[c]]
  /\ ipSlots' = {} /\ guessSlots' = {}
  /\ UNCHANGED <<now, code, asked, approvedAt, mailed, compared>>

SendStep(s) ==
  \/ SendStart(s) \/ SendInsert(s) \/ SendCount(s) \/ SendUndo(s)
  \/ SendMail(s) \/ SendVoid(s) \/ SendDbFault(s)

CheckStep(c) ==
  \/ CheckStart(c) \/ CheckLock(c) \/ CheckCompare(c) \/ CheckSpend(c)
  \/ CheckVoid(c) \/ CheckDbFault(c)

Next ==
  \/ \E s \in Sends : SendStep(s)
  \/ \E c \in Checks : CheckStep(c)
  \/ Tick \/ CleanUp \/ Restart

Spec == Init /\ [][Next]_vars

-------------------------------------------------------------------------------
(* What the codes promise *)

\* Every variable stays within its type.
TypeOK ==
  /\ now \in Nat /\ boot \in Nat
  /\ spc \in [Sends -> SendStates]
  /\ asked \in [Sends -> Request \cup {None}]
  /\ approvedAt \in [Sends -> Nat]
  /\ mailed \subseteq Sends
  /\ code \in [Sends -> Row \cup {None}]
  /\ ipSlots \subseteq IpSlot
  /\ cpc \in [Checks -> CheckStates]
  /\ entered \in [Checks -> Topic \cup {None}]
  /\ began \in [Checks -> Nat]
  /\ locked \in [Checks -> SUBSET Sends]
  /\ match \in [Checks -> Sends \cup {None}]
  /\ guessSlots \subseteq GuessSlot
  /\ compared \subseteq Comparison

Accepted(c) == cpc[c] \in {"void", "passed"}
WentOut(s)  == s \in mailed \cap Stored

\* "of concurrent correct submissions only one passes" (emailCodes.ts:444):
\* no two requests are let in by the same code, however they interleave.
SpentOnce ==
  \A c, d \in Checks :
    c # d /\ Accepted(c) /\ Accepted(d) => match[c] # match[d]

\* "Read and counted under the lock, so parallel guesses can't all pass the
\* per-code limit": no code is compared with more than MaxAttempts entries.
AttemptCap ==
  \A s \in Sends : Cardinality({x \in compared : x.row = s}) <= MaxAttempts

\* The entries of the last day are compared with at most MaxGuesses of a
\* mailbox's codes altogether, a guess against several codes counting as
\* several; a restart voids the codes along with the count.
GuessCap ==
  \A m \in Mailboxes :
    Cardinality({x \in compared : /\ x.mailbox = m /\ x.boot = boot
                                  /\ Recent(x.began, Day)}) <= MaxGuesses

\* What a guesser gets: few tries at a code, and few at a mailbox's codes.
GuessingIsCapped == AttemptCap /\ GuessCap

\* "on a race every one of them may refuse, never all pass": of two codes for
\* one mailbox and purpose that went out, one was let go MinResend or more
\* after the other was asked for.
SendSpacing ==
  \A s, t \in Sends :
    /\ s # t /\ WentOut(s) /\ WentOut(t)
    /\ code[s].topic.mailbox = code[t].topic.mailbox
    /\ code[s].topic.purpose = code[t].topic.purpose
    => \/ code[s].createdAt + MinResend <= approvedAt[t]
       \/ code[t].createdAt + MinResend <= approvedAt[s]

\* A mailbox gets at most MaxPerAddress codes stored within an hour, also when
\* they are asked for in parallel.
AddressHourCap ==
  \A m \in Mailboxes :
    Cardinality({s \in Stored : /\ WentOut(s) /\ code[s].topic.mailbox = m
                                /\ Recent(code[s].createdAt, Hour)}) <= MaxPerAddress

\* A requester's address gets at most MaxPerIp codes an hour through requests
\* that were answered with success by one process.  (A request that fails after
\* its mail is out gives its slot back all the same.)
IpHourCap ==
  \A ip \in Ips :
    Cardinality({s \in mailed : /\ spc[s] \in {"void", "sent"}
                                /\ asked[s].ip = ip /\ asked[s].boot = boot
                                /\ Recent(asked[s].at, Hour)}) <= MaxPerIp

\* "Given back on any failure: nothing went out, so a retry mustn't use up the
\* IP" (emailCodes.ts:264): the slots an address has used up are those of its
\* sends that go on or succeeded, one each. A send that failed at whichever
\* statement has given back its own, and nobody else's.
SlotsAreKept ==
  /\ \A x, y \in ipSlots : x.send = y.send => x = y
  /\ {x.send : x \in ipSlots} =
       {s \in Sends : spc[s] \notin {"idle", "failed"} /\ asked[s].boot = boot}

\* What an hour may bring: codes to one mailbox, and codes from one address,
\* which no failed send counts against.
HourCaps == AddressHourCap /\ IpHourCap /\ SlotsAreKept

\* "the requester's own resend leaves one live code, so a guess costs one try":
\* of the completed sends of one requester for one topic at most one is live.
OneLivePerRequester ==
  \A s, t \in Sends :
    /\ s # t /\ spc[s] = "sent" /\ spc[t] = "sent"
    /\ Live(s) /\ Live(t)
    => code[s].topic # code[t].topic \/ code[s].ip # code[t].ip

\* ... and that one exists: as long as no code for the topic has been compared
\* with an entry, the one the requester asked for last works until it expires.
LatestCodeLives ==
  \A s \in Stored :
    /\ spc[s] = "sent" /\ now < code[s].createdAt + Ttl
    /\ \A x \in compared : asked[x.row].topic # code[s].topic
    /\ \A t \in Stored \ {s} : /\ code[t].topic = code[s].topic
                                /\ code[t].ip = code[s].ip
                                => code[t].createdAt < code[s].createdAt
    => Unexpired(s)

\* A code lets in only for the topic it was asked for, less than Ttl after it
\* was stored, and only in the process that keyed it: "A restart voids live
\* codes", while rows and attempts survive it.
AcceptedIsDue ==
  \A c \in Checks :
    Accepted(c) =>
      /\ asked[match[c]].topic = entered[c]
      /\ \E x \in compared : /\ x.check = c /\ x.row = match[c]
                             /\ x.boot = asked[match[c]].boot
      /\ match[c] \in Stored =>
           code[match[c]].expireAt < code[match[c]].createdAt + Ttl
===============================================================================
