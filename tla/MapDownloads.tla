------------------------------ MODULE MapDownloads ------------------------------
(***************************************************************************)
(* Paid map downloads: downloadMapHandler.ts takes the price and notes it  *)
(* in blockedCredit, a job in the background downloads the map, and drops  *)
(* the note when it is done, giving the price back if it failed.  The      *)
(* hourly cleanup() of database.ts gives back what is noted for over a day. *)
(***************************************************************************)
EXTENDS Wallets

CONSTANTS
  Jobs,
  Price,
  LongDownloads \* whether a download may go on for over a day

NoteRow == [user: Users, old: BOOLEAN]

ASSUME DownloadsAssumption ==
  /\ Price \in Nat /\ LongDownloads \in BOOLEAN
  /\ IsFiniteSet(Jobs) /\ None \notin NoteRow

VARIABLES
  job,    \* control state of each job
  buyer,  \* the account a job charged
  refund, \* whether the job gives the price back
  blockedCredit, \* the table, by job
  paid    \* jobs done that kept the price (history)

downloadVars == <<job, buyer, refund, blockedCredit, paid>>

JobStates == {"idle", "running", "mailing", "settling", "done", "dead"}

InitDownloads ==
  /\ job = [j \in Jobs |-> "idle"]
  /\ buyer = [j \in Jobs |-> None]
  /\ refund = [j \in Jobs |-> FALSE]
  /\ blockedCredit = [j \in Jobs |-> None]
  /\ paid = {}

Become(j, state) == job' = [job EXCEPT ![j] = state]

\* Under the row's lock; without enough credits, 409.
StartDownload(j) ==
  /\ job[j] = "idle"
  /\ \E u \in Users :
       /\ HasAccount(u)
       /\ wallet[u].credits >= Price
       /\ wallet' = Credited(wallet, u, -Price)
       /\ buyer' = [buyer EXCEPT ![j] = u]
       /\ blockedCredit' = [blockedCredit EXCEPT ![j] = [user |-> u, old |-> FALSE]]
  /\ Become(j, "running")
  /\ UNCHANGED <<refund, paid, userAlias>>

\* The download, with the mail that links to it.
FinishDownload(j) ==
  /\ job[j] = "running"
  /\ Become(j, "settling")
  /\ UNCHANGED <<buyer, refund, blockedCredit, paid, walletVars>>

FailDownload(j) ==
  /\ job[j] = "running"
  /\ Become(j, "mailing")
  /\ UNCHANGED <<buyer, refund, blockedCredit, paid, walletVars>>

\* The mail saying "your credits have been refunded" goes first.
MailFailure(j) ==
  /\ job[j] = "mailing"
  /\ Become(j, "settling")
  /\ refund' = [refund EXCEPT ![j] = TRUE]
  /\ UNCHANGED <<buyer, blockedCredit, paid, walletVars>>

\* A mail or a transaction that fails, a tile that never comes, or the process
\* going down: the job does nothing more.
JobDies(j) ==
  /\ job[j] \in {"running", "mailing", "settling"}
  /\ Become(j, "dead")
  /\ UNCHANGED <<buyer, refund, blockedCredit, paid, walletVars>>

\* (mutation) the note left for cleanup() to find
SettledKeepingNote(j) == blockedCredit

SettledNotes(j) == [blockedCredit EXCEPT ![j] = None]

Settle(j) ==
  /\ job[j] = "settling"
  /\ Become(j, "done")
  /\ wallet' = IF refund[j] THEN Credited(wallet, buyer[j], Price) ELSE wallet
  /\ blockedCredit' = SettledNotes(j)
  /\ paid' = IF refund[j] THEN paid ELSE paid \cup {j}
  /\ UNCHANGED <<buyer, refund, userAlias>>

DayPasses(j) ==
  /\ blockedCredit[j] # None /\ ~blockedCredit[j].old
  /\ LongDownloads \/ job[j] \in {"done", "dead"}
  /\ blockedCredit' = [blockedCredit EXCEPT ![j].old = TRUE]
  /\ UNCHANGED <<job, buyer, refund, paid, walletVars>>

\* (mutation) the comparison with yesterday the wrong way round
NotOldNotes == {j \in Jobs : blockedCredit[j] # None /\ ~blockedCredit[j].old}

OldNotes == {j \in Jobs : blockedCredit[j] # None /\ blockedCredit[j].old}

CleanUpNotes ==
  /\ OldNotes # {}
  /\ wallet' = [u \in Users |->
       IF wallet[u] = None THEN None
       ELSE [wallet[u] EXCEPT !.credits =
               @ + Price * Cardinality({j \in OldNotes : blockedCredit[j].user = u})]]
  /\ blockedCredit' = [j \in Jobs |-> IF j \in OldNotes THEN None ELSE blockedCredit[j]]
  /\ UNCHANGED <<job, buyer, refund, paid, userAlias>>

\* The notes follow a merge and cascade with a deleted account; the job keeps
\* the id it started with.
RepointNotes(from, to) ==
  /\ blockedCredit' = [j \in Jobs |->
       IF blockedCredit[j] = None THEN None
       ELSE IF blockedCredit[j].user # from THEN blockedCredit[j]
       ELSE IF to = None THEN None ELSE [blockedCredit[j] EXCEPT !.user = to]]
  /\ UNCHANGED <<job, buyer, refund, paid>>

Working(j) == job[j] \in {"running", "mailing", "settling"}
===============================================================================
