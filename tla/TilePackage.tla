------------------------------ MODULE TilePackage ------------------------------
(***************************************************************************)
(* Making the file of a paid map download (download() of                   *)
(* downloadMapHandler.ts): a few tiles at a time are asked over one HTTP/2 *)
(* session, each is stored when it comes, and the link to the file is      *)
(* mailed after the last. The job around it is in MapDownloads.            *)
(***************************************************************************)
EXTENDS Integers, Sequences, FiniteSets, SequencesExt

CONSTANTS
  Total,       \* number of the tiles, asked in their order
  CONCURRENCY, \* tiles at a time
  Tries        \* times a tile is asked after the session failed it

ASSUME PackageAssumption == Total \in Nat /\ CONCURRENCY \in Nat \ {0} /\ Tries \in Nat

VARIABLES
  stage,  \* of the download: downloading, mailing, mailed, failed
  tile,   \* each tile's promise: new, asked, paused, done or failed, and the retries
  asked,  \* tiles that the iterator gave out
  active, \* those whose promises are raced
  rows,   \* tiles stored in the file
  absent, \* tiles the server has nothing for (history)
  file    \* whether there is a file, and whether it is open: none, open, closed

packageVars == <<stage, tile, asked, active, rows, absent, file>>

Tiles == 1..Total
Lesser(a, b) == IF a < b THEN a ELSE b

PackageInit ==
  /\ asked = Lesser(CONCURRENCY, Total)
  /\ active = [i \in 1..asked |-> i]
  /\ tile = [t \in Tiles |-> [at |-> IF t <= asked THEN "asked" ELSE "new", retries |-> 0]]
  /\ stage = "downloading" /\ rows = {} /\ absent = {} /\ file = "open"

Settles(t, how) == tile' = [tile EXCEPT ![t].at = how]
-------------------------------------------------------------------------------
(* A tile's promise goes on by itself, whether anybody awaits it or not. *)

\* Storing into a closed database throws.
Arrives(t) ==
  /\ tile[t].at = "asked"
  /\ IF file = "open" THEN Settles(t, "done") /\ rows' = rows \cup {t}
                      ELSE Settles(t, "failed") /\ UNCHANGED rows
  /\ UNCHANGED <<stage, asked, active, absent, file>>

\* 404: its body is no image.
IsAbsent(t) ==
  /\ tile[t].at = "asked"
  /\ Settles(t, "done") /\ absent' = absent \cup {t}
  /\ UNCHANGED <<stage, asked, active, rows, file>>

\* The session is gone, or lost the stream.
IsLost(t) ==
  /\ tile[t].at = "asked"
  /\ tile' = [tile EXCEPT ![t] = IF @.retries < Tries
                THEN [at |-> "paused", retries |-> @.retries + 1] ELSE [@ EXCEPT !.at = "failed"]]
  /\ UNCHANGED <<stage, asked, active, rows, absent, file>>

Retry(t) ==
  /\ tile[t].at = "paused" /\ Settles(t, "asked")
  /\ UNCHANGED <<stage, asked, active, rows, absent, file>>

\* Any other status or error.
IsRefused(t) ==
  /\ tile[t].at = "asked" /\ Settles(t, "failed")
  /\ UNCHANGED <<stage, asked, active, rows, absent, file>>
-------------------------------------------------------------------------------
(* The download *)

\* (mutation) the promise after the one that won the race
SplicedNext(i) == IF i < Len(active) THEN RemoveAt(active, i + 1) ELSE RemoveAt(active, i)
Spliced(i) == RemoveAt(active, i)

\* The i-th promise wins the race, and the next tile takes its place.
Finished(i) ==
  /\ stage = "downloading" /\ i \in DOMAIN active /\ tile[active[i]].at = "done"
  /\ IF asked < Total
     THEN /\ active' = Append(Spliced(i), asked + 1) /\ asked' = asked + 1
          /\ Settles(asked + 1, "asked")
     ELSE active' = Spliced(i) /\ UNCHANGED <<asked, tile>>
  /\ UNCHANGED <<stage, rows, absent, file>>

\* A promise that is rejected fails the download: the file is closed and
\* deleted, the other promises are left to themselves.
Rejected(i) ==
  /\ stage = "downloading" /\ i \in DOMAIN active /\ tile[active[i]].at = "failed"
  /\ stage' = "failed" /\ file' = "none"
  /\ UNCHANGED <<tile, asked, active, rows, absent>>

Close ==
  /\ stage = "downloading" /\ active = <<>>
  /\ stage' = "mailing" /\ file' = "closed"
  /\ UNCHANGED <<tile, asked, active, rows, absent>>

\* When the mail fails, so does the download, and the file stays.
Mail ==
  /\ stage = "mailing" /\ stage' \in {"mailed", "failed"}
  /\ UNCHANGED <<tile, asked, active, rows, absent, file>>

PackageNext ==
  \/ \E t \in Tiles : Arrives(t) \/ IsAbsent(t) \/ IsLost(t) \/ Retry(t) \/ IsRefused(t)
  \/ \E i \in 1..CONCURRENCY : Finished(i) \/ Rejected(i)
  \/ Close \/ Mail

PackageSpec == PackageInit /\ [][PackageNext]_packageVars
-------------------------------------------------------------------------------
Pending == {t \in Tiles : tile[t].at \in {"asked", "paused"}}

\* A package whose link is mailed, and paid for, has every tile that the server
\* has, in whatever order they came; and while it is downloaded, no more than
\* CONCURRENCY of them are waited for (downloadMapHandler.ts:673-697).
PackageIsWhole ==
  /\ stage \in {"mailing", "mailed"} => file = "closed" /\ rows = Tiles \ absent
  /\ Cardinality(Pending) <= CONCURRENCY
===============================================================================
