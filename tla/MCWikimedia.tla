------------------------------ MODULE MCWikimedia ------------------------------
(***************************************************************************)
(* Imports for TLC: runs of the Wikimedia import, the reader of its dumps, *)
(* and a harvest of a club's calendar. A behaviour is of one part, chosen  *)
(* when it starts; the parts share no state.                               *)
(***************************************************************************)
EXTENDS WikimediaImport, Harvest, SqlDump, TLC

VARIABLE part

-------------------------------------------------------------------------------
\* A second version of each dump; page 5 is no photo, and its title shares a bit
\* with that of page 1.
MCHolds == [geo_tags  |-> (0 :> {1, 2, 5} @@ 1 :> {1, 5}),
            page      |-> (0 :> {1, 5} @@ 1 :> {1, 2, 5}),
            image     |-> (0 :> {1, 5} @@ 1 :> {2}),
            mediainfo |-> (0 :> {2} @@ 1 :> {1})]
MCHash == 1 :> 1 @@ 2 :> 2 @@ 5 :> 1

\* Hours: the other two are short beside these.
MCDownload == [d \in Dumps |-> IF d \in {"geo_tags", "mediainfo"} THEN 1 ELSE 0]

\* Rows in one INSERT and in two, with a string of two characters first and last
\* in a row.
MCCharacters ==
  {"open", "close", "comma", "semicolon", "quote", "backslash", "n", "newline", "NULL", "7",
   "CREATE", "INSERT", "CREATE_other", "INSERT_other"}
Special == {"quote", "backslash", "semicolon", "n", "close"}
MCContents ==
  LET strings == {<<>>} \cup {<<x, y>> : x \in Special, y \in Special}
      others == {String(<<"quote", "newline">>), String(<<"comma">>), Number}
  IN {<<<<<<String(a), Null, c>>, <<c, Null, String(a)>>>>>> : a \in strings, c \in others}
     \cup {<<<<<<String(a)>>>>, <<<<c, Null, String(a)>>>>>> : a \in strings, c \in others}
-------------------------------------------------------------------------------
NoReader ==
  /\ written = <<>> /\ maxFields = 0 /\ rest = <<>> /\ buf = <<>> /\ scan = None /\ out = <<>>
NoHarvest ==
  /\ calendar = [k \in Keys |-> Nothing] /\ table = calendar /\ byHand = {} /\ changes = 0
  /\ touched = {} /\ run = Idle

MCInit ==
  /\ Init
  /\ \/ part = "import" /\ NoReader /\ NoHarvest
     \/ part = "reader" /\ ReaderInit /\ NoHarvest
     \/ part = "harvest" /\ NoReader /\ HarvestInit

MCNext ==
  /\ part' = part
  /\ \/ part = "import" /\ Next /\ UNCHANGED <<readerVars, harvestVars>>
     \/ part = "reader" /\ ReaderNext /\ UNCHANGED <<vars, harvestVars>>
     \/ part = "harvest" /\ HarvestNext /\ UNCHANGED <<vars, readerVars>>

MCSpec == MCInit /\ [][MCNext]_<<vars, readerVars, harvestVars, part>> /\ Fairness
===============================================================================
