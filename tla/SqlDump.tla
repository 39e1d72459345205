-------------------------------- MODULE SqlDump --------------------------------
(***************************************************************************)
(* The streaming reader of mysqldump files (sqlDumpParser.ts) that the     *)
(* Wikimedia import reads tens of gigabytes through: statements are split  *)
(* at unquoted semicolons, however the download is cut into chunks, and    *)
(* the rows of one table are taken out of its INSERTs.                     *)
(* A character goes by its name; the words a statement begins with, NULL   *)
(* and a number are one character each.                                    *)
(***************************************************************************)
EXTENDS Integers, Sequences, SequencesExt

CONSTANTS
  Characters,
  Contents,  \* what a dump may hold: of each INSERT its rows, sequences of fields
  Limits,    \* values of StreamOptions.maxFields, 0 for none
  MaxChunk   \* bound on the characters of a chunk

VARIABLES
  written,   \* the rows of the table, INSERT by INSERT (history)
  maxFields, \* how many fields of a row are wanted
  rest,      \* what is still to be downloaded
  buf,       \* the statement that is not finished
  scan,      \* whether the scan is in a string, after a backslash, knows the columns
  out        \* the rows read so far

readerVars == <<written, maxFields, rest, buf, scan, out>>

-------------------------------------------------------------------------------
(* What mysqldump writes *)

Escaped(c) == CASE c = "newline"                -> <<"backslash", "n">>
                [] c \in {"quote", "backslash"} -> <<"backslash", c>>
                [] OTHER                        -> <<c>>

\* A field is a quoted string, NULL or a number.
String(text) == [quoted |-> TRUE, text |-> text]
Null == [quoted |-> FALSE, text |-> <<"NULL">>]
Number == [quoted |-> FALSE, text |-> <<"7">>]
Fields == [quoted : {TRUE}, text : Seq(Characters)] \cup {Null, Number}

ASSUME CharactersAssumption ==
  {"open", "close", "comma", "semicolon", "quote", "backslash", "newline", "n", "7", "NULL",
   "CREATE", "INSERT", "CREATE_other", "INSERT_other"} \subseteq Characters

\* A row has a field.
ASSUME ContentsAssumption ==
  /\ Contents \subseteq Seq(Seq(Seq(Fields) \ {<<>>}))
  /\ Limits \subseteq Nat /\ MaxChunk \in Nat

FieldText(f) ==
  IF f.quoted
  THEN <<"quote">> \o FlattenSeq([i \in DOMAIN f.text |-> Escaped(f.text[i])]) \o <<"quote">>
  ELSE f.text

\* Pieces with a comma between them.
Listed(pieces) ==
  FlattenSeq([i \in DOMAIN pieces |-> IF i = 1 THEN pieces[i] ELSE <<"comma">> \o pieces[i]])
RowText(row) == <<"open">> \o Listed([i \in DOMAIN row |-> FieldText(row[i])]) \o <<"close">>
Insert(words, rows) ==
  <<words>> \o Listed([i \in DOMAIN rows |-> RowText(rows[i])]) \o <<"semicolon">>

\* The table after another one.
Dump(inserts) ==
  <<"CREATE_other", "semicolon">> \o Insert("INSERT_other", <<<<Null>>>>) \o <<"CREATE", "semicolon">>
  \o FlattenSeq([i \in DOMAIN inserts |-> Insert("INSERT", inserts[i])])

-------------------------------------------------------------------------------
(* parseValues *)

FinishField(p) ==
  IF ~p.quoted /\ p.field = <<>> THEN Null ELSE [quoted |-> p.quoted, text |-> p.field]

Between == [at |-> "between", row |-> <<>>, field |-> <<>>, quoted |-> FALSE, rows |-> <<>>]
EndField(p) == [p EXCEPT !.row = Append(@, FinishField(p)), !.field = <<>>, !.quoted = FALSE]
EndRow(p) == [Between EXCEPT !.rows = Append(p.rows, p.row)]
Capped(p) == maxFields # 0 /\ Len(p.row) >= maxFields

Unescaped(c) == IF c = "n" THEN "newline" ELSE c

\* One character of the tuples, at a row's fields or skipping the rest of it.
ParseChar(p, c) ==
  CASE p.at = "between" -> IF c = "open" THEN [p EXCEPT !.at = "field"] ELSE p
    [] p.at = "field" ->
         CASE c = "quote" -> [p EXCEPT !.at = "string", !.quoted = TRUE]
           [] c = "comma" -> LET q == EndField(p)
                         IN IF Capped(q) THEN [q EXCEPT !.at = "skip"] ELSE q
           [] c = "close" -> EndRow(EndField(p))
           [] OTHER   -> [p EXCEPT !.field = Append(@, c)]
    [] p.at = "string" ->
         CASE c = "backslash" -> [p EXCEPT !.at = "escape"]
           [] c = "quote"  -> [p EXCEPT !.at = "field"]
           [] OTHER    -> [p EXCEPT !.field = Append(@, c)]
    [] p.at = "escape" -> [p EXCEPT !.at = "string", !.field = Append(@, Unescaped(c))]
    [] p.at = "skip" ->
         CASE c = "quote" -> [p EXCEPT !.at = "skipString"]
           [] c = "close" -> EndRow(p)
           [] OTHER   -> p
    [] p.at = "skipString" ->
         CASE c = "backslash" -> [p EXCEPT !.at = "skipEscape"]
           [] c = "quote"  -> [p EXCEPT !.at = "skip"]
           [] OTHER    -> p
    [] p.at = "skipEscape" -> [p EXCEPT !.at = "skipString"]

\* From p on through the text.
Parsed(p, text) ==
  LET at[i \in 0..Len(text)] == IF i = 0 THEN p ELSE ParseChar(at[i - 1], text[i])
  IN at[Len(text)]

ParseValues(text) == Parsed(Between, text).rows

-------------------------------------------------------------------------------
(* streamDumpRows *)

\* The rows of a statement; the columns are known from the table's CREATE on.
StatementRows(stmt, columns) ==
  IF columns /\ stmt # <<>> /\ Head(stmt) = "INSERT" THEN ParseValues(Tail(stmt)) ELSE <<>>

\* One more character: r is [scan, stmt, out], stmt the statement so far.
ScanChar(r, c) ==
  LET s == r.scan
      on(next) == [r EXCEPT !.scan = next, !.stmt = Append(@, c)]
  IN CASE s.escaped  -> on([s EXCEPT !.escaped = FALSE])
       [] ~s.escaped /\ c = "backslash" -> on([s EXCEPT !.escaped = TRUE])
       [] ~s.escaped /\ s.inString /\ c # "backslash" -> on([s EXCEPT !.inString = c # "quote"])
       [] ~s.escaped /\ ~s.inString /\ c = "quote" -> on([s EXCEPT !.inString = TRUE])
       [] ~s.escaped /\ ~s.inString /\ c = "semicolon" ->
            [scan |-> [s EXCEPT !.columns = @ \/ r.stmt = <<"CREATE">>],
             stmt |-> <<>>,
             out |-> r.out \o StatementRows(r.stmt, s.columns)]
       [] OTHER -> on(s)

\* From r on through the text.
Scan(r, text) ==
  LET at[i \in 0..Len(text)] == IF i = 0 THEN r ELSE ScanChar(at[i - 1], text[i])
  IN at[Len(text)]

\* (mutation) a scan that forgets that the last chunk ended in a backslash
ScannedAfresh(chunk) ==
  Scan([scan |-> [scan EXCEPT !.escaped = FALSE], stmt |-> buf, out |-> out], chunk)

Scanned(chunk) == Scan([scan |-> scan, stmt |-> buf, out |-> out], chunk)

ReaderInit ==
  /\ written \in Contents /\ maxFields \in Limits
  /\ rest = Dump(written)
  /\ buf = <<>> /\ out = <<>>
  /\ scan = [inString |-> FALSE, escaped |-> FALSE, columns |-> FALSE]

\* The next chunk of n characters arrives. The finished statements leave the
\* buffer.
Chunk(n) ==
  /\ n <= Len(rest)
  /\ LET r == Scanned(SubSeq(rest, 1, n))
     IN scan' = r.scan /\ buf' = r.stmt /\ out' = r.out
  /\ rest' = SubSeq(rest, n + 1, Len(rest))
  /\ UNCHANGED <<written, maxFields>>

ReaderNext == \E n \in 1..MaxChunk : Chunk(n)
ReaderSpec == ReaderInit /\ [][ReaderNext]_readerVars
-------------------------------------------------------------------------------
FirstFields(row) ==
  IF maxFields = 0 \/ Len(row) <= maxFields THEN row ELSE SubSeq(row, 1, maxFields)
Due == FlattenSeq([i \in DOMAIN written |->
                     [j \in DOMAIN written[i] |-> FirstFields(written[i][j])]])

\* "each character is examined once (never re-scanned across chunk boundaries)"
\* (sqlDumpParser.ts:177): wherever the download is cut, in an escape, a string or
\* a statement, the rows read are the first fields of the rows that were written,
\* in their order, and all of them once the dump is through.
RowsAreRead == IsPrefix(out, Due) /\ (rest = <<>> => out = Due)
===============================================================================
