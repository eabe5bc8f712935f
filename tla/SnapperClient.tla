----------------------------- MODULE SnapperClient -----------------------------
(***************************************************************************)
(* infrastructure::SnapperClient: what snapper prints, as comma-separated  *)
(* rows.  A row is a sequence of characters; a word in which nothing is    *)
(* told apart is one of them.                                              *)
(***************************************************************************)
EXTENDS Integers, Sequences, SequencesExt, Scanning

Comma == ","
QuoteMark == "\""
Newline == "\n"
CarriageReturn == "\r"

CONSTANT NumberWords   \* the numbers of snapshots, from 1, as they are printed

(* Different numbers are printed as different words, with digits only. *)
ASSUME NumberWordsAssumption ==
  /\ NumberWords \in Seq(STRING \ {"0", Comma, QuoteMark, Newline, CarriageReturn, " ", "'", "\\"})
  /\ \A i, j \in DOMAIN NumberWords : NumberWords[i] = NumberWords[j] => i = j

(* What is known of a row: its fields so far, the field that is read, and   *)
(* whether it is within quotes, or after a quote within them that waits for *)
(* the character after it ("ending").                                       *)
Reading(fields, field, mode) == [fields |-> fields, field |-> field, mode |-> mode]

(* Faulty: A doubled quote ends the field. *)
ReadCharacter_NoDoubling(s, ch) ==
  IF ch = QuoteMark THEN Reading(s.fields, s.field, IF s.mode = "quoted" THEN "ending" ELSE "quoted")
  ELSE IF ch = Comma /\ s.mode # "quoted" THEN Reading(Append(s.fields, s.field), <<>>, "plain")
  ELSE Reading(s.fields, Append(s.field, ch), IF s.mode = "quoted" THEN "quoted" ELSE "plain")

(* parse_csv_row: within quotes, a quote that is followed by another stands *)
(* for one, and any other quote ends the quoted part.                       *)
ReadCharacter(s, ch) ==
  LET longer == Append(s.field, ch) IN
  IF s.mode = "quoted"
  THEN IF ch = QuoteMark THEN Reading(s.fields, s.field, "ending")
       ELSE Reading(s.fields, longer, "quoted")
  ELSE IF ch = QuoteMark
  THEN IF s.mode = "ending" THEN Reading(s.fields, longer, "quoted")
       ELSE Reading(s.fields, s.field, "quoted")
  ELSE IF ch = Comma THEN Reading(Append(s.fields, s.field), <<>>, "plain")
  ELSE Reading(s.fields, longer, "plain")

ReadStart == Reading(<<>>, <<>>, "plain")

ParseCsvRow(row) ==
  LET end == Scan(ReadCharacter, ReadStart, row)
  IN  [malformed |-> end.mode = "quoted", fields |-> Append(end.fields, end.field)]

(* What list has: the snapshots so far, whether an exception ended it, and  *)
(* the line that is read.                                                   *)
Listing(list, failed, line) == [list |-> list, failed |-> failed, line |-> line]

(* One row: number, date, description, read-only.  Number 0 is the running  *)
(* system; a row that does not fit is an exception.                         *)
ReadRow(state) ==
  LET row == ParseCsvRow(state.line)
      number == {n \in DOMAIN NumberWords : <<NumberWords[n]>> = row.fields[1]}
  IN  IF state.failed \/ row.malformed \/ Len(row.fields) # 4
      THEN Listing(state.list, TRUE, <<>>)
      ELSE IF row.fields[1] = <<"0">> THEN Listing(state.list, FALSE, <<>>)
      ELSE IF number = {} THEN Listing(state.list, TRUE, <<>>)
      ELSE Listing(Append(state.list, [number      |-> CHOOSE n \in number : TRUE,
                                       description |-> row.fields[3],
                                       readOnly    |-> row.fields[4] = <<"yes">>]),
                   FALSE, <<>>)

WithoutReturn(line) ==
  IF line # <<>> /\ line[Len(line)] = CarriageReturn THEN SubSeq(line, 1, Len(line) - 1) ELSE line

(* for_each_line: a row is a line that is not empty, without the carriage   *)
(* return at its end.                                                       *)
ReadOutput(state, ch) ==
  LET line == WithoutReturn(state.line) IN
  IF ch # Newline THEN Listing(state.list, state.failed, Append(state.line, ch))
  ELSE IF line = <<>> THEN Listing(state.list, state.failed, <<>>)
  ELSE ReadRow(Listing(state.list, state.failed, line))

ListStart == Listing(<<>>, FALSE, <<>>)

(* SnapperClient::list; the end of the output ends its last line. *)
List(output) ==
  LET end == Scan(ReadOutput, ListStart, Append(output, Newline))
  IN  [list |-> end.list, failed |-> end.failed]

-----------------------------------------------------------------------------
(* snapper: a field that holds a comma or a quote is quoted, its quotes     *)
(* doubled; the running system comes first.                                 *)
DoubleCharacter(text, ch) ==
  (IF ch = QuoteMark THEN text \o <<QuoteMark>> ELSE text) \o <<ch>>

CsvField(field) ==
  IF ToSet(field) \cap {Comma, QuoteMark} = {} THEN field
  ELSE <<QuoteMark>> \o Scan(DoubleCharacter, <<>>, field) \o <<QuoteMark>>

CsvRow(number, description, readOnly) ==
  <<number, Comma, "date", Comma>> \o CsvField(description)
    \o <<Comma, IF readOnly THEN "yes" ELSE "no", Newline>>

PrintRow(text, snapshot) ==
  text \o CsvRow(NumberWords[snapshot.number], snapshot.description, snapshot.readOnly)

SnapperPrints(snapshots) == Scan(PrintRow, CsvRow("0", <<"current">>, FALSE), snapshots)

=============================================================================
