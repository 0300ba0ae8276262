------------------------------- MODULE ExcelParser -------------------------------
(***************************************************************************)
(* User management (apps/user-management): ExcelParserService, which turns *)
(* an uploaded .xlsx or .csv file into the rows that an upload registers,  *)
(* or into the errors for which the upload is refused as a whole.          *)
(*                                                                         *)
(* The loop of parse() is a loop here, one action per row of the sheet.    *)
(* What a cell holds is abstracted to what the parser and the User schema  *)
(* tell apart: no cell at all, a cell of blanks, a text that does or does  *)
(* not have the format that its column asks for, and one that has the      *)
(* format of a date and is none (2003-13-40).                              *)
(***************************************************************************)
EXTENDS Naturals, Sequences, FiniteSets

CONSTANT File  \* the files that may be uploaded, each with its batchMetadata form

\* COLUMN_MAP: the columns that must be there and be filled in, those whose
\* text must have a format, and the rest.
Must == {"registrationNo", "nameWithInitials", "fullName", "nic", "permanentAddress"}
Formatted == {"registrationNo", "dateOfBirth", "zScore", "gender", "primaryEmail"}
Plain ==
  { "username", "title", "homeTelephoneNo", "mobileNo", "alIndexNumber", "medium",
    "meritCategory", "districtNo", "religionNo", "ethnicityNo" }
Field == Must \cup Formatted \cup Plain

\* The fields of the form that go into every row, and those of them that must
\* not be empty.  A registrationDate may be of the ISO 8601 forms that
\* @IsDateString knows and Date does not.
FormMust == {"department", "level", "academicYear", "administrativeBatch"}
FormField == FormMust \cup {"degree", "registrationDate"}
Form ==
  {m \in [FormField -> {"", "good", "impossible"}] :
     (\A f \in FormMust : m[f] = "good") /\ m["degree"] # "impossible"}

Value == {"good", "malformed", "impossible"}
Text == {"none", "blank"} \cup Value

\* "corrupt": the library rejects the file; "empty": it has no worksheet.
\* headers: the field that the header of each column names, after trimming and
\* lower-casing, or "unknown".  sheet: the cells of the rows below the headers.
FileRecord ==
  [ kind : {"corrupt", "empty", "sheet"}, headers : Seq(Field \cup {"unknown"}),
    sheet : Seq(Seq(Text)), form : Form ]

ASSUME FileAssumption ==
  /\ File \subseteq FileRecord
  /\ \A f \in File : \A i \in DOMAIN f.sheet :
       /\ Len(f.sheet[i]) = Len(f.headers)
       /\ \A c \in DOMAIN f.headers :
            f.sheet[i][c] = "impossible" => f.headers[c] = "dateOfBirth"

VARIABLES
  file,               \* the file at hand
  pc,                 \* "load", "rows", "done", "thrown"
  columnIndex,        \* the column of each field that a header names
  rowNumber,          \* the row of the sheet that is looked at next (headers not counted)
  rows,               \* the rows parsed without an error
  rowErrors,          \* the errors
  attemptedRowCount   \* the rows that are not blank

vars == <<file, pc, columnIndex, rowNumber, rows, rowErrors, attemptedRowCount>>

\* An error of the file itself is one of row 0.
Error ==
  [row : Nat, field : Field \cup {"any"},
   problem : {"unreadable", "missing column", "missing value", "malformed"}]
FileError(problem) == [row |-> 0, field |-> "any", problem |-> problem]

\* actualCellCount is zero.
IsBlank(row) == \A c \in DOMAIN row : row[c] = "none"

Columns(f) == {c \in DOMAIN file.headers : file.headers[c] = f}
Latest(columns) == CHOOSE c \in columns : \A d \in columns : d <= c

\* Mutation of MatchHeaders: of two columns with one header the first counts.
MatchHeadersFirst ==
  [f \in {f \in Field : Columns(f) # {}} |-> CHOOSE c \in Columns(f) : \A d \in Columns(f) : c <= d]
\* Mutation of MatchHeaders: headers that name no field are indexed too.
MatchHeadersUnfiltered ==
  [f \in {file.headers[c] : c \in DOMAIN file.headers} |-> Latest(Columns(f))]

\* matchHeaders: of two columns with one header the later one counts.
MatchHeaders ==
  [f \in {f \in Field : Columns(f) # {}} |-> Latest(Columns(f))]

\* The trimmed text of a cell; "" when there is none, or no such column.
CellText(row, f) ==
  IF f \in DOMAIN columnIndex /\ row[columnIndex[f]] \in Value
    THEN row[columnIndex[f]] ELSE ""

\* Mutation of Errors: a required cell of blanks passes for one with a value.
ErrorsUntrimmed(i, row) ==
  [row : {i}, field : {f \in Must : row[columnIndex[f]] = "none"},
   problem : {"missing value"}]
  \cup
  [row : {i}, field : {f \in Formatted : CellText(row, f) = "malformed"},
   problem : {"malformed"}]

\* What parseRow adds to rowErrors.
Errors(i, row) ==
  [row : {i}, field : {f \in Must : CellText(row, f) = ""}, problem : {"missing value"}]
  \cup
  [row : {i}, field : {f \in Formatted : CellText(row, f) = "malformed"},
   problem : {"malformed"}]

\* Mutation of Parsed: rows are numbered as they are attempted.
ParsedRenumbered(i, row) ==
  [rowNumber |-> attemptedRowCount + 1, text |-> [f \in Field |-> CellText(row, f)]]

\* What parseRow returns.
Parsed(i, row) == [rowNumber |-> i, text |-> [f \in Field |-> CellText(row, f)]]

-------------------------------------------------------------------------------
Init ==
  /\ file \in File
  /\ pc = "load"
  /\ columnIndex = <<>> /\ rowNumber = 1
  /\ rows = <<>> /\ rowErrors = {} /\ attemptedRowCount = 0

\* loadWorksheet rejects, and parse with it.
LoadThrows ==
  /\ pc = "load" /\ file.kind = "corrupt"
  /\ pc' = "thrown"
  /\ UNCHANGED <<file, columnIndex, rowNumber, rows, rowErrors, attemptedRowCount>>

LoadNothing ==
  /\ pc = "load" /\ file.kind = "empty"
  /\ rowErrors' = {FileError("unreadable")}
  /\ pc' = "done"
  /\ UNCHANGED <<file, columnIndex, rowNumber, rows, attemptedRowCount>>

\* One error names all the columns that are missing.
Load ==
  /\ pc = "load" /\ file.kind = "sheet"
  /\ columnIndex' = MatchHeaders
  /\ IF Must \subseteq DOMAIN MatchHeaders
       THEN pc' = "rows" /\ rowErrors' = rowErrors
       ELSE pc' = "done" /\ rowErrors' = {FileError("missing column")}
  /\ UNCHANGED <<file, rowNumber, rows, attemptedRowCount>>

\* Mutation of SkipRow: the first blank row ends the sheet.
SkipRowToEnd ==
  /\ pc = "rows" /\ rowNumber <= Len(file.sheet)
  /\ IsBlank(file.sheet[rowNumber])
  /\ rowNumber' = Len(file.sheet) + 1
  /\ UNCHANGED <<file, pc, columnIndex, rows, rowErrors, attemptedRowCount>>

SkipRow ==
  /\ pc = "rows" /\ rowNumber <= Len(file.sheet)
  /\ IsBlank(file.sheet[rowNumber])
  /\ rowNumber' = rowNumber + 1
  /\ UNCHANGED <<file, pc, columnIndex, rows, rowErrors, attemptedRowCount>>

\* The row is kept unless it added an error.
ParseRow ==
  LET row == file.sheet[rowNumber] IN
  /\ pc = "rows" /\ rowNumber <= Len(file.sheet)
  /\ ~IsBlank(row)
  /\ attemptedRowCount' = attemptedRowCount + 1
  /\ rowErrors' = rowErrors \cup Errors(rowNumber, row)
  /\ rows' = IF Errors(rowNumber, row) = {} THEN Append(rows, Parsed(rowNumber, row)) ELSE rows
  /\ rowNumber' = rowNumber + 1
  /\ UNCHANGED <<file, pc, columnIndex>>

Return ==
  /\ pc = "rows" /\ rowNumber > Len(file.sheet)
  /\ pc' = "done"
  /\ UNCHANGED <<file, columnIndex, rowNumber, rows, rowErrors, attemptedRowCount>>

Next == LoadThrows \/ LoadNothing \/ Load \/ SkipRow \/ ParseRow \/ Return

Spec == Init /\ [][Next]_vars

-------------------------------------------------------------------------------
(* Properties.                                                             *)

ParsedRow == [rowNumber : Nat \ {0}, text : [Field -> {""} \cup Value]]

\* The types of the variables.
TypeOK ==
  /\ file \in File
  /\ pc \in {"load", "rows", "done", "thrown"}
  /\ DOMAIN columnIndex \subseteq Field
  /\ \A f \in DOMAIN columnIndex : columnIndex[f] \in DOMAIN file.headers
  /\ rowNumber \in 1 .. Len(file.sheet) + 1
  /\ rows \in Seq(ParsedRow)
  /\ rowErrors \subseteq Error
  /\ attemptedRowCount \in Nat

RowsWithErrors == {e.row : e \in rowErrors} \ {0}
RowsParsed == {rows[k].rowNumber : k \in DOMAIN rows}

\* No row of the sheet gets lost and none is in the result twice: a row that
\* was looked at is blank, or parsed, or has an error, and attemptedRowCount
\* counts the last two.  processUpload relies on it when it takes
\* attemptedRowCount - createdCount for the number of rows that failed.
RowsAccountedFor ==
  /\ RowsParsed \cap RowsWithErrors = {}
  /\ pc # "load" => RowsParsed \cup RowsWithErrors =
       {i \in 1 .. rowNumber - 1 : ~IsBlank(file.sheet[i])}
  /\ attemptedRowCount = Len(rows) + Cardinality(RowsWithErrors)

\* The text that row i has under the header of field f: that of the last
\* column with this header.
HasText(i, f, texts) ==
  \E c \in Columns(f) :
    /\ file.sheet[i][c] \in texts
    /\ \A d \in Columns(f) : d <= c

\* The number that a row carries into the messages of an upload is that of the
\* row of the sheet which its texts come from, whatever blank rows and rows
\* with errors stand before it, and rows are registered in the sheet's order.
RowsKeepTheirNumber ==
  \A k \in DOMAIN rows :
    /\ rows[k].rowNumber \in DOMAIN file.sheet
    /\ \A f \in Field, text \in Value :
         rows[k].text[f] = text <=> HasText(rows[k].rowNumber, f, {text})
    /\ \A l \in 1 .. k - 1 : rows[l].rowNumber < rows[k].rowNumber

\* A file is accepted exactly if it is readable, has the required columns, and
\* each row that is not blank fills them in and has no malformed text.
\* (DOCUMENTATION.md:136: "on any row error, zero users are created".)
VerdictFitsFile ==
  pc = "done" =>
    (rowErrors = {} <=>
      /\ file.kind = "sheet"
      /\ \A f \in Must : Columns(f) # {}
      /\ \A i \in DOMAIN file.sheet : ~IsBlank(file.sheet[i]) =>
           /\ \A f \in Must : HasText(i, f, Value)
           /\ \A f \in Formatted : ~HasText(i, f, {"malformed"}))

\* What processUpload hands to createPendingUser of a row and the form: an
\* absent degree becomes ''; a text that is no date, an Invalid Date.
Input(row) ==
  [f \in Field \cup FormField |-> IF f \in Field THEN row.text[f] ELSE file.form[f]]

\* What the User schema requires of a student, a '' being as good as nothing,
\* and where it asks for a format, a member of an enumeration, or a date.
SchemaRequires ==
  { "registrationNo", "nameWithInitials", "fullName", "nic", "dateOfBirth",
    "degree", "level", "department", "academicYear", "administrativeBatch" }
SchemaFormats == {"registrationNo", "gender", "zScore", "dateOfBirth", "registrationDate"}

\* The fields for which the schema refuses a document.
Refused(input) ==
  {f \in SchemaRequires : input[f] = ""}
  \cup {f \in SchemaFormats : input[f] \in {"malformed", "impossible"}}

\* Where parser and schema differ: a row that is registered can be refused by
\* the User schema for its date of birth only, which the parser neither insists
\* on (DOCUMENTATION.md:578-583) nor reads as a date; beside the degree and the
\* registrationDate of the form, for which all rows of an upload are refused.
ParsedRowsFitSchema ==
  \A k \in DOMAIN rows :
    Refused(Input(rows[k])) \subseteq {"dateOfBirth", "degree", "registrationDate"}
===============================================================================
