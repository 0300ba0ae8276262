---------------------------- MODULE ExcelParserProofs ----------------------------
(***************************************************************************)
(* Proofs about ExcelParser, for every set of files.  The invariant of the *)
(* loop is Progress: what rows and rowErrors hold for the rows before      *)
(* rowNumber.  Everything that the parser promises about its result is     *)
(* read off Progress where the loop ends.                                  *)
(***************************************************************************)
EXTENDS ExcelParser, FiniteSetTheorems, WellFoundedInduction, TLAPS

\* Row i of the sheet: is there anything in it, and what comes of it.
Row(i) == file.sheet[i]
Filled(i) == ~IsBlank(Row(i))
RowErrors(i) == Errors(i, Row(i))
RowParsed(i) == Parsed(i, Row(i))

\* The headers let the rows be looked at.
Readable == file.kind = "sheet" /\ \A f \in Must : Columns(f) # {}

Untouched == rowNumber = 1 /\ rows = <<>> /\ attemptedRowCount = 0

Stage ==
  /\ pc \in {"load", "thrown"} => Untouched /\ rowErrors = {}
  /\ pc = "thrown" => file.kind = "corrupt"
  /\ pc = "rows" => Readable
  /\ pc = "done" =>
       \/ Untouched /\ ~Readable /\ \E problem \in {"unreadable", "missing column"} :
                                      rowErrors = {FileError(problem)}
       \/ Readable /\ rowNumber > Len(file.sheet)

ErrorsExact ==
  \A e \in rowErrors : \A i \in Nat : e.row = i =>
    i \in 1 .. rowNumber - 1 /\ Filled(i) /\ e \in RowErrors(i)

RowsExact ==
  \A k \in DOMAIN rows : \A i \in Nat : rows[k].rowNumber = i =>
    /\ i \in 1 .. rowNumber - 1
    /\ Filled(i) /\ RowErrors(i) = {} /\ rows[k] = RowParsed(i)

RowsOrdered ==
  \A k \in DOMAIN rows : \A l \in 1 .. k - 1 : rows[l].rowNumber < rows[k].rowNumber

NothingLost ==
  \A i \in 1 .. rowNumber - 1 : Filled(i) =>
    /\ RowErrors(i) \subseteq rowErrors
    /\ RowErrors(i) = {} => \E k \in DOMAIN rows : rows[k].rowNumber = i

CountExact ==
  /\ IsFiniteSet(RowsWithErrors)
  /\ attemptedRowCount = Len(rows) + Cardinality(RowsWithErrors)

\* The invariant of the loop.
Progress ==
  pc \in {"rows", "done"} /\ Readable =>
    columnIndex = MatchHeaders /\ ErrorsExact /\ RowsExact /\ RowsOrdered /\ NothingLost
      /\ CountExact

IInv == TypeOK /\ Stage /\ Progress

-------------------------------------------------------------------------------
(* Lemmas about the headers.                                               *)

\* A set of columns has a last one, if any.
LEMMA LastExists ==
  ASSUME NEW n \in Nat, NEW S \in SUBSET (1 .. n), S # {}
  PROVE  \E c \in S : \A d \in S : d <= c
<1> DEFINE Above(c) == {d \in S : d > c}
           T == {Above(c) : c \in S}
<1>1. IsFiniteSet(S)
  <2>1. IsFiniteSet(1 .. n)
    BY FS_Interval
  <2> QED BY <2>1, FS_Subset
<1>2. IsWellFoundedOn(StrictSubsetOrdering(S), FiniteSubsetsOf(S))
  BY <1>1, FS_StrictSubsetOrderingWellFounded
<1>3. T \subseteq FiniteSubsetsOf(S)
  <2>1. ASSUME NEW c \in S PROVE Above(c) \in SUBSET S /\ IsFiniteSet(Above(c))
    BY <1>1, FS_Subset
  <2> QED BY <2>1 DEF FiniteSubsetsOf
<1>4. T # {}
  OBVIOUS
<1>5. PICK A \in T : \A B \in T : <<B, A>> \notin StrictSubsetOrdering(S)
  <2> HIDE DEF T
  <2> QED BY <1>2, <1>3, <1>4, WFMin
<1>6. PICK c \in S : A = Above(c)
  BY <1>5
<1>7. ASSUME NEW d \in S, d > c PROVE FALSE
  <2>1. Above(d) \subseteq A /\ Above(d) # A
    <3>1. d \in A /\ d \notin Above(d)
      BY <1>6, <1>7
    <3>2. ASSUME NEW e \in Above(d) PROVE e \in A
      BY <1>6, <1>7
    <3> QED BY <3>1, <3>2
  <2>2. <<Above(d), A>> \in StrictSubsetOrdering(S)
    BY <2>1, <1>6 DEF StrictSubsetOrdering
  <2> QED BY <2>2, <1>5
<1> QED BY <1>7

LEMMA LatestIsLast ==
  ASSUME file \in FileRecord, NEW f, Columns(f) # {}
  PROVE  /\ Latest(Columns(f)) \in Columns(f)
         /\ Latest(Columns(f)) \in DOMAIN file.headers
         /\ \A d \in Columns(f) : d <= Latest(Columns(f))
<1>1. Len(file.headers) \in Nat /\ Columns(f) \in SUBSET (1 .. Len(file.headers))
  BY DEF FileRecord, Columns
<1>2. \E c \in Columns(f) : \A d \in Columns(f) : d <= c
  BY <1>1, LastExists
<1> QED BY <1>2, <1>1 DEF Latest, Columns

\* CellText is what stands below the last column with the header.
LEMMA CellTextIsText ==
  ASSUME file \in FileRecord, columnIndex = MatchHeaders, NEW i, NEW f \in Field
  PROVE  /\ \A text \in Value :
              CellText(Row(i), f) = text <=> HasText(i, f, {text})
         /\ CellText(Row(i), f) # "" <=> HasText(i, f, Value)
         /\ CellText(Row(i), f) \in {""} \cup Value
<1>1. CASE Columns(f) = {}
  BY <1>1 DEF CellText, MatchHeaders, HasText, Value
<1>2. CASE Columns(f) # {}
  <2> DEFINE last == Latest(Columns(f))
  <2>1. f \in DOMAIN columnIndex /\ columnIndex[f] = last
    BY <1>2 DEF MatchHeaders
  <2>2. /\ last \in Columns(f)
        /\ \A d \in Columns(f) : d <= last
    BY <1>2, LatestIsLast
  <2>3. \A c \in Columns(f) : (\A d \in Columns(f) : d <= c) => c = last
    <3>1. Columns(f) \subseteq Int
      BY DEF Columns, FileRecord
    <3> QED BY <2>2, <3>1
  <2>4. \A texts : HasText(i, f, texts) <=> Row(i)[last] \in texts
    BY <2>2, <2>3 DEF HasText, Row
  <2> HIDE DEF last
  <2>5. CellText(Row(i), f) =
          IF Row(i)[last] \in Value THEN Row(i)[last] ELSE ""
    BY <2>1 DEF CellText
  <2> QED BY <2>4, <2>5 DEF Value
<1> QED BY <1>1, <1>2

LEMMA ErrorsShape ==
  ASSUME NEW i \in Nat, NEW row
  PROVE  /\ Errors(i, row) \subseteq Error
         /\ \A e \in Errors(i, row) : e.row = i
         /\ Errors(i, row) = {} <=>
              /\ \A f \in Must : CellText(row, f) # ""
              /\ \A f \in Formatted : CellText(row, f) # "malformed"
<1>1. Errors(i, row) \subseteq Error
  BY DEF Errors, Error, Field
<1>2. \A e \in Errors(i, row) : e.row = i
  BY DEF Errors
<1>3. ASSUME NEW f \in Must, CellText(row, f) = ""
      PROVE  Errors(i, row) # {}
  <2>1. [row |-> i, field |-> f, problem |-> "missing value"] \in Errors(i, row)
    BY <1>3 DEF Errors
  <2> QED BY <2>1
<1>4. ASSUME NEW f \in Formatted, CellText(row, f) = "malformed"
      PROVE  Errors(i, row) # {}
  <2>1. [row |-> i, field |-> f, problem |-> "malformed"] \in Errors(i, row)
    BY <1>4 DEF Errors
  <2> QED BY <2>1
<1>5. ASSUME \A f \in Must : CellText(row, f) # "",
             \A f \in Formatted : CellText(row, f) # "malformed"
      PROVE  Errors(i, row) = {}
  BY <1>5 DEF Errors
<1> QED BY <1>1, <1>2, <1>3, <1>4, <1>5


-------------------------------------------------------------------------------
(* The invariant holds.                                                    *)

LEMMA FileType == file \in File => file \in FileRecord
BY FileAssumption

LEMMA FileErrorType ==
  \A problem \in {"unreadable", "missing column"} : FileError(problem) \in Error
BY DEF FileError, Error

LEMMA InitInv == Init => IInv
<1> SUFFICES ASSUME Init PROVE IInv
  OBVIOUS
<1>1. file \in FileRecord
  BY FileType DEF Init
<1>2. TypeOK
  BY <1>1 DEF Init, TypeOK, FileRecord
<1>3. Stage
  BY DEF Init, Stage, Untouched
<1>4. Progress
  BY DEF Init, Progress
<1> QED BY <1>2, <1>3, <1>4 DEF IInv

LEMMA LoadThrowsInv == IInv /\ LoadThrows => IInv'
BY DEF IInv, TypeOK, Stage, Progress, LoadThrows, Untouched, Readable, Columns

LEMMA LoadNothingInv ==
  ASSUME IInv, LoadNothing
  PROVE  IInv'
<1>1. TypeOK'
  <2>1. FileError("unreadable") \in Error
    BY FileErrorType
  <2> HIDE DEF FileError
  <2> QED BY <2>1 DEF IInv, TypeOK, LoadNothing
<1>2. Stage'
  BY DEF IInv, Stage, LoadNothing, Untouched, Readable, Columns
<1>3. Progress'
  BY DEF LoadNothing, Progress, Readable
<1> QED BY <1>1, <1>2, <1>3 DEF IInv

LEMMA LoadInv ==
  ASSUME IInv, Load
  PROVE  IInv'
<1>1. file \in FileRecord /\ TypeOK /\ Untouched /\ rowErrors = {}
  BY FileType DEF IInv, TypeOK, Stage, Load
<1>2. DOMAIN MatchHeaders \subseteq Field
        /\ \A f \in DOMAIN MatchHeaders : MatchHeaders[f] \in DOMAIN file.headers
  BY <1>1, LatestIsLast DEF MatchHeaders
<1>3. Must \subseteq DOMAIN MatchHeaders <=> \A f \in Must : Columns(f) # {}
  BY DEF MatchHeaders, Field
<1>4. TypeOK'
  <2>1. rowErrors' \subseteq Error /\ pc' \in {"rows", "done"}
    BY <1>1, FileErrorType DEF Load
  <2>2. /\ DOMAIN columnIndex' \subseteq Field
        /\ \A f \in DOMAIN columnIndex' : columnIndex'[f] \in DOMAIN file.headers
    BY <1>2 DEF Load
  <2> QED BY <1>1, <2>1, <2>2 DEF TypeOK, Load
<1>5. Readable' <=> Readable
  BY DEF Load, Readable, Columns
<1>6. Stage'
  BY <1>1, <1>3, <1>5 DEF Stage, Load, Untouched, Readable, FileError
<1>7. Progress'
  <2> SUFFICES ASSUME Readable
               PROVE  Progress'
    BY <1>5 DEF Progress
  <2>1. columnIndex' = MatchHeaders' /\ rowErrors' = {} /\ rows' = <<>> /\ rowNumber' = 1
          /\ attemptedRowCount' = 0
    BY <1>1, <1>3 DEF Load, Readable, Untouched, MatchHeaders, Columns
  <2>2. RowsWithErrors' = {}
    BY <2>1 DEF RowsWithErrors
  <2>3. CountExact'
    BY <2>1, <2>2, FS_EmptySet DEF CountExact
  <2> QED BY <2>1, <2>3 DEF Progress, ErrorsExact, RowsExact, RowsOrdered, NothingLost
<1> QED BY <1>4, <1>6, <1>7 DEF IInv

\* What stays the same while the loop runs.
LEMMA RowUnchanged ==
  ASSUME UNCHANGED <<file, columnIndex>>
  PROVE  /\ Readable' = Readable /\ MatchHeaders' = MatchHeaders
         /\ \A i : Filled(i)' = Filled(i)
         /\ \A i : RowErrors(i)' = RowErrors(i) /\ RowParsed(i)' = RowParsed(i)
BY DEF Readable, Columns, MatchHeaders, Row, IsBlank, Errors, Parsed, CellText, Filled, RowErrors,
   RowParsed

\* What the parts of Progress say of the next state when the sheet and the
\* columns are the same.
LEMMA NextParts ==
  ASSUME UNCHANGED <<file, columnIndex>>
  PROVE  /\ ErrorsExact' <=> \A e \in rowErrors' : \A i \in Nat : e.row = i =>
              i \in 1 .. rowNumber' - 1 /\ Filled(i) /\ e \in RowErrors(i)
         /\ RowsExact' <=> \A k \in DOMAIN rows' : \A i \in Nat : rows'[k].rowNumber = i =>
              /\ i \in 1 .. rowNumber' - 1
              /\ Filled(i) /\ RowErrors(i) = {} /\ rows'[k] = RowParsed(i)
         /\ NothingLost' <=> \A i \in 1 .. rowNumber' - 1 : Filled(i) =>
              /\ RowErrors(i) \subseteq rowErrors'
              /\ RowErrors(i) = {} => \E k \in DOMAIN rows' : rows'[k].rowNumber = i
BY RowUnchanged DEF ErrorsExact, RowsExact, NothingLost

LEMMA SkipRowInv ==
  ASSUME IInv, SkipRow
  PROVE  IInv'
<1>1. /\ UNCHANGED <<file, columnIndex, rows, rowErrors, attemptedRowCount>>
      /\ rowNumber \in Nat /\ rowNumber' = rowNumber + 1
  BY FileType DEF SkipRow, IInv, TypeOK
<1>2. TypeOK'
  BY FileType DEF SkipRow, IInv, TypeOK, FileRecord
<1>3. Stage'
  BY <1>1, RowUnchanged DEF SkipRow, IInv, Stage
<1>4. Progress'
  <2>1. Readable /\ pc = "rows" /\ Progress
    BY DEF SkipRow, IInv, Stage
  <2>2. ~Filled(rowNumber)
    BY DEF SkipRow, Row, Filled
  <2>3. ErrorsExact' /\ RowsExact' /\ NothingLost'
    BY <1>1, <2>1, <2>2, NextParts DEF Progress, ErrorsExact, RowsExact, NothingLost
  <2>4. RowsOrdered' /\ CountExact'
    BY <1>1, <2>1 DEF RowsOrdered, CountExact, Progress, RowsWithErrors
  <2> QED BY <2>1, <2>3, <2>4, <1>1, RowUnchanged DEF Progress
<1> QED BY <1>2, <1>3, <1>4 DEF IInv

\* A step that keeps the state of the loop.
LEMMA SameLoop ==
  ASSUME UNCHANGED <<file, columnIndex, rowNumber, rows, rowErrors, attemptedRowCount>>,
         Readable, pc \in {"rows", "done"}, Progress
  PROVE  Progress'
<1>1. ErrorsExact' /\ RowsExact' /\ NothingLost'
  BY NextParts DEF Progress, ErrorsExact, RowsExact, NothingLost
<1>2. RowsOrdered' /\ CountExact'
  BY DEF RowsOrdered, CountExact, Progress, RowsWithErrors
<1> QED BY <1>1, <1>2, RowUnchanged DEF Progress

LEMMA ReturnInv ==
  ASSUME IInv, Return
  PROVE  IInv'
<1>1. TypeOK'
  BY DEF Return, IInv, TypeOK
<1>2. UNCHANGED <<file, columnIndex, rowNumber, rows, rowErrors, attemptedRowCount>>
  BY DEF Return
<1>3. Stage'
  BY <1>2, RowUnchanged DEF Return, IInv, Stage
<1>4. Progress'
  BY <1>2, SameLoop DEF Return, IInv, Stage
<1> QED BY <1>1, <1>3, <1>4 DEF IInv

LEMMA ParseRowInv ==
  ASSUME IInv, ParseRow
  PROVE  IInv'
<1> DEFINE errors == RowErrors(rowNumber)
           parsed == RowParsed(rowNumber)
<1>1. /\ UNCHANGED <<file, columnIndex, pc>> /\ rowNumber \in Nat \ {0}
      /\ rowNumber' = rowNumber + 1 /\ rowNumber \in DOMAIN file.sheet
      /\ file \in FileRecord
  BY FileType DEF ParseRow, IInv, TypeOK, FileRecord
<1>2. Readable /\ pc = "rows" /\ Progress /\ TypeOK /\ columnIndex = MatchHeaders
  BY DEF ParseRow, IInv, Stage, Progress
<1>3. /\ Filled(rowNumber)
      /\ rowErrors' = rowErrors \cup errors
      /\ rows' = IF errors = {} THEN Append(rows, parsed) ELSE rows
      /\ attemptedRowCount' = attemptedRowCount + 1
  BY DEF ParseRow, Row, Filled, RowErrors, RowParsed
<1>4. errors \subseteq Error /\ \A e \in errors : e.row = rowNumber
  BY <1>1, ErrorsShape DEF RowErrors
<1>5. parsed \in ParsedRow /\ parsed.rowNumber = rowNumber
  BY <1>1, <1>2, CellTextIsText DEF RowParsed, Parsed, ParsedRow
<1>6. /\ rows \in Seq(ParsedRow) /\ rows' \in Seq(ParsedRow)
      /\ attemptedRowCount \in Nat /\ rowErrors \subseteq Error
  BY <1>2, <1>3, <1>5 DEF TypeOK
<1>7. TypeOK'
  BY <1>1, <1>2, <1>3, <1>4, <1>6 DEF TypeOK, FileRecord
<1>8. Stage'
  BY <1>1, <1>2, RowUnchanged DEF Stage
<1> HIDE DEF errors, parsed
<1>9. CASE errors = {}
  <2>1. rowErrors' = rowErrors /\ rows' = Append(rows, parsed) /\ RowsWithErrors' = RowsWithErrors
    BY <1>3, <1>9 DEF RowsWithErrors
  <2>2. /\ Len(rows') = Len(rows) + 1 /\ DOMAIN rows' = 1 .. Len(rows) + 1
        /\ \A k \in 1 .. Len(rows) : rows'[k] = rows[k]
        /\ rows'[Len(rows) + 1] = parsed
        /\ DOMAIN rows = 1 .. Len(rows) /\ Len(rows) \in Nat
    BY <2>1, <1>5, <1>6
  <2>3. ErrorsExact'
    BY <1>1, <1>2, <2>1, NextParts DEF Progress, ErrorsExact
  <2>4. RowsExact'
    <3> SUFFICES ASSUME NEW k \in 1 .. Len(rows) + 1, NEW i \in Nat, rows'[k].rowNumber = i
                 PROVE  /\ i \in 1 .. rowNumber
                        /\ Filled(i) /\ RowErrors(i) = {} /\ rows'[k] = RowParsed(i)
      BY <1>1, <2>2, NextParts
    <3>1. CASE k \in 1 .. Len(rows)
      BY <3>1, <1>1, <1>2, <2>2 DEF Progress, RowsExact
    <3>2. CASE k = Len(rows) + 1
      BY <3>2, <1>1, <1>3, <1>5, <1>9, <2>2 DEF parsed, errors
    <3> QED BY <3>1, <3>2, <2>2
  <2>5. RowsOrdered'
    <3> SUFFICES ASSUME NEW k \in 1 .. Len(rows) + 1, NEW l \in 1 .. k - 1
                 PROVE  rows'[l].rowNumber < rows'[k].rowNumber
      BY <2>2 DEF RowsOrdered
    <3>1. l \in 1 .. Len(rows) /\ rows'[l] = rows[l] /\ rows[l].rowNumber \in 1 .. rowNumber - 1
      <4>1. l \in DOMAIN rows /\ rows[l] \in ParsedRow /\ rows'[l] = rows[l]
        BY <1>6, <2>2
      <4> QED BY <4>1, <1>2, <2>2 DEF Progress, RowsExact, ParsedRow
    <3>2. CASE k \in 1 .. Len(rows)
      BY <3>1, <3>2, <1>2, <2>2 DEF Progress, RowsOrdered
    <3>3. CASE k = Len(rows) + 1
      BY <3>1, <3>3, <1>1, <1>5, <2>2
    <3> QED BY <3>2, <3>3, <2>2
  <2>6. NothingLost'
    <3> SUFFICES ASSUME NEW i \in 1 .. rowNumber, Filled(i)
                 PROVE  /\ RowErrors(i) \subseteq rowErrors
                        /\ RowErrors(i) = {} => \E k \in DOMAIN rows' : rows'[k].rowNumber = i
      BY <1>1, <2>1, NextParts
    <3>1. CASE i \in 1 .. rowNumber - 1
      BY <3>1, <1>2, <2>2 DEF Progress, NothingLost
    <3>2. CASE i = rowNumber
      BY <3>2, <1>9, <1>5, <2>2 DEF errors
    <3> QED BY <3>1, <3>2, <1>1
  <2>7. CountExact'
    <3>1. Cardinality(RowsWithErrors) \in Nat
      BY <1>2, FS_CardinalityType DEF Progress, CountExact
    <3> QED BY <3>1, <1>2, <1>3, <2>1, <2>2 DEF Progress, CountExact
  <2> QED BY <1>1, <1>2, <2>3, <2>4, <2>5, <2>6, <2>7, RowUnchanged, <1>7, <1>8
          DEF Progress, IInv
<1>10. CASE errors # {}
  <2>1. rows' = rows /\ \E e \in errors : TRUE
    BY <1>3, <1>10
  <2>2. RowsWithErrors' = RowsWithErrors \cup {rowNumber} /\ rowNumber \notin RowsWithErrors
    <3>1. RowsWithErrors' = RowsWithErrors \cup {rowNumber}
      BY <1>1, <1>3, <1>4, <2>1 DEF RowsWithErrors
    <3>2. \A e \in rowErrors : e.row # rowNumber
      BY <1>1, <1>2 DEF Progress, ErrorsExact
    <3> QED BY <3>1, <3>2 DEF RowsWithErrors
  <2>3. ErrorsExact'
    <3> SUFFICES ASSUME NEW e \in rowErrors', NEW i \in Nat, e.row = i
                 PROVE  i \in 1 .. rowNumber /\ Filled(i) /\ e \in RowErrors(i)
      BY <1>1, NextParts
    <3>1. CASE e \in rowErrors
      BY <3>1, <1>1, <1>2 DEF Progress, ErrorsExact
    <3>2. CASE e \in errors
      BY <3>2, <1>1, <1>3, <1>4 DEF errors
    <3> QED BY <3>1, <3>2, <1>3
  <2>4. RowsExact'
    BY <1>1, <1>2, <2>1, NextParts DEF Progress, RowsExact
  <2>5. RowsOrdered'
    BY <1>2, <2>1 DEF Progress, RowsOrdered
  <2>6. NothingLost'
    <3> SUFFICES ASSUME NEW i \in 1 .. rowNumber, Filled(i)
                 PROVE  /\ RowErrors(i) \subseteq rowErrors'
                        /\ RowErrors(i) = {} => \E k \in DOMAIN rows : rows[k].rowNumber = i
      BY <1>1, <2>1, NextParts
    <3>1. CASE i \in 1 .. rowNumber - 1
      BY <3>1, <1>2, <1>3 DEF Progress, NothingLost
    <3>2. CASE i = rowNumber
      BY <3>2, <1>3, <1>10 DEF errors
    <3> QED BY <3>1, <3>2, <1>1
  <2>7. CountExact'
    <3>1. /\ IsFiniteSet(RowsWithErrors')
          /\ Cardinality(RowsWithErrors') = Cardinality(RowsWithErrors) + 1
      BY <1>2, <2>2, FS_AddElement DEF Progress, CountExact
    <3>2. Cardinality(RowsWithErrors) \in Nat /\ Len(rows) \in Nat
      BY <1>2, <1>6, FS_CardinalityType DEF Progress, CountExact
    <3> QED BY <3>1, <3>2, <1>2, <1>3, <2>1 DEF Progress, CountExact
  <2> QED BY <1>1, <1>2, <2>3, <2>4, <2>5, <2>6, <2>7, RowUnchanged, <1>7, <1>8
          DEF Progress, IInv
<1> QED BY <1>9, <1>10

\* The invariant of the parser, of which the theorems below are consequences.
THEOREM Invariant == Spec => []IInv
<1>1. Init => IInv
  BY InitInv
<1>2. IInv /\ [Next]_vars => IInv'
  <2> SUFFICES ASSUME IInv, [Next]_vars PROVE IInv'
    OBVIOUS
  <2>1. CASE UNCHANGED vars
    <3>1. TypeOK'
      BY <2>1 DEF vars, IInv, TypeOK
    <3>2. Stage'
      <4>1. Readable' = Readable /\ Untouched' = Untouched
        BY <2>1, RowUnchanged DEF vars, Untouched
      <4>2. UNCHANGED <<file, pc, rowNumber, rowErrors>>
        BY <2>1 DEF vars
      <4> QED BY <4>1, <4>2 DEF IInv, Stage, FileError
    <3>3. Progress'
      <4>1. CASE pc \in {"rows", "done"} /\ Readable
        BY <4>1, <2>1, SameLoop DEF vars, IInv
      <4>2. CASE ~(pc \in {"rows", "done"} /\ Readable)
        BY <4>2, <2>1, RowUnchanged DEF vars, Progress
      <4> QED BY <4>1, <4>2
    <3> QED BY <3>1, <3>2, <3>3 DEF IInv
  <2> QED BY <2>1, LoadThrowsInv, LoadNothingInv, LoadInv, SkipRowInv, ParseRowInv, ReturnInv
          DEF Next
<1> QED BY <1>1, <1>2, PTL DEF Spec

-------------------------------------------------------------------------------
(* The properties.                                                         *)

LEMMA RowsType ==
  ASSUME rows \in Seq(ParsedRow), NEW k \in DOMAIN rows
  PROVE  rows[k] \in ParsedRow /\ rows[k].rowNumber \in Nat
<1>1. rows[k] \in ParsedRow
  OBVIOUS
<1> QED BY <1>1 DEF ParsedRow

\* Before the loop, and where it is never reached, there are no rows.
LEMMA NoRows ==
  ASSUME IInv, ~(pc \in {"rows", "done"} /\ Readable)
  PROVE  /\ Untouched /\ DOMAIN rows = {}
         /\ rowErrors = {} \/ \E problem : rowErrors = {FileError(problem)}
<1>1. pc \in {"load", "rows", "done", "thrown"}
  BY DEF IInv, TypeOK
<1>2. Untouched /\ (rowErrors = {} \/ \E problem : rowErrors = {FileError(problem)})
  BY <1>1 DEF IInv, Stage
<1> QED BY <1>2 DEF Untouched

\* What the parts of Progress say of the numbers of the rows.
LEMMA ErrorNumbers ==
  ASSUME IInv, pc \in {"rows", "done"}, Readable
  PROVE  \A i : i \in RowsWithErrors <=>
           i \in 1 .. rowNumber - 1 /\ Filled(i) /\ RowErrors(i) # {}
<1>1. Progress /\ rowErrors \subseteq Error /\ rowNumber \in Nat
  BY FileType DEF IInv, TypeOK
<1>2. ASSUME NEW i \in RowsWithErrors
      PROVE  i \in 1 .. rowNumber - 1 /\ Filled(i) /\ RowErrors(i) # {}
  <2>1. PICK e \in rowErrors : e.row = i
    BY DEF RowsWithErrors
  <2>2. i \in Nat
    BY <1>1, <2>1 DEF Error
  <2> QED BY <1>1, <2>1, <2>2 DEF Progress, ErrorsExact
<1>3. ASSUME NEW i \in 1 .. rowNumber - 1, Filled(i), RowErrors(i) # {}
      PROVE  i \in RowsWithErrors
  <2>1. PICK e \in RowErrors(i) : e \in rowErrors
    BY <1>1, <1>3 DEF Progress, NothingLost
  <2>2. e.row = i /\ i # 0
    <3>1. i \in Nat /\ i # 0
      BY <1>1
    <3> QED BY <2>1, <3>1, ErrorsShape DEF RowErrors
  <2> QED BY <2>1, <2>2 DEF RowsWithErrors
<1> QED BY <1>2, <1>3

LEMMA ParsedNumbers ==
  ASSUME IInv, pc \in {"rows", "done"}, Readable
  PROVE  \A i : i \in RowsParsed <=>
           i \in 1 .. rowNumber - 1 /\ Filled(i) /\ RowErrors(i) = {}
<1>1. Progress /\ rows \in Seq(ParsedRow) /\ rowNumber \in Nat
  BY FileType DEF IInv, TypeOK
<1>2. \A k \in DOMAIN rows : rows[k].rowNumber \in Nat
  BY <1>1, RowsType
<1> QED BY <1>1, <1>2 DEF RowsParsed, Progress, RowsExact, NothingLost

\* Where no row was looked at, there is nothing to account for.
LEMMA NothingDone ==
  ASSUME Untouched, rowErrors = {} \/ \E problem : rowErrors = {FileError(problem)}
  PROVE  RowsParsed = {} /\ RowsWithErrors = {} /\ Len(rows) = 0
BY DEF Untouched, RowsParsed, RowsWithErrors, FileError

\* The types of the variables.
THEOREM TypeCorrect == Spec => []TypeOK
<1>1. IInv => TypeOK
  BY DEF IInv
<1> QED BY <1>1, Invariant, PTL

\* No row of the sheet gets lost or is counted twice, in any file: the rows
\* that are not blank are the parsed ones and those with an error, and
\* attemptedRowCount is their number.
THEOREM AccountedSafe == Spec => []RowsAccountedFor
<1>1. ASSUME IInv PROVE RowsAccountedFor
  <2>1. CASE pc \in {"rows", "done"} /\ Readable
    <3>1. RowsParsed \cap RowsWithErrors = {}
      BY <1>1, <2>1, ErrorNumbers, ParsedNumbers
    <3>2. RowsParsed \cup RowsWithErrors = {i \in 1 .. rowNumber - 1 : ~IsBlank(file.sheet[i])}
      BY <1>1, <2>1, ErrorNumbers, ParsedNumbers DEF Filled, Row
    <3>3. attemptedRowCount = Len(rows) + Cardinality(RowsWithErrors)
      BY <1>1, <2>1 DEF IInv, Progress, CountExact
    <3> QED BY <3>1, <3>2, <3>3 DEF RowsAccountedFor
  <2>2. CASE ~(pc \in {"rows", "done"} /\ Readable)
    <3>1. Untouched /\ (rowErrors = {} \/ \E problem : rowErrors = {FileError(problem)})
      BY <1>1, <2>2, NoRows
    <3>2. RowsParsed = {} /\ RowsWithErrors = {} /\ Len(rows) = 0
      BY <3>1, NothingDone
    <3> QED BY <3>1, <3>2, FS_EmptySet DEF RowsAccountedFor, Untouched
  <2> QED BY <2>1, <2>2
<1> QED BY <1>1, Invariant, PTL

\* A row's number is its place in the sheet, its texts are those of that row
\* below the last header of each field, and the order of the sheet is kept.
THEOREM NumberSafe == Spec => []RowsKeepTheirNumber
<1>1. ASSUME IInv PROVE RowsKeepTheirNumber
  <2>1. file \in FileRecord /\ rows \in Seq(ParsedRow) /\ rowNumber \in 1 .. Len(file.sheet) + 1
    BY <1>1, FileType DEF IInv, TypeOK
  <2>2. CASE pc \in {"rows", "done"} /\ Readable
    <3> SUFFICES ASSUME NEW k \in DOMAIN rows
                 PROVE  /\ rows[k].rowNumber \in DOMAIN file.sheet
                        /\ \A f \in Field, text \in Value :
                             rows[k].text[f] = text <=> HasText(rows[k].rowNumber, f, {text})
                        /\ \A l \in 1 .. k - 1 : rows[l].rowNumber < rows[k].rowNumber
      BY DEF RowsKeepTheirNumber
    <3>1. PICK i \in Nat : rows[k].rowNumber = i
      BY <2>1, RowsType
    <3>2. i \in 1 .. rowNumber - 1 /\ rows[k] = RowParsed(i) /\ columnIndex = MatchHeaders
      BY <1>1, <2>2, <3>1 DEF IInv, Progress, RowsExact
    <3>3. i \in DOMAIN file.sheet
      BY <2>1, <3>2 DEF FileRecord
    <3>4. \A f \in Field : rows[k].text[f] = CellText(Row(i), f)
      BY <3>2 DEF RowParsed, Parsed
    <3>5. \A f \in Field, text \in Value :
            rows[k].text[f] = text <=> HasText(i, f, {text})
      BY <2>1, <3>2, <3>4, CellTextIsText
    <3>6. \A l \in 1 .. k - 1 : rows[l].rowNumber < rows[k].rowNumber
      BY <1>1, <2>2 DEF IInv, Progress, RowsOrdered
    <3> QED BY <3>1, <3>3, <3>5, <3>6
  <2>3. CASE ~(pc \in {"rows", "done"} /\ Readable)
    BY <1>1, <2>3, NoRows DEF RowsKeepTheirNumber
  <2> QED BY <2>2, <2>3
<1> QED BY <1>1, Invariant, PTL

\* A file is accepted exactly if it is readable, has the required columns, and
\* no row that is not blank has a gap or a malformed text.
THEOREM VerdictSafe == Spec => []VerdictFitsFile
<1>1. ASSUME IInv PROVE VerdictFitsFile
  <2> SUFFICES ASSUME pc = "done"
               PROVE  rowErrors = {} <=>
                        /\ Readable
                        /\ \A i \in DOMAIN file.sheet : ~IsBlank(file.sheet[i]) =>
                             /\ \A f \in Must : HasText(i, f, Value)
                             /\ \A f \in Formatted : ~HasText(i, f, {"malformed"})
    BY DEF VerdictFitsFile, Readable
  <2>1. CASE ~Readable
    BY <1>1, <2>1 DEF IInv, Stage
  <2>2. CASE Readable
    <3>1. /\ file \in FileRecord /\ columnIndex = MatchHeaders /\ rowErrors \subseteq Error
          /\ DOMAIN file.sheet = 1 .. rowNumber - 1
      <4>1. file \in FileRecord /\ rowErrors \subseteq Error /\ rowNumber \in 1 .. Len(file.sheet) + 1
        BY <1>1, FileType DEF IInv, TypeOK
      <4>2. rowNumber > Len(file.sheet) /\ columnIndex = MatchHeaders
        BY <1>1, <2>2 DEF IInv, Stage, Progress
      <4> QED BY <4>1, <4>2 DEF FileRecord
    <3>2. ASSUME NEW i \in DOMAIN file.sheet
          PROVE  RowErrors(i) = {} <=>
                   /\ \A f \in Must : HasText(i, f, Value)
                   /\ \A f \in Formatted : ~HasText(i, f, {"malformed"})
      <4>1. i \in Nat /\ Must \subseteq Field /\ Formatted \subseteq Field
        BY <3>1 DEF FileRecord, Field
      <4>2. \A f \in Must : CellText(Row(i), f) # "" <=> HasText(i, f, Value)
        BY <3>1, <4>1, CellTextIsText
      <4>3. \A f \in Formatted : CellText(Row(i), f) = "malformed" <=> HasText(i, f, {"malformed"})
        BY <3>1, <4>1, CellTextIsText DEF Value
      <4> QED BY <4>1, <4>2, <4>3, ErrorsShape DEF RowErrors
    <3>3. rowErrors = {} <=> \A i \in DOMAIN file.sheet : Filled(i) => RowErrors(i) = {}
      <4>1. ASSUME NEW e \in rowErrors
            PROVE  \E i \in DOMAIN file.sheet : Filled(i) /\ RowErrors(i) # {}
        <5>1. e.row \in Nat
          BY <3>1 DEF Error
        <5> QED BY <1>1, <2>2, <3>1, <5>1 DEF IInv, Progress, ErrorsExact
      <4>2. ASSUME NEW i \in DOMAIN file.sheet, Filled(i), RowErrors(i) # {}
            PROVE  rowErrors # {}
        BY <1>1, <2>2, <3>1, <4>2 DEF IInv, Progress, NothingLost
      <4> QED BY <4>1, <4>2
    <3> QED BY <2>2, <3>2, <3>3 DEF Filled, Row
  <2> QED BY <2>1, <2>2
<1> QED BY <1>1, Invariant, PTL

\* A text that is no date is found in the column of the date of birth only.
LEMMA ImpossibleDate ==
  ASSUME file \in File, NEW i \in DOMAIN file.sheet, NEW f \in Field, f # "dateOfBirth"
  PROVE  ~HasText(i, f, {"impossible"})
<1> SUFFICES ASSUME NEW c \in Columns(f), file.sheet[i][c] = "impossible" PROVE FALSE
  BY DEF HasText
<1>1. c \in DOMAIN file.headers /\ file.headers[c] = f
  BY DEF Columns
<1> QED BY <1>1, FileAssumption

\* What the User schema can refuse of a registered row is its date of birth, and
\* the degree and the registration date of the form, in every file.
THEOREM SchemaSafe == Spec => []ParsedRowsFitSchema
<1>1. ASSUME IInv PROVE ParsedRowsFitSchema
  <2>1. CASE pc \in {"rows", "done"} /\ Readable
    <3> SUFFICES ASSUME NEW k \in DOMAIN rows
                 PROVE  Refused(Input(rows[k])) \subseteq {"dateOfBirth", "degree", "registrationDate"}
      BY DEF ParsedRowsFitSchema
    <3>1. PICK i \in Nat : rows[k].rowNumber = i
      BY <1>1, RowsType DEF IInv, TypeOK
    <3>2. i \in 1 .. rowNumber - 1 /\ RowErrors(i) = {} /\ rows[k] = RowParsed(i)
      BY <1>1, <2>1, <3>1 DEF IInv, Progress, RowsExact
    <3>3. \A f \in Field : rows[k].text[f] = CellText(Row(i), f)
      BY <3>2 DEF RowParsed, Parsed
    <3>4. /\ file \in File /\ file \in FileRecord /\ columnIndex = MatchHeaders
          /\ i \in DOMAIN file.sheet
      <4>1. file \in File /\ file \in FileRecord /\ rowNumber \in 1 .. Len(file.sheet) + 1
        BY <1>1, FileType DEF IInv, TypeOK
      <4>2. columnIndex = MatchHeaders
        BY <1>1, <2>1 DEF IInv, Progress
      <4> QED BY <4>1, <4>2, <3>2 DEF FileRecord
    <3>5. \A f \in Must : rows[k].text[f] # ""
      BY <3>2, <3>3, ErrorsShape DEF RowErrors, Field
    <3>6. \A f \in Formatted : rows[k].text[f] # "malformed"
      BY <3>2, <3>3, ErrorsShape DEF RowErrors, Field
    <3>7. ASSUME NEW f \in Field, f # "dateOfBirth" PROVE rows[k].text[f] # "impossible"
      BY <3>3, <3>4, <3>7, CellTextIsText, ImpossibleDate DEF Value
    <3>8. \A f \in FormMust : file.form[f] = "good"
      BY <3>4 DEF FileRecord, Form
    <3> DEFINE input == Input(rows[k])
    <3>9. /\ \A f \in Field : input[f] = rows[k].text[f]
          /\ \A f \in FormMust : input[f] = "good"
      BY <3>8 DEF Input, FormField, FormMust, Field, Must, Formatted, Plain
    <3> HIDE DEF input
    <3>10. ASSUME NEW f \in SchemaRequires, input[f] = "" PROVE f \in {"dateOfBirth", "degree"}
      BY <3>5, <3>9, <3>10 DEF SchemaRequires, Must, FormMust, Field
    <3>11. ASSUME NEW f \in SchemaFormats, input[f] \in {"malformed", "impossible"}
           PROVE  f \in {"dateOfBirth", "registrationDate"}
      BY <3>6, <3>7, <3>9, <3>11 DEF SchemaFormats, Formatted, Field
    <3> QED BY <3>10, <3>11 DEF Refused, input
  <2>2. CASE ~(pc \in {"rows", "done"} /\ Readable)
    BY <1>1, <2>2, NoRows DEF ParsedRowsFitSchema
  <2> QED BY <2>1, <2>2
<1> QED BY <1>1, Invariant, PTL

===============================================================================
