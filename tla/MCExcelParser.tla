----------------------------- MODULE MCExcelParser -----------------------------
(***************************************************************************)
(* Instances of ExcelParser for TLC: files that cannot be read, and sheets *)
(* of up to three rows below three sorts of headers.  A second nic column  *)
(* hides the first, and one column is unknown to the parser.  A form lacks *)
(* the degree, or has a date of registration that is none, or nothing      *)
(* missing.                                                                *)
(***************************************************************************)
EXTENDS ExcelParser

Headers ==
  <<"registrationNo", "nic", "nameWithInitials", "fullName", "permanentAddress",
    "dateOfBirth", "unknown">>
TwoNics == [Headers EXCEPT ![7] = "nic"]
NoAddress == [Headers EXCEPT ![5] = "unknown"]

Good == [c \in 1 .. 7 |-> "good"]
RowKinds ==
  { Good,
    [c \in 1 .. 7 |-> "none"],
    [c \in 1 .. 7 |-> IF c = 7 THEN "blank" ELSE "none"],
    [Good EXCEPT ![2] = "blank"],
    [Good EXCEPT ![7] = "none"],
    [Good EXCEPT ![6] = "impossible"],
    [Good EXCEPT ![1] = "malformed", ![6] = "malformed"] }

Sheets == UNION {[1 .. n -> RowKinds] : n \in 0 .. 3}

FullForm == [f \in FormField |-> "good"]
Forms ==
  {FullForm, [FullForm EXCEPT !["degree"] = ""],
   [FullForm EXCEPT !["degree"] = "", !["registrationDate"] = "impossible"]}

MCFile ==
  [kind : {"sheet"}, headers : {Headers, TwoNics, NoAddress}, sheet : Sheets, form : Forms]
  \cup [kind : {"corrupt", "empty"}, headers : {<<>>}, sheet : {<<>>}, form : Forms]
===============================================================================
