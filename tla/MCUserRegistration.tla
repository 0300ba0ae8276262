-------------------------- MODULE MCUserRegistration --------------------------
(***************************************************************************)
(* Instances of UserRegistration for TLC.  Ann is registered by a form and *)
(* by a file at once, in the file with another username and a mistyped     *)
(* registration number.  Bea is someone else with Ann's generated          *)
(* username; Cal has Ann's address; Dan's row lacks a required field; one  *)
(* file has two errors in its only row.                                    *)
(***************************************************************************)
EXTENDS UserRegistration

CONSTANTS form, file1, file2, badFile

Student(nic, username, email, complete) ==
  [ nic |-> nic, username |-> username, email |-> email, registrationNo |-> nic,
    complete |-> complete ]

Ann == Student("ann", "ann", "ann@x", TRUE)
Annie == [Student("ann", "annie", "none", TRUE) EXCEPT !.registrationNo = "ann2"]
Bea == Student("bea", "ann", "none", TRUE)
Cal == Student("cal", "cal", "ann@x", TRUE)
Dan == Student("dan", "dan", "none", FALSE)
Eve == Student("eve", "eve", "none", TRUE)

MCEmail == {"ann@x", "new@x"}
AnyCall == {"createBatch", "insert", "publish", "saveBatch"}

MCJob == {form, file1, file2, badFile}
MCBulk == {file1, file2, badFile}
MCRowsOf ==
  [j \in MCJob |->
     CASE j = form      -> <<Ann>>
       [] j = file1     -> <<Annie, Dan>>
       [] j = file2     -> <<Bea, Cal>>
       [] j = badFile   -> <<Eve>>]
MCErrorsOf == [j \in MCJob |-> IF j = badFile THEN 2 ELSE 0]
===============================================================================
