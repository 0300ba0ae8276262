----------------------------- MODULE MCUserQueries -----------------------------
(***************************************************************************)
(* Instances of UserQueries for TLC: a file with two rows beside a form,   *)
(* all of different people.                                                *)
(***************************************************************************)
EXTENDS UserQueries

CONSTANTS form, file

Student(nic) ==
  [nic |-> nic, username |-> nic, email |-> "none", registrationNo |-> nic, complete |-> TRUE]

MCJob == {form, file}
MCBulk == {file}
MCRowsOf ==
  [j \in MCJob |-> IF j = file THEN <<Student("ann"), Student("bea")>> ELSE <<Student("cal")>>]
MCErrorsOf == [j \in MCJob |-> 0]
NoEmail == {}
MCTime == 1 .. 3
\* Everybody; and of the file those who wait for a decision, and the failed, whom
\* events may take off the list and put on it again.
MCFilter ==
  {[jobs |-> MCJob, status |-> AuthStatus], [jobs |-> MCBulk, status |-> {"pending"}],
   [jobs |-> MCBulk, status |-> {"failed"}]}
PublishOnly == {"publish"}
===============================================================================
