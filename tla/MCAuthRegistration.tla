-------------------------- MODULE MCAuthRegistration --------------------------
(***************************************************************************)
(* Instances of AuthRegistration for TLC.  ann is a well-formed student,   *)
(* sam a staff member as user management registers them, without a user    *)
(* name.                                                                   *)
(***************************************************************************)
EXTENDS AuthRegistration

CONSTANTS ann, sam, mail, h1, h2

MCEmail == {mail}
MCHandler == {h1, h2}
MCOneHandler == {h1}

Student ==
  [primaryEmail |-> mail, userName |-> "given", fullName |-> "words",
   role |-> "student", registrationNo |-> "given"]

Staff ==
  [primaryEmail |-> mail, userName |-> "", fullName |-> "words",
   role |-> "staff", registrationNo |-> ""]

MCCommandOf == [u \in User |-> IF u = sam THEN Staff ELSE Student]

AnnSam == {ann, sam}
Ann == {ann}

\* Every call may fail, only the writes of audit records, or only the publishes
\* of a success, after which the catch answers all the same.
AnyCall == Calls
AuditCalls == {"auditRejected", "auditDuplicate", "auditSuccess", "auditFailed"}
RecoveredCalls == {"publishCredentials", "publishSuccess"}
===============================================================================
