------------------------- MODULE MCRegistrationPipeline -------------------------
(***************************************************************************)
(* Instances of RegistrationPipeline for TLC: ann and ben share an e-mail  *)
(* address, so that only one of them can be registered (user management    *)
(* lets an address be used again after PUT /users/:id changed it).         *)
(***************************************************************************)
EXTENDS RegistrationPipeline

CONSTANTS ann, ben, mail, h1

AnnBen == {ann, ben}
MCEmail == {mail}
MCHandler == {h1}

Student ==
  [primaryEmail |-> mail, userName |-> "given", fullName |-> "words",
   role |-> "student", registrationNo |-> "given"]
MCCommandOf == [u \in User |-> Student]

SuccessAudit == {"auditSuccess"}
NoCall == {}
MailOnly == {"mail"}
===============================================================================
