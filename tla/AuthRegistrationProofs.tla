------------------------ MODULE AuthRegistrationProofs ------------------------
(***************************************************************************)
(* What the auth service guarantees for every set of users, commands and   *)
(* handlers, every choice of calls that fail and any number of crashes and *)
(* channel losses.                                                         *)
(*                                                                         *)
(* The invariants of AuthRegistration speak of what was published and      *)
(* stored; the strengthenings below say what the step a handler is at      *)
(* implies about the stores, which is what makes them inductive.           *)
(***************************************************************************)
EXTENDS AuthRegistration, TLAPS

USE CommandAssumption, NoneAssumption, FallibleAssumption, BoundsAssumption

\* A busy handler works for a user, on a delivery that was made.
BusyOK ==
  \A h \in Handler : handlers[h].pc # "idle" =>
    /\ handlers[h].user \in User
    /\ handlers[h].delivery \in 1 .. deliveries

TypeInv == TypeOK /\ BusyOK

LEMMA TypeInit == Init => TypeInv
  BY DEF Init, TypeInv, TypeOK, BusyOK, IdleHandler, HandlerState, Steps, Calls

LEMMA TypeDeliver ==
  ASSUME TypeInv, NEW h \in Handler, NEW u \in User, Deliver(h, u)
  PROVE  TypeInv'
  BY DEF TypeInv, TypeOK, BusyOK, Deliver, At, Ready, HandlerState, Steps, Calls, store, faults

\* A handler moves to a step and touches neither stores nor queues.
LEMMA TypeGoto ==
  ASSUME TypeInv, NEW h \in Handler, NEW step \in Steps \ {"idle"},
         ~At(h, "idle"), Goto(h, step),
         UNCHANGED <<commands, settled, deliveries, store, faults>>
  PROVE  TypeInv'
  BY DEF TypeInv, TypeOK, BusyOK, At, Goto, HandlerState, Steps, Calls, store, faults

LEMMA TypeRun ==
  ASSUME TypeInv, NEW h \in Handler, Run(h)
  PROVE  TypeInv'
<1>1. CASE AuditRejected(h)
  BY <1>1 DEF AuditRejected, Audit, TypeInv, TypeOK, BusyOK, At, Goto, HandlerState, Steps, Calls, AuditRecord, faults
<1>2. CASE PublishRejected(h)
  BY <1>2 DEF PublishRejected, PublishStatus, TypeInv, TypeOK, BusyOK, At, Goto, HandlerState, Steps, Calls, StatusEvent, faults
<1>3. CASE FindDuplicate(h)
  BY <1>3, TypeGoto DEF FindDuplicate, At, Steps, Calls
<1>4. CASE AuditDuplicate(h)
  BY <1>4 DEF AuditDuplicate, Audit, TypeInv, TypeOK, BusyOK, At, Goto, HandlerState, Steps, Calls, AuditRecord, faults
<1>5. CASE PublishDuplicate(h)
  BY <1>5 DEF PublishDuplicate, PublishStatus, TypeInv, TypeOK, BusyOK, At, Goto, HandlerState, Steps, Calls, StatusEvent, faults
<1>6. CASE FindNone(h)
  BY <1>6, TypeGoto DEF FindNone, At, Steps, Calls
<1>7. CASE LdapSearch(h)
  BY <1>7, TypeGoto DEF LdapSearch, At, Steps, Calls
<1>8. CASE LdapAdd(h)
  BY <1>8 DEF LdapAdd, TypeInv, TypeOK, BusyOK, At, Goto, HandlerState, Steps, Calls, faults
<1>9. CASE LdapAddExists(h)
  BY <1>9, TypeGoto DEF LdapAddExists, At, Steps, Calls
<1>10. CASE LdapUnbind(h)
  BY <1>10, TypeGoto DEF LdapUnbind, At, Steps, Calls
<1>11. CASE CreateAccount(h)
  BY <1>11 DEF CreateAccount, TypeInv, TypeOK, BusyOK, At, Goto, HandlerState, Steps, Calls, faults
<1>12. CASE CreateAccountDuplicateKey(h)
  BY <1>12, TypeGoto DEF CreateAccountDuplicateKey, At, Steps, Calls
<1>13. CASE PublishCredentials(h)
  BY <1>13 DEF PublishCredentials, TypeInv, TypeOK, BusyOK, At, Goto, HandlerState, Steps, Calls, CredentialsEvent, faults
<1>14. CASE PublishSuccess(h)
  BY <1>14 DEF PublishSuccess, PublishStatus, TypeInv, TypeOK, BusyOK, At, Goto, HandlerState, Steps, Calls, StatusEvent, faults
<1>15. CASE AuditSuccess(h)
  BY <1>15 DEF AuditSuccess, Audit, TypeInv, TypeOK, BusyOK, At, Goto, HandlerState, Steps, Calls, AuditRecord, faults
<1>16. CASE AuditFailed(h)
  BY <1>16 DEF AuditFailed, Audit, TypeInv, TypeOK, BusyOK, At, Goto, HandlerState, Steps, Calls, AuditRecord, faults
<1>17. CASE PublishFailed(h)
  BY <1>17 DEF PublishFailed, PublishStatus, TypeInv, TypeOK, BusyOK, At, Goto, HandlerState, Steps, Calls, StatusEvent, faults
<1>18. CASE CallFails(h)
  BY <1>18, TypeGoto DEF CallFails, OnError, TryCalls, At, Steps, Calls
<1>19. CASE Settle(h)
  BY <1>19 DEF Settle, TypeInv, TypeOK, BusyOK, At, IdleHandler, HandlerState, Steps, Calls, store, faults
<1>20. CASE LdapAddUnanswered(h)
  BY <1>20 DEF LdapAddUnanswered, OnError, TryCalls, TypeInv, TypeOK, BusyOK, At, Goto, HandlerState, Steps, Calls, faults
<1>21. CASE CreateAccountUnanswered(h)
  BY <1>21 DEF CreateAccountUnanswered, OnError, TryCalls, TypeInv, TypeOK, BusyOK, At, Goto, HandlerState, Steps, Calls, faults
<1> QED
  BY <1>1, <1>2, <1>3, <1>4, <1>5, <1>6, <1>7, <1>8, <1>9, <1>10, <1>11, <1>12, <1>13,
     <1>14, <1>15, <1>16, <1>17, <1>18, <1>19, <1>20, <1>21 DEF Run

LEMMA TypeStep == TypeInv /\ [Next]_vars => TypeInv'
<1> SUFFICES ASSUME TypeInv, [Next]_vars PROVE TypeInv'
  OBVIOUS
<1>1. ASSUME NEW u \in User, Request(u) PROVE TypeInv'
  BY <1>1 DEF Request, TypeInv, TypeOK, BusyOK, store, faults
<1>2. CASE Crash
  BY <1>2 DEF Crash, TypeInv, TypeOK, BusyOK, IdleHandler, HandlerState, Steps, Calls, store
<1>3. CASE ConnectionLost
  <2>1. \A h \in Handler :
           /\ handlers'[h] = [handlers[h] EXCEPT !.owns = FALSE]
           /\ handlers'[h] \in HandlerState
    BY <1>3 DEF ConnectionLost, TypeInv, TypeOK, HandlerState
  <2>2. TypeOK'
    BY <1>3, <2>1 DEF ConnectionLost, TypeInv, TypeOK, store
  <2>3. BusyOK'
    BY <1>3, <2>1 DEF ConnectionLost, TypeInv, TypeOK, BusyOK, HandlerState, store
  <2> QED
    BY <2>2, <2>3 DEF TypeInv
<1>4. CASE UNCHANGED vars
  BY <1>4 DEF vars, TypeInv, TypeOK, BusyOK, store, faults
<1> QED
  BY <1>1, <1>2, <1>3, <1>4, TypeDeliver, TypeRun DEF Next, Service

\* The variables keep their types, and a busy handler always has a user and a
\* delivery: the records it audits and publishes are well-formed.
LEMMA TypeInvariant == Spec => []TypeInv
  BY TypeInit, TypeStep, PTL DEF Spec

THEOREM TypeCorrect == Spec => []TypeOK
<1>1. TypeInv => TypeOK
  BY DEF TypeInv
<1> QED
  BY <1>1, TypeInvariant, PTL

-------------------------------------------------------------------------------
(* The stores and the queues agree.                                        *)

\* An entry is there once ldapAdd or ldapSearch found it or made it, and an
\* account once createAccount or findAccount did; nothing is ever removed.
StoresOrdered ==
  /\ \A u \in accounts : ldap[u] # 0
  /\ \A h \in Handler : handlers[h].pc \in {"ldapUnbind", "createAccount"} =>
       ldap[handlers[h].user] # 0
  /\ \A h \in Handler :
       handlers[h].pc \in {"auditDuplicate", "publishDuplicate", "publishCredentials",
                           "publishSuccess", "auditSuccess"} =>
         handlers[h].user \in accounts

AccountInv == StoresOrdered /\ CredentialsHaveAccount /\ SuccessHasAccount

LEMMA AccountRun ==
  ASSUME TypeInv, AccountInv, NEW h \in Handler, Run(h)
  PROVE  AccountInv'
<1> USE DEF TypeInv, TypeOK, BusyOK, HandlerState, AccountInv, StoresOrdered, CredentialsHaveAccount, SuccessHasAccount, Answered, At, Goto, store, faults
<1>1. CASE AuditRejected(h)
  BY <1>1 DEF AuditRejected, Audit
<1>2. CASE PublishRejected(h)
  BY <1>2 DEF PublishRejected, PublishStatus
<1>3. CASE FindDuplicate(h)
  BY <1>3 DEF FindDuplicate
<1>4. CASE AuditDuplicate(h)
  BY <1>4 DEF AuditDuplicate, Audit
<1>5. CASE PublishDuplicate(h)
  BY <1>5 DEF PublishDuplicate, PublishStatus
<1>6. CASE FindNone(h)
  BY <1>6 DEF FindNone
<1>7. CASE LdapSearch(h)
  BY <1>7 DEF LdapSearch
<1>8. CASE LdapAdd(h)
  BY <1>8 DEF LdapAdd
<1>9. CASE LdapAddExists(h)
  BY <1>9 DEF LdapAddExists
<1>10. CASE LdapUnbind(h)
  BY <1>10 DEF LdapUnbind
<1>11. CASE CreateAccount(h)
  BY <1>11 DEF CreateAccount
<1>12. CASE CreateAccountDuplicateKey(h)
  BY <1>12 DEF CreateAccountDuplicateKey
<1>13. CASE PublishCredentials(h)
  BY <1>13 DEF PublishCredentials
<1>14. CASE PublishSuccess(h)
  BY <1>14 DEF PublishSuccess, PublishStatus
<1>15. CASE AuditSuccess(h)
  BY <1>15 DEF AuditSuccess, Audit
<1>16. CASE AuditFailed(h)
  BY <1>16 DEF AuditFailed, Audit
<1>17. CASE PublishFailed(h)
  BY <1>17 DEF PublishFailed, PublishStatus
<1>18. CASE CallFails(h)
  BY <1>18 DEF CallFails, OnError, TryCalls
<1>19. CASE Settle(h)
  BY <1>19 DEF Settle, IdleHandler
<1>20. CASE LdapAddUnanswered(h)
  BY <1>20 DEF LdapAddUnanswered, OnError, TryCalls
<1>21. CASE CreateAccountUnanswered(h)
  BY <1>21 DEF CreateAccountUnanswered, OnError, TryCalls
<1> QED
  BY <1>1, <1>2, <1>3, <1>4, <1>5, <1>6, <1>7, <1>8, <1>9, <1>10,
     <1>11, <1>12, <1>13, <1>14, <1>15, <1>16, <1>17, <1>18, <1>19, <1>20, <1>21 DEF Run

LEMMA AccountStep == TypeInv /\ AccountInv /\ [Next]_vars => AccountInv'
<1> SUFFICES ASSUME TypeInv, AccountInv, [Next]_vars PROVE AccountInv'
  OBVIOUS
<1> USE DEF TypeInv, TypeOK, BusyOK, HandlerState, AccountInv, StoresOrdered, CredentialsHaveAccount, SuccessHasAccount, Answered, At, store, faults
<1>1. ASSUME NEW u \in User, Request(u) PROVE AccountInv'
  BY <1>1 DEF Request
<1>2. ASSUME NEW h \in Handler, NEW u \in User, Deliver(h, u) PROVE AccountInv'
  BY <1>2 DEF Deliver, Ready
<1>3. CASE Crash
  BY <1>3 DEF Crash, IdleHandler
<1>4. CASE ConnectionLost
  BY <1>4 DEF ConnectionLost
<1>5. CASE UNCHANGED vars
  BY <1>5 DEF vars
<1> QED
  BY <1>1, <1>2, <1>3, <1>4, <1>5, AccountRun DEF Next, Service

LEMMA AccountInvariant == Spec => []AccountInv
<1>1. Init => AccountInv
  BY DEF Init, AccountInv, StoresOrdered, CredentialsHaveAccount, SuccessHasAccount,
         Answered, IdleHandler
<1> QED
  BY <1>1, TypeInvariant, AccountStep, PTL DEF Spec

\* Credentials reach notification only for a user with an entry and an account.
THEOREM CredentialsSafe == Spec => []CredentialsHaveAccount
<1>1. AccountInv => CredentialsHaveAccount
  BY DEF AccountInv
<1> QED
  BY <1>1, AccountInvariant, PTL

\* SUCCESS reaches user management only for a user with an entry and an account.
THEOREM SuccessSafe == Spec => []SuccessHasAccount
<1>1. AccountInv => SuccessHasAccount
  BY DEF AccountInv
<1> QED
  BY <1>1, AccountInvariant, PTL

-------------------------------------------------------------------------------
(* One password per user.                                                  *)

\* The unique index lets one handler only through createAccount: the one that
\* is about to publish the credentials is alone, and before it nobody did.
IssueInv ==
  /\ CredentialsIssuedOnce
  /\ \A h \in Handler : At(h, "publishCredentials") =>
       /\ \A c \in credentials : c.user # handlers[h].user
       /\ \A g \in Handler : At(g, "publishCredentials") /\ handlers[g].user = handlers[h].user
            => g = h

LEMMA IssueRun ==
  ASSUME TypeInv, AccountInv, IssueInv, NEW h \in Handler, Run(h)
  PROVE  IssueInv'
<1> USE DEF TypeInv, TypeOK, BusyOK, HandlerState, AccountInv, StoresOrdered, CredentialsHaveAccount, IssueInv, CredentialsIssuedOnce, At, Goto, store, faults
<1>1. CASE AuditRejected(h)
  BY <1>1 DEF AuditRejected, Audit
<1>2. CASE PublishRejected(h)
  BY <1>2 DEF PublishRejected, PublishStatus
<1>3. CASE FindDuplicate(h)
  BY <1>3 DEF FindDuplicate
<1>4. CASE AuditDuplicate(h)
  BY <1>4 DEF AuditDuplicate, Audit
<1>5. CASE PublishDuplicate(h)
  BY <1>5 DEF PublishDuplicate, PublishStatus
<1>6. CASE FindNone(h)
  BY <1>6 DEF FindNone
<1>7. CASE LdapSearch(h)
  BY <1>7 DEF LdapSearch
<1>8. CASE LdapAdd(h)
  BY <1>8 DEF LdapAdd
<1>9. CASE LdapAddExists(h)
  BY <1>9 DEF LdapAddExists
<1>10. CASE LdapUnbind(h)
  BY <1>10 DEF LdapUnbind
<1>11. CASE CreateAccount(h)
  BY <1>11 DEF CreateAccount, Taken
<1>12. CASE CreateAccountDuplicateKey(h)
  BY <1>12 DEF CreateAccountDuplicateKey
<1>13. CASE PublishCredentials(h)
  BY <1>13 DEF PublishCredentials
<1>14. CASE PublishSuccess(h)
  BY <1>14 DEF PublishSuccess, PublishStatus
<1>15. CASE AuditSuccess(h)
  BY <1>15 DEF AuditSuccess, Audit
<1>16. CASE AuditFailed(h)
  BY <1>16 DEF AuditFailed, Audit
<1>17. CASE PublishFailed(h)
  BY <1>17 DEF PublishFailed, PublishStatus
<1>18. CASE CallFails(h)
  BY <1>18 DEF CallFails, OnError, TryCalls
<1>19. CASE Settle(h)
  BY <1>19 DEF Settle, IdleHandler
<1>20. CASE LdapAddUnanswered(h)
  BY <1>20 DEF LdapAddUnanswered, OnError, TryCalls
<1>21. CASE CreateAccountUnanswered(h)
  BY <1>21 DEF CreateAccountUnanswered, OnError, TryCalls, Taken
<1> QED
  BY <1>1, <1>2, <1>3, <1>4, <1>5, <1>6, <1>7, <1>8, <1>9, <1>10,
     <1>11, <1>12, <1>13, <1>14, <1>15, <1>16, <1>17, <1>18, <1>19, <1>20, <1>21 DEF Run

LEMMA IssueStep == TypeInv /\ AccountInv /\ IssueInv /\ [Next]_vars => IssueInv'
<1> SUFFICES ASSUME TypeInv, AccountInv, IssueInv, [Next]_vars PROVE IssueInv'
  OBVIOUS
<1> USE DEF TypeInv, TypeOK, BusyOK, HandlerState, AccountInv, StoresOrdered, CredentialsHaveAccount, IssueInv, CredentialsIssuedOnce, At, store, faults
<1>1. ASSUME NEW u \in User, Request(u) PROVE IssueInv'
  BY <1>1 DEF Request
<1>2. ASSUME NEW h \in Handler, NEW u \in User, Deliver(h, u) PROVE IssueInv'
  BY <1>2 DEF Deliver, Ready
<1>3. CASE Crash
  BY <1>3 DEF Crash, IdleHandler
<1>4. CASE ConnectionLost
  BY <1>4 DEF ConnectionLost
<1>5. CASE UNCHANGED vars
  BY <1>5 DEF vars
<1> QED
  BY <1>1, <1>2, <1>3, <1>4, <1>5, IssueRun DEF Next, Service

\* However often a command is redelivered, one password at most is sent out.
THEOREM IssuedOnceSafe == Spec => []CredentialsIssuedOnce
<1>1. Init => IssueInv
  BY DEF Init, IssueInv, CredentialsIssuedOnce, At, IdleHandler
<1>2. Spec => []IssueInv
  BY <1>1, TypeInvariant, AccountInvariant, IssueStep, PTL DEF Spec
<1>3. IssueInv => CredentialsIssuedOnce
  BY DEF IssueInv
<1> QED
  BY <1>2, <1>3, PTL

-------------------------------------------------------------------------------
(* One answer per delivery, and an answer per settled command.             *)

\* The calls whose failure loses the answer.
AnswerCalls == {"findAccount", "publishRejected", "publishDuplicate", "publishFailed"}

\* A failing call sends the handler out only past its answer, or by losing it.
LEMMA OnErrorSettles ==
  ASSUME NEW step \in Calls
  PROVE  /\ OnError(step) \in Calls \cup {"settle"}
         /\ OnError(step) # "auditSuccess"
         /\ OnError(step) = "settle" <=> step \in AnswerCalls \cup {"auditSuccess"}
  BY DEF OnError, TryCalls, Calls, AnswerCalls

\* Each delivery has one handler, and until that handler is past its last
\* publish nothing was answered for the delivery.
AnswerInv ==
  /\ NoContradictoryAnswer
  /\ \A r \in results : r.delivery <= deliveries
  /\ \A g, h \in Handler :
       handlers[g].pc # "idle" /\ handlers[h].pc # "idle"
         /\ handlers[g].delivery = handlers[h].delivery => g = h
  /\ \A h \in Handler : handlers[h].pc \notin {"idle", "auditSuccess", "settle"} =>
       \A r \in results : r.delivery # handlers[h].delivery

LEMMA AnswerRun ==
  ASSUME TypeInv, AnswerInv, NEW h \in Handler, Run(h)
  PROVE  AnswerInv'
<1> USE DEF TypeInv, TypeOK, BusyOK, HandlerState, AnswerInv, NoContradictoryAnswer, StatusEvent, At, Goto, store, faults
<1>1. CASE AuditRejected(h)
  BY <1>1 DEF AuditRejected, Audit
<1>2. CASE PublishRejected(h)
  BY <1>2 DEF PublishRejected, PublishStatus
<1>3. CASE FindDuplicate(h)
  BY <1>3 DEF FindDuplicate
<1>4. CASE AuditDuplicate(h)
  BY <1>4 DEF AuditDuplicate, Audit
<1>5. CASE PublishDuplicate(h)
  BY <1>5 DEF PublishDuplicate, PublishStatus
<1>6. CASE FindNone(h)
  BY <1>6 DEF FindNone
<1>7. CASE LdapSearch(h)
  BY <1>7 DEF LdapSearch
<1>8. CASE LdapAdd(h)
  BY <1>8 DEF LdapAdd
<1>9. CASE LdapAddExists(h)
  BY <1>9 DEF LdapAddExists
<1>10. CASE LdapUnbind(h)
  BY <1>10 DEF LdapUnbind
<1>11. CASE CreateAccount(h)
  BY <1>11 DEF CreateAccount
<1>12. CASE CreateAccountDuplicateKey(h)
  BY <1>12 DEF CreateAccountDuplicateKey
<1>13. CASE PublishCredentials(h)
  BY <1>13 DEF PublishCredentials
<1>14. CASE PublishSuccess(h)
  BY <1>14 DEF PublishSuccess, PublishStatus
<1>15. CASE AuditSuccess(h)
  BY <1>15 DEF AuditSuccess, Audit
<1>16. CASE AuditFailed(h)
  BY <1>16 DEF AuditFailed, Audit
<1>17. CASE PublishFailed(h)
  BY <1>17 DEF PublishFailed, PublishStatus
<1>18. CASE CallFails(h)
  <2>1. handlers[h].pc \in Calls
    BY <1>18 DEF CallFails
  <2>2. handlers[h].pc = "auditSuccess" => OnError(handlers[h].pc) = "settle"
    BY <2>1, OnErrorSettles
  <2> QED
    BY <1>18, <2>1, <2>2 DEF CallFails, Calls
<1>19. CASE Settle(h)
  BY <1>19 DEF Settle, IdleHandler
<1>20. CASE LdapAddUnanswered(h)
  BY <1>20 DEF LdapAddUnanswered, OnError, TryCalls
<1>21. CASE CreateAccountUnanswered(h)
  BY <1>21 DEF CreateAccountUnanswered, OnError, TryCalls
<1> QED
  BY <1>1, <1>2, <1>3, <1>4, <1>5, <1>6, <1>7, <1>8, <1>9, <1>10,
     <1>11, <1>12, <1>13, <1>14, <1>15, <1>16, <1>17, <1>18, <1>19, <1>20, <1>21 DEF Run

LEMMA AnswerStep == TypeInv /\ AnswerInv /\ [Next]_vars => AnswerInv'
<1> SUFFICES ASSUME TypeInv, AnswerInv, [Next]_vars PROVE AnswerInv'
  OBVIOUS
<1> USE DEF TypeInv, TypeOK, BusyOK, HandlerState, AnswerInv, NoContradictoryAnswer, StatusEvent, At, store, faults
<1>1. ASSUME NEW u \in User, Request(u) PROVE AnswerInv'
  BY <1>1 DEF Request
<1>2. ASSUME NEW h \in Handler, NEW u \in User, Deliver(h, u) PROVE AnswerInv'
  BY <1>2 DEF Deliver, Ready
<1>3. CASE Crash
  BY <1>3 DEF Crash, IdleHandler
<1>4. CASE ConnectionLost
  BY <1>4 DEF ConnectionLost
<1>5. CASE UNCHANGED vars
  BY <1>5 DEF vars
<1> QED
  BY <1>1, <1>2, <1>3, <1>4, <1>5, AnswerRun DEF Next, Service

LEMMA AnswerInvariant == Spec => []AnswerInv
<1>1. Init => AnswerInv
  BY DEF Init, AnswerInv, NoContradictoryAnswer, IdleHandler
<1> QED
  BY <1>1, TypeInvariant, AnswerStep, PTL DEF Spec

\* No delivery reports both SUCCESS and FAILED, whatever fails in between.
THEOREM NoContradictionSafe == Spec => []NoContradictoryAnswer
<1>1. AnswerInv => NoContradictoryAnswer
  BY DEF AnswerInv
<1> QED
  BY <1>1, AnswerInvariant, PTL

\* If the calls of AnswerCalls do not fail, a handler on its way out has answered its user.
SettleInv ==
  Fallible \cap AnswerCalls = {} =>
    /\ \A u \in settled : Answered(u, "SUCCESS") \/ Answered(u, "FAILED")
    /\ \A h \in Handler : handlers[h].pc \in {"auditSuccess", "settle"} =>
         Answered(handlers[h].user, "SUCCESS") \/ Answered(handlers[h].user, "FAILED")

\* A status published answers its user; no answer is ever taken back.
LEMMA PublishAnswers ==
  ASSUME NEW h \in Handler, NEW at, NEW status, NEW next,
         PublishStatus(h, at, status, next)
  PROVE  \A u : u = handlers[h].user => Answered(u, status)'
<1> DEFINE r == [user |-> handlers[h].user, status |-> status, delivery |-> handlers[h].delivery]
<1>1. r \in results'
  BY DEF PublishStatus
<1>2. r.user = handlers[h].user /\ r.status = status
  OBVIOUS
<1> QED
  BY <1>1, <1>2 DEF Answered

LEMMA AnswersStay ==
  ASSUME results \subseteq results'
  PROVE  \A u, status : Answered(u, status) => Answered(u, status)'
  BY DEF Answered

LEMMA SettleRun ==
  ASSUME TypeInv, SettleInv, NEW h \in Handler, Run(h)
  PROVE  SettleInv'
<1> USE DEF TypeInv, TypeOK, BusyOK, HandlerState, SettleInv, AnswerCalls, At, Goto, store, faults
<1>1. CASE AuditRejected(h)
  BY <1>1, AnswersStay DEF AuditRejected, Audit
<1>2. CASE PublishRejected(h)
  BY <1>2, AnswersStay, PublishAnswers DEF PublishRejected, PublishStatus
<1>3. CASE FindDuplicate(h)
  BY <1>3, AnswersStay DEF FindDuplicate
<1>4. CASE AuditDuplicate(h)
  BY <1>4, AnswersStay DEF AuditDuplicate, Audit
<1>5. CASE PublishDuplicate(h)
  BY <1>5, AnswersStay, PublishAnswers DEF PublishDuplicate, PublishStatus
<1>6. CASE FindNone(h)
  BY <1>6, AnswersStay DEF FindNone
<1>7. CASE LdapSearch(h)
  BY <1>7, AnswersStay DEF LdapSearch
<1>8. CASE LdapAdd(h)
  BY <1>8, AnswersStay DEF LdapAdd
<1>9. CASE LdapAddExists(h)
  BY <1>9, AnswersStay DEF LdapAddExists
<1>10. CASE LdapUnbind(h)
  BY <1>10, AnswersStay DEF LdapUnbind
<1>11. CASE CreateAccount(h)
  BY <1>11, AnswersStay DEF CreateAccount
<1>12. CASE CreateAccountDuplicateKey(h)
  BY <1>12, AnswersStay DEF CreateAccountDuplicateKey
<1>13. CASE PublishCredentials(h)
  BY <1>13, AnswersStay DEF PublishCredentials
<1>14. CASE PublishSuccess(h)
  BY <1>14, AnswersStay, PublishAnswers DEF PublishSuccess, PublishStatus
<1>15. CASE AuditSuccess(h)
  BY <1>15, AnswersStay DEF AuditSuccess, Audit
<1>16. CASE AuditFailed(h)
  BY <1>16, AnswersStay DEF AuditFailed, Audit
<1>17. CASE PublishFailed(h)
  BY <1>17, AnswersStay, PublishAnswers DEF PublishFailed, PublishStatus
<1>18. CASE CallFails(h)
  <2>1. handlers[h].pc \in Calls \cap Fallible
    BY <1>18 DEF CallFails
  <2>2. OnError(handlers[h].pc) # "auditSuccess"
    BY <2>1, OnErrorSettles
  <2>3. CASE handlers[h].pc \in AnswerCalls
    BY <2>1, <2>3
  <2>4. CASE handlers[h].pc = "auditSuccess"
    BY <1>18, <2>2, <2>4, AnswersStay DEF CallFails
  <2>5. CASE handlers[h].pc \notin AnswerCalls \cup {"auditSuccess"}
    <3>1. OnError(handlers[h].pc) # "settle"
      BY <2>1, <2>5, OnErrorSettles
    <3> QED
      BY <1>18, <2>2, <3>1, AnswersStay DEF CallFails
  <2> QED
    BY <2>3, <2>4, <2>5
<1>19. CASE Settle(h)
  BY <1>19, AnswersStay DEF Settle, IdleHandler
<1>20. CASE LdapAddUnanswered(h)
  BY <1>20, AnswersStay DEF LdapAddUnanswered, OnError, TryCalls
<1>21. CASE CreateAccountUnanswered(h)
  BY <1>21, AnswersStay DEF CreateAccountUnanswered, OnError, TryCalls
<1> QED
  BY <1>1, <1>2, <1>3, <1>4, <1>5, <1>6, <1>7, <1>8, <1>9, <1>10,
     <1>11, <1>12, <1>13, <1>14, <1>15, <1>16, <1>17, <1>18, <1>19, <1>20, <1>21 DEF Run

LEMMA SettleStep == TypeInv /\ SettleInv /\ [Next]_vars => SettleInv'
<1> SUFFICES ASSUME TypeInv, SettleInv, [Next]_vars PROVE SettleInv'
  OBVIOUS
<1> USE DEF TypeInv, TypeOK, BusyOK, HandlerState, SettleInv, AnswerCalls, At, store, faults
<1>1. ASSUME NEW u \in User, Request(u) PROVE SettleInv'
  BY <1>1, AnswersStay DEF Request
<1>2. ASSUME NEW h \in Handler, NEW u \in User, Deliver(h, u) PROVE SettleInv'
  BY <1>2, AnswersStay DEF Deliver, Ready
<1>3. CASE Crash
  BY <1>3, AnswersStay DEF Crash, IdleHandler
<1>4. CASE ConnectionLost
  BY <1>4, AnswersStay DEF ConnectionLost
<1>5. CASE UNCHANGED vars
  BY <1>5, AnswersStay DEF vars
<1> QED
  BY <1>1, <1>2, <1>3, <1>4, <1>5, SettleRun DEF Next, Service

\* A command the broker dropped was answered, unless a call of AnswerCalls
\* may fail.
THEOREM SettledSafe == Spec => []SettledIsAnswered
<1>1. Init => SettleInv
  BY DEF Init, SettleInv, IdleHandler
<1>2. Spec => []SettleInv
  BY <1>1, TypeInvariant, SettleStep, PTL DEF Spec
<1>3. SettleInv => SettledIsAnswered
  BY DEF SettleInv, SettledIsAnswered, AnswerCalls
<1> QED
  BY <1>2, <1>3, PTL

-------------------------------------------------------------------------------
(* While the channel stays up.                                             *)

\* No command is in two hands, and none is handled after it was settled.
OwnInv ==
  connectionLosses = 0 =>
    \A h \in Handler : handlers[h].pc # "idle" =>
      /\ handlers[h].owns
      /\ handlers[h].user \notin settled
      /\ \A g \in Handler :
           handlers[g].pc # "idle" /\ handlers[g].user = handlers[h].user => g = h

LEMMA OwnRun ==
  ASSUME TypeInv, OwnInv, NEW h \in Handler, Run(h)
  PROVE  OwnInv'
<1> USE DEF TypeInv, TypeOK, BusyOK, HandlerState, OwnInv, At, Goto, store, faults
<1>1. CASE AuditRejected(h)
  BY <1>1 DEF AuditRejected, Audit
<1>2. CASE PublishRejected(h)
  BY <1>2 DEF PublishRejected, PublishStatus
<1>3. CASE FindDuplicate(h)
  BY <1>3 DEF FindDuplicate
<1>4. CASE AuditDuplicate(h)
  BY <1>4 DEF AuditDuplicate, Audit
<1>5. CASE PublishDuplicate(h)
  BY <1>5 DEF PublishDuplicate, PublishStatus
<1>6. CASE FindNone(h)
  BY <1>6 DEF FindNone
<1>7. CASE LdapSearch(h)
  BY <1>7 DEF LdapSearch
<1>8. CASE LdapAdd(h)
  BY <1>8 DEF LdapAdd
<1>9. CASE LdapAddExists(h)
  BY <1>9 DEF LdapAddExists
<1>10. CASE LdapUnbind(h)
  BY <1>10 DEF LdapUnbind
<1>11. CASE CreateAccount(h)
  BY <1>11 DEF CreateAccount
<1>12. CASE CreateAccountDuplicateKey(h)
  BY <1>12 DEF CreateAccountDuplicateKey
<1>13. CASE PublishCredentials(h)
  BY <1>13 DEF PublishCredentials
<1>14. CASE PublishSuccess(h)
  BY <1>14 DEF PublishSuccess, PublishStatus
<1>15. CASE AuditSuccess(h)
  BY <1>15 DEF AuditSuccess, Audit
<1>16. CASE AuditFailed(h)
  BY <1>16 DEF AuditFailed, Audit
<1>17. CASE PublishFailed(h)
  BY <1>17 DEF PublishFailed, PublishStatus
<1>18. CASE CallFails(h)
  <2>1. handlers[h].pc \in Calls /\ OnError(handlers[h].pc) # "idle"
    BY <1>18, OnErrorSettles DEF CallFails, Calls
  <2> QED
    BY <1>18, <2>1 DEF CallFails, Calls
<1>19. CASE Settle(h)
  BY <1>19 DEF Settle, IdleHandler
<1>20. CASE LdapAddUnanswered(h)
  BY <1>20 DEF LdapAddUnanswered, OnError, TryCalls
<1>21. CASE CreateAccountUnanswered(h)
  BY <1>21 DEF CreateAccountUnanswered, OnError, TryCalls
<1> QED
  BY <1>1, <1>2, <1>3, <1>4, <1>5, <1>6, <1>7, <1>8, <1>9, <1>10,
     <1>11, <1>12, <1>13, <1>14, <1>15, <1>16, <1>17, <1>18, <1>19, <1>20, <1>21 DEF Run

LEMMA OwnStep == TypeInv /\ OwnInv /\ [Next]_vars => OwnInv'
<1> SUFFICES ASSUME TypeInv, OwnInv, [Next]_vars PROVE OwnInv'
  OBVIOUS
<1> USE DEF TypeInv, TypeOK, BusyOK, HandlerState, OwnInv, At, store, faults
<1>1. ASSUME NEW u \in User, Request(u) PROVE OwnInv'
  BY <1>1 DEF Request
<1>2. ASSUME NEW h \in Handler, NEW u \in User, Deliver(h, u) PROVE OwnInv'
  BY <1>2 DEF Deliver, Ready
<1>3. CASE Crash
  BY <1>3 DEF Crash, IdleHandler
<1>4. CASE ConnectionLost
  BY <1>4 DEF ConnectionLost
<1>5. CASE UNCHANGED vars
  BY <1>5 DEF vars
<1> QED
  BY <1>1, <1>2, <1>3, <1>4, <1>5, OwnRun DEF Next, Service

LEMMA OwnInvariant == Spec => []OwnInv
<1>1. Init => OwnInv
  BY DEF Init, OwnInv, IdleHandler
<1> QED
  BY <1>1, TypeInvariant, OwnStep, PTL DEF Spec

\* With no interruption at all, a command has one delivery, and the entry
\* that it added holds the password that it publishes.
PasswordInv ==
  crashes + connectionLosses = 0 =>
    /\ \A u \in User : ldap[u] # 0 /\ u \notin settled =>
         \E h \in Handler : handlers[h].pc # "idle" /\ handlers[h].user = u
    /\ \A h \in Handler : handlers[h].pc # "idle" =>
         ldap[handlers[h].user] \in {0, handlers[h].delivery}
    /\ \A c \in credentials : ldap[c.user] = c.password

LEMMA PasswordRun ==
  ASSUME TypeInv, AccountInv, OwnInv, PasswordInv, NEW h \in Handler, Run(h)
  PROVE  PasswordInv'
<1> USE DEF TypeInv, TypeOK, BusyOK, HandlerState, AccountInv, StoresOrdered, CredentialsHaveAccount, OwnInv, PasswordInv, At, Goto, store, faults
<1>1. CASE AuditRejected(h)
  BY <1>1 DEF AuditRejected, Audit
<1>2. CASE PublishRejected(h)
  BY <1>2 DEF PublishRejected, PublishStatus
<1>3. CASE FindDuplicate(h)
  BY <1>3 DEF FindDuplicate
<1>4. CASE AuditDuplicate(h)
  BY <1>4 DEF AuditDuplicate, Audit
<1>5. CASE PublishDuplicate(h)
  BY <1>5 DEF PublishDuplicate, PublishStatus
<1>6. CASE FindNone(h)
  BY <1>6 DEF FindNone
<1>7. CASE LdapSearch(h)
  BY <1>7 DEF LdapSearch
<1>8. CASE LdapAdd(h)
  BY <1>8 DEF LdapAdd
<1>9. CASE LdapAddExists(h)
  BY <1>9 DEF LdapAddExists
<1>10. CASE LdapUnbind(h)
  BY <1>10 DEF LdapUnbind
<1>11. CASE CreateAccount(h)
  BY <1>11 DEF CreateAccount
<1>12. CASE CreateAccountDuplicateKey(h)
  BY <1>12 DEF CreateAccountDuplicateKey
<1>13. CASE PublishCredentials(h)
  BY <1>13 DEF PublishCredentials
<1>14. CASE PublishSuccess(h)
  BY <1>14 DEF PublishSuccess, PublishStatus
<1>15. CASE AuditSuccess(h)
  BY <1>15 DEF AuditSuccess, Audit
<1>16. CASE AuditFailed(h)
  BY <1>16 DEF AuditFailed, Audit
<1>17. CASE PublishFailed(h)
  BY <1>17 DEF PublishFailed, PublishStatus
<1>18. CASE CallFails(h)
  <2>1. handlers[h].pc \in Calls /\ OnError(handlers[h].pc) # "idle"
    BY <1>18, OnErrorSettles DEF CallFails, Calls
  <2> QED
    BY <1>18, <2>1 DEF CallFails, Calls
<1>19. CASE Settle(h)
  BY <1>19 DEF Settle, IdleHandler
<1>20. CASE LdapAddUnanswered(h)
  BY <1>20 DEF LdapAddUnanswered, OnError, TryCalls
<1>21. CASE CreateAccountUnanswered(h)
  BY <1>21 DEF CreateAccountUnanswered, OnError, TryCalls
<1> QED
  BY <1>1, <1>2, <1>3, <1>4, <1>5, <1>6, <1>7, <1>8, <1>9, <1>10,
     <1>11, <1>12, <1>13, <1>14, <1>15, <1>16, <1>17, <1>18, <1>19, <1>20, <1>21 DEF Run

LEMMA PasswordStep == TypeInv /\ AccountInv /\ OwnInv /\ PasswordInv /\ [Next]_vars => PasswordInv'
<1> SUFFICES ASSUME TypeInv, AccountInv, OwnInv, PasswordInv, [Next]_vars PROVE PasswordInv'
  OBVIOUS
<1> USE DEF TypeInv, TypeOK, BusyOK, HandlerState, AccountInv, StoresOrdered, CredentialsHaveAccount, OwnInv, PasswordInv, At, store, faults
<1>1. ASSUME NEW u \in User, Request(u) PROVE PasswordInv'
  BY <1>1 DEF Request
<1>2. ASSUME NEW h \in Handler, NEW u \in User, Deliver(h, u) PROVE PasswordInv'
  BY <1>2 DEF Deliver, Ready
<1>3. CASE Crash
  BY <1>3 DEF Crash, IdleHandler
<1>4. CASE ConnectionLost
  BY <1>4 DEF ConnectionLost
<1>5. CASE UNCHANGED vars
  BY <1>5 DEF vars
<1> QED
  BY <1>1, <1>2, <1>3, <1>4, <1>5, PasswordRun DEF Next, Service

\* A password that does not open the entry takes an interrupted delivery.
THEOREM PasswordSafe == Spec => []WrongPasswordNeedsRedelivery
<1>1. Init => PasswordInv
  BY DEF Init, PasswordInv, IdleHandler
<1>2. Spec => []PasswordInv
  BY <1>1, TypeInvariant, AccountInvariant, OwnInvariant, PasswordStep, PTL DEF Spec
<1>3. TypeInv /\ PasswordInv => WrongPasswordNeedsRedelivery
  BY DEF TypeInv, TypeOK, PasswordInv, WrongPasswordNeedsRedelivery
<1> QED
  BY <1>2, <1>3, TypeInvariant, PTL

LEMMA CauseStays ==
  ASSUME accounts \subseteq accounts'
  PROVE  \A u : Caused(u) => Caused(u)'
  BY DEF Caused

LEMMA NoNewAnswer ==
  ASSUME UNCHANGED results
  PROVE  \A u, status : Answered(u, status)' => Answered(u, status)
  BY DEF Answered

LEMMA OneNewAnswer ==
  ASSUME NEW h \in Handler, NEW at, NEW status, NEW next,
         PublishStatus(h, at, status, next)
  PROVE  \A u, t : Answered(u, t)' =>
           Answered(u, t) \/ (u = handlers[h].user /\ t = status)
  BY DEF PublishStatus, Answered

\* A handler is at a failing step only with a cause, and alone with its user
\* it finds the entry and the account as it left them.
CauseInv ==
  Fallible \cap TryCalls = {} /\ connectionLosses = 0 =>
    /\ \A h \in Handler :
         handlers[h].pc \in {"auditRejected", "publishRejected", "auditFailed", "publishFailed"}
           => Caused(handlers[h].user)
    /\ \A h \in Handler : handlers[h].pc = "ldapAdd" => ldap[handlers[h].user] = 0
    /\ \A h \in Handler :
         handlers[h].pc \in {"ldapSearch", "ldapAdd", "ldapUnbind", "createAccount"}
           => handlers[h].user \notin accounts
    /\ \A u \in User : Answered(u, "FAILED") => Caused(u)

LEMMA CauseRun ==
  ASSUME TypeInv, OwnInv, CauseInv, NEW h \in Handler, Run(h)
  PROVE  CauseInv'
<1> USE DEF TypeInv, TypeOK, BusyOK, HandlerState, OwnInv, CauseInv, At, Goto, store, faults
<1>1. CASE AuditRejected(h)
  BY <1>1, CauseStays, NoNewAnswer DEF AuditRejected, Audit
<1>2. CASE PublishRejected(h)
  <2>1. \A u, t : Answered(u, t)' =>
              Answered(u, t) \/ (u = handlers[h].user /\ t = "FAILED")
    BY <1>2, OneNewAnswer DEF PublishRejected
  <2> QED
    BY <1>2, <2>1, CauseStays DEF PublishRejected, PublishStatus
<1>3. CASE FindDuplicate(h)
  BY <1>3, CauseStays, NoNewAnswer DEF FindDuplicate
<1>4. CASE AuditDuplicate(h)
  BY <1>4, CauseStays, NoNewAnswer DEF AuditDuplicate, Audit
<1>5. CASE PublishDuplicate(h)
  <2>1. \A u, t : Answered(u, t)' =>
              Answered(u, t) \/ (u = handlers[h].user /\ t = "SUCCESS")
    BY <1>5, OneNewAnswer DEF PublishDuplicate
  <2> QED
    BY <1>5, <2>1, CauseStays DEF PublishDuplicate, PublishStatus
<1>6. CASE FindNone(h)
  BY <1>6, CauseStays, NoNewAnswer DEF FindNone, Caused
<1>7. CASE LdapSearch(h)
  BY <1>7, CauseStays, NoNewAnswer DEF LdapSearch
<1>8. CASE LdapAdd(h)
  BY <1>8, CauseStays, NoNewAnswer DEF LdapAdd
<1>9. CASE LdapAddExists(h)
  BY <1>9, CauseStays, NoNewAnswer DEF LdapAddExists
<1>10. CASE LdapUnbind(h)
  BY <1>10, CauseStays, NoNewAnswer DEF LdapUnbind
<1>11. CASE CreateAccount(h)
  BY <1>11, CauseStays, NoNewAnswer DEF CreateAccount
<1>12. CASE CreateAccountDuplicateKey(h)
  BY <1>12, CauseStays, NoNewAnswer DEF CreateAccountDuplicateKey, Caused, Taken
<1>13. CASE PublishCredentials(h)
  BY <1>13, CauseStays, NoNewAnswer DEF PublishCredentials
<1>14. CASE PublishSuccess(h)
  <2>1. \A u, t : Answered(u, t)' =>
              Answered(u, t) \/ (u = handlers[h].user /\ t = "SUCCESS")
    BY <1>14, OneNewAnswer DEF PublishSuccess
  <2> QED
    BY <1>14, <2>1, CauseStays DEF PublishSuccess, PublishStatus
<1>15. CASE AuditSuccess(h)
  BY <1>15, CauseStays, NoNewAnswer DEF AuditSuccess, Audit
<1>16. CASE AuditFailed(h)
  BY <1>16, CauseStays, NoNewAnswer DEF AuditFailed, Audit
<1>17. CASE PublishFailed(h)
  <2>1. \A u, t : Answered(u, t)' =>
              Answered(u, t) \/ (u = handlers[h].user /\ t = "FAILED")
    BY <1>17, OneNewAnswer DEF PublishFailed
  <2> QED
    BY <1>17, <2>1, CauseStays DEF PublishFailed, PublishStatus
<1>18. CASE CallFails(h)
  <2> SUFFICES ASSUME Fallible \cap TryCalls = {}, connectionLosses = 0 PROVE CauseInv'
    BY <1>18 DEF CallFails
  <2>1. handlers[h].pc \in Calls \ TryCalls
    BY <1>18 DEF CallFails
  <2>2. /\ OnError(handlers[h].pc) \in
             {"publishRejected", "publishDuplicate", "publishFailed", "settle"}
        /\ OnError(handlers[h].pc) = "publishRejected" => handlers[h].pc = "auditRejected"
        /\ OnError(handlers[h].pc) = "publishFailed" => handlers[h].pc = "auditFailed"
    BY <2>1 DEF OnError
  <2> QED
    BY <1>18, <2>2, CauseStays, NoNewAnswer DEF CallFails
<1>19. CASE Settle(h)
  BY <1>19, CauseStays, NoNewAnswer DEF Settle, IdleHandler
<1>20. CASE LdapAddUnanswered(h)
  BY <1>20, CauseStays, NoNewAnswer DEF LdapAddUnanswered, OnError, TryCalls
<1>21. CASE CreateAccountUnanswered(h)
  BY <1>21, CauseStays, NoNewAnswer DEF CreateAccountUnanswered, OnError, TryCalls
<1> QED
  BY <1>1, <1>2, <1>3, <1>4, <1>5, <1>6, <1>7, <1>8, <1>9, <1>10,
     <1>11, <1>12, <1>13, <1>14, <1>15, <1>16, <1>17, <1>18, <1>19, <1>20, <1>21 DEF Run

LEMMA CauseStep == TypeInv /\ OwnInv /\ CauseInv /\ [Next]_vars => CauseInv'
<1> SUFFICES ASSUME TypeInv, OwnInv, CauseInv, [Next]_vars PROVE CauseInv'
  OBVIOUS
<1> USE DEF TypeInv, TypeOK, BusyOK, HandlerState, OwnInv, CauseInv, At, store, faults
<1>1. ASSUME NEW u \in User, Request(u) PROVE CauseInv'
  BY <1>1, CauseStays, NoNewAnswer DEF Request
<1>2. ASSUME NEW h \in Handler, NEW u \in User, Deliver(h, u) PROVE CauseInv'
  BY <1>2, CauseStays, NoNewAnswer DEF Deliver, Ready, Caused
<1>3. CASE Crash
  BY <1>3, CauseStays, NoNewAnswer DEF Crash, IdleHandler
<1>4. CASE ConnectionLost
  BY <1>4, CauseStays, NoNewAnswer DEF ConnectionLost
<1>5. CASE UNCHANGED vars
  BY <1>5, CauseStays, NoNewAnswer DEF vars
<1> QED
  BY <1>1, <1>2, <1>3, <1>4, <1>5, CauseRun DEF Next, Service

LEMMA CauseInvariant == Spec => []CauseInv
<1>1. Init => CauseInv
  BY DEF Init, CauseInv, IdleHandler, Answered
<1> QED
  BY <1>1, TypeInvariant, OwnInvariant, CauseStep, PTL DEF Spec

\* A crash alone never makes a registration fail.
THEOREM FailureSafe == Spec => []FailureHasCause
<1>1. CauseInv => FailureHasCause
  BY DEF CauseInv, FailureHasCause, Caused
<1> QED
  BY <1>1, CauseInvariant, PTL

-------------------------------------------------------------------------------
(* Handlers that race.                                                     *)

CreateCalls == {"ldapSearch", "ldapAdd", "ldapUnbind", "createAccount"}

\* A handler is past the directory and has not tried the account yet.
OnTheWay(u) ==
  \E h \in Handler :
    handlers[h].user = u /\ handlers[h].pc \in {"ldapUnbind", "createAccount"}

\* The handler that adds an entry, or finds one, goes on to the account unless
\* a crash or a failing call stops it; and a handler that fails without a cause
\* lost to another, so that there is an entry.
RaceInv ==
  Fallible \cap CreateCalls = {} /\ crashes = 0 =>
    /\ \A u \in User : ldap[u] # 0 /\ ~Caused(u) => u \in accounts \/ OnTheWay(u)
    /\ \A h \in Handler : handlers[h].pc \in {"auditRejected", "publishRejected"} =>
         Caused(handlers[h].user)
    /\ \A h \in Handler : handlers[h].pc \in {"auditFailed", "publishFailed"} =>
         Caused(handlers[h].user) \/ ldap[handlers[h].user] # 0
    /\ \A u \in User : Answered(u, "FAILED") => Caused(u) \/ ldap[u] # 0

LEMMA RaceRun ==
  ASSUME TypeInv, AccountInv, RaceInv, NEW h \in Handler, Run(h)
  PROVE  RaceInv'
<1> USE DEF TypeInv, TypeOK, BusyOK, HandlerState, AccountInv, StoresOrdered, RaceInv, OnTheWay, At, Goto, store, faults
<1>1. CASE AuditRejected(h)
  BY <1>1, CauseStays, NoNewAnswer DEF AuditRejected, Audit
<1>2. CASE PublishRejected(h)
  <2>1. \A u, t : Answered(u, t)' =>
              Answered(u, t) \/ (u = handlers[h].user /\ t = "FAILED")
    BY <1>2, OneNewAnswer DEF PublishRejected
  <2> QED
    BY <1>2, <2>1, CauseStays DEF PublishRejected, PublishStatus
<1>3. CASE FindDuplicate(h)
  BY <1>3, CauseStays, NoNewAnswer DEF FindDuplicate
<1>4. CASE AuditDuplicate(h)
  BY <1>4, CauseStays, NoNewAnswer DEF AuditDuplicate, Audit
<1>5. CASE PublishDuplicate(h)
  <2>1. \A u, t : Answered(u, t)' =>
              Answered(u, t) \/ (u = handlers[h].user /\ t = "SUCCESS")
    BY <1>5, OneNewAnswer DEF PublishDuplicate
  <2> QED
    BY <1>5, <2>1, CauseStays DEF PublishDuplicate, PublishStatus
<1>6. CASE FindNone(h)
  BY <1>6, CauseStays, NoNewAnswer DEF FindNone, Caused
<1>7. CASE LdapSearch(h)
  BY <1>7, CauseStays, NoNewAnswer DEF LdapSearch
<1>8. CASE LdapAdd(h)
  BY <1>8, CauseStays, NoNewAnswer DEF LdapAdd
<1>9. CASE LdapAddExists(h)
  BY <1>9, CauseStays, NoNewAnswer DEF LdapAddExists
<1>10. CASE LdapUnbind(h)
  BY <1>10, CauseStays, NoNewAnswer DEF LdapUnbind
<1>11. CASE CreateAccount(h)
  BY <1>11, CauseStays, NoNewAnswer DEF CreateAccount
<1>12. CASE CreateAccountDuplicateKey(h)
  BY <1>12, CauseStays, NoNewAnswer DEF CreateAccountDuplicateKey, Caused, Taken
<1>13. CASE PublishCredentials(h)
  BY <1>13, CauseStays, NoNewAnswer DEF PublishCredentials
<1>14. CASE PublishSuccess(h)
  <2>1. \A u, t : Answered(u, t)' =>
              Answered(u, t) \/ (u = handlers[h].user /\ t = "SUCCESS")
    BY <1>14, OneNewAnswer DEF PublishSuccess
  <2> QED
    BY <1>14, <2>1, CauseStays DEF PublishSuccess, PublishStatus
<1>15. CASE AuditSuccess(h)
  BY <1>15, CauseStays, NoNewAnswer DEF AuditSuccess, Audit
<1>16. CASE AuditFailed(h)
  BY <1>16, CauseStays, NoNewAnswer DEF AuditFailed, Audit
<1>17. CASE PublishFailed(h)
  <2>1. \A u, t : Answered(u, t)' =>
              Answered(u, t) \/ (u = handlers[h].user /\ t = "FAILED")
    BY <1>17, OneNewAnswer DEF PublishFailed
  <2> QED
    BY <1>17, <2>1, CauseStays DEF PublishFailed, PublishStatus
<1>18. CASE CallFails(h)
  BY <1>18, CauseStays, NoNewAnswer DEF CallFails, OnError, TryCalls, CreateCalls
<1>19. CASE Settle(h)
  BY <1>19, CauseStays, NoNewAnswer DEF Settle, IdleHandler
<1>20. CASE LdapAddUnanswered(h)
  BY <1>20, CauseStays, NoNewAnswer DEF LdapAddUnanswered, CreateCalls
<1>21. CASE CreateAccountUnanswered(h)
  BY <1>21, CauseStays, NoNewAnswer DEF CreateAccountUnanswered, CreateCalls
<1> QED
  BY <1>1, <1>2, <1>3, <1>4, <1>5, <1>6, <1>7, <1>8, <1>9, <1>10,
     <1>11, <1>12, <1>13, <1>14, <1>15, <1>16, <1>17, <1>18, <1>19, <1>20, <1>21 DEF Run

LEMMA RaceStep == TypeInv /\ AccountInv /\ RaceInv /\ [Next]_vars => RaceInv'
<1> SUFFICES ASSUME TypeInv, AccountInv, RaceInv, [Next]_vars PROVE RaceInv'
  OBVIOUS
<1> USE DEF TypeInv, TypeOK, BusyOK, HandlerState, RaceInv, OnTheWay, At, store, faults
<1>1. ASSUME NEW u \in User, Request(u) PROVE RaceInv'
  BY <1>1, CauseStays, NoNewAnswer DEF Request
<1>2. ASSUME NEW h \in Handler, NEW u \in User, Deliver(h, u) PROVE RaceInv'
  BY <1>2, CauseStays, NoNewAnswer DEF Deliver, Caused
<1>3. CASE Crash
  BY <1>3 DEF Crash
<1>4. CASE ConnectionLost
  <2>1. \A h \in Handler :
           handlers'[h].pc = handlers[h].pc /\ handlers'[h].user = handlers[h].user
    BY <1>4 DEF ConnectionLost
  <2>2. \A u : OnTheWay(u) => OnTheWay(u)'
    BY <2>1
  <2>3. UNCHANGED <<ldap, accounts, results, crashes>>
    BY <1>4 DEF ConnectionLost
  <2> QED
    BY <2>1, <2>2, <2>3, CauseStays, NoNewAnswer
<1>5. CASE UNCHANGED vars
  BY <1>5, CauseStays, NoNewAnswer DEF vars
<1> QED
  BY <1>1, <1>2, <1>3, <1>4, <1>5, RaceRun DEF Next, Service

\* However many handlers race for a command, and wherever one of them is
\* overtaken, a user whom the data do not rule out gets the account.
THEOREM RaceSafe == Spec => []RaceHasWinner
<1>1. Init => RaceInv
  BY DEF Init, RaceInv, OnTheWay, IdleHandler, Answered
<1>2. Spec => []RaceInv
  BY <1>1, TypeInvariant, AccountInvariant, RaceStep, PTL DEF Spec
<1>3. RaceInv => RaceHasWinner
  BY DEF RaceInv, RaceHasWinner, OnTheWay, CreateCalls
<1> QED
  BY <1>2, <1>3, PTL

-------------------------------------------------------------------------------
(* Whom the auth service registers, and of whom it speaks.                 *)

\* The data does not rule out a registration by itself.
Eligible(u) == ~Invalid(CommandOf[u]) /\ CommandOf[u].fullName # "blank"

\* Everything that the auth service does is about commands that it was sent,
\* and accounts are those of eligible users with different addresses.
RequestedInv ==
  /\ \A h \in Handler : handlers[h].pc # "idle" => handlers[h].user \in commands
  /\ accounts \subseteq commands
  /\ \A r \in results : r.user \in commands
  /\ \A h \in Handler : handlers[h].pc = "findAccount" => ~Invalid(CommandOf[handlers[h].user])
  /\ \A h \in Handler :
       handlers[h].pc \in {"ldapSearch", "ldapAdd", "ldapUnbind", "createAccount"}
         => Eligible(handlers[h].user)
  /\ \A u \in accounts : Eligible(u)
  /\ \A u, v \in accounts : EmailOf(u) = EmailOf(v) => u = v

\* A failing call registers nobody.
LEMMA RequestedFails ==
  ASSUME TypeInv, RequestedInv, NEW h \in Handler, CallFails(h)
  PROVE  RequestedInv'
<1> DEFINE step == OnError(handlers[h].pc)
<1>1. step \in {"auditFailed", "publishRejected", "publishDuplicate", "publishFailed", "settle"}
  BY DEF OnError
<1>2. /\ handlers' = [handlers EXCEPT ![h].pc = step]
      /\ UNCHANGED <<commands, accounts, results>>
  BY DEF CallFails, Goto, store, faults, TypeInv, TypeOK, HandlerState
<1>3. handlers[h].pc # "idle"
  BY FallibleAssumption DEF CallFails, Calls
<1> HIDE DEF step
<1>4. \A g \in Handler :
        /\ handlers'[g].user = handlers[g].user
        /\ handlers'[g].pc = IF g = h THEN step ELSE handlers[g].pc
  BY <1>2 DEF TypeInv, TypeOK, HandlerState
<1>5. \A g \in Handler : handlers'[g].pc # "idle" => handlers'[g].user \in commands
  BY <1>3, <1>4 DEF RequestedInv
<1>6. /\ \A g \in Handler : handlers'[g].pc = "findAccount" => ~Invalid(CommandOf[handlers'[g].user])
      /\ \A g \in Handler :
           handlers'[g].pc \in {"ldapSearch", "ldapAdd", "ldapUnbind", "createAccount"}
             => Eligible(handlers'[g].user)
  BY <1>1, <1>4 DEF RequestedInv
<1> QED
  BY <1>2, <1>5, <1>6 DEF RequestedInv, Eligible

LEMMA RequestedRun ==
  ASSUME TypeInv, RequestedInv, NEW h \in Handler, Run(h)
  PROVE  RequestedInv'
<1> USE DEF TypeInv, TypeOK, BusyOK, HandlerState, RequestedInv, At, Goto, store, faults
<1>1. CASE AuditRejected(h)
  BY <1>1 DEF AuditRejected, Audit
<1>2. CASE PublishRejected(h)
  BY <1>2 DEF PublishRejected, PublishStatus
<1>3. CASE FindDuplicate(h)
  BY <1>3 DEF FindDuplicate
<1>4. CASE AuditDuplicate(h)
  BY <1>4 DEF AuditDuplicate, Audit
<1>5. CASE PublishDuplicate(h)
  BY <1>5 DEF PublishDuplicate, PublishStatus
<1>6. CASE FindNone(h)
  BY <1>6 DEF FindNone, Eligible
<1>7. CASE LdapSearch(h)
  BY <1>7 DEF LdapSearch
<1>8. CASE LdapAdd(h)
  BY <1>8 DEF LdapAdd
<1>9. CASE LdapAddExists(h)
  BY <1>9 DEF LdapAddExists
<1>10. CASE LdapUnbind(h)
  BY <1>10 DEF LdapUnbind
<1>11. CASE CreateAccount(h)
  BY <1>11 DEF CreateAccount, Taken
<1>12. CASE CreateAccountDuplicateKey(h)
  BY <1>12 DEF CreateAccountDuplicateKey
<1>13. CASE PublishCredentials(h)
  BY <1>13 DEF PublishCredentials
<1>14. CASE PublishSuccess(h)
  BY <1>14 DEF PublishSuccess, PublishStatus
<1>15. CASE AuditSuccess(h)
  BY <1>15 DEF AuditSuccess, Audit
<1>16. CASE AuditFailed(h)
  BY <1>16 DEF AuditFailed, Audit
<1>17. CASE PublishFailed(h)
  BY <1>17 DEF PublishFailed, PublishStatus
<1>18. CASE CallFails(h)
  BY <1>18, RequestedFails
<1>19. CASE Settle(h)
  BY <1>19 DEF Settle, IdleHandler
<1>20. CASE LdapAddUnanswered(h)
  BY <1>20 DEF LdapAddUnanswered, OnError, TryCalls
<1>21. CASE CreateAccountUnanswered(h)
  BY <1>21 DEF CreateAccountUnanswered, OnError, TryCalls, Taken
<1> QED
  BY <1>1, <1>2, <1>3, <1>4, <1>5, <1>6, <1>7, <1>8, <1>9, <1>10,
     <1>11, <1>12, <1>13, <1>14, <1>15, <1>16, <1>17, <1>18, <1>19, <1>20, <1>21 DEF Run

LEMMA RequestedStep == TypeInv /\ RequestedInv /\ [Next]_vars => RequestedInv'
<1> SUFFICES ASSUME TypeInv, RequestedInv, [Next]_vars PROVE RequestedInv'
  OBVIOUS
<1> USE DEF TypeInv, TypeOK, BusyOK, HandlerState, RequestedInv, At, store, faults
<1>1. ASSUME NEW u \in User, Request(u) PROVE RequestedInv'
  BY <1>1 DEF Request
<1>2. ASSUME NEW h \in Handler, NEW u \in User, Deliver(h, u) PROVE RequestedInv'
  BY <1>2 DEF Deliver, Ready
<1>3. CASE Crash
  BY <1>3 DEF Crash, IdleHandler
<1>4. CASE ConnectionLost
  BY <1>4 DEF ConnectionLost
<1>5. CASE UNCHANGED vars
  BY <1>5 DEF vars
<1> QED
  BY <1>1, <1>2, <1>3, <1>4, <1>5, RequestedRun DEF Next, Service

LEMMA RequestedInvariant == Spec => []RequestedInv
<1>1. Init => RequestedInv
  BY DEF Init, RequestedInv, IdleHandler
<1> QED
  BY <1>1, TypeInvariant, RequestedStep, PTL DEF Spec

-------------------------------------------------------------------------------
(* When what the documents say of an answer is so.                         *)

\* docs/rabbitmq_naming.md:111, "a failed registration never reaches
\* Notification", is so while no call inside the try of registerUser fails and
\* the channel stays up, however often the service crashes: who is reported as
\* FAILED has no account then, and credentials are for users with an account.
THEOREM FailedNeverReaches ==
  Spec => [](Fallible \cap TryCalls = {} /\ connectionLosses = 0
               => FailedNeverReachesNotification)
<1>1. TypeInv /\ AccountInv /\ CauseInv /\ RequestedInv =>
        (Fallible \cap TryCalls = {} /\ connectionLosses = 0 => FailedNeverReachesNotification)
  <2> SUFFICES ASSUME TypeInv, AccountInv, CauseInv, RequestedInv,
                      Fallible \cap TryCalls = {}, connectionLosses = 0,
                      NEW c \in credentials, Answered(c.user, "FAILED")
               PROVE  FALSE
    BY DEF FailedNeverReachesNotification
  <2>1. c.user \in accounts /\ c.user \in User
    BY DEF AccountInv, CredentialsHaveAccount, TypeInv, TypeOK
  <2>2. Eligible(c.user)
    BY <2>1 DEF RequestedInv
  <2>3. Caused(c.user)
    BY <2>1 DEF CauseInv
  <2>4. PICK v \in accounts \ {c.user} : EmailOf(v) = EmailOf(c.user)
    BY <2>2, <2>3 DEF Caused, Eligible
  <2> QED
    BY <2>1, <2>4 DEF RequestedInv
<1> QED
  BY <1>1, TypeInvariant, AccountInvariant, CauseInvariant, RequestedInvariant, PTL

\* With no interruption a command has one delivery: a user with an account was
\* registered by it, so that no handler takes the duplicate path, and SUCCESS
\* is published after the credentials.
IssuedTo(u) == \E c \in credentials : c.user = u

OnceInv ==
  crashes + connectionLosses = 0 =>
    /\ \A u \in accounts : u \in settled \/
         \E h \in Handler :
           /\ handlers[h].user = u
           /\ handlers[h].pc \in {"publishCredentials", "publishSuccess", "auditSuccess",
                                  "auditFailed", "publishFailed", "settle"}
    /\ \A h \in Handler :
         /\ handlers[h].pc \notin {"auditDuplicate", "publishDuplicate"}
         /\ handlers[h].pc = "publishSuccess" => IssuedTo(handlers[h].user)
    /\ SuccessBringsCredentials

LEMMA OnceRun ==
  ASSUME TypeInv, OwnInv, OnceInv, NEW h \in Handler, Run(h)
  PROVE  OnceInv'
<1> USE DEF TypeInv, TypeOK, BusyOK, HandlerState, OwnInv, OnceInv, At, Goto, store, faults,
            IssuedTo, SuccessBringsCredentials, Answered
<1>1. CASE AuditRejected(h)
  BY <1>1 DEF AuditRejected, Audit
<1>2. CASE PublishRejected(h)
  BY <1>2 DEF PublishRejected, PublishStatus
<1>3. CASE FindDuplicate(h)
  BY <1>3 DEF FindDuplicate
<1>4. CASE AuditDuplicate(h)
  BY <1>4 DEF AuditDuplicate, Audit
<1>5. CASE PublishDuplicate(h)
  BY <1>5 DEF PublishDuplicate, PublishStatus
<1>6. CASE FindNone(h)
  BY <1>6 DEF FindNone
<1>7. CASE LdapSearch(h)
  BY <1>7 DEF LdapSearch
<1>8. CASE LdapAdd(h)
  BY <1>8 DEF LdapAdd
<1>9. CASE LdapAddExists(h)
  BY <1>9 DEF LdapAddExists
<1>10. CASE LdapUnbind(h)
  BY <1>10 DEF LdapUnbind
<1>11. CASE CreateAccount(h)
  BY <1>11 DEF CreateAccount
<1>12. CASE CreateAccountDuplicateKey(h)
  BY <1>12 DEF CreateAccountDuplicateKey
<1>13. CASE PublishCredentials(h)
  <2>1. credentials \subseteq credentials' /\ UNCHANGED <<accounts, settled, results, faults>>
    BY <1>13 DEF PublishCredentials
  <2>2. \E c \in credentials' : c.user = handlers[h].user
    <3>1. [user |-> handlers[h].user, password |-> handlers[h].delivery] \in credentials'
      BY <1>13 DEF PublishCredentials
    <3> QED
      BY <3>1
  <2>3. /\ At(h, "publishCredentials")
        /\ \A g \in Handler :
             /\ handlers'[g].user = handlers[g].user
             /\ handlers'[g].pc = IF g = h THEN "publishSuccess" ELSE handlers[g].pc
    BY <1>13 DEF PublishCredentials
  <2> QED
    BY <2>1, <2>2, <2>3
<1>14. CASE PublishSuccess(h)
  BY <1>14 DEF PublishSuccess, PublishStatus
<1>15. CASE AuditSuccess(h)
  BY <1>15 DEF AuditSuccess, Audit
<1>16. CASE AuditFailed(h)
  BY <1>16 DEF AuditFailed, Audit
<1>17. CASE PublishFailed(h)
  BY <1>17 DEF PublishFailed, PublishStatus
<1>18. CASE CallFails(h)
  BY <1>18 DEF CallFails, OnError, TryCalls, Calls
<1>19. CASE Settle(h)
  <2>1. /\ settled \subseteq settled' /\ UNCHANGED <<accounts, results, credentials, faults>>
        /\ \A g \in Handler : g # h => handlers'[g] = handlers[g]
        /\ handlers'[h].pc = "idle"
    BY <1>19 DEF Settle, IdleHandler
  <2>2. crashes + connectionLosses = 0 => handlers[h].user \in settled'
    <3>1. crashes + connectionLosses = 0 => handlers[h].owns
      BY <1>19 DEF Settle
    <3> QED
      BY <1>19, <3>1 DEF Settle
  <2>3. crashes + connectionLosses = crashes' + connectionLosses'
    BY <2>1
  <2>4. ASSUME crashes + connectionLosses = 0, NEW u \in accounts, u \notin settled'
        PROVE  \E g \in Handler :
                 /\ handlers'[g].user = u
                 /\ handlers'[g].pc \in {"publishCredentials", "publishSuccess", "auditSuccess",
                                          "auditFailed", "publishFailed", "settle"}
    BY <2>1, <2>2, <2>4
  <2> QED
    BY <2>1, <2>3, <2>4
<1>20. CASE LdapAddUnanswered(h)
  BY <1>20 DEF LdapAddUnanswered, OnError, TryCalls
<1>21. CASE CreateAccountUnanswered(h)
  BY <1>21 DEF CreateAccountUnanswered, OnError, TryCalls
<1> QED
  BY <1>1, <1>2, <1>3, <1>4, <1>5, <1>6, <1>7, <1>8, <1>9, <1>10,
     <1>11, <1>12, <1>13, <1>14, <1>15, <1>16, <1>17, <1>18, <1>19, <1>20, <1>21 DEF Run

LEMMA OnceStep == TypeInv /\ OwnInv /\ OnceInv /\ [Next]_vars => OnceInv'
<1> SUFFICES ASSUME TypeInv, OwnInv, OnceInv, [Next]_vars PROVE OnceInv'
  OBVIOUS
<1> USE DEF TypeInv, TypeOK, OnceInv, At, store, faults, IssuedTo, SuccessBringsCredentials,
            Answered
<1>1. ASSUME NEW u \in User, Request(u) PROVE OnceInv'
  BY <1>1 DEF Request
<1>2. ASSUME NEW h \in Handler, NEW u \in User, Deliver(h, u) PROVE OnceInv'
  BY <1>2 DEF Deliver, Ready
<1>3. CASE Crash \/ ConnectionLost
  BY <1>3 DEF Crash, ConnectionLost
<1>4. CASE UNCHANGED vars
  BY <1>4 DEF vars
<1> QED
  BY <1>1, <1>2, <1>3, <1>4, OnceRun DEF Next, Service

\* DOCUMENTATION.md:261, a success comes with credentials, is so while the
\* service is not interrupted, whichever calls fail.
THEOREM SuccessBringsSafe ==
  Spec => [](crashes + connectionLosses = 0 => SuccessBringsCredentials)
<1>1. Init => OnceInv
  BY DEF Init, OnceInv, IdleHandler, SuccessBringsCredentials, Answered
<1>2. Spec => []OnceInv
  BY <1>1, TypeInvariant, OwnInvariant, OnceStep, PTL DEF Spec
<1>3. OnceInv => (crashes + connectionLosses = 0 => SuccessBringsCredentials)
  BY DEF OnceInv
<1> QED
  BY <1>2, <1>3, PTL

-------------------------------------------------------------------------------
(* What bounds the work on a command.                                      *)

\* How many steps a handler has in front of it at most, its ack included.
StepsLeft(step) ==
  CASE step = "findAccount"        -> 10
    [] step = "ldapSearch"         -> 9
    [] step = "ldapAdd"            -> 8
    [] step = "ldapUnbind"         -> 7
    [] step = "createAccount"      -> 6
    [] step = "publishCredentials" -> 5
    [] step = "publishSuccess"     -> 4
    [] step \in {"auditRejected", "auditDuplicate", "auditFailed"} -> 3
    [] step \in {"publishRejected", "publishDuplicate", "publishFailed", "auditSuccess"} -> 2
    [] step = "settle"             -> 1
    [] OTHER                       -> 0

\* The handler that owns the command of a user, and the steps that are left of
\* the command: those of its owner, or a delivery more than any handling takes.
Owns(h, u) == handlers[h].owns /\ handlers[h].user = u
Left(u) ==
  IF u \in settled THEN 0
  ELSE IF \E h \in Handler : Owns(h, u)
    THEN StepsLeft(handlers[CHOOSE h \in Handler : Owns(h, u)].pc)
    ELSE 11

\* No handling goes round in circles: whatever its calls return, every step of
\* a handler, with or without its channel, leaves it with fewer to go.
HandlingEnds ==
  [][\A h \in Handler :
       handlers'[h].pc # handlers[h].pc =>
         At(h, "idle") \/ StepsLeft(handlers'[h].pc) < StepsLeft(handlers[h].pc)]_vars

\* Between two interruptions a command moves towards its ack only: no step of
\* any handler sets it back, and each delivery of it and each step of the
\* handler that owns it brings it nearer, eleven steps at most.
CommandMovesOn ==
  [][UNCHANGED faults =>
       \A u \in commands :
         /\ Left(u)' <= Left(u)
         /\ (\E h \in Handler : Deliver(h, u) \/ (Run(h) /\ Owns(h, u)))
              => Left(u)' < Left(u)]_vars

LEMMA StepsLeftType == \A step \in Steps : StepsLeft(step) \in 0 .. 10
  BY DEF Steps, Calls, StepsLeft

\* A step of a handler is its ack or one that leaves it with fewer to go.
LEMMA RunMoves ==
  ASSUME TypeInv, NEW h \in Handler, Run(h)
  PROVE  /\ ~At(h, "idle")
         /\ UNCHANGED <<commands, deliveries, faults>>
         /\ Settle(h) \/ \E step \in Steps \ {"idle"} :
                           /\ settled' = settled
                           /\ Goto(h, step)
                           /\ StepsLeft(step) < StepsLeft(handlers[h].pc)
<1> USE DEF At, store, faults, Steps, Calls, StepsLeft
<1>1. CASE AuditRejected(h)
  BY <1>1 DEF AuditRejected, Audit
<1>2. CASE PublishRejected(h)
  BY <1>2 DEF PublishRejected, PublishStatus
<1>3. CASE FindDuplicate(h)
  BY <1>3 DEF FindDuplicate
<1>4. CASE AuditDuplicate(h)
  BY <1>4 DEF AuditDuplicate, Audit
<1>5. CASE PublishDuplicate(h)
  BY <1>5 DEF PublishDuplicate, PublishStatus
<1>6. CASE FindNone(h)
  BY <1>6 DEF FindNone
<1>7. CASE LdapSearch(h)
  BY <1>7 DEF LdapSearch
<1>8. CASE LdapAdd(h)
  BY <1>8 DEF LdapAdd
<1>9. CASE LdapAddExists(h)
  BY <1>9 DEF LdapAddExists
<1>10. CASE LdapUnbind(h)
  BY <1>10 DEF LdapUnbind
<1>11. CASE CreateAccount(h)
  BY <1>11 DEF CreateAccount
<1>12. CASE CreateAccountDuplicateKey(h)
  BY <1>12 DEF CreateAccountDuplicateKey
<1>13. CASE PublishCredentials(h)
  BY <1>13 DEF PublishCredentials
<1>14. CASE PublishSuccess(h)
  BY <1>14 DEF PublishSuccess, PublishStatus
<1>15. CASE AuditSuccess(h)
  BY <1>15 DEF AuditSuccess, Audit
<1>16. CASE AuditFailed(h)
  BY <1>16 DEF AuditFailed, Audit
<1>17. CASE PublishFailed(h)
  BY <1>17 DEF PublishFailed, PublishStatus
<1>18. CASE CallFails(h)
  <2>1. /\ handlers[h].pc \in Calls /\ settled' = settled
        /\ Goto(h, OnError(handlers[h].pc))
        /\ UNCHANGED <<commands, deliveries, faults>>
    BY <1>18 DEF CallFails
  <2>2. /\ OnError(handlers[h].pc) \in Steps \ {"idle"}
        /\ StepsLeft(OnError(handlers[h].pc)) < StepsLeft(handlers[h].pc)
    BY <2>1 DEF OnError, TryCalls
  <2> QED
    BY <2>1, <2>2
<1>19. CASE Settle(h)
  BY <1>19 DEF Settle
<1>20. CASE LdapAddUnanswered(h)
  BY <1>20 DEF LdapAddUnanswered, OnError, TryCalls
<1>21. CASE CreateAccountUnanswered(h)
  BY <1>21 DEF CreateAccountUnanswered, OnError, TryCalls
<1> QED
  BY <1>1, <1>2, <1>3, <1>4, <1>5, <1>6, <1>7, <1>8, <1>9, <1>10,
     <1>11, <1>12, <1>13, <1>14, <1>15, <1>16, <1>17, <1>18, <1>19, <1>20, <1>21 DEF Run

\* The same of the handlers one by one.
LEMMA RunLeaves ==
  ASSUME TypeInv, NEW h \in Handler, Run(h)
  PROVE  /\ UNCHANGED <<commands, faults>>
         /\ \A g \in Handler \ {h} : handlers'[g] = handlers[g]
         /\ \/ /\ At(h, "settle") /\ handlers'[h] = IdleHandler
               /\ settled' = IF handlers[h].owns THEN settled \cup {handlers[h].user} ELSE settled
            \/ /\ settled' = settled
               /\ handlers'[h].owns = handlers[h].owns /\ handlers'[h].user = handlers[h].user
               /\ handlers'[h].pc \in Steps \ {"idle"}
               /\ StepsLeft(handlers'[h].pc) < StepsLeft(handlers[h].pc)
<1>1. CASE Settle(h)
  BY <1>1, RunMoves DEF Settle, TypeInv, TypeOK
<1>2. ASSUME NEW step \in Steps \ {"idle"}, settled' = settled, Goto(h, step),
             StepsLeft(step) < StepsLeft(handlers[h].pc)
      PROVE  /\ \A g \in Handler \ {h} : handlers'[g] = handlers[g]
             /\ settled' = settled
             /\ handlers'[h].owns = handlers[h].owns /\ handlers'[h].user = handlers[h].user
             /\ handlers'[h].pc \in Steps \ {"idle"}
             /\ StepsLeft(handlers'[h].pc) < StepsLeft(handlers[h].pc)
  <2>1. /\ \A g \in Handler \ {h} : handlers'[g] = handlers[g]
        /\ handlers'[h] = [handlers[h] EXCEPT !.pc = step]
        /\ handlers[h] \in HandlerState
    BY <1>2 DEF Goto, TypeInv, TypeOK
  <2>2. /\ handlers'[h].pc = step
        /\ handlers'[h].owns = handlers[h].owns /\ handlers'[h].user = handlers[h].user
    BY <2>1 DEF HandlerState
  <2> QED
    BY <1>2, <2>1, <2>2
<1> QED
  BY <1>1, <1>2, RunMoves

\* A command has one owner at a time, which is busy, until it is settled.
OwnerInv ==
  /\ \A h \in Handler : handlers[h].owns => ~At(h, "idle") /\ handlers[h].user \notin settled
  /\ \A g, h \in Handler :
       handlers[g].owns /\ handlers[h].owns /\ handlers[g].user = handlers[h].user => g = h

LEMMA OwnerStep == TypeInv /\ OwnerInv /\ [Next]_vars => OwnerInv'
<1> SUFFICES ASSUME TypeInv, OwnerInv, [Next]_vars PROVE OwnerInv'
  OBVIOUS
<1> USE DEF OwnerInv, At
<1>1. ASSUME NEW u \in User, Request(u) PROVE OwnerInv'
  BY <1>1 DEF Request
<1>2. ASSUME NEW h \in Handler, NEW u \in User, Deliver(h, u) PROVE OwnerInv'
  BY <1>2 DEF Deliver, Ready, TypeInv, TypeOK, HandlerState
<1>3. ASSUME NEW h \in Handler, Run(h) PROVE OwnerInv'
  <2>1. CASE handlers'[h] = IdleHandler
    BY <1>3, <2>1, RunLeaves DEF IdleHandler
  <2>2. CASE handlers'[h] # IdleHandler
    <3>1. /\ settled' = settled /\ handlers'[h].pc # "idle"
          /\ handlers'[h].owns = handlers[h].owns /\ handlers'[h].user = handlers[h].user
      BY <1>3, <2>2, RunLeaves
    <3>2. \A g \in Handler \ {h} : handlers'[g] = handlers[g]
      BY <1>3, RunLeaves
    <3>3. \A g \in Handler : /\ handlers'[g].owns = handlers[g].owns
                            /\ handlers'[g].user = handlers[g].user
      BY <3>1, <3>2
    <3>4. ASSUME NEW g \in Handler, handlers'[g].owns
          PROVE  handlers'[g].pc # "idle" /\ handlers'[g].user \notin settled'
      <4>1. handlers[g].owns
        BY <3>3, <3>4, Zenon
      <4>2. handlers[g].pc # "idle" /\ handlers[g].user \notin settled
        BY <4>1
      <4> QED
        BY <3>1, <3>2, <3>3, <4>2
    <3>5. ASSUME NEW f \in Handler, NEW g \in Handler, handlers'[f].owns, handlers'[g].owns,
                 handlers'[f].user = handlers'[g].user
          PROVE  f = g
      <4>1. handlers[f].owns /\ handlers[g].owns
        BY <3>3, <3>5, Zenon
      <4>2. handlers[f].user = handlers[g].user
        BY <3>3, <3>5
      <4> QED
        BY <4>1, <4>2
    <3> QED
      BY <3>4, <3>5
  <2> QED
    BY <2>1, <2>2
<1>4. CASE Crash
  BY <1>4 DEF Crash, IdleHandler
<1>5. CASE ConnectionLost
  <2>1. \A h \in Handler : ~handlers'[h].owns
    BY <1>5 DEF ConnectionLost, TypeInv, TypeOK, HandlerState
  <2> QED
    BY <2>1
<1>6. CASE UNCHANGED vars
  BY <1>6 DEF vars
<1> QED
  BY <1>1, <1>2, <1>3, <1>4, <1>5, <1>6 DEF Next, Service

LEMMA OwnerInvariant == Spec => []OwnerInv
<1>1. Init => OwnerInv
  BY DEF Init, OwnerInv, IdleHandler
<1> QED
  BY <1>1, TypeInvariant, OwnerStep, PTL DEF Spec

\* What is left of a command, before and after a step.
LEMMA LeftValue ==
  ASSUME OwnerInv, OwnerInv', NEW u \in User
  PROVE  /\ u \in settled => Left(u) = 0
         /\ \A h \in Handler : Owns(h, u) => Left(u) = StepsLeft(handlers[h].pc)
         /\ u \notin settled /\ (\A h \in Handler : ~Owns(h, u)) => Left(u) = 11
         /\ u \in settled' => Left(u)' = 0
         /\ \A h \in Handler : Owns(h, u)' => Left(u)' = StepsLeft(handlers'[h].pc)
         /\ u \notin settled' /\ (\A h \in Handler : ~Owns(h, u)') => Left(u)' = 11
<1>1. ASSUME NEW h \in Handler, Owns(h, u) PROVE Left(u) = StepsLeft(handlers[h].pc)
  <2>1. \A g \in Handler : Owns(g, u) => g = h
    BY <1>1 DEF OwnerInv, Owns
  <2>2. u \notin settled
    BY <1>1 DEF OwnerInv, Owns
  <2> QED
    BY <1>1, <2>1, <2>2 DEF Left
<1>2. ASSUME NEW h \in Handler, Owns(h, u)' PROVE Left(u)' = StepsLeft(handlers'[h].pc)
  <2>1. \A g \in Handler : Owns(g, u)' => g = h
    BY <1>2 DEF OwnerInv, Owns
  <2>2. u \notin settled'
    BY <1>2 DEF OwnerInv, Owns
  <2> QED
    BY <1>2, <2>1, <2>2 DEF Left
<1> QED
  BY <1>1, <1>2 DEF Left

\* Every handling ends, after ten steps at most.
THEOREM HandlingSafe == Spec => HandlingEnds
<1>1. TypeInv /\ [Next]_vars =>
        [\A h \in Handler :
           handlers'[h].pc # handlers[h].pc =>
             At(h, "idle") \/ StepsLeft(handlers'[h].pc) < StepsLeft(handlers[h].pc)]_vars
  <2> SUFFICES ASSUME TypeInv, Next, NEW h \in Handler,
                      handlers'[h].pc # handlers[h].pc, ~At(h, "idle")
               PROVE  StepsLeft(handlers'[h].pc) < StepsLeft(handlers[h].pc)
    BY DEF vars
  <2>1. handlers[h].pc \in Steps \ {"idle"}
    BY DEF At, TypeInv, TypeOK, HandlerState
  <2>2. CASE handlers'[h] = IdleHandler
    BY <2>1, <2>2 DEF IdleHandler, StepsLeft, Steps, Calls
  <2>3. ASSUME NEW g \in Handler, Run(g), handlers'[h] # IdleHandler
        PROVE  StepsLeft(handlers'[h].pc) < StepsLeft(handlers[h].pc)
    BY <2>3, RunLeaves
  <2>4. ~\E u \in User : Request(u)
    BY DEF Request
  <2>5. ~\E g \in Handler, u \in User : Deliver(g, u)
    BY DEF Deliver, At, TypeInv, TypeOK
  <2>6. ~ConnectionLost
    BY DEF ConnectionLost, TypeInv, TypeOK, HandlerState
  <2> QED
    BY <2>2, <2>3, <2>4, <2>5, <2>6 DEF Next, Service, Crash
<1> QED
  BY <1>1, TypeInvariant, PTL DEF Spec, HandlingEnds

\* How a step of a handler changes what is left of each command.
LEMMA RunLeft ==
  ASSUME TypeInv, OwnerInv, OwnerInv', NEW h \in Handler, Run(h), NEW u \in User
  PROVE  Left(u)' <= Left(u) /\ (Owns(h, u) => Left(u)' < Left(u))
<1>1. \A g \in Handler : StepsLeft(handlers[g].pc) \in 0 .. 10
  BY StepsLeftType DEF TypeInv, TypeOK, HandlerState
<1>2. Left(u) \in 0 .. 11
  BY <1>1, LeftValue
<1>3. CASE Owns(h, u)
  <2>1. Left(u) = StepsLeft(handlers[h].pc)
    BY <1>3, LeftValue
  <2>2. CASE At(h, "settle") /\ settled' = settled \cup {handlers[h].user}
    BY <1>3, <2>1, <2>2, LeftValue DEF Owns, At, StepsLeft
  <2>3. CASE Owns(h, u)' /\ StepsLeft(handlers'[h].pc) < StepsLeft(handlers[h].pc)
    <3>1. Left(u)' = StepsLeft(handlers'[h].pc) /\ handlers'[h].pc \in Steps
      BY <2>3, LeftValue, RunLeaves DEF Owns, IdleHandler
    <3> QED
      BY <1>1, <2>1, <2>3, <3>1, StepsLeftType
  <2> QED
    BY <1>3, <2>2, <2>3, RunLeaves DEF Owns
<1>4. CASE ~Owns(h, u)
  <2>1. \A g \in Handler : Owns(g, u)' <=> Owns(g, u)
    BY <1>4, RunLeaves DEF Owns, IdleHandler, TypeInv, TypeOK
  <2>2. u \in settled' <=> u \in settled
    BY <1>4, RunLeaves DEF Owns
  <2>3. \A g \in Handler : Owns(g, u) => handlers'[g] = handlers[g]
    BY <1>4, RunLeaves
  <2>4. Left(u)' = Left(u)
    BY <2>1, <2>2, <2>3, LeftValue
  <2> QED
    BY <1>2, <1>4, <2>4
<1> QED
  BY <1>3, <1>4

\* The work that a command takes is bounded, and only an interruption can make
\* some of it necessary again.
THEOREM CommandMovesSafe == Spec => CommandMovesOn
<1>1. TypeInv /\ OwnerInv /\ OwnerInv' /\ [Next]_vars =>
        [UNCHANGED faults =>
           \A u \in commands :
             /\ Left(u)' <= Left(u)
             /\ (\E h \in Handler : Deliver(h, u) \/ (Run(h) /\ Owns(h, u)))
                  => Left(u)' < Left(u)]_vars
  <2> SUFFICES ASSUME TypeInv, OwnerInv, OwnerInv', Next, UNCHANGED faults, NEW u \in commands
               PROVE  /\ Left(u)' <= Left(u)
                      /\ (\E h \in Handler : Deliver(h, u) \/ (Run(h) /\ Owns(h, u)))
                           => Left(u)' < Left(u)
    BY DEF vars
  <2>1. u \in User /\ \A h \in Handler : StepsLeft(handlers[h].pc) \in 0 .. 10
    BY StepsLeftType DEF TypeInv, TypeOK, HandlerState
  <2>2. Left(u) \in 0 .. 11
    BY <2>1, LeftValue
  <2>3. ASSUME NEW h \in Handler, Deliver(h, u) PROVE Left(u)' < Left(u)
    <3>1. Left(u) = 11
      BY <2>1, <2>3, LeftValue DEF Deliver, Ready, Owns
    <3>2. Owns(h, u)' /\ handlers'[h].pc \in Steps
      BY <2>3 DEF Deliver, Owns, TypeInv, TypeOK, HandlerState, Steps, Calls
    <3>3. Left(u)' = StepsLeft(handlers'[h].pc)
      BY <2>1, <3>2, LeftValue
    <3> QED
      BY <3>1, <3>2, <3>3, StepsLeftType
  <2>4. ASSUME NEW h \in Handler, NEW v \in User \ {u}, Deliver(h, v) PROVE Left(u)' = Left(u)
    <3>1. /\ settled' = settled /\ ~handlers[h].owns
          /\ \A g \in Handler \ {h} : handlers'[g] = handlers[g]
          /\ handlers'[h].user = v
      BY <2>4 DEF Deliver, OwnerInv, TypeInv, TypeOK
    <3>2. \A g \in Handler : Owns(g, u) \/ Owns(g, u)' => handlers'[g] = handlers[g]
      BY <2>4, <3>1 DEF Owns
    <3>3. CASE u \in settled
      BY <2>1, <3>1, <3>3, LeftValue
    <3>4. CASE u \notin settled /\ \A g \in Handler : ~Owns(g, u)
      <4>1. Left(u) = 11
        BY <2>1, <3>4, LeftValue
      <4>2. \A g \in Handler : ~Owns(g, u)'
        <5> SUFFICES ASSUME NEW g \in Handler, Owns(g, u)' PROVE FALSE
          OBVIOUS
        <5>1. handlers'[g] = handlers[g]
          BY <3>2
        <5>2. Owns(g, u)
          BY <5>1, Zenon DEF Owns
        <5> QED
          BY <3>4, <5>2
      <4>3. Left(u)' = 11
        BY <2>1, <3>1, <3>4, <4>2, LeftValue
      <4> QED
        BY <4>1, <4>3
    <3>5. ASSUME NEW g \in Handler, Owns(g, u) PROVE Left(u)' = Left(u)
      <4>1. Left(u) = StepsLeft(handlers[g].pc)
        BY <2>1, <3>5, LeftValue
      <4>2. handlers'[g] = handlers[g]
        BY <3>2, <3>5
      <4>3. Owns(g, u)'
        BY <3>5, <4>2, Zenon DEF Owns
      <4>4. Left(u)' = StepsLeft(handlers'[g].pc)
        BY <2>1, <4>3, LeftValue
      <4> QED
        BY <4>1, <4>2, <4>4
    <3> QED
      BY <3>3, <3>4, <3>5
  <2>5. ASSUME NEW v \in User, Request(v) PROVE Left(u)' = Left(u)
    BY <2>5 DEF Request, Left, Owns
  <2>6. ~Crash /\ ~ConnectionLost
    BY DEF Crash, ConnectionLost, faults, TypeInv, TypeOK
  <2>7. \A h \in Handler : Run(h) => Left(u)' <= Left(u) /\ (Owns(h, u) => Left(u)' < Left(u))
    BY <2>1, RunLeft
  <2>8. (\E h \in Handler : Deliver(h, u) \/ (Run(h) /\ Owns(h, u))) => Left(u)' < Left(u)
    BY <2>3, <2>7
  <2>9. Left(u)' <= Left(u)
    <3>1. CASE Left(u)' = Left(u)
      BY <2>2, <3>1
    <3>2. ASSUME NEW h \in Handler, Deliver(h, u) PROVE Left(u)' <= Left(u)
      <4>1. Owns(h, u)' /\ handlers'[h].pc \in Steps
        BY <3>2 DEF Deliver, Owns, TypeInv, TypeOK, HandlerState, Steps, Calls
      <4>2. Left(u)' \in 0 .. 10
        BY <2>1, <4>1, LeftValue, StepsLeftType
      <4> QED
        BY <2>2, <2>3, <3>2, <4>2
    <3> QED
      BY <2>4, <2>5, <2>6, <2>7, <3>1, <3>2 DEF Next, Service
  <2> QED
    BY <2>8, <2>9
<1> QED
  BY <1>1, TypeInvariant, OwnerInvariant, PTL DEF Spec, CommandMovesOn

-------------------------------------------------------------------------------
(* The queue of the commands.                                              *)

Held == {u \in User : \E h \in Handler : Owns(h, u)}

Queue == INSTANCE AtLeastOnceQueue WITH
  Message <- User, published <- commands, held <- Held

\* A step of a handler settles what it owns, or leaves the queue alone.
LEMMA RunQueue ==
  ASSUME TypeInv, OwnerInv, NEW h \in Handler, Run(h)
  PROVE  [Queue!Next]_(Queue!vars)
<1>1. CASE At(h, "settle") /\ handlers'[h] = IdleHandler /\ handlers[h].owns
           /\ settled' = settled \cup {handlers[h].user}
  <2>1. PICK u : u = handlers[h].user
    OBVIOUS
  <2>2. u \in User /\ Owns(h, u) /\ u \in Held
    BY <1>1, <2>1, RunLeaves DEF TypeInv, TypeOK, BusyOK, HandlerState, At, Held, Owns
  <2>3. \A g \in Handler : \A v : Owns(g, v)' <=> Owns(g, v) /\ g # h
    BY <1>1, RunLeaves DEF Owns, IdleHandler
  <2>4. \A g \in Handler : Owns(g, u) => g = h
    BY <2>2 DEF OwnerInv, Owns
  <2>5. Held' = Held \ {u}
    BY <2>1, <2>2, <2>3, <2>4 DEF Held, Owns
  <2>6. Queue!Settle(u)
    BY <1>1, <2>1, <2>2, <2>5, RunLeaves DEF Queue!Settle
  <2> QED
    BY <2>2, <2>6 DEF Queue!Next
<1>2. CASE handlers'[h].owns = handlers[h].owns /\ handlers'[h].user = handlers[h].user
           /\ settled' = settled
  <2>1. \A g \in Handler : \A v : Owns(g, v)' <=> Owns(g, v)
    BY <1>2, RunLeaves DEF Owns
  <2> QED
    BY <1>2, <2>1, RunLeaves DEF Held, Queue!vars
<1>3. CASE ~handlers[h].owns /\ handlers'[h] = IdleHandler /\ settled' = settled
  <2>1. \A g \in Handler : \A v : Owns(g, v)' <=> Owns(g, v)
    BY <1>3, RunLeaves DEF Owns, IdleHandler
  <2> QED
    BY <1>3, <2>1, RunLeaves DEF Held, Queue!vars
<1> QED
  BY <1>1, <1>2, <1>3, RunLeaves

\* However many handlers there are, with and without a channel, the service
\* uses its queue as an at-least-once consumer must: no command is in the hands
\* of two deliveries whose acks count, and none comes back once it is settled.
THEOREM QueueImplemented == Spec => Queue!Spec
<1>1. Init => Queue!Init
  BY DEF Init, Queue!Init, Held, Owns, IdleHandler
<1>2. TypeInv /\ OwnerInv /\ [Next]_vars => [Queue!Next]_(Queue!vars)
  <2> SUFFICES ASSUME TypeInv, OwnerInv, [Next]_vars PROVE [Queue!Next]_(Queue!vars)
    OBVIOUS
  <2>1. ASSUME NEW u \in User, Request(u) PROVE Queue!Publish(u)
    BY <2>1 DEF Request, Queue!Publish, Held, Owns
  <2>2. ASSUME NEW h \in Handler, NEW u \in User, Deliver(h, u) PROVE Queue!Deliver(u)
    <3>1. u \in commands \ (settled \cup Held) /\ UNCHANGED <<commands, settled>>
      BY <2>2 DEF Deliver, Ready, Held, Owns
    <3>2. ~handlers[h].owns
      BY <2>2 DEF Deliver, OwnerInv
    <3>3. /\ \A g \in Handler \ {h} : handlers'[g] = handlers[g]
          /\ handlers'[h].owns /\ handlers'[h].user = u
      BY <2>2 DEF Deliver, TypeInv, TypeOK
    <3>4. Held' = Held \cup {u}
      BY <3>2, <3>3 DEF Held, Owns
    <3> QED
      BY <3>1, <3>4 DEF Queue!Deliver
  <2>3. CASE Crash \/ ConnectionLost
    <3>1. \A h \in Handler : ~handlers'[h].owns
      BY <2>3 DEF Crash, ConnectionLost, IdleHandler, TypeInv, TypeOK, HandlerState
    <3>2. Held' = {}
      BY <3>1 DEF Held, Owns
    <3>3. Queue!GiveBack
      BY <2>3, <3>2 DEF Crash, ConnectionLost, Queue!GiveBack
    <3> QED
      BY <3>3 DEF Queue!Next
  <2>4. CASE UNCHANGED vars
    BY <2>4 DEF vars, Queue!vars, Held, Owns
  <2> QED
    BY <2>1, <2>2, <2>3, <2>4, RunQueue DEF Next, Service, Queue!Next
<1> QED
  BY <1>1, <1>2, TypeInvariant, OwnerInvariant, PTL DEF Spec, Queue!Spec
===============================================================================
