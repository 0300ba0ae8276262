----------------------- MODULE RegistrationPipelineProofs -----------------------
(***************************************************************************)
(* What the services guarantee together: the composition implements the    *)
(* specification of each of its services, so that their theorems hold in   *)
(* it, and these show that it implements RegistrationLifecycle.            *)
(***************************************************************************)
EXTENDS RegistrationPipeline, AuthRegistrationProofs

USE PipelineAssumption, FallibleAssumption, BoundsAssumption

\* The theorems about user management and notification, on their queues here.
ResultFacts == INSTANCE AuthResultProofs WITH
  results <- ResultQueue, settled <- resultSettled, dropped <- resultDropped,
  handlers <- resultHandlers, updates <- 0,
  crashes <- resultCrashes, connectionLosses <- resultConnectionLosses,
  Strangers <- {}, Profile <- {None}, Handler <- ResultHandler, Fallible <- ResultFallible,
  Delivery <- Nat \ {0}, MaxUpdates <- 0, MaxCrashes <- MaxResultCrashes,
  MaxConnectionLosses <- MaxResultConnectionLosses, NoEvent <- None

MailFacts == INSTANCE NotificationProofs WITH
  published <- MailQueue, settled <- mailSettled, handlers <- mailHandlers,
  deliveries <- mailDeliveries, log <- mailLog,
  crashes <- mailCrashes, connectionLosses <- mailConnectionLosses,
  Event <- CredentialsEvent, Successful <- CredentialsEvent, Handler <- MailHandler,
  Fallible <- MailFallible, MaxCrashes <- MaxMailCrashes,
  MaxConnectionLosses <- MaxMailConnectionLosses, NoEvent <- None

LifecycleFacts == INSTANCE RegistrationLifecycleProofs WITH
  Reliable <- OnlyInterrupted,
  authStatus <- [u \in User |-> users[u].authStatus],
  requested <- commands, registered <- accounts,
  informed <- {m.event.user : m \in mails}

-------------------------------------------------------------------------------
(* The auth service in the pipeline.                                       *)

LEMMA AuthStep == [PipelineNext]_pipelineVars => [Next]_vars
  BY DEF PipelineNext, pipelineVars, CreateUser, PublishCommand, RegisterUsers, RecordResults,
         SendMails, Next

\* Everything that holds of the auth service on its own holds in the pipeline.
THEOREM AuthImplemented == PipelineSpec => Spec
<1>1. PipelineInit => Init
  BY DEF PipelineInit
<1> QED
  BY <1>1, AuthStep, PTL DEF PipelineSpec, Spec

-------------------------------------------------------------------------------
(* The queues hold what the auth service published.                        *)

LEMMA QueuesHold ==
  /\ MailQueue = credentials /\ MailQueue' = credentials'
  /\ ResultQueue = results /\ ResultQueue' = results'
<1>1. Matches(MailBinding, CredentialsKey)
  BY DEF Matches, MailBinding, CredentialsKey
<1>2. ASSUME NEW status PROVE Matches(ResultBinding, StatusKey(status))
  BY DEF Matches, ResultBinding, StatusKey
<1> QED
  BY <1>1, <1>2 DEF MailQueue, ResultQueue

\* What one step of the auth service publishes: at most one event on either
\* queue, and a status for a delivery that has none yet.
LEMMA ServicePublishes ==
  ASSUME TypeInv, AnswerInv, Service
  PROVE  /\ \/ credentials' = credentials
            \/ \E c \in CredentialsEvent : credentials' = credentials \cup {c}
         /\ \/ results' = results
            \/ \E h \in Handler, status \in {"SUCCESS", "FAILED"} :
                 /\ handlers[h].user \in User /\ handlers[h].delivery \in Nat \ {0}
                 /\ ~At(h, "idle")
                 /\ \A r \in results : r.delivery # handlers[h].delivery
                 /\ results' = results \cup {[user |-> handlers[h].user, status |-> status,
                                              delivery |-> handlers[h].delivery]}
<1> USE DEF store
<1>1. CASE Crash
  BY <1>1 DEF Crash
<1>2. CASE ConnectionLost
  BY <1>2 DEF ConnectionLost
<1>3. ASSUME NEW h \in Handler, NEW u \in User, Deliver(h, u) PROVE UNCHANGED <<results, credentials>>
  BY <1>3 DEF Deliver
<1>4. ASSUME NEW h \in Handler, NEW at \in Calls, NEW status \in {"SUCCESS", "FAILED"}, NEW next,
             PublishStatus(h, at, status, next), at # "auditSuccess"
      PROVE  /\ credentials' = credentials
             /\ handlers[h].user \in User /\ handlers[h].delivery \in Nat \ {0}
             /\ ~At(h, "idle")
             /\ \A r \in results : r.delivery # handlers[h].delivery
             /\ results' = results \cup {[user |-> handlers[h].user, status |-> status,
                                          delivery |-> handlers[h].delivery]}
  <2>1. At(h, at) /\ at \notin {"idle", "settle"}
    BY <1>4 DEF PublishStatus, Calls
  <2>2. handlers[h].user \in User /\ handlers[h].delivery \in 1 .. deliveries /\ deliveries \in Nat
    BY <2>1 DEF TypeInv, TypeOK, BusyOK, At
  <2>3. \A r \in results : r.delivery # handlers[h].delivery
    BY <1>4, <2>1 DEF AnswerInv, At
  <2> QED
    BY <1>4, <2>1, <2>2, <2>3 DEF PublishStatus, At
<1>5. ASSUME NEW h \in Handler, PublishCredentials(h)
      PROVE  /\ results' = results
             /\ \E c \in CredentialsEvent : credentials' = credentials \cup {c}
  <2>1. handlers[h].user \in User /\ handlers[h].delivery \in 1 .. deliveries /\ deliveries \in Nat
    BY <1>5 DEF PublishCredentials, TypeInv, TypeOK, BusyOK, At
  <2>2. [user |-> handlers[h].user, password |-> handlers[h].delivery] \in CredentialsEvent
    BY <2>1 DEF CredentialsEvent
  <2> QED
    BY <1>5, <2>2 DEF PublishCredentials
<1>6. ASSUME NEW h \in Handler, Run(h)
      PROVE  \/ UNCHANGED <<results, credentials>>
             \/ PublishCredentials(h)
             \/ PublishStatus(h, "publishRejected", "FAILED", "settle")
             \/ PublishStatus(h, "publishDuplicate", "SUCCESS", "settle")
             \/ PublishStatus(h, "publishSuccess", "SUCCESS", "auditSuccess")
             \/ PublishStatus(h, "publishFailed", "FAILED", "settle")
  BY <1>6 DEF Run, AuditRejected, PublishRejected, FindDuplicate, AuditDuplicate, PublishDuplicate,
     FindNone, LdapSearch, LdapAdd, LdapAddExists, LdapUnbind, CreateAccount,
     CreateAccountDuplicateKey, PublishSuccess, AuditSuccess, AuditFailed, PublishFailed, CallFails,
     LdapAddUnanswered, CreateAccountUnanswered, Settle, Audit
<1> QED
  BY <1>1, <1>2, <1>3, <1>4, <1>5, <1>6 DEF Service, Calls

-------------------------------------------------------------------------------
(* Notification in the pipeline.                                           *)

\* The two instances of Notification and of its proofs are the same.
LEMMA SameMailConsumer == Mail!Consumer => MailFacts!Consumer
  BY DEF Mail!Consumer, Mail!Run, Mail!Deliver, Mail!Ready, Mail!At, Mail!Goto, Mail!NotASuccess,
     Mail!SendMail, Mail!SendMailFails, Mail!RecordSent, Mail!RecordFailed, Mail!RecordFails,
     Mail!Settle, Mail!Crash, Mail!ConnectionLost, Mail!MailOf, Mail!EntryOf, Mail!IdleHandler,
     Mail!interruptions,
     MailFacts!Consumer, MailFacts!Run, MailFacts!Deliver, MailFacts!Ready, MailFacts!At,
     MailFacts!Goto, MailFacts!NotASuccess, MailFacts!SendMail, MailFacts!SendMailFails,
     MailFacts!RecordSent, MailFacts!RecordFailed, MailFacts!RecordFails, MailFacts!Settle,
     MailFacts!Crash, MailFacts!ConnectionLost, MailFacts!MailOf, MailFacts!EntryOf,
     MailFacts!IdleHandler, MailFacts!interruptions

LEMMA MailStep ==
  TypeInv /\ AnswerInv /\ [PipelineNext]_pipelineVars => [MailFacts!Next]_(MailFacts!vars)
<1> SUFFICES ASSUME TypeInv, AnswerInv, [PipelineNext]_pipelineVars
             PROVE  [MailFacts!Next]_(MailFacts!vars)
  OBVIOUS
<1> USE DEF mailVars
<1>1. CASE UNCHANGED <<credentials, mailVars>>
  BY <1>1, QueuesHold DEF MailFacts!vars, MailFacts!interruptions
<1>2. CASE RegisterUsers
  <2>1. UNCHANGED mailVars
    BY <1>2 DEF RegisterUsers
  <2>2. CASE credentials' = credentials
    BY <1>1, <2>1, <2>2
  <2>3. ASSUME NEW c \in CredentialsEvent, c \notin credentials, credentials' = credentials \cup {c}
        PROVE  [MailFacts!Next]_(MailFacts!vars)
    <3>1. MailFacts!Publish(c)
      BY <2>1, <2>3, QueuesHold DEF MailFacts!Publish, MailFacts!interruptions
    <3> QED
      BY <3>1 DEF MailFacts!Next
  <2>4. credentials' = credentials \/ \E c \in CredentialsEvent : credentials' = credentials \cup {c}
    BY <1>2, ServicePublishes DEF RegisterUsers
  <2>5. \A c \in credentials : credentials \cup {c} = credentials
    OBVIOUS
  <2> QED
    BY <2>2, <2>3, <2>4, <2>5
<1>3. CASE SendMails
  <2>1. Mail!Consumer
    BY <1>3 DEF SendMails
  <2>2. MailFacts!Consumer
    BY <2>1, SameMailConsumer
  <2> QED
    BY <2>2 DEF MailFacts!Next
<1> QED
  BY <1>1, <1>2, <1>3 DEF PipelineNext, pipelineVars, vars, store, CreateUser, PublishCommand,
     RecordResults, Request

\* The notification service does in the pipeline what it does on its own.
THEOREM MailImplemented == PipelineSpec => MailFacts!Spec
<1>1. PipelineInit => MailFacts!Init
  BY QueuesHold DEF PipelineInit, Init, Mail!Init, MailFacts!Init, Mail!IdleHandler, MailFacts!IdleHandler
<1> QED
  BY <1>1, MailStep, AuthImplemented, TypeInvariant, AnswerInvariant, PTL
  DEF PipelineSpec, MailFacts!Spec

\* Of the credentials that the auth service issues none leaves the queue
\* without a mail or a log entry.
THEOREM TraceSafe == PipelineSpec => []SettledHasTrace
<1>1. MailFacts!Spec => []MailFacts!SettledHasTrace
  BY MailFacts!TraceSafe
<1>2. MailFacts!SettledHasTrace => SettledHasTrace
  BY DEF SettledHasTrace, Mail!SettledHasTrace, MailFacts!SettledHasTrace, Mail!MailsOf, MailFacts!MailsOf
<1> QED
  BY <1>1, <1>2, MailImplemented, PTL

-------------------------------------------------------------------------------
(* User management in the pipeline.                                        *)

\* The command of a user is published after the document was stored, and no
\* document is ever deleted.
CreatedInv == \A u \in commands : users[u].authStatus # "none"

\* The two instances of AuthResult and of its proofs are the same.
LEMMA SameConsumer ==
  /\ Result!Consumer => ResultFacts!Consumer
  /\ Result!Init => ResultFacts!Init
  /\ \A u \in User : Result!CreateUser(u, None) => ResultFacts!CreateUser(u, None)
<1>1. Result!Consumer => ResultFacts!Consumer
  BY DEF Result!Consumer, Result!Run, Result!Deliver, Result!Ready, Result!At, Result!Goto, Result!UserOf,
     Result!Succeeded, Result!Skips, Result!FindSkipped, Result!Find, Result!Changed, Result!Saved,
     Result!Save, Result!CallFails, Result!Settle, Result!Crash, Result!ConnectionLost,
     Result!Blank, Result!IdleHandler, Result!bounds,
     ResultFacts!Consumer, ResultFacts!Run, ResultFacts!Deliver, ResultFacts!Ready, ResultFacts!At,
     ResultFacts!Goto, ResultFacts!UserOf, ResultFacts!Succeeded, ResultFacts!Skips,
     ResultFacts!FindSkipped, ResultFacts!Find, ResultFacts!Changed, ResultFacts!Saved,
     ResultFacts!Save, ResultFacts!CallFails, ResultFacts!Settle, ResultFacts!Crash,
     ResultFacts!ConnectionLost, ResultFacts!Blank, ResultFacts!IdleHandler, ResultFacts!bounds
<1>2. Result!Init => ResultFacts!Init
  BY DEF Result!Init, Result!IdleHandler, Result!Blank,
         ResultFacts!Init, ResultFacts!IdleHandler, ResultFacts!Blank
<1>3. \A u \in User : Result!CreateUser(u, None) => ResultFacts!CreateUser(u, None)
  BY DEF Result!CreateUser, Result!bounds, ResultFacts!CreateUser, ResultFacts!bounds
<1> QED
  BY <1>1, <1>2, <1>3

LEMMA ResultStep ==
  TypeInv /\ AnswerInv /\ RequestedInv /\ CreatedInv /\ [PipelineNext]_pipelineVars
    => [ResultFacts!Next]_(ResultFacts!vars)
<1> SUFFICES ASSUME TypeInv, AnswerInv, RequestedInv, CreatedInv, [PipelineNext]_pipelineVars
             PROVE  [ResultFacts!Next]_(ResultFacts!vars)
  OBVIOUS
<1> USE DEF resultVars
<1>1. CASE UNCHANGED <<results, resultVars>>
  BY <1>1, QueuesHold DEF ResultFacts!vars, ResultFacts!bounds
<1>2. CASE RegisterUsers
  <2>1. UNCHANGED resultVars
    BY <1>2 DEF RegisterUsers
  <2>2. CASE results' = results
    BY <1>1, <2>1, <2>2
  <2>3. ASSUME NEW h \in Handler, NEW status \in {"SUCCESS", "FAILED"},
               handlers[h].user \in User, handlers[h].delivery \in Nat \ {0}, ~At(h, "idle"),
               \A r \in results : r.delivery # handlers[h].delivery,
               results' = results \cup {[user |-> handlers[h].user, status |-> status,
                                         delivery |-> handlers[h].delivery]}
        PROVE  [ResultFacts!Next]_(ResultFacts!vars)
    <3>1. users[handlers[h].user].authStatus # "none"
      BY <2>3 DEF CreatedInv, RequestedInv, At
    <3>2. ResultFacts!Publish(handlers[h].user, status, handlers[h].delivery)
      BY <2>1, <2>3, <3>1, QueuesHold DEF ResultFacts!Publish, ResultFacts!bounds
    <3> QED
      BY <2>3, <3>2 DEF ResultFacts!Next, ResultFacts!Environment
  <2> QED
    BY <1>2, <2>2, <2>3, ServicePublishes DEF RegisterUsers
<1>3. ASSUME NEW u \in User, CreateUser(u) PROVE [ResultFacts!Next]_(ResultFacts!vars)
  BY <1>3, SameConsumer DEF CreateUser, ResultFacts!Next, ResultFacts!Environment
<1>4. CASE RecordResults
  BY <1>4, SameConsumer DEF RecordResults, ResultFacts!Next
<1> QED
  BY <1>1, <1>2, <1>3, <1>4 DEF PipelineNext, pipelineVars, vars, store, PublishCommand,
     SendMails, Request

LEMMA CreatedStep ==
  TypeInv /\ RequestedInv /\ CreatedInv /\ ResultFacts!TypeInv /\ [PipelineNext]_pipelineVars
    => CreatedInv'
<1> SUFFICES ASSUME TypeInv, RequestedInv, CreatedInv, ResultFacts!TypeInv,
                    [PipelineNext]_pipelineVars
             PROVE  CreatedInv'
  OBVIOUS
<1> USE DEF CreatedInv
<1>1. CASE UNCHANGED <<commands, users>>
  BY <1>1
<1>2. ASSUME NEW u \in User, PublishCommand(u) PROVE CreatedInv'
  BY <1>2 DEF PublishCommand, Request, resultVars
<1>3. ASSUME NEW u \in User, CreateUser(u) PROVE CreatedInv'
  <2>1. users[u].authStatus = "none" /\ commands' = commands
    BY <1>3 DEF CreateUser, Result!CreateUser, vars
  <2>2. \A v \in User \ {u} : users'[v] = users[v]
    BY <1>3 DEF CreateUser, Result!CreateUser, ResultFacts!TypeInv, ResultFacts!TypeOK
  <2> QED
    BY <2>1, <2>2 DEF TypeInv, TypeOK
<1>4. CASE RecordResults
  <2>1. Result!Consumer /\ commands' = commands
    BY <1>4 DEF RecordResults, vars
  <2>2. ResultFacts!Consumer
    BY <2>1, SameConsumer
  <2>3. CASE users' = users
    BY <2>1, <2>3
  <2>4. ASSUME NEW h \in ResultHandler, ResultFacts!Save(h) PROVE CreatedInv'
    <3>1. PICK v \in User : /\ \A u \in User \ {v} : users'[u] = users[u]
                           /\ users'[v].authStatus \in {users[v].authStatus, "active", "failed"}
      <4>1. ResultFacts!UserOf(h) \in User
        BY <2>4, ResultFacts!SaveEffect
      <4> QED
        BY <2>4, <4>1, ResultFacts!SaveEffect DEF ResultFacts!TypeInv, ResultFacts!TypeOK
    <3> QED
      BY <2>1, <3>1 DEF TypeInv, TypeOK
  <2> QED
    BY <2>2, <2>3, <2>4 DEF ResultFacts!Consumer, ResultFacts!Run, ResultFacts!Deliver,
       ResultFacts!FindSkipped, ResultFacts!Find, ResultFacts!CallFails, ResultFacts!Settle,
       ResultFacts!Crash, ResultFacts!ConnectionLost
<1>5. CASE RegisterUsers
  <2>1. commands' = commands /\ users' = users
    BY <1>5 DEF RegisterUsers, resultVars, Service, Run, Deliver, Crash, ConnectionLost, AuditRejected,
       PublishRejected, FindDuplicate, AuditDuplicate, PublishDuplicate, FindNone, LdapSearch,
       LdapAdd, LdapAddExists, LdapUnbind, CreateAccount, CreateAccountDuplicateKey,
       PublishCredentials, PublishSuccess, AuditSuccess, AuditFailed, PublishFailed, CallFails,
       LdapAddUnanswered, CreateAccountUnanswered, Settle, Audit, PublishStatus
  <2> QED
    BY <1>1, <2>1
<1> QED
  BY <1>1, <1>2, <1>3, <1>4, <1>5 DEF PipelineNext, pipelineVars, vars, resultVars, SendMails

\* All that the proofs below know of a state of the pipeline.
LEMMA CreatedInvariant == PipelineSpec => [](CreatedInv /\ ResultFacts!TypeInv)
<1>1. PipelineInit => CreatedInv /\ ResultFacts!TypeInv /\ ResultFacts!Init
  <2>1. PipelineInit => CreatedInv
    BY DEF PipelineInit, Init, CreatedInv
  <2>2. PipelineInit => ResultFacts!Init
    BY SameConsumer DEF PipelineInit
  <2> QED
    BY <2>1, <2>2, ResultFacts!TypeInit
<1>2. ResultFacts!TypeInv /\ [ResultFacts!Next]_(ResultFacts!vars) => ResultFacts!TypeInv'
  BY ResultFacts!TypeStep
<1> QED
  BY <1>1, <1>2, ResultStep, CreatedStep, AuthImplemented, TypeInvariant, AnswerInvariant,
     RequestedInvariant, PTL DEF PipelineSpec

\* The consumer of the status events does in the pipeline what it does on its
\* own: the auth service publishes only for users who were created, and never
\* two events for one delivery.
THEOREM ResultImplemented == PipelineSpec => ResultFacts!Spec
<1>1. PipelineInit => ResultFacts!Init
  BY SameConsumer DEF PipelineInit
<1> QED
  BY <1>1, ResultStep, CreatedInvariant, AuthImplemented, TypeInvariant, AnswerInvariant,
     RequestedInvariant, PTL DEF PipelineSpec, ResultFacts!Spec

-------------------------------------------------------------------------------
(* The documents' view of a registration.                                  *)

ChannelKept == MaxConnectionLosses = 0 => connectionLosses = 0

LEMMA ChannelInvariant == Spec => []ChannelKept
<1>1. Init => ChannelKept
  BY DEF Init, ChannelKept
<1>2. ChannelKept /\ [Next]_vars => ChannelKept'
  <2> SUFFICES ASSUME MaxConnectionLosses = 0, connectionLosses = 0, [Next]_vars
               PROVE  connectionLosses' = 0
    BY DEF ChannelKept
  <2>1. ~ConnectionLost
    BY DEF ConnectionLost
  <2> QED
    BY <2>1 DEF Next, Request, Service, Run, Deliver, Crash, AuditRejected, PublishRejected,
       FindDuplicate, AuditDuplicate, PublishDuplicate, FindNone, LdapSearch, LdapAdd,
       LdapAddExists, LdapUnbind, CreateAccount, CreateAccountDuplicateKey, PublishCredentials,
       PublishSuccess, AuditSuccess, AuditFailed, PublishFailed, CallFails, LdapAddUnanswered,
       CreateAccountUnanswered, Settle, Audit, PublishStatus, vars, store, faults
<1> QED
  BY <1>1, <1>2, PTL DEF Spec

\* What is known of a state: of each service by its own, and of the commands
\* that the services have in common.
PipelineInv ==
  /\ TypeInv /\ AccountInv /\ CauseInv /\ RequestedInv /\ CreatedInv
  /\ ResultFacts!TypeInv /\ ResultFacts!CauseInv
  /\ MailFacts!TypeInv
  /\ ChannelKept

LEMMA PipelineInvariant == PipelineSpec => []PipelineInv
<1>1. ResultFacts!Spec => []ResultFacts!CauseInv
  BY ResultFacts!CauseInvariant
<1>2. MailFacts!Spec => []MailFacts!TypeInv
  BY MailFacts!TypeInvariant
<1> QED
  BY <1>1, <1>2, AuthImplemented, TypeInvariant, AccountInvariant, CauseInvariant,
     RequestedInvariant, CreatedInvariant, ChannelInvariant, ResultImplemented,
     MailImplemented, PTL
  DEF PipelineInv

\* A reported failure means that there is no account and that none can be made.
LEMMA FailedMeans ==
  ASSUME OnlyInterrupted, PipelineInv,
         NEW u \in User, Answered(u, "FAILED"), Eligible(u)
  PROVE  u \notin accounts /\ Taken(u)
<1>1. Caused(u)
  BY DEF OnlyInterrupted, ChannelKept, PipelineInv, CauseInv
<1>2. PICK v \in accounts \ {u} : EmailOf(v) = EmailOf(u)
  BY <1>1 DEF Caused, Eligible
<1>3. v \in User
  BY <1>2 DEF PipelineInv, TypeInv, TypeOK
<1> QED
  BY <1>2, <1>3 DEF PipelineInv, RequestedInv, Taken

\* What the status of a user says about the services behind it.
LEMMA StatusMeans ==
  ASSUME PipelineInv, NEW u \in User
  PROVE  /\ users[u].authStatus \in {"none", "pending", "active", "failed"}
         /\ u \in commands => users[u].authStatus # "none"
         /\ users[u].authStatus = "active" => u \in accounts /\ u \in commands
         /\ users[u].authStatus = "failed" => Answered(u, "FAILED") /\ u \in commands
<1>1. users[u].authStatus \in {"none", "pending", "active", "failed"}
  BY DEF PipelineInv, ResultFacts!TypeInv, ResultFacts!TypeOK, ResultFacts!Document
<1>2. u \in commands => users[u].authStatus # "none"
  BY DEF PipelineInv, CreatedInv
<1>3. ASSUME users[u].authStatus = "active" PROVE u \in accounts /\ u \in commands
  <2>1. Answered(u, "SUCCESS")
    BY <1>3, QueuesHold
    DEF PipelineInv, ResultFacts!CauseInv, ResultFacts!DocumentCause, ResultFacts!Succeeds, Answered
  <2> QED
    BY <2>1 DEF PipelineInv, AccountInv, SuccessHasAccount, RequestedInv
<1>4. ASSUME users[u].authStatus = "failed" PROVE Answered(u, "FAILED") /\ u \in commands
  <2>1. PICK r \in results : r.user = u /\ r.status = "FAILED"
    BY <1>4, QueuesHold
    DEF PipelineInv, ResultFacts!CauseInv, ResultFacts!DocumentCause, ResultFacts!Fails
  <2> QED
    BY <2>1 DEF PipelineInv, RequestedInv, Answered
<1> QED
  BY <1>1, <1>2, <1>3, <1>4

-------------------------------------------------------------------------------
(* Each step of the pipeline is one step of the lifecycle, or none.        *)

\* The lifecycle moves with four values of the pipeline only.
LEMMA LifecycleVars ==
  /\ UNCHANGED <<users, commands, accounts, mails>> => UNCHANGED Lifecycle!vars
  /\ users' = users => [u \in User |-> users[u].authStatus]' = [u \in User |-> users[u].authStatus]
  /\ mails' = mails => {m.event.user : m \in mails}' = {m.event.user : m \in mails}
  BY DEF Lifecycle!vars

LEMMA CreateFollows ==
  ASSUME PipelineInv, NEW u \in User, CreateUser(u)
  PROVE  Lifecycle!Create(u)
<1>1. /\ users[u].authStatus = "none"
      /\ \A v \in User : users'[v].authStatus =
                           IF v = u THEN "pending" ELSE users[v].authStatus
      /\ UNCHANGED <<commands, accounts, mails>>
  BY DEF CreateUser, Result!CreateUser, vars, store, mailVars, PipelineInv, ResultFacts!TypeInv,
     ResultFacts!TypeOK
<1>2. [v \in User |-> users[v].authStatus]' =
        [[v \in User |-> users[v].authStatus] EXCEPT ![u] = "pending"]
  BY <1>1
<1> QED
  BY <1>1, <1>2 DEF Lifecycle!Create

LEMMA PublishFollows ==
  ASSUME PipelineInv, NEW u \in User, PublishCommand(u)
  PROVE  Lifecycle!Request(u)
<1>1. /\ users[u].authStatus = "pending"
      /\ commands' = commands \cup {u}
      /\ UNCHANGED <<users, accounts, mails>>
  BY StatusMeans DEF PublishCommand, Request, store, resultVars, mailVars
<1> QED
  BY <1>1, LifecycleVars DEF Lifecycle!Request

\* What a step of the auth service does to the accounts.
LEMMA AccountMade ==
  ASSUME TypeInv, RequestedInv, Service
  PROVE  /\ commands' = commands
         /\ \/ accounts' = accounts
            \/ \E u \in commands : /\ Eligible(u) /\ ~Taken(u)
                                  /\ accounts' = accounts \cup {u}
<1> USE DEF store
<1>1. ASSUME NEW h \in Handler, CreateAccount(h) \/ CreateAccountUnanswered(h)
      PROVE  /\ commands' = commands
             /\ \E u \in commands : /\ Eligible(u) /\ ~Taken(u)
                                   /\ accounts' = accounts \cup {u}
  <2>1. /\ At(h, "createAccount") /\ ~Taken(handlers[h].user)
        /\ commands' = commands
        /\ accounts' = accounts \cup {handlers[h].user}
    BY <1>1 DEF CreateAccount, CreateAccountUnanswered
  <2> QED
    BY <2>1 DEF At, RequestedInv
<1>2. ASSUME NEW h \in Handler, Run(h), ~CreateAccount(h), ~CreateAccountUnanswered(h)
      PROVE  UNCHANGED <<commands, accounts>>
  BY <1>2 DEF Run, AuditRejected, PublishRejected, FindDuplicate, AuditDuplicate, PublishDuplicate,
     FindNone, LdapSearch, LdapAdd, LdapAddExists, LdapUnbind, CreateAccountDuplicateKey,
     PublishCredentials, PublishSuccess, AuditSuccess, AuditFailed, PublishFailed, CallFails,
     LdapAddUnanswered, Settle, Audit, PublishStatus
<1> QED
  BY <1>1, <1>2 DEF Service, Deliver, Crash, ConnectionLost

LEMMA RegisterFollows ==
  ASSUME PipelineInv, RegisterUsers
  PROVE  [Lifecycle!Next]_(Lifecycle!vars)
<1>1. UNCHANGED <<users, mails, commands>>
  BY AccountMade DEF RegisterUsers, resultVars, mailVars, PipelineInv
<1>2. CASE accounts' = accounts
  BY <1>1, <1>2, LifecycleVars
<1>3. ASSUME NEW u \in commands, Eligible(u), ~Taken(u), accounts' = accounts \cup {u}
      PROVE  [Lifecycle!Next]_(Lifecycle!vars)
  <2>1. u \in User /\ u \notin accounts
    BY <1>3 DEF PipelineInv, TypeInv, TypeOK, Taken
  <2>2. OnlyInterrupted => users[u].authStatus = "pending"
    BY <1>3, <2>1, StatusMeans, FailedMeans
  <2>3. Lifecycle!Register(u)
    BY <1>1, <1>3, <2>1, <2>2, LifecycleVars DEF Lifecycle!Register, Lifecycle!Open
  <2> QED
    BY <2>1, <2>3 DEF Lifecycle!Next
<1> QED
  BY <1>2, <1>3, AccountMade DEF RegisterUsers, PipelineInv

LEMMA SaveFollows ==
  ASSUME PipelineInv, NEW h \in ResultHandler, ResultFacts!Save(h),
         UNCHANGED <<commands, accounts, mails>>
  PROVE  [Lifecycle!Next]_(Lifecycle!vars)
<1> DEFINE status == [v \in User |-> users[v].authStatus]
<1>0. PICK u \in User : u = ResultFacts!UserOf(h)
  BY ResultFacts!SaveEffect DEF PipelineInv
<1>1. PICK e \in results : e = resultHandlers[h].event /\ e.user = u /\ u = ResultFacts!UserOf(h)
  BY <1>0, ResultFacts!SaveEffect, QueuesHold DEF PipelineInv, ResultFacts!UserOf
<1>2. u \in User /\ u \in commands /\ e.status \in {"SUCCESS", "FAILED"}
  BY <1>1 DEF PipelineInv, RequestedInv, TypeInv, TypeOK, StatusEvent
<1>3. \A v \in User \ {u} : users'[v] = users[v]
  BY <1>1, <1>2, ResultFacts!SaveEffect DEF PipelineInv, ResultFacts!TypeInv, ResultFacts!TypeOK
<1>4. users'[u].authStatus \in
        {users[u].authStatus, IF e.status = "SUCCESS" THEN "active" ELSE "failed"}
  BY <1>1, <1>2, ResultFacts!SaveEffect
  DEF PipelineInv, ResultFacts!TypeInv, ResultFacts!TypeOK, ResultFacts!Succeeded
<1>5. status' = [status EXCEPT ![u] = users'[u].authStatus]
  BY <1>2, <1>3
<1>6. e.status = "SUCCESS" => u \in accounts
  BY <1>1, <1>2 DEF PipelineInv, AccountInv, SuccessHasAccount, Answered
<1>7. u \in accounts => Eligible(u)
  BY DEF PipelineInv, RequestedInv
<1>8. OnlyInterrupted /\ Answered(u, "FAILED") => u \notin accounts
  BY <1>2, <1>7, FailedMeans
<1>9. OnlyInterrupted /\ e.status = "FAILED" => u \notin accounts
  BY <1>1, <1>8 DEF Answered
<1>10. users[u].authStatus \in {"pending", "active", "failed"}
  BY <1>2, StatusMeans
<1>11. CASE users'[u].authStatus = users[u].authStatus
  <2>1. status' = status
    BY <1>5, <1>11
  <2>2. UNCHANGED Lifecycle!vars
    BY <2>1, LifecycleVars DEF Lifecycle!vars
  <2> QED
    BY <2>2
<1>12. CASE e.status = "SUCCESS" /\ users'[u].authStatus = "active"
  <2>1. OnlyInterrupted => users[u].authStatus \in {"pending", "active"}
    BY <1>2, <1>6, <1>8, <1>10, <1>12, StatusMeans
  <2>2. CASE users[u].authStatus # "active"
    <3>1. /\ OnlyInterrupted => status[u] = "pending"
          /\ status' = [status EXCEPT ![u] = "active"]
          /\ {m.event.user : m \in mails}' = {m.event.user : m \in mails}
      BY <1>2, <1>5, <1>12, <2>1, <2>2, LifecycleVars
    <3>2. /\ u \in accounts
          /\ UNCHANGED <<commands, accounts, {m.event.user : m \in mails}>>
      BY <1>2, <1>6, <1>12, <3>1
    <3>3. Lifecycle!Activate(u)
      BY <3>1, <3>2, Zenon DEF Lifecycle!Activate, Lifecycle!Open
    <3> QED
      BY <1>2, <3>3 DEF Lifecycle!Next
  <2> QED
    BY <1>11, <1>12, <2>2
<1>13. CASE e.status = "FAILED" /\ users'[u].authStatus = "failed"
  <2>1. OnlyInterrupted => users[u].authStatus \in {"pending", "failed"}
    BY <1>2, <1>9, <1>10, <1>13, StatusMeans
  <2>2. CASE users[u].authStatus # "failed"
    <3>1. /\ OnlyInterrupted => status[u] = "pending"
          /\ status' = [status EXCEPT ![u] = "failed"]
          /\ {m.event.user : m \in mails}' = {m.event.user : m \in mails}
      BY <1>2, <1>5, <1>13, <2>1, <2>2, LifecycleVars
    <3>2. /\ u \in commands
          /\ OnlyInterrupted => u \notin accounts
          /\ UNCHANGED <<commands, accounts, {m.event.user : m \in mails}>>
      BY <1>2, <1>9, <1>13, <3>1
    <3>3. Lifecycle!Fail(u)
      BY <3>1, <3>2, Zenon DEF Lifecycle!Fail, Lifecycle!Open
    <3> QED
      BY <1>2, <3>3 DEF Lifecycle!Next
  <2> QED
    BY <1>11, <1>13, <2>2
<1> HIDE DEF status
<1> QED
  BY <1>2, <1>4, <1>11, <1>12, <1>13

LEMMA RecordFollows ==
  ASSUME PipelineInv, RecordResults
  PROVE  [Lifecycle!Next]_(Lifecycle!vars)
<1>1. UNCHANGED <<commands, accounts, mails>> /\ ResultFacts!Consumer
  BY SameConsumer DEF RecordResults, vars, store, mailVars
<1>2. CASE users' = users
  BY <1>1, <1>2, LifecycleVars
<1>3. ASSUME NEW h \in ResultHandler, ResultFacts!Save(h) PROVE [Lifecycle!Next]_(Lifecycle!vars)
  BY <1>1, <1>3, SaveFollows
<1> QED
  BY <1>1, <1>2, <1>3 DEF ResultFacts!Consumer, ResultFacts!Run, ResultFacts!Deliver,
     ResultFacts!FindSkipped, ResultFacts!Find, ResultFacts!CallFails, ResultFacts!Settle,
     ResultFacts!Crash, ResultFacts!ConnectionLost

LEMMA OneMoreMail ==
  ASSUME NEW sent, NEW mail
  PROVE  {m.event.user : m \in sent \cup {mail}} = {m.event.user : m \in sent} \cup {mail.event.user}
  OBVIOUS

LEMMA SendFollows ==
  ASSUME PipelineInv, SendMails
  PROVE  [Lifecycle!Next]_(Lifecycle!vars)
<1>1. UNCHANGED <<users, commands, accounts>> /\ MailFacts!Consumer
  BY SameMailConsumer DEF SendMails, vars, store, resultVars
<1>2. CASE mails' = mails
  BY <1>1, <1>2, LifecycleVars
<1>3. ASSUME NEW h \in MailHandler, MailFacts!At(h, "mail"),
             mails' = mails \cup {MailFacts!MailOf(h)}
      PROVE  [Lifecycle!Next]_(Lifecycle!vars)
  <2>1. mailHandlers[h].event \in credentials
    BY <1>3, QueuesHold
    DEF PipelineInv, MailFacts!TypeInv, MailFacts!BusyOK, MailFacts!At
  <2>2. PICK u \in User : u = mailHandlers[h].event.user /\ u \in accounts
    BY <2>1 DEF PipelineInv, TypeInv, TypeOK, CredentialsEvent, AccountInv, CredentialsHaveAccount
  <2>3. {m.event.user : m \in mails}' = {m.event.user : m \in mails} \cup {u}
    <3>1. mails' = mails \cup {MailFacts!MailOf(h)} /\ MailFacts!MailOf(h).event.user = u
      BY <1>3, <2>2 DEF MailFacts!MailOf
    <3> QED
      BY <3>1, OneMoreMail
  <2>4. Lifecycle!Inform(u)
    BY <1>1, <2>2, <2>3, LifecycleVars DEF Lifecycle!Inform
  <2> QED
    BY <2>2, <2>4 DEF Lifecycle!Next
<1>4. \A h \in MailHandler : MailFacts!Run(h) =>
        mails' = mails \/ (MailFacts!At(h, "mail") /\ mails' = mails \cup {MailFacts!MailOf(h)})
  BY MailFacts!RunEffect DEF PipelineInv
<1> QED
  BY <1>1, <1>2, <1>3, <1>4
  DEF MailFacts!Consumer, MailFacts!Deliver, MailFacts!Crash, MailFacts!ConnectionLost

LEMMA PipelineFollows ==
  PipelineInv /\ [PipelineNext]_pipelineVars => [Lifecycle!Next]_(Lifecycle!vars)
<1> SUFFICES ASSUME PipelineInv, [PipelineNext]_pipelineVars
             PROVE  [Lifecycle!Next]_(Lifecycle!vars)
  OBVIOUS
<1>1. CASE UNCHANGED pipelineVars
  BY <1>1, LifecycleVars DEF pipelineVars, vars, store, resultVars, mailVars
<1>2. ASSUME NEW u \in User, CreateUser(u) \/ PublishCommand(u)
      PROVE  Lifecycle!Next
  BY <1>2, CreateFollows, PublishFollows DEF Lifecycle!Next
<1> QED
  BY <1>1, <1>2, RegisterFollows, RecordFollows, SendFollows DEF PipelineNext

\* The services together do what the documents tell of a registration, at
\* whatever points they crash, whichever calls fail and whichever channels are
\* lost: active means that there is an account, mails go to users with an
\* account, and a decided user is not pending again.  While the calls inside the
\* try of registerUser succeed and the auth service keeps its channel, active
\* and failed are final and exclude each other, and failed means that there is
\* no account and will be none.
THEOREM LifecycleImplemented == PipelineSpec => ImplementsLifecycle
<1>1. PipelineInit => Lifecycle!Init
  BY DEF PipelineInit, Init, Result!Init, Result!Blank, Mail!Init, Lifecycle!Init
<1> QED
  BY <1>1, PipelineInvariant, PipelineFollows, PTL
  DEF PipelineSpec, ImplementsLifecycle, Lifecycle!Spec

-------------------------------------------------------------------------------
(* What follows for the services together.                                 *)

\* The two instances of the lifecycle and of its proofs are the same.
LEMMA SameLifecycle ==
  /\ Lifecycle!Init => LifecycleFacts!Init
  /\ [Lifecycle!Next]_(Lifecycle!vars) => [LifecycleFacts!Next]_(LifecycleFacts!vars)
  BY DEF Lifecycle!Init, Lifecycle!Next, Lifecycle!vars, Lifecycle!Create, Lifecycle!Request,
     Lifecycle!Register, Lifecycle!Inform, Lifecycle!Activate, Lifecycle!Fail, Lifecycle!Open,
     LifecycleFacts!Init, LifecycleFacts!Next, LifecycleFacts!vars, LifecycleFacts!Create,
     LifecycleFacts!Request, LifecycleFacts!Register, LifecycleFacts!Inform,
     LifecycleFacts!Activate, LifecycleFacts!Fail, LifecycleFacts!Open

LEMMA LifecycleHolds == PipelineSpec => LifecycleFacts!Spec
  BY SameLifecycle, LifecycleImplemented, PTL
  DEF ImplementsLifecycle, Lifecycle!Spec, LifecycleFacts!Spec

\* What user management says of a user is true of the auth service: active
\* users have an account, and failed ones have none while registering fails
\* for reasons in the data alone.
THEOREM StatusTrue == PipelineSpec => []Lifecycle!StatusTellsAccount
<1>1. LifecycleFacts!Spec => []LifecycleFacts!StatusTellsAccount
  BY LifecycleFacts!StatusSafe
<1>2. LifecycleFacts!StatusTellsAccount => Lifecycle!StatusTellsAccount
  BY DEF Lifecycle!StatusTellsAccount, LifecycleFacts!StatusTellsAccount
<1> QED
  BY <1>1, <1>2, LifecycleHolds, PTL

\* Credentials are mailed only to users of whom user management knows and who
\* have an account, and under the same condition never to one who failed.
THEOREM MailedTrue == PipelineSpec => []Lifecycle!MailedHaveAccount
<1>1. LifecycleFacts!Spec => []LifecycleFacts!MailedHaveAccount
  BY LifecycleFacts!MailedSafe
<1>2. LifecycleFacts!MailedHaveAccount => Lifecycle!MailedHaveAccount
  BY DEF Lifecycle!MailedHaveAccount, LifecycleFacts!MailedHaveAccount
<1> QED
  BY <1>1, <1>2, LifecycleHolds, PTL

\* No report that reaches user management makes a decided user pending again, and
\* under the same condition none changes the decision.
THEOREM DecisionTrue == PipelineSpec => Lifecycle!DecisionStands
<1>1. LifecycleFacts!Spec => LifecycleFacts!DecisionStands
  BY LifecycleFacts!DecisionSafe
<1>2. LifecycleFacts!DecisionStands => Lifecycle!DecisionStands
  BY DEF Lifecycle!DecisionStands, LifecycleFacts!DecisionStands, Lifecycle!vars, LifecycleFacts!vars
<1> QED
  BY <1>1, <1>2, LifecycleHolds

\* The state diagram of authStatus (DOCUMENTATION.md:377-408), in which active
\* is final, is true of the services while the calls inside the try of
\* registerUser succeed and the auth service keeps its channel: of AuthResult
\* alone, for which any report may come, it is not.
THEOREM ActiveIsFinalWhen == OnlyInterrupted /\ PipelineSpec => Result!ActiveIsFinal
<1>1. OnlyInterrupted => OnlyInterrupted'
  BY DEF OnlyInterrupted, TryCalls
<1>2. OnlyInterrupted /\ [Lifecycle!Next]_(Lifecycle!vars) =>
        \A u \in User : users[u].authStatus = "active" => users'[u].authStatus = "active"
  <2> DEFINE status == [v \in User |-> users[v].authStatus]
  <2>1. \A u \in User : status[u] = users[u].authStatus /\ status'[u] = users'[u].authStatus
    OBVIOUS
  <2>2. OnlyInterrupted /\ [Lifecycle!Next]_(Lifecycle!vars) =>
          \/ status' = status
          \/ \E v \in User : status[v] # "active" /\ \E new : status' = [status EXCEPT ![v] = new]
    BY DEF Lifecycle!Next, Lifecycle!vars, Lifecycle!Create, Lifecycle!Request,
       Lifecycle!Register, Lifecycle!Inform, Lifecycle!Activate, Lifecycle!Fail, Lifecycle!Open
  <2> QED
    BY <2>1, <2>2
<1>3. OnlyInterrupted /\ [Lifecycle!Next]_(Lifecycle!vars) =>
        [\A u \in User : users[u].authStatus = "active" => users'[u].authStatus = "active"]_(Result!vars)
  BY <1>2
<1> QED
  BY <1>1, <1>3, LifecycleImplemented, PTL
  DEF ImplementsLifecycle, Lifecycle!Spec, Result!ActiveIsFinal

\* From the answer of the auth service to the document: what the theorems about
\* the two consumers say of their own queues, put together.
THEOREM PendingSafe == PipelineSpec => []PendingIsExplained
<1>1. ResultFacts!Spec => []ResultFacts!SettledIsRecorded
  BY ResultFacts!RecordSafe
<1>2. TypeInv /\ SettledIsAnswered /\ ResultFacts!SettledIsRecorded => PendingIsExplained
  <2> SUFFICES ASSUME TypeInv, SettledIsAnswered, ResultFacts!SettledIsRecorded,
                      Fallible \cap {"findAccount", "publishRejected", "publishDuplicate",
                                     "publishFailed"} = {},
                      NEW u \in settled, users[u].authStatus = "pending"
               PROVE  \E r \in ResultQueue : r.user = u /\ r \notin resultSettled \ resultDropped
    BY DEF PendingIsExplained
  <2>1. u \in User /\ \E r \in results : r.user = u
    BY DEF TypeInv, TypeOK, SettledIsAnswered, Answered
  <2>2. PICK r \in ResultQueue : r.user = u
    BY <2>1, QueuesHold
  <2>3. r \notin resultSettled \ resultDropped
    BY <2>2 DEF ResultFacts!SettledIsRecorded
  <2> QED
    BY <2>2, <2>3
<1> QED
  BY <1>1, <1>2, AuthImplemented, TypeInvariant, SettledSafe, ResultImplemented, PTL

-------------------------------------------------------------------------------
(* The mails of a user.                                                    *)

\* All the mails of a user carry the same password, however often a command is
\* redelivered to the auth service or an event to notification.
OnePasswordMailed ==
  \A m, n \in mails : m.event.user = n.event.user => m.event.password = n.event.password

\* The password in a mail opens the directory entry of its user, unless the
\* auth service was interrupted.
MailedPasswordOpens ==
  crashes + connectionLosses = 0 => \A m \in mails : ldap[m.event.user] = m.event.password

\* An active user has been issued credentials, and these are on their way, or
\* were mailed, or their mail is in the log as failed, unless the auth service
\* was interrupted (or the log itself fails).
ActiveIsWelcomed ==
  crashes + connectionLosses = 0 /\ "log" \notin MailFallible =>
    \A u \in User : users[u].authStatus = "active" =>
      \E c \in credentials : c.user = u /\
        \/ c \notin mailSettled
        \/ \E m \in mails : m.event = c
        \/ \E l \in mailLog : l.event = c /\ l.outcome = "FAILED"

\* What is mailed was issued by the auth service.
LEMMA MailsWereIssued ==
  ASSUME MailFacts!TypeInv
  PROVE  \A m \in mails : m.event \in credentials
  BY QueuesHold DEF MailFacts!TypeInv, MailFacts!PastOK

\* The mails of a user are mails of the one event that the auth service issues.
THEOREM OnePasswordSafe == PipelineSpec => []OnePasswordMailed
<1>1. MailFacts!Spec => []MailFacts!TypeInv
  BY MailFacts!TypeInvariant
<1>2. CredentialsIssuedOnce /\ MailFacts!TypeInv => OnePasswordMailed
  BY MailsWereIssued DEF CredentialsIssuedOnce, OnePasswordMailed
<1> QED
  BY <1>1, <1>2, AuthImplemented, IssuedOnceSafe, MailImplemented, PTL

\* The password: from the directory by way of the event to the mail.
THEOREM MailedPasswordSafe == PipelineSpec => []MailedPasswordOpens
<1>1. WrongPasswordNeedsRedelivery /\ TypeInv /\ MailFacts!TypeInv => MailedPasswordOpens
  BY MailsWereIssued DEF WrongPasswordNeedsRedelivery, MailedPasswordOpens, TypeInv, TypeOK
<1>2. MailFacts!Spec => []MailFacts!TypeInv
  BY MailFacts!TypeInvariant
<1> QED
  BY <1>1, <1>2, AuthImplemented, TypeInvariant, PasswordSafe, MailImplemented, PTL

\* From the status in user management back to the auth service and on to the
\* mail: each of the three services does its part.
THEOREM WelcomeSafe == PipelineSpec => []ActiveIsWelcomed
<1>1. /\ PipelineInv /\ SettledHasTrace
      /\ crashes + connectionLosses = 0 => SuccessBringsCredentials
      => ActiveIsWelcomed
  <2> SUFFICES ASSUME PipelineInv, SettledHasTrace, SuccessBringsCredentials,
                      "log" \notin MailFallible, NEW u \in User, users[u].authStatus = "active"
               PROVE  \E c \in credentials : c.user = u /\
                        \/ c \notin mailSettled
                        \/ \E m \in mails : m.event = c
                        \/ \E l \in mailLog : l.event = c /\ l.outcome = "FAILED"
    BY DEF ActiveIsWelcomed
  <2>1. Answered(u, "SUCCESS")
    BY QueuesHold
    DEF PipelineInv, ResultFacts!CauseInv, ResultFacts!DocumentCause, ResultFacts!Succeeds, Answered
  <2>2. PICK c \in credentials : c.user = u
    BY <2>1 DEF SuccessBringsCredentials
  <2>3. c \in CredentialsEvent
    BY <2>2 DEF PipelineInv, TypeInv, TypeOK
  <2>4. c \in mailSettled =>
          (\E m \in mails : m.event = c) \/ \E l \in mailLog : l.event = c /\ l.outcome = "FAILED"
    BY <2>3 DEF SettledHasTrace, Mail!SettledHasTrace, Mail!MailsOf
  <2> QED
    BY <2>2, <2>4
<1> QED
  BY <1>1, AuthImplemented, SuccessBringsSafe, PipelineInvariant, TraceSafe, PTL
===============================================================================
