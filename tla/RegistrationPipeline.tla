-------------------------- MODULE RegistrationPipeline --------------------------
(***************************************************************************)
(* The registration of users end to end: user management creates a pending *)
(* user and publishes the command, the auth service (AuthRegistration)     *)
(* registers the user and publishes two kinds of event, user management    *)
(* (AuthResult) records the outcome, and the notification service          *)
(* (Notification) mails the credentials.                                   *)
(*                                                                         *)
(* The services share nothing but the queues: a queue of a consumer holds  *)
(* what was published with a routing key that its binding matches.  A step *)
(* of the composition is a step of one service.                            *)
(***************************************************************************)
EXTENDS AuthRegistration, Sequences

CONSTANTS
  ResultHandler, ResultFallible, MaxResultCrashes, MaxResultConnectionLosses,
  MailHandler, MailFallible, MaxMailCrashes, MaxMailConnectionLosses

ASSUME PipelineAssumption ==
  /\ None \notin CredentialsEvent
  /\ ResultFallible \subseteq {"find", "save"} /\ MailFallible \subseteq {"mail", "log"}
  /\ {MaxResultCrashes, MaxResultConnectionLosses} \subseteq Nat
  /\ {MaxMailCrashes, MaxMailConnectionLosses} \subseteq Nat

VARIABLES
  users, resultSettled, resultDropped, resultHandlers,
  resultCrashes, resultConnectionLosses,
  mailSettled, mailHandlers, mailDeliveries, mails, mailLog,
  mailCrashes, mailConnectionLosses

resultVars ==
  <<users, resultSettled, resultDropped, resultHandlers, resultCrashes, resultConnectionLosses>>
mailVars ==
  <<mailSettled, mailHandlers, mailDeliveries, mails, mailLog, mailCrashes, mailConnectionLosses>>
pipelineVars == <<vars, resultVars, mailVars>>

\* Mutation of StatusKey: the key of an outcome lacks the consumer's name.
StatusKeyShort(status) ==
  IF status = "SUCCESS" THEN <<"auth", "succeeded">> ELSE <<"auth", "failed">>

\* The routing keys of the events on auth.events, word by word, and the
\* binding keys of the two queues there.
StatusKey(status) ==
  <<"auth", "user-mgmt", IF status = "SUCCESS" THEN "succeeded" ELSE "failed">>
CredentialsKey == <<"auth", "notification", "succeeded">>

ResultBinding == <<"auth", "user-mgmt", "*">>
MailBinding == <<"auth", "notification", "succeeded">>

\* A topic exchange: a * in the binding stands for any one word.
Matches(binding, key) ==
  Len(binding) = Len(key) /\ \A i \in DOMAIN key : binding[i] \in {"*", key[i]}

ResultQueue == {r \in results : Matches(ResultBinding, StatusKey(r.status))}
MailQueue == {c \in credentials : Matches(MailBinding, CredentialsKey)}

\* PUT /users/:id is left out here: it never touches what the services share.
Result == INSTANCE AuthResult WITH
  results <- ResultQueue, settled <- resultSettled, dropped <- resultDropped,
  handlers <- resultHandlers, updates <- 0,
  crashes <- resultCrashes, connectionLosses <- resultConnectionLosses,
  Strangers <- {}, Profile <- {None}, Handler <- ResultHandler, Fallible <- ResultFallible,
  Delivery <- Nat \ {0}, MaxUpdates <- 0, MaxCrashes <- MaxResultCrashes,
  MaxConnectionLosses <- MaxResultConnectionLosses, NoEvent <- None

\* Every credentials event that the auth service publishes says SUCCESS.
Mail == INSTANCE Notification WITH
  published <- MailQueue, settled <- mailSettled, handlers <- mailHandlers,
  deliveries <- mailDeliveries, log <- mailLog,
  crashes <- mailCrashes, connectionLosses <- mailConnectionLosses,
  Event <- CredentialsEvent, Successful <- CredentialsEvent, Handler <- MailHandler,
  Fallible <- MailFallible, MaxCrashes <- MaxMailCrashes,
  MaxConnectionLosses <- MaxMailConnectionLosses, NoEvent <- None

-------------------------------------------------------------------------------
PipelineInit == Init /\ Result!Init /\ Mail!Init

\* createPendingUser: the document, then the command.
CreateUser(u) ==
  /\ UNCHANGED <<vars, mailVars>>
  /\ Result!CreateUser(u, None)

PublishCommand(u) ==
  /\ users[u].authStatus # "none"
  /\ Request(u)
  /\ UNCHANGED <<resultVars, mailVars>>

RegisterUsers == Service /\ UNCHANGED <<resultVars, mailVars>>
RecordResults == UNCHANGED <<vars, mailVars>> /\ Result!Consumer
SendMails     == UNCHANGED <<vars, resultVars>> /\ Mail!Consumer

PipelineNext ==
  \/ \E u \in User : CreateUser(u) \/ PublishCommand(u)
  \/ RegisterUsers \/ RecordResults \/ SendMails

PipelineSpec == PipelineInit /\ [][PipelineNext]_pipelineVars

\* The fairness of the three services.
RunResult(h) == UNCHANGED <<vars, mailVars>> /\ Result!Run(h)
DeliverResult ==
  UNCHANGED <<vars, mailVars>> /\ \E h \in ResultHandler, e \in ResultQueue : Result!Deliver(h, e)
RunMail(h) == UNCHANGED <<vars, resultVars>> /\ Mail!Run(h)
DeliverMail ==
  UNCHANGED <<vars, resultVars>> /\ \E h \in MailHandler, e \in MailQueue : Mail!Deliver(h, e)

PipelineFairSpec ==
  /\ PipelineSpec
  /\ Fairness
  /\ \A h \in ResultHandler : WF_pipelineVars(RunResult(h))
  /\ WF_pipelineVars(DeliverResult)
  /\ \A h \in MailHandler : WF_pipelineVars(RunMail(h))
  /\ WF_pipelineVars(DeliverMail)

-------------------------------------------------------------------------------
(* Properties.                                                             *)

\* The calls inside the try of registerUser do not fail and the auth service
\* keeps its channel: what is left are crashes of the three services, lost
\* channels of the other two, and failing calls elsewhere.
OnlyInterrupted == Fallible \cap TryCalls = {} /\ MaxConnectionLosses = 0

\* What a reader of the documents sees of the pipeline.
Lifecycle == INSTANCE RegistrationLifecycle WITH
  Reliable <- OnlyInterrupted,
  authStatus <- [u \in User |-> users[u].authStatus],
  requested <- commands, registered <- accounts,
  informed <- {m.event.user : m \in mails}

\* The services together keep what the documents say of a registration, at
\* whatever points they went down: active means that there is an account, mails
\* go to users with an account, and nobody who was decided upon is pending
\* again.  While they are only interrupted, the decision is taken once and for
\* all and failed means that there never will be an account.
ImplementsLifecycle == Lifecycle!Spec

\* And whoever the auth service was asked to register is decided upon: first
\* by it and then, if there is an account, by user management too.
DecidesEveryRegistration == Lifecycle!Fairness

\* A user whose command left the queue is pending only while the answer is on
\* its way to user management, or if recording it threw there: no crash, lost
\* channel or interleaving of the services loses the answer in between (where
\* the calls that SettledIsAnswered names do not fail).
PendingIsExplained ==
  Fallible \cap {"findAccount", "publishRejected", "publishDuplicate", "publishFailed"} = {} =>
    \A u \in settled : users[u].authStatus = "pending" =>
      \E r \in ResultQueue : r.user = u /\ r \notin resultSettled \ resultDropped

\* Notification leaves nobody without a password and without a trace, also of
\* the credentials that the auth service really issues: with its failures and
\* the mail server's at once (Notification states the property).
SettledHasTrace == Mail!SettledHasTrace
===============================================================================
