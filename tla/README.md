# TLA+ models of the registration pipeline

This directory holds the specifications kept beside the `uom-mis-backend`
services: TLA+ modules translated from the TypeScript in `src/`, TLC
configurations that check them on small instances, and TLAPS proofs for every
instance. `PROJECT.json` lists the components, the runs, the mutants that show
that each property can fail, the source lines of every definition, the hazards
of the code and the theorems.

## The system

Three NestJS services register a person and talk over RabbitMQ.

```
 admin --HTTP--> user-management --user.register--> auth --auth.notification.succeeded--> notification --SMTP--> user
                       ^                              |
                       +------ auth.user-mgmt.* ------+
```

| Part | State it keeps | Operations | Interacts with |
|---|---|---|---|
| user-management, registration (`users/`, `messaging/user-registration.publisher.ts`) | collection `users`, unique indexes on `userId`, `nic`, `username`, `primaryEmail`, `registrationNo` | `POST /users/students`, `POST /users/staff`, `PUT /users/:id` | publishes `user.register` |
| user-management, bulk upload (`bulk-upload/`) | collection of batches; local tallies of an upload | `POST /users/bulk-upload` | calls the same `createPendingUser` once per row |
| user-management, Excel parser (`bulk-upload/parsers/`) | local rows, errors and counts of one file | `parse` | called once per upload, before any user is created |
| user-management, queries (`users.service.ts`, `bulk-upload.service.ts`) | none of their own; several reads per answer | `GET /users`, `GET /bulk-uploads/:batchId` | read what registration, uploads and results write |
| user-management, results (`messaging/auth-result.consumer.ts`) | `authStatus`, `failureReason` of a user | consumes `auth.user-mgmt.*` | read-then-save on the document that `PUT` also writes |
| auth (`auth-registration/`, `ldap/`, `permissions/`, `audit/`, `events/`) | LDAP entries, `AuthAccount` documents (unique `userId`, `email`), audit records | consumes `user.register` | publishes a status to user-management and credentials to notification |
| notification (`notification.service.ts`, `mail/`, `notification-log/`) | append-only log of attempts | consumes `auth.notification.succeeded` | SMTP |
| guards, filters, interceptors, configuration, health | none | one decision or format per request | - |
| api-gateway, scripts | none | start-up, manual drivers | - |

What is hard about it:

* **Nothing is transactional.** A command touches LDAP, two collections and two
  queues, one awaited call after the other; any call may fail, or take effect
  and reject all the same, and the process may stop between any two.
* **At-least-once delivery.** A message whose handler lost its channel, or died,
  is delivered again, possibly while the first handler is still running. No
  queue is consumed with a prefetch of one, so handlers of different (and then
  of equal) messages interleave at every `await`.
* **Errors drop messages.** Every consumer says
  `MessageHandlerErrorBehavior.NACK`, which does not requeue, and no dead letter
  exchange is declared: a handler that throws loses its message for good.
* **Read, then write.** `findOne`-then-`create` in auth, `search`-then-`add` in
  LDAP, `findOne`-then-`save` in user-management.
* **Best effort logs.** The audit log and the notification log swallow their own
  errors, inside the `try` of the operation they record.

What makes each part correct:

* auth: an answer is never lost; SUCCESS and credentials imply an account and an
  entry; one password per user; no contradictory answers; the password mailed is
  the one in the directory (except after an interruption); a crash alone is not
  a failure; of handlers that race for a command one gets through.
* results: a status has a cause in an event, an event is recorded before it
  leaves the queue, admin updates survive, agreeing reports are final.
* notification: SENT means sent, one outcome per attempt, the mails of a
  message repeat through interruptions only, a lost password leaves a trace.
* registration and uploads: a command has a document, one command per `nic`,
  reports are exact, no orphan is hidden, every request ends.
* the parser: no row of a sheet is lost, counted twice or renumbered, and a file
  is refused exactly if it has a fault.
* queries: an answer put together from several reads may be relied on, although
  documents come and change between the reads.
* all of them together: what user management says of a registration is true of
  the auth service, and every registration is decided.

## Modules

Each action is the effect of **one awaited call and the synchronous code after
it up to the next `await`**: Node runs that without interruption, and other
handlers run in between. `handlers[h].pc` names the call a handler awaits.

| Module | Models | Correspondence |
|---|---|---|
| `AuthRegistration` | the auth consumer with LDAP, accounts, audit, publisher | `Deliver`: the controller validates (`Invalid` is the DTO); `FindDuplicate`/`FindNone` ... `AuditSuccess`: `registerUser` call by call; `OnError`: which `catch` an error reaches; `Settle`: ack or nack |
| `AuthResult` | the consumer of status events, with `PUT /users/:id` beside it | `FindSkipped`/`Find`, `Save`: `finalizeAfterAuthentication` and `recordAuthenticationFailure`; `Saved` is what Mongoose's `save()` sends: the fields that differ from what was read |
| `Notification` | `sendWelcomeEmail`, its consumer and its log | `SendMail`, `SendMailFails`, `RecordSent`, `RecordFailed`, `RecordFails`, `Settle` |
| `UserRegistration` | the two forms, `processUpload`, `createPendingUser`, updates of an address | one `jobs[j]` per HTTP request; `Insert` is the atomic index check and insert of MongoDB; `RowDone`/`RowFails` the loop of `processUpload` |
| `ExcelParser` | `ExcelParserService.parse` | `LoadThrows`, `LoadNothing`, `Load`: `loadWorksheet` and `matchHeaders`; `SkipRow`, `ParseRow`: one turn of the loop, `Errors` and `Parsed` being `parseRow`; `Return` |
| `UserQueries` | `getBatchStatus` and `list` beside `UserRegistration`, which it extends | `ReadBatch`, `ReadCounts`: the two reads of a status; `StartWalk`, `ListPage`: a client that asks for page after page, `Pages` being sort, skip and limit; `RecordResult`: a status changes, and the user may leave the list that is walked |
| `RegistrationPipeline` | the composition: `AuthRegistration`, `AuthResult` and `Notification` over two queues of `auth.events` | `Result` and `Mail` are instances whose queues are what the auth service published under a routing key that the binding `Matches`; a step is a step of one service |
| `RegistrationLifecycle` | the abstract specification: the life of a registration as `DOCUMENTATION.md` tells it | `Create`, `Request`, `Register`, `Inform`, `Activate`, `Fail`; no services, deliveries or crashes. `Reliable` tells two promises apart: with it a decision is final and failed users have no account, without it a later report may replace an earlier one |
| `AtLeastOnceQueue` | the abstract queue that each consumer is proved to implement | `Publish`, `Deliver`, `Settle`, `GiveBack`; no handlers |
| `MC*` | constants for TLC | - |
| `*Proofs` | theorems about the module they extend | - |

`UserRegistration` and `RegistrationPipeline` meet in `createPendingUser`: the
first has its indexes, rows and failures, the second keeps of it that the
document is stored before the command is published. `ExcelParser` hands
`UserRegistration` its verdict: `ErrorsOf` is the number of errors of a file,
`RowsOf` its rows. `UserQueries` has the recording of results in short
(`RecordResult`: nobody who was decided upon is pending again), which
`SettledIsRecorded` and its proof establish of `AuthResult` in full.

Data is abstracted to what decides: a command is five fields that are present or
not, a password is the number of the delivery that drew it, a `failureReason` is
the number of the delivery whose event carried it, a document is its
indexed fields, a cell of a sheet is absent, blank, well-formed, malformed, or
has the format of a date and is none.
Password hashing, mail text, logging and the fields that are only
copied are left out.

### The environment

The broker is external, modelled from how the consumers use it. A message is
*settled* once acked or nacked, *ready* when it is neither settled nor owned by
a handler. `Crash` empties every handler; `ConnectionLost` takes ownership away
and leaves the handlers running, whose acks then have no effect. Publishing is
confirmed: `amqp-connection-manager` keeps an unconfirmed message and sends it
again after a reconnection, so a rejected publish stands for a message that did
not get out. The second copy of a message whose confirm got lost is not modelled
(see below). Database, LDAP and SMTP calls may fail without
effect, or take effect and fail. The unbind of LDAP in the `finally` that runs
after a call that failed is not a step of its own: its error replaces one that
leads to the same place.

`Fallible` says which calls may fail in an instance, so that "whatever fails" and
"when this does not fail" are separate statements.

## Runs

Every run allows the system to stop (`CHECK_DEADLOCK FALSE`): requests, commands
and interruptions are bounded and need not happen, a parser is done with its
file, a client with its question. The bounds are `MaxCrashes`,
`MaxConnectionLosses`, `MaxUpdates` (their namesakes per service in the
pipeline), `Delivery` (the deliveries whose events `AuthResult` knows), `MaxPage`
(pages of a walk), `MaxLeavers` (users whom a decision takes off a list that is
walked), and the sets of commands, requests, files and times.

| Run | Instance | Checks |
|---|---|---|
| `AuthFaults` | 1 student, 2 handlers, every call may fail, 1 crash, 1 channel loss | `TypeOK`, `CredentialsHaveAccount`, `CredentialsIssuedOnce`, `NoContradictoryAnswer`, `WrongPasswordNeedsRedelivery`, `EveryCommandSettled` |
| `AuthRecovery` | a student and a staff member (invalid command), 2 handlers, the publishes of credentials and of a success may fail, 1 crash, 1 channel loss | `SettledIsAnswered`, `RaceHasWinner`, `EveryCommandAnswered` |
| `AuthResultFaults` | a user and a stranger, 2 events in any order, 1 update, 2 handlers, any call may fail, 1 crash, 1 channel loss | `TypeOK`, `StatusHasCause`, `SettledIsRecorded`, `UpdateNotLost`, `AgreedStatusIsFinal`, `EventuallyDecided` |
| `NotificationFaults` | an event that asks for a mail and one that does not, 2 handlers, SMTP and log fail, 1 crash, 1 channel loss | `TypeOK`, `SentWasMailed`, `OneOutcomePerAttempt`, `RepeatsNeedInterruption`, `EveryEventSettled` |
| `RegistrationFaults` | a form and three files (one malformed) with overlapping people, any call may fail, 1 update of an address, 1 crash | `TypeOK`, `CommandsHaveDocuments`, `NicCommandedOnce`, `BatchReportsExactly`, `NoSilentOrphan`, `EveryRequestEnds` |
| `Pipeline` | the three services, 2 users with one address, 1 handler each, 1 crash of auth and 1 of user management, mails and the audit of a success may fail | `ImplementsLifecycle`, `DecidesEveryRegistration`, `SuccessHasAccount`, `FailureHasCause`, `PendingIsExplained`, `SettledHasTrace` |
| `ExcelParsing` | unreadable and empty files; sheets of up to 3 rows of 7 kinds below 3 headers (complete, one column twice, one missing), with 3 forms (complete, no degree, no degree and a date that is none) | `TypeOK`, `RowsAccountedFor`, `RowsKeepTheirNumber`, `VerdictFitsFile`, `ParsedRowsFitSchema` |
| `UserQueries` | a form and a file of 2 rows, 3 times, pages of 1, lists of everybody and of the pending and the failed of the file, at most 2 who leave a list, publishes may fail, 1 crash | `QueryTypeOK`, `AnsweredIsSettled`, `MissesNeedLeavers` |

Why the bounds are enough for the questions asked: two handlers are what a race
between two deliveries of one message takes, and one channel loss is what makes
such a pair; in `AuthRecovery` the loser of that race reports FAILED of a user who
has, or is about to have, an account, which `RaceHasWinner` follows. Only two calls
fail in that run; with every call failing, `AuthFaults` has each command settled,
and `SettledSafe` proves that a settled command is answered for every choice of
calls but the four that `SettledIsAnswered` names; one crash interrupts a handler at any step; two users with one
address are what the unique index on `email` is about; two events of one user
give every order of SUCCESS and FAILED, equal pairs included; the rows of the
files contain every kind of clash (nic, username, address), an incomplete and a
malformed row. In `Pipeline`, races inside a service are those of its own run,
so one handler each will do; a crash on either side of the queue gives a command
and an event a second delivery, and the second user has an address that is
taken. Three rows put each kind of row before, between and after others, and
the seven kinds have each problem of a cell. Pages of one user make every user a
border of a page (two pending users of the file are enough for one to be missed when
the other is decided upon), three users are enough for one to come in while another is
shown and a third waits, and four pages end a walk over three. The theorems do
not depend on the bounds. No run uses symmetry.

### The composition and what it implements

`ImplementsLifecycle` maps a state of the pipeline to the lifecycle:
`authStatus` of the documents, the commands sent, the accounts, and the users of
the mails. It is stated for every instance. What an instance may promise depends
on one condition, which the mapping hands to the lifecycle (`Reliable <-
OnlyInterrupted`): no call inside the `try` of `registerUser` fails and the auth
service keeps its channel. Without it a user still goes from pending to a decision
and never back, active still means that there is an account, and mails still go to
users with an account only. With it the decision is final, failed users have no
account and get no mail. Both halves of the condition are needed. If the status of
a success cannot be published, the `catch` reports FAILED of a user who has an
account (`VFailedNeverReachesNotification` shows the events); and a second handler
of the same command, which a lost channel starts, finds the entry or the account
that the first has just made and reports FAILED as well. Crashes of auth, crashes
and channel losses of the other two, failing audits, failing mails and failing
database calls of the result consumer may happen at any point either way.
`Pipeline.cfg` satisfies the condition, so the run checks the stronger promise;
the theorem covers both.

`PendingIsExplained` follows an answer through two services: a command that was
settled while its user is still pending has its answer in the queue of results, or
the consumer of results dropped it on an error. No crash and no lost channel
anywhere loses the answer in between.

The document and the command of a user come from `UserRegistration`, with its
requests, rows and failures. That it does no more than the lifecycle's `Create`
and `Request`, in this order, is a theorem about that module (`LifecycleKept`).

`MissesNeedLeavers` bounds what a client that reads a list page by page may miss.
A list of everybody only grows while it is read. A list of one `authStatus` also
loses users to the consumer of results, and each who leaves may cost the client one
of those behind: with `authStatus=pending`, a user who is pending throughout can be
on no page. The run reaches such walks (a page of one, two pending users, the first
of whom is decided upon after he was shown); the property says that it takes one
who leaves for each who is missed.

`DecidesEveryRegistration` is the fairness of the lifecycle as a property of the
pipeline: whoever was commanded is registered or failed, and whoever is
registered becomes active. It needs database calls of the result consumer not to
fail (a nack drops the event), and it is where the routing keys matter: a key
that matches no binding loses the event.

### Fairness

`FairSpec` adds weak fairness of each handler (`Run(h)`: an awaited call returns
or rejects, and the event loop resumes its handler, which the drivers' timeouts
justify) and of delivery of ready messages (the broker delivers while a consumer
is free). Nothing is assumed of requests, crashes, channel losses, updates, nor of
which way a call ends: a call may fail each time. In `AuthRegistration` delivery
is fair per command (queues are FIFO, and a command that is delivered is settled
unless it is interrupted, so it cannot be overtaken for ever), elsewhere per
queue. `PipelineFairSpec` is the same for the three services together, and no
fairness for those who create users. `UserQueries` and `ExcelParser` state no
liveness: a client need not go on asking, and the parser's loop is bounded by
the sheet.

### Mutants

For each property `PROJECT.json` names a definition and a mutated form beside it
("Mutation of ..."): a plausible bug, such as a dropped index, a `noAck`
consumer, a swallowed error, an early publish. With it TLC finds the property
violated in the same run.

### What the documents say and the code does not do

Four runs find a counterexample to a sentence of the repository:

| Run | Statement | What the code does |
|---|---|---|
| `VEmptyUserNameAccepted` | `user-registration-requested.dto.ts:20-23`: `userName` is not empty-validated | `@IsNotEmpty` on it: every staff registration is rejected |
| `VFailedNeverReachesNotification` | `docs/rabbitmq_naming.md:111-112`: a failed registration never reaches Notification | credentials are published before the status; if the status cannot be published the `catch` reports FAILED |
| `VSuccessBringsCredentials` | `DOCUMENTATION.md:261`: success publishes credentials | after a crash between account and credentials the redelivered command takes the duplicate path, which publishes SUCCESS only |
| `VActiveIsFinal` | `DOCUMENTATION.md:143` and the state diagram | a FAILED that comes after a SUCCESS makes an active user failed |

Not a run, as it shows in one reading: `registerStudent` and `registerStaff`
(`users.controller.ts:59`, `:85`) return MongoDB's `_id` under the name `userId`,
while everything outside refers to a user by the field `userId`
(`user.schema.ts:45-47`).

Nor are the differences between the parser and the schema of the users, of which
`apps/user-management/README.md:164-170` names two: a date of birth is required
by the schema only, a permanent address by the parser only. `ParsedRowsFitSchema`
says which there are of the kind that refuses a row after the file was accepted:
the date of birth, absent or of the right format and no date (`2003-13-40`), and,
for every row of an upload at once, a degree that the form left out
(`bulk-upload.service.ts:140`) or a registration date that is none.

## Proofs

Checked by TLAPS for every set of users, commands, events, requests, files and
handlers, every choice of calls that may fail, and any number of interruptions.
The assumptions are the `ASSUME`s of the modules, which say what the constants
are (a command per user, rows per file, bounds that are naturals, failing calls
that are calls) and nothing about behaviour.

A property is seldom inductive, because what holds of the stores depends on the
step each handler is at. Every proof therefore strengthens it with one conjunct
per group of steps, shows that the strengthening holds initially and is
preserved by every action (one case per action), and reads the property off it.

**`AuthRegistrationProofs`**

| Theorem | Property | Strengthening, and why it is needed |
|---|---|---|
| `TypeCorrect` | `TypeOK` | `BusyOK`: a busy handler has a user and a delivery that was made, or the records it writes would be ill-formed |
| `CredentialsSafe`, `SuccessSafe` | `CredentialsHaveAccount`, `SuccessHasAccount` | `StoresOrdered`: from `ldapUnbind` on there is an entry, after `createAccount` or a successful `findAccount` there is an account, and accounts have entries |
| `IssuedOnceSafe` | `CredentialsIssuedOnce` | `IssueInv`: the handler about to publish credentials is alone with its user and nobody published before: the unique index let one through |
| `NoContradictionSafe` | `NoContradictoryAnswer` | `AnswerInv`: the answers a delivery has given at each step |
| `SettledSafe` | `SettledIsAnswered` | `SettleInv`: a handler at `settle` has answered; `OnErrorSettles`: where each error leads |
| `PasswordSafe` | `WrongPasswordNeedsRedelivery` | `OwnInv`: without interruption one handler owns a user; `PasswordInv`: the entry it sees is its own |
| `FailureSafe` | `FailureHasCause` | `CauseInv`: a handler at a failing step has a cause, and sees the stores as it left them |
| `RaceSafe` | `RaceHasWinner` | `RaceInv`: an entry whose user the data do not rule out has an account or a handler on the way to it, and a handler that fails without a cause has lost to one that left an entry |
| `FailedNeverReaches` | `FailedNeverReachesNotification`, while the calls inside the `try` succeed and the channel stays up | `RequestedInv`: accounts are those of eligible users with different addresses, so nobody with an account has a cause to fail. The sentence that a run refutes is true under this condition, whatever crashes |
| `SuccessBringsSafe` | `SuccessBringsCredentials`, until the first interruption | `OnceInv`: who has an account is in the hands of the handler that made it, so that none takes the duplicate path. Any call may fail |
| `HandlingSafe` | `HandlingEnds` | `StepsLeft`: each step of a handler, with or without its channel, leaves it with fewer to go, ten at most |
| `CommandMovesSafe` | `CommandMovesOn` | `OwnerInv`: a command has one owner, which is busy, until it is settled. `Left` is what its owner has to go, or eleven if nobody owns it: between two interruptions nothing makes it grow, and each delivery and each step of the owner makes it smaller |
| `QueueImplemented` | `Spec` of `AtLeastOnceQueue` | `OwnerInv`; handlers without a channel run on, but to the queue their steps are stutters |

**`AuthResultProofs`**

| Theorem | Property | Strengthening, and why it is needed |
|---|---|---|
| `TypeCorrect` | `TypeOK` | `BusyOK`: the event in hand was published |
| `CauseSafe` | `StatusHasCause` | `CauseInv`: `DocumentCause` (a reason, once set, names a FAILED event) and `ReadCause` (a handler that read a reason, or a status, read one that still has its evidence): `save()` skips the fields that equal what was read |
| `RecordSafe` | `SettledIsRecorded` | `RecordInv`: a document is there before its events and never becomes pending again, neither in the store nor behind the back of a handler that read it decided |
| `UpdateSafe` | `UpdateNotLost` | `SaveEffect`: what `save()` leaves of each field |
| `AgreedSafe` | `AgreedStatusIsFinal` | `CauseInv` and `SaveEffect` |
| `HandlingSafe`, `QueueImplemented` | `HandlingEnds`, `Spec` of `AtLeastOnceQueue` | as for the auth service: `OwnerInv`, and `StepsLeft` of three steps |

**`NotificationProofs`**

| Theorem | Property | Strengthening, and why it is needed |
|---|---|---|
| `TypeCorrect` | `TypeOK` | `BusyOK`: a busy handler has a published event and a delivery of its own; `PastOK`: mails and log entries come from deliveries that were made |
| `SentSafe` | `SentWasMailed` | `SentInv`: a handler about to log SENT has mailed |
| `OutcomeSafe` | `OneOutcomePerAttempt` | `OutcomeInv`: an attempt that is not over is not in the log, and no other handler can log it, as deliveries are not shared |
| `TraceSafe` | `SettledHasTrace` | `TraceInv`: the same of the handlers at `settle`, which have left a mail or a FAILED entry |
| `HandlingSafe`, `QueueImplemented` | `HandlingEnds`, `Spec` of `AtLeastOnceQueue` | as for the auth service: `OwnerInv`, and `StepsLeft` of three steps |
| `RepeatSafe` | `RepeatsNeedInterruption` | a counting argument: `Attempts(e)` are the deliveries that have mailed `e` or still may; `RepeatInv` bounds their number by the interruptions, plus one once `e` is not ready for delivery any more. Only an interruption makes an event ready again, and a mail is one of `Attempts(e)` |

**`UserRegistrationProofs`**

| Theorem | Property | Strengthening, and why it is needed |
|---|---|---|
| `TypeCorrect` | `TypeOK` | `Progress`: an upload has tallied the rows before the one at hand, and all of them at the end; without it `total - created` need not be a natural |
| `CommandsSafe` | `CommandsHaveDocuments` | `CommandInv`: a request about to publish has its document; updates keep identities |
| `NicSafe` | `NicCommandedOnce` | `NicInv`: one document per `nic`, commanded or not |
| `BatchSafe` | `BatchReportsExactly` | `CountInv`: the tally is the number of commands, and the row at hand has none yet; `BatchInv`: a batch carries what it was created with or what its upload tallied |
| `OrphanSafe` | `NoSilentOrphan` | `OrphanInv`: a document without a command is the one at hand, or its row failed; with `BatchInv` the failed row is in the report |
| `LifecycleKept` | `Spec` of `RegistrationLifecycle` | `CommandInv`: an insert is `Create`, or nothing if the user is known, a publish is `Request`, everything else a stutter |
| `RequestMovesSafe` | `RequestMovesOn` | `Progress`: `Remaining` counts two steps for each row that is left; each step of a request makes it smaller, whichever calls fail |

**`ExcelParserProofs`**

| Theorem | Property | Strengthening, and why it is needed |
|---|---|---|
| `Invariant` | - | `Progress`, the invariant of the loop: `rows` and `rowErrors` are exactly what the rows before `rowNumber` give (`RowsExact`, `ErrorsExact`, `NothingLost`), in order, and `attemptedRowCount` counts them (`CountExact`); `Stage` says how each end of `parse` was reached. The five theorems are read off it |
| `TypeCorrect`, `AccountedSafe`, `NumberSafe`, `VerdictSafe`, `SchemaSafe` | `TypeOK`, `RowsAccountedFor`, `RowsKeepTheirNumber`, `VerdictFitsFile`, `ParsedRowsFitSchema` | `CellTextIsText`: what `CellText` finds by way of `columnIndex` is what stands below the last column with the header; `LastExists`: a set of columns has a last one |

**`RegistrationPipelineProofs`**

| Theorem | Property | Argument |
|---|---|---|
| `AuthImplemented` | `Spec` of `AuthRegistration` | a step of the pipeline is a step of the auth service or leaves it alone, so its theorems hold in the pipeline |
| `MailImplemented`, `ResultImplemented` | `Spec` of `Notification` and `AuthResult` on their queues | the auth service is the environment they expect: `ServicePublishes` (one event at most per step on either queue, and no second status for a delivery), `QueuesHold` (the bindings match the keys), `RequestedInv` (answers are about commands that were sent) and `CreatedInv` (commands are about users who have a document) |
| `TraceSafe` | `SettledHasTrace` | from `MailImplemented` and the theorem about `Notification` |
| `LifecycleImplemented` | `ImplementsLifecycle` | `PipelineInv` joins the invariants of the services; `StatusMeans`: active users have an account, and under `OnlyInterrupted` failed ones have none and none to come, as a FAILED then has its cause in the command or in an address that is taken (`FailedMeans`); then one lemma per service maps its steps: `CreateFollows`, `PublishFollows`, `RegisterFollows`, `RecordFollows`, `SendFollows` |
| `StatusTrue`, `MailedTrue`, `DecisionTrue` | `StatusTellsAccount`, `MailedHaveAccount`, `DecisionStands` of the lifecycle | from `LifecycleImplemented` and the lemmas of `RegistrationLifecycleProofs`, which say the same of the abstract specification, where it holds by the guards of its actions |
| `ActiveIsFinalWhen` | `ActiveIsFinal`, under `OnlyInterrupted` | from `LifecycleImplemented`: the state diagram that `VActiveIsFinal` refutes for arbitrary reports is true of the reports of this auth service |
| `PendingSafe` | `PendingIsExplained` | `SettledIsAnswered` of the auth service and `SettledIsRecorded` of the consumer, joined at the queue |
| `OnePasswordSafe` | `OnePasswordMailed` | `CredentialsIssuedOnce`, and that what is mailed was issued (`MailsWereIssued`) |
| `MailedPasswordSafe` | `MailedPasswordOpens` | `WrongPasswordNeedsRedelivery`, and that the event is what is mailed |
| `WelcomeSafe` | `ActiveIsWelcomed` | a status has a cause (`DocumentCause`), a success brings credentials (`SuccessBringsSafe`), a settled event leaves a trace (`SettledHasTrace`): each service does its part |

**`UserQueriesProofs`**

| Theorem | Property | Strengthening, and why it is needed |
|---|---|---|
| `RegistrationImplemented` | `Spec` of `UserRegistration` | the queries change nothing beneath, so `BatchReportsExactly` and `CommandsHaveDocuments` hold |
| `QueryTypeCorrect` | `QueryTypeOK` | `CountedInv`: the documents are finitely many, or counts would not be numbers |
| `AnsweredSafe` | `AnsweredIsSettled` | `ReadInv`, which holds from the first read on: the users that the batch counts are there, and a batch that accounts for all its rows was read when its upload was over (`AccountedIsOver`), after which no user of it comes (`OverStays`); users stay and never become pending again (`Kept`), so the second read cannot be of less |
| `WalkSafe` | `MissesNeedLeavers` | `WalkInv`: of the users who have not been shown, at most `leavers` are `Passed`, with fewer than `Skipped(page)` users in front of them. New users push them back and never forward (`WalkWaits`); who leaves pulls those behind forward by one place, and as no two have the same number in front (`BehindHasMore`), one of them at most over the border (`OneLeaves`); a page that does not show somebody behind the border lies in front of him and is full (`PageShows`), so the next page has him behind it, and a page that is not full cannot be the end without him |

**What is only model-checked.** Liveness (`EveryCommandSettled`,
`EveryCommandAnswered`, `EventuallyDecided`, `EveryEventSettled`,
`EveryRequestEnds`, `DecidesEveryRegistration`): that fairness makes a step happen
speaks of `ENABLED`, which is out of the prover's reach. What is not out of its
reach is the other half of such an argument, that steps which happen cannot go on
for ever without the goal: `HandlingSafe`, `CommandMovesSafe` and
`RequestMovesSafe` prove that each of them makes a natural number smaller. Every
safety property and action property of the passing runs has a theorem.

**What is only proved.** No run states `Queue!Spec`, `HandlingEnds`,
`CommandMovesOn`, `LifecycleKept`, `RequestMovesOn`, the properties of the lifecycle
itself, and what the pipeline's theorems from `StatusTrue` on add to the runs,
except `PendingIsExplained`. They are about the definitions that the runs execute.

## Not modelled

* The search over names in `list`, the number `total` beside the items, and
  `getOne`. The search is a substring match on fields that an update may change
  while a client walks, of which `MissesNeedLeavers` says nothing; `total` is a second
  query in flight at once with the first, so a client that ends its walk when
  `page * limit` reaches it may miss a user. `MissesNeedLeavers` is about a client
  that goes on until a page is not full, and about users with different
  `createdAt`: the list is sorted by nothing else, and of users created in one
  millisecond a page may drop one and show another twice.
* Which fields the schema of the users refuses a row for is `Refused` in
  `ExcelParser`; `UserRegistration` has it as one flag, `complete`, of the rows
  and of the two forms, and the two modules do not run together.
* Copies of a message. If the broker takes a message and the confirm is lost with
  the connection, `amqp-connection-manager` publishes it again, and the consumer
  gets it twice without any interruption of its own. What a consumer does with a
  copy is what it does with a redelivery, but what the models say of the number of
  interruptions is said of one message: `RepeatsNeedInterruption` counts the mails
  of a message, and a copy of it is mailed once more;
  `WrongPasswordNeedsRedelivery`, `FailureHasCause`, `ImplementsLifecycle` with
  `Reliable` and the theorems that assume no interruption or `OnlyInterrupted`
  assume that nothing is copied either.
* `RolesGuard` and the token verifiers: one stateless decision per request.
* Owned fields (`generateUsername` and friends): string formatting. That two
  people may get one username is an input of `RegistrationFaults`.
* Filters, interceptors, health, configuration, api-gateway, scripts and seeds:
  formatting, logging, start-up, boilerplate, manual drivers and sample data.
* The mail's text. It shows `userName` as the name to sign in with, while the
  `uid` of the directory entry is the `userId`; no document says which is meant.
* `PUT /users/:id` in the pipeline: `AuthResult` has it, and the fields it
  changes are not those that the services share.

## What could come next

1. Copies of a message after a lost confirm, as a fourth kind of interruption.
2. Liveness of uploads and results in one composition: today `UserQueries` has
   the consumer of results in short.
3. A bound like `CommandMovesOn` for the events of the other two consumers, and
   from the three of them one for a whole registration in the pipeline.
4. `PUT /users/:id` in the composition, with the updates that `AuthResult` and
   `UserRegistration` have each for itself.
