--------------------------- MODULE AuthRegistration ---------------------------
(***************************************************************************)
(* The auth service (apps/auth): the consumer of queue auth.user.register. *)
(* For each user.register command it creates an LDAP entry, an AuthAccount *)
(* document and an audit record, and publishes two kinds of event on the   *)
(* exchange auth.events: the credentials (to notification) and the status  *)
(* (to user management).                                                   *)
(*                                                                         *)
(* Every action is the effect of one awaited call and the synchronous code *)
(* that follows it up to the next await, so that handlers of concurrent    *)
(* deliveries interleave exactly where the Node event loop lets them.      *)
(*                                                                         *)
(* Queues are at-least-once: commands holds every command ever published   *)
(* and settled those acked or nacked (a nack drops the message, as the     *)
(* consumer's errorBehavior NACK does not requeue).  A command that is     *)
(* neither settled nor owned by a handler is ready for delivery, so a      *)
(* handler that loses its channel, or dies, gives its command back.        *)
(***************************************************************************)
EXTENDS Naturals

CONSTANTS
  User,                 \* the userIds of the published commands
  CommandOf,            \* the user.register command of each user
  Email,                \* well-formed e-mail addresses
  Handler,              \* the deliveries the service processes at once
  Fallible,             \* the steps whose external call may fail
  MaxCrashes,           \* bound on crashes of the service
  MaxConnectionLosses,  \* bound on losses of its broker channel
  None                  \* no user; also the '' sent for a missing e-mail

\* The fields of UserRegistrationRequestedCommand that decide its fate.
Command ==
  [ primaryEmail   : Email \cup {None},
    userName       : {"", "given"},
    fullName       : {"words", "blank"},
    role           : {"student", "staff", "admin"},
    registrationNo : {"", "given"} ]

\* A handler is at one of these steps; each but the first two awaits a call.
Calls ==
  { "auditRejected", "publishRejected",
    "findAccount", "auditDuplicate", "publishDuplicate",
    "ldapSearch", "ldapAdd", "ldapUnbind", "createAccount",
    "publishCredentials", "publishSuccess", "auditSuccess",
    "auditFailed", "publishFailed" }
Steps == {"idle", "settle"} \cup Calls

ASSUME CommandAssumption  == CommandOf \in [User -> Command]
ASSUME NoneAssumption     == None \notin User \cup Email
ASSUME FallibleAssumption == Fallible \subseteq Calls
ASSUME BoundsAssumption   == MaxCrashes \in Nat /\ MaxConnectionLosses \in Nat

VARIABLES
  commands,     \* users whose user.register command was published
  settled,      \* users whose command was acked or nacked
  handlers,     \* what each handler is doing
  deliveries,   \* how many deliveries were made: the number of the last one
  ldap,         \* per user, the delivery whose password the entry holds; 0: no entry
  accounts,     \* users with an AuthAccount document
  audit,        \* the AuthRequestLog documents
  results,      \* status events published for user management
  credentials,  \* credentials events published for notification
  crashes, connectionLosses

store == <<ldap, accounts, audit, results, credentials>>
faults == <<crashes, connectionLosses>>
vars == <<commands, settled, handlers, deliveries, store, faults>>

EmailOf(u) == CommandOf[u].primaryEmail

\* The password of a delivery is drawn afresh, so the delivery stands for it.
StatusEvent == [user : User, status : {"SUCCESS", "FAILED"}, delivery : Nat \ {0}]
CredentialsEvent == [user : User, password : Nat \ {0}]
AuditRecord ==
  [user : User, outcome : {"SUCCESS", "DUPLICATE", "REJECTED", "FAILED"}, delivery : Nat \ {0}]

\* A handler owns its delivery as long as the channel it came by is open.
HandlerState ==
  [pc : Steps, user : User \cup {None}, delivery : Nat, owns : BOOLEAN]
IdleHandler == [pc |-> "idle", user |-> None, delivery |-> 0, owns |-> FALSE]

Ready(u) ==
  /\ u \in commands \ settled
  /\ \A h \in Handler : ~(handlers[h].owns /\ handlers[h].user = u)

At(h, step) == handlers[h].pc = step
Goto(h, step) == handlers' = [handlers EXCEPT ![h].pc = step]

\* validate() on UserRegistrationRequestedDto reports at least one error.
Invalid(c) ==
  \/ c.primaryEmail = None
  \/ c.userName = ""
  \/ c.role = "student" /\ c.registrationNo = ""

-------------------------------------------------------------------------------
Init ==
  /\ commands = {} /\ settled = {}
  /\ handlers = [h \in Handler |-> IdleHandler]
  /\ deliveries = 0
  /\ ldap = [u \in User |-> 0]
  /\ accounts = {} /\ audit = {} /\ results = {} /\ credentials = {}
  /\ crashes = 0 /\ connectionLosses = 0

\* User management publishes the command of a user it created.
Request(u) ==
  /\ u \notin commands
  /\ commands' = commands \cup {u}
  /\ UNCHANGED <<settled, handlers, deliveries, store, faults>>

\* The broker delivers; the payload is validated before anything is awaited.
Deliver(h, u) ==
  /\ At(h, "idle") /\ Ready(u)
  /\ deliveries' = deliveries + 1
  /\ handlers' = [handlers EXCEPT ![h] =
       [ pc |-> IF Invalid(CommandOf[u]) THEN "auditRejected" ELSE "findAccount",
         user |-> u, delivery |-> deliveries + 1, owns |-> TRUE ]]
  /\ UNCHANGED <<commands, settled, store, faults>>

\* Mutation of Audit: the status of the account is recorded as the outcome.
AuditAccountStatus(h, at, outcome, next) ==
  /\ At(h, at)
  /\ audit' = audit \cup {[user |-> handlers[h].user, outcome |-> "ACTIVE",
                           delivery |-> handlers[h].delivery]}
  /\ Goto(h, next)
  /\ UNCHANGED <<commands, settled, deliveries, ldap, accounts, results, credentials, faults>>
\* auditService.record with the given outcome.
Audit(h, at, outcome, next) ==
  /\ At(h, at)
  /\ audit' = audit \cup {[user |-> handlers[h].user, outcome |-> outcome,
                           delivery |-> handlers[h].delivery]}
  /\ Goto(h, next)
  /\ UNCHANGED <<commands, settled, deliveries, ldap, accounts, results, credentials, faults>>

\* publishAuthRegistrationStatus with the given status.
PublishStatus(h, at, status, next) ==
  /\ At(h, at)
  /\ results' = results \cup {[user |-> handlers[h].user, status |-> status,
                               delivery |-> handlers[h].delivery]}
  /\ Goto(h, next)
  /\ UNCHANGED <<commands, settled, deliveries, ldap, accounts, audit, credentials, faults>>

-------------------------------------------------------------------------------
(* An invalid payload: audited, answered FAILED, dropped.                  *)

AuditRejected(h)   == Audit(h, "auditRejected", "REJECTED", "publishRejected")
\* Mutation of PublishRejected: an invalid payload is dropped unanswered.
PublishRejectedSilently(h) ==
  /\ At(h, "publishRejected")
  /\ Goto(h, "settle")
  /\ UNCHANGED <<commands, settled, deliveries, store, faults>>
PublishRejected(h) == PublishStatus(h, "publishRejected", "FAILED", "settle")

(* registerUser, the account exists: answered SUCCESS once more.           *)

FindDuplicate(h) ==
  /\ At(h, "findAccount")
  /\ handlers[h].user \in accounts
  /\ Goto(h, "auditDuplicate")
  /\ UNCHANGED <<commands, settled, deliveries, store, faults>>

AuditDuplicate(h)   == Audit(h, "auditDuplicate", "DUPLICATE", "publishDuplicate")
PublishDuplicate(h) == PublishStatus(h, "publishDuplicate", "SUCCESS", "settle")

(* registerUser, no account yet: the body of the try.                      *)

\* Up to the first await of LdapService.createUser: a fullName of blanks
\* passes the DTO and leaves givenName empty, which createUser refuses.
FindNone(h) ==
  /\ At(h, "findAccount")
  /\ handlers[h].user \notin accounts
  /\ Goto(h, IF CommandOf[handlers[h].user].fullName = "blank"
               THEN "auditFailed" ELSE "ldapSearch")
  /\ UNCHANGED <<commands, settled, deliveries, store, faults>>

\* Mutation of LdapSearch: an existing entry is an error.
LdapSearchStrict(h) ==
  /\ At(h, "ldapSearch")
  /\ Goto(h, IF ldap[handlers[h].user] = 0 THEN "ldapAdd" ELSE "auditFailed")
  /\ UNCHANGED <<commands, settled, deliveries, store, faults>>

\* An existing entry is kept with the password it has.
LdapSearch(h) ==
  /\ At(h, "ldapSearch")
  /\ Goto(h, IF ldap[handlers[h].user] = 0 THEN "ldapAdd" ELSE "ldapUnbind")
  /\ UNCHANGED <<commands, settled, deliveries, store, faults>>

LdapAdd(h) ==
  /\ At(h, "ldapAdd")
  /\ ldap[handlers[h].user] = 0
  /\ ldap' = [ldap EXCEPT ![handlers[h].user] = handlers[h].delivery]
  /\ Goto(h, "ldapUnbind")
  /\ UNCHANGED <<commands, settled, deliveries, accounts, audit, results, credentials, faults>>

\* entryAlreadyExists: another handler added the entry since the search.
LdapAddExists(h) ==
  /\ At(h, "ldapAdd")
  /\ ldap[handlers[h].user] # 0
  /\ Goto(h, "auditFailed")
  /\ UNCHANGED <<commands, settled, deliveries, store, faults>>

\* Mutation of LdapUnbind: the credentials go out before the account is stored.
LdapUnbindPublishFirst(h) ==
  /\ At(h, "ldapUnbind")
  /\ Goto(h, "publishCredentials")
  /\ UNCHANGED <<commands, settled, deliveries, store, faults>>

LdapUnbind(h) ==
  /\ At(h, "ldapUnbind")
  /\ Goto(h, "createAccount")
  /\ UNCHANGED <<commands, settled, deliveries, store, faults>>

\* Mutation of Taken: the unique indexes were never built.
TakenUnindexed(u) == FALSE
\* The unique indexes of AuthAccount on userId and on email.
Taken(u) == \E v \in accounts : v = u \/ EmailOf(v) = EmailOf(u)

CreateAccount(h) ==
  /\ At(h, "createAccount")
  /\ ~Taken(handlers[h].user)
  /\ accounts' = accounts \cup {handlers[h].user}
  /\ Goto(h, "publishCredentials")
  /\ UNCHANGED <<commands, settled, deliveries, ldap, audit, results, credentials, faults>>

\* Mutation of CreateAccountDuplicateKey: any duplicate key means that the
\* user is registered already.
CreateAccountDuplicateKeyTolerated(h) ==
  /\ At(h, "createAccount")
  /\ Taken(handlers[h].user)
  /\ Goto(h, "auditDuplicate")
  /\ UNCHANGED <<commands, settled, deliveries, store, faults>>

CreateAccountDuplicateKey(h) ==
  /\ At(h, "createAccount")
  /\ Taken(handlers[h].user)
  /\ Goto(h, "auditFailed")
  /\ UNCHANGED <<commands, settled, deliveries, store, faults>>

PublishCredentials(h) ==
  /\ At(h, "publishCredentials")
  /\ credentials' = credentials \cup
       {[user |-> handlers[h].user, password |-> handlers[h].delivery]}
  /\ Goto(h, "publishSuccess")
  /\ UNCHANGED <<commands, settled, deliveries, ldap, accounts, audit, results, faults>>

PublishSuccess(h) == PublishStatus(h, "publishSuccess", "SUCCESS", "auditSuccess")
AuditSuccess(h)   == Audit(h, "auditSuccess", "SUCCESS", "settle")

(* registerUser, the catch: audited, answered FAILED, rethrown.            *)

\* Mutation of AuditFailed: the catch takes back what the user was given.
AuditFailedRollsBack(h) ==
  /\ At(h, "auditFailed")
  /\ accounts' = accounts \ {handlers[h].user}
  /\ Goto(h, "publishFailed")
  /\ UNCHANGED <<commands, settled, deliveries, ldap, audit, results, credentials, faults>>
AuditFailed(h)   == Audit(h, "auditFailed", "FAILED", "publishFailed")
PublishFailed(h) == PublishStatus(h, "publishFailed", "FAILED", "settle")

\* The calls inside the try of registerUser whose errors reach its catch.
TryCalls ==
  {"ldapSearch", "ldapAdd", "ldapUnbind", "createAccount", "publishCredentials", "publishSuccess"}

\* Mutation of OnError: the audit service rethrows, inside the try too.
OnErrorAuditRethrows(step) ==
  CASE step \in {"auditRejected", "auditDuplicate", "auditFailed"} -> "settle"
    [] step \in TryCalls \cup {"auditSuccess"} -> "auditFailed"
    [] OTHER -> "settle"
\* Mutation of OnError: a status that cannot be published is tried again.
OnErrorRetries(step) ==
  CASE step = "auditRejected"    -> "publishRejected"
    [] step = "publishRejected"  -> "auditRejected"
    [] step = "auditDuplicate"   -> "publishDuplicate"
    [] step = "publishDuplicate" -> "auditDuplicate"
    [] step = "auditFailed"      -> "publishFailed"
    [] step = "publishFailed"    -> "auditFailed"
    [] step \in TryCalls -> "auditFailed"
    [] OTHER -> "settle"
\* Where a handler goes when the call it awaits rejects: the audit service
\* swallows the error, the try hands it to its catch, and anything else
\* throws out of the handler.
OnError(step) ==
  CASE step = "auditRejected"  -> "publishRejected"
    [] step = "auditDuplicate" -> "publishDuplicate"
    [] step = "auditFailed"    -> "publishFailed"
    [] step \in TryCalls -> "auditFailed"
    [] OTHER -> "settle"

\* The call had no effect.  (A failing audit write looks the same with one.)
CallFails(h) ==
  /\ handlers[h].pc \in Fallible
  /\ Goto(h, OnError(handlers[h].pc))
  /\ UNCHANGED <<commands, settled, deliveries, store, faults>>

\* LDAP or MongoDB takes the write and the call rejects all the same: its
\* answer was lost or came too late.
LdapAddUnanswered(h) ==
  /\ At(h, "ldapAdd") /\ "ldapAdd" \in Fallible
  /\ ldap[handlers[h].user] = 0
  /\ ldap' = [ldap EXCEPT ![handlers[h].user] = handlers[h].delivery]
  /\ Goto(h, OnError("ldapAdd"))
  /\ UNCHANGED <<commands, settled, deliveries, accounts, audit, results, credentials, faults>>

CreateAccountUnanswered(h) ==
  /\ At(h, "createAccount") /\ "createAccount" \in Fallible
  /\ ~Taken(handlers[h].user)
  /\ accounts' = accounts \cup {handlers[h].user}
  /\ Goto(h, OnError("createAccount"))
  /\ UNCHANGED <<commands, settled, deliveries, ldap, audit, results, credentials, faults>>

\* Mutation of Settle: a handler that is done gives the command back.
SettleRequeues(h) ==
  /\ At(h, "settle")
  /\ handlers' = [handlers EXCEPT ![h] = IdleHandler]
  /\ UNCHANGED <<commands, settled, deliveries, store, faults>>

\* The handler returns (ack) or throws (nack without requeue): either way the
\* broker drops the command, unless its channel is gone.
Settle(h) ==
  /\ At(h, "settle")
  /\ settled' = IF handlers[h].owns THEN settled \cup {handlers[h].user} ELSE settled
  /\ handlers' = [handlers EXCEPT ![h] = IdleHandler]
  /\ UNCHANGED <<commands, deliveries, store, faults>>

-------------------------------------------------------------------------------
(* Interruptions.                                                          *)

\* Mutation of Crash: commands are acked when delivered (noAck).
CrashAutoAck ==
  /\ crashes < MaxCrashes
  /\ \E h \in Handler : ~At(h, "idle")
  /\ settled' = settled \cup {u \in commands : ~Ready(u)}
  /\ handlers' = [h \in Handler |-> IdleHandler]
  /\ crashes' = crashes + 1
  /\ UNCHANGED <<commands, deliveries, store, connectionLosses>>

\* The process dies and is restarted: every handler is gone.
Crash ==
  /\ crashes < MaxCrashes
  /\ \E h \in Handler : ~At(h, "idle")
  /\ handlers' = [h \in Handler |-> IdleHandler]
  /\ crashes' = crashes + 1
  /\ UNCHANGED <<commands, settled, deliveries, store, connectionLosses>>

\* The channel closes and reopens: the handlers run on, but no longer own
\* the commands they were delivered.
ConnectionLost ==
  /\ connectionLosses < MaxConnectionLosses
  /\ \E h \in Handler : handlers[h].owns
  /\ handlers' = [h \in Handler |-> [handlers[h] EXCEPT !.owns = FALSE]]
  /\ connectionLosses' = connectionLosses + 1
  /\ UNCHANGED <<commands, settled, deliveries, store, crashes>>

-------------------------------------------------------------------------------
Run(h) ==
  \/ AuditRejected(h) \/ PublishRejected(h)
  \/ FindDuplicate(h) \/ AuditDuplicate(h) \/ PublishDuplicate(h)
  \/ FindNone(h) \/ LdapSearch(h) \/ LdapAdd(h) \/ LdapAddExists(h) \/ LdapUnbind(h)
  \/ CreateAccount(h) \/ CreateAccountDuplicateKey(h)
  \/ PublishCredentials(h) \/ PublishSuccess(h) \/ AuditSuccess(h)
  \/ AuditFailed(h) \/ PublishFailed(h)
  \/ CallFails(h) \/ LdapAddUnanswered(h) \/ CreateAccountUnanswered(h)
  \/ Settle(h)

\* The steps of the service itself, for the modules that compose it.
Service ==
  \/ \E h \in Handler : Run(h) \/ \E u \in User : Deliver(h, u)
  \/ Crash
  \/ ConnectionLost

Next == (\E u \in User : Request(u)) \/ Service

Spec == Init /\ [][Next]_vars

\* Every awaited call returns or rejects and the event loop resumes its
\* handler; the broker delivers a ready command while a consumer is free.
Fairness ==
  /\ \A h \in Handler : WF_vars(Run(h))
  /\ \A u \in User : WF_vars(\E h \in Handler : Deliver(h, u))

FairSpec == Spec /\ Fairness

-------------------------------------------------------------------------------
(* Properties.                                                             *)

\* The types of the variables.
TypeOK ==
  /\ commands \subseteq User /\ settled \subseteq User
  /\ handlers \in [Handler -> HandlerState]
  /\ deliveries \in Nat
  /\ ldap \in [User -> Nat]
  /\ accounts \subseteq User
  /\ audit \subseteq AuditRecord
  /\ results \subseteq StatusEvent
  /\ credentials \subseteq CredentialsEvent
  /\ crashes \in Nat /\ connectionLosses \in Nat

Answered(u, status) == \E r \in results : r.user = u /\ r.status = status

\* Credentials are issued only for a user whose LDAP entry and AuthAccount
\* both exist (registerUser writes the two stores before it publishes).
CredentialsHaveAccount ==
  \A c \in credentials : c.user \in accounts /\ ldap[c.user] # 0

\* User management is told SUCCESS only for a user who really has an account
\* and an entry, by whichever of the two paths that publish it, whatever
\* failed, was interrupted or ran concurrently before.
SuccessHasAccount ==
  \A u \in User : Answered(u, "SUCCESS") => u \in accounts /\ ldap[u] # 0

\* However often a command is redelivered, and with how many handlers at
\* work on it, one password at most is ever sent out for a user (the unique
\* index guards what the find-then-create of registerUser does not).
CredentialsIssuedOnce ==
  \A c, d \in credentials : c.user = d.user => c = d

\* The handling of one delivery never reports both outcomes: a failing audit
\* write cannot turn a registration answered SUCCESS into a failed one.
NoContradictoryAnswer ==
  \A r, s \in results : r.delivery = s.delivery => r.status = s.status

\* A command whose message the broker dropped has been answered, when the
\* statuses can be published and the account can be looked up: no other
\* failure or interruption leaves user management waiting for ever.
SettledIsAnswered ==
  Fallible \cap {"findAccount", "publishRejected", "publishDuplicate", "publishFailed"} = {}
    => \A u \in settled : Answered(u, "SUCCESS") \/ Answered(u, "FAILED")

\* The password mailed to a user opens the LDAP entry, unless a delivery was
\* interrupted and the command came back after it had added the entry.
WrongPasswordNeedsRedelivery ==
  (\E c \in credentials : ldap[c.user] # c.password) => crashes + connectionLosses > 0

\* What is wrong with the data of a user that cannot be registered.
Caused(u) ==
  \/ Invalid(CommandOf[u])
  \/ CommandOf[u].fullName = "blank"
  \/ \E v \in accounts \ {u} : EmailOf(v) = EmailOf(u)

\* A failure is reported only for a command that the data rules out, when the
\* channel stays up and no call fails but audit writes: a crash at any point
\* is recovered from by redelivery and never by itself turns into a FAILED.
FailureHasCause ==
  Fallible \cap TryCalls = {} /\ connectionLosses = 0 =>
    \A u \in User : Answered(u, "FAILED") => Caused(u)

\* When two handlers of one command race, each search of the directory, each
\* add and each insert may have another between it and the next, and the loser
\* reports FAILED whatever becomes of the winner.  A user whom the data do not
\* rule out is not lost to it: somebody has created the account, or is about to.
\* (A winner that dies is lost, when the loser owned the command and settled it.)
RaceHasWinner ==
  Fallible \cap {"ldapSearch", "ldapAdd", "ldapUnbind", "createAccount"} = {} /\ crashes = 0 =>
    \A u \in User : Answered(u, "FAILED") /\ ~Caused(u) =>
      \/ u \in accounts
      \/ \E h \in Handler :
           handlers[h].user = u /\ handlers[h].pc \in {"ldapUnbind", "createAccount"}

\* Every command is eventually acked or dropped, whatever fails: no handler
\* is stuck and no command is delivered for ever.
EveryCommandSettled == \A u \in User : u \in commands ~> u \in settled

\* Every command is eventually answered (where the calls that SettledIsAnswered
\* names do not fail), across crashes, channel losses and failing calls.
EveryCommandAnswered ==
  \A u \in User : u \in commands ~> Answered(u, "SUCCESS") \/ Answered(u, "FAILED")

-------------------------------------------------------------------------------
(* What the repository's documents say and the code does not do.           *)

\* docs/rabbitmq_naming.md:111: "Only success is ever published to
\* Notification - a failed registration never reaches it."
FailedNeverReachesNotification ==
  \A c \in credentials : ~Answered(c.user, "FAILED")

\* user-registration-requested.dto.ts:20-23: userName is "always '' ... Not
\* empty-validated", so an empty one alone must not have a command refused.
EmptyUserNameAccepted ==
  \A r \in audit : r.outcome = "REJECTED" =>
    Invalid([CommandOf[r.user] EXCEPT !.userName = "given"])

\* DOCUMENTATION.md:261 (the success path): beside the success event "Auth
\* separately publishes auth.notification.succeeded", so a user who is told to
\* be active has been issued credentials.
SuccessBringsCredentials ==
  \A u \in User : Answered(u, "SUCCESS") => \E c \in credentials : c.user = u
===============================================================================
