------------------------------ MODULE Notification ------------------------------
(***************************************************************************)
(* The notification service (apps/notification): the consumer of queue     *)
(* notification.auth.result, which mails a user the credentials that the   *)
(* auth service issued and keeps a log of what became of each attempt.     *)
(*                                                                         *)
(* sendWelcomeEmail awaits the SMTP server, then the log.  The SMTP server *)
(* may take a mail and the client still see an error (its answer was lost  *)
(* or late).  A log write that fails is swallowed by                       *)
(* NotificationLogService.record; a mail that fails is rethrown, and the   *)
(* event is nacked without requeue: like an acked one it is gone.          *)
(*                                                                         *)
(* As in AuthRegistration an event that is neither settled nor owned by a  *)
(* handler is ready for (re)delivery.                                      *)
(***************************************************************************)
EXTENDS Naturals, FiniteSets

CONSTANTS
  Event,                \* the credentials events
  Successful,           \* those with status SUCCESS, which ask for a mail
  Handler,              \* the deliveries the service processes at once
  Fallible,             \* the calls that may fail: subset of {"mail", "log"}
  MaxCrashes,           \* bound on crashes of the service
  MaxConnectionLosses,  \* bound on losses of its broker channel
  NoEvent               \* what an idle handler has in hand

ASSUME EventAssumption    == Successful \subseteq Event /\ NoEvent \notin Event
ASSUME FallibleAssumption == Fallible \subseteq {"mail", "log"}
ASSUME BoundsAssumption   == MaxCrashes \in Nat /\ MaxConnectionLosses \in Nat

VARIABLES
  published,   \* the events published to the queue
  settled,     \* the events acked or nacked
  handlers,    \* what each handler is doing
  deliveries,  \* the number of deliveries so far, which numbers them
  mails,       \* the mails the SMTP server took
  log,         \* the notification log
  crashes, connectionLosses

interruptions == <<crashes, connectionLosses>>
vars == <<published, settled, handlers, deliveries, mails, log, interruptions>>

Mail == [event : Event, delivery : Nat \ {0}]
LogEntry == [event : Event, delivery : Nat \ {0}, outcome : {"SENT", "FAILED"}]
HandlerState ==
  [ pc : {"idle", "mail", "logSent", "logFailed", "settle"},
    event : Event \cup {NoEvent}, delivery : Nat, owns : BOOLEAN ]

IdleHandler == [pc |-> "idle", event |-> NoEvent, delivery |-> 0, owns |-> FALSE]

Ready(e) ==
  /\ e \in published \ settled
  /\ \A h \in Handler : ~(handlers[h].owns /\ handlers[h].event = e)

At(h, step) == handlers[h].pc = step
Goto(h, step) == handlers' = [handlers EXCEPT ![h].pc = step]

\* The mail that handler h sends, and the log entry it makes.
MailOf(h) == [event |-> handlers[h].event, delivery |-> handlers[h].delivery]
\* Mutation of EntryOf: the outcome is stored in the words of the status.
EntryOfStatus(h, outcome) ==
  [event |-> handlers[h].event, delivery |-> handlers[h].delivery,
   outcome |-> IF outcome = "SENT" THEN "SUCCESS" ELSE outcome]
EntryOf(h, outcome) ==
  [event |-> handlers[h].event, delivery |-> handlers[h].delivery, outcome |-> outcome]

-------------------------------------------------------------------------------
Init ==
  /\ published = {} /\ settled = {}
  /\ handlers = [h \in Handler |-> IdleHandler]
  /\ deliveries = 0
  /\ mails = {} /\ log = {}
  /\ crashes = 0 /\ connectionLosses = 0

\* The auth service publishes an event.
Publish(e) ==
  /\ e \notin published
  /\ published' = published \cup {e}
  /\ UNCHANGED <<settled, handlers, deliveries, mails, log, interruptions>>

Deliver(h, e) ==
  /\ At(h, "idle") /\ Ready(e)
  /\ deliveries' = deliveries + 1
  /\ handlers' = [handlers EXCEPT ![h] =
       [pc |-> "mail", event |-> e, delivery |-> deliveries + 1, owns |-> TRUE]]
  /\ UNCHANGED <<published, settled, mails, log, interruptions>>

\* An event that does not report a success is logged on the console and acked.
NotASuccess(h) ==
  /\ At(h, "mail") /\ handlers[h].event \notin Successful
  /\ Goto(h, "settle")
  /\ UNCHANGED <<published, settled, deliveries, mails, log, interruptions>>

SendMail(h) ==
  /\ At(h, "mail") /\ handlers[h].event \in Successful
  /\ mails' = mails \cup {MailOf(h)}
  /\ Goto(h, "logSent")
  /\ UNCHANGED <<published, settled, deliveries, log, interruptions>>

\* Mutation of SendMailFails: MailService.send logs the error and returns.
SendMailFailsSwallowed(h) ==
  /\ At(h, "mail") /\ handlers[h].event \in Successful
  /\ "mail" \in Fallible
  /\ \/ mails' = mails
     \/ mails' = mails \cup {MailOf(h)}
  /\ Goto(h, "logSent")
  /\ UNCHANGED <<published, settled, deliveries, log, interruptions>>

\* Mutation of SendMailFails: the error leaves sendWelcomeEmail unlogged.
SendMailFailsUnlogged(h) ==
  /\ At(h, "mail") /\ handlers[h].event \in Successful
  /\ "mail" \in Fallible
  /\ \/ mails' = mails
     \/ mails' = mails \cup {MailOf(h)}
  /\ Goto(h, "settle")
  /\ UNCHANGED <<published, settled, deliveries, log, interruptions>>

\* sendMail rejects, whether or not the server took the mail.
SendMailFails(h) ==
  /\ At(h, "mail") /\ handlers[h].event \in Successful
  /\ "mail" \in Fallible
  /\ \/ mails' = mails
     \/ mails' = mails \cup {MailOf(h)}
  /\ Goto(h, "logFailed")
  /\ UNCHANGED <<published, settled, deliveries, log, interruptions>>

\* The log entry after a mail that was taken, and after one that failed.
RecordSent(h) ==
  /\ At(h, "logSent")
  /\ log' = log \cup {EntryOf(h, "SENT")}
  /\ Goto(h, "settle")
  /\ UNCHANGED <<published, settled, deliveries, mails, interruptions>>

RecordFailed(h) ==
  /\ At(h, "logFailed")
  /\ log' = log \cup {EntryOf(h, "FAILED")}
  /\ Goto(h, "settle")
  /\ UNCHANGED <<published, settled, deliveries, mails, interruptions>>

\* Mutation of RecordFails: record throws, into the catch of sendWelcomeEmail
\* (the entry may have been stored).
RecordFailsRethrown(h) ==
  /\ handlers[h].pc \in {"logSent", "logFailed"} /\ "log" \in Fallible
  /\ \/ log' = log
     \/ log' = log \cup {EntryOf(h, IF At(h, "logSent") THEN "SENT" ELSE "FAILED")}
  /\ Goto(h, IF At(h, "logSent") THEN "logFailed" ELSE "settle")
  /\ UNCHANGED <<published, settled, deliveries, mails, interruptions>>

\* The insert rejects, whether or not the entry was stored; record returns.
RecordFails(h) ==
  /\ handlers[h].pc \in {"logSent", "logFailed"} /\ "log" \in Fallible
  /\ \/ log' = log
     \/ log' = log \cup {EntryOf(h, IF At(h, "logSent") THEN "SENT" ELSE "FAILED")}
  /\ Goto(h, "settle")
  /\ UNCHANGED <<published, settled, deliveries, mails, interruptions>>

\* Mutation of Settle: the event is put back on the queue after an error.
SettleRequeuesFailed(h) ==
  /\ At(h, "settle")
  /\ settled' = IF handlers[h].owns /\ EntryOf(h, "FAILED") \notin log
                  THEN settled \cup {handlers[h].event} ELSE settled
  /\ handlers' = [handlers EXCEPT ![h] = IdleHandler]
  /\ UNCHANGED <<published, deliveries, mails, log, interruptions>>

\* Mutation of Settle: after an error the event is neither acked nor nacked.
SettleSkipsErrors(h) ==
  /\ At(h, "settle") /\ EntryOf(h, "FAILED") \notin log
  /\ settled' = IF handlers[h].owns THEN settled \cup {handlers[h].event} ELSE settled
  /\ handlers' = [handlers EXCEPT ![h] = IdleHandler]
  /\ UNCHANGED <<published, deliveries, mails, log, interruptions>>

\* The ack of a handler that returned, the nack of one that threw.  On a
\* channel that was lost neither has an effect.
Settle(h) ==
  /\ At(h, "settle")
  /\ settled' = IF handlers[h].owns THEN settled \cup {handlers[h].event} ELSE settled
  /\ handlers' = [handlers EXCEPT ![h] = IdleHandler]
  /\ UNCHANGED <<published, deliveries, mails, log, interruptions>>

Crash ==
  /\ crashes < MaxCrashes
  /\ \E h \in Handler : ~At(h, "idle")
  /\ handlers' = [h \in Handler |-> IdleHandler]
  /\ crashes' = crashes + 1
  /\ UNCHANGED <<published, settled, deliveries, mails, log, connectionLosses>>

ConnectionLost ==
  /\ connectionLosses < MaxConnectionLosses
  /\ \E h \in Handler : handlers[h].owns
  /\ handlers' = [h \in Handler |-> [handlers[h] EXCEPT !.owns = FALSE]]
  /\ connectionLosses' = connectionLosses + 1
  /\ UNCHANGED <<published, settled, deliveries, mails, log, crashes>>

-------------------------------------------------------------------------------
Run(h) ==
  \/ NotASuccess(h)
  \/ SendMail(h) \/ SendMailFails(h)
  \/ RecordSent(h) \/ RecordFailed(h) \/ RecordFails(h)
  \/ Settle(h)

\* The steps of the consumer, for the modules that compose it.
Consumer ==
  \/ \E h \in Handler : Run(h) \/ \E e \in published : Deliver(h, e)
  \/ Crash
  \/ ConnectionLost

Next == (\E e \in Event : Publish(e)) \/ Consumer

Spec == Init /\ [][Next]_vars

\* Every awaited call returns or rejects; a ready event is delivered while a
\* consumer is free.
Fairness ==
  /\ \A h \in Handler : WF_vars(Run(h))
  /\ WF_vars(\E h \in Handler, e \in published : Deliver(h, e))

FairSpec == Spec /\ Fairness

-------------------------------------------------------------------------------
(* Properties.                                                             *)

\* The types of the variables.
TypeOK ==
  /\ published \subseteq Event /\ settled \subseteq published
  /\ handlers \in [Handler -> HandlerState]
  /\ deliveries \in Nat
  /\ mails \subseteq Mail /\ log \subseteq LogEntry
  /\ crashes \in Nat /\ connectionLosses \in Nat

\* A log entry SENT stands for a mail that the SMTP server took in that very
\* attempt.
SentWasMailed ==
  \A l \in log : l.outcome = "SENT" =>
    [event |-> l.event, delivery |-> l.delivery] \in mails

\* One attempt is never logged both ways: a failing log write after the mail
\* does not make sendWelcomeEmail take the mail for failed.
OneOutcomePerAttempt ==
  \A k, l \in log : k.delivery = l.delivery => k.outcome = l.outcome

\* A message is mailed once, and once more at most for each crash or channel
\* loss: an error by itself never repeats a mail (the SMTP server may have taken
\* the first one).  A copy that the publisher sent is another message.
MailsOf(e) == {m \in mails : m.event = e}
RepeatsNeedInterruption ==
  \A e \in Event : Cardinality(MailsOf(e)) <= 1 + crashes + connectionLosses

\* An event that is gone from the queue was mailed or is in the log as FAILED,
\* unless the log write failed as well: nobody is left without a password and
\* without a trace, whatever crashed in between.
SettledHasTrace ==
  "log" \notin Fallible => \A e \in settled \cap Successful :
    MailsOf(e) # {} \/ \E l \in log : l.event = e /\ l.outcome = "FAILED"

\* Every event is eventually off the queue, whatever fails: no event is
\* retried for ever.
EveryEventSettled == \A e \in Event : e \in published ~> e \in settled
===============================================================================
