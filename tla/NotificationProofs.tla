-------------------------- MODULE NotificationProofs --------------------------
(***************************************************************************)
(* What the notification service guarantees for every set of events and    *)
(* handlers, whether or not mails and log writes fail, and for any number  *)
(* of crashes and channel losses.                                          *)
(***************************************************************************)
EXTENDS Notification, FiniteSetTheorems, TLAPS

USE EventAssumption, FallibleAssumption, BoundsAssumption

\* A busy handler works for an event that was published, on a delivery that
\* was made and is its own.
BusyOK ==
  /\ \A h \in Handler : ~At(h, "idle") =>
       handlers[h].event \in published /\ handlers[h].delivery \in 1 .. deliveries
  /\ \A g, h \in Handler :
       ~At(g, "idle") /\ ~At(h, "idle") /\ handlers[g].delivery = handlers[h].delivery
         => g = h

\* What was mailed and logged comes from a delivery that was made.
PastOK ==
  /\ \A m \in mails : m.delivery \in 1 .. deliveries /\ m.event \in published
  /\ \A l \in log : l.delivery \in 1 .. deliveries

TypeInv == TypeOK /\ BusyOK /\ PastOK

LEMMA TypeInit == Init => TypeInv
  BY DEF Init, TypeInv, TypeOK, BusyOK, PastOK, At, IdleHandler, HandlerState

\* A handler that goes on keeps what it has in hand.
LEMMA GotoEffect ==
  ASSUME TypeInv, NEW h \in Handler, NEW step, Goto(h, step)
  PROVE  /\ handlers'[h].pc = step
         /\ handlers'[h].event = handlers[h].event
         /\ handlers'[h].delivery = handlers[h].delivery
         /\ handlers'[h].owns = handlers[h].owns
         /\ \A g \in Handler : g # h => handlers'[g] = handlers[g]
  BY DEF Goto, TypeInv, TypeOK, HandlerState

\* How the steps of a handler change the handlers, the mails and the log.
LEMMA RunEffect ==
  ASSUME TypeInv, NEW h \in Handler, Run(h)
  PROVE  /\ UNCHANGED <<published, deliveries, interruptions>>
         /\ ~At(h, "idle") /\ ~At(h, "mail")'
         /\ At(h, "idle")' => ~handlers'[h].owns
         /\ handlers' \in [Handler -> HandlerState]
         /\ \A g \in Handler : g # h => handlers'[g] = handlers[g]
         /\ At(h, "idle")' \/ ( /\ handlers'[h].event = handlers[h].event
                                /\ handlers'[h].delivery = handlers[h].delivery
                                /\ handlers'[h].owns = handlers[h].owns )
         /\ mails' = mails \/ (At(h, "mail") /\ mails' = mails \cup {MailOf(h)})
         /\ log' = log \/ \E outcome \in {"SENT", "FAILED"} :
                            log' = log \cup {EntryOf(h, outcome)}
<1> USE DEF TypeInv, TypeOK, HandlerState, At, Goto, interruptions
<1>1. CASE NotASuccess(h)
  BY <1>1 DEF NotASuccess
<1>2. CASE SendMail(h)
  BY <1>2 DEF SendMail
<1>3. CASE SendMailFails(h)
  BY <1>3 DEF SendMailFails
<1>4. CASE RecordSent(h)
  BY <1>4 DEF RecordSent
<1>5. CASE RecordFailed(h)
  BY <1>5 DEF RecordFailed
<1>6. CASE RecordFails(h)
  BY <1>6 DEF RecordFails
<1>7. CASE Settle(h)
  BY <1>7 DEF Settle, IdleHandler
<1> QED
  BY <1>1, <1>2, <1>3, <1>4, <1>5, <1>6, <1>7 DEF Run

LEMMA SettledEffect ==
  ASSUME TypeInv, NEW h \in Handler, Run(h)
  PROVE  /\ settled \subseteq settled'
         /\ settled' = settled \/ ( /\ At(h, "settle") /\ At(h, "idle")'
                                    /\ settled' = settled \cup {handlers[h].event} )
         /\ At(h, "idle")' /\ handlers[h].owns => handlers[h].event \in settled'
<1>1. CASE Settle(h)
  BY <1>1 DEF Settle, At, IdleHandler, TypeInv, TypeOK
<1>2. CASE ~Settle(h)
  <2>1. settled' = settled /\ \E step \in {"settle", "logSent", "logFailed"} : Goto(h, step)
    BY <1>2 DEF Run, NotASuccess, SendMail, SendMailFails, RecordSent, RecordFailed, RecordFails
  <2> QED
    BY <2>1, GotoEffect DEF At
<1> QED
  BY <1>1, <1>2

\* A lost channel takes the deliveries away from the handlers and no more.
LEMMA LossEffect ==
  ASSUME TypeInv, ConnectionLost, NEW h \in Handler
  PROVE  /\ handlers'[h] \in HandlerState
         /\ handlers'[h].pc = handlers[h].pc
         /\ handlers'[h].event = handlers[h].event
         /\ handlers'[h].delivery = handlers[h].delivery
         /\ ~handlers'[h].owns
<1>1. handlers'[h] = [handlers[h] EXCEPT !.owns = FALSE]
  BY DEF ConnectionLost
<1>2. handlers[h] \in HandlerState
  BY DEF TypeInv, TypeOK
<1> QED
  BY <1>1, <1>2 DEF HandlerState

LEMMA TypeStep == TypeInv /\ [Next]_vars => TypeInv'
<1> SUFFICES ASSUME TypeInv, [Next]_vars PROVE TypeInv'
  OBVIOUS
<1>1. ASSUME NEW e \in Event, Publish(e) PROVE TypeInv'
  BY <1>1 DEF Publish, TypeInv, TypeOK, BusyOK, PastOK, At, interruptions
<1>2. ASSUME NEW h \in Handler, NEW e \in published, Deliver(h, e) PROVE TypeInv'
  BY <1>2 DEF Deliver, TypeInv, TypeOK, BusyOK, PastOK, At, HandlerState, interruptions
<1>3. ASSUME NEW h \in Handler, Run(h) PROVE TypeInv'
  <2>1. handlers[h].event \in published /\ handlers[h].delivery \in 1 .. deliveries
    BY <1>3, RunEffect DEF TypeInv, BusyOK
  <2>2. MailOf(h) \in Mail /\ \A outcome \in {"SENT", "FAILED"} : EntryOf(h, outcome) \in LogEntry
    BY <2>1 DEF MailOf, EntryOf, Mail, LogEntry, TypeInv, TypeOK
  <2>3. TypeOK'
    BY <1>3, <2>1, <2>2, RunEffect, SettledEffect DEF TypeInv, TypeOK, interruptions
  <2>4. BusyOK'
    BY <1>3, <2>1, RunEffect DEF TypeInv, BusyOK, At
  <2>5. PastOK'
    BY <1>3, <2>1, RunEffect DEF TypeInv, PastOK, MailOf, EntryOf
  <2> QED
    BY <2>3, <2>4, <2>5 DEF TypeInv
<1>4. CASE Crash
  BY <1>4 DEF Crash, TypeInv, TypeOK, BusyOK, PastOK, At, IdleHandler, HandlerState
<1>5. CASE ConnectionLost
  <2>1. handlers' \in [Handler -> HandlerState]
    BY <1>5, LossEffect DEF ConnectionLost
  <2>2. TypeOK'
    BY <1>5, <2>1 DEF ConnectionLost, TypeInv, TypeOK
  <2>3. BusyOK'
    <3>1. /\ UNCHANGED <<published, deliveries>>
          /\ \A h \in Handler : /\ handlers'[h].pc = handlers[h].pc
                               /\ handlers'[h].event = handlers[h].event
                               /\ handlers'[h].delivery = handlers[h].delivery
      BY <1>5, LossEffect DEF ConnectionLost
    <3> QED
      BY <3>1 DEF TypeInv, BusyOK, At
  <2>4. PastOK'
    BY <1>5 DEF ConnectionLost, TypeInv, PastOK
  <2> QED
    BY <2>2, <2>3, <2>4 DEF TypeInv
<1>6. CASE UNCHANGED vars
  BY <1>6 DEF vars, TypeInv, TypeOK, BusyOK, PastOK, At, interruptions
<1> QED
  BY <1>1, <1>2, <1>3, <1>4, <1>5, <1>6 DEF Next, Consumer

LEMMA TypeInvariant == Spec => []TypeInv
  BY TypeInit, TypeStep, PTL DEF Spec

\* The variables keep their types, and no two handlers share a delivery.
THEOREM TypeCorrect == Spec => []TypeOK
<1>1. TypeInv => TypeOK
  BY DEF TypeInv
<1> QED
  BY <1>1, TypeInvariant, PTL

-------------------------------------------------------------------------------
(* The log tells the truth.                                                *)

\* The steps that leave the mails and the log alone, and move no handler to a
\* step other than "mail".
Outside ==
  /\ UNCHANGED <<mails, log>>
  /\ \A h \in Handler : handlers'[h].pc \notin {"idle", "mail"} =>
       /\ handlers'[h].pc = handlers[h].pc
       /\ handlers'[h].event = handlers[h].event
       /\ handlers'[h].delivery = handlers[h].delivery

LEMMA OutsideSteps ==
  ASSUME TypeInv, [Next]_vars
  PROVE  Outside \/ \E h \in Handler : Run(h)
<1> USE DEF Outside, TypeInv, TypeOK, At
<1>1. ASSUME NEW e \in Event, Publish(e) PROVE Outside
  BY <1>1 DEF Publish
<1>2. ASSUME NEW h \in Handler, NEW e \in published, Deliver(h, e) PROVE Outside
  BY <1>2 DEF Deliver
<1>3. CASE Crash
  BY <1>3 DEF Crash, IdleHandler
<1>4. CASE ConnectionLost
  BY <1>4, LossEffect DEF ConnectionLost
<1>5. CASE UNCHANGED vars
  BY <1>5 DEF vars
<1> QED
  BY <1>1, <1>2, <1>3, <1>4, <1>5 DEF Next, Consumer

\* A handler about to log SENT has mailed.
SentInv ==
  /\ SentWasMailed
  /\ \A h \in Handler : At(h, "logSent") => MailOf(h) \in mails

LEMMA SentStep == TypeInv /\ SentInv /\ [Next]_vars => SentInv'
<1> SUFFICES ASSUME TypeInv, SentInv, [Next]_vars PROVE SentInv'
  OBVIOUS
<1> USE DEF SentInv, SentWasMailed, MailOf, At
<1>1. CASE Outside
  BY <1>1 DEF Outside
<1>2. ASSUME NEW h \in Handler, Run(h) PROVE SentInv'
  <2>1. \A g \in Handler : g # h => handlers'[g] = handlers[g]
    BY <1>2, RunEffect
  <2>2. mails \subseteq mails'
    BY <1>2, RunEffect
  <2>3. At(h, "logSent")' => MailOf(h)' \in mails'
    BY <1>2 DEF Run, NotASuccess, SendMail, SendMailFails, RecordSent, RecordFailed,
         RecordFails, Settle, IdleHandler, Goto, TypeInv, TypeOK, HandlerState
  <2>4. SentWasMailed'
    BY <1>2, <2>2 DEF Run, NotASuccess, SendMail, SendMailFails, RecordSent, RecordFailed,
         RecordFails, Settle, EntryOf
  <2> QED
    BY <2>1, <2>2, <2>3, <2>4
<1> QED
  BY <1>1, <1>2, OutsideSteps

\* SENT is logged only of an attempt that the SMTP server took.
THEOREM SentSafe == Spec => []SentWasMailed
<1>1. Init => SentInv
  BY DEF Init, SentInv, SentWasMailed, At, IdleHandler
<1>2. Spec => []SentInv
  BY <1>1, TypeInvariant, SentStep, PTL DEF Spec
<1>3. SentInv => SentWasMailed
  BY DEF SentInv
<1> QED
  BY <1>2, <1>3, PTL

\* An attempt that is not over has not been logged.
OutcomeInv ==
  /\ OneOutcomePerAttempt
  /\ \A h \in Handler : handlers[h].pc \in {"mail", "logSent", "logFailed"} =>
       \A l \in log : l.delivery # handlers[h].delivery

LEMMA OutcomeStep == TypeInv /\ OutcomeInv /\ [Next]_vars => OutcomeInv'
<1> SUFFICES ASSUME TypeInv, OutcomeInv, [Next]_vars PROVE OutcomeInv'
  OBVIOUS
<1>1. ASSUME NEW h \in Handler, NEW e \in published, Deliver(h, e) PROVE OutcomeInv'
  BY <1>1 DEF Deliver, OutcomeInv, OneOutcomePerAttempt, TypeInv, TypeOK, PastOK, LogEntry
<1>2. ASSUME NEW h \in Handler, Run(h) PROVE OutcomeInv'
  <2>1. handlers[h].delivery \in 1 .. deliveries
    BY <1>2, RunEffect DEF TypeInv, BusyOK
  <2>2. \/ /\ log' = log
           /\ handlers'[h].pc \in {"mail", "logSent", "logFailed"} =>
                /\ handlers[h].pc \in {"mail", "logSent", "logFailed"}
                /\ handlers'[h].delivery = handlers[h].delivery
        \/ /\ handlers[h].pc \in {"logSent", "logFailed"}
           /\ handlers'[h].pc = "settle"
           /\ \E outcome \in {"SENT", "FAILED"} : log' = log \cup {EntryOf(h, outcome)}
    BY <1>2 DEF Run, NotASuccess, SendMail, SendMailFails, RecordSent, RecordFailed,
         RecordFails, Settle, IdleHandler, At, Goto, TypeInv, TypeOK, HandlerState
  <2>3. \A g \in Handler : g # h => handlers'[g] = handlers[g]
    BY <1>2, RunEffect
  <2>4. CASE log' = log /\ (handlers'[h].pc \in {"mail", "logSent", "logFailed"} =>
                /\ handlers[h].pc \in {"mail", "logSent", "logFailed"}
                /\ handlers'[h].delivery = handlers[h].delivery)
    BY <2>3, <2>4 DEF OutcomeInv, OneOutcomePerAttempt
  <2>5. ASSUME handlers[h].pc \in {"logSent", "logFailed"}, handlers'[h].pc = "settle",
               NEW outcome \in {"SENT", "FAILED"}, log' = log \cup {EntryOf(h, outcome)}
        PROVE  OutcomeInv'
    <3>1. OneOutcomePerAttempt'
      BY <2>5 DEF OutcomeInv, OneOutcomePerAttempt, EntryOf
    <3>2. ASSUME NEW g \in Handler, handlers'[g].pc \in {"mail", "logSent", "logFailed"}
          PROVE  \A l \in log' : l.delivery # handlers'[g].delivery
      <4>1. g # h /\ handlers'[g] = handlers[g]
        BY <2>3, <2>5, <3>2
      <4>2. handlers[g].delivery # handlers[h].delivery
        BY <2>5, <3>2, <4>1 DEF TypeInv, BusyOK, At
      <4> QED
        BY <2>5, <3>2, <4>1, <4>2 DEF OutcomeInv, EntryOf
    <3> QED
      BY <3>1, <3>2 DEF OutcomeInv
  <2> QED
    BY <2>2, <2>4, <2>5
<1>3. ASSUME NEW e \in Event, Publish(e) PROVE OutcomeInv'
  BY <1>3 DEF Publish, OutcomeInv, OneOutcomePerAttempt
<1>4. CASE Crash
  BY <1>4 DEF Crash, IdleHandler, OutcomeInv, OneOutcomePerAttempt
<1>5. CASE ConnectionLost
  BY <1>5, LossEffect DEF ConnectionLost, OutcomeInv, OneOutcomePerAttempt
<1>6. CASE UNCHANGED vars
  BY <1>6 DEF vars, OutcomeInv, OneOutcomePerAttempt
<1> QED
  BY <1>1, <1>2, <1>3, <1>4, <1>5, <1>6 DEF Next, Consumer

\* One attempt is never logged both ways.
THEOREM OutcomeSafe == Spec => []OneOutcomePerAttempt
<1>1. Init => OutcomeInv
  BY DEF Init, OutcomeInv, OneOutcomePerAttempt, IdleHandler
<1>2. Spec => []OutcomeInv
  BY <1>1, TypeInvariant, OutcomeStep, PTL DEF Spec
<1>3. OutcomeInv => OneOutcomePerAttempt
  BY DEF OutcomeInv
<1> QED
  BY <1>2, <1>3, PTL

-------------------------------------------------------------------------------
(* Nothing is lost without a trace.                                        *)

Traced(e) == MailsOf(e) # {} \/ \E l \in log : l.event = e /\ l.outcome = "FAILED"

\* Where log writes do not fail, a handler that is done has left a trace, and
\* one that is about to log SENT has mailed.
TraceInv ==
  "log" \notin Fallible =>
    /\ \A h \in Handler : At(h, "logSent") => MailsOf(handlers[h].event) # {}
    /\ \A h \in Handler : At(h, "settle") /\ handlers[h].event \in Successful
         => Traced(handlers[h].event)
    /\ \A e \in settled \cap Successful : Traced(e)

LEMMA TraceRun ==
  ASSUME TypeInv, TraceInv, NEW h \in Handler, Run(h), "log" \notin Fallible
  PROVE  TraceInv'
<1>1. \A e : (MailsOf(e) # {} => MailsOf(e)' # {}) /\ (Traced(e) => Traced(e)')
  <2>1. mails \subseteq mails' /\ log \subseteq log'
    BY RunEffect
  <2> QED
    BY <2>1 DEF Traced, MailsOf
<1>2. At(h, "logSent")' => MailsOf(handlers[h].event)' # {}
  <2>1. CASE SendMail(h)
    <3>1. Goto(h, "logSent") /\ MailOf(h) \in mails' /\ MailOf(h).event = handlers[h].event
      BY <2>1 DEF SendMail, MailOf
    <3>2. handlers'[h].event = handlers[h].event
      BY <3>1, GotoEffect
    <3> QED
      BY <3>1, <3>2 DEF MailsOf
  <2>2. CASE Settle(h)
    BY <2>2 DEF Settle, IdleHandler, At, TypeInv, TypeOK
  <2>3. CASE ~SendMail(h) /\ ~Settle(h)
    <3>1. Goto(h, "settle") \/ Goto(h, "logFailed")
      BY <2>3 DEF Run, NotASuccess, SendMailFails, RecordSent, RecordFailed, RecordFails
    <3> QED
      BY <3>1, GotoEffect DEF At
  <2> QED
    BY <2>1, <2>2, <2>3
<1>3. At(h, "settle")' /\ handlers'[h].event \in Successful => Traced(handlers[h].event)'
  <2>1. CASE NotASuccess(h)
    BY <2>1, GotoEffect DEF NotASuccess
  <2>2. CASE RecordSent(h)
    <3>1. Goto(h, "settle") /\ MailsOf(handlers[h].event) # {}
      BY <2>2 DEF RecordSent, TraceInv
    <3>2. handlers'[h].event = handlers[h].event
      BY <3>1, GotoEffect
    <3> QED
      BY <1>1, <3>1, <3>2 DEF Traced
  <2>3. CASE RecordFailed(h)
    <3>1. /\ Goto(h, "settle")
          /\ EntryOf(h, "FAILED") \in log'
          /\ EntryOf(h, "FAILED").event = handlers[h].event
          /\ EntryOf(h, "FAILED").outcome = "FAILED"
      BY <2>3 DEF RecordFailed, EntryOf
    <3>2. handlers'[h].event = handlers[h].event
      BY <3>1, GotoEffect
    <3> QED
      BY <3>1, <3>2 DEF Traced
  <2>4. CASE SendMail(h) \/ SendMailFails(h)
    BY <2>4, GotoEffect DEF SendMail, SendMailFails, At
  <2>5. CASE Settle(h)
    BY <2>5 DEF Settle, IdleHandler, At, TypeInv, TypeOK
  <2> QED
    BY <2>1, <2>2, <2>3, <2>4, <2>5 DEF Run, RecordFails
<1>4. \A e \in settled' \cap Successful : Traced(e)'
  BY <1>1, SettledEffect DEF TraceInv
<1>5. \A g \in Handler : g # h => handlers'[g] = handlers[g]
  BY RunEffect
<1> QED
  BY <1>1, <1>2, <1>3, <1>4, <1>5 DEF TraceInv, At

LEMMA TraceStep == TypeInv /\ TraceInv /\ [Next]_vars => TraceInv'
<1> SUFFICES ASSUME TypeInv, TraceInv, [Next]_vars, "log" \notin Fallible PROVE TraceInv'
  BY DEF TraceInv
<1>1. CASE Outside
  <2>1. UNCHANGED settled \/ \E h \in Handler : Run(h)
    BY DEF Next, Consumer, Publish, Deliver, Crash, ConnectionLost, vars
  <2>2. CASE UNCHANGED settled
    <3>1. \A e : (MailsOf(e) # {} => MailsOf(e)' # {}) /\ (Traced(e) => Traced(e)')
      BY <1>1 DEF Outside, Traced, MailsOf
    <3> QED
      BY <1>1, <2>2, <3>1 DEF Outside, TraceInv, At
  <2> QED
    BY <2>1, <2>2, TraceRun
<1> QED
  BY <1>1, OutsideSteps, TraceRun

\* An event that is gone was mailed or logged as FAILED.
THEOREM TraceSafe == Spec => []SettledHasTrace
<1>1. Init => TraceInv
  BY DEF Init, TraceInv, At, IdleHandler
<1>2. Spec => []TraceInv
  BY <1>1, TypeInvariant, TraceStep, PTL DEF Spec
<1>3. TraceInv => SettledHasTrace
  BY DEF TraceInv, SettledHasTrace, Traced
<1> QED
  BY <1>2, <1>3, PTL

-------------------------------------------------------------------------------
(* The mails of one message repeat through interruptions only.             *)

\* The deliveries of an event that have mailed it, or still may.
Attempts(e) ==
  {d \in 1 .. deliveries :
     \/ \E m \in mails : m.event = e /\ m.delivery = d
     \/ \E h \in Handler : At(h, "mail") /\ handlers[h].event = e /\ handlers[h].delivery = d}

LEMMA AttemptsFinite ==
  ASSUME TypeInv, NEW e
  PROVE  IsFiniteSet(Attempts(e)) /\ Cardinality(Attempts(e)) \in Nat
<1>1. IsFiniteSet(1 .. deliveries)
  BY FS_Interval DEF TypeInv, TypeOK
<1>2. Attempts(e) \in SUBSET (1 .. deliveries)
  BY DEF Attempts
<1> QED
  BY <1>1, <1>2, FS_Subset, FS_CardinalityType

LEMMA FewerAttempts ==
  ASSUME TypeInv, NEW e, Attempts(e)' \subseteq Attempts(e)
  PROVE  Cardinality(Attempts(e)') \in Nat /\ Cardinality(Attempts(e)') <= Cardinality(Attempts(e))
  BY AttemptsFinite, FS_Subset, FS_CardinalityType

\* No two mails of an event come from one delivery.
LEMMA MailsAreAttempts ==
  ASSUME TypeInv, NEW e
  PROVE  Cardinality(MailsOf(e)) \in Nat /\ Cardinality(MailsOf(e)) <= Cardinality(Attempts(e))
<1> DEFINE f == [m \in MailsOf(e) |-> m.delivery]
<1>1. \A m \in MailsOf(e) : m \in Mail /\ m.event = e /\ m.delivery \in Attempts(e)
  BY DEF MailsOf, Attempts, TypeInv, TypeOK, PastOK
<1>2. \A m, n \in MailsOf(e) : m.delivery = n.delivery => m = n
  BY <1>1 DEF Mail
<1>3. f \in Injection(MailsOf(e), Attempts(e))
  BY <1>1, <1>2 DEF Injection, IsInjective
<1> QED
  BY <1>3, AttemptsFinite, FS_Injection, FS_CardinalityType

Interruptions == crashes + connectionLosses

LEMMA InterruptionsType ==
  ASSUME TypeInv, TypeInv'
  PROVE  Interruptions \in Nat /\ Interruptions' \in Nat
<1>1. Interruptions \in Nat
  BY DEF TypeInv, TypeOK, Interruptions
<1>2. PICK c \in Nat, l \in Nat : crashes' = c /\ connectionLosses' = l
  BY DEF TypeInv, TypeOK
<1>3. Interruptions' = c + l
  BY <1>2 DEF Interruptions
<1> QED
  BY <1>1, <1>3

\* Every attempt but one was cut off by an interruption; while the event is
\* ready for delivery, all of them were.
Bound(e) == IF Ready(e) THEN Interruptions ELSE Interruptions + 1

RepeatInv ==
  /\ \A h \in Handler : At(h, "idle") => ~handlers[h].owns
  /\ \A e \in Event : Cardinality(Attempts(e)) <= Bound(e)

\* The bound survives a step that adds no attempt and, where it makes the event
\* ready again, counts an interruption.
LEMMA BoundStays ==
  ASSUME TypeInv, TypeInv', RepeatInv, NEW e \in Event,
         Attempts(e)' \subseteq Attempts(e),
         \/ Interruptions' = Interruptions /\ (Ready(e)' => Ready(e))
         \/ Interruptions' = Interruptions + 1
  PROVE  Cardinality(Attempts(e)') <= Bound(e)'
<1>1. /\ Cardinality(Attempts(e)) \in Nat
      /\ Cardinality(Attempts(e)') \in Nat
      /\ Cardinality(Attempts(e)') <= Cardinality(Attempts(e))
  BY AttemptsFinite, FewerAttempts
<1>2. Cardinality(Attempts(e)) <= Bound(e)
  BY DEF RepeatInv
<1>3. Bound(e) \in Nat /\ Bound(e)' \in Nat /\ Bound(e) <= Bound(e)'
  BY InterruptionsType DEF Bound
<1> QED
  BY <1>1, <1>2, <1>3

LEMMA RepeatPublish ==
  ASSUME TypeInv, TypeInv', RepeatInv, NEW f \in Event, Publish(f)
  PROVE  RepeatInv'
<1>1. UNCHANGED <<settled, handlers, deliveries, mails, crashes, connectionLosses>>
  BY DEF Publish, interruptions
<1>2. ASSUME NEW e \in Event
      PROVE  Cardinality(Attempts(e)') <= Bound(e)'
  <2>1. CASE e = f
    <3>1. Attempts(e)' = {}
      BY <1>1, <2>1 DEF Publish, Attempts, TypeInv, BusyOK, PastOK, At
    <3>2. Cardinality(Attempts(e)') = 0
      BY <3>1, FS_EmptySet
    <3> QED
      BY <3>2, InterruptionsType DEF Bound
  <2>2. CASE e # f
    <3>1. Attempts(e)' \subseteq Attempts(e)
      BY <1>1 DEF Attempts, At
    <3>2. Ready(e)' => Ready(e)
      BY <1>1, <2>2 DEF Publish, Ready
    <3>3. Interruptions' = Interruptions
      BY <1>1 DEF Interruptions
    <3> QED
      BY <3>1, <3>2, <3>3, BoundStays
  <2> QED
    BY <2>1, <2>2
<1> QED
  BY <1>1, <1>2 DEF RepeatInv, At

LEMMA RepeatDeliver ==
  ASSUME TypeInv, TypeInv', RepeatInv, NEW h \in Handler, NEW f \in published, Deliver(h, f)
  PROVE  RepeatInv'
<1>1. /\ UNCHANGED <<published, settled, mails, crashes, connectionLosses>>
      /\ At(h, "idle") /\ Ready(f) /\ ~handlers[h].owns
      /\ deliveries' = deliveries + 1
      /\ handlers'[h].pc = "mail" /\ handlers'[h].event = f /\ handlers'[h].owns
      /\ handlers'[h].delivery = deliveries + 1
      /\ \A g \in Handler : g # h => handlers'[g] = handlers[g]
  BY DEF Deliver, RepeatInv, interruptions, TypeInv, TypeOK
<1>2. \A g \in Handler : At(g, "idle")' => ~handlers'[g].owns
  BY <1>1 DEF RepeatInv, At
<1>3. deliveries \in Nat /\ \A m \in mails : m.delivery \in 1 .. deliveries
  BY DEF TypeInv, TypeOK, PastOK
<1>4. ASSUME NEW e \in Event
      PROVE  Cardinality(Attempts(e)') <= Bound(e)'
  <2>1. CASE e = f
    <3>1. Attempts(e)' \subseteq Attempts(e) \cup {deliveries + 1}
      <4> SUFFICES ASSUME NEW d \in Attempts(e)', d # deliveries + 1 PROVE d \in Attempts(e)
        OBVIOUS
      <4>1. d \in 1 .. deliveries
        BY <1>1, <1>3 DEF Attempts
      <4> QED
        BY <1>1, <4>1 DEF Attempts, At
    <3>2. /\ IsFiniteSet(Attempts(e) \cup {deliveries + 1})
          /\ Cardinality(Attempts(e)) \in Nat
          /\ Cardinality(Attempts(e) \cup {deliveries + 1}) <= Cardinality(Attempts(e)) + 1
      <4>1. IsFiniteSet(Attempts(e)) /\ Cardinality(Attempts(e)) \in Nat
        BY AttemptsFinite
      <4>2. deliveries + 1 \notin Attempts(e)
        BY <1>3 DEF Attempts
      <4>3. /\ IsFiniteSet(Attempts(e) \cup {deliveries + 1})
            /\ Cardinality(Attempts(e) \cup {deliveries + 1}) = Cardinality(Attempts(e)) + 1
        BY <4>1, <4>2, FS_AddElement
      <4> QED
        BY <4>1, <4>3
    <3>3. /\ Cardinality(Attempts(e)') \in Nat
          /\ Cardinality(Attempts(e) \cup {deliveries + 1}) \in Nat
          /\ Cardinality(Attempts(e)') <= Cardinality(Attempts(e) \cup {deliveries + 1})
      BY <3>1, <3>2, FS_Subset, FS_CardinalityType
    <3>4. Cardinality(Attempts(e)) <= Interruptions
      BY <1>1, <2>1 DEF RepeatInv, Bound, TypeInv, TypeOK
    <3>5. ~Ready(e)' /\ Interruptions' = Interruptions
      BY <1>1, <2>1 DEF Ready, Interruptions
    <3>6. Bound(e)' = Interruptions + 1
      BY <3>5 DEF Bound
    <3> QED
      BY <3>2, <3>3, <3>4, <3>6, InterruptionsType
  <2>2. CASE e # f
    <3>1. Attempts(e)' \subseteq Attempts(e)
      <4> SUFFICES ASSUME NEW d \in Attempts(e)' PROVE d \in Attempts(e)
        OBVIOUS
      <4>1. CASE \E m \in mails : m.event = e /\ m.delivery = d
        BY <1>3, <4>1 DEF Attempts
      <4>2. CASE ~\E m \in mails : m.event = e /\ m.delivery = d
        <5>1. PICK g \in Handler : At(g, "mail")' /\ handlers'[g].event = e /\ handlers'[g].delivery = d
          BY <1>1, <4>2 DEF Attempts
        <5>2. handlers'[g] = handlers[g]
          BY <1>1, <2>2, <5>1
        <5>3. d \in 1 .. deliveries
          BY <5>1, <5>2 DEF At, TypeInv, BusyOK
        <5> QED
          BY <5>1, <5>2, <5>3 DEF Attempts, At
      <4> QED
        BY <4>1, <4>2
    <3>2. Ready(e)' => Ready(e)
      BY <1>1, <2>2 DEF Ready
    <3>3. Interruptions' = Interruptions
      BY <1>1 DEF Interruptions
    <3> QED
      BY <3>1, <3>2, <3>3, BoundStays
  <2> QED
    BY <2>1, <2>2
<1> QED
  BY <1>2, <1>4 DEF RepeatInv

LEMMA RepeatRun ==
  ASSUME TypeInv, TypeInv', RepeatInv, NEW h \in Handler, Run(h)
  PROVE  RepeatInv'
<1>1. /\ UNCHANGED <<published, deliveries, crashes, connectionLosses>>
      /\ ~At(h, "idle") /\ ~At(h, "mail")'
      /\ At(h, "idle")' => ~handlers'[h].owns
      /\ \A g \in Handler : g # h => handlers'[g] = handlers[g]
      /\ mails' = mails \/ (At(h, "mail") /\ mails' = mails \cup {MailOf(h)})
  BY RunEffect DEF interruptions
<1>2. \A g \in Handler : At(g, "idle")' => ~handlers'[g].owns
  BY <1>1 DEF RepeatInv, At
<1>3. ASSUME NEW e \in Event
      PROVE  Cardinality(Attempts(e)') <= Bound(e)'
  <2>1. Attempts(e)' \subseteq Attempts(e)
    <3> SUFFICES ASSUME NEW d \in Attempts(e)' PROVE d \in Attempts(e)
      OBVIOUS
    <3>1. d \in 1 .. deliveries
      BY <1>1 DEF Attempts
    <3>2. CASE \E m \in mails' : m.event = e /\ m.delivery = d
      BY <1>1, <3>1, <3>2 DEF Attempts, MailOf
    <3>3. CASE ~\E m \in mails' : m.event = e /\ m.delivery = d
      <4>1. PICK g \in Handler : At(g, "mail")' /\ handlers'[g].event = e /\ handlers'[g].delivery = d
        BY <3>3 DEF Attempts
      <4>2. handlers'[g] = handlers[g]
        BY <1>1, <4>1
      <4> QED
        BY <3>1, <4>1, <4>2 DEF Attempts, At
    <3> QED
      BY <3>2, <3>3
  <2>2. Ready(e)' => Ready(e)
    <3> SUFFICES ASSUME Ready(e)', NEW g \in Handler, handlers[g].owns, handlers[g].event = e
                 PROVE  FALSE
      BY <1>1, SettledEffect DEF Ready
    <3>1. g = h
      BY <1>1 DEF Ready
    <3>2. CASE At(h, "idle")'
      BY <3>1, <3>2, SettledEffect DEF Ready
    <3>3. CASE ~At(h, "idle")'
      BY <3>1, <3>3, RunEffect DEF Ready
    <3> QED
      BY <3>2, <3>3
  <2>3. Interruptions' = Interruptions
    BY <1>1 DEF Interruptions
  <2> QED
    BY <2>1, <2>2, <2>3, BoundStays
<1> QED
  BY <1>2, <1>3 DEF RepeatInv

LEMMA RepeatInterruption ==
  ASSUME TypeInv, TypeInv', RepeatInv, Crash \/ ConnectionLost
  PROVE  RepeatInv'
<1>1. /\ UNCHANGED <<deliveries, mails>>
      /\ \A h \in Handler : ~handlers'[h].owns
      /\ \A h \in Handler : At(h, "mail")' =>
           /\ At(h, "mail")
           /\ handlers'[h].event = handlers[h].event
           /\ handlers'[h].delivery = handlers[h].delivery
  <2>1. CASE Crash
    BY <2>1 DEF Crash, IdleHandler, At
  <2>2. CASE ConnectionLost
    BY <2>2, LossEffect DEF ConnectionLost, At
  <2> QED
    BY <2>1, <2>2
<1>2. Interruptions' = Interruptions + 1
  BY DEF Crash, ConnectionLost, TypeInv, TypeOK, Interruptions
<1>3. ASSUME NEW e \in Event
      PROVE  Cardinality(Attempts(e)') <= Bound(e)'
  <2>1. Attempts(e)' \subseteq Attempts(e)
    BY <1>1 DEF Attempts
  <2> QED
    BY <1>2, <2>1, BoundStays
<1> QED
  BY <1>1, <1>3 DEF RepeatInv

LEMMA RepeatStep == TypeInv /\ TypeInv' /\ RepeatInv /\ [Next]_vars => RepeatInv'
<1> SUFFICES ASSUME TypeInv, TypeInv', RepeatInv, [Next]_vars PROVE RepeatInv'
  OBVIOUS
<1>1. CASE UNCHANGED vars
  BY <1>1 DEF vars, RepeatInv, Attempts, Ready, Bound, Interruptions, At, interruptions
<1> QED
  BY <1>1, RepeatPublish, RepeatDeliver, RepeatRun, RepeatInterruption DEF Next, Consumer

\* A message is mailed once, and once more at most for each interruption.
THEOREM RepeatSafe == Spec => []RepeatsNeedInterruption
<1>1. ASSUME Init PROVE RepeatInv
  <2>1. \A e \in Event : Attempts(e) = {}
    BY <1>1 DEF Init, Attempts
  <2> QED
    BY <1>1, <2>1, FS_EmptySet DEF Init, RepeatInv, Bound, Interruptions, IdleHandler
<1>2. Spec => []RepeatInv
  BY <1>1, TypeInvariant, RepeatStep, PTL DEF Spec
<1>3. ASSUME TypeInv, RepeatInv PROVE RepeatsNeedInterruption
  <2> SUFFICES ASSUME NEW e \in Event
               PROVE  Cardinality(MailsOf(e)) <= 1 + crashes + connectionLosses
    BY DEF RepeatsNeedInterruption
  <2>1. Cardinality(Attempts(e)) \in Nat /\ Cardinality(Attempts(e)) <= 1 + crashes + connectionLosses
    BY <1>3, AttemptsFinite DEF RepeatInv, Bound, Interruptions, TypeInv, TypeOK
  <2>2. Cardinality(MailsOf(e)) \in Nat /\ Cardinality(MailsOf(e)) <= Cardinality(Attempts(e))
    BY <1>3, MailsAreAttempts
  <2> QED
    BY <1>3, <2>1, <2>2 DEF TypeInv, TypeOK
<1> QED
  BY <1>2, <1>3, TypeInvariant, PTL

-------------------------------------------------------------------------------
(* What bounds the work on a delivery, and how the queue is used.          *)

\* How many steps a handler has in front of it at most, its ack included.
StepsLeft(step) ==
  CASE step = "mail"                     -> 3
    [] step \in {"logSent", "logFailed"} -> 2
    [] step = "settle"                   -> 1
    [] OTHER                             -> 0

\* No handling goes round in circles: whatever its calls return, every step of
\* a handler, with or without its channel, leaves it with fewer to go.
HandlingEnds ==
  [][\A h \in Handler :
       handlers'[h].pc # handlers[h].pc =>
         At(h, "idle") \/ StepsLeft(handlers'[h].pc) < StepsLeft(handlers[h].pc)]_vars

\* A step of a handler is its ack, or it keeps the event and has fewer to go.
LEMMA RunLeaves ==
  ASSUME TypeInv, NEW h \in Handler, Run(h)
  PROVE  /\ UNCHANGED published /\ ~At(h, "idle")
         /\ \A g \in Handler \ {h} : handlers'[g] = handlers[g]
         /\ StepsLeft(handlers'[h].pc) < StepsLeft(handlers[h].pc)
         /\ \/ /\ handlers'[h] = IdleHandler
               /\ settled' = IF handlers[h].owns THEN settled \cup {handlers[h].event} ELSE settled
            \/ /\ settled' = settled
               /\ handlers'[h].owns = handlers[h].owns /\ handlers'[h].event = handlers[h].event
               /\ handlers'[h].pc # "idle"
<1> USE DEF TypeInv, TypeOK, HandlerState, At, Goto, StepsLeft
<1>1. CASE NotASuccess(h)
  BY <1>1 DEF NotASuccess
<1>2. CASE SendMail(h)
  BY <1>2 DEF SendMail
<1>3. CASE SendMailFails(h)
  BY <1>3 DEF SendMailFails
<1>4. CASE RecordSent(h)
  BY <1>4 DEF RecordSent
<1>5. CASE RecordFailed(h)
  BY <1>5 DEF RecordFailed
<1>6. CASE RecordFails(h)
  BY <1>6 DEF RecordFails
<1>7. CASE Settle(h)
  BY <1>7 DEF Settle, IdleHandler
<1> QED
  BY <1>1, <1>2, <1>3, <1>4, <1>5, <1>6, <1>7 DEF Run

\* Every handling ends, after three steps at most.
THEOREM HandlingSafe == Spec => HandlingEnds
<1>1. TypeInv /\ [Next]_vars =>
        [\A h \in Handler :
           handlers'[h].pc # handlers[h].pc =>
             At(h, "idle") \/ StepsLeft(handlers'[h].pc) < StepsLeft(handlers[h].pc)]_vars
  <2> SUFFICES ASSUME TypeInv, Next, NEW h \in Handler,
                      handlers'[h].pc # handlers[h].pc, ~At(h, "idle")
               PROVE  StepsLeft(handlers'[h].pc) < StepsLeft(handlers[h].pc)
    BY DEF vars
  <2>1. ASSUME NEW g \in Handler, Run(g)
        PROVE  StepsLeft(handlers'[h].pc) < StepsLeft(handlers[h].pc)
    <3>1. g = h
      BY <2>1, RunLeaves
    <3> QED
      BY <2>1, <3>1, RunLeaves
  <2>2. CASE Crash
    BY <2>2 DEF Crash, IdleHandler, StepsLeft, At, TypeInv, TypeOK, HandlerState
  <2>3. ~ConnectionLost
    BY DEF ConnectionLost, TypeInv, TypeOK, HandlerState
  <2>4. ~\E g \in Handler, e \in published : Deliver(g, e)
    BY DEF Deliver, At, TypeInv, TypeOK
  <2> QED
    BY <2>1, <2>2, <2>3, <2>4 DEF Next, Consumer, Publish
<1> QED
  BY <1>1, TypeInvariant, PTL DEF Spec, HandlingEnds

\* The events in the hands of a delivery whose ack counts.
Owns(h, e) == handlers[h].owns /\ handlers[h].event = e
Held == {e \in Event : \E h \in Handler : Owns(h, e)}

Queue == INSTANCE AtLeastOnceQueue WITH
  Message <- Event, published <- published, held <- Held

\* An event has one owner at a time, which is busy, until it is settled.
OwnerInv ==
  /\ \A h \in Handler : handlers[h].owns => ~At(h, "idle") /\ handlers[h].event \notin settled
  /\ \A g, h \in Handler :
       handlers[g].owns /\ handlers[h].owns /\ handlers[g].event = handlers[h].event => g = h

LEMMA OwnerRun ==
  ASSUME TypeInv, OwnerInv, NEW h \in Handler, Run(h)
  PROVE  OwnerInv'
<1> USE DEF OwnerInv, At
<1>1. CASE handlers'[h] = IdleHandler
  BY <1>1, RunLeaves DEF IdleHandler
<1>2. CASE handlers'[h] # IdleHandler
  <2>1. /\ settled' = settled /\ handlers'[h].pc # "idle"
        /\ handlers'[h].owns = handlers[h].owns /\ handlers'[h].event = handlers[h].event
    BY <1>2, RunLeaves
  <2>2. \A g \in Handler \ {h} : handlers'[g] = handlers[g]
    BY RunLeaves
  <2>3. \A g \in Handler : /\ handlers'[g].owns = handlers[g].owns
                          /\ handlers'[g].event = handlers[g].event
    BY <2>1, <2>2
  <2>4. ASSUME NEW g \in Handler, handlers'[g].owns
        PROVE  handlers'[g].pc # "idle" /\ handlers'[g].event \notin settled'
    <3>1. handlers[g].owns
      BY <2>3, <2>4, Zenon
    <3>2. handlers[g].pc # "idle" /\ handlers[g].event \notin settled
      BY <3>1
    <3> QED
      BY <2>1, <2>2, <2>3, <3>2
  <2>5. ASSUME NEW f \in Handler, NEW g \in Handler, handlers'[f].owns, handlers'[g].owns,
               handlers'[f].event = handlers'[g].event
        PROVE  f = g
    <3>1. handlers[f].owns /\ handlers[g].owns
      BY <2>3, <2>5, Zenon
    <3>2. handlers[f].event = handlers[g].event
      BY <2>3, <2>5
    <3> QED
      BY <3>1, <3>2
  <2> QED
    BY <2>4, <2>5
<1> QED
  BY <1>1, <1>2

LEMMA OwnerStep == TypeInv /\ OwnerInv /\ [Next]_vars => OwnerInv'
<1> SUFFICES ASSUME TypeInv, OwnerInv, [Next]_vars PROVE OwnerInv'
  OBVIOUS
<1> USE DEF OwnerInv, At
<1>1. ASSUME NEW e \in Event, Publish(e) PROVE OwnerInv'
  BY <1>1 DEF Publish
<1>2. ASSUME NEW h \in Handler, NEW e \in published, Deliver(h, e) PROVE OwnerInv'
  BY <1>2 DEF Deliver, Ready, TypeInv, TypeOK, HandlerState
<1>3. ASSUME NEW h \in Handler, Run(h) PROVE OwnerInv'
  BY <1>3, OwnerRun
<1>4. CASE Crash
  BY <1>4 DEF Crash, IdleHandler
<1>5. CASE ConnectionLost
  <2>1. \A h \in Handler : ~handlers'[h].owns
    BY <1>5 DEF ConnectionLost, TypeInv, TypeOK, HandlerState
  <2> QED
    BY <2>1
<1>6. CASE UNCHANGED vars
  BY <1>6 DEF vars
<1> QED
  BY <1>1, <1>2, <1>3, <1>4, <1>5, <1>6 DEF Next, Consumer

LEMMA OwnerInvariant == Spec => []OwnerInv
<1>1. Init => OwnerInv
  BY DEF Init, OwnerInv, IdleHandler
<1> QED
  BY <1>1, TypeInvariant, OwnerStep, PTL DEF Spec

\* A step of a handler settles what it owns, or leaves the queue alone.
LEMMA RunQueue ==
  ASSUME TypeInv, OwnerInv, NEW h \in Handler, Run(h)
  PROVE  [Queue!Next]_(Queue!vars)
<1>1. CASE handlers'[h] = IdleHandler /\ handlers[h].owns
           /\ settled' = settled \cup {handlers[h].event}
  <2>1. PICK e : e = handlers[h].event
    OBVIOUS
  <2>2. e \in Event /\ Owns(h, e) /\ e \in Held
    BY <1>1, <2>1, RunLeaves DEF TypeInv, TypeOK, BusyOK, At, Held, Owns
  <2>3. \A g \in Handler : \A v : Owns(g, v)' <=> Owns(g, v) /\ g # h
    BY <1>1, RunLeaves DEF Owns, IdleHandler
  <2>4. \A g \in Handler : Owns(g, e) => g = h
    BY <2>2 DEF OwnerInv, Owns
  <2>5. Held' = Held \ {e}
    BY <2>1, <2>2, <2>3, <2>4 DEF Held, Owns
  <2>6. Queue!Settle(e)
    BY <1>1, <2>1, <2>2, <2>5, RunLeaves DEF Queue!Settle
  <2> QED
    BY <2>2, <2>6 DEF Queue!Next
<1>2. CASE handlers'[h].owns = handlers[h].owns /\ handlers'[h].event = handlers[h].event
           /\ settled' = settled
  <2>1. \A g \in Handler : \A v : Owns(g, v)' <=> Owns(g, v)
    BY <1>2, RunLeaves DEF Owns
  <2> QED
    BY <1>2, <2>1, RunLeaves DEF Held, Queue!vars
<1>3. CASE ~handlers[h].owns /\ handlers'[h] = IdleHandler /\ settled' = settled
  <2>1. \A g \in Handler : \A v : Owns(g, v)' <=> Owns(g, v)
    BY <1>3, RunLeaves DEF Owns, IdleHandler
  <2> QED
    BY <1>3, <2>1, RunLeaves DEF Held, Queue!vars
<1> QED
  BY <1>1, <1>2, <1>3, RunLeaves

\* However many handlers there are, with and without a channel, the service
\* uses its queue as an at-least-once consumer must: no event is in the hands
\* of two deliveries whose acks count, and none comes back once it is settled.
THEOREM QueueImplemented == Spec => Queue!Spec
<1>1. Init => Queue!Init
  BY DEF Init, Queue!Init, Held, Owns, IdleHandler
<1>2. TypeInv /\ OwnerInv /\ [Next]_vars => [Queue!Next]_(Queue!vars)
  <2> SUFFICES ASSUME TypeInv, OwnerInv, [Next]_vars PROVE [Queue!Next]_(Queue!vars)
    OBVIOUS
  <2>1. ASSUME NEW e \in Event, Publish(e) PROVE Queue!Publish(e)
    BY <2>1 DEF Publish, Queue!Publish, Held, Owns
  <2>2. ASSUME NEW h \in Handler, NEW e \in published, Deliver(h, e) PROVE Queue!Deliver(e)
    <3>1. e \in published \ (settled \cup Held) /\ UNCHANGED <<published, settled>>
      BY <2>2 DEF Deliver, Ready, Held, Owns
    <3>2. ~handlers[h].owns /\ e \in Event
      BY <2>2 DEF Deliver, OwnerInv, TypeInv, TypeOK
    <3>3. /\ \A g \in Handler \ {h} : handlers'[g] = handlers[g]
          /\ handlers'[h].owns /\ handlers'[h].event = e
      BY <2>2 DEF Deliver, TypeInv, TypeOK
    <3>4. Held' = Held \cup {e}
      BY <3>2, <3>3 DEF Held, Owns
    <3> QED
      BY <3>1, <3>4 DEF Queue!Deliver
  <2>3. CASE Crash \/ ConnectionLost
    <3>1. \A h \in Handler : ~handlers'[h].owns
      BY <2>3 DEF Crash, ConnectionLost, IdleHandler, TypeInv, TypeOK, HandlerState
    <3>2. Held' = {}
      BY <3>1 DEF Held, Owns
    <3>3. Queue!GiveBack
      BY <2>3, <3>2 DEF Crash, ConnectionLost, Queue!GiveBack
    <3> QED
      BY <3>3 DEF Queue!Next
  <2>4. CASE UNCHANGED vars
    BY <2>4 DEF vars, Queue!vars, Held, Owns
  <2>5. published \subseteq Event
    BY DEF TypeInv, TypeOK
  <2> QED
    BY <2>1, <2>2, <2>3, <2>4, <2>5, RunQueue DEF Next, Consumer, Queue!Next
<1> QED
  BY <1>1, <1>2, TypeInvariant, OwnerInvariant, PTL DEF Spec, Queue!Spec
===============================================================================
