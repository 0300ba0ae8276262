--------------------------- MODULE AuthResultProofs ---------------------------
(***************************************************************************)
(* What the consumer of status events guarantees for every set of users    *)
(* and handlers and every number of events, updates and interruptions.     *)
(***************************************************************************)
EXTENDS AuthResult, TLAPS

USE StrangersAssumption, ProfileAssumption, BoundsAssumption

LEMMA BlankDocument == Blank \in Document
  BY DEF Blank, Document

\* What save() leaves of each field.
LEMMA SavedFields ==
  ASSUME NEW stored \in Document, NEW read \in Document, NEW changed \in Document
  PROVE  /\ Saved(stored, read, changed) \in Document
         /\ Saved(stored, read, changed).authStatus =
              IF changed.authStatus # read.authStatus
                THEN changed.authStatus ELSE stored.authStatus
         /\ Saved(stored, read, changed).failureReason =
              IF changed.failureReason # read.failureReason
                THEN changed.failureReason ELSE stored.failureReason
         /\ Saved(stored, read, changed).profile =
              IF changed.profile # read.profile
                THEN changed.profile ELSE stored.profile
  BY DEF Saved, Document

\* A busy handler has an event that was published in hand.
BusyOK ==
  \A h \in Handler : ~At(h, "idle") => handlers[h].event \in results

TypeInv == TypeOK /\ BusyOK

LEMMA ChangedDocument ==
  ASSUME TypeInv, NEW h \in Handler, At(h, "save")
  PROVE  /\ Changed(h) \in Document
         /\ Changed(h).profile = handlers[h].read.profile
         /\ Succeeded(h) => /\ Changed(h).authStatus = "active"
                            /\ Changed(h).failureReason = handlers[h].read.failureReason
         /\ ~Succeeded(h) => /\ Changed(h).authStatus = "failed"
                             /\ Changed(h).failureReason = handlers[h].event.delivery
  BY DEF TypeInv, TypeOK, BusyOK, HandlerState, Document, StatusEvent, Changed, At

\* What a handler saves.
LEMMA SaveEffect ==
  ASSUME TypeInv, NEW h \in Handler, Save(h)
  PROVE  LET u == UserOf(h)
             d == Saved(users[u], handlers[h].read, Changed(h))
         IN  /\ u \in User
             /\ handlers[h].event \in results
             /\ d \in Document
             /\ users' = [users EXCEPT ![u] = d]
             /\ d.profile = users[u].profile
             /\ Succeeded(h) =>
                  /\ d.authStatus = IF handlers[h].read.authStatus = "active"
                                      THEN users[u].authStatus ELSE "active"
                  /\ d.failureReason = users[u].failureReason
             /\ ~Succeeded(h) =>
                  /\ d.authStatus = IF handlers[h].read.authStatus = "failed"
                                      THEN users[u].authStatus ELSE "failed"
                  /\ d.failureReason =
                       IF handlers[h].read.failureReason = handlers[h].event.delivery
                         THEN users[u].failureReason ELSE handlers[h].event.delivery
<1>1. At(h, "save") /\ handlers[h].event \in results /\ UserOf(h) \in User
  BY DEF Save, At, TypeInv, BusyOK, TypeOK, StatusEvent, UserOf
<1>2. users[UserOf(h)] \in Document /\ handlers[h].read \in Document
  BY <1>1 DEF TypeInv, TypeOK, HandlerState
<1>3. users' = [users EXCEPT ![UserOf(h)] =
                  Saved(users[UserOf(h)], handlers[h].read, Changed(h))]
  BY DEF Save
<1> HIDE DEF Saved, Changed, Succeeded
<1> QED
  BY <1>1, <1>2, <1>3, ChangedDocument, SavedFields

LEMMA TypeInit == Init => TypeInv
  BY BlankDocument DEF Init, TypeInv, TypeOK, BusyOK, At, IdleHandler, HandlerState

LEMMA TypeStep == TypeInv /\ [Next]_vars => TypeInv'
<1> SUFFICES ASSUME TypeInv, [Next]_vars PROVE TypeInv'
  OBVIOUS
<1> USE BlankDocument DEF TypeInv, TypeOK, BusyOK, At, Goto, HandlerState, bounds
<1>1. ASSUME NEW u \in User, NEW p \in Profile, CreateUser(u, p) PROVE TypeInv'
  BY <1>1 DEF CreateUser, Document
<1>2. ASSUME NEW u \in User, NEW p \in Profile, UpdateProfile(u, p) PROVE TypeInv'
  BY <1>2 DEF UpdateProfile, Document
<1>3. ASSUME NEW u \in User, NEW status \in {"SUCCESS", "FAILED"}, NEW d \in Delivery,
             Publish(u, status, d)
      PROVE  TypeInv'
  BY <1>3 DEF Publish, StatusEvent
<1>4. ASSUME NEW h \in Handler, NEW e \in results, Deliver(h, e) PROVE TypeInv'
  BY <1>4 DEF Deliver
<1>5. ASSUME NEW h \in Handler, FindSkipped(h) PROVE TypeInv'
  BY <1>5 DEF FindSkipped
<1>6. ASSUME NEW h \in Handler, Find(h) PROVE TypeInv'
  <2>1. handlers[h].event \in results /\ users[UserOf(h)] \in Document
    BY <1>6 DEF Find, UserOf, StatusEvent
  <2>2. PICK d \in Document : handlers' = [handlers EXCEPT ![h].pc = "save", ![h].read = d]
    BY <1>6, <2>1 DEF Find
  <2>3. At(h, "find") /\ UNCHANGED <<users, results, settled, dropped, bounds>>
    BY <1>6 DEF Find
  <2>4. TypeOK'
    BY <2>2, <2>3
  <2>5. BusyOK'
    BY <2>1, <2>2, <2>3
  <2> QED
    BY <2>4, <2>5
<1>7. ASSUME NEW h \in Handler, Save(h) PROVE TypeInv'
  <2>1. PICK d \in Document : users' = [users EXCEPT ![UserOf(h)] = d]
    BY <1>7, SaveEffect
  <2>2. PICK step \in {"ack", "nack"} : handlers' = [handlers EXCEPT ![h].pc = step]
    BY <1>7 DEF Save
  <2>3. At(h, "save") /\ UNCHANGED <<results, settled, dropped, bounds>>
    BY <1>7 DEF Save
  <2>4. TypeOK'
    BY <2>1, <2>2, <2>3
  <2>5. BusyOK'
    BY <2>2, <2>3
  <2> QED
    BY <2>4, <2>5
<1>8. ASSUME NEW h \in Handler, CallFails(h) PROVE TypeInv'
  BY <1>8, FallibleAssumption DEF CallFails
<1>9. ASSUME NEW h \in Handler, Settle(h) PROVE TypeInv'
  BY <1>9 DEF Settle, IdleHandler
<1>10. CASE Crash
  BY <1>10 DEF Crash, IdleHandler
<1>11. CASE ConnectionLost
  <2>1. \A h \in Handler : /\ handlers'[h] = [handlers[h] EXCEPT !.owns = FALSE]
                           /\ handlers'[h] \in HandlerState
    BY <1>11 DEF ConnectionLost
  <2> QED
    BY <1>11, <2>1 DEF ConnectionLost
<1>12. CASE UNCHANGED vars
  BY <1>12 DEF vars
<1> HIDE DEF TypeInv, TypeOK, BusyOK, At, Goto, HandlerState, bounds
<1> QED
  BY <1>1, <1>2, <1>3, <1>4, <1>5, <1>6, <1>7, <1>8, <1>9, <1>10, <1>11, <1>12
  DEF Next, Environment, Consumer, Run

LEMMA TypeInvariant == Spec => []TypeInv
  BY TypeInit, TypeStep, PTL DEF Spec

\* The variables keep their types.
THEOREM TypeCorrect == Spec => []TypeOK
<1>1. TypeInv => TypeOK
  BY DEF TypeInv
<1> QED
  BY <1>1, TypeInvariant, PTL

-------------------------------------------------------------------------------
(* A status has a cause.                                                   *)

\* The two kinds of evidence for a status, as functions of the events published.
Succeeds(events, u) == \E r \in events : r.user = u /\ r.status = "SUCCESS"
Fails(events, u, n) ==
  \E r \in events : r.user = u /\ r.status = "FAILED" /\ r.delivery = n

LEMMA EvidenceStays ==
  ASSUME NEW S, NEW T, S \subseteq T, NEW u, NEW n
  PROVE  (Succeeds(S, u) => Succeeds(T, u)) /\ (Fails(S, u, n) => Fails(T, u, n))
  BY DEF Succeeds, Fails

\* A reason, once set, stays set to the delivery of a FAILED event; a handler
\* that read a reason read one that is still set.
DocumentCause(u) ==
  /\ users[u].authStatus = "active" => Succeeds(results, u)
  /\ users[u].authStatus = "failed" => users[u].failureReason # 0
  /\ users[u].failureReason # 0 => Fails(results, u, users[u].failureReason)

ReadCause(h) ==
  At(h, "save") =>
    /\ users[UserOf(h)].authStatus # "none"
    /\ handlers[h].read.failureReason # 0 => users[UserOf(h)].failureReason # 0
    /\ handlers[h].read.authStatus = "failed" => users[UserOf(h)].failureReason # 0
    /\ handlers[h].read.authStatus = "active" => Succeeds(results, UserOf(h))

CauseInv == (\A u \in User : DocumentCause(u)) /\ (\A h \in Handler : ReadCause(h))

LEMMA BlankFields == Blank.authStatus = "none" /\ Blank.failureReason = 0
  BY DEF Blank

LEMMA CauseInit == Init => CauseInv
<1> SUFFICES ASSUME Init PROVE CauseInv
  OBVIOUS
<1>1. ASSUME NEW u \in User PROVE DocumentCause(u)
  BY BlankFields DEF Init, DocumentCause
<1>2. ASSUME NEW h \in Handler PROVE ReadCause(h)
  BY DEF Init, ReadCause, IdleHandler, At
<1> QED
  BY <1>1, <1>2 DEF CauseInv

\* What Run, Deliver, Crash and ConnectionLost leave alone, when they neither
\* read nor write a document.
SamePlace ==
  /\ UNCHANGED <<users, results>>
  /\ \A h \in Handler : At(h, "save")' =>
       /\ At(h, "save")
       /\ handlers'[h].read = handlers[h].read
       /\ handlers'[h].event = handlers[h].event

LEMMA SamePlaceSteps ==
  ASSUME TypeInv, [Next]_vars
  PROVE  \/ SamePlace
         \/ \E u \in User, p \in Profile : CreateUser(u, p) \/ UpdateProfile(u, p)
         \/ \E u \in User, status \in {"SUCCESS", "FAILED"}, d \in Delivery :
              Publish(u, status, d)
         \/ \E h \in Handler : Find(h) \/ Save(h)
<1> USE DEF SamePlace, At, Goto, TypeInv, TypeOK
<1>1. ASSUME NEW h \in Handler, NEW e \in results, Deliver(h, e) PROVE SamePlace
  BY <1>1 DEF Deliver
<1>2. ASSUME NEW h \in Handler, FindSkipped(h) \/ CallFails(h) \/ Settle(h) PROVE SamePlace
  <2>1. CASE FindSkipped(h)
    BY <2>1 DEF FindSkipped
  <2>2. CASE CallFails(h)
    BY <2>2 DEF CallFails
  <2>3. CASE Settle(h)
    BY <2>3 DEF Settle, IdleHandler
  <2> QED
    BY <1>2, <2>1, <2>2, <2>3
<1>3. CASE Crash
  BY <1>3 DEF Crash, IdleHandler
<1>4. CASE ConnectionLost
  <2>1. \A h \in Handler : /\ handlers'[h].pc = handlers[h].pc
                           /\ handlers'[h].read = handlers[h].read
                           /\ handlers'[h].event = handlers[h].event
    BY <1>4 DEF ConnectionLost, HandlerState
  <2> QED
    BY <1>4, <2>1 DEF ConnectionLost
<1>5. CASE UNCHANGED vars
  BY <1>5 DEF vars
<1> QED
  BY <1>1, <1>2, <1>3, <1>4, <1>5 DEF Next, Environment, Consumer, Run

LEMMA CauseStep == TypeInv /\ CauseInv /\ [Next]_vars => CauseInv'
<1> SUFFICES ASSUME TypeInv, CauseInv, [Next]_vars PROVE CauseInv'
  OBVIOUS
<1> USE DEF CauseInv
<1>1. CASE SamePlace
  <2>1. ASSUME NEW u \in User PROVE DocumentCause(u)'
    BY <1>1 DEF SamePlace, DocumentCause
  <2>2. ASSUME NEW h \in Handler PROVE ReadCause(h)'
    BY <1>1 DEF SamePlace, ReadCause, UserOf
  <2> QED
    BY <2>1, <2>2
<1>2. ASSUME NEW v \in User, NEW p \in Profile, CreateUser(v, p) \/ UpdateProfile(v, p)
      PROVE  CauseInv'
  <2>1. /\ handlers' = handlers /\ results' = results
        /\ \A u \in User : \/ /\ users'[u].authStatus = users[u].authStatus
                              /\ users'[u].failureReason = users[u].failureReason
                           \/ /\ users[u].authStatus = "none"
                              /\ users'[u].authStatus = "pending"
                              /\ users'[u].failureReason = 0
    BY <1>2 DEF CreateUser, UpdateProfile, TypeInv, TypeOK, Document
  <2>2. ASSUME NEW u \in User PROVE DocumentCause(u)'
    BY <2>1, <2>2 DEF DocumentCause
  <2>3. ASSUME NEW h \in Handler, At(h, "save") PROVE UserOf(h) \in User
    BY <2>3 DEF TypeInv, TypeOK, BusyOK, StatusEvent, At, UserOf
  <2>4. ASSUME NEW h \in Handler PROVE ReadCause(h)'
    BY <2>1, <2>3 DEF ReadCause, UserOf, At
  <2> QED
    BY <2>2, <2>4
<1>3. ASSUME NEW v \in User, NEW status \in {"SUCCESS", "FAILED"}, NEW d \in Delivery,
             Publish(v, status, d)
      PROVE  CauseInv'
  <2>1. handlers' = handlers /\ users' = users /\ results \subseteq results'
    BY <1>3 DEF Publish
  <2>2. ASSUME NEW u \in User PROVE DocumentCause(u)'
    BY <2>1, EvidenceStays DEF DocumentCause
  <2>3. ASSUME NEW h \in Handler PROVE ReadCause(h)'
    BY <2>1, EvidenceStays DEF ReadCause, UserOf, At
  <2> QED
    BY <2>2, <2>3
<1>4. ASSUME NEW g \in Handler, Find(g) PROVE CauseInv'
  <2>1. /\ users' = users /\ results' = results
        /\ handlers'[g].event = handlers[g].event
        /\ handlers'[g].read = users[UserOf(g)]
        /\ users[UserOf(g)].authStatus # "none"
        /\ \A h \in Handler : h # g => handlers'[h] = handlers[h]
    BY <1>4 DEF Find, Skips, TypeInv, TypeOK, HandlerState
  <2>2. UserOf(g) \in User
    BY <1>4 DEF Find, TypeInv, TypeOK, BusyOK, StatusEvent, At, UserOf
  <2>3. ASSUME NEW u \in User PROVE DocumentCause(u)'
    BY <2>1 DEF DocumentCause
  <2>4. ASSUME NEW h \in Handler PROVE ReadCause(h)'
    <3>1. CASE h = g
      BY <2>1, <2>2, <3>1 DEF ReadCause, DocumentCause, UserOf
    <3>2. CASE h # g
      BY <2>1, <3>2 DEF ReadCause, UserOf, At
    <3> QED
      BY <3>1, <3>2
  <2> QED
    BY <2>3, <2>4
<1>5. ASSUME NEW g \in Handler, Save(g) PROVE CauseInv'
  <2>0. PICK v \in User : v = UserOf(g)
    BY <1>5, SaveEffect
  <2> DEFINE n == handlers[g].event.delivery
  <2>1. /\ results' = results
        /\ n # 0
        /\ \A u \in User : u # v => users'[u] = users[u]
        /\ \A h \in Handler : At(h, "save")' => h # g
        /\ \A h \in Handler : h # g => handlers'[h] = handlers[h]
    <3>1. \A u \in User : u # v => users'[u] = users[u]
      BY <1>5, <2>0, SaveEffect DEF TypeInv, TypeOK
    <3>2. n # 0
      BY <1>5, SaveEffect DEF TypeInv, TypeOK, StatusEvent
    <3>3. /\ results' = results
          /\ \E step \in {"ack", "nack"} : handlers' = [handlers EXCEPT ![g].pc = step]
      BY <1>5 DEF Save, Goto
    <3>4. /\ handlers'[g].pc # "save"
          /\ \A h \in Handler : h # g => handlers'[h] = handlers[h]
      BY <3>3 DEF TypeInv, TypeOK, HandlerState
    <3> QED
      BY <3>1, <3>2, <3>3, <3>4 DEF At
  <2>2. ReadCause(g) /\ DocumentCause(v) /\ At(g, "save")
    BY <1>5 DEF Save
  <2>3. /\ users'[v].authStatus # "none"
        /\ users[v].failureReason # 0 => users'[v].failureReason # 0
        /\ DocumentCause(v)'
    <3>1. CASE Succeeded(g)
      <4>1. Succeeds(results, v)
        BY <1>5, <2>0, <3>1, SaveEffect DEF Succeeds, Succeeded, UserOf
      <4>2. /\ users'[v].failureReason = users[v].failureReason
            /\ users'[v].authStatus \in {users[v].authStatus, "active"}
        BY <1>5, <2>0, <3>1, SaveEffect DEF TypeInv, TypeOK
      <4> QED
        BY <2>0, <2>1, <2>2, <4>1, <4>2 DEF ReadCause, DocumentCause
    <3>2. CASE ~Succeeded(g)
      <4>1. Fails(results, v, n)
        BY <1>5, <2>0, <3>2, SaveEffect DEF Fails, Succeeded, UserOf, TypeInv, TypeOK, StatusEvent
      <4>2. /\ \/ users'[v].failureReason = n
               \/ /\ users'[v].failureReason = users[v].failureReason
                  /\ handlers[g].read.failureReason = n
            /\ \/ users'[v].authStatus = "failed"
               \/ users'[v].authStatus = users[v].authStatus
        BY <1>5, <2>0, <3>2, SaveEffect DEF TypeInv, TypeOK
      <4> QED
        BY <2>0, <2>1, <2>2, <4>1, <4>2 DEF ReadCause, DocumentCause
    <3> QED
      BY <3>1, <3>2
  <2>4. ASSUME NEW u \in User PROVE DocumentCause(u)'
    BY <2>1, <2>3 DEF DocumentCause
  <2>5. ASSUME NEW h \in Handler, At(h, "save")' PROVE ReadCause(h)'
    <3>1. h # g /\ handlers'[h] = handlers[h] /\ At(h, "save") /\ ReadCause(h)
      BY <2>1, <2>5 DEF At
    <3>2. UserOf(h) \in User
      BY <3>1 DEF TypeInv, TypeOK, BusyOK, StatusEvent, At, UserOf
    <3>3. UserOf(h)' = UserOf(h)
      BY <3>1 DEF UserOf
    <3> QED
      BY <2>0, <2>1, <2>3, <3>1, <3>2, <3>3 DEF ReadCause
  <2> QED
    BY <2>4, <2>5 DEF ReadCause
<1> QED
  BY <1>1, <1>2, <1>3, <1>4, <1>5, SamePlaceSteps

LEMMA CauseInvariant == Spec => []CauseInv
  BY CauseInit, CauseStep, TypeInvariant, PTL DEF Spec

\* No interleaving of deliveries makes a user active without a SUCCESS, or
\* failed without the reason of a FAILED.
THEOREM CauseSafe == Spec => []StatusHasCause
<1>1. CauseInv => StatusHasCause
  BY DEF CauseInv, DocumentCause, StatusHasCause, Reported, Succeeds, Fails
<1> QED
  BY <1>1, CauseInvariant, PTL

-------------------------------------------------------------------------------
(* A settled event is recorded.                                            *)

\* A document is there before its events are, and never pending again after
\* it was decided: neither in the store nor behind the back of a handler that
\* read it decided.
RecordInv ==
  /\ \A u \in Strangers : users[u].authStatus = "none"
  /\ \A e \in results : e.user \in Strangers \/ users[e.user].authStatus # "none"
  /\ \A h \in Handler : At(h, "save") =>
       /\ users[UserOf(h)].authStatus # "none"
       /\ handlers[h].read.authStatus # "none"
       /\ handlers[h].read.authStatus # "pending" => users[UserOf(h)].authStatus # "pending"
  /\ \A h \in Handler : At(h, "ack") => users[UserOf(h)].authStatus # "pending"
  /\ \A e \in settled \ dropped : users[e.user].authStatus # "pending"

LEMMA RecordStep == TypeInv /\ RecordInv /\ [Next]_vars => RecordInv'
<1> SUFFICES ASSUME TypeInv, RecordInv, [Next]_vars PROVE RecordInv'
  OBVIOUS
<1> USE DEF TypeInv, TypeOK, BusyOK, HandlerState, StatusEvent, Document, RecordInv, UserOf, At, Goto, bounds
<1>1. ASSUME NEW u \in User, NEW p \in Profile, CreateUser(u, p) PROVE RecordInv'
  BY <1>1 DEF CreateUser
<1>2. ASSUME NEW u \in User, NEW p \in Profile, UpdateProfile(u, p) PROVE RecordInv'
  BY <1>2 DEF UpdateProfile
<1>3. ASSUME NEW u \in User, NEW status \in {"SUCCESS", "FAILED"}, NEW d \in Delivery,
             Publish(u, status, d)
      PROVE  RecordInv'
  BY <1>3 DEF Publish
<1>4. ASSUME NEW h \in Handler, NEW e \in results, Deliver(h, e) PROVE RecordInv'
  BY <1>4 DEF Deliver
<1>5. ASSUME NEW h \in Handler, FindSkipped(h) PROVE RecordInv'
  <2>1. /\ UNCHANGED <<users, results, settled, dropped>>
        /\ handlers'[h].pc = "ack"
        /\ \A g \in Handler : /\ handlers'[g].event = handlers[g].event
                              /\ handlers'[g].read = handlers[g].read
        /\ \A g \in Handler : g # h => handlers'[g].pc = handlers[g].pc
    BY <1>5 DEF FindSkipped
  <2>2. users[UserOf(h)].authStatus # "pending"
    BY <1>5 DEF FindSkipped, Skips
  <2>3. ASSUME NEW g \in Handler, At(g, "ack")'
        PROVE  users'[UserOf(g)'].authStatus # "pending"
    <3>1. CASE g = h
      BY <2>1, <2>2, <3>1
    <3>2. CASE g # h
      BY <2>1, <2>3, <3>2
    <3> QED
      BY <3>1, <3>2
  <2>4. ASSUME NEW g \in Handler, At(g, "save")'
        PROVE  /\ users'[UserOf(g)'].authStatus # "none"
               /\ handlers'[g].read.authStatus # "none"
               /\ handlers'[g].read.authStatus # "pending"
                    => users'[UserOf(g)'].authStatus # "pending"
    BY <2>1, <2>4
  <2> QED
    BY <2>1, <2>3, <2>4
<1>6. ASSUME NEW h \in Handler, Find(h) PROVE RecordInv'
  <2>1. /\ UNCHANGED <<users, results, settled, dropped>>
        /\ handlers'[h].pc = "save"
        /\ handlers'[h].event = handlers[h].event
        /\ handlers'[h].read = users[UserOf(h)]
        /\ \A g \in Handler : g # h => handlers'[g] = handlers[g]
    BY <1>6 DEF Find
  <2>2. users[UserOf(h)].authStatus # "none"
    BY <1>6 DEF Find, Skips
  <2>3. ASSUME NEW g \in Handler, At(g, "save")'
        PROVE  /\ users'[UserOf(g)'].authStatus # "none"
               /\ handlers'[g].read.authStatus # "none"
               /\ handlers'[g].read.authStatus # "pending"
                    => users'[UserOf(g)'].authStatus # "pending"
    <3>1. CASE g = h
      BY <2>1, <2>2, <3>1
    <3>2. CASE g # h
      BY <2>1, <2>3, <3>2
    <3> QED
      BY <3>1, <3>2
  <2>4. ASSUME NEW g \in Handler, At(g, "ack")'
        PROVE  users'[UserOf(g)'].authStatus # "pending"
    BY <2>1, <2>4
  <2> QED
    BY <2>1, <2>3, <2>4
<1>7. ASSUME NEW h \in Handler, Save(h) PROVE RecordInv'
  <2> DEFINE v == UserOf(h)
  <2>1. /\ v \in User /\ results' = results /\ settled' = settled /\ dropped' = dropped
        /\ users[v].authStatus # "none"
        /\ \A u \in User : u # v => users'[u] = users[u]
        /\ \A g \in Handler : g # h => handlers'[g] = handlers[g]
        /\ handlers'[h].event = handlers[h].event /\ handlers'[h].pc \in {"ack", "nack"}
    <3>1. v \in User /\ \A u \in User : u # v => users'[u] = users[u]
      BY <1>7, SaveEffect
    <3>2. /\ UNCHANGED <<results, settled, dropped>>
          /\ handlers[h].pc = "save"
          /\ \E step \in {"ack", "nack"} : handlers' = [handlers EXCEPT ![h].pc = step]
      BY <1>7 DEF Save
    <3> QED
      BY <3>1, <3>2
  <2>2. users'[v].authStatus \notin {"none", "pending"}
    <3>1. CASE Succeeded(h)
      BY <1>7, <3>1, SaveEffect DEF Save
    <3>2. CASE ~Succeeded(h)
      BY <1>7, <3>2, SaveEffect DEF Save
    <3> QED
      BY <3>1, <3>2
  <2>3. \A u \in User : /\ users[u].authStatus # "none" => users'[u].authStatus # "none"
                        /\ users[u].authStatus = "none" => users'[u].authStatus = "none"
                        /\ users[u].authStatus # "pending" => users'[u].authStatus # "pending"
    BY <2>1, <2>2
  <2>4. ASSUME NEW g \in Handler, At(g, "save")'
        PROVE  /\ UserOf(g)' \in User
               /\ users'[UserOf(g)'].authStatus # "none"
               /\ handlers'[g].read.authStatus # "none"
               /\ handlers'[g].read.authStatus # "pending"
                    => users'[UserOf(g)'].authStatus # "pending"
    <3>1. handlers'[g] = handlers[g] /\ At(g, "save") /\ UserOf(g) \in User
      BY <2>1, <2>4
    <3> QED
      BY <2>3, <3>1
  <2>5. ASSUME NEW g \in Handler, At(g, "ack")'
        PROVE  users'[UserOf(g)'].authStatus # "pending"
    <3>1. CASE g = h
      BY <2>1, <2>2, <3>1
    <3>2. CASE g # h
      <4>1. handlers'[g] = handlers[g] /\ At(g, "ack") /\ UserOf(g) \in User
        BY <2>1, <2>5, <3>2
      <4> QED
        BY <2>3, <4>1
    <3> QED
      BY <3>1, <3>2
  <2>6. /\ \A u \in Strangers : users'[u].authStatus = "none"
        /\ \A e \in results' : e.user \in Strangers \/ users'[e.user].authStatus # "none"
        /\ \A e \in settled' \ dropped' : users'[e.user].authStatus # "pending"
    BY <2>1, <2>3
  <2> QED
    BY <2>4, <2>5, <2>6
<1>8. ASSUME NEW h \in Handler, CallFails(h) PROVE RecordInv'
  BY <1>8 DEF CallFails
<1>9. ASSUME NEW h \in Handler, Settle(h) PROVE RecordInv'
  BY <1>9 DEF Settle, IdleHandler
<1>10. CASE Crash
  BY <1>10 DEF Crash, IdleHandler
<1>11. CASE ConnectionLost
  BY <1>11 DEF ConnectionLost
<1>12. CASE UNCHANGED vars
  BY <1>12 DEF vars
<1> HIDE DEF TypeInv, TypeOK, BusyOK, HandlerState, StatusEvent, Document, RecordInv, UserOf, At, Goto, bounds
<1> QED
  BY <1>1, <1>2, <1>3, <1>4, <1>5, <1>6, <1>7, <1>8, <1>9, <1>10, <1>11, <1>12
  DEF Next, Environment, Consumer, Run

\* An event leaves the queue without an error only when its user is no longer
\* pending, whatever crashed or was delivered twice.
THEOREM RecordSafe == Spec => []SettledIsRecorded
<1>1. Init => RecordInv
  BY BlankFields DEF Init, RecordInv, IdleHandler, At
<1>2. Spec => []RecordInv
  BY <1>1, TypeInvariant, RecordStep, PTL DEF Spec
<1>3. RecordInv => SettledIsRecorded
  BY DEF RecordInv, SettledIsRecorded
<1> QED
  BY <1>2, <1>3, PTL

-------------------------------------------------------------------------------
(* What a step may not do to a document.                                   *)

\* The steps that write documents.
LEMMA Writers ==
  ASSUME TypeInv, Next
  PROVE  \/ UNCHANGED users
         \/ \E u \in User, p \in Profile : CreateUser(u, p) \/ UpdateProfile(u, p)
         \/ \E h \in Handler : Save(h)
  BY DEF Next, Environment, Consumer, Run, Publish, Deliver, FindSkipped, Find, CallFails,
         Settle, Crash, ConnectionLost

\* Recording a status leaves the admin's updates alone.
THEOREM UpdateSafe == Spec => UpdateNotLost
<1>1. TypeInv /\ [Next]_vars =>
        [\A u \in User : users'[u].profile # users[u].profile =>
           \E p \in Profile : CreateUser(u, p) \/ UpdateProfile(u, p)]_vars
  <2> SUFFICES ASSUME TypeInv, Next, NEW u \in User, users'[u].profile # users[u].profile
               PROVE  \E p \in Profile : CreateUser(u, p) \/ UpdateProfile(u, p)
    BY DEF vars
  <2>1. ASSUME NEW h \in Handler, Save(h) PROVE FALSE
    BY <2>1, SaveEffect DEF TypeInv, TypeOK
  <2>2. ASSUME NEW v \in User, NEW p \in Profile, CreateUser(v, p) \/ UpdateProfile(v, p)
        PROVE  v = u
    BY <2>2 DEF CreateUser, UpdateProfile, TypeInv, TypeOK
  <2> QED
    BY <2>1, <2>2, Writers
<1> QED
  BY <1>1, TypeInvariant, PTL DEF Spec, UpdateNotLost

\* Reports that agree lead to a status that stays.
THEOREM AgreedSafe == Spec => AgreedStatusIsFinal
<1>1. TypeInv /\ CauseInv /\ [Next]_vars =>
        [\A u \in User :
           /\ users[u].authStatus = "active" /\ ~Reported(u, "FAILED")
                => users'[u].authStatus = "active"
           /\ users[u].authStatus = "failed" /\ ~Reported(u, "SUCCESS")
                => users'[u].authStatus = "failed"]_vars
  <2> SUFFICES ASSUME TypeInv, Next, NEW u \in User
               PROVE  /\ users[u].authStatus = "active" /\ ~Reported(u, "FAILED")
                           => users'[u].authStatus = "active"
                      /\ users[u].authStatus = "failed" /\ ~Reported(u, "SUCCESS")
                           => users'[u].authStatus = "failed"
    BY DEF vars
  <2>1. ASSUME NEW v \in User, NEW p \in Profile, CreateUser(v, p) \/ UpdateProfile(v, p)
        PROVE  users[u].authStatus # "none" => users'[u].authStatus = users[u].authStatus
    BY <2>1 DEF CreateUser, UpdateProfile, TypeInv, TypeOK, Document
  <2>2. ASSUME NEW h \in Handler, Save(h), UserOf(h) = u, Succeeded(h)
        PROVE  /\ Reported(u, "SUCCESS")
               /\ users'[u].authStatus \in {users[u].authStatus, "active"}
    BY <2>2, SaveEffect DEF TypeInv, TypeOK, Reported, Succeeded, UserOf
  <2>3. ASSUME NEW h \in Handler, Save(h), UserOf(h) = u, ~Succeeded(h)
        PROVE  /\ Reported(u, "FAILED")
               /\ users'[u].authStatus \in {users[u].authStatus, "failed"}
    <3>1. handlers[h].event \in results /\ handlers[h].event.status = "FAILED"
      BY <2>3, SaveEffect DEF TypeInv, TypeOK, StatusEvent, Succeeded
    <3> QED
      BY <2>3, <3>1, SaveEffect DEF TypeInv, TypeOK, Reported, UserOf
  <2>4. ASSUME NEW h \in Handler, Save(h), UserOf(h) # u
        PROVE  users'[u] = users[u]
    BY <2>4, SaveEffect DEF TypeInv, TypeOK
  <2> QED
    BY <2>1, <2>2, <2>3, <2>4, Writers
<1> QED
  BY <1>1, CauseInvariant, TypeInvariant, PTL DEF Spec, AgreedStatusIsFinal

-------------------------------------------------------------------------------
(* What bounds the work on a delivery, and how the queue is used.          *)

\* How many steps a handler has in front of it at most, its ack or nack included.
StepsLeft(step) ==
  CASE step = "find"             -> 3
    [] step = "save"             -> 2
    [] step \in {"ack", "nack"}  -> 1
    [] OTHER                     -> 0

\* No handling goes round in circles: whatever its calls return, every step of
\* a handler, with or without its channel, leaves it with fewer to go.
HandlingEnds ==
  [][\A h \in Handler :
       handlers'[h].pc # handlers[h].pc =>
         At(h, "idle") \/ StepsLeft(handlers'[h].pc) < StepsLeft(handlers[h].pc)]_vars

\* A step of a handler is its ack or nack, or it keeps the event and has fewer to go.
LEMMA RunLeaves ==
  ASSUME TypeInv, NEW h \in Handler, Run(h)
  PROVE  /\ UNCHANGED results /\ ~At(h, "idle")
         /\ \A g \in Handler \ {h} : handlers'[g] = handlers[g]
         /\ StepsLeft(handlers'[h].pc) < StepsLeft(handlers[h].pc)
         /\ \/ /\ handlers'[h] = IdleHandler
               /\ settled' = IF handlers[h].owns THEN settled \cup {handlers[h].event} ELSE settled
            \/ /\ settled' = settled
               /\ handlers'[h].owns = handlers[h].owns /\ handlers'[h].event = handlers[h].event
               /\ handlers'[h].pc # "idle"
<1> USE DEF TypeInv, TypeOK, HandlerState, At, Goto, StepsLeft
<1>1. CASE FindSkipped(h)
  BY <1>1 DEF FindSkipped
<1>2. CASE Find(h)
  BY <1>2 DEF Find
<1>3. CASE Save(h)
  BY <1>3 DEF Save
<1>4. CASE CallFails(h)
  BY <1>4, FallibleAssumption DEF CallFails
<1>5. CASE Settle(h)
  BY <1>5 DEF Settle, IdleHandler
<1> QED
  BY <1>1, <1>2, <1>3, <1>4, <1>5 DEF Run

\* Every handling ends, after three steps at most.
THEOREM HandlingSafe == Spec => HandlingEnds
<1>1. TypeInv /\ [Next]_vars =>
        [\A h \in Handler :
           handlers'[h].pc # handlers[h].pc =>
             At(h, "idle") \/ StepsLeft(handlers'[h].pc) < StepsLeft(handlers[h].pc)]_vars
  <2> SUFFICES ASSUME TypeInv, Next, NEW h \in Handler,
                      handlers'[h].pc # handlers[h].pc, ~At(h, "idle")
               PROVE  StepsLeft(handlers'[h].pc) < StepsLeft(handlers[h].pc)
    BY DEF vars
  <2>1. ASSUME NEW g \in Handler, Run(g)
        PROVE  StepsLeft(handlers'[h].pc) < StepsLeft(handlers[h].pc)
    <3>1. g = h
      BY <2>1, RunLeaves
    <3> QED
      BY <2>1, <3>1, RunLeaves
  <2>2. CASE Crash
    BY <2>2 DEF Crash, IdleHandler, StepsLeft, At, TypeInv, TypeOK, HandlerState
  <2>3. ~ConnectionLost
    BY DEF ConnectionLost, TypeInv, TypeOK, HandlerState
  <2>4. ~\E g \in Handler, e \in results : Deliver(g, e)
    BY DEF Deliver, At, TypeInv, TypeOK
  <2> QED
    BY <2>1, <2>2, <2>3, <2>4 DEF Next, Consumer, Environment, CreateUser, UpdateProfile, Publish
<1> QED
  BY <1>1, TypeInvariant, PTL DEF Spec, HandlingEnds

\* The events in the hands of a delivery whose ack or nack counts.
Owns(h, e) == handlers[h].owns /\ handlers[h].event = e
Held == {e \in StatusEvent : \E h \in Handler : Owns(h, e)}

Queue == INSTANCE AtLeastOnceQueue WITH
  Message <- StatusEvent, published <- results, held <- Held

\* An event has one owner at a time, which is busy, until it is settled.
OwnerInv ==
  /\ \A h \in Handler : handlers[h].owns => ~At(h, "idle") /\ handlers[h].event \notin settled
  /\ \A g, h \in Handler :
       handlers[g].owns /\ handlers[h].owns /\ handlers[g].event = handlers[h].event => g = h

LEMMA OwnerRun ==
  ASSUME TypeInv, OwnerInv, NEW h \in Handler, Run(h)
  PROVE  OwnerInv'
<1> USE DEF OwnerInv, At
<1>1. CASE handlers'[h] = IdleHandler
  BY <1>1, RunLeaves DEF IdleHandler
<1>2. CASE handlers'[h] # IdleHandler
  <2>1. /\ settled' = settled /\ handlers'[h].pc # "idle"
        /\ handlers'[h].owns = handlers[h].owns /\ handlers'[h].event = handlers[h].event
    BY <1>2, RunLeaves
  <2>2. \A g \in Handler \ {h} : handlers'[g] = handlers[g]
    BY RunLeaves
  <2>3. \A g \in Handler : /\ handlers'[g].owns = handlers[g].owns
                          /\ handlers'[g].event = handlers[g].event
    BY <2>1, <2>2
  <2>4. ASSUME NEW g \in Handler, handlers'[g].owns
        PROVE  handlers'[g].pc # "idle" /\ handlers'[g].event \notin settled'
    <3>1. handlers[g].owns
      BY <2>3, <2>4, Zenon
    <3>2. handlers[g].pc # "idle" /\ handlers[g].event \notin settled
      BY <3>1
    <3> QED
      BY <2>1, <2>2, <2>3, <3>2
  <2>5. ASSUME NEW f \in Handler, NEW g \in Handler, handlers'[f].owns, handlers'[g].owns,
               handlers'[f].event = handlers'[g].event
        PROVE  f = g
    <3>1. handlers[f].owns /\ handlers[g].owns
      BY <2>3, <2>5, Zenon
    <3>2. handlers[f].event = handlers[g].event
      BY <2>3, <2>5
    <3> QED
      BY <3>1, <3>2
  <2> QED
    BY <2>4, <2>5
<1> QED
  BY <1>1, <1>2

LEMMA OwnerStep == TypeInv /\ OwnerInv /\ [Next]_vars => OwnerInv'
<1> SUFFICES ASSUME TypeInv, OwnerInv, [Next]_vars PROVE OwnerInv'
  OBVIOUS
<1> USE DEF OwnerInv, At
<1>1. ASSUME NEW u \in User,
             \/ \E p \in Profile : CreateUser(u, p) \/ UpdateProfile(u, p)
             \/ \E status \in {"SUCCESS", "FAILED"}, d \in Delivery : Publish(u, status, d)
      PROVE  OwnerInv'
  BY <1>1 DEF CreateUser, UpdateProfile, Publish
<1>2. ASSUME NEW h \in Handler, NEW e \in results, Deliver(h, e) PROVE OwnerInv'
  BY <1>2 DEF Deliver, Ready, TypeInv, TypeOK, HandlerState
<1>3. ASSUME NEW h \in Handler, Run(h) PROVE OwnerInv'
  BY <1>3, OwnerRun
<1>4. CASE Crash
  BY <1>4 DEF Crash, IdleHandler
<1>5. CASE ConnectionLost
  <2>1. \A h \in Handler : ~handlers'[h].owns
    BY <1>5 DEF ConnectionLost, TypeInv, TypeOK, HandlerState
  <2> QED
    BY <2>1
<1>6. CASE UNCHANGED vars
  BY <1>6 DEF vars
<1> QED
  BY <1>1, <1>2, <1>3, <1>4, <1>5, <1>6 DEF Next, Consumer, Environment

LEMMA OwnerInvariant == Spec => []OwnerInv
<1>1. Init => OwnerInv
  BY DEF Init, OwnerInv, IdleHandler
<1> QED
  BY <1>1, TypeInvariant, OwnerStep, PTL DEF Spec

\* A step of a handler settles what it owns, or leaves the queue alone.
LEMMA RunQueue ==
  ASSUME TypeInv, OwnerInv, NEW h \in Handler, Run(h)
  PROVE  [Queue!Next]_(Queue!vars)
<1>1. CASE handlers'[h] = IdleHandler /\ handlers[h].owns
           /\ settled' = settled \cup {handlers[h].event}
  <2>1. PICK e : e = handlers[h].event
    OBVIOUS
  <2>2. e \in StatusEvent /\ Owns(h, e) /\ e \in Held
    BY <1>1, <2>1, RunLeaves DEF TypeInv, TypeOK, BusyOK, At, Held, Owns
  <2>3. \A g \in Handler : \A v : Owns(g, v)' <=> Owns(g, v) /\ g # h
    BY <1>1, RunLeaves DEF Owns, IdleHandler
  <2>4. \A g \in Handler : Owns(g, e) => g = h
    BY <2>2 DEF OwnerInv, Owns
  <2>5. Held' = Held \ {e}
    BY <2>1, <2>2, <2>3, <2>4 DEF Held, Owns
  <2>6. Queue!Settle(e)
    BY <1>1, <2>1, <2>2, <2>5, RunLeaves DEF Queue!Settle
  <2> QED
    BY <2>2, <2>6 DEF Queue!Next
<1>2. CASE handlers'[h].owns = handlers[h].owns /\ handlers'[h].event = handlers[h].event
           /\ settled' = settled
  <2>1. \A g \in Handler : \A v : Owns(g, v)' <=> Owns(g, v)
    BY <1>2, RunLeaves DEF Owns
  <2> QED
    BY <1>2, <2>1, RunLeaves DEF Held, Queue!vars
<1>3. CASE ~handlers[h].owns /\ handlers'[h] = IdleHandler /\ settled' = settled
  <2>1. \A g \in Handler : \A v : Owns(g, v)' <=> Owns(g, v)
    BY <1>3, RunLeaves DEF Owns, IdleHandler
  <2> QED
    BY <1>3, <2>1, RunLeaves DEF Held, Queue!vars
<1> QED
  BY <1>1, <1>2, <1>3, RunLeaves

\* However many handlers there are, with and without a channel, the service
\* uses its queue as an at-least-once consumer must: no event is in the hands
\* of two deliveries whose acks count, and none comes back once it is settled.
THEOREM QueueImplemented == Spec => Queue!Spec
<1>1. Init => Queue!Init
  BY DEF Init, Queue!Init, Held, Owns, IdleHandler
<1>2. TypeInv /\ OwnerInv /\ [Next]_vars => [Queue!Next]_(Queue!vars)
  <2> SUFFICES ASSUME TypeInv, OwnerInv, [Next]_vars PROVE [Queue!Next]_(Queue!vars)
    OBVIOUS
  <2>1. ASSUME NEW u \in User,
               \/ \E p \in Profile : CreateUser(u, p) \/ UpdateProfile(u, p)
               \/ \E status \in {"SUCCESS", "FAILED"}, d \in Delivery : Publish(u, status, d)
        PROVE  [Queue!Next]_(Queue!vars)
    <3>1. CASE \E p \in Profile : CreateUser(u, p) \/ UpdateProfile(u, p)
      BY <3>1 DEF CreateUser, UpdateProfile, Queue!vars, Held, Owns
    <3>2. ASSUME NEW status \in {"SUCCESS", "FAILED"}, NEW d \in Delivery, Publish(u, status, d)
          PROVE  [Queue!Next]_(Queue!vars)
      <4>1. PICK e : e = [user |-> u, status |-> status, delivery |-> d]
        OBVIOUS
      <4>2. e \in StatusEvent
        BY <4>1 DEF StatusEvent
      <4>3. Queue!Publish(e)
        BY <3>2, <4>1 DEF Publish, Queue!Publish, Held, Owns
      <4> QED
        BY <4>2, <4>3 DEF Queue!Next
    <3> QED
      BY <2>1, <3>1, <3>2
  <2>2. ASSUME NEW h \in Handler, NEW e \in results, Deliver(h, e) PROVE Queue!Deliver(e)
    <3>1. e \in results \ (settled \cup Held) /\ UNCHANGED <<results, settled>>
      BY <2>2 DEF Deliver, Ready, Held, Owns
    <3>2. ~handlers[h].owns /\ e \in StatusEvent
      BY <2>2 DEF Deliver, OwnerInv, TypeInv, TypeOK
    <3>3. /\ \A g \in Handler \ {h} : handlers'[g] = handlers[g]
          /\ handlers'[h].owns /\ handlers'[h].event = e
      BY <2>2 DEF Deliver, TypeInv, TypeOK
    <3>4. Held' = Held \cup {e}
      BY <3>2, <3>3 DEF Held, Owns
    <3> QED
      BY <3>1, <3>4 DEF Queue!Deliver
  <2>3. CASE Crash \/ ConnectionLost
    <3>1. \A h \in Handler : ~handlers'[h].owns
      BY <2>3 DEF Crash, ConnectionLost, IdleHandler, TypeInv, TypeOK, HandlerState
    <3>2. Held' = {}
      BY <3>1 DEF Held, Owns
    <3>3. Queue!GiveBack
      BY <2>3, <3>2 DEF Crash, ConnectionLost, Queue!GiveBack
    <3> QED
      BY <3>3 DEF Queue!Next
  <2>4. CASE UNCHANGED vars
    BY <2>4 DEF vars, Queue!vars, Held, Owns
  <2>5. results \subseteq StatusEvent
    BY DEF TypeInv, TypeOK
  <2> QED
    BY <2>1, <2>2, <2>3, <2>4, <2>5, RunQueue DEF Next, Consumer, Queue!Next, Environment
<1> QED
  BY <1>1, <1>2, TypeInvariant, OwnerInvariant, PTL DEF Spec, Queue!Spec
===============================================================================
