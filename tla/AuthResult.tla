------------------------------ MODULE AuthResult ------------------------------
(***************************************************************************)
(* User management (apps/user-management) on the receiving side: the       *)
(* consumer of queue user-mgmt.auth.result, which turns the status events  *)
(* of the auth service into the authStatus of a user document, beside the  *)
(* admin's PUT /users/:id on the same documents.                           *)
(*                                                                         *)
(* finalizeAfterAuthentication and recordAuthenticationFailure read the    *)
(* document, decide, and save it: two awaited calls with other handlers in *)
(* between.  A Mongoose document remembers what was read, and save() sends *)
(* only the fields whose value differs from it, unconditionally.           *)
(*                                                                         *)
(* As in AuthRegistration an event that is neither settled nor owned by a  *)
(* handler is ready for (re)delivery.                                      *)
(***************************************************************************)
EXTENDS Naturals

CONSTANTS
  User,                 \* userIds
  Strangers,            \* userIds in events that no document will ever have
  Profile,              \* values of a field the admin may edit
  Handler,              \* the deliveries the service processes at once
  Fallible,             \* the calls that may fail: subset of {"find", "save"}
  Delivery,             \* numbers of the auth service's deliveries, which name its events
  MaxUpdates,           \* bound on the admin's updates
  MaxCrashes,           \* bound on crashes of the service
  MaxConnectionLosses,  \* bound on losses of its broker channel
  NoEvent               \* what an idle handler has in hand

ASSUME StrangersAssumption == Strangers \subseteq User
ASSUME FallibleAssumption  == Fallible \subseteq {"find", "save"}
ASSUME ProfileAssumption   == Profile # {}
ASSUME BoundsAssumption ==
  /\ Delivery \subseteq Nat \ {0} /\ MaxUpdates \in Nat
  /\ MaxCrashes \in Nat /\ MaxConnectionLosses \in Nat

VARIABLES
  users,     \* the user documents
  results,   \* the status events published
  settled,   \* the events acked, or nacked and so dropped
  dropped,   \* those that were nacked
  handlers,  \* what each handler is doing
  updates, crashes, connectionLosses

bounds == <<updates, crashes, connectionLosses>>
vars == <<users, results, settled, dropped, handlers, bounds>>

StatusEvent == [user : User, status : {"SUCCESS", "FAILED"}, delivery : Nat \ {0}]

\* failureReason names the delivery whose event carried it; 0: not set.
\* "none": there is no document.
Document ==
  [ authStatus    : {"none", "pending", "active", "failed"},
    failureReason : Nat,
    profile       : Profile ]

\* read is the document as the handler's findOne returned it.
HandlerState ==
  [ pc : {"idle", "find", "save", "ack", "nack"}, event : StatusEvent \cup {NoEvent},
    read : Document, owns : BOOLEAN ]

\* The document that a handler has not read yet.
Blank == [authStatus |-> "none", failureReason |-> 0, profile |-> CHOOSE p \in Profile : TRUE]
IdleHandler == [pc |-> "idle", event |-> NoEvent, read |-> Blank, owns |-> FALSE]

Ready(e) ==
  /\ e \in results \ settled
  /\ \A h \in Handler : ~(handlers[h].owns /\ handlers[h].event = e)

At(h, step) == handlers[h].pc = step
Goto(h, step) == handlers' = [handlers EXCEPT ![h].pc = step]
UserOf(h) == handlers[h].event.user

\* Mutation of Succeeded: the two reports are told apart the wrong way round.
SucceededSwapped(h) == handlers[h].event.status = "FAILED"
Succeeded(h) == handlers[h].event.status = "SUCCESS"

-------------------------------------------------------------------------------
Init ==
  /\ users = [u \in User |-> Blank]
  /\ results = {} /\ settled = {} /\ dropped = {}
  /\ handlers = [h \in Handler |-> IdleHandler]
  /\ updates = 0 /\ crashes = 0 /\ connectionLosses = 0

\* userModel.create in createPendingUser.
CreateUser(u, p) ==
  /\ u \notin Strangers
  /\ users[u].authStatus = "none"
  /\ users' = [users EXCEPT ![u] =
       [authStatus |-> "pending", failureReason |-> 0, profile |-> p]]
  /\ UNCHANGED <<results, settled, dropped, handlers, bounds>>

\* The auth service publishes a status for a user whose command it was sent,
\* or someone publishes one for a stranger.
Publish(u, status, d) ==
  /\ users[u].authStatus # "none" \/ u \in Strangers
  /\ \A r \in results : r.delivery # d
  /\ results' = results \cup {[user |-> u, status |-> status, delivery |-> d]}
  /\ UNCHANGED <<users, settled, dropped, handlers, bounds>>

\* Mutation of UpdateProfile: the DTO lets an authStatus through.
UpdateProfileUnfiltered(u, p) ==
  /\ updates < MaxUpdates
  /\ users[u].authStatus # "none"
  /\ users' = [users EXCEPT ![u].profile = p, ![u].authStatus = "failed"]
  /\ updates' = updates + 1
  /\ UNCHANGED <<results, settled, dropped, handlers, crashes, connectionLosses>>

\* findOneAndUpdate with the fields of UpdateUserDto: authStatus is not one.
UpdateProfile(u, p) ==
  /\ updates < MaxUpdates
  /\ users[u].authStatus # "none"
  /\ users' = [users EXCEPT ![u].profile = p]
  /\ updates' = updates + 1
  /\ UNCHANGED <<results, settled, dropped, handlers, crashes, connectionLosses>>

Deliver(h, e) ==
  /\ At(h, "idle") /\ Ready(e)
  /\ handlers' = [handlers EXCEPT ![h] =
       [pc |-> "find", event |-> e, read |-> Blank, owns |-> TRUE]]
  /\ UNCHANGED <<users, results, settled, dropped, bounds>>

\* Mutation of Skips: the guard on pending is inverted.
SkipsPending(document, success) ==
  document.authStatus = "none" \/ (success /\ document.authStatus = "pending")

\* There is nothing to do: no document, or a success for a user who is not
\* pending.  A failure is recorded whatever the status.
Skips(document, success) ==
  document.authStatus = "none" \/ (success /\ document.authStatus # "pending")

FindSkipped(h) ==
  /\ At(h, "find")
  /\ Skips(users[UserOf(h)], Succeeded(h))
  /\ Goto(h, "ack")
  /\ UNCHANGED <<users, results, settled, dropped, bounds>>

Find(h) ==
  /\ At(h, "find")
  /\ ~Skips(users[UserOf(h)], Succeeded(h))
  /\ handlers' = [handlers EXCEPT ![h].pc = "save", ![h].read = users[UserOf(h)]]
  /\ UNCHANGED <<users, results, settled, dropped, bounds>>

\* Mutation of Changed: the status of the event is stored as it came.
ChangedVerbatim(h) == [handlers[h].read EXCEPT !.authStatus = handlers[h].event.status]

\* The document as the handler changed it in memory.
Changed(h) ==
  IF Succeeded(h)
    THEN [handlers[h].read EXCEPT !.authStatus = "active"]
    ELSE [handlers[h].read EXCEPT !.authStatus = "failed",
                                  !.failureReason = handlers[h].event.delivery]

\* Mutation of Saved: the whole document is written back.
SavedWhole(stored, read, changed) == changed

\* save() writes the fields that differ from what was read over the document
\* as it is stored now.
Saved(stored, read, changed) ==
  [f \in DOMAIN stored |-> IF changed[f] # read[f] THEN changed[f] ELSE stored[f]]

\* The database may take the write and save() reject all the same, when the
\* answer is lost.
Save(h) ==
  /\ At(h, "save")
  /\ users' = [users EXCEPT ![UserOf(h)] = Saved(@, handlers[h].read, Changed(h))]
  /\ \/ Goto(h, "ack")
     \/ "save" \in Fallible /\ Goto(h, "nack")
  /\ UNCHANGED <<results, settled, dropped, bounds>>

\* The call had no effect, and the handler throws.
CallFails(h) ==
  /\ handlers[h].pc \in Fallible
  /\ Goto(h, "nack")
  /\ UNCHANGED <<users, results, settled, dropped, bounds>>

\* Mutation of Settle: an event whose handler threw is requeued.
SettleRequeues(h) ==
  /\ handlers[h].pc \in {"ack", "nack"}
  /\ settled' = IF handlers[h].owns /\ At(h, "ack")
                  THEN settled \cup {handlers[h].event} ELSE settled
  /\ dropped' = dropped
  /\ handlers' = [handlers EXCEPT ![h] = IdleHandler]
  /\ UNCHANGED <<users, results, bounds>>

\* The ack of a handler that returned, the nack without requeue of one that
\* threw.  On a channel that was lost neither has an effect.
Settle(h) ==
  /\ handlers[h].pc \in {"ack", "nack"}
  /\ settled' = IF handlers[h].owns THEN settled \cup {handlers[h].event} ELSE settled
  /\ dropped' = IF handlers[h].owns /\ At(h, "nack")
                  THEN dropped \cup {handlers[h].event} ELSE dropped
  /\ handlers' = [handlers EXCEPT ![h] = IdleHandler]
  /\ UNCHANGED <<users, results, bounds>>

Crash ==
  /\ crashes < MaxCrashes
  /\ \E h \in Handler : ~At(h, "idle")
  /\ handlers' = [h \in Handler |-> IdleHandler]
  /\ crashes' = crashes + 1
  /\ UNCHANGED <<users, results, settled, dropped, updates, connectionLosses>>

ConnectionLost ==
  /\ connectionLosses < MaxConnectionLosses
  /\ \E h \in Handler : handlers[h].owns
  /\ handlers' = [h \in Handler |-> [handlers[h] EXCEPT !.owns = FALSE]]
  /\ connectionLosses' = connectionLosses + 1
  /\ UNCHANGED <<users, results, settled, dropped, updates, crashes>>

-------------------------------------------------------------------------------
Run(h) == FindSkipped(h) \/ Find(h) \/ Save(h) \/ CallFails(h) \/ Settle(h)

\* The steps of the consumer, for the modules that compose it.
Consumer ==
  \/ \E h \in Handler : Run(h) \/ \E e \in results : Deliver(h, e)
  \/ Crash
  \/ ConnectionLost

Environment ==
  \E u \in User :
    \/ \E p \in Profile : CreateUser(u, p) \/ UpdateProfile(u, p)
    \/ \E status \in {"SUCCESS", "FAILED"}, d \in Delivery : Publish(u, status, d)

Next == Environment \/ Consumer

Spec == Init /\ [][Next]_vars

\* Every awaited call returns or rejects; a ready event is delivered while a
\* consumer is free.
Fairness ==
  /\ \A h \in Handler : WF_vars(Run(h))
  /\ WF_vars(\E h \in Handler, e \in results : Deliver(h, e))

FairSpec == Spec /\ Fairness

-------------------------------------------------------------------------------
(* Properties.                                                             *)

\* The types of the variables.
TypeOK ==
  /\ users \in [User -> Document]
  /\ results \subseteq StatusEvent
  /\ settled \subseteq results /\ dropped \subseteq settled
  /\ handlers \in [Handler -> HandlerState]
  /\ updates \in Nat /\ crashes \in Nat /\ connectionLosses \in Nat

Reported(u, status) == \E r \in results : r.user = u /\ r.status = status

\* A user is active only if the auth service reported SUCCESS for that user,
\* and failed only with the reason of a FAILED event for that user, however
\* deliveries of several events are interleaved between findOne and save.
StatusHasCause ==
  \A u \in User :
    /\ users[u].authStatus = "active" => Reported(u, "SUCCESS")
    /\ users[u].authStatus = "failed" =>
         \E r \in results : r.user = u /\ r.status = "FAILED"
                              /\ r.delivery = users[u].failureReason

\* An event that the broker no longer holds has moved its user out of pending,
\* unless its handler threw: a crash between findOne and save, or between save
\* and ack, loses no status, nor does an interleaving with other handlers.
SettledIsRecorded ==
  \A e \in settled \ dropped : users[e.user].authStatus # "pending"

\* Recording a status never undoes an admin's update that fell between the
\* findOne and the save: the field changes by an update alone.
UpdateNotLost ==
  [][\A u \in User : users'[u].profile # users[u].profile =>
       \E p \in Profile : CreateUser(u, p) \/ UpdateProfile(u, p)]_vars

\* While all the reports for a user agree, the status they led to is final,
\* however often they are delivered and whatever is updated meanwhile.
AgreedStatusIsFinal ==
  [][\A u \in User :
       /\ users[u].authStatus = "active" /\ ~Reported(u, "FAILED")
            => users'[u].authStatus = "active"
       /\ users[u].authStatus = "failed" /\ ~Reported(u, "SUCCESS")
            => users'[u].authStatus = "failed"]_vars

\* A user about whom something was reported does not stay pending, unless the
\* handler of a report threw: the nack drops the event for good.
EventuallyDecided ==
  \A u \in User \ Strangers :
    Reported(u, "SUCCESS") \/ Reported(u, "FAILED") ~>
      users[u].authStatus # "pending" \/ \E e \in dropped : e.user = u

-------------------------------------------------------------------------------
(* What the repository's documents say and the code does not do.           *)

\* DOCUMENTATION.md:377-408, the state diagram of authStatus, draws active as
\* a final state; line 143 says of the result events "redelivery-safe (no-op
\* once no longer `pending`)".
ActiveIsFinal ==
  [][\A u \in User : users[u].authStatus = "active" => users'[u].authStatus = "active"]_vars
===============================================================================
