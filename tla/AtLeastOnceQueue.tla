---------------------------- MODULE AtLeastOnceQueue ----------------------------
(***************************************************************************)
(* What a consumer may rely on, and what it owes, at a queue of the broker *)
(* (no prefetch limit, confirmed publishes, no requeue): a message is held *)
(* by one delivery at a time, a consumer that goes down or loses its       *)
(* channel gives back all that it holds, and what was settled, with an ack *)
(* or a nack, is never delivered again.                                    *)
(*                                                                         *)
(* The consumers of AuthRegistration, AuthResult and Notification have     *)
(* handlers in its place, which run on when they hold nothing any more.    *)
(***************************************************************************)
CONSTANT Message

VARIABLES
  published,  \* the messages published to the queue
  settled,    \* those acked or nacked
  held        \* those in the hands of a consumer whose channel is open

vars == <<published, settled, held>>

Init == published = {} /\ settled = {} /\ held = {}

Publish(m) ==
  /\ published' = published \cup {m}
  /\ UNCHANGED <<settled, held>>

Deliver(m) ==
  /\ m \in published \ (settled \cup held)
  /\ held' = held \cup {m}
  /\ UNCHANGED <<published, settled>>

Settle(m) ==
  /\ m \in held
  /\ held' = held \ {m}
  /\ settled' = settled \cup {m}
  /\ UNCHANGED published

GiveBack ==
  /\ held' = {}
  /\ UNCHANGED <<published, settled>>

Next == (\E m \in Message : Publish(m) \/ Deliver(m) \/ Settle(m)) \/ GiveBack

Spec == Init /\ [][Next]_vars
===============================================================================
