-------------------------- MODULE RegistrationLifecycle --------------------------
(***************************************************************************)
(* The life of a registration as the documents of user management tell it  *)
(* (DOCUMENTATION.md, sections 5.1 and 6): a user is created pending, the  *)
(* auth service is asked to register the user, and its answer makes the    *)
(* user active or failed.  Active users have an account, failed ones were  *)
(* asked for, and a mail with credentials goes to users with an account    *)
(* only.                                                                   *)
(*                                                                         *)
(* While registering is reliable the decision is taken once and for all    *)
(* and failed users never get an account.  Otherwise an attempt may be     *)
(* reported as failed whose work was done, or is done again later, and a   *)
(* later report replaces an earlier one; a decided user still never goes   *)
(* back to pending.                                                        *)
(*                                                                         *)
(* It knows no services, queues, deliveries or crashes:                    *)
(* RegistrationPipeline is the composition of services that implements it. *)
(***************************************************************************)
CONSTANTS
  User,
  Reliable  \* an attempt to register a user fails for reasons in the data alone

VARIABLES
  authStatus,  \* what user management says of each user
  requested,   \* users whom the auth service was asked to register
  registered,  \* users with an account
  informed     \* users who were mailed credentials

vars == <<authStatus, requested, registered, informed>>

Init ==
  /\ authStatus = [u \in User |-> "none"]
  /\ requested = {} /\ registered = {} /\ informed = {}

Create(u) ==
  /\ authStatus[u] = "none"
  /\ authStatus' = [authStatus EXCEPT ![u] = "pending"]
  /\ UNCHANGED <<requested, registered, informed>>

Request(u) ==
  /\ authStatus[u] = "pending"
  /\ requested' = requested \cup {u}
  /\ UNCHANGED <<authStatus, registered, informed>>

\* The status is still open to a decision.
Open(u) == Reliable => authStatus[u] = "pending"

Register(u) ==
  /\ u \in requested /\ Open(u)
  /\ registered' = registered \cup {u}
  /\ UNCHANGED <<authStatus, requested, informed>>

Inform(u) ==
  /\ u \in registered
  /\ informed' = informed \cup {u}
  /\ UNCHANGED <<authStatus, requested, registered>>

Activate(u) ==
  /\ u \in registered /\ Open(u)
  /\ authStatus' = [authStatus EXCEPT ![u] = "active"]
  /\ UNCHANGED <<requested, registered, informed>>

Fail(u) ==
  /\ u \in requested /\ Open(u)
  /\ Reliable => u \notin registered
  /\ authStatus' = [authStatus EXCEPT ![u] = "failed"]
  /\ UNCHANGED <<requested, registered, informed>>

Next ==
  \E u \in User :
    \/ Create(u) \/ Request(u) \/ Register(u) \/ Inform(u) \/ Activate(u) \/ Fail(u)

Spec == Init /\ [][Next]_vars

\* Whoever the auth service was asked to register is decided upon, while that
\* is reliable.
Fairness == \A u \in User : WF_vars(Register(u) \/ Fail(u)) /\ WF_vars(Activate(u))

FairSpec == Spec /\ Fairness

-------------------------------------------------------------------------------
(* Properties.                                                             *)

\* What a status says: active that there is an account, failed that the auth
\* service was asked and, while it is reliable, that there is no account.
StatusTellsAccount ==
  \A u \in User :
    /\ authStatus[u] = "active" => u \in registered
    /\ authStatus[u] = "failed" => u \in requested /\ (Reliable => u \notin registered)

\* Credentials go to users of whom user management knows, with an account, and
\* while the auth service is reliable never to one who failed.
MailedHaveAccount ==
  \A u \in informed :
    /\ u \in registered /\ authStatus[u] # "none"
    /\ Reliable => authStatus[u] # "failed"

\* Nobody who was decided upon is pending again, and while the auth service is
\* reliable the decision is final.
DecisionStands ==
  [][\A u \in User :
       authStatus[u] \in {"active", "failed"} =>
         /\ authStatus'[u] \in {"active", "failed"}
         /\ Reliable => authStatus'[u] = authStatus[u]]_vars
===============================================================================
