----------------------- MODULE RegistrationLifecycleProofs -----------------------
(***************************************************************************)
(* What the life of a registration promises, for any set of users.  It is  *)
(* what this specification says in other words; that the services together *)
(* keep it is a matter of RegistrationPipelineProofs, which cites it.      *)
(***************************************************************************)
EXTENDS RegistrationLifecycle, TLAPS

\* The sets are ordered as the steps are: a mail comes after the account, the
\* account after the request, and the request after the document.
LifecycleInv ==
  /\ authStatus \in [User -> {"none", "pending", "active", "failed"}]
  /\ requested \subseteq User /\ registered \subseteq requested /\ informed \subseteq registered
  /\ \A u \in requested : authStatus[u] # "none"
  /\ StatusTellsAccount

LEMMA LifecycleStep == LifecycleInv /\ [Next]_vars => LifecycleInv'
<1> SUFFICES ASSUME LifecycleInv, [Next]_vars PROVE LifecycleInv'
  OBVIOUS
<1> USE DEF LifecycleInv, StatusTellsAccount
<1>1. ASSUME NEW u \in User, Create(u) PROVE LifecycleInv'
  BY <1>1 DEF Create
<1>2. ASSUME NEW u \in User, Request(u) PROVE LifecycleInv'
  BY <1>2 DEF Request
<1>3. ASSUME NEW u \in User, Register(u) PROVE LifecycleInv'
  BY <1>3 DEF Register, Open
<1>4. ASSUME NEW u \in User, Inform(u) PROVE LifecycleInv'
  BY <1>4 DEF Inform
<1>5. ASSUME NEW u \in User, Activate(u) PROVE LifecycleInv'
  BY <1>5 DEF Activate, Open
<1>6. ASSUME NEW u \in User, Fail(u) PROVE LifecycleInv'
  BY <1>6 DEF Fail, Open
<1>7. CASE UNCHANGED vars
  BY <1>7 DEF vars
<1> QED
  BY <1>1, <1>2, <1>3, <1>4, <1>5, <1>6, <1>7 DEF Next

LEMMA LifecycleInvariant == Spec => []LifecycleInv
<1>1. Init => LifecycleInv
  BY DEF Init, LifecycleInv, StatusTellsAccount
<1> QED
  BY <1>1, LifecycleStep, PTL DEF Spec

\* The status of a user is true of the user's account.
LEMMA StatusSafe == Spec => []StatusTellsAccount
<1>1. LifecycleInv => StatusTellsAccount
  BY DEF LifecycleInv
<1> QED
  BY <1>1, LifecycleInvariant, PTL

\* Credentials are mailed to users with an account only.
LEMMA MailedSafe == Spec => []MailedHaveAccount
<1>1. LifecycleInv => MailedHaveAccount
  BY DEF LifecycleInv, StatusTellsAccount, MailedHaveAccount
<1> QED
  BY <1>1, LifecycleInvariant, PTL

\* No step takes a decision back: registering a failed user or failing an
\* active one takes an unreliable auth service.
LEMMA DecisionSafe == Spec => DecisionStands
<1>1. LifecycleInv /\ [Next]_vars =>
        [\A u \in User :
           authStatus[u] \in {"active", "failed"} =>
             /\ authStatus'[u] \in {"active", "failed"}
             /\ Reliable => authStatus'[u] = authStatus[u]]_vars
  <2> SUFFICES ASSUME LifecycleInv, Next, NEW u \in User, authStatus[u] \in {"active", "failed"}
               PROVE  /\ authStatus'[u] \in {"active", "failed"}
                      /\ Reliable => authStatus'[u] = authStatus[u]
    BY DEF vars
  <2>1. PICK v \in User : \/ Create(v) \/ Request(v) \/ Register(v)
                          \/ Inform(v) \/ Activate(v) \/ Fail(v)
    BY DEF Next
  <2> QED
    BY <2>1
    DEF LifecycleInv, Create, Request, Register, Inform, Activate, Fail, Open
<1> QED
  BY <1>1, LifecycleInvariant, PTL DEF Spec, DecisionStands
===============================================================================
