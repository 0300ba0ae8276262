--------------------------- MODULE UserQueriesProofs ---------------------------
(***************************************************************************)
(* What the answers to queries are worth, for every set of requests and    *)
(* files, every clock, every filter by role, batch and status, and every   *)
(* length of a page, whichever calls fail.                                 *)
(***************************************************************************)
EXTENDS UserQueries, UserRegistrationProofs

USE JobAssumption, TimeAssumption, FilterAssumption, PageAssumption

-------------------------------------------------------------------------------
(* Registration goes on beneath the queries.                               *)

LEMMA RegistrationStep == [QueryNext]_queryVars => [Next]_vars
  BY DEF QueryNext, queryVars, Register, RecordResult, ReadBatch, ReadCounts, StartWalk, ListPage

THEOREM RegistrationImplemented == QuerySpec => Spec
<1>1. QueryInit => Init
  BY DEF QueryInit
<1> QED
  BY <1>1, RegistrationStep, PTL DEF QuerySpec, Spec

\* What is known of the state beneath.
KnownInv == TypeInv /\ BatchInv /\ BatchReportsExactly /\ CommandsHaveDocuments

LEMMA KnownInvariant == Spec => []KnownInv
<1>1. Init => BatchInv
  <2> SUFFICES ASSUME Init PROVE BatchInv
    OBVIOUS
  <2>1. batches = {} /\ \A j \in Job : jobs[j].pc = "idle"
    BY DEF Init
  <2> QED
    BY <2>1 DEF BatchInv
<1> QED
  BY <1>1, TypeInvariant, BatchStep, BatchSafe, CommandsSafe, PTL DEF Spec, KnownInv

\* Only an insert brings a new identity, one at a time, and none is lost.
LEMMA IdsEffect ==
  ASSUME TypeInv, [Next]_vars
  PROVE  \/ Ids' = Ids
         \/ \E j \in Job : At(j, "insert") /\ Ids' = Ids \cup {IdOf(j)}
<1>1. ASSUME NEW j \in Job, Start(j) \/ Run(j)
      PROVE  Ids' = Ids \/ (At(j, "insert") /\ Ids' = Ids \cup {IdOf(j)})
  <2>1. CASE documents' = documents
    BY <2>1 DEF Ids
  <2>2. CASE At(j, "insert") /\ documents' = documents \cup {NewDocument(j)}
    <3>1. NewDocument(j).id = IdOf(j)
      BY <2>2, NewDocumentType DEF At
    <3> QED
      BY <2>2, <3>1 DEF Ids
  <2> QED
    BY <1>1, <2>1, <2>2, DocumentsEffect
<1>2. ASSUME NEW d \in documents, NEW e \in Email, UpdateEmail(d, e) PROVE Ids' = Ids
  <2>1. PICK x : documents' = (documents \ {d}) \cup {x} /\ x.id = d.id
    BY <1>2, UpdateEffect
  <2> QED
    BY <2>1 DEF Ids
<1>3. CASE Crash \/ UNCHANGED vars
  BY <1>3 DEF Crash, vars, Ids
<1> QED
  BY <1>1, <1>2, <1>3 DEF Next

LEMMA IdsType == TypeInv => Ids \subseteq DocumentId
  BY DEF TypeInv, TypeOK, Document, Ids

\* Commands are never withdrawn.
LEMMA CommandsStay ==
  ASSUME [Next]_vars
  PROVE  commands \subseteq commands'
  BY DEF Next, vars, Start, Run, StartSingle, StartBulk, RejectFile, CreateBatch, CreateBatchFails,
     Insert, InsertRefused, Publish, PublishFails, SaveBatch, SaveBatchFails, UpdateEmail, Crash

-------------------------------------------------------------------------------
(* The status of a batch.                                                  *)

\* The upload will not register anybody any more.
Over(j) == jobs[j].pc \in {"saveBatch", "done", "failed", "lost"}

\* All rows of the batch are accounted for.
Accounted(b) == b.created + b.failed = b.total

\* A batch accounts for its rows when they are over, or when there are none.
LEMMA AccountedIsOver ==
  ASSUME TypeInv, BatchInv, NEW b \in batches, Accounted(b)
  PROVE  b.job \in Job /\ Over(b.job)
<1>1. /\ b \in Batch /\ b.job \in Job /\ b.job \in Bulk /\ b.total = Len(RowsOf[b.job])
      /\ jobs[b.job] \in JobState /\ jobs[b.job].pc \notin {"idle", "createBatch"}
      /\ Progress(b.job) /\ Reported(b)
  BY DEF TypeInv, TypeOK, TotalsOK, ProgressOK, BatchInv, Batch
<1>2. CASE jobs[b.job].pc \in {"done", "failed"}
  BY <1>1, <1>2 DEF Over
<1>3. CASE b = NewBatch(b.job)
  <2>1. WellFormed(b.job) => b.created = 0 /\ b.failed = 0
    BY <1>3 DEF NewBatch
  <2>2. WellFormed(b.job) => Len(RowsOf[b.job]) = 0
    BY <1>1, <2>1 DEF Accounted
  <2>3. WellFormed(b.job) => jobs[b.job].pc \notin {"insert", "publish"}
    BY <1>1, <2>2 DEF Progress, JobState
  <2> QED
    BY <1>1, <2>3 DEF Over, Progress, JobState
<1> QED
  BY <1>1, <1>2, <1>3 DEF Reported

LEMMA OverStays ==
  ASSUME TypeInv, [Next]_vars, NEW j \in Job, Over(j)
  PROVE  Over(j)' /\ \A i \in Ids' : i.job = j => i \in Ids
<1>1. \A i \in Ids' : i.job = j => i \in Ids
  <2>1. CASE Ids' = Ids
    BY <2>1
  <2>2. ASSUME NEW g \in Job, At(g, "insert"), Ids' = Ids \cup {IdOf(g)}
        PROVE  \A i \in Ids' : i.job = j => i \in Ids
    <3>1. g # j /\ IdOf(g).job = g
      BY <2>2 DEF At, Over, IdOf
    <3> QED
      BY <2>2, <3>1
  <2> QED
    BY <2>1, <2>2, IdsEffect
<1>2. ASSUME NEW g \in Job, Start(g) \/ Run(g) PROVE Over(j)'
  <2>1. CASE g # j
    BY <1>2, <2>1, StepOthers DEF Others, Over
  <2>2. CASE g = j
    BY <1>2, <2>2, StepEffect
    DEF Over, Moves, StartSingle, StartBulk, RejectFile, CreateBatch, CreateBatchFails, Insert,
        InsertRefused, Publish, PublishFails, At
  <2> QED
    BY <2>1, <2>2
<1>3. ASSUME NEW d \in documents, NEW e \in Email, UpdateEmail(d, e) PROVE Over(j)'
  BY <1>3 DEF UpdateEmail, Over
<1>4. ASSUME Crash PROVE Over(j)'
  BY <1>4, CrashEffect DEF Over, TypeInv, At, Ended
<1>5. ASSUME UNCHANGED vars PROVE Over(j)'
  BY <1>5 DEF vars, Over
<1> QED
  BY <1>1, <1>2, <1>3, <1>4, <1>5 DEF Next

\* The users of a batch, and those of them with a status.
UsersOf(j) == {i \in Ids : i.job = j}
Having(j, s) == {i \in Ids : i.job = j /\ authStatus[i] = s}

LEMMA CountsAre ==
  ASSUME NEW b, NEW s \in AuthStatus
  PROVE  Counts(b)[s] = Cardinality(Having(b.job, s))
  BY DEF Counts, Having

LEMMA HavingFinite ==
  ASSUME IsFiniteSet(Ids), NEW j, NEW s
  PROVE  IsFiniteSet(Having(j, s)) /\ Cardinality(Having(j, s)) \in Nat
<1>1. Having(j, s) \subseteq Ids
  BY DEF Having
<1> QED
  BY <1>1, FS_Subset, FS_CardinalityType

LEMMA DisjointSum ==
  ASSUME NEW S, NEW T, IsFiniteSet(S), IsFiniteSet(T), S \cap T = {}
  PROVE  IsFiniteSet(S \cup T) /\ Cardinality(S \cup T) = Cardinality(S) + Cardinality(T)
<1>1. IsFiniteSet(S \cup T) /\ Cardinality(S \cup T) = Cardinality(S) + Cardinality(T) - Cardinality(S \cap T)
  BY FS_Union
<1>2. Cardinality(S \cap T) = 0
  BY FS_EmptySet
<1>3. Cardinality(S) \in Nat /\ Cardinality(T) \in Nat
  BY FS_CardinalityType
<1> QED
  BY <1>1, <1>2, <1>3

\* The counts add up to the users.
LEMMA CountsAddUp ==
  ASSUME IsFiniteSet(Ids), authStatus \in [Ids -> AuthStatus], NEW j
  PROVE  /\ IsFiniteSet(UsersOf(j))
         /\ Cardinality(UsersOf(j)) = Cardinality(Having(j, "pending"))
              + Cardinality(Having(j, "active")) + Cardinality(Having(j, "failed"))
<1> DEFINE P == Having(j, "pending")
           A == Having(j, "active")
           F == Having(j, "failed")
<1>1. IsFiniteSet(P) /\ IsFiniteSet(A) /\ IsFiniteSet(F)
  BY HavingFinite
<1>2. P \cap A = {} /\ (P \cup A) \cap F = {}
  BY DEF Having
<1>3. UsersOf(j) = (P \cup A) \cup F
  BY DEF UsersOf, Having, AuthStatus
<1> HIDE DEF P, A, F
<1>4. IsFiniteSet(P \cup A) /\ Cardinality(P \cup A) = Cardinality(P) + Cardinality(A)
  BY <1>1, <1>2, DisjointSum
<1>5. IsFiniteSet((P \cup A) \cup F) /\ Cardinality((P \cup A) \cup F) = Cardinality(P \cup A) + Cardinality(F)
  BY <1>1, <1>2, <1>4, DisjointSum
<1>6. Cardinality((P \cup A) \cup F) = Cardinality(P) + Cardinality(A) + Cardinality(F)
  BY <1>4, <1>5
<1> QED
  BY <1>3, <1>5, <1>6 DEF P, A, F

LEMMA CommandsAreUsers ==
  ASSUME IsFiniteSet(Ids), CommandsHaveDocuments, NEW j
  PROVE  /\ IsFiniteSet(CommandsOf(j))
         /\ Cardinality(CommandsOf(j)) \in Nat
         /\ Cardinality(CommandsOf(j)) <= Cardinality(UsersOf(j))
<1>1. CommandsOf(j) \subseteq UsersOf(j)
  BY DEF CommandsOf, UsersOf, CommandsHaveDocuments, Ids
<1>2. IsFiniteSet(UsersOf(j))
  <2>1. UsersOf(j) \subseteq Ids
    BY DEF UsersOf
  <2> QED
    BY <2>1, FS_Subset
<1> QED
  BY <1>1, <1>2, FS_Subset, FS_CardinalityType

-------------------------------------------------------------------------------
(* What a step does to the documents as the queries see them.              *)

\* Documents keep their time, and who was decided upon stays so.
Kept ==
  /\ Ids \subseteq Ids'
  /\ \A i \in Ids : createdAt'[i] = createdAt[i]
  /\ \A i \in Ids : authStatus[i] # "pending" => authStatus'[i] # "pending"

LEMMA RegisterEffect ==
  ASSUME TypeInv, QueryTypeOK, IsFiniteSet(Ids), Register
  PROVE  /\ IsFiniteSet(Ids') /\ Kept
         /\ authStatus' \in [Ids' -> AuthStatus] /\ createdAt' \in [Ids' -> Time]
<1>1. [Next]_vars
  BY DEF Register
<1>2. IsFiniteSet(Ids') /\ Ids \subseteq Ids'
  <2>1. CASE Ids' = Ids
    BY <2>1
  <2>2. ASSUME NEW j \in Job, Ids' = Ids \cup {IdOf(j)} PROVE IsFiniteSet(Ids') /\ Ids \subseteq Ids'
    BY <2>2, FS_AddElement
  <2> QED
    BY <1>1, <2>1, <2>2, IdsEffect
<1>3. PICK t \in Time :
        /\ authStatus' = [i \in Ids' |-> IF i \in Ids THEN authStatus[i] ELSE "pending"]
        /\ createdAt' = [i \in Ids' |-> IF i \in Ids THEN createdAt[i] ELSE t]
  BY DEF Register, Ids
<1>4. Kept
  BY <1>2, <1>3 DEF Kept
<1>5. authStatus' \in [Ids' -> AuthStatus] /\ createdAt' \in [Ids' -> Time]
  BY <1>3 DEF QueryTypeOK, AuthStatus
<1> QED
  BY <1>2, <1>4, <1>5

LEMMA ResultEffect ==
  ASSUME QueryTypeOK, NEW i \in commands, NEW status \in {"active", "failed"}, RecordResult(i, status)
  PROVE  Kept /\ Ids' = Ids /\ authStatus' \in [Ids -> AuthStatus]
<1>1. Ids' = Ids /\ createdAt' = createdAt
  BY DEF RecordResult, vars, Ids
<1>2. authStatus' = [authStatus EXCEPT ![i] = status] /\ authStatus \in [Ids -> AuthStatus]
  BY DEF RecordResult, QueryTypeOK
<1> QED
  BY <1>1, <1>2 DEF Kept, AuthStatus

\* The reads change nothing but what the client knows.
LEMMA ReadEffect ==
  ASSUME \/ \E b \in batches : ReadBatch(b)
         \/ ReadCounts
         \/ \E filter \in Filter : StartWalk(filter)
         \/ \E items \in Pages(walk.filter, walk.page) : ListPage(items)
         \/ UNCHANGED queryVars
  PROVE  Ids' = Ids /\ authStatus' = authStatus /\ createdAt' = createdAt /\ UNCHANGED vars
  BY DEF ReadBatch, ReadCounts, StartWalk, ListPage, queryVars, vars, Ids

LEMMA Keeping ==
  ASSUME TypeInv, QueryTypeOK, IsFiniteSet(Ids), [QueryNext]_queryVars
  PROVE  Kept /\ IsFiniteSet(Ids')
<1>1. CASE Register
  BY <1>1, RegisterEffect
<1>2. ASSUME NEW i \in commands, NEW status \in {"active", "failed"}, RecordResult(i, status)
      PROVE  Kept /\ IsFiniteSet(Ids')
  BY <1>2, ResultEffect
<1>3. ASSUME Ids' = Ids /\ authStatus' = authStatus /\ createdAt' = createdAt
      PROVE  Kept /\ IsFiniteSet(Ids')
  BY <1>3 DEF Kept
<1> QED
  BY <1>1, <1>2, <1>3, ReadEffect DEF QueryNext

-------------------------------------------------------------------------------
(* The types of the variables.                                             *)

CountedInv == QueryTypeOK /\ IsFiniteSet(Ids)

LEMMA CountsType ==
  ASSUME IsFiniteSet(Ids), NEW b
  PROVE  Counts(b) \in [AuthStatus -> Nat]
<1>1. \A s \in AuthStatus : Counts(b)[s] \in Nat
  BY CountsAre, HavingFinite
<1>2. Counts(b) = [s \in AuthStatus |-> Counts(b)[s]]
  BY DEF Counts
<1> QED
  BY <1>1, <1>2

\* What a page is, without the finiteness of what it is cut from.
LEMMA PageIs ==
  ASSUME NEW filter, NEW page, NEW items \in Pages(filter, page)
  PROVE  LET all == Matching(filter)
             Size(n) == IF n < Cardinality(all) THEN n ELSE Cardinality(all)
             Newest(n, S) == {T \in kSubset(n, S) : \A i \in T, j \in S \ T : Newer(i, j)}
         IN  \E S \in Newest(Size(Skipped(page)), all), T \in Newest(Size(Skipped(page) + Limit), all) :
               S \subseteq T /\ items = T \ S
  BY DEF Pages

LEMMA PagesMatch ==
  ASSUME NEW filter, NEW page, NEW items \in Pages(filter, page)
  PROVE  items \subseteq Ids
<1> DEFINE all == Matching(filter)
           Size(n) == IF n < Cardinality(all) THEN n ELSE Cardinality(all)
<1>1. PICK T \in kSubset(Size(Skipped(page) + Limit), all) : items \subseteq T
  BY PageIs
<1>2. T \subseteq Ids
  BY <1>1 DEF kSubset, Matching
<1> QED
  BY <1>1, <1>2

LEMMA PollType ==
  ASSUME CountedInv, TypeInv, ReadCounts \/ \E b \in batches : ReadBatch(b)
  PROVE  /\ poll' \in [pc : {"idle", "reading", "answered"}, batch : Batch \cup {NoBatch},
                       counts : [AuthStatus -> Nat]]
         /\ poll'.batch \in Batch
<1>1. CASE ReadCounts
  <2>1. Counts(poll.batch) \in [AuthStatus -> Nat]
    BY CountsType DEF CountedInv
  <2> QED
    BY <1>1, <2>1 DEF ReadCounts, CountedInv, QueryTypeOK
<1>2. ASSUME NEW b \in batches, ReadBatch(b) PROVE poll'.batch \in Batch /\ poll'.counts \in [AuthStatus -> Nat]
                                                   /\ poll' = [pc |-> "reading", batch |-> b, counts |-> NoCounts]
  BY <1>2 DEF ReadBatch, NoCounts, TypeInv, TypeOK
<1> QED
  BY <1>1, <1>2

\* What a decision does to the walk.
LEMMA ResultWalk ==
  ASSUME QueryTypeOK, NEW i, NEW status, RecordResult(i, status)
  PROVE  \/ walk' = walk /\ ~Leaves(i, status)
         \/ Leaves(i, status) /\ walk' = [walk EXCEPT !.present = walk.present \ {i},
                                                    !.leavers = walk.leavers + 1]
  BY DEF RecordResult

LEMMA WalkType ==
  ASSUME CountedInv,
         \/ \E filter \in Filter : StartWalk(filter)
         \/ \E items \in Pages(walk.filter, walk.page) : ListPage(items)
  PROVE  walk' \in [pc : {"idle", "walking", "done"}, filter : FilterType, page : Nat \ {0},
                    present : SUBSET Ids, seen : SUBSET Ids, leavers : Nat]
<1>1. ASSUME NEW filter \in Filter, StartWalk(filter)
      PROVE  walk' \in [pc : {"idle", "walking", "done"}, filter : FilterType, page : Nat \ {0},
                        present : SUBSET Ids, seen : SUBSET Ids, leavers : Nat]
  <2>1. Matching(filter) \subseteq Ids
    BY DEF Matching
  <2> QED
    BY <1>1, <2>1 DEF StartWalk, FilterType
<1>2. ASSUME NEW items \in Pages(walk.filter, walk.page), ListPage(items)
      PROVE  walk' \in [pc : {"idle", "walking", "done"}, filter : FilterType, page : Nat \ {0},
                        present : SUBSET Ids, seen : SUBSET Ids, leavers : Nat]
  <2>1. items \subseteq Ids
    BY PagesMatch
  <2>2. PICK pc \in {"walking", "done"} :
          walk' = [walk EXCEPT !.seen = walk.seen \cup items, !.page = walk.page + 1, !.pc = pc]
    BY <1>2 DEF ListPage
  <2>3. walk \in [pc : {"idle", "walking", "done"}, filter : FilterType, page : Nat \ {0},
                  present : SUBSET Ids, seen : SUBSET Ids, leavers : Nat]
    BY DEF CountedInv, QueryTypeOK
  <2>4. walk.seen \cup items \in SUBSET Ids /\ walk.page + 1 \in Nat \ {0}
    BY <2>1, <2>3
  <2> QED
    BY <2>2, <2>3, <2>4
<1> QED
  BY <1>1, <1>2

LEMMA CountedInit == QueryInit => CountedInv
<1> SUFFICES ASSUME QueryInit PROVE CountedInv
  OBVIOUS
<1>1. Ids = {}
  BY DEF QueryInit, Init, Ids
<1>2. TypeOK
  BY TypeInit DEF QueryInit, TypeInv
<1>3. NoCounts \in [AuthStatus -> Nat]
  BY DEF NoCounts
<1>4. authStatus \in [Ids -> AuthStatus] /\ createdAt \in [Ids -> Time]
  BY <1>1 DEF QueryInit
<1>5. walk \in [pc : {"idle", "walking", "done"}, filter : FilterType, page : Nat \ {0},
                present : SUBSET Ids, seen : SUBSET Ids, leavers : Nat]
  BY DEF QueryInit, FilterType
<1>6. /\ poll \in [pc : {"idle", "reading", "answered"}, batch : Batch \cup {NoBatch},
                   counts : [AuthStatus -> Nat]]
      /\ poll.pc = "idle"
  BY <1>3 DEF QueryInit
<1> QED
  BY <1>1, <1>2, <1>4, <1>5, <1>6, FS_EmptySet DEF CountedInv, QueryTypeOK

LEMMA CountedStep == CountedInv /\ KnownInv /\ KnownInv' /\ [QueryNext]_queryVars => CountedInv'
<1> SUFFICES ASSUME CountedInv, KnownInv, KnownInv', [QueryNext]_queryVars PROVE CountedInv'
  OBVIOUS
<1> DEFINE PollOK == /\ poll \in [pc : {"idle", "reading", "answered"}, batch : Batch \cup {NoBatch},
                                  counts : [AuthStatus -> Nat]]
                     /\ poll.pc = "idle" \/ poll.batch \in Batch
           WalkOK == walk \in [pc : {"idle", "walking", "done"}, filter : FilterType, page : Nat \ {0},
                               present : SUBSET Ids, seen : SUBSET Ids, leavers : Nat]
           DocsOK == authStatus \in [Ids -> AuthStatus] /\ createdAt \in [Ids -> Time]
<1>1. TypeInv /\ TypeOK' /\ QueryTypeOK /\ IsFiniteSet(Ids)
  BY DEF KnownInv, TypeInv, CountedInv
<1>2. Ids \subseteq Ids' /\ IsFiniteSet(Ids')
  BY <1>1, Keeping DEF Kept
<1>3. PollOK /\ WalkOK /\ DocsOK
  BY <1>1 DEF QueryTypeOK
<1>4. ASSUME walk' = walk PROVE WalkOK'
  BY <1>2, <1>3, <1>4
<1>5. ASSUME poll' = poll PROVE PollOK'
  BY <1>3, <1>5
<1>6. ASSUME Ids' = Ids, authStatus' = authStatus, createdAt' = createdAt PROVE DocsOK'
  BY <1>3, <1>6
<1>7. PollOK' /\ WalkOK' /\ DocsOK'
  <2>1. CASE Register
    <3>1. DocsOK'
      BY <1>1, <2>1, RegisterEffect
    <3>2. PollOK'
      BY <1>3, <2>1 DEF Register
    <3> QED
      BY <1>4, <2>1, <3>1, <3>2 DEF Register
  <2>2. ASSUME NEW i \in commands, NEW status \in {"active", "failed"}, RecordResult(i, status)
        PROVE  PollOK' /\ WalkOK' /\ DocsOK'
    <3>1. DocsOK'
      BY <1>1, <1>3, <2>2, ResultEffect DEF RecordResult
    <3>2. WalkOK'
      <4>1. CASE walk' = walk
        BY <1>4, <4>1
      <4>2. CASE walk' = [walk EXCEPT !.present = walk.present \ {i}, !.leavers = walk.leavers + 1]
        <5>1. Ids' = Ids
          BY <1>1, <2>2, ResultEffect
        <5>2. walk.present \ {i} \in SUBSET Ids /\ walk.leavers + 1 \in Nat
          BY <1>3
        <5> QED
          BY <1>3, <4>2, <5>1, <5>2
      <4> QED
        BY <1>1, <2>2, <4>1, <4>2, ResultWalk
    <3> QED
      BY <1>5, <2>2, <3>1, <3>2 DEF RecordResult
  <2>3. CASE ReadCounts \/ \E b \in batches : ReadBatch(b)
    <3>1. PollOK'
      BY <1>1, <2>3, PollType DEF CountedInv
    <3>2. DocsOK'
      BY <1>6, <2>3, ReadEffect
    <3> QED
      BY <1>4, <2>3, <3>1, <3>2 DEF ReadCounts, ReadBatch
  <2>4. CASE \/ \E filter \in Filter : StartWalk(filter)
             \/ \E items \in Pages(walk.filter, walk.page) : ListPage(items)
    <3>1. WalkOK'
      BY <2>4, ReadEffect, WalkType
    <3>2. DocsOK'
      BY <1>6, <2>4, ReadEffect
    <3> QED
      BY <1>5, <2>4, <3>1, <3>2 DEF StartWalk, ListPage
  <2>5. CASE UNCHANGED queryVars
    BY <1>4, <1>5, <1>6, <2>5, ReadEffect DEF queryVars
  <2> QED
    BY <2>1, <2>2, <2>3, <2>4, <2>5 DEF QueryNext
<1> QED
  BY <1>1, <1>2, <1>7 DEF CountedInv, QueryTypeOK

LEMMA CountedInvariant == QuerySpec => [](CountedInv /\ KnownInv)
  BY CountedInit, CountedStep, RegistrationImplemented, KnownInvariant, PTL DEF QuerySpec

\* The variables of the queries keep their types, and with them the two reads
\* of a batch return numbers, and a page only users there are.
THEOREM QueryTypeCorrect == QuerySpec => []QueryTypeOK
<1>1. CountedInv => QueryTypeOK
  BY DEF CountedInv
<1> QED
  BY <1>1, CountedInvariant, PTL

-------------------------------------------------------------------------------
(* The answer to a poll.                                                   *)

\* What holds of the batch that was read, from the read on: its users are
\* there, and if it accounts for its rows, no more will come.
ReadOK(b) ==
  /\ b.job \in Job
  /\ b.created <= Cardinality(UsersOf(b.job))
  /\ Accounted(b) => Over(b.job)

ReadInv == poll.pc # "idle" => ReadOK(poll.batch)
PollInv == ReadInv /\ AnsweredIsSettled

LEMMA UsersGrow ==
  ASSUME IsFiniteSet(Ids'), Ids \subseteq Ids', NEW j
  PROVE  /\ Cardinality(UsersOf(j)) \in Nat /\ Cardinality(UsersOf(j))' \in Nat
         /\ Cardinality(UsersOf(j)) <= Cardinality(UsersOf(j))'
<1>1. UsersOf(j) \subseteq UsersOf(j)' /\ UsersOf(j)' \subseteq Ids'
  BY DEF UsersOf
<1> QED
  BY <1>1, FS_Subset, FS_CardinalityType

LEMMA ReadStays ==
  ASSUME CountedInv, KnownInv, [QueryNext]_queryVars, NEW b, b.created \in Nat, ReadOK(b)
  PROVE  ReadOK(b)'
<1>1. TypeInv /\ QueryTypeOK /\ IsFiniteSet(Ids)
  BY DEF KnownInv, CountedInv
<1>2. Ids \subseteq Ids' /\ IsFiniteSet(Ids')
  BY <1>1, Keeping DEF Kept
<1>3. b.job \in Job /\ b.created <= Cardinality(UsersOf(b.job)) /\ (Accounted(b) => Over(b.job))
  BY DEF ReadOK
<1>4. b.created <= Cardinality(UsersOf(b.job))'
  BY <1>2, <1>3, UsersGrow
<1>5. Over(b.job) => Over(b.job)'
  BY <1>1, <1>3, RegistrationStep, OverStays
<1> QED
  BY <1>3, <1>4, <1>5 DEF ReadOK, Accounted

LEMMA BatchRead ==
  ASSUME CountedInv, KnownInv, NEW b \in batches
  PROVE  b.created \in Nat /\ ReadOK(b)
<1>1. TypeInv /\ BatchInv /\ BatchReportsExactly /\ CommandsHaveDocuments /\ IsFiniteSet(Ids)
  BY DEF KnownInv, CountedInv
<1>2. b.job \in Job /\ b.created \in Nat /\ b.created <= Cardinality(CommandsOf(b.job))
  BY <1>1 DEF TypeInv, TypeOK, Batch, BatchReportsExactly
<1>3. /\ Cardinality(CommandsOf(b.job)) \in Nat
      /\ Cardinality(CommandsOf(b.job)) <= Cardinality(UsersOf(b.job))
  BY <1>1, CommandsAreUsers
<1>4. Cardinality(UsersOf(b.job)) \in Nat
  <2>1. UsersOf(b.job) \subseteq Ids
    BY DEF UsersOf
  <2> QED
    BY <1>1, <2>1, FS_Subset, FS_CardinalityType
<1>5. Accounted(b) => Over(b.job)
  BY <1>1, AccountedIsOver
<1> QED
  BY <1>2, <1>3, <1>4, <1>5 DEF ReadOK

\* Only a read of a batch changes the batch that was read.
LEMMA PollEffect ==
  ASSUME QueryTypeOK, [QueryNext]_queryVars
  PROVE  \/ \E b \in batches : poll'.batch = b /\ poll'.pc = "reading"
         \/ ReadCounts
         \/ poll' = poll
         \/ poll'.pc = "idle"
<1>1. CASE Register
  BY <1>1 DEF Register, QueryTypeOK
<1>2. ASSUME NEW b \in batches, ReadBatch(b) PROVE poll'.batch = b /\ poll'.pc = "reading"
  BY <1>2 DEF ReadBatch
<1>3. ASSUME NEW i \in commands, NEW status \in {"active", "failed"}, RecordResult(i, status)
      PROVE  poll' = poll
  BY <1>3 DEF RecordResult
<1>4. ASSUME \/ \E filter \in Filter : StartWalk(filter)
             \/ \E items \in Pages(walk.filter, walk.page) : ListPage(items)
      PROVE  poll' = poll
  BY <1>4 DEF StartWalk, ListPage
<1>5. CASE UNCHANGED queryVars
  BY <1>5 DEF queryVars
<1> QED
  BY <1>1, <1>2, <1>3, <1>4, <1>5 DEF QueryNext

LEMMA ReadCountsEffect ==
  ASSUME QueryTypeOK, ReadCounts
  PROVE  /\ poll.pc # "idle" /\ poll'.pc = "answered"
         /\ poll'.batch = poll.batch /\ poll'.counts = Counts(poll.batch)
  BY DEF ReadCounts, QueryTypeOK

LEMMA ReadStep == ReadInv /\ CountedInv /\ KnownInv /\ [QueryNext]_queryVars => ReadInv'
<1> SUFFICES ASSUME ReadInv, CountedInv, KnownInv, [QueryNext]_queryVars PROVE ReadInv'
  OBVIOUS
<1>1. QueryTypeOK
  BY DEF CountedInv
<1>2. ASSUME NEW b, b.created \in Nat, ReadOK(b), poll'.batch = b PROVE ReadInv'
  <2>1. ReadOK(b)'
    BY <1>2, ReadStays
  <2> QED
    BY <1>2, <2>1 DEF ReadInv, ReadOK, UsersOf, Over, Accounted
<1>3. ASSUME NEW b \in batches, poll'.batch = b PROVE ReadInv'
  BY <1>2, <1>3, BatchRead
<1>4. ASSUME poll'.batch = poll.batch, poll.pc # "idle" PROVE ReadInv'
  <2>1. poll.batch.created \in Nat
    BY <1>1, <1>4 DEF QueryTypeOK, Batch
  <2> QED
    BY <1>2, <1>4, <2>1 DEF ReadInv
<1>5. ASSUME poll' = poll \/ poll'.pc = "idle" PROVE ReadInv'
  BY <1>4, <1>5 DEF ReadInv
<1> QED
  BY <1>1, <1>3, <1>4, <1>5, PollEffect, ReadCountsEffect

LEMMA AnswerStep ==
  ReadInv /\ AnsweredIsSettled /\ CountedInv /\ KnownInv /\ [QueryNext]_queryVars => AnsweredIsSettled'
<1> SUFFICES ASSUME ReadInv, AnsweredIsSettled, CountedInv, KnownInv, [QueryNext]_queryVars,
                    poll'.pc = "answered"
             PROVE  AnsweredIsSettled'
  BY DEF AnsweredIsSettled
<1>1. TypeInv /\ QueryTypeOK /\ IsFiniteSet(Ids)
  BY DEF KnownInv, CountedInv
<1>2. Kept
  BY <1>1, Keeping
<1>3. [Next]_vars
  BY RegistrationStep
\* Once nobody is pending in an upload that is over, nobody is again.
<1>4. ASSUME NEW j \in Job, Over(j), \A i \in Ids : i.job = j => authStatus[i] # "pending"
      PROVE  \A i \in Ids' : i.job = j => authStatus'[i] # "pending"
  <2>1. \A i \in Ids' : i.job = j => i \in Ids
    BY <1>1, <1>3, <1>4, OverStays
  <2> QED
    BY <1>2, <1>4, <2>1 DEF Kept
<1>5. ASSUME poll' = poll PROVE AnsweredIsSettled'
  <2>1. PICK j : j = poll.batch.job
    OBVIOUS
  <2>2. poll.pc = "answered" /\ j \in Job /\ (Accounted(poll.batch) => Over(j))
    BY <1>5, <2>1 DEF ReadInv, ReadOK
  <2>3. Accounted(poll.batch) /\ poll.counts["pending"] = 0 =>
          \A i \in Ids' : i.job = j => authStatus'[i] # "pending"
    BY <1>4, <2>1, <2>2 DEF AnsweredIsSettled, Accounted
  <2> QED
    BY <1>5, <2>1, <2>2, <2>3 DEF AnsweredIsSettled, Accounted
<1>6. ASSUME ReadCounts PROVE AnsweredIsSettled'
  <2>1. PICK b : b = poll.batch
    OBVIOUS
  <2>2. poll'.batch = b /\ poll'.counts = Counts(b) /\ poll.pc # "idle"
    BY <1>1, <1>6, <2>1, ReadCountsEffect
  <2>3. /\ Counts(b)["pending"] = Cardinality(Having(b.job, "pending"))
        /\ Counts(b)["active"] = Cardinality(Having(b.job, "active"))
        /\ Counts(b)["failed"] = Cardinality(Having(b.job, "failed"))
    BY CountsAre DEF AuthStatus
  <2>4. b.created <= Counts(b)["pending"] + Counts(b)["active"] + Counts(b)["failed"]
    BY <1>1, <2>1, <2>2, <2>3, CountsAddUp DEF ReadInv, ReadOK, QueryTypeOK
  <2>5. Counts(b)["pending"] = 0 => \A i \in Ids : i.job = b.job => authStatus[i] # "pending"
    <3>1. IsFiniteSet(Having(b.job, "pending"))
      BY <1>1, HavingFinite
    <3>2. Counts(b)["pending"] = 0 => Having(b.job, "pending") = {}
      BY <2>3, <3>1, FS_EmptySet
    <3> QED
      BY <3>2 DEF Having
  <2>6. Ids' = Ids /\ authStatus' = authStatus
    BY <1>6, ReadEffect
  <2> QED
    BY <2>2, <2>4, <2>5, <2>6 DEF AnsweredIsSettled
<1> QED
  BY <1>1, <1>5, <1>6, PollEffect

\* AnsweredIsSettled, for every upload, every interleaving of its rows with the
\* two reads, and every result that is recorded in between.
THEOREM AnsweredSafe == QuerySpec => []AnsweredIsSettled
<1>1. QueryInit => PollInv
  BY DEF QueryInit, PollInv, ReadInv, AnsweredIsSettled
<1>2. PollInv /\ CountedInv /\ KnownInv /\ [QueryNext]_queryVars => PollInv'
  BY ReadStep, AnswerStep DEF PollInv
<1>3. PollInv => AnsweredIsSettled
  BY DEF PollInv
<1> QED
  BY <1>1, <1>2, <1>3, CountedInvariant, PTL DEF QuerySpec

-------------------------------------------------------------------------------
(* The walk through the pages.                                             *)
(* New users push those behind them back, never forward over the border of *)
(* a page.  A user who leaves the list pulls one forward over it at most.   *)

\* The documents in front of one, in the order of the list.
InFront(i) == {k \in Matching(walk.filter) : createdAt[k] > createdAt[i]}

\* Whom the walk has yet to show, and who is in front of where it has got to.
Passed == {i \in walk.present \ walk.seen : Cardinality(InFront(i)) < Skipped(walk.page)}

WalkInv ==
  /\ walk.pc = "walking" => walk.present \subseteq Matching(walk.filter)
  /\ walk.pc = "walking" /\ Distinct => Cardinality(Passed) <= walk.leavers
  /\ MissesNeedLeavers

LEMMA SkippedNext ==
  ASSUME NEW page \in Nat \ {0}
  PROVE  /\ Skipped(page) \in Nat /\ Skipped(page + 1) = Skipped(page) + Limit
         /\ Skipped(1) = 0
<1>1. Limit \in Nat
  OBVIOUS
<1>2. PICK n \in Nat : page = n + 1
  OBVIOUS
<1>3. Skipped(page) = n * Limit /\ Skipped(page + 1) = (n + 1) * Limit /\ Skipped(1) = 0 * Limit
  BY <1>2 DEF Skipped
<1>4. n * Limit \in Nat /\ (n + 1) * Limit = n * Limit + Limit /\ 0 * Limit = 0
  BY <1>1
<1> QED
  BY <1>3, <1>4

LEMMA MatchingFinite ==
  ASSUME CountedInv, NEW filter
  PROVE  IsFiniteSet(Matching(filter)) /\ Cardinality(Matching(filter)) \in Nat
<1>1. Matching(filter) \subseteq Ids
  BY DEF Matching
<1> QED
  BY <1>1, FS_Subset, FS_CardinalityType DEF CountedInv

\* A page is the stretch of the list behind what is skipped: who is neither on
\* it nor in front of it has everybody on it in front of himself.
LEMMA PageShows ==
  ASSUME CountedInv, Distinct, NEW items \in Pages(walk.filter, walk.page),
         NEW i \in Matching(walk.filter), i \notin items,
         Cardinality(InFront(i)) >= Skipped(walk.page)
  PROVE  /\ Cardinality(InFront(i)) >= Skipped(walk.page + 1)
         /\ ~ Cardinality(items) < Limit
<1> DEFINE all == Matching(walk.filter)
           Size(n) == IF n < Cardinality(all) THEN n ELSE Cardinality(all)
           low == Skipped(walk.page)
<1>1. PICK S \in SUBSET all, T \in SUBSET all :
        /\ Cardinality(S) = Size(low) /\ Cardinality(T) = Size(low + Limit)
        /\ \A k \in S, j \in all \ S : Newer(k, j)
        /\ \A k \in T, j \in all \ T : Newer(k, j)
        /\ S \subseteq T /\ items = T \ S
  BY PageIs DEF kSubset
<1>2. walk.page \in Nat \ {0} /\ createdAt \in [Ids -> Time] /\ all \subseteq Ids
  BY DEF CountedInv, QueryTypeOK, Matching
<1>3. low \in Nat /\ Skipped(walk.page + 1) = low + Limit /\ Limit \in Nat
  BY <1>2, SkippedNext
<1>4. IsFiniteSet(all) /\ Cardinality(all) \in Nat
  BY MatchingFinite
<1>5. IsFiniteSet(S) /\ IsFiniteSet(T) /\ IsFiniteSet(InFront(i)) /\ Cardinality(InFront(i)) \in Nat
  BY <1>1, <1>4, FS_Subset, FS_CardinalityType DEF InFront
<1>6. \A k \in all : createdAt[k] \in Nat
  BY <1>2
<1>7. i \notin S
  <2> SUFFICES ASSUME i \in S PROVE FALSE
    OBVIOUS
  <2>1. \A k \in InFront(i) : k \in S
    BY <1>1, <1>6 DEF InFront, Newer
  <2>2. InFront(i) \subseteq S \ {i}
    BY <1>6, <2>1 DEF InFront
  <2>3. IsFiniteSet(S \ {i}) /\ Cardinality(S \ {i}) = Cardinality(S) - 1
    BY <1>5, FS_RemoveElement
  <2>4. Cardinality(InFront(i)) <= Cardinality(S) - 1
    BY <2>2, <2>3, FS_Subset
  <2>5. Cardinality(S) <= low /\ Cardinality(S) \in Nat
    BY <1>1, <1>3, <1>4
  <2> QED
    BY <1>3, <1>5, <2>4, <2>5
<1>8. i \notin T
  BY <1>1, <1>7
<1>9. T \subseteq InFront(i)
  BY <1>1, <1>6, <1>8 DEF InFront, Newer, Distinct, Matching
<1>10. Cardinality(T) < Cardinality(all) /\ Cardinality(S) < Cardinality(all)
  <2>1. T \subseteq all \ {i} /\ S \subseteq all \ {i}
    BY <1>1, <1>7, <1>8
  <2>2. IsFiniteSet(all \ {i}) /\ Cardinality(all \ {i}) = Cardinality(all) - 1
    BY <1>4, FS_RemoveElement
  <2>3. /\ Cardinality(T) <= Cardinality(all) - 1 /\ Cardinality(S) <= Cardinality(all) - 1
        /\ Cardinality(T) \in Nat /\ Cardinality(S) \in Nat
    BY <1>5, <2>1, <2>2, FS_Subset, FS_CardinalityType
  <2> QED
    BY <1>4, <2>3
<1>11. Cardinality(T) = low + Limit /\ Cardinality(S) = low
  BY <1>1, <1>3, <1>4, <1>10
<1>12. Cardinality(InFront(i)) >= low + Limit
  BY <1>3, <1>5, <1>9, <1>11, FS_Subset
<1>13. Cardinality(items) = Cardinality(T) - Cardinality(S)
  <2>1. Cardinality(T \ S) = Cardinality(T) - Cardinality(T \cap S)
    BY <1>5, FS_Difference
  <2>2. T \cap S = S
    BY <1>1
  <2> QED
    BY <1>1, <2>1, <2>2
<1> QED
  BY <1>3, <1>11, <1>12, <1>13

\* The sets of the walk are finite, now and after a step.
WalkCounts ==
  /\ IsFiniteSet(walk.present \ walk.seen) /\ IsFiniteSet(Passed)
  /\ Cardinality(Passed) \in Nat /\ Passed \subseteq walk.present \ walk.seen
  /\ \A i : IsFiniteSet(InFront(i)) /\ Cardinality(InFront(i)) \in Nat
  /\ walk.leavers \in Nat /\ Skipped(walk.page) \in Nat

LEMMA WalkFinite == CountedInv => WalkCounts
<1> SUFFICES ASSUME CountedInv PROVE WalkCounts
  OBVIOUS
<1>1. walk.present \subseteq Ids /\ walk.leavers \in Nat /\ walk.page \in Nat \ {0} /\ IsFiniteSet(Ids)
  BY DEF CountedInv, QueryTypeOK
<1>2. Passed \subseteq walk.present \ walk.seen
  BY DEF Passed
<1>3. \A i : InFront(i) \subseteq Ids
  BY DEF InFront, Matching
<1>4. walk.present \ walk.seen \subseteq Ids
  BY <1>1
<1>5. \A S : S \subseteq Ids => IsFiniteSet(S) /\ Cardinality(S) \in Nat
  BY <1>1, FS_Subset, FS_CardinalityType
<1>6. Passed \subseteq Ids
  BY <1>2, <1>4
<1>7. Skipped(walk.page) \in Nat
  BY <1>1, SkippedNext
<1> QED
  BY <1>1, <1>2, <1>3, <1>4, <1>5, <1>6, <1>7 DEF WalkCounts

LEMMA WalkFiniteNext == CountedInv' => WalkCounts'
  BY WalkFinite, PTL

\* The times of users never become distinct again.
LEMMA DistinctStays ==
  ASSUME CountedInv, Kept, walk'.filter = walk.filter
  PROVE  Distinct' => Distinct
  BY DEF CountedInv, QueryTypeOK, Kept, Distinct

LEMMA DoneStays ==
  ASSUME CountedInv, WalkInv, Kept, walk' = walk
  PROVE  MissesNeedLeavers'
  BY DistinctStays DEF WalkInv, MissesNeedLeavers

\* While the list only grows, it grows in front.
LEMMA WalkWaits ==
  ASSUME CountedInv, CountedInv', WalkInv, Kept, walk' = walk,
         walk.pc = "walking" => Matching(walk.filter) \subseteq Matching(walk.filter)'
  PROVE  WalkInv'
<1> DEFINE all == Matching(walk.filter)
<1>1. MissesNeedLeavers'
  BY DoneStays
<1>2. walk.pc = "walking" => walk.present \subseteq all'
  BY DEF WalkInv
<1>3. ASSUME walk.pc = "walking", Distinct' PROVE Cardinality(Passed') <= walk.leavers
  <2>1. Cardinality(Passed) <= walk.leavers
    BY <1>3, DistinctStays DEF WalkInv
  <2>2. ASSUME NEW i \in all
        PROVE  Cardinality(InFront(i)) <= Cardinality(InFront(i)')
    <3>1. all \subseteq Ids /\ \A k \in Ids : createdAt'[k] = createdAt[k]
      BY DEF Matching, Kept
    <3>2. InFront(i) \subseteq InFront(i)'
      BY <1>3, <3>1 DEF InFront
    <3>3. IsFiniteSet(InFront(i)')
      BY WalkFiniteNext DEF WalkCounts
    <3> QED
      BY <3>2, <3>3, FS_Subset
  <2>3. walk.present \subseteq all
    BY <1>3 DEF WalkInv
  <2>4. Skipped(walk.page)' = Skipped(walk.page) /\ Skipped(walk.page) \in Nat
    BY WalkFinite DEF Skipped, WalkCounts
  <2>5. \A i : Cardinality(InFront(i)) \in Nat /\ Cardinality(InFront(i)') \in Nat
    BY WalkFinite, WalkFiniteNext DEF WalkCounts
  <2>6. Passed' \subseteq Passed
    BY <2>2, <2>3, <2>4, <2>5 DEF Passed
  <2>7. Cardinality(Passed') <= Cardinality(Passed) /\ Cardinality(Passed') \in Nat
    BY <2>6, WalkFinite, FS_Subset, FS_CardinalityType DEF WalkCounts
  <2> QED
    BY <2>1, <2>7, WalkFinite DEF WalkCounts
<1> QED
  BY <1>1, <1>2, <1>3 DEF WalkInv

\* Of two users on the list, the one behind has more in front of him.
LEMMA BehindHasMore ==
  ASSUME CountedInv, Distinct, NEW i \in Matching(walk.filter), NEW j \in Matching(walk.filter), i # j
  PROVE  Cardinality(InFront(i)) # Cardinality(InFront(j))
<1>1. \A k \in Matching(walk.filter) : createdAt[k] \in Nat
  BY DEF CountedInv, QueryTypeOK, Matching
<1>2. createdAt[i] # createdAt[j]
  BY DEF Distinct, Matching
<1>3. ASSUME NEW a \in Matching(walk.filter), NEW b \in Matching(walk.filter), createdAt[a] > createdAt[b]
      PROVE  Cardinality(InFront(a)) < Cardinality(InFront(b))
  <2>1. InFront(a) \subseteq InFront(b) \ {a} /\ a \in InFront(b)
    BY <1>1, <1>3 DEF InFront
  <2>2. IsFiniteSet(InFront(b) \ {a}) /\ Cardinality(InFront(b) \ {a}) = Cardinality(InFront(b)) - 1
    BY <2>1, WalkFinite, FS_RemoveElement DEF WalkCounts
  <2>3. Cardinality(InFront(a)) <= Cardinality(InFront(b)) - 1
    BY <2>1, <2>2, FS_Subset
  <2> QED
    BY <2>3, WalkFinite DEF WalkCounts
<1>4. createdAt[i] > createdAt[j] \/ createdAt[j] > createdAt[i]
  BY <1>1, <1>2
<1>5. Cardinality(InFront(i)) \in Nat /\ Cardinality(InFront(j)) \in Nat
  BY WalkFinite DEF WalkCounts
<1> QED
  BY <1>3, <1>4, <1>5

LEMMA AddOne ==
  ASSUME NEW S, IsFiniteSet(S), NEW e
  PROVE  IsFiniteSet(S \cup {e}) /\ Cardinality(S \cup {e}) <= Cardinality(S) + 1
<1>1. /\ IsFiniteSet(S \cup {e})
      /\ Cardinality(S \cup {e}) = IF e \in S THEN Cardinality(S) ELSE Cardinality(S) + 1
  BY FS_AddElement
<1>2. Cardinality(S) \in Nat
  BY FS_CardinalityType
<1> QED
  BY <1>1, <1>2

\* The one who leaves pulls everybody behind him forward by one place, and so
\* only the first of those to be shown next over the border.
LEMMA OneLeaves ==
  ASSUME CountedInv, CountedInv', WalkInv, Kept, Ids' = Ids, NEW x,
         walk.pc = "walking", walk'.pc = "walking",
         walk'.filter = walk.filter, walk'.page = walk.page, walk'.seen = walk.seen,
         walk'.present = walk.present \ {x}, walk'.leavers = walk.leavers + 1,
         Matching(walk.filter)' = Matching(walk.filter) \ {x}
  PROVE  WalkInv'
<1> DEFINE all == Matching(walk.filter)
           Border == {i \in walk.present : Cardinality(InFront(i)) = Skipped(walk.page)}
<1>1. walk.present \subseteq all /\ walk'.present \subseteq all'
  BY DEF WalkInv
<1>2. Skipped(walk.page)' = Skipped(walk.page) /\ Skipped(walk.page) \in Nat
  BY WalkFinite DEF Skipped, WalkCounts
<1>3. ASSUME NEW i \in all PROVE Cardinality(InFront(i)) <= Cardinality(InFront(i)') + 1
  <2>1. all \subseteq Ids /\ \A k \in Ids : createdAt'[k] = createdAt[k]
    BY DEF Matching, Kept
  <2>2. InFront(i)' = InFront(i) \ {x}
    BY <2>1 DEF InFront
  <2>3. IsFiniteSet(InFront(i)) /\ Cardinality(InFront(i)) \in Nat
    BY WalkFinite DEF WalkCounts
  <2>4. CASE x \in InFront(i)
    <3>1. Cardinality(InFront(i) \ {x}) = Cardinality(InFront(i)) - 1
      BY <2>3, <2>4, FS_RemoveElement
    <3>2. Cardinality(InFront(i)') = Cardinality(InFront(i)) - 1
      BY <2>2, <3>1
    <3> QED
      BY <2>3, <3>2
  <2>5. CASE x \notin InFront(i)
    <3>1. InFront(i)' = InFront(i)
      BY <2>2, <2>5
    <3> QED
      BY <2>3, <3>1
  <2> QED
    BY <2>4, <2>5
<1>4. Passed' \subseteq Passed \cup Border
  <2>1. \A i : Cardinality(InFront(i)) \in Nat /\ Cardinality(InFront(i)') \in Nat
    BY WalkFinite, WalkFiniteNext DEF WalkCounts
  <2> QED
    BY <1>1, <1>2, <1>3, <2>1 DEF Passed
<1>5. ASSUME Distinct' PROVE Cardinality(Passed') <= walk'.leavers
  <2>1. Distinct /\ Cardinality(Passed) <= walk.leavers
    BY <1>5, DistinctStays DEF WalkInv
  <2>2. ASSUME NEW i \in Border, NEW j \in Border PROVE i = j
    BY <1>1, <2>1, BehindHasMore
  <2>3. \E e : Passed' \subseteq Passed \cup {e}
    <3> HIDE DEF Border
    <3>1. CASE Border = {}
      BY <1>4, <3>1
    <3>2. ASSUME NEW e \in Border PROVE Border \subseteq {e}
      BY <2>2, <3>2
    <3> QED
      BY <1>4, <3>1, <3>2
  <2>4. PICK e : Passed' \subseteq Passed \cup {e}
    BY <2>3
  <2>5. /\ IsFiniteSet(Passed) /\ Cardinality(Passed) \in Nat /\ walk.leavers \in Nat
        /\ Cardinality(Passed') \in Nat
    BY WalkFinite, WalkFiniteNext DEF WalkCounts
  <2>6. IsFiniteSet(Passed \cup {e}) /\ Cardinality(Passed \cup {e}) <= Cardinality(Passed) + 1
    BY <2>5, AddOne
  <2>7. Cardinality(Passed') <= Cardinality(Passed \cup {e}) /\ Cardinality(Passed \cup {e}) \in Nat
    BY <2>4, <2>6, FS_Subset, FS_CardinalityType
  <2> QED
    BY <2>1, <2>5, <2>6, <2>7
<1> QED
  BY <1>1, <1>5 DEF WalkInv, MissesNeedLeavers

LEMMA WalkStarts ==
  ASSUME CountedInv, CountedInv', NEW filter \in Filter, StartWalk(filter)
  PROVE  WalkInv'
<1>1. /\ walk'.pc = "walking" /\ walk'.filter = filter /\ walk'.page = 1 /\ walk'.leavers = 0
      /\ walk'.present = Matching(filter) /\ walk'.seen = {}
  BY DEF StartWalk
<1>2. Ids' = Ids /\ authStatus' = authStatus
  BY ReadEffect
<1>3. walk'.present \subseteq Matching(walk.filter)'
  BY <1>1, <1>2 DEF Matching
<1>4. \A i : Cardinality(InFront(i)') \in Nat
  BY WalkFiniteNext DEF WalkCounts
<1>5. Skipped(walk.page)' = 0
  BY <1>1, SkippedNext DEF Skipped
<1>6. Passed' = {}
  BY <1>4, <1>5 DEF Passed
<1>7. Cardinality(Passed') = 0
  BY <1>6, FS_EmptySet
<1> QED
  BY <1>1, <1>3, <1>7 DEF WalkInv, MissesNeedLeavers

LEMMA WalkGoesOn ==
  ASSUME CountedInv, CountedInv', WalkInv, NEW items \in Pages(walk.filter, walk.page), ListPage(items)
  PROVE  WalkInv'
<1>1. /\ walk.pc = "walking" /\ walk'.filter = walk.filter /\ walk'.page = walk.page + 1
      /\ walk'.present = walk.present /\ walk'.seen = walk.seen \cup items
      /\ walk'.leavers = walk.leavers
      /\ walk'.pc = "done" => Cardinality(items) < Limit
  BY DEF ListPage, CountedInv, QueryTypeOK
<1>2. Ids' = Ids /\ authStatus' = authStatus /\ createdAt' = createdAt
  BY ReadEffect
<1>3. (Distinct' => Distinct) /\ \A i : InFront(i)' = InFront(i)
  BY <1>1, <1>2 DEF Distinct, InFront, Matching
<1>4. walk'.present \subseteq Matching(walk.filter)'
  BY <1>1, <1>2 DEF WalkInv, Matching
\* Who is not shown was passed before, or is behind this page, which is full.
<1>5. ASSUME Distinct', NEW i \in walk'.present \ walk'.seen, i \notin Passed
      PROVE  Cardinality(InFront(i)) >= Skipped(walk.page + 1) /\ walk'.pc # "done"
  <2>1. i \in Matching(walk.filter) /\ i \notin items /\ i \in walk.present \ walk.seen
    BY <1>1, <1>5 DEF WalkInv
  <2>2. Cardinality(InFront(i)) >= Skipped(walk.page)
    BY <1>5, <2>1, WalkFinite DEF Passed, WalkCounts
  <2> QED
    BY <1>1, <1>3, <1>5, <2>1, <2>2, PageShows
<1>6. Skipped(walk.page)' = Skipped(walk.page + 1) /\ Skipped(walk.page)' \in Nat
  <2>1. Skipped(walk.page)' = Skipped(walk.page + 1)
    BY <1>1 DEF Skipped
  <2> QED
    BY <2>1, SkippedNext DEF CountedInv, QueryTypeOK
<1>7. ASSUME Distinct'
      PROVE  /\ Cardinality(Passed') <= walk.leavers
             /\ walk'.pc = "done" => Cardinality(walk'.present \ walk'.seen) <= walk.leavers
  <2>1. \A i : Cardinality(InFront(i)) \in Nat
    BY WalkFinite DEF WalkCounts
  <2>2. Passed' \subseteq Passed
    BY <1>3, <1>5, <1>6, <1>7, <2>1 DEF Passed
  <2>3. walk'.pc = "done" => walk'.present \ walk'.seen \subseteq Passed
    BY <1>5, <1>7
  <2>4. Cardinality(Passed) <= walk.leavers
    BY <1>1, <1>3, <1>7 DEF WalkInv
  <2>5. \A S : S \subseteq Passed => Cardinality(S) <= Cardinality(Passed) /\ Cardinality(S) \in Nat
    BY WalkFinite, FS_Subset, FS_CardinalityType DEF WalkCounts
  <2>6. Cardinality(Passed) \in Nat /\ walk.leavers \in Nat
    BY WalkFinite DEF WalkCounts
  <2>7. Cardinality(Passed') <= walk.leavers
    BY <2>2, <2>4, <2>5, <2>6
  <2>8. ASSUME walk'.pc = "done" PROVE Cardinality(walk'.present \ walk'.seen) <= walk.leavers
    BY <2>3, <2>4, <2>5, <2>6, <2>8
  <2> QED
    BY <2>7, <2>8
<1> QED
  BY <1>1, <1>4, <1>7 DEF WalkInv, MissesNeedLeavers

LEMMA WalkStep == WalkInv /\ CountedInv /\ CountedInv' /\ KnownInv /\ [QueryNext]_queryVars => WalkInv'
<1> SUFFICES ASSUME WalkInv, CountedInv, CountedInv', KnownInv, [QueryNext]_queryVars PROVE WalkInv'
  OBVIOUS
<1>1. Kept /\ QueryTypeOK /\ TypeInv /\ IsFiniteSet(Ids)
  BY Keeping DEF KnownInv, CountedInv
<1>2. CASE Register
  <2>1. walk' = walk /\ \A i \in Ids : i \in Ids' /\ authStatus'[i] = authStatus[i]
    BY <1>1, <1>2 DEF Register, Kept, Ids
  <2>2. Matching(walk.filter) \subseteq Matching(walk.filter)'
    BY <2>1 DEF Matching
  <2> QED
    BY <1>1, <2>1, <2>2, WalkWaits
<1>3. ASSUME NEW i \in commands, NEW status \in {"active", "failed"}, RecordResult(i, status)
      PROVE  WalkInv'
  <2>1. Ids' = Ids /\ authStatus' = [authStatus EXCEPT ![i] = status] /\ authStatus \in [Ids -> AuthStatus]
    BY <1>1, <1>3, ResultEffect DEF RecordResult, QueryTypeOK
  <2>2. CASE walk' = walk /\ ~Leaves(i, status)
    <3>1. walk.pc = "walking" => Matching(walk.filter) \subseteq Matching(walk.filter)'
      BY <2>1, <2>2 DEF Matching, Leaves
    <3> QED
      BY <1>1, <2>2, <3>1, WalkWaits
  <2>3. CASE Leaves(i, status) /\ walk' = [walk EXCEPT !.present = walk.present \ {i},
                                                      !.leavers = walk.leavers + 1]
    <3>1. walk.pc = "walking" /\ i \in Ids /\ status \notin walk.filter.status
      BY <2>3 DEF Leaves, Matching
    <3>2. /\ walk'.pc = "walking" /\ walk'.filter = walk.filter /\ walk'.page = walk.page
          /\ walk'.seen = walk.seen /\ walk'.present = walk.present \ {i}
          /\ walk'.leavers = walk.leavers + 1
      BY <1>1, <2>3, <3>1 DEF QueryTypeOK
    <3>3. Matching(walk.filter)' = Matching(walk.filter) \ {i}
      BY <2>1, <3>1, <3>2 DEF Matching
    <3> QED
      BY <1>1, <2>1, <3>1, <3>2, <3>3, OneLeaves
  <2> QED
    BY <1>1, <1>3, <2>2, <2>3, ResultWalk
<1>4. ASSUME Ids' = Ids, authStatus' = authStatus, walk' = walk PROVE WalkInv'
  <2>1. Matching(walk.filter)' = Matching(walk.filter)
    BY <1>4 DEF Matching
  <2> QED
    BY <1>1, <1>4, <2>1, WalkWaits
<1>5. ASSUME ReadCounts \/ (\E b \in batches : ReadBatch(b)) \/ UNCHANGED queryVars PROVE WalkInv'
  BY <1>4, <1>5, ReadEffect DEF ReadCounts, ReadBatch, queryVars
<1> QED
  BY <1>2, <1>3, <1>5, WalkStarts, WalkGoesOn DEF QueryNext

\* MissesNeedLeavers, for every filter by role, batch and status, every length of
\* a page and every number of users, created and decided upon at any time of the
\* walk.
THEOREM WalkSafe == QuerySpec => []MissesNeedLeavers
<1>1. QueryInit => WalkInv
  BY DEF QueryInit, WalkInv, MissesNeedLeavers
<1>2. WalkInv => MissesNeedLeavers
  BY DEF WalkInv
<1> QED
  BY <1>1, <1>2, WalkStep, CountedInvariant, PTL DEF QuerySpec
===============================================================================
