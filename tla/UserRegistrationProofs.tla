------------------------ MODULE UserRegistrationProofs ------------------------
(***************************************************************************)
(* What registration and bulk uploads guarantee for every set of requests  *)
(* and files, whichever calls fail, and for any number of updates and      *)
(* crashes.                                                                *)
(***************************************************************************)
EXTENDS UserRegistration, FiniteSetTheorems, TLAPS

USE JobAssumption, EmailAssumption, FallibleAssumption, BoundsAssumption

\* Where a request is in its rows, and how many of them it has tallied.
Progress(j) ==
  /\ jobs[j].pc \in {"idle", "createBatch"} =>
       jobs[j].row = 1 /\ jobs[j].created = 0 /\ jobs[j].errors = 0
  /\ jobs[j].pc \in {"insert", "publish"} =>
       /\ jobs[j].row <= Len(RowsOf[j])
       /\ j \in Bulk => jobs[j].created + jobs[j].errors = jobs[j].row - 1
  /\ jobs[j].pc \in {"createBatch", "saveBatch"} => j \in Bulk
  /\ j \in Bulk /\ WellFormed(j) /\ jobs[j].pc \in {"saveBatch", "done"} =>
       jobs[j].created + jobs[j].errors = Len(RowsOf[j])
  /\ j \in Bulk /\ ~WellFormed(j) =>
       /\ jobs[j].pc \in {"idle", "done", "failed"}
       /\ jobs[j].created = 0 /\ jobs[j].errors = 0

ProgressOK == \A j \in Job : Progress(j)
TotalsOK == \A b \in batches : b.total = Len(RowsOf[b.job])
TypeInv == TypeOK /\ ProgressOK /\ TotalsOK

LEMMA RowsType ==
  ASSUME NEW j \in Job
  PROVE  /\ RowsOf[j] \in Seq(Row) /\ Len(RowsOf[j]) \in Nat
         /\ \A i \in 1 .. Len(RowsOf[j]) : RowsOf[j][i] \in Row
  OBVIOUS

LEMMA NewBatchType ==
  ASSUME NEW j \in Job
  PROVE  /\ NewBatch(j) \in Batch
         /\ NewBatch(j).job = j
         /\ NewBatch(j).total = Len(RowsOf[j])
BY RowsType, JobAssumption DEF NewBatch, Batch

LEMMA NewDocumentType ==
  ASSUME TypeInv, NEW j \in Job, jobs[j].pc \in {"insert", "publish"}
  PROVE  /\ IdOf(j) \in DocumentId
         /\ RowOf(j) \in Row
         /\ NewDocument(j) \in Document
         /\ NewDocument(j).id = IdOf(j) /\ NewDocument(j).nic = RowOf(j).nic
<1>1. jobs[j].row \in 1 .. Len(RowsOf[j])
  BY RowsType DEF TypeInv, TypeOK, JobState, ProgressOK, Progress
<1>2. RowOf(j) \in Row
  BY <1>1, RowsType DEF RowOf
<1>3. IdOf(j) \in DocumentId
  BY <1>1 DEF IdOf, DocumentId
<1> QED
  BY <1>2, <1>3 DEF NewDocument, Document, Row

-------------------------------------------------------------------------------
(* How the steps of a request change its state.                            *)

Others(j) ==
  /\ jobs' \in [Job -> JobState]
  /\ \A i \in Job : i # j => jobs'[i] = jobs[i]

Moves(j, step) ==
  /\ Others(j)
  /\ jobs'[j].pc = step
  /\ jobs'[j].row = jobs[j].row
  /\ jobs'[j].created = jobs[j].created
  /\ jobs'[j].errors = jobs[j].errors

\* An upload goes on to the next row, or to the end.
Advances(j, created, errors) ==
  /\ Others(j)
  /\ jobs'[j].created = created /\ jobs'[j].errors = errors
  /\ \/ /\ jobs[j].row < Len(RowsOf[j])
        /\ jobs'[j].pc = "insert" /\ jobs'[j].row = jobs[j].row + 1
     \/ /\ jobs[j].row = Len(RowsOf[j])
        /\ jobs'[j].pc = "saveBatch" /\ jobs'[j].row = jobs[j].row

Steps == {"idle", "createBatch", "insert", "publish", "saveBatch", "done", "failed", "lost"}

LEMMA GotoMoves ==
  ASSUME TypeOK, NEW j \in Job, NEW step \in Steps, Goto(j, step)
  PROVE  Moves(j, step)
<1>1. jobs[j] \in JobState
  BY DEF TypeOK
<1>2. jobs' = [jobs EXCEPT ![j].pc = step]
  BY DEF Goto
<1>3. jobs' \in [Job -> JobState]
  BY <1>1, <1>2 DEF TypeOK, JobState, Steps
<1> QED
  BY <1>1, <1>2, <1>3 DEF TypeOK, JobState, Moves, Others

LEMMA Advancing ==
  ASSUME TypeInv, NEW j \in Job, jobs[j].pc \in {"insert", "publish"},
         NEW created \in Nat, NEW errors \in Nat,
         jobs' = [jobs EXCEPT ![j] = [pc |-> NextStep(j), row |-> NextRow(j),
                                      created |-> created, errors |-> errors]]
  PROVE  Advances(j, created, errors)
<1>1. /\ jobs[j].row \in Nat \ {0} /\ Len(RowsOf[j]) \in Nat
      /\ jobs[j].row <= Len(RowsOf[j])
      /\ jobs \in [Job -> JobState]
  BY RowsType DEF TypeInv, TypeOK, JobState, ProgressOK, Progress
<1>2. /\ jobs'[j] = [pc |-> NextStep(j), row |-> NextRow(j), created |-> created, errors |-> errors]
      /\ \A i \in Job : i # j => jobs'[i] = jobs[i]
  BY <1>1
<1>3. \/ /\ jobs[j].row < Len(RowsOf[j])
         /\ NextStep(j) = "insert" /\ NextRow(j) = jobs[j].row + 1
      \/ /\ jobs[j].row = Len(RowsOf[j])
         /\ NextStep(j) = "saveBatch" /\ NextRow(j) = jobs[j].row
  BY <1>1 DEF NextStep, NextRow
<1>4. NextStep(j) \in {"insert", "saveBatch"} /\ NextRow(j) \in Nat \ {0}
  BY <1>1, <1>3
<1>5. jobs' \in [Job -> JobState]
  BY <1>1, <1>4 DEF JobState
<1> QED
  BY <1>2, <1>3, <1>5 DEF Advances, Others

LEMMA RowDoneEffect ==
  ASSUME TypeInv, NEW j \in Job, jobs[j].pc \in {"insert", "publish"}, RowDone(j)
  PROVE  \/ j \in Bulk /\ Advances(j, jobs[j].created + 1, jobs[j].errors)
         \/ j \notin Bulk /\ Moves(j, "done")
<1>1. CASE j \in Bulk
  <2>1. jobs[j].created + 1 \in Nat /\ jobs[j].errors \in Nat
    BY DEF TypeInv, TypeOK, JobState
  <2>2. jobs' = [jobs EXCEPT ![j] = [pc |-> NextStep(j), row |-> NextRow(j),
                    created |-> jobs[j].created + 1, errors |-> jobs[j].errors]]
    BY <1>1 DEF RowDone, TypeInv, TypeOK, JobState
  <2> QED
    BY <1>1, <2>1, <2>2, Advancing
<1>2. CASE j \notin Bulk
  BY <1>2, GotoMoves DEF RowDone, Steps, TypeInv
<1> QED
  BY <1>1, <1>2

LEMMA RowFailsEffect ==
  ASSUME TypeInv, NEW j \in Job, jobs[j].pc \in {"insert", "publish"}, RowFails(j)
  PROVE  \/ j \in Bulk /\ Advances(j, jobs[j].created, jobs[j].errors + 1)
         \/ j \notin Bulk /\ Moves(j, "failed")
<1>1. CASE j \in Bulk
  <2>1. jobs[j].created \in Nat /\ jobs[j].errors + 1 \in Nat
    BY DEF TypeInv, TypeOK, JobState
  <2>2. jobs' = [jobs EXCEPT ![j] = [pc |-> NextStep(j), row |-> NextRow(j),
                    created |-> jobs[j].created, errors |-> jobs[j].errors + 1]]
    BY <1>1 DEF RowFails, TypeInv, TypeOK, JobState
  <2> QED
    BY <1>1, <2>1, <2>2, Advancing
<1>2. CASE j \notin Bulk
  BY <1>2, GotoMoves DEF RowFails, Steps, TypeInv
<1> QED
  BY <1>1, <1>2

\* A crash ends the requests under way and touches nothing else of them.
LEMMA CrashEffect ==
  ASSUME TypeOK, Crash, NEW j \in Job
  PROVE  /\ jobs'[j] \in JobState
         /\ jobs'[j].row = jobs[j].row
         /\ jobs'[j].created = jobs[j].created
         /\ jobs'[j].errors = jobs[j].errors
         /\ IF At(j, "idle") \/ Ended(j) THEN jobs'[j].pc = jobs[j].pc ELSE jobs'[j].pc = "lost"
<1>1. jobs[j] \in JobState
  BY DEF TypeOK
<1>2. jobs'[j] = IF At(j, "idle") \/ Ended(j) THEN jobs[j] ELSE [jobs[j] EXCEPT !.pc = "lost"]
  BY DEF Crash
<1> QED
  BY <1>1, <1>2 DEF JobState

\* Every step of a request, with what it does to the request.
LEMMA StepEffect ==
  ASSUME TypeInv, NEW j \in Job, Start(j) \/ Run(j)
  PROVE  \/ StartSingle(j) /\ Moves(j, "insert")
         \/ StartBulk(j) /\ Moves(j, "createBatch")
         \/ RejectFile(j) /\ Moves(j, "done")
         \/ CreateBatch(j) /\ RowsOf[j] = <<>> /\ Moves(j, "saveBatch")
         \/ CreateBatch(j) /\ RowsOf[j] # <<>> /\ Moves(j, "insert")
         \/ CreateBatchFails(j) /\ Moves(j, "failed")
         \/ Insert(j) /\ Moves(j, "publish")
         \/ Publish(j) /\ j \in Bulk /\ Advances(j, jobs[j].created + 1, jobs[j].errors)
         \/ Publish(j) /\ j \notin Bulk /\ Moves(j, "done")
         \/ /\ InsertRefused(j) \/ PublishFails(j)
            /\ \/ j \in Bulk /\ Advances(j, jobs[j].created, jobs[j].errors + 1)
               \/ j \notin Bulk /\ Moves(j, "failed")
         \/ SaveBatch(j) /\ Moves(j, "done")
         \/ SaveBatchFails(j) /\ Moves(j, "failed")
<1> TypeOK
  BY DEF TypeInv
<1>1. CASE Start(j)
  BY <1>1, GotoMoves DEF Start, StartSingle, StartBulk, RejectFile, Steps
<1>2. CASE CreateBatch(j)
  BY <1>2, GotoMoves DEF CreateBatch, Steps
<1>3. CASE CreateBatchFails(j)
  BY <1>3, GotoMoves DEF CreateBatchFails, Steps
<1>4. CASE Insert(j)
  BY <1>4, GotoMoves DEF Insert, Steps
<1>5. CASE Publish(j)
  BY <1>5, RowDoneEffect DEF Publish, At
<1>6. CASE InsertRefused(j)
  BY <1>6, RowFailsEffect DEF InsertRefused, At
<1>7. CASE PublishFails(j)
  BY <1>7, RowFailsEffect DEF PublishFails, At
<1>8. CASE SaveBatch(j)
  BY <1>8, GotoMoves DEF SaveBatch, Steps
<1>9. CASE SaveBatchFails(j)
  BY <1>9, GotoMoves DEF SaveBatchFails, Steps
<1> QED
  BY <1>1, <1>2, <1>3, <1>4, <1>5, <1>6, <1>7, <1>8, <1>9 DEF Run

LEMMA StepOthers ==
  ASSUME TypeInv, NEW j \in Job, Start(j) \/ Run(j)
  PROVE  Others(j) /\ ~Ended(j) /\ UNCHANGED bounds
<1>1. Others(j)
  BY StepEffect DEF Moves, Advances
<1>2. ~Ended(j) /\ UNCHANGED bounds
  BY DEF Start, Run, StartSingle, StartBulk, RejectFile, CreateBatch, CreateBatchFails, Insert,
     InsertRefused, Publish, PublishFails, SaveBatch, SaveBatchFails, At, Ended
<1> QED
  BY <1>1, <1>2

LEMMA SumShift ==
  ASSUME NEW a \in Nat, NEW b \in Nat
  PROVE  b + 1 \in Nat /\ a + (b + 1) = a + b + 1
OBVIOUS

LEMMA AdvancesProgress ==
  ASSUME TypeInv, NEW j \in Job, jobs[j].pc \in {"insert", "publish"}, j \in Bulk,
         NEW created \in Nat, NEW errors \in Nat, Advances(j, created, errors),
         created + errors = jobs[j].created + jobs[j].errors + 1
  PROVE  Progress(j)'
<1>1. /\ jobs[j].row \in Nat \ {0} /\ Len(RowsOf[j]) \in Nat
      /\ jobs[j].created \in Nat /\ jobs[j].errors \in Nat
      /\ jobs[j].created + jobs[j].errors = jobs[j].row - 1
      /\ WellFormed(j)
  BY RowsType DEF TypeInv, TypeOK, JobState, ProgressOK, Progress
<1>2. created + errors = jobs[j].row
  BY <1>1
<1>3. jobs'[j].created = created /\ jobs'[j].errors = errors
  BY DEF Advances
<1>4. jobs'[j].created + jobs'[j].errors = jobs[j].row
  BY <1>2, <1>3
<1>5. CASE jobs'[j].pc = "insert" /\ jobs'[j].row = jobs[j].row + 1 /\ jobs[j].row < Len(RowsOf[j])
  <2>1. /\ jobs'[j].row <= Len(RowsOf[j])
        /\ jobs'[j].created + jobs'[j].errors = jobs'[j].row - 1
    BY <1>1, <1>4, <1>5
  <2> QED
    BY <1>1, <2>1, <1>5 DEF Progress, WellFormed
<1>6. CASE jobs'[j].pc = "saveBatch" /\ jobs[j].row = Len(RowsOf[j])
  <2>1. jobs'[j].created + jobs'[j].errors = Len(RowsOf[j])
    BY <1>4, <1>6
  <2> QED
    BY <1>1, <2>1, <1>6 DEF Progress, WellFormed
<1> QED
  BY <1>5, <1>6 DEF Advances

LEMMA ProgressStep ==
  ASSUME TypeInv, NEW j \in Job, Start(j) \/ Run(j)
  PROVE  ProgressOK'
<1>1. ASSUME NEW i \in Job, i # j PROVE Progress(i)'
  BY <1>1, StepOthers DEF TypeInv, ProgressOK, Progress, Others
<1>2. Progress(j)'
  <2>1. /\ Progress(j) /\ Len(RowsOf[j]) \in Nat
        /\ jobs[j].row \in Nat \ {0} /\ jobs[j].created \in Nat /\ jobs[j].errors \in Nat
    BY RowsType DEF TypeInv, TypeOK, JobState, ProgressOK
  <2>2. CASE StartSingle(j) /\ Moves(j, "insert")
    <3>1. j \notin Bulk /\ Len(RowsOf[j]) = 1 /\ jobs[j].row = 1
      BY <2>1, <2>2 DEF StartSingle, At, Progress
    <3> QED
      BY <2>2, <3>1 DEF Moves, Progress
  <2>3. CASE StartBulk(j) /\ Moves(j, "createBatch")
    BY <2>1, <2>3 DEF StartBulk, At, Moves, Progress
  <2>4. CASE RejectFile(j) /\ Moves(j, "done")
    BY <2>1, <2>4 DEF RejectFile, At, Moves, Progress
  <2>5. CASE CreateBatch(j) /\ RowsOf[j] = <<>> /\ Moves(j, "saveBatch")
    <3>1. /\ jobs'[j].created = 0 /\ jobs'[j].errors = 0 /\ jobs'[j].pc = "saveBatch"
          /\ Len(RowsOf[j]) = 0 /\ j \in Bulk /\ WellFormed(j)
      BY <2>1, <2>5 DEF CreateBatch, At, Moves, Progress
    <3>2. jobs'[j].created + jobs'[j].errors = Len(RowsOf[j])
      BY <3>1
    <3> QED
      BY <3>1, <3>2 DEF Progress
  <2>6. CASE CreateBatch(j) /\ RowsOf[j] # <<>> /\ Moves(j, "insert")
    <3>1. /\ jobs'[j].created = 0 /\ jobs'[j].errors = 0 /\ jobs'[j].pc = "insert" /\ jobs'[j].row = 1
          /\ j \in Bulk /\ WellFormed(j)
      BY <2>1, <2>6 DEF CreateBatch, At, Moves, Progress
    <3>2. Len(RowsOf[j]) > 0
      BY <2>6, RowsType
    <3>3. jobs'[j].created + jobs'[j].errors = jobs'[j].row - 1
      BY <3>1
    <3> QED
      BY <2>1, <3>1, <3>2, <3>3 DEF Progress
  <2>7. CASE CreateBatchFails(j) /\ Moves(j, "failed")
    BY <2>1, <2>7 DEF CreateBatchFails, At, Moves, Progress
  <2>8. CASE Insert(j) /\ Moves(j, "publish")
    BY <2>1, <2>8 DEF Insert, At, Moves, Progress
  <2>9. CASE Publish(j) /\ j \in Bulk /\ Advances(j, jobs[j].created + 1, jobs[j].errors)
    BY <2>1, <2>9, AdvancesProgress DEF Publish, At
  <2>10. CASE Publish(j) /\ j \notin Bulk /\ Moves(j, "done")
    BY <2>10 DEF Moves, Progress
  <2>11. CASE (InsertRefused(j) \/ PublishFails(j)) /\ j \in Bulk
              /\ Advances(j, jobs[j].created, jobs[j].errors + 1)
    <3>1. /\ jobs[j].created \in Nat /\ jobs[j].errors + 1 \in Nat
          /\ jobs[j].created + (jobs[j].errors + 1) = jobs[j].created + jobs[j].errors + 1
      BY <2>1, SumShift
    <3>2. jobs[j].pc \in {"insert", "publish"}
      BY <2>11 DEF InsertRefused, PublishFails, At
    <3> QED
      BY <2>11, <3>1, <3>2, AdvancesProgress
  <2>12. CASE (InsertRefused(j) \/ PublishFails(j)) /\ j \notin Bulk /\ Moves(j, "failed")
    BY <2>12 DEF Moves, Progress
  <2>13. CASE SaveBatch(j) /\ Moves(j, "done")
    BY <2>1, <2>13 DEF SaveBatch, At, Moves, Progress
  <2>14. CASE SaveBatchFails(j) /\ Moves(j, "failed")
    BY <2>1, <2>14 DEF SaveBatchFails, At, Moves, Progress
  <2> QED
    BY StepEffect, <2>2, <2>3, <2>4, <2>5, <2>6, <2>7, <2>8, <2>9, <2>10, <2>11, <2>12, <2>13, <2>14
<1> QED
  BY <1>1, <1>2 DEF ProgressOK

LEMMA TalliedType ==
  ASSUME NEW b \in Batch, jobs[b.job].created \in Nat, jobs[b.job].errors \in Nat,
         b.total - jobs[b.job].created \in Nat
  PROVE  /\ Tallied(b) \in Batch
         /\ Tallied(b).job = b.job /\ Tallied(b).total = b.total
         /\ Tallied(b).created = jobs[b.job].created
         /\ Tallied(b).failed = b.total - jobs[b.job].created
         /\ Tallied(b).errors = jobs[b.job].errors
<1>1. PICK created \in Nat, failed \in Nat, errors \in Nat :
          /\ created = jobs[b.job].created /\ errors = jobs[b.job].errors
          /\ failed = b.total - jobs[b.job].created
  OBVIOUS
<1>2. Tallied(b) = [b EXCEPT !.created = created, !.failed = failed, !.errors = errors]
  BY <1>1 DEF Tallied
<1>3. /\ Tallied(b) \in Batch
      /\ Tallied(b).job = b.job /\ Tallied(b).total = b.total
      /\ Tallied(b).created = created
      /\ Tallied(b).failed = failed
      /\ Tallied(b).errors = errors
  BY <1>2 DEF Batch
<1> QED
  BY <1>1, <1>3

LEMMA WriteBatchEffect ==
  ASSUME TypeInv, NEW j \in Job, At(j, "saveBatch"), WriteBatch(j)
  PROVE  /\ batches' \subseteq Batch
         /\ \A b \in batches' : b.total = Len(RowsOf[b.job])
         /\ \A b \in batches' : \/ b \in batches /\ b.job # j
                                \/ /\ b.job = j /\ b.created = jobs[j].created
                                   /\ b.failed = b.total - jobs[j].created
                                   /\ b.errors = jobs[j].errors
         /\ \A b \in batches : \E c \in batches' : c.job = b.job
<1>1. /\ jobs[j].created \in Nat /\ jobs[j].errors \in Nat /\ Len(RowsOf[j]) \in Nat
      /\ jobs[j].created + jobs[j].errors = Len(RowsOf[j])
  BY RowsType DEF TypeInv, TypeOK, JobState, ProgressOK, Progress, At
<1>2. Len(RowsOf[j]) - jobs[j].created \in Nat
  BY <1>1
<1>3. ASSUME NEW b \in batches, b.job = j
      PROVE  /\ Tallied(b) \in Batch /\ Tallied(b).job = j
             /\ Tallied(b).total = Len(RowsOf[j])
             /\ Tallied(b).created = jobs[j].created
             /\ Tallied(b).failed = Tallied(b).total - jobs[j].created
             /\ Tallied(b).errors = jobs[j].errors
  <2>1. b \in Batch /\ b.total = Len(RowsOf[j])
    BY <1>3 DEF TypeInv, TypeOK, TotalsOK
  <2>2. jobs[b.job] = jobs[j] /\ b.total - jobs[b.job].created \in Nat
    BY <1>2, <1>3, <2>1
  <2>3. jobs[b.job].created \in Nat /\ jobs[b.job].errors \in Nat
    BY <1>1, <2>2
  <2>4. /\ Tallied(b) \in Batch
        /\ Tallied(b).job = b.job /\ Tallied(b).total = b.total
        /\ Tallied(b).created = jobs[b.job].created
        /\ Tallied(b).failed = b.total - jobs[b.job].created
        /\ Tallied(b).errors = jobs[b.job].errors
    BY <2>1, <2>2, <2>3, TalliedType
  <2>5. Tallied(b).job = j /\ Tallied(b).total = Len(RowsOf[j])
    BY <1>3, <2>1, <2>4
  <2>6. Tallied(b).failed = Tallied(b).total - jobs[j].created
    BY <2>2, <2>4
  <2> QED
    BY <2>2, <2>4, <2>5, <2>6
<1>4. batches \subseteq Batch /\ TotalsOK
  BY DEF TypeInv, TypeOK
<1>5. ASSUME NEW b \in batches'
      PROVE  (b \in batches /\ b.job # j) \/ \E c \in batches : c.job = j /\ b = Tallied(c)
  BY <1>5 DEF WriteBatch
<1>6. \A b \in batches : (IF b.job = j THEN Tallied(b) ELSE b) \in batches'
  BY DEF WriteBatch
<1> QED
  BY <1>3, <1>4, <1>5, <1>6 DEF TotalsOK

LEMMA RenamedType ==
  ASSUME TypeOK, NEW d \in documents, NEW e \in Email
  PROVE  /\ [d EXCEPT !.email = e] \in Document
         /\ [d EXCEPT !.email = e].id = d.id
         /\ [d EXCEPT !.email = e].nic = d.nic
<1>1. d \in Document /\ e \in STRING
  BY DEF TypeOK
<1> QED
  BY <1>1 DEF Document

LEMMA TypeInit == Init => TypeInv
<1> SUFFICES ASSUME Init PROVE TypeInv
  OBVIOUS
<1>1. TypeOK
  BY DEF Init, TypeOK, JobState
<1>2. ASSUME NEW j \in Job PROVE Progress(j)
  BY DEF Init, Progress
<1> QED
  BY <1>1, <1>2 DEF Init, TypeInv, ProgressOK, TotalsOK

LEMMA TypeStep == TypeInv /\ [Next]_vars => TypeInv'
<1> SUFFICES ASSUME TypeInv, [Next]_vars PROVE TypeInv'
  OBVIOUS
<1>1. ASSUME NEW j \in Job, Start(j) \/ Run(j) PROVE TypeInv'
  <2>1. ProgressOK' /\ jobs' \in [Job -> JobState] /\ UNCHANGED bounds
    BY <1>1, ProgressStep, StepOthers DEF Others
  <2>2. documents' \subseteq Document
    <3>1. documents' = documents \/ ( /\ At(j, "insert")
                                      /\ documents' = documents \cup {NewDocument(j)} )
      BY <1>1 DEF Start, Run, StartSingle, StartBulk, RejectFile, CreateBatch, CreateBatchFails,
         Insert, InsertRefused, Publish, PublishFails, SaveBatch, SaveBatchFails
    <3> QED
      BY <3>1, NewDocumentType DEF At, TypeInv, TypeOK
  <2>3. commands' \subseteq DocumentId
    <3>1. commands' = commands \/ (At(j, "publish") /\ commands' = commands \cup {IdOf(j)})
      BY <1>1 DEF Start, Run, StartSingle, StartBulk, RejectFile, CreateBatch, CreateBatchFails,
         Insert, InsertRefused, Publish, PublishFails, SaveBatch, SaveBatchFails
    <3> QED
      BY <3>1, NewDocumentType DEF At, TypeInv, TypeOK
  <2>4. batches' \subseteq Batch /\ TotalsOK'
    <3>1. \/ batches' = batches
          \/ batches' = batches \cup {NewBatch(j)}
          \/ At(j, "saveBatch") /\ WriteBatch(j)
      BY <1>1 DEF Start, Run, StartSingle, StartBulk, RejectFile, CreateBatch, CreateBatchFails,
         Insert, InsertRefused, Publish, PublishFails, SaveBatch, SaveBatchFails
    <3>2. CASE At(j, "saveBatch") /\ WriteBatch(j)
      BY <3>2, WriteBatchEffect DEF TotalsOK
    <3> QED
      BY <3>1, <3>2, NewBatchType DEF TypeInv, TypeOK, TotalsOK
  <2> QED
    BY <2>1, <2>2, <2>3, <2>4 DEF TypeInv, TypeOK, bounds
<1>2. ASSUME NEW d \in documents, NEW e \in Email, UpdateEmail(d, e) PROVE TypeInv'
  <2>1. [d EXCEPT !.email = e] \in Document
    BY RenamedType DEF TypeInv
  <2>2. documents' \subseteq Document
    BY <1>2, <2>1 DEF UpdateEmail, TypeInv, TypeOK
  <2>3. TypeOK'
    BY <1>2, <2>2 DEF UpdateEmail, TypeInv, TypeOK
  <2> QED
    BY <1>2, <2>3 DEF UpdateEmail, TypeInv, ProgressOK, Progress, TotalsOK
<1>3. CASE Crash
  <2>1. ASSUME NEW j \in Job PROVE Progress(j)'
    BY <1>3, CrashEffect DEF TypeInv, ProgressOK, Progress, At, Ended
  <2>2. jobs' \in [Job -> JobState]
    BY <1>3, CrashEffect DEF Crash, TypeInv
  <2> QED
    BY <1>3, <2>1, <2>2 DEF Crash, TypeInv, TypeOK, ProgressOK, TotalsOK
<1>4. CASE UNCHANGED vars
  BY <1>4 DEF vars, bounds, TypeInv, TypeOK, ProgressOK, Progress, TotalsOK
<1> QED
  BY <1>1, <1>2, <1>3, <1>4 DEF Next

LEMMA TypeInvariant == Spec => []TypeInv
  BY TypeInit, TypeStep, PTL DEF Spec

\* The variables keep their types; the tallies of an upload never exceed its
\* rows, or what it reports as failed would not be a number of rows.
THEOREM TypeCorrect == Spec => []TypeOK
<1>1. TypeInv => TypeOK
  BY DEF TypeInv
<1> QED
  BY <1>1, TypeInvariant, PTL

-------------------------------------------------------------------------------
(* Documents and commands.                                                 *)

\* A request adds one document at most, which the indexes accept, ...
LEMMA DocumentsEffect ==
  ASSUME NEW j \in Job, Start(j) \/ Run(j)
  PROVE  \/ documents' = documents
         \/ /\ At(j, "insert") /\ Accepts(j)
            /\ documents' = documents \cup {NewDocument(j)}
  BY DEF Start, Run, StartSingle, StartBulk, RejectFile, CreateBatch, CreateBatchFails,
     Insert, InsertRefused, Publish, PublishFails, SaveBatch, SaveBatchFails

\* ... and an update replaces one by one with the same identity.
LEMMA UpdateEffect ==
  ASSUME TypeInv, NEW d \in documents, NEW e \in Email, UpdateEmail(d, e)
  PROVE  /\ UNCHANGED <<commands, batches, jobs>>
         /\ \E x : /\ documents' = (documents \ {d}) \cup {x}
                   /\ x.id = d.id /\ x.nic = d.nic
  BY RenamedType DEF UpdateEmail, TypeInv

\* Only an insert brings a new identity.
LEMMA IdsStay ==
  ASSUME TypeInv, [Next]_vars, NEW d \in documents
  PROVE  \E c \in documents' : c.id = d.id
<1>1. ASSUME NEW j \in Job, Start(j) \/ Run(j) PROVE d \in documents'
  BY <1>1, DocumentsEffect
<1>2. ASSUME NEW c \in documents, NEW e \in Email, UpdateEmail(c, e)
      PROVE  \E x \in documents' : x.id = d.id
  BY <1>2, UpdateEffect
<1>3. CASE Crash \/ UNCHANGED vars
  BY <1>3 DEF Crash, vars
<1> QED
  BY <1>1, <1>2, <1>3 DEF Next

\* A request about to publish has its document.
CommandInv ==
  /\ CommandsHaveDocuments
  /\ \A j \in Job : At(j, "publish") => \E d \in documents : d.id = IdOf(j)

LEMMA CommandStep == TypeInv /\ CommandInv /\ [Next]_vars => CommandInv'
<1> SUFFICES ASSUME TypeInv, CommandInv, [Next]_vars PROVE CommandInv'
  OBVIOUS
<1>1. \A id : (\E d \in documents : d.id = id) => \E d \in documents' : d.id = id
  BY IdsStay
<1>2. ASSUME NEW j \in Job, Start(j) \/ Run(j) PROVE CommandInv'
  <2>1. commands' = commands \/ (At(j, "publish") /\ commands' = commands \cup {IdOf(j)})
    BY <1>2 DEF Start, Run, StartSingle, StartBulk, RejectFile, CreateBatch, CreateBatchFails,
       Insert, InsertRefused, Publish, PublishFails, SaveBatch, SaveBatchFails
  <2>2. CommandsHaveDocuments'
    <3>1. ASSUME NEW c \in commands' PROVE \E d \in documents : d.id = c
      BY <1>2, <2>1 DEF CommandInv, CommandsHaveDocuments
    <3> QED
      BY <1>1, <3>1 DEF CommandsHaveDocuments
  <2>3. ASSUME NEW i \in Job, i # j, At(i, "publish")' PROVE \E d \in documents' : d.id = IdOf(i)'
    <3>1. jobs'[i] = jobs[i]
      BY <1>2, <2>3, StepOthers DEF Others
    <3> QED
      BY <1>1, <2>3, <3>1 DEF CommandInv, At, IdOf
  <2>4. ASSUME At(j, "publish")' PROVE \E d \in documents' : d.id = IdOf(j)'
    <3>1. Insert(j) /\ jobs'[j].row = jobs[j].row
      BY <1>2, <2>4, StepEffect DEF Moves, Advances, At
    <3>2. NewDocument(j) \in documents' /\ NewDocument(j).id = IdOf(j)
      BY <3>1, NewDocumentType DEF Insert, At
    <3> QED
      BY <3>1, <3>2 DEF IdOf
  <2> QED
    BY <2>2, <2>3, <2>4 DEF CommandInv
<1>3. ASSUME NEW d \in documents, NEW e \in Email, UpdateEmail(d, e) PROVE CommandInv'
  BY <1>1, <1>3, UpdateEffect DEF CommandInv, CommandsHaveDocuments, At, IdOf
<1>4. CASE Crash
  <2>1. ASSUME NEW j \in Job, At(j, "publish")' PROVE At(j, "publish") /\ IdOf(j)' = IdOf(j)
    BY <1>4, <2>1, CrashEffect DEF At, Ended, IdOf, TypeInv
  <2> QED
    BY <1>4, <2>1 DEF Crash, CommandInv, CommandsHaveDocuments
<1>5. CASE UNCHANGED vars
  BY <1>5 DEF vars, CommandInv, CommandsHaveDocuments, At, IdOf
<1> QED
  BY <1>2, <1>3, <1>4, <1>5 DEF Next

\* The auth service is never asked to register someone without a document.
THEOREM CommandsSafe == Spec => []CommandsHaveDocuments
<1>1. Init => CommandInv
  BY DEF Init, CommandInv, CommandsHaveDocuments, At
<1>2. Spec => []CommandInv
  BY <1>1, TypeInvariant, CommandStep, PTL DEF Spec
<1>3. CommandInv => CommandsHaveDocuments
  BY DEF CommandInv
<1> QED
  BY <1>2, <1>3, PTL

\* One document per nic, commanded or not: what the property says of commands
\* is not inductive, because an orphan may be what keeps a second one out.
NicInv == \A c, d \in documents : c.nic = d.nic => c = d

LEMMA NicStep == TypeInv /\ NicInv /\ [Next]_vars => NicInv'
<1> SUFFICES ASSUME TypeInv, NicInv, [Next]_vars PROVE NicInv'
  OBVIOUS
<1>1. ASSUME NEW j \in Job, Start(j) \/ Run(j) PROVE NicInv'
  <2>1. CASE At(j, "insert") /\ Accepts(j) /\ documents' = documents \cup {NewDocument(j)}
    <3>1. \A d \in documents : d.nic # NewDocument(j).nic
      BY <2>1, NewDocumentType DEF Accepts, Clashes, At
    <3> QED
      BY <2>1, <3>1 DEF NicInv
  <2> QED
    BY <1>1, <2>1, DocumentsEffect DEF NicInv
<1>2. ASSUME NEW d \in documents, NEW e \in Email, UpdateEmail(d, e) PROVE NicInv'
  <2>1. PICK x : documents' = (documents \ {d}) \cup {x} /\ x.nic = d.nic
    BY <1>2, UpdateEffect
  <2> QED
    BY <2>1 DEF NicInv
<1>3. CASE Crash \/ UNCHANGED vars
  BY <1>3 DEF Crash, vars, NicInv
<1> QED
  BY <1>1, <1>2, <1>3 DEF Next

\* No person is commanded twice.
THEOREM NicSafe == Spec => []NicCommandedOnce
<1>1. Init => NicInv
  BY DEF Init, NicInv
<1>2. Spec => []NicInv
  BY <1>1, TypeInvariant, NicStep, PTL DEF Spec
<1>3. NicInv => NicCommandedOnce
  BY DEF NicInv, NicCommandedOnce
<1> QED
  BY <1>2, <1>3, PTL

-------------------------------------------------------------------------------
(* What an upload reports.                                                 *)

\* The tally of created rows is the number of commands published, because the
\* rows at hand and to come have none yet.
Count(j) ==
  /\ IsFiniteSet(CommandsOf(j))
  /\ j \in Bulk => jobs[j].created = Cardinality(CommandsOf(j))
  /\ jobs[j].pc \in {"idle", "createBatch", "insert", "publish"} =>
       \A c \in CommandsOf(j) : c.row < jobs[j].row

CountInv == \A j \in Job : Count(j)

\* The steps that publish no command.
LEMMA NoCommand ==
  ASSUME TypeInv, NEW j \in Job, Start(j) \/ Run(j), ~Publish(j)
  PROVE  /\ commands' = commands
         /\ jobs'[j].created = jobs[j].created
         /\ jobs'[j].row \in Nat \ {0} /\ jobs[j].row <= jobs'[j].row
         /\ jobs'[j].pc \in {"idle", "createBatch", "insert", "publish"} =>
              jobs[j].pc \in {"idle", "createBatch", "insert", "publish"}
<1>1. commands' = commands
  BY DEF Start, Run, StartSingle, StartBulk, RejectFile, CreateBatch, CreateBatchFails,
     Insert, InsertRefused, PublishFails, SaveBatch, SaveBatchFails
<1>2. jobs[j].row \in Nat \ {0}
  BY DEF TypeInv, TypeOK, JobState
<1>3. /\ jobs'[j].created = jobs[j].created
      /\ jobs'[j].row = jobs[j].row \/ jobs'[j].row = jobs[j].row + 1
  BY StepEffect DEF Moves, Advances
<1>4. jobs'[j].pc \in {"idle", "createBatch", "insert", "publish"} =>
        jobs[j].pc \in {"idle", "createBatch", "insert", "publish"}
  <2>1. jobs[j].pc \in {"idle", "createBatch", "insert", "publish"} \/ At(j, "saveBatch")
    BY DEF Start, Run, StartSingle, StartBulk, RejectFile, CreateBatch, CreateBatchFails,
       Insert, InsertRefused, PublishFails, SaveBatch, SaveBatchFails, At
  <2>2. At(j, "saveBatch") => Moves(j, "done") \/ Moves(j, "failed")
    BY StepEffect DEF StartSingle, StartBulk, RejectFile, CreateBatch, CreateBatchFails,
       Insert, InsertRefused, PublishFails, At
  <2> QED
    BY <2>1, <2>2 DEF Moves
<1> QED
  BY <1>1, <1>2, <1>3, <1>4

LEMMA CountPublish ==
  ASSUME TypeInv, NEW j \in Job, Count(j), Publish(j)
  PROVE  Count(j)'
<1>1. /\ At(j, "publish") /\ jobs[j].row \in Nat \ {0} /\ Len(RowsOf[j]) \in Nat
      /\ jobs[j].created \in Nat
  BY RowsType DEF Publish, TypeInv, TypeOK, JobState
<1>2. IdOf(j) \notin CommandsOf(j) /\ IdOf(j).row = jobs[j].row /\ IdOf(j).job = j
  BY <1>1 DEF Count, IdOf, At
<1>3. CommandsOf(j)' = CommandsOf(j) \cup {IdOf(j)}
  BY <1>2 DEF Publish, CommandsOf
<1>4. IsFiniteSet(CommandsOf(j))
  BY DEF Count
<1>5. /\ IsFiniteSet(CommandsOf(j)')
      /\ Cardinality(CommandsOf(j)') = Cardinality(CommandsOf(j)) + 1
  BY <1>2, <1>3, <1>4, FS_AddElement
<1>6. CASE j \in Bulk /\ Advances(j, jobs[j].created + 1, jobs[j].errors)
  <2>1. jobs'[j].created = Cardinality(CommandsOf(j)')
    BY <1>5, <1>6 DEF Count, Advances
  <2>2. \A c \in CommandsOf(j) : c.row \in Nat /\ c.row < jobs[j].row
    BY <1>1 DEF Count, CommandsOf, TypeInv, TypeOK, DocumentId, At
  <2>3. ASSUME jobs'[j].pc \in {"idle", "createBatch", "insert", "publish"},
               NEW c \in CommandsOf(j)'
        PROVE  c.row < jobs'[j].row
    <3>1. jobs'[j].row = jobs[j].row + 1
      BY <1>6, <2>3 DEF Advances
    <3>2. c.row \in Nat /\ c.row <= jobs[j].row
      BY <1>1, <1>2, <1>3, <2>2, <2>3
    <3> QED
      BY <1>1, <3>1, <3>2
  <2> QED
    BY <1>5, <2>1, <2>3 DEF Count
<1>7. CASE j \notin Bulk /\ Moves(j, "done")
  BY <1>5, <1>7 DEF Count, Moves
<1> QED
  BY <1>6, <1>7, RowDoneEffect DEF Publish, At

LEMMA CountStep == TypeInv /\ CountInv /\ [Next]_vars => CountInv'
<1> SUFFICES ASSUME TypeInv, CountInv, [Next]_vars, NEW i \in Job PROVE Count(i)'
  BY DEF CountInv
<1> Count(i)
  BY DEF CountInv
<1>1. ASSUME NEW j \in Job, Start(j) \/ Run(j), i # j PROVE Count(i)'
  <2>1. jobs'[i] = jobs[i]
    BY <1>1, StepOthers DEF Others
  <2>2. commands' = commands \/ commands' = commands \cup {IdOf(j)}
    BY <1>1, NoCommand DEF Publish
  <2>3. CommandsOf(i)' = CommandsOf(i)
    BY <1>1, <2>2 DEF CommandsOf, IdOf
  <2> QED
    BY <2>1, <2>3 DEF Count
<1>2. CASE Start(i) \/ Run(i)
  <2>1. CASE ~Publish(i)
    <3>1. CommandsOf(i)' = CommandsOf(i)
      BY <1>2, <2>1, NoCommand DEF CommandsOf
    <3>2. jobs[i].row \in Nat /\ \A c \in CommandsOf(i) : c.row \in Nat
      BY DEF CommandsOf, TypeInv, TypeOK, DocumentId, JobState
    <3>3. /\ jobs'[i].created = jobs[i].created
          /\ jobs'[i].row \in Nat /\ jobs[i].row <= jobs'[i].row
          /\ jobs'[i].pc \in {"idle", "createBatch", "insert", "publish"} =>
               jobs[i].pc \in {"idle", "createBatch", "insert", "publish"}
      BY <1>2, <2>1, NoCommand
    <3> QED
      BY <3>1, <3>2, <3>3 DEF Count
  <2> QED
    BY <2>1, CountPublish
<1>3. ASSUME NEW d \in documents, NEW e \in Email, UpdateEmail(d, e) PROVE Count(i)'
  BY <1>3 DEF UpdateEmail, Count, CommandsOf
<1>4. CASE Crash
  <2>1. CommandsOf(i)' = CommandsOf(i)
    BY <1>4 DEF Crash, CommandsOf
  <2> QED
    BY <1>4, <2>1, CrashEffect DEF Count, TypeInv, At, Ended
<1>5. CASE UNCHANGED vars
  BY <1>5 DEF vars, Count, CommandsOf
<1> QED
  BY <1>1, <1>2, <1>3, <1>4, <1>5 DEF Next

\* A batch says what it was created with, or what its upload tallied: the
\* latter once an upload that was not rejected is answered.
Reported(b) ==
  \/ b = NewBatch(b.job) /\ (At(b.job, "done") => ~WellFormed(b.job))
  \/ /\ jobs[b.job].pc \in {"done", "failed"}
     /\ b.created = jobs[b.job].created
     /\ b.failed = b.total - jobs[b.job].created
     /\ b.errors = jobs[b.job].errors

BatchInv ==
  /\ \A b \in batches :
       b.job \in Bulk /\ jobs[b.job].pc \notin {"idle", "createBatch"} /\ Reported(b)
  /\ \A j \in Bulk : jobs[j].pc \in {"insert", "publish", "saveBatch", "done"} =>
       \E b \in batches : b.job = j

LEMMA BatchesEffect ==
  ASSUME TypeInv, NEW j \in Job, Start(j) \/ Run(j)
  PROVE  \/ /\ batches' = batches \cup {NewBatch(j)}
            /\ j \in Bulk /\ jobs[j].pc \in {"idle", "createBatch"}
            /\ \/ jobs'[j].pc \in {"insert", "saveBatch", "failed"}
               \/ jobs'[j].pc = "done" /\ ~WellFormed(j)
         \/ /\ At(j, "saveBatch") /\ WriteBatch(j)
            /\ Moves(j, "done") \/ Moves(j, "failed")
         \/ /\ batches' = batches
            /\ j \in Bulk => \/ jobs'[j].pc = "createBatch" /\ jobs[j].pc = "idle"
                             \/ jobs'[j].pc = "failed"
                             \/ /\ jobs'[j].pc \in {"insert", "publish", "saveBatch"}
                                /\ jobs[j].pc \in {"insert", "publish"}
<1>1. CASE (StartSingle(j) /\ Moves(j, "insert")) \/ (StartBulk(j) /\ Moves(j, "createBatch"))
  BY <1>1 DEF StartSingle, StartBulk, Moves, At
<1>2. CASE RejectFile(j) /\ Moves(j, "done")
  BY <1>2 DEF RejectFile, Moves, At
<1>3. CASE CreateBatch(j) /\ (Moves(j, "saveBatch") \/ Moves(j, "insert"))
  BY <1>3 DEF CreateBatch, Moves, At, TypeInv, ProgressOK, Progress
<1>4. CASE CreateBatchFails(j) /\ Moves(j, "failed")
  BY <1>4 DEF CreateBatchFails, Moves, At, TypeInv, ProgressOK, Progress
<1>5. CASE Insert(j) /\ Moves(j, "publish")
  BY <1>5 DEF Insert, Moves, At
<1>6. CASE Publish(j) /\ ( \/ j \in Bulk /\ Advances(j, jobs[j].created + 1, jobs[j].errors)
                           \/ j \notin Bulk )
  BY <1>6 DEF Publish, Advances, At
<1>7. CASE (InsertRefused(j) \/ PublishFails(j))
           /\ ( \/ j \in Bulk /\ Advances(j, jobs[j].created, jobs[j].errors + 1)
               \/ j \notin Bulk )
  BY <1>7 DEF InsertRefused, PublishFails, Advances, At
<1>8. CASE SaveBatch(j) /\ Moves(j, "done")
  BY <1>8 DEF SaveBatch
<1>9. CASE SaveBatchFails(j) /\ Moves(j, "failed")
  BY <1>9 DEF SaveBatchFails, Moves
<1> QED
  BY StepEffect, <1>1, <1>2, <1>3, <1>4, <1>5, <1>6, <1>7, <1>8, <1>9

LEMMA BatchStep == TypeInv /\ BatchInv /\ [Next]_vars => BatchInv'
<1> SUFFICES ASSUME TypeInv, BatchInv, [Next]_vars PROVE BatchInv'
  OBVIOUS
<1>0. batches \subseteq Batch /\ \A b \in batches : b.job \in Job
  BY DEF TypeInv, TypeOK, Batch
<1>1. ASSUME NEW j \in Job, Start(j) \/ Run(j) PROVE BatchInv'
  <2>1. \A i \in Job : i # j => jobs'[i] = jobs[i]
    BY <1>1, StepOthers DEF Others
  <2>2. ASSUME NEW b \in batches, b.job # j
        PROVE  b.job \in Bulk /\ jobs'[b.job].pc \notin {"idle", "createBatch"} /\ Reported(b)'
    <3>1. jobs'[b.job] = jobs[b.job]
      BY <1>0, <2>1, <2>2
    <3> QED
      BY <3>1 DEF BatchInv, Reported, At
  <2>3. NewBatch(j).job = j
    BY NewBatchType
  <2>4. CASE /\ batches' = batches \cup {NewBatch(j)}
             /\ j \in Bulk /\ jobs[j].pc \in {"idle", "createBatch"}
             /\ \/ jobs'[j].pc \in {"insert", "saveBatch", "failed"}
                \/ jobs'[j].pc = "done" /\ ~WellFormed(j)
    <3>1. \A b \in batches : b.job # j
      BY <2>4 DEF BatchInv
    <3>2. /\ NewBatch(j).job \in Bulk /\ jobs'[NewBatch(j).job].pc \notin {"idle", "createBatch"}
          /\ Reported(NewBatch(j))'
      BY <2>3, <2>4 DEF Reported, At
    <3>3. ASSUME NEW i \in Bulk, jobs'[i].pc \in {"insert", "publish", "saveBatch", "done"}
          PROVE  \E b \in batches' : b.job = i
      <4>1. CASE i = j
        BY <2>3, <2>4, <4>1
      <4>2. CASE i # j
        BY <2>1, <2>4, <3>3, <4>2 DEF BatchInv
      <4> QED
        BY <4>1, <4>2
    <3> QED
      BY <2>2, <2>4, <3>1, <3>2, <3>3 DEF BatchInv
  <2>5. CASE At(j, "saveBatch") /\ WriteBatch(j) /\ (Moves(j, "done") \/ Moves(j, "failed"))
    <3>1. j \in Bulk
      BY <2>5 DEF TypeInv, ProgressOK, Progress, At
    <3>2. \A b \in batches' : \/ b \in batches /\ b.job # j
                              \/ /\ b.job = j /\ b.created = jobs[j].created
                                 /\ b.failed = b.total - jobs[j].created
                                 /\ b.errors = jobs[j].errors
      BY <2>5, WriteBatchEffect
    <3>3. ASSUME NEW b \in batches'
          PROVE  b.job \in Bulk /\ jobs'[b.job].pc \notin {"idle", "createBatch"} /\ Reported(b)'
      <4>1. CASE b \in batches /\ b.job # j
        BY <2>2, <4>1
      <4>2. CASE /\ b.job = j /\ b.created = jobs[j].created
                 /\ b.failed = b.total - jobs[j].created
                 /\ b.errors = jobs[j].errors
        BY <2>5, <3>1, <4>2 DEF Moves, Reported
      <4> QED
        BY <3>2, <4>1, <4>2
    <3>4. ASSUME NEW i \in Bulk, jobs'[i].pc \in {"insert", "publish", "saveBatch", "done"}
          PROVE  \E b \in batches' : b.job = i
      <4>1. jobs[i].pc \in {"insert", "publish", "saveBatch", "done"}
        BY <2>1, <2>5, <3>4 DEF At
      <4>2. PICK b \in batches : b.job = i
        BY <4>1 DEF BatchInv
      <4>3. \A c \in batches : \E d \in batches' : d.job = c.job
        BY <2>5, WriteBatchEffect
      <4> QED
        BY <4>2, <4>3
    <3> QED
      BY <3>3, <3>4 DEF BatchInv
  <2>6. CASE /\ batches' = batches
             /\ j \in Bulk => \/ jobs'[j].pc = "createBatch" /\ jobs[j].pc = "idle"
                              \/ jobs'[j].pc = "failed"
                              \/ /\ jobs'[j].pc \in {"insert", "publish", "saveBatch"}
                                 /\ jobs[j].pc \in {"insert", "publish"}
    <3>1. ASSUME NEW b \in batches, b.job = j
          PROVE  b.job \in Bulk /\ jobs'[b.job].pc \notin {"idle", "createBatch"} /\ Reported(b)'
      <4>1. j \in Bulk /\ jobs[j].pc \notin {"idle", "createBatch"} /\ Reported(b)
        BY <3>1 DEF BatchInv
      <4>2. b = NewBatch(j)
        BY <1>1, <3>1, <4>1, StepOthers DEF Reported, Ended
      <4> QED
        BY <2>6, <3>1, <4>1, <4>2 DEF Reported, At
    <3>2. ASSUME NEW i \in Bulk, jobs'[i].pc \in {"insert", "publish", "saveBatch", "done"}
          PROVE  \E b \in batches' : b.job = i
      BY <2>1, <2>6, <3>2 DEF BatchInv
    <3> QED
      BY <2>2, <2>6, <3>1, <3>2 DEF BatchInv
  <2> QED
    BY <1>1, <2>4, <2>5, <2>6, BatchesEffect
<1>2. ASSUME NEW d \in documents, NEW e \in Email, UpdateEmail(d, e) PROVE BatchInv'
  BY <1>2 DEF UpdateEmail, BatchInv, Reported, At
<1>3. CASE Crash
  <2>1. UNCHANGED batches /\ \A j \in Job :
          /\ jobs'[j].created = jobs[j].created /\ jobs'[j].errors = jobs[j].errors
          /\ jobs'[j].pc = jobs[j].pc \/ (jobs'[j].pc = "lost" /\ ~Ended(j))
    BY <1>3, CrashEffect DEF Crash, TypeInv
  <2>2. ASSUME NEW b \in batches
        PROVE  b.job \in Bulk /\ jobs'[b.job].pc \notin {"idle", "createBatch"} /\ Reported(b)'
    BY <1>0, <2>1 DEF BatchInv, Reported, At, Ended
  <2> QED
    BY <2>1, <2>2 DEF BatchInv
<1>4. CASE UNCHANGED vars
  BY <1>4 DEF vars, BatchInv, Reported, At
<1> QED
  BY <1>1, <1>2, <1>3, <1>4 DEF Next

\* An upload reports exactly what it did.
THEOREM BatchSafe == Spec => []BatchReportsExactly
<1>1. Init => CountInv /\ BatchInv
  <2> SUFFICES ASSUME Init PROVE CountInv /\ BatchInv
    OBVIOUS
  <2>1. \A j \in Job : CommandsOf(j) = {} /\ jobs[j].created = 0 /\ jobs[j].pc = "idle"
    BY DEF Init, CommandsOf
  <2> QED
    BY <2>1, FS_EmptySet DEF Init, CountInv, Count, BatchInv
<1>2. Spec => [](CountInv /\ BatchInv)
  BY <1>1, TypeInvariant, CountStep, BatchStep, PTL DEF Spec
<1>3. ASSUME TypeInv, CountInv, BatchInv PROVE BatchReportsExactly
  <2> SUFFICES ASSUME NEW b \in batches
               PROVE  /\ b.created <= Cardinality(CommandsOf(b.job))
                      /\ At(b.job, "done") =>
                           /\ b.created = Cardinality(CommandsOf(b.job))
                           /\ b.created + b.failed = b.total
                           /\ WellFormed(b.job) => b.errors = b.failed
    BY DEF BatchReportsExactly
  <2>1. /\ b.job \in Job /\ b.job \in Bulk
        /\ b.created \in Nat /\ b.failed \in Nat /\ b.errors \in Nat
        /\ b.total \in Nat /\ b.total = Len(RowsOf[b.job])
        /\ jobs[b.job] \in JobState /\ Progress(b.job)
    BY <1>3 DEF TypeInv, TypeOK, TotalsOK, ProgressOK, Batch, BatchInv
  <2>2. /\ jobs[b.job].created = Cardinality(CommandsOf(b.job))
        /\ jobs[b.job].created \in Nat /\ jobs[b.job].errors \in Nat
    BY <1>3, <2>1 DEF CountInv, Count, JobState
  <2>3. CASE b = NewBatch(b.job) /\ (At(b.job, "done") => ~WellFormed(b.job))
    <3>1. b.created = 0 /\ (~WellFormed(b.job) => b.failed = b.total)
      BY <2>1, <2>3 DEF NewBatch
    <3>2. ~WellFormed(b.job) => jobs[b.job].created = 0
      BY <2>1 DEF Progress
    <3> QED
      BY <2>1, <2>2, <2>3, <3>1, <3>2
  <2>4. CASE /\ b.created = jobs[b.job].created
             /\ b.failed = b.total - jobs[b.job].created
             /\ b.errors = jobs[b.job].errors
    <3>1. At(b.job, "done") /\ WellFormed(b.job) => b.created + b.errors = b.total
      BY <2>1, <2>4 DEF Progress, At
    <3>2. b.created + b.failed = b.total
      BY <2>1, <2>2, <2>4
    <3> QED
      BY <2>1, <2>2, <2>4, <3>1, <3>2
  <2> QED
    BY <1>3, <2>3, <2>4 DEF BatchInv, Reported
<1> QED
  BY <1>2, <1>3, TypeInvariant, PTL

-------------------------------------------------------------------------------
(* Orphans show.                                                           *)

\* A document without a command is the one at hand, or its row failed.
Excused(d) ==
  \/ d.id \in commands
  \/ At(d.id.job, "publish") /\ d.id = IdOf(d.id.job)
  \/ jobs[d.id.job].pc \in {"failed", "lost"}
  \/ d.id.job \in Bulk /\ jobs[d.id.job].errors > 0

OrphanInv == \A d \in documents : Excused(d)

LEMMA OrphanRun ==
  ASSUME TypeInv, OrphanInv, NEW j \in Job, Start(j) \/ Run(j)
  PROVE  OrphanInv'
<1>1. \A d \in documents : d.id.job \in Job
  BY DEF TypeInv, TypeOK, Document, DocumentId
<1>2. commands \subseteq commands'
  BY DEF Start, Run, StartSingle, StartBulk, RejectFile, CreateBatch, CreateBatchFails,
     Insert, InsertRefused, Publish, PublishFails, SaveBatch, SaveBatchFails
<1>3. ASSUME NEW d \in documents, d.id.job # j PROVE Excused(d)'
  <2>1. jobs'[d.id.job] = jobs[d.id.job]
    BY <1>1, <1>3, StepOthers DEF Others
  <2> QED
    BY <1>2, <2>1 DEF OrphanInv, Excused, At, IdOf
<1>4. /\ jobs[j].errors \in Nat /\ jobs[j].row \in Nat
      /\ jobs'[j].errors = jobs[j].errors \/ jobs'[j].errors = jobs[j].errors + 1
  BY StepEffect DEF TypeInv, TypeOK, JobState, Moves, Advances
<1>5. InsertRefused(j) \/ PublishFails(j) =>
        jobs'[j].pc = "failed" \/ (j \in Bulk /\ jobs'[j].errors = jobs[j].errors + 1)
  BY RowFailsEffect DEF InsertRefused, PublishFails, Moves, Advances, At
<1>6. ASSUME NEW d \in documents, d.id.job = j PROVE Excused(d)'
  <2>1. CASE d.id \in commands
    BY <1>2, <2>1 DEF Excused
  <2>2. CASE At(j, "publish") /\ d.id = IdOf(j)
    <3>1. (Publish(j) /\ IdOf(j) \in commands') \/ PublishFails(j)
      BY <2>2 DEF Start, Run, StartSingle, StartBulk, RejectFile, CreateBatch, CreateBatchFails,
         Insert, InsertRefused, Publish, SaveBatch, SaveBatchFails, At
    <3> QED
      BY <1>4, <1>5, <1>6, <2>2, <3>1 DEF Excused
  <2>3. CASE jobs[j].pc \in {"failed", "lost"}
    BY <2>3, StepOthers DEF Ended
  <2>4. CASE j \in Bulk /\ jobs[j].errors > 0
    <3>1. jobs'[j].errors > 0
      BY <1>4, <2>4
    <3> QED
      BY <1>6, <2>4, <3>1 DEF Excused
  <2> QED
    BY <1>6, <2>1, <2>2, <2>3, <2>4 DEF OrphanInv, Excused
<1>7. ASSUME NEW d, d = NewDocument(j), At(j, "insert") PROVE Excused(d)'
  <2>1. d.id = IdOf(j) /\ d.id.job = j /\ d.id.row = jobs[j].row
    BY <1>7, NewDocumentType DEF At, IdOf
  <2>2. Insert(j) \/ InsertRefused(j)
    BY <1>7 DEF Start, Run, StartSingle, StartBulk, RejectFile, CreateBatch, CreateBatchFails,
       Publish, PublishFails, SaveBatch, SaveBatchFails, At
  <2>3. CASE Insert(j)
    <3>1. jobs'[j].pc = "publish" /\ jobs'[j].row = jobs[j].row
      BY <2>3, GotoMoves DEF Insert, Moves, Steps, TypeInv
    <3> QED
      BY <2>1, <3>1 DEF Excused, At, IdOf
  <2>4. CASE InsertRefused(j)
    BY <1>4, <1>5, <2>1, <2>4 DEF Excused
  <2> QED
    BY <2>2, <2>3, <2>4
<1>8. documents' = documents \/ (At(j, "insert") /\ documents' = documents \cup {NewDocument(j)})
  BY DocumentsEffect
<1> QED
  BY <1>3, <1>6, <1>7, <1>8 DEF OrphanInv

LEMMA OrphanStep == TypeInv /\ OrphanInv /\ [Next]_vars => OrphanInv'
<1> SUFFICES ASSUME TypeInv, OrphanInv, [Next]_vars PROVE OrphanInv'
  OBVIOUS
<1>1. ASSUME NEW d \in documents, NEW e \in Email, UpdateEmail(d, e) PROVE OrphanInv'
  <2>1. PICK x : documents' = (documents \ {d}) \cup {x} /\ x.id = d.id
    BY <1>1, UpdateEffect
  <2>2. ASSUME NEW c \in documents' PROVE \E b \in documents : c.id = b.id
    BY <2>1
  <2>3. UNCHANGED <<commands, jobs>>
    BY <1>1 DEF UpdateEmail
  <2> QED
    BY <2>2, <2>3 DEF OrphanInv, Excused, At, IdOf
<1>2. CASE Crash
  <2>1. UNCHANGED <<documents, commands>>
    BY <1>2 DEF Crash
  <2>2. ASSUME NEW d \in documents PROVE Excused(d)'
    <3>1. d.id.job \in Job
      BY DEF TypeInv, TypeOK, Document, DocumentId
    <3> QED
      BY <1>2, <2>1, <3>1, CrashEffect DEF OrphanInv, Excused, At, IdOf, Ended, TypeInv
  <2> QED
    BY <2>1, <2>2 DEF OrphanInv
<1>3. CASE UNCHANGED vars
  BY <1>3 DEF vars, OrphanInv, Excused, At, IdOf
<1> QED
  BY <1>1, <1>2, <1>3, OrphanRun DEF Next

\* A document whose command was not published shows in the answer.
THEOREM OrphanSafe == Spec => []NoSilentOrphan
<1>1. Init => OrphanInv /\ BatchInv
  <2> SUFFICES ASSUME Init PROVE OrphanInv /\ BatchInv
    OBVIOUS
  <2>1. documents = {} /\ batches = {} /\ \A j \in Job : jobs[j].pc = "idle"
    BY DEF Init
  <2> QED
    BY <2>1 DEF OrphanInv, BatchInv
<1>2. Spec => [](OrphanInv /\ BatchInv)
  BY <1>1, TypeInvariant, OrphanStep, BatchStep, PTL DEF Spec
<1>3. ASSUME TypeInv, OrphanInv, BatchInv PROVE NoSilentOrphan
  <2> SUFFICES ASSUME NEW d \in documents, NEW j, j = d.id.job,
                      d.id \notin commands, jobs[j].pc = "done"
               PROVE  \E b \in batches : b.job = j /\ b.failed > 0 /\ b.errors > 0
    BY DEF NoSilentOrphan, Ended
  <2>1. j \in Job /\ j \in Bulk /\ jobs[j].errors > 0
    BY <1>3 DEF OrphanInv, Excused, At, TypeInv, TypeOK, Document, DocumentId
  <2>2. /\ WellFormed(j)
        /\ jobs[j].created \in Nat /\ jobs[j].errors \in Nat /\ Len(RowsOf[j]) \in Nat
        /\ jobs[j].created + jobs[j].errors = Len(RowsOf[j])
    <3>1. Progress(j) /\ jobs[j] \in JobState /\ Len(RowsOf[j]) \in Nat
      BY <1>3, <2>1, RowsType DEF TypeInv, TypeOK, ProgressOK
    <3>2. WellFormed(j)
      BY <2>1, <3>1 DEF Progress
    <3>3. jobs[j].created + jobs[j].errors = Len(RowsOf[j])
      BY <2>1, <3>1, <3>2 DEF Progress
    <3> QED
      BY <3>1, <3>2, <3>3 DEF JobState
  <2>3. PICK b \in batches : b.job = j
    BY <1>3, <2>1 DEF BatchInv
  <2>4. b.failed = b.total - jobs[j].created /\ b.errors = jobs[j].errors
    BY <1>3, <2>2, <2>3 DEF BatchInv, Reported, At
  <2>5. b.total = Len(RowsOf[j])
    BY <1>3, <2>3 DEF TypeInv, TotalsOK
  <2>6. b.failed = jobs[j].errors
    BY <2>2, <2>4, <2>5
  <2> QED
    BY <2>1, <2>3, <2>4, <2>6
<1> QED
  BY <1>2, <1>3, TypeInvariant, PTL

-------------------------------------------------------------------------------
(* The life of a registration, as far as it is in the hands of this part.  *)

\* Users are created and commanded here; nobody is decided upon yet.
Known(i) == \E d \in documents : d.id = i

Life == INSTANCE RegistrationLifecycle WITH
  User <- DocumentId, Reliable <- TRUE,
  authStatus <- [i \in DocumentId |-> IF Known(i) THEN "pending" ELSE "none"],
  requested <- commands, registered <- {}, informed <- {}

\* A request makes itself known by its insert and is commanded by its publish.
LEMMA RequestLives ==
  ASSUME TypeInv, CommandInv, NEW j \in Job, Start(j) \/ Run(j)
  PROVE  [Life!Next]_(Life!vars)
<1>1. CASE At(j, "insert") /\ Accepts(j) /\ documents' = documents \cup {NewDocument(j)}
  <2>1. commands' = commands
    BY <1>1 DEF Start, Run, StartSingle, StartBulk, RejectFile, CreateBatch, CreateBatchFails,
       Insert, InsertRefused, Publish, PublishFails, SaveBatch, SaveBatchFails, At
  <2>2. IdOf(j) \in DocumentId /\ NewDocument(j).id = IdOf(j)
    BY <1>1, NewDocumentType DEF At
  <2>3. \A i \in DocumentId : Known(i)' <=> Known(i) \/ i = IdOf(j)
    BY <1>1, <2>2 DEF Known
  <2>4. CASE Known(IdOf(j))
    BY <2>1, <2>3, <2>4 DEF Life!vars
  <2>5. CASE ~Known(IdOf(j))
    <3>1. PICK before : before = [i \in DocumentId |-> IF Known(i) THEN "pending" ELSE "none"]
      OBVIOUS
    <3>2. PICK after : after = [i \in DocumentId |-> IF Known(i)' THEN "pending" ELSE "none"]
      OBVIOUS
    <3>3. before[IdOf(j)] = "none" /\ after = [before EXCEPT ![IdOf(j)] = "pending"]
      BY <2>2, <2>3, <2>5, <3>1, <3>2
    <3>4. Life!Create(IdOf(j))
      BY <2>1, <3>1, <3>2, <3>3 DEF Life!Create
    <3> QED
      BY <2>2, <3>4, Zenon DEF Life!Next
  <2> QED
    BY <2>4, <2>5
<1>2. CASE documents' = documents
  <2>1. CASE commands' = commands
    BY <1>2, <2>1 DEF Life!vars, Known
  <2>2. CASE At(j, "publish") /\ commands' = commands \cup {IdOf(j)}
    <3>1. IdOf(j) \in DocumentId /\ Known(IdOf(j))
      BY <2>2, NewDocumentType DEF CommandInv, At, Known
    <3>2. Life!Request(IdOf(j))
      BY <1>2, <2>2, <3>1 DEF Life!Request, Known
    <3> QED
      BY <3>1, <3>2, Zenon DEF Life!Next
  <2> QED
    BY <2>1, <2>2 DEF Start, Run, StartSingle, StartBulk, RejectFile, CreateBatch,
       CreateBatchFails, Insert, InsertRefused, Publish, PublishFails, SaveBatch, SaveBatchFails
<1> QED
  BY <1>1, <1>2, DocumentsEffect

\* Requests and uploads, however they overlap and whatever fails, do to a user
\* what RegistrationPipeline takes of them: the document comes first and stays,
\* and the command goes out for a pending user.
THEOREM LifecycleKept == Spec => Life!Spec
<1>1. Init => Life!Init
  BY DEF Init, Life!Init, Known
<1>2. Init => CommandInv
  BY DEF Init, CommandInv, CommandsHaveDocuments, At
<1>3. TypeInv /\ CommandInv /\ [Next]_vars => [Life!Next]_(Life!vars)
  <2> SUFFICES ASSUME TypeInv, CommandInv, [Next]_vars PROVE [Life!Next]_(Life!vars)
    OBVIOUS
  <2>1. ASSUME NEW d \in documents, NEW e \in Email, UpdateEmail(d, e)
        PROVE  UNCHANGED Life!vars
    <3>1. \A i \in DocumentId : Known(i)' <=> Known(i)
      BY <2>1, UpdateEffect DEF Known
    <3> QED
      BY <2>1, <3>1, UpdateEffect DEF Life!vars
  <2>2. CASE Crash \/ UNCHANGED vars
    BY <2>2 DEF Crash, vars, Life!vars, Known
  <2> QED
    BY <2>1, <2>2, RequestLives DEF Next
<1> QED
  BY <1>1, <1>2, <1>3, TypeInvariant, CommandStep, PTL DEF Spec, Life!Spec

-------------------------------------------------------------------------------
(* What bounds the work on a request.                                      *)

\* How many steps a request has in front of it at most.
Remaining(j) ==
  CASE At(j, "idle")        -> 2 * Len(RowsOf[j]) + 4
    [] At(j, "createBatch") -> 2 * Len(RowsOf[j]) + 3
    [] At(j, "insert")      -> 2 * (Len(RowsOf[j]) - jobs[j].row) + 3
    [] At(j, "publish")     -> 2 * (Len(RowsOf[j]) - jobs[j].row) + 2
    [] At(j, "saveBatch")   -> 1
    [] OTHER                -> 0

\* No row, and no failure, is gone through for ever: each step of a request,
\* its loss in a crash included, leaves it with fewer to go.
RequestMovesOn ==
  [][\A j \in Job : jobs'[j] # jobs[j] => Remaining(j)' < Remaining(j)]_vars

LEMMA RemainingType ==
  ASSUME TypeInv, NEW j \in Job
  PROVE  Remaining(j) \in Nat /\ (jobs[j].pc \in {"insert", "publish"} => Remaining(j) > 1)
<1>1. Len(RowsOf[j]) \in Nat /\ jobs[j].row \in Nat
  BY RowsType DEF TypeInv, TypeOK, JobState
<1>2. jobs[j].pc \in {"insert", "publish"} => jobs[j].row <= Len(RowsOf[j])
  BY DEF TypeInv, ProgressOK, Progress
<1>3. CASE jobs[j].pc \in {"insert", "publish"}
  <2>1. PICK n \in Nat : n = Len(RowsOf[j]) - jobs[j].row
    BY <1>1, <1>2, <1>3
  <2>2. Remaining(j) = 2 * n + 3 \/ Remaining(j) = 2 * n + 2
    BY <1>3, <2>1 DEF Remaining, At
  <2> QED
    BY <2>2
<1>4. CASE jobs[j].pc \in {"idle", "createBatch"}
  <2>1. \/ Remaining(j) = 2 * Len(RowsOf[j]) + 4
        \/ Remaining(j) = 2 * Len(RowsOf[j]) + 3
    BY <1>4 DEF Remaining, At
  <2> QED
    BY <1>1, <1>4, <2>1
<1>5. CASE jobs[j].pc \notin {"idle", "createBatch", "insert", "publish"}
  <2>1. Remaining(j) = 0 \/ Remaining(j) = 1
    BY <1>5 DEF Remaining, At
  <2> QED
    BY <1>5, <2>1
<1> QED
  BY <1>3, <1>4, <1>5

\* The next row, or the end of the file.
LEMMA AdvancesRemaining ==
  ASSUME TypeInv, NEW j \in Job, jobs[j].pc \in {"insert", "publish"},
         NEW created, NEW errors, Advances(j, created, errors)
  PROVE  Remaining(j)' < Remaining(j)
<1>1. Len(RowsOf[j]) \in Nat /\ jobs[j].row \in Nat
  BY RowsType DEF TypeInv, TypeOK, JobState
<1>2. CASE /\ jobs[j].row < Len(RowsOf[j])
           /\ jobs'[j].pc = "insert" /\ jobs'[j].row = jobs[j].row + 1
  <2>1. Remaining(j)' = 2 * (Len(RowsOf[j]) - (jobs[j].row + 1)) + 3
    BY <1>2 DEF Remaining, At
  <2>2. Remaining(j) \in {2 * (Len(RowsOf[j]) - jobs[j].row) + 3,
                          2 * (Len(RowsOf[j]) - jobs[j].row) + 2}
    BY DEF Remaining, At
  <2> QED
    BY <1>1, <2>1, <2>2
<1>3. CASE jobs'[j].pc = "saveBatch"
  <2>1. Remaining(j)' = 1
    BY <1>3 DEF Remaining, At
  <2> QED
    BY <2>1, RemainingType
<1> QED
  BY <1>2, <1>3 DEF Advances

LEMMA StepRemaining ==
  ASSUME TypeInv, NEW j \in Job, Start(j) \/ Run(j)
  PROVE  Remaining(j)' < Remaining(j)
<1>1. /\ Len(RowsOf[j]) \in Nat /\ jobs[j].row \in Nat
      /\ At(j, "createBatch") \/ At(j, "idle") => jobs[j].row = 1
      /\ At(j, "insert") => jobs[j].row <= Len(RowsOf[j])
  BY RowsType DEF TypeInv, TypeOK, JobState, ProgressOK, Progress, At
<1>2. ASSUME NEW step \in {"done", "failed"}, Moves(j, step),
             jobs[j].pc \in {"idle", "createBatch", "insert", "publish", "saveBatch"}
      PROVE  Remaining(j)' < Remaining(j)
  <2>1. Remaining(j)' = 0
    BY <1>2 DEF Moves, Remaining, At
  <2>2. Remaining(j) > 0
    BY <1>1, <1>2, RemainingType DEF Remaining, At
  <2> QED
    BY <2>1, <2>2
<1>3. CASE StartSingle(j) /\ Moves(j, "insert")
  BY <1>1, <1>3 DEF StartSingle, Moves, Remaining, At
<1>4. CASE StartBulk(j) /\ Moves(j, "createBatch")
  BY <1>1, <1>4 DEF StartBulk, Moves, Remaining, At
<1>5. CASE CreateBatch(j) /\ Moves(j, "saveBatch")
  BY <1>1, <1>5 DEF CreateBatch, Moves, Remaining, At
<1>6. CASE CreateBatch(j) /\ Moves(j, "insert")
  BY <1>1, <1>6 DEF CreateBatch, Moves, Remaining, At
<1>7. CASE Insert(j) /\ Moves(j, "publish")
  BY <1>1, <1>7 DEF Insert, Moves, Remaining, At
<1>8. ASSUME NEW created, NEW errors, Advances(j, created, errors),
             Publish(j) \/ InsertRefused(j) \/ PublishFails(j)
      PROVE  Remaining(j)' < Remaining(j)
  BY <1>8, AdvancesRemaining DEF Publish, InsertRefused, PublishFails, At
<1>9. jobs[j].pc \in {"idle", "createBatch", "insert", "publish", "saveBatch"}
  BY StepOthers DEF TypeInv, TypeOK, JobState, Ended
<1> QED
  BY StepEffect, <1>2, <1>3, <1>4, <1>5, <1>6, <1>7, <1>8, <1>9

\* A request takes a bounded number of steps, two per row and four more.
THEOREM RequestMovesSafe == Spec => RequestMovesOn
<1>1. TypeInv /\ [Next]_vars =>
        [\A j \in Job : jobs'[j] # jobs[j] => Remaining(j)' < Remaining(j)]_vars
  <2> SUFFICES ASSUME TypeInv, Next, NEW j \in Job, jobs'[j] # jobs[j]
               PROVE  Remaining(j)' < Remaining(j)
    BY DEF vars
  <2>1. ASSUME NEW i \in Job, Start(i) \/ Run(i) PROVE Remaining(j)' < Remaining(j)
    <3>1. i = j
      BY <2>1, StepOthers DEF Others
    <3> QED
      BY <2>1, <3>1, StepRemaining
  <2>2. CASE Crash
    <3>1. ~At(j, "idle") /\ ~Ended(j) /\ jobs'[j].pc = "lost"
      BY <2>2, CrashEffect DEF Crash, TypeInv
    <3>2. Remaining(j)' = 0
      BY <3>1 DEF Remaining, At
    <3>3. jobs[j].pc \in {"createBatch", "insert", "publish", "saveBatch"}
      BY <3>1 DEF At, Ended, TypeInv, TypeOK, JobState
    <3>4. Remaining(j) > 0
      BY <3>3, RemainingType DEF Remaining, At
    <3> QED
      BY <3>2, <3>4
  <2>3. ~\E d \in documents, e \in Email : UpdateEmail(d, e)
    BY DEF UpdateEmail
  <2> QED
    BY <2>1, <2>2, <2>3 DEF Next
<1> QED
  BY <1>1, TypeInvariant, PTL DEF Spec, RequestMovesOn
===============================================================================
