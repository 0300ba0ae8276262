---------------------------- MODULE UserRegistration ----------------------------
(***************************************************************************)
(* User management (apps/user-management) on the sending side: POST        *)
(* /users/students and /users/staff, which register one person, and POST   *)
(* /users/bulk-upload, which registers the rows of a file one by one.      *)
(* Both go through createPendingUser: insert a pending user document, then *)
(* publish user.register for the auth service.                             *)
(*                                                                         *)
(* Nothing ties the two writes together, many requests run at once, and    *)
(* what a request had done when the service crashes stays done.  The       *)
(* unique indexes of the users collection are the only thing that keeps    *)
(* concurrent requests from registering a person twice.                    *)
(***************************************************************************)
EXTENDS Naturals, Sequences, FiniteSets

CONSTANTS
  Job,         \* the HTTP requests
  Bulk,        \* those that upload a file
  RowsOf,      \* RowsOf[j]: what request j asks to register, blank rows left out
  ErrorsOf,    \* ErrorsOf[j]: how many errors ExcelParserService finds in file j
  Email,       \* the addresses an update may set
  Fallible,    \* the calls that may fail: subset of Calls
  MaxUpdates,  \* bound on the updates of an address
  MaxCrashes   \* bound on crashes of the service

Calls == {"createBatch", "insert", "publish", "saveBatch"}

\* "none": a field that is not set, which a sparse index does not hold.
\* complete: the row has all the fields that the User schema requires (a file
\* may leave out the date of birth).
Row ==
  [ nic : STRING, username : STRING, email : STRING, registrationNo : STRING,
    complete : BOOLEAN ]

ASSUME JobAssumption ==
  /\ Bulk \subseteq Job
  /\ RowsOf \in [Job -> Seq(Row)]
  /\ ErrorsOf \in [Job -> Nat]
  /\ \A j \in Job \ Bulk : Len(RowsOf[j]) = 1
ASSUME EmailAssumption    == Email \subseteq STRING \ {"none"}
ASSUME FallibleAssumption == Fallible \subseteq Calls
ASSUME BoundsAssumption   == MaxUpdates \in Nat /\ MaxCrashes \in Nat

VARIABLES
  documents,  \* the user documents
  commands,   \* the documents for which user.register was published
  batches,    \* the batch documents
  jobs,       \* what each request is doing
  updates, crashes

bounds == <<updates, crashes>>
vars == <<documents, commands, batches, jobs, bounds>>

\* A document is identified by the request and the row that inserted it.
DocumentId == [job : Job, row : Nat \ {0}]
Document ==
  [id : DocumentId, nic : STRING, username : STRING, email : STRING, registrationNo : STRING]
Batch == [job : Job, total : Nat, created : Nat, failed : Nat, errors : Nat]

\* created, errors: the local tallies of processUpload.  "done" is a 2xx
\* answer, "failed" a 4xx or 5xx, "lost" no answer at all.
JobState ==
  [ pc : {"idle", "createBatch", "insert", "publish", "saveBatch", "done", "failed", "lost"},
    row : Nat \ {0}, created : Nat, errors : Nat ]

At(j, step) == jobs[j].pc = step
Goto(j, step) == jobs' = [jobs EXCEPT ![j].pc = step]
RowOf(j) == RowsOf[j][jobs[j].row]
\* Mutation of IdOf: rows are counted from zero.
IdOfZeroBased(j) == [job |-> j, row |-> jobs[j].row - 1]
IdOf(j) == [job |-> j, row |-> jobs[j].row]
Ended(j) == jobs[j].pc \in {"done", "failed", "lost"}

\* Mutation of Clashes: nic has no unique index.
ClashesWithoutNic(row, d) ==
  \/ row.username # "none" /\ row.username = d.username
  \/ row.email # "none" /\ row.email = d.email
  \/ row.registrationNo # "none" /\ row.registrationNo = d.registrationNo

\* The unique indexes of the users collection; all are sparse, and
\* nic is required.
Clashes(row, d) ==
  \/ row.nic = d.nic
  \/ row.username # "none" /\ row.username = d.username
  \/ row.email # "none" /\ row.email = d.email
  \/ row.registrationNo # "none" /\ row.registrationNo = d.registrationNo

-------------------------------------------------------------------------------
Init ==
  /\ documents = {} /\ commands = {} /\ batches = {}
  /\ jobs = [j \in Job |-> [pc |-> "idle", row |-> 1, created |-> 0, errors |-> 0]]
  /\ updates = 0 /\ crashes = 0

\* registerStudent, registerStaff.
StartSingle(j) ==
  /\ At(j, "idle") /\ j \notin Bulk
  /\ Goto(j, "insert")
  /\ UNCHANGED <<documents, commands, batches, bounds>>

\* A row may have several errors, and a file may have one without any rows.
WellFormed(j) == ErrorsOf[j] = 0

\* A file with a fault is rejected as a whole.
NewBatch(j) ==
  [ job |-> j, total |-> Len(RowsOf[j]), created |-> 0,
    failed |-> IF WellFormed(j) THEN 0 ELSE Len(RowsOf[j]),
    errors |-> ErrorsOf[j] ]

\* processUpload with a file that parses without errors; and with one that
\* does not, of which only the batch is stored.
StartBulk(j) ==
  /\ At(j, "idle") /\ j \in Bulk /\ WellFormed(j)
  /\ Goto(j, "createBatch")
  /\ UNCHANGED <<documents, commands, batches, bounds>>

RejectFile(j) ==
  /\ At(j, "idle") /\ j \in Bulk /\ ~WellFormed(j)
  /\ batches' = batches \cup {NewBatch(j)}
  /\ Goto(j, "done")
  /\ UNCHANGED <<documents, commands, bounds>>

\* The row after the one at hand, or the end of the file.
NextStep(j) == IF jobs[j].row < Len(RowsOf[j]) THEN "insert" ELSE "saveBatch"
NextRow(j) == IF jobs[j].row < Len(RowsOf[j]) THEN jobs[j].row + 1 ELSE jobs[j].row

CreateBatch(j) ==
  /\ At(j, "createBatch")
  /\ batches' = batches \cup {NewBatch(j)}
  /\ Goto(j, IF RowsOf[j] = <<>> THEN "saveBatch" ELSE "insert")
  /\ UNCHANGED <<documents, commands, bounds>>

\* A database call that rejects may have had its effect: its answer was lost.
CreateBatchFails(j) ==
  /\ \/ At(j, "createBatch")
     \/ At(j, "idle") /\ j \in Bulk /\ ~WellFormed(j)
  /\ "createBatch" \in Fallible
  /\ \/ batches' = batches
     \/ batches' = batches \cup {NewBatch(j)}
  /\ Goto(j, "failed")
  /\ UNCHANGED <<documents, commands, bounds>>

Accepts(j) == RowOf(j).complete /\ \A d \in documents : ~Clashes(RowOf(j), d)

NewDocument(j) ==
  [ id |-> IdOf(j), nic |-> RowOf(j).nic, username |-> RowOf(j).username,
    email |-> RowOf(j).email, registrationNo |-> RowOf(j).registrationNo ]

\* userModel.create: the index check and the insert are one step of the
\* database.
Insert(j) ==
  /\ At(j, "insert") /\ Accepts(j)
  /\ documents' = documents \cup {NewDocument(j)}
  /\ Goto(j, "publish")
  /\ UNCHANGED <<commands, batches, bounds>>

\* A row that went through: createPendingUser returned.
RowDone(j) ==
  IF j \in Bulk
    THEN jobs' = [jobs EXCEPT ![j].pc = NextStep(j), ![j].row = NextRow(j), ![j].created = @ + 1]
    ELSE Goto(j, "done")

\* Mutation of RowFails: an upload tries the row again.
RowFailsRetries(j) == IF j \in Bulk THEN Goto(j, "insert") ELSE Goto(j, "failed")

\* A row that did not: createPendingUser threw.  An upload goes on.
RowFails(j) ==
  IF j \in Bulk
    THEN jobs' = [jobs EXCEPT ![j].pc = NextStep(j), ![j].row = NextRow(j), ![j].errors = @ + 1]
    ELSE Goto(j, "failed")

\* Mutation of InsertRefused: a user who is there already is taken as created.
InsertRefusedTolerated(j) ==
  /\ At(j, "insert")
  /\ ~Accepts(j) \/ "insert" \in Fallible
  /\ IF Accepts(j) THEN RowFails(j) ELSE Goto(j, "publish")
  /\ UNCHANGED <<documents, commands, batches, bounds>>

\* A duplicate key, a missing field, or the database: then the document may
\* have been inserted.
InsertRefused(j) ==
  /\ At(j, "insert")
  /\ \/ documents' = documents /\ (~Accepts(j) \/ "insert" \in Fallible)
     \/ documents' = documents \cup {NewDocument(j)} /\ Accepts(j) /\ "insert" \in Fallible
  /\ RowFails(j)
  /\ UNCHANGED <<commands, batches, bounds>>

Publish(j) ==
  /\ At(j, "publish")
  /\ commands' = commands \cup {IdOf(j)}
  /\ RowDone(j)
  /\ UNCHANGED <<documents, batches, bounds>>

\* Mutation of PublishFails: the error is logged and not rethrown.
PublishFailsSwallowed(j) ==
  /\ At(j, "publish") /\ "publish" \in Fallible
  /\ RowDone(j)
  /\ UNCHANGED <<documents, commands, batches, bounds>>

\* The document stays behind, pending.
PublishFails(j) ==
  /\ At(j, "publish") /\ "publish" \in Fallible
  /\ RowFails(j)
  /\ UNCHANGED <<documents, commands, batches, bounds>>

\* Mutation of Tallied: the rows without an error are taken as all of them.
TalliedOptimistic(b) ==
  [b EXCEPT !.created = b.total, !.failed = jobs[b.job].errors, !.errors = jobs[b.job].errors]

\* The batch with the tallies of its upload.
Tallied(b) ==
  [b EXCEPT !.created = jobs[b.job].created, !.failed = b.total - jobs[b.job].created,
            !.errors = jobs[b.job].errors]

WriteBatch(j) == batches' = {IF b.job = j THEN Tallied(b) ELSE b : b \in batches}

SaveBatch(j) ==
  /\ At(j, "saveBatch")
  /\ WriteBatch(j)
  /\ Goto(j, "done")
  /\ UNCHANGED <<documents, commands, bounds>>

SaveBatchFails(j) ==
  /\ At(j, "saveBatch") /\ "saveBatch" \in Fallible
  /\ batches' = batches \/ WriteBatch(j)
  /\ Goto(j, "failed")
  /\ UNCHANGED <<documents, commands, bounds>>

\* PUT /users/:id with a new primaryEmail: the unique index may refuse it.
UpdateEmail(d, e) ==
  /\ updates < MaxUpdates
  /\ \A c \in documents \ {d} : c.email # e
  /\ documents' = (documents \ {d}) \cup {[d EXCEPT !.email = e]}
  /\ updates' = updates + 1
  /\ UNCHANGED <<commands, batches, jobs, crashes>>

\* The service stops: requests under way get no answer and are not resumed.
Crash ==
  /\ crashes < MaxCrashes
  /\ \E j \in Job : ~At(j, "idle") /\ ~Ended(j)
  /\ jobs' = [j \in Job |-> IF At(j, "idle") \/ Ended(j) THEN jobs[j]
                              ELSE [jobs[j] EXCEPT !.pc = "lost"]]
  /\ crashes' = crashes + 1
  /\ UNCHANGED <<documents, commands, batches, updates>>

-------------------------------------------------------------------------------
Start(j) == StartSingle(j) \/ StartBulk(j) \/ RejectFile(j)

Run(j) ==
  \/ CreateBatch(j) \/ CreateBatchFails(j)
  \/ Insert(j) \/ InsertRefused(j)
  \/ Publish(j) \/ PublishFails(j)
  \/ SaveBatch(j) \/ SaveBatchFails(j)

Next ==
  \/ \E j \in Job : Start(j) \/ Run(j)
  \/ \E d \in documents, e \in Email : UpdateEmail(d, e)
  \/ Crash

Spec == Init /\ [][Next]_vars

\* Every awaited call returns or rejects.  No request has to be made.
Fairness == \A j \in Job : WF_vars(~At(j, "idle") /\ Run(j))
FairSpec == Spec /\ Fairness

-------------------------------------------------------------------------------
(* Properties.                                                             *)

\* The types of the variables.
TypeOK ==
  /\ documents \subseteq Document
  /\ commands \subseteq DocumentId
  /\ batches \subseteq Batch
  /\ jobs \in [Job -> JobState]
  /\ updates \in Nat /\ crashes \in Nat

\* The auth service is never asked to register someone of whom user management
\* has no document, and is never asked twice for one nic, however many uploads
\* and requests with the same people run at once, and whatever address is
\* freed or taken by an update meanwhile.
CommandsHaveDocuments ==
  \A c \in commands : \E d \in documents : d.id = c

NicCommandedOnce ==
  \A c, d \in documents : c.id \in commands /\ d.id \in commands /\ c.nic = d.nic => c = d

\* What the answer to an upload says is what happened: so many rows created
\* as commands were published for it, the rest failed with an error each (in
\* an accepted file), and an interrupted upload never claims more.
CommandsOf(j) == {c \in commands : c.job = j}
BatchReportsExactly ==
  \A b \in batches :
    /\ b.created <= Cardinality(CommandsOf(b.job))
    /\ At(b.job, "done") =>
         /\ b.created = Cardinality(CommandsOf(b.job))
         /\ b.created + b.failed = b.total
         /\ WellFormed(b.job) => b.errors = b.failed

\* README.md:111-114: a document whose command was not published is never
\* hidden behind a good answer.  The request failed, or the batch counts an
\* error for it, or the service went down.
NoSilentOrphan ==
  \A d \in documents : d.id \notin commands /\ Ended(d.id.job) =>
    \/ jobs[d.id.job].pc \in {"failed", "lost"}
    \/ \E b \in batches : b.job = d.id.job /\ b.failed > 0 /\ b.errors > 0

\* A request that was started is answered, unless the service goes down: no
\* failing row keeps an upload from getting to its end.
EveryRequestEnds == \A j \in Job : ~At(j, "idle") ~> Ended(j)

===============================================================================
