------------------------------ MODULE UserQueries ------------------------------
(***************************************************************************)
(* What clients of user management read while UserRegistration goes on:    *)
(* GET /bulk-uploads/:batchId, which an admin polls to learn how an        *)
(* upload went, and GET /users, which hands out the documents page by page.*)
(*                                                                         *)
(* Neither reads at one instant.  The status of a batch is put together    *)
(* from two reads, the batch and then the counts of its users; and a list  *)
(* is put together by the client from many requests, with users created    *)
(* and decided upon in between.                                            *)
(***************************************************************************)
EXTENDS UserRegistration, FiniteSetsExt

CONSTANTS
  Time,       \* the readings of the clock that documents get as createdAt
  Filter,     \* the filters of lists, see FilterType
  Limit,      \* the length of a page
  MaxPage,    \* bound on the pages of a walk
  MaxLeavers, \* bound on the users whom a decision takes off a list that is walked
  NoBatch     \* the batch of a client that has asked for none

AuthStatus == {"pending", "active", "failed"}

\* role and batchId, which never change, admit the users of some requests; and
\* authStatus, which does, those with a status.  Without it every status is.
FilterType == [jobs : SUBSET Job, status : SUBSET AuthStatus]

ASSUME TimeAssumption   == Time \subseteq Nat
ASSUME FilterAssumption == Filter \subseteq FilterType
ASSUME PageAssumption   == Limit \in Nat \ {0} /\ MaxPage \in Nat /\ MaxLeavers \in Nat

VARIABLES
  authStatus,  \* of each document
  createdAt,   \* of each document
  poll,        \* a client's request for the status of a batch
  walk         \* or the client's walk through the pages of a list

queryVars == <<vars, authStatus, createdAt, poll, walk>>

Ids == {d.id : d \in documents}

NoCounts == [s \in AuthStatus |-> 0]

-------------------------------------------------------------------------------
QueryInit ==
  /\ Init
  /\ authStatus = [i \in {} |-> "pending"] /\ createdAt = [i \in {} |-> 0]
  /\ poll = [pc |-> "idle", batch |-> NoBatch, counts |-> NoCounts]
  /\ walk = [pc |-> "idle", filter |-> [jobs |-> {}, status |-> {}], page |-> 1,
             present |-> {}, seen |-> {}, leavers |-> 0]

\* A step of registration.  The clock is read before the insert, and by
\* requests that run at once: documents are not inserted in its order.
Register ==
  /\ Next
  /\ \E t \in Time :
       /\ authStatus' = [i \in {d.id : d \in documents'} |->
                           IF i \in Ids THEN authStatus[i] ELSE "pending"]
       /\ createdAt' = [i \in {d.id : d \in documents'} |->
                          IF i \in Ids THEN createdAt[i] ELSE t]
  /\ UNCHANGED walk
  /\ poll' = IF crashes' # crashes /\ poll.pc = "reading" THEN [poll EXCEPT !.pc = "idle"] ELSE poll

Matching(filter) == {i \in Ids : i.job \in filter.jobs /\ authStatus[i] \in filter.status}

\* The decision takes the user off the list that the client is walking.
Leaves(i, status) ==
  walk.pc = "walking" /\ i \in Matching(walk.filter) /\ status \notin walk.filter.status

\* AuthResult in short: whatever events arrive, in whatever order, nobody who
\* was decided upon is pending again.
RecordResult(i, status) ==
  /\ i \in commands
  /\ authStatus' = [authStatus EXCEPT ![i] = status]
  /\ \/ ~Leaves(i, status) /\ UNCHANGED walk
     \/ /\ Leaves(i, status) /\ walk.leavers < MaxLeavers
        /\ walk' = [walk EXCEPT !.present = @ \ {i}, !.leavers = @ + 1]
  /\ UNCHANGED <<vars, createdAt, poll>>

\* Mutation of Counts: only the statuses that the aggregation returns.
CountsSparse(b) ==
  [s \in {authStatus[i] : i \in {i \in Ids : i.job = b.job}} |->
     Cardinality({i \in Ids : i.job = b.job /\ authStatus[i] = s})]
Counts(b) == [s \in AuthStatus |-> Cardinality({i \in Ids : i.job = b.job /\ authStatus[i] = s})]

\* There is one client, with one question, at any time: as no read changes
\* anything, more of them would not get to see anything else.
NoQuestion == poll.pc = "idle" /\ walk.pc = "idle"

\* getBatchStatus: the batch, and then its users by status.
ReadBatch(b) ==
  /\ NoQuestion
  /\ poll' = [pc |-> "reading", batch |-> b, counts |-> NoCounts]
  /\ UNCHANGED <<vars, authStatus, createdAt, walk>>

\* Mutation of ReadCounts: the batch is read after its users.
ReadCountsFirst ==
  /\ poll.pc = "reading"
  /\ \/ poll' = [poll EXCEPT !.counts = Counts(poll.batch)]
     \/ \E b \in batches :
          b.job = poll.batch.job /\ poll' = [poll EXCEPT !.pc = "answered", !.batch = b]
  /\ UNCHANGED <<vars, authStatus, createdAt, walk>>

ReadCounts ==
  /\ poll.pc = "reading"
  /\ poll' = [poll EXCEPT !.pc = "answered", !.counts = Counts(poll.batch)]
  /\ UNCHANGED <<vars, authStatus, createdAt, walk>>

\* Mutation of Newer: the list is not sorted.
NewerUnsorted(i, j) == TRUE

\* sort({ createdAt: -1 }): documents with the same time come in any order.
Newer(i, j) == createdAt[i] >= createdAt[j]

\* Mutation of Skipped: pages are counted from zero.
SkippedFromZero(page) == page * Limit
Skipped(page) == (page - 1) * Limit

\* The pages that list may return: what is skipped is newer than the page, and
\* the page is newer than the rest.
Pages(filter, page) ==
  LET all == Matching(filter)
      Size(n) == IF n < Cardinality(all) THEN n ELSE Cardinality(all)
      Newest(n, S) == {T \in kSubset(n, S) : \A i \in T, j \in S \ T : Newer(i, j)}
  IN  UNION { { T \ S : T \in {T \in Newest(Size(Skipped(page) + Limit), all) : S \subseteq T} } :
                S \in Newest(Size(Skipped(page)), all) }

\* For the property, walk.present keeps who is on the list from the start on, and
\* walk.leavers how often somebody left it.
StartWalk(filter) ==
  /\ NoQuestion
  /\ walk' = [pc |-> "walking", filter |-> filter, page |-> 1,
              present |-> Matching(filter), seen |-> {}, leavers |-> 0]
  /\ UNCHANGED <<vars, authStatus, createdAt, poll>>

\* The client asks for pages until one is not full.
ListPage(items) ==
  /\ walk.pc = "walking" /\ walk.page <= MaxPage
  /\ walk' = [walk EXCEPT !.seen = @ \cup items, !.page = @ + 1,
                          !.pc = IF Cardinality(items) < Limit THEN "done" ELSE @]
  /\ UNCHANGED <<vars, authStatus, createdAt, poll>>

QueryNext ==
  \/ Register
  \/ \E i \in commands, status \in {"active", "failed"} : RecordResult(i, status)
  \/ \E b \in batches : ReadBatch(b)
  \/ ReadCounts
  \/ \E filter \in Filter : StartWalk(filter)
  \/ \E items \in Pages(walk.filter, walk.page) : ListPage(items)

QuerySpec == QueryInit /\ [][QueryNext]_queryVars

-------------------------------------------------------------------------------
(* Properties.                                                             *)

\* The types of the variables.
QueryTypeOK ==
  /\ TypeOK
  /\ authStatus \in [Ids -> AuthStatus] /\ createdAt \in [Ids -> Time]
  /\ poll \in [pc : {"idle", "reading", "answered"}, batch : Batch \cup {NoBatch},
               counts : [AuthStatus -> Nat]]
  /\ poll.pc = "idle" \/ poll.batch \in Batch
  /\ walk \in [pc : {"idle", "walking", "done"}, filter : FilterType, page : Nat \ {0},
               present : SUBSET Ids, seen : SUBSET Ids, leavers : Nat]

\* getBatchStatus (bulk-upload.service.ts:98-110): a client may stop polling
\* when all rows of the batch are accounted for and nobody is pending.  Then
\* all the users that the batch reports as created are in the counts, and no
\* user of the upload is pending, at the time of the answer or ever after;
\* although the two parts of the answer are of two instants, and the upload
\* and the consumer of results go on between them.
AnsweredIsSettled ==
  poll.pc = "answered" =>
    /\ poll.batch.created <=
         poll.counts["pending"] + poll.counts["active"] + poll.counts["failed"]
    /\ poll.batch.created + poll.batch.failed = poll.batch.total /\ poll.counts["pending"] = 0 =>
         \A i \in Ids : i.job = poll.batch.job => authStatus[i] # "pending"

\* list (users.service.ts:201-229): of the users who are on a list when a client
\* begins to ask for its pages, and stay on it, the client that goes on until a
\* page is not full misses at most as many as left the list meanwhile: a decision
\* takes users off a list of one authStatus, and those behind move up, past the
\* border of a page perhaps.  In particular it misses nobody when no authStatus
\* is asked for, however many users are created meanwhile.  Provided that no two
\* have the same createdAt, by which alone the list is sorted.
Distinct ==
  \A i, j \in {i \in Ids : i.job \in walk.filter.jobs} : i # j => createdAt[i] # createdAt[j]
MissesNeedLeavers ==
  walk.pc = "done" /\ Distinct => Cardinality(walk.present \ walk.seen) <= walk.leavers

===============================================================================
