------------------------------ MODULE QueueRows ------------------------------
(***************************************************************************)
(* The durable rows a recording's run queue lives in and the transactions  *)
(* internal/repository/transcription_queue_repository.go runs on them.     *)
(*                                                                         *)
(* A transaction is an operator from the rows before it to the rows after  *)
(* it: a component that runs several transactions while it holds its lock  *)
(* composes them.  A transaction the code rolls back returns the rows it   *)
(* was given.                                                              *)
(*                                                                         *)
(* An identifier is fresh when it is created (the code draws UUIDs), so    *)
(* the recording an item or an execution belongs to is fixed in advance.   *)
(*                                                                         *)
(* A definition marked "mutant" is not part of the model: it is a plausible *)
(* mistake in the definition that follows it, kept to show that a property *)
(* notices.                                                                *)
(***************************************************************************)
EXTENDS Integers, FiniteSets

CONSTANTS
  Jobs,      \* recordings (models.TranscriptionJob)
  Items,     \* queued runs (models.TranscriptionQueueItem)
  Execs,     \* run executions (models.TranscriptionJobExecution)
  NoItem,    \* the empty queue item identifier
  NoExec,    \* the empty execution identifier
  JobOf,     \* the recording of each item and execution
  MaxRuns    \* MaxSequentialRunsPerJob, 50 in the code

ASSUME IdAssumption ==
  /\ IsFiniteSet(Items) /\ IsFiniteSet(Execs) /\ IsFiniteSet(Jobs)
  /\ NoItem \notin Items /\ NoExec \notin Execs
  /\ Items \cap Execs = {}
  /\ JobOf \in [Items \cup Execs -> Jobs]

ASSUME MaxRunsAssumption == MaxRuns \in Nat \ {0}

JobStatus  == {"uploaded", "pending", "processing", "completed", "failed",
               "deleted"}
ItemStatus == {"none", "queued", "pending", "processing", "completed",
               "failed", "cancelled", "gone"}
ExecState  == {"none", "pending", "running", "completed", "failed",
               "interrupted", "cancelled", "gone"}
ExecStatus == {"none", "pending", "processing", "completed", "failed"}
Deadline   == {"unset", "ahead", "past"}
Budget     == {"left", "spent"}

ItemRow == [status : ItemStatus, pos : Nat, exec : Execs \cup {NoExec}]
ExecRow == [item : Items \cup {NoItem}, gen : Nat, state : ExecState,
            status : ExecStatus, deadline : Deadline, budget : Budget]
Rows    == [job : [Jobs -> JobStatus], item : [Items -> ItemRow],
            exec : [Execs -> ExecRow]]

\* A freshly migrated database holding uploaded recordings only.
InitRows ==
  [job  |-> [j \in Jobs |-> "uploaded"],
   item |-> [i \in Items |-> [status |-> "none", pos |-> 0, exec |-> NoExec]],
   exec |-> [e \in Execs |-> [item |-> NoItem, gen |-> 0, state |-> "none",
                              status |-> "none", deadline |-> "unset",
                              budget |-> "left"]]]

-----------------------------------------------------------------------------
(* Queries.                                                                *)

ActiveStatus == {"pending", "processing"}

ItemsIn(d, j, S) == {i \in Items : JobOf[i] = j /\ d.item[i].status \in S}
Queued(d, j)     == ItemsIn(d, j, {"queued"})
ActiveItems(d, j) == ItemsIn(d, j, ActiveStatus)
NonTerminal(d, j) == ItemsIn(d, j, ActiveStatus \cup {"queued"})
EveryItem(d, j)   == ItemsIn(d, j, ItemStatus \ {"none", "gone"})

\* FindActive prefers a processing item to a pending one.
FindActive(d, j) ==
  LET processing == ItemsIn(d, j, {"processing"})
  IN  IF ActiveItems(d, j) = {} THEN NoItem
      ELSE IF processing # {} THEN CHOOSE i \in processing : TRUE
      ELSE CHOOSE i \in ActiveItems(d, j) : TRUE

FindPending(d, j) ==
  LET pending == ItemsIn(d, j, {"pending"})
  IN  IF pending = {} THEN NoItem ELSE CHOOSE i \in pending : TRUE

LastQueued(d, j) ==                                            \* mutant
  CHOOSE i \in Queued(d, j) :
    \A k \in Queued(d, j) : d.item[i].pos >= d.item[k].pos

FirstQueued(d, j) ==
  CHOOSE i \in Queued(d, j) :
    \A k \in Queued(d, j) : d.item[i].pos <= d.item[k].pos

Idle(d, j) == d.job[j] \in {"uploaded", "completed", "failed"}

-----------------------------------------------------------------------------
(* Writes shared by the transactions.                                      *)

\* jobRepo.UpdateStatus: a soft-deleted recording is out of its scope.
SetJob(d, j, s) ==
  [d EXCEPT !.job[j] = IF @ = "deleted" THEN @ ELSE s]

\* Every transition of an item but its creation clears its position.
SetItem(d, i, s) == [d EXCEPT !.item[i].status = s, !.item[i].pos = 0]

\* normalizeQueuedPositions: the waiting items are renumbered from 1.
Normalized(d, j) ==
  [d EXCEPT !.item =
     [i \in Items |->
        IF i \in Queued(d, j)
        THEN [d.item[i] EXCEPT !.pos =
                Cardinality({k \in Queued(d, j) :
                               d.item[k].pos <= d.item[i].pos})]
        ELSE d.item[i]]]

JobOutcome(s) == IF s = "completed" THEN "completed" ELSE "failed"

-----------------------------------------------------------------------------
(* Transactions.                                                           *)

CanAppend(d, j, i) ==
  /\ d.job[j] # "deleted"
  /\ JobOf[i] = j /\ d.item[i].status = "none"
  /\ Cardinality(NonTerminal(d, j)) + 1 <= MaxRuns

LastPosition(d, j) ==
  IF Queued(d, j) = {} THEN 0
  ELSE LET last == CHOOSE i \in Queued(d, j) :
                     \A k \in Queued(d, j) : d.item[k].pos <= d.item[i].pos
       IN  d.item[last].pos

AppendRun(d, j, i) ==
  [d EXCEPT !.item[i] = [status |-> "queued", pos |-> LastPosition(d, j) + 1,
                         exec |-> NoExec]]

\* ReorderQueued accepts exactly the permutations of the waiting items.
Orders(d, j) ==
  {place \in [Queued(d, j) -> 1..Cardinality(Queued(d, j))] :
     \A i, k \in Queued(d, j) : place[i] = place[k] => i = k}

ReorderQueued(d, place) ==
  [d EXCEPT !.item = [i \in Items |->
     IF i \in DOMAIN place THEN [d.item[i] EXCEPT !.pos = place[i]]
     ELSE d.item[i]]]

CancelQueued(d, i) == Normalized(SetItem(d, i, "cancelled"), JobOf[i])

ClearQueued(d, j) ==
  [d EXCEPT !.item = [i \in Items |->
     IF i \in Queued(d, j)
     THEN [d.item[i] EXCEPT !.status = "cancelled", !.pos = 0]
     ELSE d.item[i]]]

PromotableOverActive(d, j) ==                                  \* mutant
  Idle(d, j) /\ Queued(d, j) # {}

Promotable(d, j) ==
  /\ ActiveItems(d, j) = {}
  /\ Idle(d, j)
  /\ Queued(d, j) # {}

PromoteNext(d, j) ==
  SetJob(Normalized(SetItem(d, FirstQueued(d, j), "pending"), j), j, "pending")

CanClaimItem(d, j, i) ==
  /\ JobOf[i] = j /\ d.item[i].status = "pending"
  /\ ItemsIn(d, j, {"processing"}) = {}
  /\ d.job[j] = "pending"

ClaimItem(d, j, i) ==
  SetJob([d EXCEPT !.item[i].status = "processing"], j, "processing")

CanBind(d, i, e) ==
  /\ d.item[i].status = "processing"
  /\ d.item[i].exec \in {NoExec, e}

BindExecution(d, i, e) == [d EXCEPT !.item[i].exec = e]

MarkActiveCancelled(d, j, i) ==
  IF i = NoItem \/ d.item[i].status \notin ActiveStatus THEN d
  ELSE SetJob(SetItem(d, i, "cancelled"), j, "failed")

\* Finalize touches an item that is still active, and its recording with it.
Finalize(d, j, i, s, e) ==
  IF i = NoItem \/ d.item[i].status \notin ActiveStatus THEN d
  ELSE SetJob([SetItem(d, i, s) EXCEPT
                 !.item[i].exec = IF e = NoExec THEN @ ELSE e],
              j, JobOutcome(s))

FailEveryInterrupted(d, protected) ==                          \* mutant
  [d EXCEPT !.item = [i \in Items |->
     IF d.item[i].status = "processing"
     THEN [d.item[i] EXCEPT !.status = "failed", !.pos = 0]
     ELSE d.item[i]]]

FailInterruptedExcept(d, protected) ==
  [d EXCEPT !.item = [i \in Items |->
     IF d.item[i].status = "processing" /\ JobOf[i] \notin protected
     THEN [d.item[i] EXCEPT !.status = "failed", !.pos = 0]
     ELSE d.item[i]]]
=============================================================================
