---------------------------- MODULE ExecutionRows ----------------------------
(***************************************************************************)
(* The transactions that own a run execution's lifecycle                   *)
(* (internal/repository/execution_lifecycle.go) and the scans that select  *)
(* executions, on the rows of QueueRows.                                   *)
(*                                                                         *)
(* An owner generation fences every write: an owner that lost its          *)
(* execution to a cancellation or to a later resume holds a generation the *)
(* row no longer carries.  Only versioned executions (RecoveryVersion 1)   *)
(* are represented; cancelled_at is set exactly by Cancel, with the state  *)
(* "cancelled", and is not a field of its own.                             *)
(***************************************************************************)
EXTENDS QueueRows

ExecsOf(d, j) == {e \in Execs : JobOf[e] = j}

\* Executions that count as an owner of their recording.
Competing(d, j) == {e \in ExecsOf(d, j) : d.exec[e].status \in ActiveStatus}

Unresolved == {"pending", "running", "interrupted"}

UnresolvedExecs(d, j) == {e \in ExecsOf(d, j) : d.exec[e].state \in Unresolved}

PendingExecs(d, j) ==
  {e \in ExecsOf(d, j) :
     d.exec[e].state = "pending" /\ d.exec[e].status = "pending"}

Expired(d, e) == d.exec[e].deadline = "past"

\* The run an execution was begun for, if any, is still bound to it and is in
\* one of the statuses S: the conditional update of the item touches its row.
HoldsItem(d, e, S) ==
  LET i == d.exec[e].item
  IN  i # NoItem => /\ JobOf[i] = JobOf[e]
                    /\ d.item[i].exec = e /\ d.item[i].status \in S

SetExec(d, e, state, status) ==
  [d EXCEPT !.exec[e].state = state, !.exec[e].status = status]

-----------------------------------------------------------------------------
CanBegin(d, j, i, e) ==
  /\ d.job[j] = "processing"
  /\ Competing(d, j) = {}
  /\ i # NoItem => CanBind(d, i, e)

Begin(d, i, e, deadline) ==
  LET begun == [d EXCEPT !.exec[e] =
                  [item |-> i, gen |-> 1, state |-> "running",
                   status |-> "processing", deadline |-> deadline,
                   budget |-> "left"]]
  IN  IF i = NoItem THEN begun ELSE BindExecution(begun, i, e)

CanClaimResume(d, e) ==
  /\ d.exec[e].state = "pending" /\ d.exec[e].status = "pending"
  /\ ~Expired(d, e)

ClaimResume(d, e) == SetExec(d, e, "running", "processing")

Resumable(d, j, e) ==
  /\ d.exec[e].state \in {"failed", "interrupted"}
  /\ ~Expired(d, e)
  /\ ActiveItems(d, j) \subseteq {d.exec[e].item}
  /\ d.job[j] \notin {"pending", "deleted"}
  /\ Competing(d, j) \subseteq {e}
  /\ HoldsItem(d, e, {"failed", "processing"})

ResumeExecutionRowOnly(d, j, e) ==                             \* mutant
  LET i      == d.exec[e].item
      resumed == [SetExec(d, e, "pending", "pending") EXCEPT !.exec[e].gen = @ + 1]
  IN  IF i = NoItem THEN resumed
      ELSE [resumed EXCEPT !.item[i].status = "pending"]

RequestResume(d, j, e) ==
  LET i      == d.exec[e].item
      resumed == [SetExec(d, e, "pending", "pending") EXCEPT !.exec[e].gen = @ + 1]
  IN  SetJob(IF i = NoItem THEN resumed
             ELSE [resumed EXCEPT !.item[i].status = "pending"],
             j, "pending")

CanCancel(d, e) == d.exec[e].status # "completed"

\* Cancelling twice is one cancellation.
Cancel(d, j, e) ==
  IF d.exec[e].state = "cancelled" THEN d
  ELSE SetJob([SetExec(d, e, "cancelled", "failed") EXCEPT !.exec[e].gen = @ + 1],
              j, "failed")

CanExpire(d, j, e) ==
  /\ d.exec[e].state = "pending" /\ d.exec[e].status = "pending"
  /\ Expired(d, e)
  /\ d.job[j] # "deleted"
  /\ HoldsItem(d, e, ActiveStatus)

ExpirePending(d, j, e) ==
  LET failed == SetJob(SetExec(d, e, "failed", "failed"), j, "failed")
      i      == d.exec[e].item
  IN  IF i = NoItem THEN failed ELSE SetItem(failed, i, "failed")

CanFinishUnfenced(d, e, gen, s) ==                             \* mutant
  /\ s = "completed" => ~Expired(d, e)
  /\ d.job[JobOf[e]] # "deleted"
  /\ d.exec[e].item # NoItem => d.item[d.exec[e].item].status = "processing"

\* Finish publishes under the generation the worker started with.
CanFinish(d, e, gen, s) ==
  /\ d.exec[e].gen = gen
  /\ d.exec[e].state = "running" /\ d.exec[e].status = "processing"
  /\ s = "completed" => ~Expired(d, e)
  /\ d.job[JobOf[e]] # "deleted"
  /\ HoldsItem(d, e, {"processing"})

FinishWithoutItem(d, j, e, s) ==                               \* mutant
  SetJob(SetExec(d, e, s, s), j, s)

Finish(d, j, e, s) ==
  LET published == SetJob(SetExec(d, e, s, s), j, s)
      i         == d.exec[e].item
  IN  IF i = NoItem THEN published ELSE SetItem(published, i, s)

-----------------------------------------------------------------------------
(* Startup and repair writes outside the lifecycle repository.             *)

\* RecoverExecutions: what was running or admitted becomes interrupted.
InterruptAll(d) ==
  LET interrupted == {e \in Execs : d.exec[e].state \in {"pending", "running"}}
  IN  [d EXCEPT
        !.exec = [e \in Execs |->
           IF e \in interrupted
           THEN [d.exec[e] EXCEPT !.state = "interrupted", !.status = "failed"]
           ELSE d.exec[e]],
        !.job = [j \in Jobs |->
           IF d.job[j] # "deleted" /\ \E e \in interrupted : JobOf[e] = j
           THEN "failed" ELSE d.job[j]]]

UnresolvedJobs(d) == {j \in Jobs : UnresolvedExecs(d, j) # {}}

\* FailProcessingExecutions writes the status and leaves the recovery state.
FailProcessing(d, j) ==
  [d EXCEPT !.exec = [e \in Execs |->
     IF JobOf[e] = j /\ d.exec[e].status = "processing"
     THEN [d.exec[e] EXCEPT !.status = "failed"] ELSE d.exec[e]]]

\* DeleteWithAssociations removes the children and tombstones the recording.
DeleteWithAssociations(d, j) ==
  [job  |-> [d.job EXCEPT ![j] = "deleted"],
   item |-> [i \in Items |->
      IF JobOf[i] = j /\ d.item[i].status # "none"
      THEN [status |-> "gone", pos |-> 0, exec |-> NoExec] ELSE d.item[i]],
   exec |-> [e \in Execs |->
      IF JobOf[e] = j /\ d.exec[e].state # "none"
      THEN [d.exec[e] EXCEPT !.state = "gone", !.status = "none"]
      ELSE d.exec[e]]]
=============================================================================
