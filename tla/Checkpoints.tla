----------------------------- MODULE Checkpoints -----------------------------
(***************************************************************************)
(* The stages of a recoverable execution and the checkpoints they leave:   *)
(* the rows and artifact directories of internal/repository/recovery_*.go, *)
(* the worker that runs one stage after another                            *)
(* (internal/transcription/recoverable_stage.go), the shared GPU slot, the *)
(* deletion of a recording's checkpoints, startup recovery and collection. *)
(*                                                                         *)
(* exec, exists, stage, attempts, rows and tomb are the database and dirs  *)
(* the checkpoint directories; the rest is the memory of one server.  An   *)
(* action is one transaction, or one critical section of the repository    *)
(* mutex; CommitCheckpoint is two, because its rename and its transaction  *)
(* are seen apart by cancellations, deadlines and crashes.  TaskQueue has  *)
(* the queue around an execution; here its lifecycle is what a stage sees. *)
(***************************************************************************)
EXTENDS Naturals, Sequences, FiniteSets

CONSTANTS
  Execs,        \* run executions
  Recs,         \* recordings
  RecOf,        \* the recording of each execution
  Stages,       \* stages of a run, each reading the checkpoint of the one before
  MaxAttempts,  \* saved attempts of one stage, 7 in the code
  MaxTries,     \* tries to persist one result, 3 in the code
  Stoppable,    \* executions a client may stop
  Timed,        \* executions that carry a deadline
  Reusing,      \* executions that may take over checkpoints of earlier runs
  Adaptive,     \* executions whose recovery mode retries a failed stage
  None,         \* no checkpoint
  Free,         \* nobody holds the mutex, or the GPU slot
  Deleter,      \* a deletion, as holder of the mutex
  MaxGen,       \* bound: owners of each execution, one more than its resumes
  MaxRestarts,  \* bound: how often the server may stop or crash
  MaxFaults     \* bound: how many writes may fail

Nodes == 1..Stages

ASSUME CheckpointAssumption ==
  /\ RecOf \in [Execs -> Recs]
  /\ Stages \in Nat \ {0} /\ MaxAttempts \in Nat \ {0} /\ MaxTries \in Nat \ {0}
  /\ Stoppable \subseteq Execs /\ Timed \subseteq Execs
  /\ Reusing \subseteq Execs /\ Adaptive \subseteq Execs
  /\ MaxGen \in [Execs -> Nat] /\ MaxRestarts \in Nat /\ MaxFaults \in Nat
  /\ Free \notin Execs /\ Deleter \notin Execs
  /\ Free # Deleter

\* A checkpoint is named by the attempt that produced it and the try that
\* persisted it: every try makes a directory and a row of its own.
Id == [exec : Execs, node : Nodes, attempt : 1..MaxAttempts, try : 1..MaxTries]

ASSUME IdAssumption == None \notin Id

VARIABLES
  exec,      \* lifecycle of each execution
  exists,    \* recordings whose row exists
  stage,     \* recovery_stages, by execution and node
  attempts,  \* recovery_attempts, by execution and node, in their order
  rows,      \* recovery_checkpoints and their dependencies
  dirs,      \* complete checkpoint directories
  tomb,      \* recovery_deletions
  worker,    \* the processor of each execution, if any
  mutex,     \* RecoveryRepository.mu
  slot,      \* gpuStageSlot
  deletion,  \* the deletion in progress
  phase,     \* the server process
  restarts,  \* counts against MaxRestarts
  faults     \* counts against MaxFaults

database == <<exec, exists, stage, attempts, rows, tomb>>
vars == <<database, dirs, worker, mutex, slot, deletion, phase, restarts, faults>>

ActiveState  == {"running", "waiting"}
\* "ended" stands for retryable, failed, blocked and interrupted: no later step
\* tells them apart.
StageState   == ActiveState \cup {"none", "pending", "ended", "cancelled", "succeeded"}
AttemptState == ActiveState \cup {"ended", "cancelled", "succeeded"}
Settings     == {"planned", "changed"}

ExecRow    == [status : {"none", "running", "interrupted", "failed", "completed",
                         "cancelled", "deleted"},
               gen : Nat, late : BOOLEAN]
StageRow   == [state : StageState, gen : Nat,
               up : Id \cup {None}, ckpt : Id \cup {None}]
AttemptRow == [state : AttemptState, gen : Nat, settings : Settings]

NoStage == [state |-> "none", gen |-> 0, up |-> None, ckpt |-> None]

Pc == {"none", "ready", "ensured", "invoking", "claimed", "waiting", "admitted",
       "running", "returned", "renamed", "closing"}

WorkerRow ==
  [pc : Pc, gen : Nat, node : Nodes, count : Nat, try : 1..MaxTries,
   up : Id \cup {None},          \* recovery.upstream
   settings : Settings,          \* of the next attempt
   live : BOOLEAN,               \* the context has not been cancelled
   result : {"ok", "error"}]

NoWorker == [pc |-> "none", gen |-> 0, node |-> 1, count |-> 0, try |-> 1,
             up |-> None, settings |-> "planned", live |-> TRUE, result |-> "ok"]

NoDeletion == [step |-> "none", rec |-> None]

TypeOK ==
  /\ exec \in [Execs -> ExecRow] /\ exists \in SUBSET Recs
  /\ stage \in [Execs -> [Nodes -> StageRow]]
  /\ attempts \in [Execs -> [Nodes -> Seq(AttemptRow)]]
  /\ rows \in SUBSET Id /\ dirs \in SUBSET Id
  /\ tomb \in [Recs -> {"none", "requested", "completed"}]
  /\ worker \in [Execs -> WorkerRow]
  /\ mutex \in Execs \cup {Free, Deleter}
  /\ slot \in Execs \cup {Free}
  /\ deletion \in [step : {"files", "rows", "job"}, rec : Recs] \cup {NoDeletion}
  /\ phase \in {"down", "recovering", "up", "draining", "blocked"}
  /\ restarts \in Nat /\ faults \in Nat

Init ==
  /\ exec = [e \in Execs |-> [status |-> "none", gen |-> 0, late |-> FALSE]]
  /\ exists = Recs
  /\ stage = [e \in Execs |-> [n \in Nodes |-> NoStage]]
  /\ attempts = [e \in Execs |-> [n \in Nodes |-> << >>]]
  /\ rows = {} /\ dirs = {} /\ tomb = [r \in Recs |-> "none"]
  /\ worker = [e \in Execs |-> NoWorker]
  /\ mutex = Free /\ slot = Free /\ deletion = NoDeletion
  /\ phase = "up" /\ restarts = 0 /\ faults = 0

-----------------------------------------------------------------------------
(* Reading checkpoints.                                                    *)

Rec(c) == RecOf[c.exec]

\* The manifest's provenance: the upstream checkpoint of the producing stage.
UpOf(c) == stage[c.exec][c.node].up
\* The settings of the producing attempt, part of the compatibility key.
SettingsOf(c) == attempts[c.exec][c.node][c.attempt].settings

\* c and every checkpoint it was computed from.
Lineage(c) ==
  LET at[n \in Nodes] == IF n >= c.node THEN c ELSE UpOf(at[n + 1])
  IN  {at[n] : n \in 1..c.node}

\* readCheckpointChain: no tombstone, and every row has its directory.
Readable(c) ==
  /\ tomb[Rec(c)] = "none"
  /\ Lineage(c) \subseteq rows \cap dirs

FenceOfOwner(e, gen) ==                                        \* mutant
  /\ exec[e].gen = gen /\ exec[e].status = "running" /\ ~exec[e].late
  /\ RecOf[e] \in exists

\* The transactions of a stage write only for the owner of a running execution
\* whose deadline has not passed and whose recording is not being deleted.
Fence(e, gen) ==
  /\ exec[e].gen = gen /\ exec[e].status = "running" /\ ~exec[e].late
  /\ RecOf[e] \in exists /\ tomb[RecOf[e]] = "none"

ExhaustedLate(k) == k > MaxAttempts                            \* mutant

\* The saved budget of a stage, over all its owners.
Exhausted(k) == k >= MaxAttempts

Current(e)  == stage[e][worker[e].node]
Attempts(e) == attempts[e][worker[e].node]

\* ownedAttempt for the attempt the worker has claimed.
Owned(e) ==
  LET w == worker[e]
  IN  /\ Fence(e, w.gen)
      /\ Current(e).gen = w.gen
      /\ Len(Attempts(e)) = w.count /\ Attempts(e)[w.count].gen = w.gen

\* Both the stage and the attempt are in one of the states S.
BothIn(e, S) ==
  Current(e).state \in S /\ Attempts(e)[worker[e].count].state \in S

\* The context of the worker is done: cancelled, or past the deadline.
Done(e) == ~worker[e].live \/ exec[e].late

-----------------------------------------------------------------------------
(* Writes and control shared by the steps of a worker.                     *)

Mark(e, s) ==
  LET n == worker[e].node
  IN  /\ stage' = [stage EXCEPT ![e][n].state = s]
      /\ attempts' = [attempts EXCEPT ![e][n][worker[e].count].state = s]

\* A write to the database or the disk fails, and is noticed.
WriteFails == faults < MaxFaults /\ faults' = faults + 1

EndAttempt(e, s) ==
  IF Owned(e) /\ BothIn(e, ActiveState) THEN Mark(e, s)
  ELSE UNCHANGED <<stage, attempts>>

\* FailAttempt, whose error every caller ignores or gives up on.
FailAttempt(e, s) ==
  \/ UNCHANGED faults /\ EndAttempt(e, s)
  \/ WriteFails /\ UNCHANGED <<stage, attempts>>

At(e, pc) == worker[e].pc = pc
Goto(e, pc) == worker' = [worker EXCEPT ![e].pc = pc]
GiveUp(e) == worker' = [worker EXCEPT ![e].pc = "closing", ![e].result = "error"]

\* The stage is done: its checkpoint c is the upstream of the next.
Advance(e, c) ==
  worker' = [worker EXCEPT
    ![e].up = c, ![e].try = 1,
    ![e].pc = IF worker[e].node = Stages THEN "closing" ELSE "ready",
    ![e].node = IF worker[e].node = Stages THEN @ ELSE @ + 1]

Release(e) == slot' = IF slot = e THEN Free ELSE slot

-----------------------------------------------------------------------------
(* The lifecycle of an execution, as far as a stage sees it.               *)

Workerless(r) == \A e \in Execs : RecOf[e] = r => At(e, "none")
Competing(r)  == {e \in Execs : RecOf[e] = r /\ exec[e].status = "running"}

Start(e, gen) ==
  /\ exec' = [exec EXCEPT ![e].status = "running", ![e].gen = gen]
  /\ worker' = [worker EXCEPT ![e] = [NoWorker EXCEPT !.pc = "ready", !.gen = gen]]
  /\ UNCHANGED <<exists, stage, attempts, rows, tomb, dirs, mutex, slot, deletion,
                 phase, restarts, faults>>

\* The queue starts a run of a recording that nothing else owns.
Startable(e) ==
  /\ phase = "up" /\ RecOf[e] \in exists /\ deletion.rec # RecOf[e]
  /\ Workerless(RecOf[e]) /\ Competing(RecOf[e]) = {}

BeginExecution(e) ==
  Startable(e) /\ exec[e].status = "none" /\ Start(e, 1)

\* SelectedCheckpoint: readable, and what this stage asked for or itself made.
SelectedReadable(e, n) ==
  LET c == stage[e][n].ckpt
  IN  /\ stage[e][n].state = "succeeded" /\ c \in rows /\ Readable(c)
      /\ IF c.exec = e THEN attempts[e][n][c.attempt].state = "succeeded"
         ELSE SettingsOf(c) = "planned"

\* PrepareExecutionResume on the saved stages.
ResumableStages(e) ==
  \A n \in Nodes :
    LET s == stage[e][n]
    IN  /\ s.state \notin ActiveState
        /\ s.ckpt = None => ~Exhausted(Len(attempts[e][n]))
        /\ s.ckpt # None => mutex = Free /\ SelectedReadable(e, n)

ResumeExecution(e) ==
  /\ Startable(e) /\ exec[e].status \in {"interrupted", "failed"} /\ ~exec[e].late
  /\ ResumableStages(e)
  /\ exec[e].gen < MaxGen[e]
  /\ Start(e, exec[e].gen + 1)

environment == <<exists, stage, attempts, rows, tomb, dirs, mutex, slot, deletion,
                 phase, restarts, faults>>

\* lifecycle.Cancel fences the owner by the status and by the generation.
CancelExecution(e) ==
  /\ e \in Stoppable /\ phase = "up" /\ exec[e].status \in {"running", "interrupted"}
  /\ exec' = [exec EXCEPT ![e].status = "cancelled", ![e].gen = @ + 1]
  /\ UNCHANGED <<worker, environment>>

PassDeadline(e) ==
  /\ e \in Timed /\ ~exec[e].late /\ exec[e].status \in {"running", "interrupted", "failed"}
  /\ exec' = [exec EXCEPT ![e].late = TRUE]
  /\ UNCHANGED <<worker, environment>>

\* The queue cancels the processor's context after a stop, and at shutdown.
CancelContext(e) ==
  /\ ~At(e, "none") /\ worker[e].live
  /\ exec[e].status = "cancelled" \/ phase = "draining"
  /\ worker' = [worker EXCEPT ![e].live = FALSE]
  /\ UNCHANGED <<exec, environment>>

\* InterruptExecutionStages for the owner generations G of e.
Ended(row, G) ==
  IF row.gen \in G /\ row.state \in ActiveState
  THEN [row EXCEPT !.state = "ended"] ELSE row

EndedStages(e, G)   == [n \in Nodes |-> Ended(stage[e][n], G)]
EndedAttempts(e, G) == [n \in Nodes |-> [k \in DOMAIN attempts[e][n] |->
                                            Ended(attempts[e][n][k], G)]]

\* The end of processRecoverableJob: what is still active is interrupted, and
\* the execution is cancelled or finished.  Finish of a lost owner is refused.
Publish(e) ==
  LET w == worker[e]
      failed == w.result = "error" \/ Done(e)
      mine == exec[e].gen = w.gen /\ exec[e].status = "running"
  IN  /\ At(e, "closing")
      /\ \/ /\ failed /\ UNCHANGED faults
            /\ stage' = [stage EXCEPT ![e] = EndedStages(e, {w.gen})]
            /\ attempts' = [attempts EXCEPT ![e] = EndedAttempts(e, {w.gen})]
         \/ failed /\ WriteFails /\ UNCHANGED <<stage, attempts>>
         \/ ~failed /\ UNCHANGED <<stage, attempts, faults>>
      /\ \/ /\ failed /\ ~w.live
            /\ exec' = IF exec[e].status = "cancelled" THEN exec
                       ELSE [exec EXCEPT ![e].status = "cancelled", ![e].gen = @ + 1]
         \/ /\ ~failed \/ w.live \/ exec[e].late
            /\ exec' = IF ~mine THEN exec
                       ELSE [exec EXCEPT ![e].status =
                               IF failed THEN "failed" ELSE "completed"]
      /\ worker' = [worker EXCEPT ![e] = NoWorker]
      /\ UNCHANGED <<exists, rows, tomb, dirs, mutex, slot, deletion, phase, restarts>>

-----------------------------------------------------------------------------
(* One stage: runRecoverableStage.                                         *)

\* What a step of a stage before its commit leaves alone.
outside == <<exec, exists, rows, tomb, dirs, mutex, deletion, phase, restarts>>

\* The planned settings, or after a resume those of the last attempt.
FirstSettings(e) ==
  IF Attempts(e) = << >> THEN "planned" ELSE Attempts(e)[Len(Attempts(e))].settings

\* EnsureStage, and SelectedCheckpoint when the stage has already succeeded.
EnsureStage(e) ==
  LET w == worker[e]
      s == Current(e)
      admitted == Fence(e, w.gen) /\ (s.state # "none" => s.up = w.up)
  IN  /\ At(e, "ready")
      /\ \/ ~admitted /\ GiveUp(e) /\ UNCHANGED stage
         \/ /\ admitted /\ s.ckpt = None
            /\ stage' = IF s.state # "none" THEN stage
                        ELSE [stage EXCEPT ![e][w.node] =
                          [NoStage EXCEPT !.state = "pending", !.gen = w.gen, !.up = w.up]]
            /\ worker' = [worker EXCEPT ![e].count = Len(Attempts(e)),
                 ![e].settings = FirstSettings(e),
                 ![e].pc = IF e \in Reusing THEN "ensured" ELSE "invoking"]
         \/ /\ admitted /\ s.ckpt # None /\ mutex = Free
            /\ IF SelectedReadable(e, w.node) THEN Advance(e, s.ckpt) ELSE GiveUp(e)
            /\ UNCHANGED stage
      /\ UNCHANGED <<outside, attempts, slot, faults>>

ReusableAcrossUpstreams(e) ==                                  \* mutant
  {c \in rows : /\ Rec(c) = RecOf[e] /\ c.node = worker[e].node
                /\ SettingsOf(c) = "planned" /\ Readable(c)}

\* FindReusable: readable, of this recording, with the key of this stage.
Reusable(e) ==
  {c \in rows : /\ Rec(c) = RecOf[e] /\ c.node = worker[e].node
                /\ UpOf(c) = worker[e].up /\ SettingsOf(c) = "planned"
                /\ Readable(c)}

\* FindReusable and ReuseCheckpoint.
ReuseCheckpoint(e) ==
  LET w == worker[e]
      found == Reusable(e)
  IN  /\ At(e, "ensured") /\ mutex = Free
      /\ \/ found = {} /\ Goto(e, "invoking") /\ UNCHANGED stage
         \/ /\ found # {}
            /\ ~Fence(e, w.gen) \/ Current(e).state \in ActiveState \cup {"cancelled"}
            /\ GiveUp(e) /\ UNCHANGED stage
         \/ \E c \in found :
              /\ Fence(e, w.gen)
              /\ Current(e).state \notin ActiveState \cup {"cancelled"}
              /\ stage' = [stage EXCEPT ![e][w.node] =
                   [@ EXCEPT !.state = "succeeded", !.gen = w.gen, !.ckpt = c]]
              /\ Advance(e, c)
      /\ UNCHANGED <<outside, attempts, slot, faults>>

Claimable(e) ==
  /\ Fence(e, worker[e].gen)
  /\ Current(e).state \notin ActiveState \cup {"succeeded", "cancelled"}
  /\ Current(e).ckpt = None

\* invoke up to ClaimStage, where the saved budget is enforced.
ClaimStage(e) ==
  LET w == worker[e]
      n == w.node
  IN  /\ At(e, "invoking")
      /\ IF Exhausted(w.count) \/ ~Claimable(e)
         THEN GiveUp(e) /\ UNCHANGED <<stage, attempts>>
         ELSE /\ attempts' = [attempts EXCEPT ![e][n] = Append(@,
                   [state |-> "running", gen |-> w.gen, settings |-> w.settings])]
              /\ stage' = [stage EXCEPT ![e][n].state = "running", ![e][n].gen = w.gen]
              /\ worker' = [worker EXCEPT ![e].pc = "claimed",
                                          ![e].count = Len(Attempts(e)) + 1]
      /\ UNCHANGED <<outside, slot, faults>>

\* SetAttemptWaiting(true), before the wait for a backoff and for the GPU.
AwaitCapacity(e) ==
  /\ At(e, "claimed")
  /\ \/ /\ UNCHANGED faults /\ Owned(e) /\ BothIn(e, ActiveState)
        /\ Mark(e, "waiting") /\ Goto(e, "waiting")
     \/ /\ UNCHANGED faults /\ ~(Owned(e) /\ BothIn(e, ActiveState))
        /\ GiveUp(e) /\ UNCHANGED <<stage, attempts>>
     \/ WriteFails /\ GiveUp(e) /\ UNCHANGED <<stage, attempts>>
  /\ UNCHANGED <<outside, slot>>

\* The GPU slot, which an attempt on the CPU does not take.  Left out: a stage
\* holds it as well while its environment is prepared, before it ensures its
\* row and claims an attempt; that holding changes no row and ends by itself.
AcquireGPUStage(e) ==
  /\ At(e, "waiting") /\ ~Done(e)
  /\ slot' \in {slot} \cup (IF slot = Free THEN {e} ELSE {})
  /\ Goto(e, "admitted")
  /\ UNCHANGED <<outside, stage, attempts, faults>>

\* The backoff or the wait for the slot or for memory ends without admission.
\* Only the backoff distinguishes a cancelled context.
StopWaiting(e) ==
  /\ At(e, "waiting") \/ At(e, "admitted")
  /\ Release(e)
  /\ \E s \in {"ended"} \cup (IF Done(e) /\ At(e, "waiting") THEN {"cancelled"} ELSE {}) :
       FailAttempt(e, s)
  /\ GiveUp(e)
  /\ UNCHANGED outside

\* The slot goes back when the attempt may not run after all.
ReleaseRefused(e) == Release(e)

\* SetAttemptWaiting(false).
StartAttempt(e) ==
  /\ At(e, "admitted")
  /\ \/ /\ Owned(e) /\ BothIn(e, ActiveState)
        /\ Mark(e, "running") /\ Goto(e, "running") /\ UNCHANGED <<slot, faults>>
     \/ /\ ~(Owned(e) /\ BothIn(e, ActiveState))
        /\ ReleaseRefused(e) /\ GiveUp(e) /\ UNCHANGED <<stage, attempts, faults>>
     \/ /\ WriteFails
        /\ ReleaseRefused(e) /\ GiveUp(e) /\ UNCHANGED <<stage, attempts>>
  /\ UNCHANGED outside

\* The adapter returns and the slot is released; a context that is done makes
\* the result an error whatever the adapter says.
AdapterReturns(e) ==
  /\ At(e, "running")
  /\ Release(e)
  /\ \E r \in {"ok", "error"} :
       worker' = [worker EXCEPT ![e].pc = "returned", ![e].try = 1,
                    ![e].result = IF Done(e) THEN "error" ELSE r]
  /\ UNCHANGED <<outside, stage, attempts, faults>>

\* FailAttempt after an error, and the next candidate of the ladder, if any.
AttemptFailed(e) ==
  /\ At(e, "returned") /\ worker[e].result = "error"
  /\ FailAttempt(e, IF Done(e) /\ ~worker[e].live THEN "cancelled" ELSE "ended")
  /\ \/ GiveUp(e)
     \/ /\ e \in Adaptive /\ ~Done(e) /\ ~Exhausted(worker[e].count)
        /\ \E new \in Settings :
             worker' = [worker EXCEPT ![e].pc = "invoking", ![e].settings = new]
  /\ UNCHANGED <<outside, slot>>

-----------------------------------------------------------------------------
(* Persisting a result: CommitCheckpoint.                                  *)

Produced(e) == [exec |-> e, node |-> worker[e].node, attempt |-> worker[e].count,
                try |-> worker[e].try]
Existing(e) == {c \in rows : /\ c.exec = e /\ c.node = worker[e].node
                             /\ c.attempt = worker[e].count}
UpstreamReadable(e) == worker[e].up # None => Readable(worker[e].up)

\* A try that failed is repeated at most twice, and not when the owner is lost.
TryAgain(e) ==
  /\ ~Done(e) /\ Owned(e) /\ UpstreamReadable(e)
  /\ worker[e].try < MaxTries

PersistFailed(e) ==
  \/ /\ TryAgain(e)
     /\ worker' = [worker EXCEPT ![e].pc = "returned", ![e].try = @ + 1]
     /\ UNCHANGED <<stage, attempts>>
  \/ /\ ~TryAgain(e)
     /\ GiveUp(e)
     /\ EndAttempt(e, "ended")

Persisting(e) == At(e, "returned") /\ worker[e].result = "ok" /\ mutex = Free

\* The checks, the files and the rename, up to the second transaction.
RenameCheckpoint(e) ==
  /\ Persisting(e) /\ ~Done(e) /\ Owned(e) /\ Existing(e) = {}
  /\ BothIn(e, {"running"}) /\ UpstreamReadable(e)
  /\ dirs' = dirs \cup {Produced(e)}
  /\ mutex' = e
  /\ Goto(e, "renamed")
  /\ UNCHANGED <<database, slot, deletion, phase, restarts, faults>>

\* An earlier try has committed and its answer was lost: the same result again.
CommittedBefore(e) ==
  /\ Persisting(e) /\ ~Done(e) /\ Owned(e)
  /\ \E c \in Existing(e) : Readable(c) /\ Advance(e, c)
  /\ UNCHANGED <<database, dirs, mutex, slot, deletion, phase, restarts, faults>>

\* A check before the rename refuses the result, or the quota does.
RefuseCheckpoint(e) ==
  /\ Persisting(e)
  /\ \/ Done(e) \/ ~Owned(e) \/ ~UpstreamReadable(e)
     \/ (Existing(e) = {} /\ ~BothIn(e, {"running"}))
  /\ PersistFailed(e)
  /\ UNCHANGED <<outside, slot, faults>>

QuotaReached(e) ==
  /\ Persisting(e) /\ ~Done(e) /\ Owned(e) /\ Existing(e) = {}
  /\ BothIn(e, {"running"}) /\ UpstreamReadable(e)
  /\ FailAttempt(e, "ended") /\ GiveUp(e)
  /\ UNCHANGED <<outside, slot>>

RenamedIsOwned(e) == Current(e).ckpt = None                    \* mutant

StillOwned(e) == Owned(e) /\ BothIn(e, {"running"}) /\ Current(e).ckpt = None
Selected(e) ==
  LET n == worker[e].node
  IN  /\ rows' = rows \cup {Produced(e)}
      /\ stage' = [stage EXCEPT ![e][n] =
           [@ EXCEPT !.state = "succeeded", !.ckpt = Produced(e)]]
      /\ attempts' = [attempts EXCEPT ![e][n][worker[e].count].state = "succeeded"]

\* The second transaction: the rows, and the stage's selection with them.
CommitCheckpoint(e) ==
  /\ At(e, "renamed") /\ mutex' = Free
  /\ \/ /\ StillOwned(e) /\ Selected(e)
        /\ \/ UNCHANGED faults /\ Advance(e, Produced(e))
           \/ /\ WriteFails /\ worker[e].try < MaxTries
              /\ worker' = [worker EXCEPT ![e].pc = "returned", ![e].try = @ + 1]
     \/ ~StillOwned(e) /\ PersistFailed(e) /\ UNCHANGED <<rows, faults>>
     \/ WriteFails /\ PersistFailed(e) /\ UNCHANGED rows
  /\ UNCHANGED <<exec, exists, tomb, dirs, slot, deletion, phase, restarts>>

-----------------------------------------------------------------------------
(* Deleting a recording's checkpoints: DeleteRecording and its callers.    *)

Of(r, S) == {c \in S : Rec(c) = r}

StartDeletion(r) ==
  /\ mutex = Free /\ deletion = NoDeletion
  /\ tomb' = [tomb EXCEPT ![r] = IF @ = "none" THEN "requested" ELSE @]
  /\ mutex' = Deleter
  /\ deletion' = [step |-> "files", rec |-> r]
  /\ UNCHANGED <<exec, exists, stage, attempts, rows, dirs, worker, slot, phase,
                 restarts, faults>>

\* DELETE of a recording that no run owns and no interrupted run protects.
RequestDeletion(r) ==
  /\ phase = "up" /\ r \in exists /\ Workerless(r)
  /\ \A e \in Execs : RecOf[e] = r => exec[e].status \notin {"running", "interrupted"}
  /\ StartDeletion(r)

\* RetryDeletions at startup.
RetryDeletion(r) == phase = "recovering" /\ tomb[r] = "requested" /\ StartDeletion(r)

RemoveFiles ==
  LET r == deletion.rec
  IN  /\ deletion.step = "files"
      /\ \/ /\ dirs' = dirs \ Of(r, dirs) /\ deletion' = [deletion EXCEPT !.step = "rows"]
            /\ UNCHANGED <<mutex, phase, faults>>
         \/ /\ WriteFails
            /\ \E S \in SUBSET Of(r, dirs) : dirs' = dirs \ S
            /\ deletion' = NoDeletion /\ mutex' = Free
            /\ phase' = IF phase = "recovering" THEN "blocked" ELSE phase
      /\ UNCHANGED <<database, worker, slot, restarts>>

DeleteRows ==
  LET r == deletion.rec
  IN  /\ deletion.step = "rows"
      /\ rows' = rows \ Of(r, rows)
      /\ stage' = [e \in Execs |-> IF RecOf[e] = r THEN [n \in Nodes |-> NoStage]
                                   ELSE stage[e]]
      /\ attempts' = [e \in Execs |-> IF RecOf[e] = r THEN [n \in Nodes |-> << >>]
                                      ELSE attempts[e]]
      /\ tomb' = [tomb EXCEPT ![r] = "completed"]
      /\ mutex' = Free
      /\ deletion' = IF phase = "recovering" THEN NoDeletion
                     ELSE [deletion EXCEPT !.step = "job"]
      /\ UNCHANGED <<exec, exists, dirs, worker, slot, phase, restarts, faults>>

\* DeleteWithAssociations: the recording and its executions, or an error.
DeleteJob ==
  LET r == deletion.rec
  IN  /\ deletion.step = "job" /\ deletion' = NoDeletion
      /\ \/ /\ exists' = exists \ {r}
            /\ exec' = [e \in Execs |-> IF RecOf[e] = r /\ exec[e].status # "none"
                                        THEN [exec[e] EXCEPT !.status = "deleted"]
                                        ELSE exec[e]]
            /\ UNCHANGED faults
         \/ WriteFails /\ UNCHANGED <<exists, exec>>
      /\ UNCHANGED <<stage, attempts, rows, tomb, dirs, worker, mutex, slot, phase,
                     restarts>>

-----------------------------------------------------------------------------
(* The server process.                                                     *)

ProcessGone ==
  /\ worker' = [e \in Execs |-> NoWorker]
  /\ mutex' = Free /\ slot' = Free /\ deletion' = NoDeletion
  /\ phase' = "down" /\ restarts' = restarts + 1
  /\ UNCHANGED <<database, dirs, faults>>

Crash == phase # "down" /\ restarts < MaxRestarts /\ ProcessGone

Shutdown ==
  /\ phase = "up" /\ deletion = NoDeletion /\ restarts < MaxRestarts
  /\ phase' = "draining"
  /\ UNCHANGED <<database, dirs, worker, mutex, slot, deletion, restarts, faults>>

ShutdownEnds ==
  phase = "draining" /\ (\A e \in Execs : At(e, "none")) /\ ProcessGone

AbandonedOwners(e) ==                                          \* mutant
  {exec[e].gen : x \in {"running"} \cap {exec[e].status}}

\* The generations whose workers startup knows to be gone.
Abandoned(e) ==
  {stage[e][n].gen : n \in {m \in Nodes : stage[e][m].state \in ActiveState}}
    \cup {exec[e].gen : x \in {"running"} \cap {exec[e].status}}

\* RecoverExecutions once the prior workers are known to have stopped.
RecoverExecutions ==
  /\ phase = "down" /\ phase' = "recovering"
  /\ stage' = [e \in Execs |-> EndedStages(e, Abandoned(e))]
  /\ attempts' = [e \in Execs |-> EndedAttempts(e, Abandoned(e))]
  /\ exec' = [e \in Execs |-> IF exec[e].status = "running"
                              THEN [exec[e] EXCEPT !.status = "interrupted"] ELSE exec[e]]
  /\ UNCHANGED <<exists, rows, tomb, dirs, worker, mutex, slot, deletion, restarts, faults>>

ProtectedResults ==                                            \* mutant
  {stage[e][Stages].ckpt : e \in Execs} \ {None}

\* The selections of existing executions and all they were computed from.
Protected ==
  UNION {Lineage(c) : c \in {stage[e][n].ckpt : e \in {x \in Execs :
           exec[x].status \notin {"none", "deleted"}}, n \in Nodes} \ {None}}

Collectable ==
  {c \in dirs : IF c \in rows THEN c \notin Protected
                ELSE attempts[c.exec][c.node] # << >> =>
                       attempts[c.exec][c.node][c.attempt].state \notin ActiveState}

\* Collect removes what is old enough, or all it may when over the quota; above
\* the quota after that, startup fails.
Collect ==
  /\ phase = "recovering" /\ deletion = NoDeletion
  /\ \A r \in Recs : tomb[r] # "requested"
  /\ \E S \in SUBSET Collectable : dirs' = dirs \ S /\ rows' = rows \ S
  /\ phase' \in {"up", "blocked"}
  /\ UNCHANGED <<exec, exists, stage, attempts, tomb, worker, mutex, slot, deletion,
                 restarts, faults>>

Step(e) ==
  \/ BeginExecution(e) \/ ResumeExecution(e) \/ CancelExecution(e) \/ PassDeadline(e)
  \/ CancelContext(e) \/ Publish(e) \/ EnsureStage(e) \/ ReuseCheckpoint(e)
  \/ ClaimStage(e) \/ AwaitCapacity(e) \/ AcquireGPUStage(e) \/ StopWaiting(e)
  \/ StartAttempt(e) \/ AdapterReturns(e) \/ AttemptFailed(e) \/ RenameCheckpoint(e)
  \/ CommittedBefore(e) \/ RefuseCheckpoint(e) \/ QuotaReached(e) \/ CommitCheckpoint(e)

Next ==
  \/ \E e \in Execs : Step(e)
  \/ \E r \in Recs : RequestDeletion(r) \/ RetryDeletion(r)
  \/ RemoveFiles \/ DeleteRows \/ DeleteJob
  \/ Crash \/ Shutdown \/ ShutdownEnds \/ RecoverExecutions \/ Collect

Spec == Init /\ [][Next]_vars
=============================================================================
