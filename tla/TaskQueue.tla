------------------------------ MODULE TaskQueue ------------------------------
(***************************************************************************)
(* The task queue of internal/queue: the buffered dispatch channel and its *)
(* reservations, the workers that claim recordings from it, the processor  *)
(* each worker runs (internal/transcription/recoverable_execution.go), the *)
(* requests of the API, the periodic reconciler, startup recovery, orderly *)
(* shutdown and crashes.  rows is durable; every other variable but limit  *)
(* is the memory of one server process.                                    *)
(*                                                                         *)
(* An action is what the code does while it holds jobsMutex without        *)
(* letting go, or one database transaction outside it.  The end of a run   *)
(* is two actions, because a crash between its two writes is visible:      *)
(* lock says which worker holds jobsMutex between them.                    *)
(***************************************************************************)
EXTENDS ExecutionRows, Sequences

CONSTANTS
  MaxWorkers,   \* the largest recording concurrency (models.MaxQueueWorkers)
  Capacity,     \* capacity of jobChannel, 200 in the code
  NoTask,       \* a worker that holds no task
  AnyRun,       \* the target of a stop request that names no run
  Free,         \* jobsMutex held by nobody
  Timed,        \* executions that carry a deadline
  Renames,      \* recordings whose title a client may edit
  Immediate,    \* recordings a client may start outside their run queue
  AutoStarts,   \* recordings a finished upload may start by itself
  StopTargets,  \* the runs a stop request may name
  MaxRestarts,  \* bound: how often the server may stop or crash
  MaxFaults,    \* bound: how many database writes may fail
  MaxGen        \* bound: resumes of one execution

Workers == 1..MaxWorkers

ASSUME QueueAssumption ==
  /\ MaxWorkers \in Nat \ {0} /\ Capacity \in Nat \ {0}
  /\ Timed \subseteq Execs
  /\ Renames \subseteq Jobs /\ Immediate \subseteq Jobs /\ AutoStarts \subseteq Jobs
  /\ StopTargets \subseteq Items \cup {NoItem, AnyRun}
  /\ MaxRestarts \in Nat /\ MaxFaults \in Nat /\ MaxGen \in Nat
  /\ Free \notin Workers

\* queuedTask: the exact identity an entry of the channel was enqueued for.
Task == [job : Jobs, item : Items \cup {NoItem}, exec : Execs \cup {NoExec}]

ASSUME TaskAssumption == NoTask \notin Task

TaskOf(j, i, e) == [job |-> j, item |-> i, exec |-> e]

VARIABLES
  rows,        \* the database
  channel,     \* jobChannel
  scheduled,   \* scheduledTasks: the dispatch reservations
  running,     \* runningJobs: the worker that owns each recording
  deleting,    \* deletingJobs
  protected,   \* protectedJobs
  limit,       \* workerCount, persisted by SetWorkers
  worker,      \* the workers and the processor calls they are in
  lock,        \* jobsMutex while a worker closes a run
  phase,       \* the server process
  stopping,    \* stop requests the API admitted and the queue has not seen
  renaming,    \* the row a title update has read and not yet written back
  starting,    \* uploads whose pending row is written and not yet enqueued
  restarts,    \* counts against MaxRestarts
  faults       \* counts against MaxFaults

memory == <<channel, scheduled, running, deleting, protected, worker, lock,
            stopping, renaming, starting>>
vars == <<rows, memory, limit, phase, restarts, faults>>

Pc == {"off", "idle", "holding", "claimed", "begun", "working", "publishing",
       "returned", "closing"}
\* From the claim to the release of ownership a worker owns its recording.
Owning == Pc \ {"off", "idle", "holding"}

WorkerRow ==
  [pc : Pc, task : Task \cup {NoTask},
   seen : JobStatus \cup {"none"},          \* the job row read before the claim
   bound : Execs \cup {NoExec},             \* runningJob.ExecutionID
   exec : Execs \cup {NoExec}, gen : Nat,   \* what the processor owns
   stopped : BOOLEAN,                       \* jobCtx was cancelled by a stop
   result : {"none", "ok", "error", "cancelled"},
   outcome : ItemStatus]                    \* queueStatus while closing

OffWorker ==
  [pc |-> "off", task |-> NoTask, seen |-> "none", bound |-> NoExec,
   exec |-> NoExec, gen |-> 0, stopped |-> FALSE, result |-> "none",
   outcome |-> "none"]
IdleWorker == [OffWorker EXCEPT !.pc = "idle"]

Phase == {"down", "recovered", "repaired", "up", "blocked", "draining"}

\* A stop request names the run the caller reviewed (NoItem: a run of no item).
StopRequest == [job : Jobs, target : StopTargets]

TypeOK ==
  /\ rows \in Rows
  /\ channel \in Seq(Task) /\ Len(channel) <= Capacity
  /\ scheduled \in SUBSET Task
  /\ running \in [Jobs -> Workers \cup {0}]
  /\ deleting \in SUBSET Jobs /\ protected \in SUBSET Jobs
  /\ limit \in Workers
  /\ worker \in [Workers -> WorkerRow]
  /\ lock \in Workers \cup {Free}
  /\ phase \in Phase
  /\ stopping \in SUBSET StopRequest
  /\ renaming \in [Jobs -> JobStatus \cup {"none"}]
  /\ starting \in SUBSET Jobs
  /\ restarts \in Nat /\ faults \in Nat

Init ==
  /\ rows = InitRows
  /\ channel = << >> /\ scheduled = {}
  /\ running = [j \in Jobs |-> 0]
  /\ deleting = {} /\ protected = {}
  /\ limit = 1
  /\ worker = [w \in Workers |-> OffWorker]
  /\ lock = Free /\ phase = "down"
  /\ stopping = {} /\ renaming = [j \in Jobs |-> "none"] /\ starting = {}
  /\ restarts = 0 /\ faults = 0

-----------------------------------------------------------------------------
(* Dispatch.                                                               *)

Owned(j) == running[j] # 0
Unlocked == lock = Free
Serving  == phase \in {"up", "blocked"}        \* the API answers
Admitting == phase = "up" /\ Unlocked          \* startupFailure() is nil

EnqueueUnbounded(t) ==                                         \* mutant
  IF phase # "up" \/ t \in scheduled
  THEN UNCHANGED <<channel, scheduled>>
  ELSE channel' = Append(channel, t) /\ scheduled' = scheduled \cup {t}

EnqueueUnreserved(t) ==                                        \* mutant
  IF phase # "up" \/ Len(channel) >= Capacity
  THEN UNCHANGED <<channel, scheduled>>
  ELSE channel' = Append(channel, t) /\ scheduled' = scheduled \cup {t}

\* enqueueTask without waiting: one reservation per exact identity, and none
\* is kept when the channel is full.
Enqueue(t) ==
  IF phase # "up" \/ t \in scheduled \/ Len(channel) >= Capacity
  THEN UNCHANGED <<channel, scheduled>>
  ELSE /\ channel' = Append(channel, t)
       /\ scheduled' = scheduled \cup {t}

\* promoteNext on the rows d that the caller has already written.
Advance(d, j, owned, kept) ==
  IF kept \/ owned \/ j \in deleting \/ phase = "blocked" \/ ~Promotable(d, j)
  THEN rows' = d /\ UNCHANGED <<channel, scheduled>>
  ELSE /\ rows' = PromoteNext(d, j)
       /\ Enqueue(TaskOf(j, FirstQueued(d, j), NoExec))

\* pendingTask: the pending item, else the only admitted resume, else neither.
PendingTask(d, j) ==
  LET i == FindPending(d, j)
      E == PendingExecs(d, j)
  IN  IF i # NoItem THEN TaskOf(j, i, d.item[i].exec)
      ELSE IF E = {} THEN TaskOf(j, NoItem, NoExec)
      ELSE IF Cardinality(E) = 1 THEN TaskOf(j, NoItem, CHOOSE e \in E : TRUE)
      ELSE NoTask

-----------------------------------------------------------------------------
(* Requests of the API.                                                    *)

quiet == <<running, deleting, protected, limit, worker, lock, phase,
           stopping, renaming, starting, restarts, faults>>

AddRunWhileDeleting(j, i) ==                                   \* mutant
  /\ Admitting /\ CanAppend(rows, j, i)
  /\ Advance(AppendRun(rows, j, i), j, Owned(j), j \in protected)
  /\ UNCHANGED quiet

AddRun(j, i) ==
  /\ Admitting /\ j \notin deleting
  /\ CanAppend(rows, j, i)
  /\ Advance(AppendRun(rows, j, i), j, Owned(j), j \in protected)
  /\ UNCHANGED quiet

\* What an immediate run and a deletion both ask for.
AtRest(j) ==
  /\ j \notin protected /\ j \notin deleting /\ ~Owned(j)
  /\ Idle(rows, j) /\ NonTerminal(rows, j) = {}

StartImmediateRun(j) ==
  /\ Admitting /\ AtRest(j)
  /\ rows' = SetJob(rows, j, "pending")
  /\ Enqueue(TaskOf(j, NoItem, NoExec))
  /\ UNCHANGED quiet

\* The three edits of the waiting line do not take jobsMutex.
EditLine(d) ==
  Serving /\ rows' = d /\ UNCHANGED <<channel, scheduled, quiet>>

ReorderRuns(j) ==
  \E place \in Orders(rows, j) : EditLine(ReorderQueued(rows, place))

CancelRun(i) ==
  rows.item[i].status = "queued" /\ EditLine(CancelQueued(rows, i))

ClearRuns(j) == Queued(rows, j) # {} /\ EditLine(ClearQueued(rows, j))

ReserveJobDeletion(j) ==
  /\ Admitting /\ AtRest(j)
  /\ deleting' = deleting \cup {j}
  /\ UNCHANGED <<rows, channel, scheduled, running, protected, limit, worker,
                 lock, phase, stopping, renaming, starting, restarts, faults>>

DeleteJob(j) ==
  /\ Serving /\ j \in deleting /\ rows.job[j] # "deleted"
  /\ rows' = DeleteWithAssociations(rows, j)
  /\ UNCHANGED <<channel, scheduled, quiet>>

\* The deferred release runs whether or not the deletion succeeded.
ReleaseDeletion(j) ==
  /\ Serving /\ Unlocked /\ j \in deleting
  /\ deleting' = deleting \ {j}
  /\ UNCHANGED <<rows, channel, scheduled, running, protected, limit, worker,
                 lock, phase, stopping, renaming, starting, restarts, faults>>

Grown(n) == [w \in Workers |->
               IF phase = "up" /\ w <= n /\ worker[w].pc = "off"
               THEN IdleWorker ELSE worker[w]]

SetWorkers(n) ==
  /\ Serving /\ Unlocked /\ n # limit
  /\ limit' = n /\ worker' = Grown(n)
  /\ UNCHANGED <<rows, channel, scheduled, running, deleting, protected, lock,
                 phase, stopping, renaming, starting, restarts, faults>>

\* The stop handler reads the job row before it calls killJob.
RequestStop(r) ==
  /\ Serving /\ rows.job[r.job] \in ActiveStatus
  /\ \A q \in stopping : q.job # r.job
  /\ stopping' = stopping \cup {r}
  /\ UNCHANGED <<rows, channel, scheduled, running, deleting, protected, limit,
                 worker, lock, phase, renaming, starting, restarts, faults>>

StopHandled(r) ==
  /\ Serving /\ Unlocked /\ r \in stopping
  /\ stopping' = stopping \ {r}
  /\ UNCHANGED <<running, deleting, limit, lock, phase, renaming, starting,
                 restarts, faults>>

NamesAny(r, i) == TRUE                                         \* mutant

\* The stop was meant for the run of item i.
Names(r, i) == r.target \in {AnyRun, i}

\* The deadline of the execution the worker runs, or was handed to resume.
TimedOut(w) ==
  \E e \in {worker[w].exec, worker[w].bound} \cap Execs : Expired(rows, e)

\* killJob while a worker owns the recording: the execution is fenced first,
\* and a refused fence (it has already completed) cancels nothing.
KillRunning(r) ==
  LET w == running[r.job]
      e == worker[w].bound
  IN  /\ StopHandled(r) /\ Owned(r.job)
      /\ IF \/ ~Names(r, worker[w].task.item)
            \/ (e # NoExec /\ ~CanCancel(rows, e))
         THEN UNCHANGED <<rows, worker>>
         ELSE /\ rows' = IF e = NoExec THEN rows ELSE Cancel(rows, r.job, e)
              /\ worker' = [worker EXCEPT ![w].stopped = @ \/ ~TimedOut(w)]
      /\ UNCHANGED <<channel, scheduled, protected>>

\* cancelPersistedExecution: the execution of the active item, or without an
\* active item the only unresolved one.
Persisted(j) ==
  LET i == FindActive(rows, j)
  IN  IF i # NoItem THEN {rows.item[i].exec} \ {NoExec}
      ELSE UnresolvedExecs(rows, j)

KillPersisted(r) ==
  LET j      == r.job
      active == FindActive(rows, j)
      E      == Persisted(j)
      e      == CHOOSE x \in E : TRUE
      cancelled(d) == MarkActiveCancelled(SetJob(d, j, "failed"), j, active)
  IN  /\ StopHandled(r) /\ ~Owned(j)
      /\ UNCHANGED worker
      /\ CASE \/ rows.job[j] = "deleted"
              \/ ~Names(r, active)
              \/ Cardinality(E) > 1
              \/ (E = {} /\ rows.job[j] \notin ActiveStatus)
              \/ (E # {} /\ ~CanCancel(rows, e)) ->
                UNCHANGED <<rows, channel, scheduled, protected>>
           [] OTHER ->
                LET d    == IF E = {} THEN rows ELSE Cancel(rows, j, e)
                    kept == IF E # {} /\ phase = "up" THEN protected \ {j}
                            ELSE protected
                IN  protected' = kept /\ Advance(cancelled(d), j, FALSE, j \in kept)

Stop(r) == KillRunning(r) \/ KillPersisted(r)

\* ResumeExecution with PrepareExecutionResume and RequestResume inside it.
ResumeExecution(j, e) ==
  LET active   == FindActive(rows, j)
      admitted == rows.exec[e].state = "pending" /\ rows.exec[e].status = "pending"
      d        == IF admitted THEN rows ELSE RequestResume(rows, j, e)
      task     == PendingTask(d, j)
  IN  /\ Admitting /\ JobOf[e] = j
      /\ j \notin deleting /\ ~Owned(j)
      /\ active # NoItem => rows.item[active].exec = e
      /\ admitted \/ (Resumable(rows, j, e) /\ rows.exec[e].budget = "left")
      /\ rows.exec[e].gen < MaxGen
      /\ rows' = d
      /\ IF task # NoTask /\ task.exec = e
         THEN protected' = protected \ {j} /\ Enqueue(task)
         ELSE UNCHANGED <<protected, channel, scheduled>>
      /\ UNCHANGED <<running, deleting, limit, worker, lock, phase, stopping,
                     renaming, starting, restarts, faults>>

\* UpdateTranscriptionTitle reads the whole row and saves the whole row.
RenameRead(j) ==
  /\ Serving /\ renaming[j] = "none" /\ rows.job[j] # "deleted"
  /\ renaming' = [renaming EXCEPT ![j] = rows.job[j]]
  /\ UNCHANGED <<rows, channel, scheduled, running, deleting, protected, limit,
                 worker, lock, phase, stopping, starting, restarts, faults>>

RenameSave(j) ==
  /\ Serving /\ renaming[j] # "none"
  /\ rows' = [rows EXCEPT !.job[j] = renaming[j]]
  /\ renaming' = [renaming EXCEPT ![j] = "none"]
  /\ UNCHANGED <<channel, scheduled, running, deleting, protected, limit,
                 worker, lock, phase, stopping, starting, restarts, faults>>

\* applyAutoTranscription saves the new upload as pending, then enqueues it,
\* and saves it as uploaded again when the queue did not take it.
AutoStartSave(j) ==
  /\ Serving /\ rows.job[j] = "uploaded" /\ j \notin starting
  /\ rows' = SetJob(rows, j, "pending")
  /\ starting' = starting \cup {j}
  /\ UNCHANGED <<channel, scheduled, running, deleting, protected, limit,
                 worker, lock, phase, stopping, renaming, restarts, faults>>

AutoStartEnqueue(j) ==
  LET t == TaskOf(j, NoItem, NoExec)
  IN  /\ Serving /\ j \in starting
      /\ starting' = starting \ {j}
      /\ IF phase = "up" /\ (t \in scheduled \/ Len(channel) < Capacity)
         THEN Enqueue(t) /\ UNCHANGED rows
         ELSE /\ rows' = [rows EXCEPT !.job[j] = "uploaded"]
              /\ UNCHANGED <<channel, scheduled>>
      /\ UNCHANGED <<running, deleting, protected, limit, worker, lock, phase,
                     stopping, renaming, restarts, faults>>

-----------------------------------------------------------------------------
(* Workers: receive, claim, process, close, release.                       *)

Busy == {j \in Jobs : Owned(j)}

Set(w, r) == worker' = [worker EXCEPT ![w] = r]

\* A task is dropped by giving up its reservation.
Drop(w) == Set(w, IdleWorker) /\ scheduled' = scheduled \ {worker[w].task}

Receive(w) ==
  LET t == Head(channel)
  IN  /\ phase = "up" /\ worker[w].pc = "idle" /\ channel # << >>
      /\ channel' = Tail(channel)
      /\ IF rows.job[t.job] = "deleted"
         THEN UNCHANGED worker /\ scheduled' = scheduled \ {t}
         ELSE /\ Set(w, [IdleWorker EXCEPT !.pc = "holding", !.task = t,
                                           !.seen = rows.job[t.job]])
              /\ UNCHANGED scheduled
      /\ UNCHANGED <<rows, running, deleting, protected, limit, lock, phase,
                     stopping, renaming, starting, restarts, faults>>

\* claimTask: an exact item, or a legacy entry that meets no pending item and
\* whose recording was pending when it was read and still is.
Claimable(w) ==
  LET t == worker[w].task
  IN  /\ t.job \notin protected
      /\ IF t.item # NoItem THEN CanClaimItem(rows, t.job, t.item)
         ELSE /\ worker[w].seen = "pending"
              /\ FindPending(rows, t.job) = NoItem
              /\ rows.job[t.job] = "pending"

\* The wait for capacity ends when fewer recordings are owned than the limit.
HasRoomForOneMore == Cardinality(Busy) <= limit                \* mutant
HasRoom == Cardinality(Busy) < limit

TakesOwned(w) ==                                               \* mutant
  worker[w].task.job \notin deleting /\ Claimable(w)

Takes(w) ==
  LET j == worker[w].task.job
  IN  j \notin deleting /\ ~Owned(j) /\ Claimable(w)

Claim(w) ==
  LET t == worker[w].task
  IN  /\ phase = "up" /\ Unlocked /\ worker[w].pc = "holding"
      /\ HasRoom
      /\ IF ~Takes(w)
         THEN Drop(w) /\ UNCHANGED <<rows, running>>
         ELSE /\ rows' = IF t.item # NoItem THEN ClaimItem(rows, t.job, t.item)
                         ELSE SetJob(rows, t.job, "processing")
              /\ running' = [running EXCEPT ![t.job] = w]
              /\ Set(w, [worker[w] EXCEPT !.pc = "claimed", !.bound = t.exec])
              /\ scheduled' = scheduled \ {t}
      /\ UNCHANGED <<channel, deleting, protected, limit, lock, phase, stopping,
                     renaming, starting, restarts, faults>>

\* What ended the context of worker w's run, if anything has: a stop that came
\* before the deadline, the shutdown, or the deadline of the execution.  Go
\* keeps the first; between shutdown and deadline either may have been it.
CtxErrors(w) ==
  {err \in {"canceled", "deadline"} :
     \/ err = "canceled" /\ (worker[w].stopped \/ phase = "draining")
     \/ err = "deadline" /\ ~worker[w].stopped /\ TimedOut(w)}
CtxDone(w) == CtxErrors(w) # {}

\* A step of the processor: only the worker and the rows change.
Processing(w, pc) ==
  /\ worker[w].pc = pc
  /\ UNCHANGED <<channel, scheduled, running, deleting, protected, limit, lock,
                 phase, stopping, renaming, starting, restarts>>

BeginRun(w, e) ==
  LET t == worker[w].task
  IN  /\ Processing(w, "claimed") /\ t.exec = NoExec /\ ~CtxDone(w)
      /\ JobOf[e] = t.job /\ rows.exec[e].state = "none"
      /\ CanBegin(rows, t.job, t.item, e)
      /\ rows' = Begin(rows, t.item, e, IF e \in Timed THEN "ahead" ELSE "unset")
      /\ Set(w, [worker[w] EXCEPT !.pc = "begun", !.exec = e, !.gen = 1])
      /\ UNCHANGED faults

TakeResume(w) ==
  LET e == worker[w].task.exec
  IN  /\ Processing(w, "claimed") /\ e # NoExec /\ ~CtxDone(w)
      /\ CanClaimResume(rows, e)
      /\ rows' = ClaimResume(rows, e)
      /\ Set(w, [worker[w] EXCEPT !.pc = "begun", !.exec = e,
                                  !.gen = rows.exec[e].gen])
      /\ UNCHANGED faults

Returned(w, result) == Set(w, [worker[w] EXCEPT !.pc = "returned", !.result = result])

RefusedByRows(w) ==                                            \* mutant
  LET t == worker[w].task
  IN  \/ t.exec = NoExec /\ ~\E e \in ExecsOf(rows, t.job) :
           rows.exec[e].state = "none" /\ CanBegin(rows, t.job, t.item, e)
      \/ t.exec # NoExec /\ ~CanClaimResume(rows, t.exec)

\* A done context fails every read; else Begin or ClaimResume decides.
Refused(w) ==
  LET t == worker[w].task
  IN  \/ CtxDone(w)
      \/ t.exec = NoExec /\ ~\E e \in ExecsOf(rows, t.job) :
           rows.exec[e].state = "none" /\ CanBegin(rows, t.job, t.item, e)
      \/ t.exec # NoExec /\ ~CanClaimResume(rows, t.exec)

\* The worker was handed a resume whose deadline passed before it was claimed.
ExpiresUnclaimed(w) ==
  LET t == worker[w].task
  IN  /\ t.exec # NoExec /\ "deadline" \in CtxErrors(w)
      /\ CanExpire(rows, t.job, t.exec)

\* The processor returns an error before it owns an execution: a done context,
\* a refused Begin or ClaimResume, or (counted as a fault) any check before
\* them.  An admitted resume that ran out of its deadline is closed here.
Refuse(w) ==
  LET t == worker[w].task
  IN  /\ Processing(w, "claimed")
      /\ \/ Refused(w) /\ UNCHANGED faults
         \/ ~Refused(w) /\ faults < MaxFaults /\ faults' = faults + 1
      /\ \/ ExpiresUnclaimed(w) /\ rows' = ExpirePending(rows, t.job, t.exec)
         \/ /\ ExpiresUnclaimed(w) => "canceled" \in CtxErrors(w)
            /\ UNCHANGED rows
      /\ Returned(w, "error")

\* RegisterExecution: the binding is refused once the context is done, and the
\* processor then cancels the execution it has just started.
Register(w) ==
  LET t == worker[w].task
      e == worker[w].exec
      refused == \/ CtxDone(w)
                 \/ (t.item # NoItem /\ ~CanBind(rows, t.item, e))
  IN  /\ Processing(w, "begun") /\ Unlocked
      /\ IF refused
         THEN /\ rows' = IF CanCancel(rows, e) THEN Cancel(rows, t.job, e) ELSE rows
              /\ Returned(w, "error")
         ELSE /\ rows' = IF t.item = NoItem THEN rows ELSE BindExecution(rows, t.item, e)
              /\ Set(w, [worker[w] EXCEPT !.pc = "working", !.bound = e])
      /\ UNCHANGED faults

\* A stage can use up its attempt budget without a checkpoint.
SpendBudget(w) ==
  /\ Processing(w, "working") /\ rows.exec[worker[w].exec].budget = "left"
  /\ rows' = [rows EXCEPT !.exec[worker[w].exec].budget = "spent"]
  /\ UNCHANGED <<worker, faults>>

\* The adapters return; what ended the context overrides their result.
Work(w) ==
  /\ Processing(w, "working")
  /\ \E result \in {"ok", "error", "cancelled"} :
       /\ CASE result = "cancelled" -> "canceled" \in CtxErrors(w)
            [] result = "ok"        -> ~CtxDone(w)
            [] OTHER                -> CtxErrors(w) # {"canceled"}
       /\ Set(w, [worker[w] EXCEPT !.pc = "publishing", !.result = result])
  /\ UNCHANGED <<rows, faults>>

Publish(w) ==
  LET j == worker[w].task.job
      e == worker[w].exec
      s == IF worker[w].result = "ok" THEN "completed" ELSE "failed"
  IN  /\ Processing(w, "publishing")
      /\ CASE worker[w].result = "cancelled" ->
                /\ rows' = IF CanCancel(rows, e) THEN Cancel(rows, j, e) ELSE rows
                /\ Returned(w, "error") /\ UNCHANGED faults
           [] CanFinish(rows, e, worker[w].gen, s) ->
                \/ /\ rows' = Finish(rows, j, e, s)
                   /\ Returned(w, worker[w].result) /\ UNCHANGED faults
                \/ /\ faults < MaxFaults /\ faults' = faults + 1
                   /\ Returned(w, "error") /\ UNCHANGED rows
           [] OTHER -> Returned(w, "error") /\ UNCHANGED <<rows, faults>>

\* A durable outcome of the bound execution wins over the context and the error.
Published(w) ==
  worker[w].bound # NoExec
  /\ rows.exec[worker[w].bound].state \in {"completed", "failed", "cancelled"}

Outcome(w) ==
  IF Published(w) THEN rows.exec[worker[w].bound].state
  ELSE IF worker[w].stopped /\ phase # "draining" THEN "cancelled"
  ELSE IF CtxDone(w) THEN "failed"
  ELSE IF worker[w].result = "ok" THEN "completed" ELSE "failed"

ClosedUntouched(w) == rows                                     \* mutant

ClosedRows(w) ==
  IF Published(w) THEN rows
  ELSE SetJob(rows, worker[w].task.job, JobOutcome(Outcome(w)))

\* The worker decides the outcome of its run; a failed write of it is logged and
\* the run is finalized all the same.
Close(w) ==
  /\ worker[w].pc = "returned" /\ Unlocked
  /\ lock' = w
  /\ Set(w, [worker[w] EXCEPT !.pc = "closing", !.outcome = Outcome(w)])
  /\ \/ rows' = ClosedRows(w) /\ UNCHANGED faults
     \/ /\ ~Published(w) /\ faults < MaxFaults /\ faults' = faults + 1
        /\ UNCHANGED rows
  /\ UNCHANGED <<channel, scheduled, running, deleting, protected, limit, phase,
                 stopping, renaming, starting, restarts>>

\* finalizeAndAdvance; a failed Finalize is logged and the rest still happens.
Release(w) ==
  LET t == worker[w].task
      j == t.job
  IN  /\ worker[w].pc = "closing"
      /\ lock' = Free
      /\ running' = [running EXCEPT ![j] = 0]
      /\ Set(w, IdleWorker)
      /\ \/ /\ Advance(Finalize(rows, j, t.item, worker[w].outcome, worker[w].bound),
                       j, FALSE, j \in protected)
            /\ UNCHANGED faults
         \/ /\ faults < MaxFaults /\ faults' = faults + 1
            /\ Advance(rows, j, FALSE, j \in protected)
      /\ UNCHANGED <<deleting, protected, limit, phase, stopping, renaming,
                     starting, restarts>>

-----------------------------------------------------------------------------
(* The reconciler, one recording at a time.                                *)

\* An item that is processing with no owner: what its execution or its
\* recording says became of it.
OrphanOutcomes(d, j, i) ==
  LET e == d.item[i].exec
  IN  IF e # NoExec
      THEN {CASE d.exec[e].status = "completed" -> "completed"
              [] d.exec[e].state = "cancelled"  -> "cancelled"
              [] OTHER                          -> "failed"}
      ELSE IF d.job[j] = "completed" THEN {"completed"}
      ELSE {"failed", "cancelled"}          \* read off the error message

Unclaimed(d, j) ==
  IF d.job[j] = "processing" THEN FailProcessing(SetJob(d, j, "failed"), j) ELSE d

\* A processing item of a live execution is left to an explicit resume or stop.
KeepsRecovery(j) ==
  \E i \in ItemsIn(rows, j, {"processing"}) :
    rows.item[i].exec # NoExec /\ rows.exec[rows.item[i].exec].status \in ActiveStatus

Repairs(j) ==
  LET orphans == ItemsIn(rows, j, {"processing"})
      i       == CHOOSE x \in orphans : TRUE
  IN  IF rows.job[j] = "deleted" THEN {rows}
      ELSE IF orphans # {}
      THEN {Finalize(Unclaimed(rows, j), j, i, s, rows.item[i].exec) :
              s \in OrphanOutcomes(rows, j, i)}
      ELSE IF EveryItem(rows, j) # {} THEN {Unclaimed(rows, j)}
      ELSE {rows}

RedispatchIdle(d, j) ==                                        \* mutant
  Advance(d, j, FALSE, FALSE)

\* An idle recording moves up; a pending one is dispatched if it is not yet.
Redispatch(d, j) ==
  IF d.job[j] # "pending" THEN Advance(d, j, FALSE, FALSE)
  ELSE /\ rows' = d
       /\ IF PendingTask(d, j) = NoTask THEN UNCHANGED <<channel, scheduled>>
          ELSE Enqueue(PendingTask(d, j))

Reconcile(j) ==
  /\ Admitting /\ ~Owned(j) /\ j \notin protected
  /\ IF KeepsRecovery(j)
     THEN /\ protected' = protected \cup {j}
          /\ UNCHANGED <<rows, channel, scheduled>>
     ELSE (\E d \in Repairs(j) : Redispatch(d, j)) /\ UNCHANGED protected
  /\ UNCHANGED <<running, deleting, limit, worker, lock, phase, stopping,
                 renaming, starting, restarts, faults>>

-----------------------------------------------------------------------------
(* The life of the server process.                                         *)

unstarted == <<channel, scheduled, running, deleting, limit, worker, lock,
               stopping, renaming, starting, restarts, faults>>

\* RecoverExecutions: the barrier refuses dispatch when the termination of
\* earlier workers is unproven, else it interrupts what they left behind and
\* protects every recording with an unresolved execution.
Recover ==
  /\ phase = "down"
  /\ \/ /\ phase' = "blocked" /\ UNCHANGED <<rows, protected>>
     \/ /\ phase' = "recovered"
        /\ rows' = InterruptAll(rows)
        /\ protected' = UnresolvedJobs(rows)
  /\ UNCHANGED unstarted

\* ResetZombieJobs.
ResetZombieJobs ==
  /\ phase = "recovered" /\ phase' = "repaired"
  /\ rows' = LET zombies == {j \in Jobs : rows.job[j] = "processing"} \ protected
             IN  [rows EXCEPT
                   !.job = [j \in Jobs |-> IF j \in zombies THEN "failed" ELSE @[j]],
                   !.exec = [e \in Execs |->
                     IF JobOf[e] \in zombies /\ @[e].status = "processing"
                     THEN [@[e] EXCEPT !.status = "failed"] ELSE @[e]]]
  /\ UNCHANGED <<unstarted, protected>>

\* recoverSequentialRuns, then the workers, then recoverPendingJobs: as many
\* pending recordings as the channel takes, in the order the database lists.
PromotedAll(d) ==
  LET next == {j \in Jobs : Promotable(d, j) /\ j \notin protected}
      P(j) == PromoteNext(d, j)
  IN  [d EXCEPT !.job  = [j \in Jobs |-> IF j \in next THEN P(j).job[j] ELSE @[j]],
                !.item = [i \in Items |-> IF JobOf[i] \in next
                                          THEN P(JobOf[i]).item[i] ELSE @[i]]]

Launch ==
  LET d == PromotedAll(FailInterruptedExcept(rows, protected))
      tasks == {PendingTask(d, j) : j \in {k \in Jobs \ protected :
                                            d.job[k] = "pending"}} \ {NoTask}
      n == IF Cardinality(tasks) <= Capacity THEN Cardinality(tasks) ELSE Capacity
  IN  /\ phase = "repaired" /\ phase' = "up"
      /\ rows' = d
      /\ worker' = [w \in Workers |-> IF w <= limit THEN IdleWorker ELSE OffWorker]
      /\ \E order \in [1..n -> tasks] :
           /\ \A p, q \in 1..n : order[p] = order[q] => p = q
           /\ channel' = order
           /\ scheduled' = {order[p] : p \in 1..n}
      /\ UNCHANGED <<running, deleting, protected, limit, lock, stopping,
                     renaming, starting, restarts, faults>>

Forget ==
  /\ channel' = << >> /\ scheduled' = {}
  /\ running' = [j \in Jobs |-> 0]
  /\ deleting' = {} /\ protected' = {}
  /\ worker' = [w \in Workers |-> OffWorker]
  /\ lock' = Free /\ phase' = "down"
  /\ stopping' = {} /\ renaming' = [j \in Jobs |-> "none"] /\ starting' = {}
  /\ UNCHANGED <<rows, limit>>

Crash ==
  /\ phase # "down" /\ restarts < MaxRestarts /\ restarts' = restarts + 1
  /\ Forget /\ UNCHANGED faults

\* Shutdown waits for the requests in flight, then cancels the queue's context.
Drain ==
  /\ Serving /\ Unlocked /\ restarts < MaxRestarts /\ restarts' = restarts + 1
  /\ stopping = {} /\ starting = {} /\ deleting = {}
  /\ renaming = [j \in Jobs |-> "none"]
  /\ phase' = "draining"
  /\ UNCHANGED <<rows, memory, limit, faults>>

WorkerExit(w) ==
  /\ phase = "draining" /\ Unlocked /\ worker[w].pc \in {"idle", "holding"}
  /\ Set(w, OffWorker)
  /\ scheduled' = scheduled \ {worker[w].task}
  /\ UNCHANGED <<rows, channel, running, deleting, protected, limit, lock, phase,
                 stopping, renaming, starting, restarts, faults>>

Halt ==
  /\ phase = "draining" /\ \A w \in Workers : worker[w].pc = "off"
  /\ Forget /\ UNCHANGED <<restarts, faults>>

DeadlinePasses(e) ==
  /\ rows.exec[e].deadline = "ahead"
  /\ rows' = [rows EXCEPT !.exec[e].deadline = "past"]
  /\ UNCHANGED <<memory, limit, phase, restarts, faults>>

-----------------------------------------------------------------------------
Requests ==
  \/ \E j \in Jobs, i \in Items : AddRun(j, i)
  \/ \E j \in Jobs :
       \/ ReorderRuns(j) \/ ClearRuns(j)
       \/ ReserveJobDeletion(j) \/ DeleteJob(j) \/ ReleaseDeletion(j)
  \/ \E i \in Items : CancelRun(i)
  \/ \E n \in Workers : SetWorkers(n)
  \/ \E r \in StopRequest : RequestStop(r) \/ Stop(r)
  \/ \E j \in Jobs, e \in Execs : ResumeExecution(j, e)
  \/ \E j \in Immediate : StartImmediateRun(j)
  \/ \E j \in Renames : RenameRead(j) \/ RenameSave(j)
  \/ \E j \in AutoStarts : AutoStartSave(j) \/ AutoStartEnqueue(j)

WorkerStep(w) ==
  \/ Receive(w) \/ Claim(w) \/ TakeResume(w) \/ Refuse(w) \/ Register(w)
  \/ (\E e \in Execs : BeginRun(w, e))
  \/ Work(w) \/ Publish(w) \/ Close(w) \/ Release(w) \/ WorkerExit(w)

Process == Recover \/ ResetZombieJobs \/ Launch \/ Crash \/ Drain \/ Halt

Next ==
  \/ Requests
  \/ \E w \in Workers : WorkerStep(w) \/ SpendBudget(w)
  \/ \E j \in Jobs : Reconcile(j)
  \/ Process
  \/ \E e \in Execs : DeadlinePasses(e)

Spec == Init /\ [][Next]_vars

\* What the Go scheduler and the starvation mode of sync.Mutex provide: a step
\* of a live goroutine that waits only for jobsMutex, for channel space or for
\* work is not passed over for ever.  That Work ends is the activity watchdog
\* of the process supervisor; no request of a client is ever assumed, only
\* that a request already in its handler completes.
Fairness ==
  /\ \A w \in Workers : SF_vars(WorkerStep(w))
  /\ \A j \in Jobs : SF_vars(Reconcile(j)) /\ SF_vars(ReleaseDeletion(j))
  /\ \A r \in StopRequest : SF_vars(Stop(r))
  /\ \A j \in AutoStarts : WF_vars(AutoStartEnqueue(j))
  /\ \A j \in Renames : WF_vars(RenameSave(j))
  /\ WF_vars(Recover) /\ WF_vars(ResetZombieJobs) /\ WF_vars(Launch)
  /\ WF_vars(Halt)

FairSpec == Spec /\ Fairness
=============================================================================
