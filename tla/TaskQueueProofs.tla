--------------------------- MODULE TaskQueueProofs ---------------------------
(***************************************************************************)
(* Theorems about TaskQueue, for any number of recordings, runs,           *)
(* executions and workers, any channel capacity and any number of          *)
(* restarts, faults and resumes.                                           *)
(*                                                                         *)
(* Every step writes the rows through the transactions RowLemmas is about, *)
(* so most of the work is to say which transactions a step composes:       *)
(* RowsKept collects what the invariants need to know about the new rows.  *)
(***************************************************************************)
EXTENDS QueueProperties, RowLemmas, TLAPS

\* A worker past its claim has a task, one past Begin has an execution, and one
\* that closes its run has an outcome for it.
CommittedRow ==
  {r \in WorkerRow :
     /\ r.pc \notin {"off", "idle"} => r.task \in Task
     /\ r.pc \in {"begun", "working", "publishing"} => r.exec \in Execs
     /\ r.pc = "closing" => r.outcome \in {"completed", "failed", "cancelled"}}

\* The rows of a worker that owns the recording of task t.
OwnedRow(t) == {r \in CommittedRow : r.pc \in Owning /\ r.task = t}

TypeInv == TypeOK /\ worker \in [Workers -> CommittedRow]

\* What a step tells the invariants about the rows it writes.
RowsKept ==
  /\ rows' \in Rows
  /\ SingleActive(rows) => SingleActive(rows')
  /\ \A j \in deleting : NonTerminal(rows, j) = {} => NonTerminal(rows', j) = {}

\* The parts of TypeInv: what a step sends, and what few steps touch.
DispatchType ==
  channel \in Seq(Task) /\ Len(channel) <= Capacity /\ scheduled \in SUBSET Task

RestType ==
  /\ running \in [Jobs -> Workers \cup {0}]
  /\ deleting \in SUBSET Jobs /\ protected \in SUBSET Jobs
  /\ limit \in Workers
  /\ lock \in Workers \cup {Free}
  /\ phase \in Phase
  /\ stopping \in SUBSET StopRequest
  /\ renaming \in [Jobs -> JobStatus \cup {"none"}]
  /\ starting \in SUBSET Jobs
  /\ restarts \in Nat /\ faults \in Nat

-----------------------------------------------------------------------------
(* Values the actions compute.                                             *)

\* The identity of an entry is made of a recording, a run and an execution.
LEMMA TaskOfType ==
  ASSUME NEW j \in Jobs, NEW i \in Items \cup {NoItem}, NEW e \in Execs \cup {NoExec}
  PROVE  TaskOf(j, i, e) \in Task
BY DEF TaskOf, Task

\* The active and the pending run of a recording are runs of it, if there are.
LEMMA FindType ==
  ASSUME NEW d \in Rows, NEW j \in Jobs
  PROVE  /\ FindActive(d, j) \in Items \cup {NoItem}
         /\ FindPending(d, j) \in Items \cup {NoItem}
<1>1. ActiveItems(d, j) \in SUBSET Items /\ \A S : ItemsIn(d, j, S) \in SUBSET Items
  BY DEF ActiveItems, ItemsIn
<1>2. FindActive(d, j) \in Items \cup {NoItem}
  BY <1>1 DEF FindActive
<1>3. FindPending(d, j) \in Items \cup {NoItem}
  BY <1>1 DEF FindPending
<1> QED BY <1>2, <1>3

\* The entry a pending recording is dispatched as is well formed.
LEMMA PendingTaskType ==
  ASSUME NEW d \in Rows, NEW j \in Jobs
  PROVE  PendingTask(d, j) \in Task \cup {NoTask}
<1> DEFINE i == FindPending(d, j)
           E == PendingExecs(d, j)
           e == CHOOSE x \in E : TRUE
<1>1. i \in Items \cup {NoItem}
  BY FindType
<1>2. E \in SUBSET Execs
  BY DEF PendingExecs, ExecsOf
<1>3. CASE i # NoItem
  <2>1. d.item[i].exec \in Execs \cup {NoExec}
    BY <1>1, <1>3 DEF Rows, ItemRow
  <2>2. PendingTask(d, j) = TaskOf(j, i, d.item[i].exec)
    BY <1>3 DEF PendingTask
  <2> QED BY <1>1, <2>1, <2>2, TaskOfType
<1>4. CASE i = NoItem /\ E = {}
  <2>1. PendingTask(d, j) = TaskOf(j, NoItem, NoExec)
    BY <1>4 DEF PendingTask
  <2> QED BY <2>1, TaskOfType
<1>5. CASE i = NoItem /\ E # {}
  <2>1. e \in Execs
    BY <1>2, <1>5
  <2>2. PendingTask(d, j) = IF Cardinality(E) = 1 THEN TaskOf(j, NoItem, e) ELSE NoTask
    BY <1>5 DEF PendingTask
  <2> HIDE DEF e
  <2> QED BY <2>1, <2>2, TaskOfType
<1> QED BY <1>3, <1>4, <1>5

\* enqueueTask keeps the channel within its capacity.
LEMMA EnqueueType ==
  ASSUME DispatchType, NEW t \in Task, Enqueue(t)
  PROVE  DispatchType'
<1>1. CASE UNCHANGED <<channel, scheduled>>
  BY <1>1 DEF DispatchType
<1>2. CASE /\ Len(channel) < Capacity
           /\ channel' = Append(channel, t) /\ scheduled' = scheduled \cup {t}
  BY <1>2, QueueAssumption DEF DispatchType
<1>3. Capacity \in Nat /\ Len(channel) \in Nat
  BY QueueAssumption DEF DispatchType
<1> QED BY <1>1, <1>2, <1>3 DEF Enqueue

\* promoteNext on rows c: they become c, or c with one run promoted.
LEMMA AdvanceLemma ==
  ASSUME DispatchType, NEW c \in Rows, NEW j \in Jobs, NEW owned, NEW kept,
         Advance(c, j, owned, kept)
  PROVE  /\ rows' \in Rows /\ DispatchType'
         /\ SingleActive(c) => SingleActive(rows')
         /\ NoneEnters(c, rows', Live)
<1>1. CASE rows' = c /\ UNCHANGED <<channel, scheduled>>
  BY <1>1 DEF DispatchType, NoneEnters
<1>2. CASE /\ Promotable(c, j) /\ rows' = PromoteNext(c, j)
           /\ Enqueue(TaskOf(j, FirstQueued(c, j), NoExec))
  <2>1. FirstQueued(c, j) \in Items
    BY <1>2, FirstQueuedLemma DEF Promotable, Queued, ItemsIn
  <2>2. DispatchType'
    <3>1. TaskOf(j, FirstQueued(c, j), NoExec) \in Task
      BY <2>1, TaskOfType
    <3> QED BY <1>2, <3>1, EnqueueType
  <2> QED BY <1>2, <2>2, PromoteNextLemma, PromoteNextSingle
<1> QED BY <1>1, <1>2 DEF Advance

\* Transactions that add no run keep the rows.
LEMMA NoNewRunKeeps ==
  ASSUME rows' \in Rows, NoNewRun(rows, rows')
  PROVE  RowsKept
BY SingleActiveKept, NonTerminalKept DEF RowsKept, NoNewRun

\* So do transactions that add no run, followed by promoteNext.
LEMMA AdvanceKeeps ==
  ASSUME DispatchType, NEW c \in Rows, NoNewRun(rows, c), NEW j \in Jobs,
         NEW owned, NEW kept, Advance(c, j, owned, kept)
  PROVE  RowsKept /\ DispatchType'
<1>1. /\ rows' \in Rows /\ DispatchType'
      /\ SingleActive(c) => SingleActive(rows')
      /\ NoneEnters(c, rows', Live)
  BY AdvanceLemma
<1>2. SingleActive(rows) => SingleActive(c)
  BY SingleActiveKept DEF NoNewRun
<1>3. NoneEnters(rows, rows', Live)
  BY <1>1 DEF NoNewRun, NoneEnters
<1> QED BY <1>1, <1>2, <1>3, NonTerminalKept DEF RowsKept

\* A worker's next row is the one it was given.
LEMMA SetType ==
  ASSUME TypeInv, NEW w \in Workers, NEW r \in CommittedRow, Set(w, r)
  PROVE  worker' \in [Workers -> CommittedRow]
BY DEF TypeInv, Set

\* A worker that starts, and one that stops, have nothing in hand.
LEMMA WorkerRows ==
  /\ IdleWorker \in CommittedRow /\ OffWorker \in CommittedRow
  /\ CommittedRow \subseteq WorkerRow
BY DEF CommittedRow, WorkerRow, Pc, IdleWorker, OffWorker, ItemStatus

\* The parts make the whole.
LEMMA TypeParts ==
  /\ TypeInv => /\ rows \in Rows /\ DispatchType /\ RestType
                /\ worker \in [Workers -> CommittedRow]
  /\ rows' \in Rows /\ DispatchType' /\ RestType'
     /\ worker' \in [Workers -> CommittedRow] => TypeInv'
<1>1. worker' \in [Workers -> CommittedRow] => worker' \in [Workers -> WorkerRow]
  BY WorkerRows
<1> QED BY <1>1 DEF TypeInv, TypeOK, DispatchType, RestType

-----------------------------------------------------------------------------
(* Requests.                                                               *)

\* Steps that change neither the rows nor what is dispatched.
LEMMA SameRows ==
  ASSUME TypeInv, UNCHANGED rows
  PROVE  RowsKept
BY NoNewRunKeeps DEF TypeInv, TypeOK, NoNewRun, NoneEnters

\* A new run waits: it is not active, and its recording is not being deleted.
LEMMA AddRunStep ==
  ASSUME TypeInv, NEW j \in Jobs, NEW i \in Items, AddRun(j, i)
  PROVE  RowsKept /\ TypeInv'
<1> DEFINE c == AppendRun(rows, j, i)
<1>1. c \in Rows /\ NoneEnters(rows, c, ActiveStatus)
      /\ \A k \in Items \ {i} : c.item[k] = rows.item[k]
  BY AppendRunLemma DEF TypeInv, TypeOK
<1>2. Advance(c, j, Owned(j), j \in protected) /\ UNCHANGED quiet
      /\ j \notin deleting /\ JobOf[i] = j
  BY DEF AddRun, CanAppend
<1> HIDE DEF c
<1>3. /\ rows' \in Rows /\ DispatchType'
      /\ SingleActive(c) => SingleActive(rows')
      /\ NoneEnters(c, rows', Live)
  BY <1>1, <1>2, AdvanceLemma, TypeParts
<1>4. SingleActive(rows) => SingleActive(rows')
  BY <1>1, <1>3, SingleActiveKept
<1>5. ASSUME NEW k \in deleting, NonTerminal(rows, k) = {}
      PROVE  NonTerminal(rows', k) = {}
  BY <1>1, <1>2, <1>3, <1>5 DEF NonTerminal, ItemsIn, NoneEnters, Live
<1>6. TypeInv'
  BY <1>2, <1>3, TypeParts DEF quiet, RestType
<1> QED BY <1>3, <1>4, <1>5, <1>6 DEF RowsKept

\* The edits of the waiting line only reorder and end waiting runs.
LEMMA EditLineStep ==
  ASSUME TypeInv, NEW c \in Rows, NoNewRun(rows, c), EditLine(c)
  PROVE  RowsKept /\ TypeInv'
<1>1. rows' = c /\ UNCHANGED <<channel, scheduled, quiet>>
  BY DEF EditLine
<1>2. TypeInv'
  BY <1>1, TypeParts DEF quiet, RestType, DispatchType
<1> QED BY <1>1, <1>2, NoNewRunKeeps

\* Deletion: the reservation, the transaction, the release.
LEMMA DeletionStep ==
  ASSUME TypeInv, NEW j \in Jobs,
         ReserveJobDeletion(j) \/ DeleteJob(j) \/ ReleaseDeletion(j)
  PROVE  RowsKept /\ TypeInv'
<1>1. CASE ReserveJobDeletion(j)
  <2>1. TypeInv'
    BY <1>1, TypeParts DEF ReserveJobDeletion, RestType, DispatchType
  <2> QED BY <1>1, <2>1, SameRows DEF ReserveJobDeletion
<1>2. CASE DeleteJob(j)
  <2>1. rows' \in Rows /\ NoNewRun(rows, rows')
    BY <1>2, TypeParts, DeleteLemma DEF DeleteJob
  <2>2. TypeInv'
    BY <1>2, <2>1, TypeParts DEF DeleteJob, quiet, RestType, DispatchType
  <2> QED BY <2>1, <2>2, NoNewRunKeeps
<1>3. CASE ReleaseDeletion(j)
  <2>1. TypeInv'
    BY <1>3, TypeParts DEF ReleaseDeletion, RestType, DispatchType
  <2> QED BY <1>3, <2>1, SameRows DEF ReleaseDeletion
<1> QED BY <1>1, <1>2, <1>3

\* SetWorkers starts idle workers and stops none.
LEMMA SetWorkersStep ==
  ASSUME TypeInv, NEW n \in Workers, SetWorkers(n)
  PROVE  RowsKept /\ TypeInv'
<1>1. worker' \in [Workers -> CommittedRow]
  BY TypeParts, WorkerRows DEF SetWorkers, Grown
<1>2. TypeInv'
  BY <1>1, TypeParts DEF SetWorkers, RestType, DispatchType
<1> QED BY <1>2, SameRows DEF SetWorkers

\* A stop marks the worker it stops and nothing else of it.
LEMMA StoppedRow ==
  ASSUME NEW r \in CommittedRow, NEW b \in BOOLEAN
  PROVE  [r EXCEPT !.stopped = b] \in CommittedRow
BY DEF CommittedRow, WorkerRow, Pc

\* Cancel keeps the rows and adds no run.
LEMMA CancelKeeps ==
  ASSUME NEW d \in Rows, NEW j \in Jobs, NEW e \in Execs
  PROVE  Cancel(d, j, e) \in Rows /\ NoNewRun(d, Cancel(d, j, e))
BY CancelLemma, SameItems

\* A stop of an owned recording cancels its execution and marks its worker.
LEMMA KillRunningStep ==
  ASSUME TypeInv, NEW r \in StopRequest, KillRunning(r)
  PROVE  RowsKept /\ TypeInv'
<1> DEFINE w == running[r.job]
           e == worker[w].bound
<1>1. r.job \in Jobs
  BY DEF StopRequest
<1>2. w \in Workers
  BY <1>1, TypeParts DEF KillRunning, Owned, RestType
<1>3. worker[w] \in CommittedRow /\ e \in Execs \cup {NoExec}
  BY <1>2, TypeParts DEF CommittedRow, WorkerRow
<1>4. rows' \in Rows /\ NoNewRun(rows, rows')
  <2>1. rows' = rows \/ (e # NoExec /\ rows' = Cancel(rows, r.job, e))
    BY DEF KillRunning
  <2>2. NoNewRun(rows, rows)
    BY SameItems
  <2> QED BY <1>1, <1>3, <2>1, <2>2, CancelKeeps, TypeParts
<1>5. worker' \in [Workers -> CommittedRow]
  <2>1. CASE worker' = worker
    BY <2>1, TypeParts
  <2>2. CASE worker' = [worker EXCEPT ![w].stopped = @ \/ ~TimedOut(w)]
    <3> DEFINE b == worker[w].stopped \/ ~TimedOut(w)
    <3>1. worker' = [worker EXCEPT ![w] = [worker[w] EXCEPT !.stopped = b]]
      BY <2>2
    <3>2. [worker[w] EXCEPT !.stopped = b] \in CommittedRow
      <4>1. b \in BOOLEAN
        OBVIOUS
      <4> HIDE DEF b
      <4> QED BY <4>1, <1>3, StoppedRow
    <3> HIDE DEF b
    <3> QED BY <3>1, <3>2, TypeParts
  <2> QED BY <2>1, <2>2 DEF KillRunning
<1>6. TypeInv'
  BY <1>4, <1>5, TypeParts DEF KillRunning, StopHandled, RestType, DispatchType
<1> QED BY <1>4, <1>6, NoNewRunKeeps

\* The execution a stop finds in the rows is an execution of the recording.
LEMMA PersistedType ==
  ASSUME NEW j \in Jobs, rows \in Rows
  PROVE  Persisted(j) \in SUBSET Execs
<1>1. FindActive(rows, j) \in Items \cup {NoItem}
  BY FindType
<1>2. CASE FindActive(rows, j) = NoItem
  BY <1>2 DEF Persisted, UnresolvedExecs, ExecsOf
<1>3. CASE FindActive(rows, j) # NoItem
  BY <1>1, <1>3 DEF Persisted, Rows, ItemRow
<1> QED BY <1>2, <1>3

\* A stop of a recording without owner cancels what the rows name, ends the
\* active run and may promote the next one.
LEMMA KillPersistedStep ==
  ASSUME TypeInv, NEW r \in StopRequest, KillPersisted(r)
  PROVE  RowsKept /\ TypeInv'
<1> DEFINE j == r.job
           i == FindActive(rows, j)
           E == Persisted(j)
           e == CHOOSE x \in E : TRUE
           d == IF E = {} THEN rows ELSE Cancel(rows, j, e)
           c == MarkActiveCancelled(SetJob(d, j, "failed"), j, i)
           kept == IF E # {} /\ phase = "up" THEN protected \ {j} ELSE protected
<1>1. j \in Jobs /\ i \in Items \cup {NoItem} /\ E \in SUBSET Execs /\ rows \in Rows
  BY FindType, PersistedType, TypeParts DEF StopRequest
<1>2. /\ UNCHANGED worker
      /\ \/ UNCHANGED <<rows, channel, scheduled, protected>>
         \/ protected' = kept /\ Advance(c, j, FALSE, j \in kept)
  BY DEF KillPersisted
<1>3. kept \in SUBSET Jobs
  BY TypeParts DEF RestType
<1>4. c \in Rows /\ NoNewRun(rows, c)
  <2>1. d \in Rows /\ NoNewRun(rows, d)
    <3>1. CASE E = {}
      BY <1>1, <3>1, SameItems
    <3>2. CASE E # {}
      <4>1. e \in Execs
        BY <1>1, <3>2
      <4> HIDE DEF e
      <4> QED BY <1>1, <3>2, <4>1, CancelKeeps
    <3> QED BY <3>1, <3>2
  <2> HIDE DEF d
  <2>2. SetJob(d, j, "failed") \in Rows /\ NoNewRun(d, SetJob(d, j, "failed"))
    BY <1>1, <2>1, SetJobLemma, SameItems DEF JobStatus
  <2>3. c \in Rows /\ NoNewRun(SetJob(d, j, "failed"), c)
    <3> DEFINE b == SetJob(d, j, "failed")
    <3> HIDE DEF b, i, j
    <3>1. b \in Rows
      BY <2>2 DEF b
    <3>2. /\ MarkActiveCancelled(b, j, i) \in Rows
          /\ NoNewRun(b, MarkActiveCancelled(b, j, i))
      BY <1>1, <3>1, MarkActiveCancelledLemma
    <3> QED BY <3>2 DEF b
  <2> HIDE DEF c
  <2> QED BY <2>1, <2>2, <2>3, NoNewRunTransitive
<1> HIDE DEF c, kept
<1>5. CASE UNCHANGED <<rows, channel, scheduled, protected>>
  <2>1. TypeInv'
    BY <1>2, <1>5, TypeParts DEF KillPersisted, StopHandled, RestType, DispatchType
  <2> QED BY <1>5, <2>1, SameRows
<1>6. CASE protected' = kept /\ Advance(c, j, FALSE, j \in kept)
  <2>1. RowsKept /\ DispatchType'
    BY <1>1, <1>4, <1>6, AdvanceKeeps, TypeParts
  <2>2. rows' \in Rows
    BY <2>1 DEF RowsKept
  <2>3. RestType'
    BY <1>3, <1>6, TypeParts DEF KillPersisted, StopHandled, RestType
  <2> QED BY <1>2, <2>1, <2>2, <2>3, TypeParts
<1> QED BY <1>2, <1>5, <1>6

\* A stop is one of the two.
LEMMA StopStep ==
  ASSUME TypeInv, NEW r \in StopRequest, RequestStop(r) \/ Stop(r)
  PROVE  RowsKept /\ TypeInv'
<1>1. CASE RequestStop(r)
  <2>1. TypeInv'
    BY <1>1, TypeParts DEF RequestStop, RestType, DispatchType
  <2> QED BY <1>1, <2>1, SameRows DEF RequestStop
<1> QED BY <1>1, KillRunningStep, KillPersistedStep DEF Stop

\* A resume readmits the run of one execution, in a recording that is not being
\* deleted and whose active run, if any, is that run.
LEMMA ResumeStep ==
  ASSUME TypeInv, NEW j \in Jobs, NEW e \in Execs, ResumeExecution(j, e)
  PROVE  RowsKept /\ TypeInv'
<1> DEFINE admitted == rows.exec[e].state = "pending" /\ rows.exec[e].status = "pending"
           d == IF admitted THEN rows ELSE RequestResume(rows, j, e)
           task == PendingTask(d, j)
<1>1. /\ rows' = d /\ j \notin deleting /\ JobOf[e] = j
      /\ admitted \/ Resumable(rows, j, e)
      /\ \/ task \in Task /\ protected' = protected \ {j} /\ Enqueue(task)
         \/ UNCHANGED <<protected, channel, scheduled>>
  <2>1. d \in Rows
    BY RequestResumeLemma, TypeParts
  <2>2. task \in Task \cup {NoTask}
    <3> HIDE DEF d
    <3> QED BY <2>1, PendingTaskType
  <2> HIDE DEF task
  <2> QED BY <2>2 DEF ResumeExecution, task
<1>2. RowsKept
  <2>1. CASE admitted
    BY <1>1, <2>1, SameRows
  <2>2. CASE ~admitted
    <3>1. rows' = RequestResume(rows, j, e) /\ Resumable(rows, j, e)
      BY <1>1, <2>2
    <3>2. rows' \in Rows /\ (SingleActive(rows) => SingleActive(rows'))
      BY <1>1, <3>1, RequestResumeLemma, RequestResumeSingle, TypeParts
    <3>3. \A i \in Items : JobOf[i] # j => rows'.item[i] = rows.item[i]
      <4>1. rows.exec[e].item # NoItem => JobOf[rows.exec[e].item] = j
        BY <1>1, <3>1 DEF Resumable, HoldsItem
      <4>2. \A i \in Items : i # rows.exec[e].item => rows'.item[i] = rows.item[i]
        BY <3>1, RequestResumeLemma, TypeParts
      <4> QED BY <4>1, <4>2, IdAssumption
    <3> QED BY <1>1, <3>2, <3>3 DEF RowsKept, NonTerminal, ItemsIn
  <2> QED BY <2>1, <2>2
<1> HIDE DEF d, task, admitted
<1>3. DispatchType' /\ protected' \in SUBSET Jobs
  <2>1. DispatchType /\ protected \in SUBSET Jobs
    BY TypeParts DEF RestType
  <2>2. CASE UNCHANGED <<protected, channel, scheduled>>
    BY <2>1, <2>2 DEF DispatchType
  <2>3. CASE task \in Task /\ protected' = protected \ {j} /\ Enqueue(task)
    BY <2>1, <2>3, EnqueueType
  <2> QED BY <1>1, <2>2, <2>3
<1>4. RestType' /\ worker' \in [Workers -> CommittedRow]
  BY <1>3, TypeParts DEF ResumeExecution, RestType
<1> QED BY <1>2, <1>3, <1>4, TypeParts DEF RowsKept

\* Steps that write a recording's status only: the immediate start, the title
\* update, the automatic start of an upload.
LEMMA StatusStep ==
  ASSUME TypeInv, NEW j \in Jobs,
         \/ StartImmediateRun(j) \/ RenameRead(j) \/ RenameSave(j)
         \/ AutoStartSave(j) \/ AutoStartEnqueue(j)
  PROVE  RowsKept /\ TypeInv'
<1>1. rows \in Rows /\ DispatchType /\ RestType /\ worker \in [Workers -> CommittedRow]
  BY TypeParts
<1>2. TaskOf(j, NoItem, NoExec) \in Task
  BY TaskOfType
<1>3. /\ SetJob(rows, j, "pending") \in Rows
      /\ SetJob(rows, j, "pending").item = rows.item
  BY <1>1, SetJobLemma DEF JobStatus
<1>4. CASE StartImmediateRun(j)
  <2>1. DispatchType'
    BY <1>1, <1>2, <1>4, EnqueueType DEF StartImmediateRun
  <2>2. rows' \in Rows /\ NoNewRun(rows, rows')
    BY <1>3, <1>4, SameItems DEF StartImmediateRun
  <2> QED BY <1>1, <1>4, <2>1, <2>2, NoNewRunKeeps, TypeParts
          DEF StartImmediateRun, quiet, RestType
<1>5. CASE RenameRead(j)
  <2>1. renaming' \in [Jobs -> JobStatus \cup {"none"}]
    BY <1>1, <1>5 DEF RenameRead, RestType, Rows
  <2>2. TypeInv'
    BY <1>1, <1>5, <2>1, TypeParts DEF RenameRead, RestType, DispatchType
  <2> QED BY <1>5, <2>2, SameRows DEF RenameRead
<1>6. CASE RenameSave(j)
  <2>1. rows' \in Rows /\ rows'.item = rows.item
    <3>1. renaming[j] \in JobStatus
      BY <1>1, <1>6 DEF RenameSave, RestType
    <3> QED BY <1>1, <1>6, <3>1 DEF RenameSave, Rows
  <2>2. renaming' \in [Jobs -> JobStatus \cup {"none"}]
    BY <1>1, <1>6 DEF RenameSave, RestType
  <2>3. TypeInv'
    BY <1>1, <1>6, <2>1, <2>2, TypeParts DEF RenameSave, RestType, DispatchType
  <2> QED BY <2>1, <2>3, SameItems, NoNewRunKeeps
<1>7. CASE AutoStartSave(j)
  <2>1. rows' \in Rows /\ rows'.item = rows.item
    BY <1>3, <1>7 DEF AutoStartSave
  <2>2. TypeInv'
    BY <1>1, <1>7, <2>1, TypeParts DEF AutoStartSave, RestType, DispatchType
  <2> QED BY <2>1, <2>2, SameItems, NoNewRunKeeps
<1>8. CASE AutoStartEnqueue(j)
  <2>1. rows' \in Rows /\ rows'.item = rows.item /\ DispatchType'
    <3>1. CASE Enqueue(TaskOf(j, NoItem, NoExec)) /\ UNCHANGED rows
      BY <1>1, <1>2, <3>1, EnqueueType
    <3>2. CASE /\ rows' = [rows EXCEPT !.job[j] = "uploaded"]
               /\ UNCHANGED <<channel, scheduled>>
      BY <1>1, <3>2 DEF Rows, JobStatus, DispatchType
    <3> QED BY <1>8, <3>1, <3>2 DEF AutoStartEnqueue
  <2>2. TypeInv'
    BY <1>1, <1>8, <2>1, TypeParts DEF AutoStartEnqueue, RestType
  <2> QED BY <2>1, <2>2, SameItems, NoNewRunKeeps
<1> QED BY <1>4, <1>5, <1>6, <1>7, <1>8

-----------------------------------------------------------------------------
(* Workers.                                                                *)

\* The rows a worker goes through while it has a task.
LEMMA RowForms ==
  ASSUME NEW r \in CommittedRow, r.pc \notin {"off", "idle"}
  PROVE  /\ \A e \in Execs \cup {NoExec} :
              [r EXCEPT !.pc = "claimed", !.bound = e] \in OwnedRow(r.task)
         /\ \A e \in Execs, g \in Nat :
              [r EXCEPT !.pc = "begun", !.exec = e, !.gen = g] \in OwnedRow(r.task)
         /\ \A e \in Execs : r.exec \in Execs =>
              [r EXCEPT !.pc = "working", !.bound = e] \in OwnedRow(r.task)
         /\ \A x \in {"none", "ok", "error", "cancelled"} :
              /\ [r EXCEPT !.pc = "returned", !.result = x] \in OwnedRow(r.task)
              /\ r.exec \in Execs =>
                   [r EXCEPT !.pc = "publishing", !.result = x] \in OwnedRow(r.task)
         /\ \A s \in {"completed", "failed", "cancelled"} :
              [r EXCEPT !.pc = "closing", !.outcome = s] \in OwnedRow(r.task)
<1> USE DEF OwnedRow, CommittedRow, WorkerRow, Pc, Owning
<1>1. \A e \in Execs \cup {NoExec} :
        [r EXCEPT !.pc = "claimed", !.bound = e] \in OwnedRow(r.task)
  OBVIOUS
<1>2. \A e \in Execs, g \in Nat :
        [r EXCEPT !.pc = "begun", !.exec = e, !.gen = g] \in OwnedRow(r.task)
  OBVIOUS
<1>3. \A e \in Execs : r.exec \in Execs =>
        [r EXCEPT !.pc = "working", !.bound = e] \in OwnedRow(r.task)
  OBVIOUS
<1>4. \A x \in {"none", "ok", "error", "cancelled"} :
        [r EXCEPT !.pc = "returned", !.result = x] \in OwnedRow(r.task)
  OBVIOUS
<1>5. \A x \in {"none", "ok", "error", "cancelled"} : r.exec \in Execs =>
        [r EXCEPT !.pc = "publishing", !.result = x] \in OwnedRow(r.task)
  OBVIOUS
<1>6. \A s \in {"completed", "failed", "cancelled"} :
        [r EXCEPT !.pc = "closing", !.outcome = s] \in OwnedRow(r.task)
  BY ZenonT(60) DEF ItemStatus
<1> HIDE DEF OwnedRow, CommittedRow, WorkerRow, Pc, Owning
<1> QED BY <1>1, <1>2, <1>3, <1>4, <1>5, <1>6

\* A worker that receives an entry holds it, with the status it read.
LEMMA HoldingRow ==
  ASSUME NEW t \in Task, NEW s \in JobStatus
  PROVE  [IdleWorker EXCEPT !.pc = "holding", !.task = t, !.seen = s] \in CommittedRow
BY DEF CommittedRow, WorkerRow, Pc, IdleWorker, OffWorker, ItemStatus

\* A worker with a task knows its recording, and its run if there is one.
LEMMA TaskParts ==
  ASSUME TypeInv, NEW w \in Workers, worker[w].pc \notin {"off", "idle"}
  PROVE  /\ worker[w] \in CommittedRow
         /\ worker[w].task \in Task
         /\ worker[w].task.job \in Jobs
         /\ worker[w].task.item \in Items \cup {NoItem}
         /\ worker[w].task.exec \in Execs \cup {NoExec}
         /\ worker[w].bound \in Execs \cup {NoExec}
         /\ worker[w].pc = "closing" =>
              worker[w].outcome \in {"completed", "failed", "cancelled"}
         /\ worker[w].pc \in {"begun", "working", "publishing"} =>
              worker[w].exec \in Execs
<1>1. worker[w] \in CommittedRow
  BY TypeParts
<1>2. worker[w].task \in Task
  BY <1>1 DEF CommittedRow
<1> QED BY <1>1, <1>2 DEF CommittedRow, WorkerRow, Task

\* Receiving takes the first entry of the channel.
LEMMA ReceiveStep ==
  ASSUME TypeInv, NEW w \in Workers, Receive(w)
  PROVE  RowsKept /\ TypeInv'
<1> DEFINE t == Head(channel)
<1>1. t \in Task /\ Tail(channel) \in Seq(Task) /\ Len(Tail(channel)) <= Capacity
  <2>1. channel \in Seq(Task) /\ Len(channel) <= Capacity /\ channel # << >>
    BY TypeParts DEF Receive, DispatchType
  <2> QED BY <2>1, QueueAssumption
<1>2. DispatchType'
  BY <1>1, TypeParts DEF Receive, DispatchType
<1>3. worker' \in [Workers -> CommittedRow]
  <2>1. rows.job[t.job] \in JobStatus
    <3>1. t.job \in Jobs
      BY <1>1 DEF Task
    <3> QED BY <3>1, TypeParts DEF Rows
  <2> DEFINE r == [IdleWorker EXCEPT !.pc = "holding", !.task = t,
                                    !.seen = rows.job[t.job]]
  <2>2. r \in CommittedRow
    <3> HIDE DEF t
    <3> QED BY <1>1, <2>1, HoldingRow
  <2>3. worker' = worker \/ Set(w, r)
    BY DEF Receive
  <2> HIDE DEF r
  <2> QED BY <2>2, <2>3, SetType, TypeParts
<1>4. TypeInv'
  BY <1>2, <1>3, TypeParts DEF Receive, RestType
<1> QED BY <1>4, SameRows DEF Receive

\* A claim moves an admitted recording, and its run, to processing.
LEMMA ClaimStep ==
  ASSUME TypeInv, NEW w \in Workers, Claim(w)
  PROVE  RowsKept /\ TypeInv'
<1> DEFINE t == worker[w].task
           j == t.job
           i == t.item
<1>1. /\ worker[w].pc = "holding" /\ worker[w] \in CommittedRow
      /\ j \in Jobs /\ i \in Items \cup {NoItem} /\ t.exec \in Execs \cup {NoExec}
  <2>1. worker[w].pc = "holding"
    BY DEF Claim
  <2> QED BY <2>1, TaskParts
<1>2. rows \in Rows /\ RestType
  BY TypeParts
<1>3. DispatchType'
  BY TypeParts DEF Claim, Drop, DispatchType
<1>4. CASE ~Takes(w)
  <2>1. worker' \in [Workers -> CommittedRow]
    BY <1>4, SetType, WorkerRows DEF Claim, Drop
  <2>2. TypeInv'
    BY <1>2, <1>3, <1>4, <2>1, TypeParts DEF Claim, RestType
  <2> QED BY <1>4, <2>2, SameRows DEF Claim
<1>5. CASE Takes(w)
  <2>1. rows' \in Rows /\ NoNewRun(rows, rows')
    <3>1. CASE i # NoItem
      <4>1. CanClaimItem(rows, j, i) /\ rows' = ClaimItem(rows, j, i)
        BY <1>5, <3>1 DEF Claim, Takes, Claimable
      <4> QED BY <1>1, <1>2, <3>1, <4>1, ClaimItemLemma
    <3>2. CASE i = NoItem
      <4>1. rows' = SetJob(rows, j, "processing")
        BY <1>5, <3>2 DEF Claim
      <4> QED BY <1>1, <1>2, <4>1, SetJobLemma, SameItems DEF JobStatus
    <3> QED BY <3>1, <3>2
  <2>2. worker' \in [Workers -> CommittedRow]
    <3> DEFINE r == [worker[w] EXCEPT !.pc = "claimed", !.bound = t.exec]
    <3>1. r \in CommittedRow
      BY <1>1, RowForms DEF OwnedRow
    <3>2. Set(w, r)
      BY <1>5 DEF Claim
    <3> HIDE DEF r
    <3> QED BY <3>1, <3>2, SetType
  <2>3. running' \in [Jobs -> Workers \cup {0}]
    BY <1>1, <1>2, <1>5 DEF Claim, RestType
  <2>4. TypeInv'
    BY <1>2, <1>3, <2>1, <2>2, <2>3, TypeParts DEF Claim, RestType
  <2> QED BY <2>1, <2>4, NoNewRunKeeps
<1> QED BY <1>4, <1>5

\* A worker that owns its recording still owns it after the step.
StaysOwner(w) ==
  /\ worker[w].pc \in Owning /\ running' = running /\ phase' = phase
  /\ worker' = worker \/ \E r \in OwnedRow(worker[w].task) : Set(w, r)

\* A step of the processor writes its worker's row and adds no run.
LEMMA ProcessingStep ==
  ASSUME TypeInv, NEW w \in Workers, NEW r \in OwnedRow(worker[w].task),
         NEW pc \in Owning, Processing(w, pc), worker' = worker \/ Set(w, r),
         faults' \in Nat, rows' \in Rows, NoNewRun(rows, rows')
  PROVE  RowsKept /\ TypeInv' /\ StaysOwner(w)
<1>1. worker' \in [Workers -> CommittedRow]
  BY SetType, TypeParts DEF OwnedRow
<1>2. TypeInv'
  BY <1>1, TypeParts DEF Processing, RestType, DispatchType
<1>3. StaysOwner(w)
  BY DEF StaysOwner, Processing
<1> QED BY <1>2, <1>3, NoNewRunKeeps

\* Begin and ClaimResume give the worker an execution.
LEMMA BeginStep ==
  ASSUME TypeInv, NEW w \in Workers, NEW e \in Execs, BeginRun(w, e) \/ TakeResume(w)
  PROVE  RowsKept /\ TypeInv' /\ StaysOwner(w)
<1>1. rows \in Rows /\ RestType
  BY TypeParts
<1>2. worker[w].pc = "claimed"
  BY DEF BeginRun, TakeResume, Processing
<1>3. /\ worker[w] \in CommittedRow
      /\ worker[w].task.item \in Items \cup {NoItem}
      /\ worker[w].task.exec \in Execs \cup {NoExec}
  BY <1>2, TaskParts
<1>4. CASE BeginRun(w, e)
  <2> DEFINE x == IF e \in Timed THEN "ahead" ELSE "unset"
             r == [worker[w] EXCEPT !.pc = "begun", !.exec = e, !.gen = 1]
  <2>1. rows' \in Rows /\ NoNewRun(rows, rows')
    <3>1. x \in Deadline
      BY DEF Deadline
    <3>2. rows' = Begin(rows, worker[w].task.item, e, x)
      BY <1>4 DEF BeginRun
    <3> HIDE DEF x
    <3> QED BY <1>1, <1>3, <3>1, <3>2, BeginLemma
  <2>2. r \in OwnedRow(worker[w].task)
    BY <1>2, <1>3, RowForms
  <2>3. Processing(w, "claimed") /\ Set(w, r) /\ faults' \in Nat
    BY <1>1, <1>4 DEF BeginRun, RestType
  <2> HIDE DEF r
  <2> QED BY <2>1, <2>2, <2>3, ProcessingStep DEF Owning, Pc
<1>5. CASE TakeResume(w)
  <2> DEFINE f == worker[w].task.exec
             r == [worker[w] EXCEPT !.pc = "begun", !.exec = f,
                                    !.gen = rows.exec[f].gen]
  <2>1. f \in Execs
    BY <1>3, <1>5 DEF TakeResume
  <2>2. rows' \in Rows /\ NoNewRun(rows, rows')
    BY <1>1, <1>5, <2>1, ClaimResumeLemma, SameItems DEF TakeResume
  <2>3. r \in OwnedRow(worker[w].task)
    <3>1. rows.exec[f].gen \in Nat
      BY <1>1, <2>1 DEF Rows, ExecRow
    <3> HIDE DEF f
    <3> QED BY <1>2, <1>3, <2>1, <3>1, RowForms
  <2>4. Processing(w, "claimed") /\ Set(w, r) /\ faults' \in Nat
    BY <1>1, <1>5 DEF TakeResume, RestType
  <2> HIDE DEF r
  <2> QED BY <2>2, <2>3, <2>4, ProcessingStep DEF Owning, Pc
<1> QED BY <1>4, <1>5

\* A processor that returns early may end a resume that has run out of time.
LEMMA RefuseStep ==
  ASSUME TypeInv, NEW w \in Workers, Refuse(w)
  PROVE  RowsKept /\ TypeInv' /\ StaysOwner(w)
<1> DEFINE t == worker[w].task
           r == [worker[w] EXCEPT !.pc = "returned", !.result = "error"]
<1>1. rows \in Rows /\ RestType
  BY TypeParts
<1>2. worker[w].pc = "claimed"
  BY DEF Refuse, Processing
<1>3. r \in OwnedRow(worker[w].task)
  BY <1>2, TaskParts, RowForms
<1>4. rows' \in Rows /\ NoNewRun(rows, rows')
  <2>1. CASE UNCHANGED rows
    BY <1>1, <2>1, SameItems
  <2>2. CASE ExpiresUnclaimed(w) /\ rows' = ExpirePending(rows, t.job, t.exec)
    <3>1. t.job \in Jobs /\ t.exec \in Execs
      BY <1>2, <2>2, TaskParts DEF ExpiresUnclaimed
    <3> QED BY <1>1, <2>2, <3>1, ExpirePendingLemma
  <2> QED BY <2>1, <2>2 DEF Refuse
<1>5. Processing(w, "claimed") /\ Set(w, r) /\ faults' \in Nat
  BY <1>1 DEF Refuse, Returned, RestType
<1> HIDE DEF r
<1> QED BY <1>3, <1>4, <1>5, ProcessingStep DEF Owning, Pc

\* Registration binds the execution or cancels it.
LEMMA RegisterStep ==
  ASSUME TypeInv, NEW w \in Workers, Register(w)
  PROVE  RowsKept /\ TypeInv' /\ StaysOwner(w)
<1> DEFINE t == worker[w].task
           e == worker[w].exec
           r == [worker[w] EXCEPT !.pc = "returned", !.result = "error"]
           b == [worker[w] EXCEPT !.pc = "working", !.bound = e]
<1>1. rows \in Rows /\ RestType
  BY TypeParts
<1>2. worker[w].pc = "begun"
  BY DEF Register, Processing
<1>3. /\ worker[w] \in CommittedRow /\ e \in Execs
      /\ t.job \in Jobs /\ t.item \in Items \cup {NoItem}
  BY <1>2, TaskParts
<1>4. r \in OwnedRow(worker[w].task) /\ b \in OwnedRow(worker[w].task)
  BY <1>2, <1>3, RowForms
<1>5. rows' \in Rows /\ NoNewRun(rows, rows')
  <2>1. rows' = rows \/ rows' = Cancel(rows, t.job, e)
        \/ (t.item # NoItem /\ rows' = BindExecution(rows, t.item, e))
    BY DEF Register
  <2>2. NoNewRun(rows, rows)
    BY SameItems
  <2>3. NoNewRun(rows, Cancel(rows, t.job, e)) /\ Cancel(rows, t.job, e) \in Rows
    BY <1>1, <1>3, CancelKeeps
  <2>4. t.item # NoItem => /\ NoNewRun(rows, BindExecution(rows, t.item, e))
                           /\ BindExecution(rows, t.item, e) \in Rows
    BY <1>1, <1>3, BindExecutionLemma
  <2> QED BY <1>1, <2>1, <2>2, <2>3, <2>4
<1>6. Processing(w, "begun") /\ (Set(w, r) \/ Set(w, b)) /\ faults' \in Nat
  BY <1>1 DEF Register, Returned, RestType
<1> HIDE DEF r, b
<1> QED BY <1>4, <1>5, <1>6, ProcessingStep DEF Owning, Pc

\* While it works a worker spends its budget and then has a result.
LEMMA WorkStep ==
  ASSUME TypeInv, NEW w \in Workers, SpendBudget(w) \/ Work(w)
  PROVE  RowsKept /\ TypeInv' /\ StaysOwner(w)
<1>1. rows \in Rows /\ RestType
  BY TypeParts
<1>2. worker[w].pc = "working"
  BY DEF SpendBudget, Work, Processing
<1>3. worker[w] \in CommittedRow /\ worker[w].exec \in Execs
  BY <1>2, TaskParts
<1>4. CASE SpendBudget(w)
  <2>1. rows' \in Rows /\ NoNewRun(rows, rows')
    <3>1. rows' = [rows EXCEPT !.exec[worker[w].exec].budget = "spent"]
      BY <1>4 DEF SpendBudget
    <3>2. rows' \in Rows /\ rows'.item = rows.item
      BY <1>1, <1>3, <3>1, SMTT(30) DEF Rows, ExecRow, Budget
    <3> QED BY <3>2, SameItems
  <2>2. Processing(w, "working") /\ worker' = worker /\ faults' \in Nat
    BY <1>1, <1>4 DEF SpendBudget, RestType
  <2>3. worker[w] \in OwnedRow(worker[w].task)
    BY <1>2, <1>3 DEF OwnedRow, Owning, Pc
  <2> QED BY <2>1, <2>2, <2>3, ProcessingStep DEF Owning, Pc
<1>5. CASE Work(w)
  <2>1. PICK x \in {"ok", "error", "cancelled"} :
          Set(w, [worker[w] EXCEPT !.pc = "publishing", !.result = x])
    BY <1>5 DEF Work
  <2> DEFINE r == [worker[w] EXCEPT !.pc = "publishing", !.result = x]
  <2>2. r \in OwnedRow(worker[w].task)
    BY <1>2, <1>3, RowForms
  <2>3. Processing(w, "working") /\ Set(w, r) /\ faults' \in Nat
    BY <1>1, <1>5, <2>1 DEF Work, RestType
  <2>4. rows' \in Rows /\ NoNewRun(rows, rows')
    BY <1>1, <1>5, SameItems DEF Work
  <2> HIDE DEF r
  <2> QED BY <2>2, <2>3, <2>4, ProcessingStep DEF Owning, Pc
<1> QED BY <1>4, <1>5

\* Publication ends the execution and its run, or changes nothing.
LEMMA PublishStep ==
  ASSUME TypeInv, NEW w \in Workers, Publish(w)
  PROVE  RowsKept /\ TypeInv' /\ StaysOwner(w)
<1> DEFINE j == worker[w].task.job
           e == worker[w].exec
           s == IF worker[w].result = "ok" THEN "completed" ELSE "failed"
           r(x) == [worker[w] EXCEPT !.pc = "returned", !.result = x]
<1>1. rows \in Rows /\ RestType
  BY TypeParts
<1>2. worker[w].pc = "publishing"
  BY DEF Publish, Processing
<1>3. worker[w] \in CommittedRow /\ e \in Execs /\ j \in Jobs
  BY <1>2, TaskParts
<1>4. rows' \in Rows /\ NoNewRun(rows, rows')
  <2>1. rows' = rows \/ rows' = Cancel(rows, j, e) \/ rows' = Finish(rows, j, e, s)
    BY DEF Publish
  <2>2. NoNewRun(rows, rows)
    BY SameItems
  <2>3. NoNewRun(rows, Cancel(rows, j, e)) /\ Cancel(rows, j, e) \in Rows
    BY <1>1, <1>3, CancelKeeps
  <2>4. NoNewRun(rows, Finish(rows, j, e, s)) /\ Finish(rows, j, e, s) \in Rows
    BY <1>1, <1>3, FinishLemma
  <2> QED BY <1>1, <2>1, <2>2, <2>3, <2>4
<1>5. PICK x \in {"none", "ok", "error", "cancelled"} : Set(w, r(x))
  <2>1. Set(w, r("error")) \/ Set(w, r(worker[w].result))
    BY DEF Publish, Returned
  <2>2. worker[w].result \in {"none", "ok", "error", "cancelled"}
    BY <1>3 DEF CommittedRow, WorkerRow
  <2> HIDE DEF r
  <2> QED BY <2>1, <2>2
<1>6. r(x) \in OwnedRow(worker[w].task)
  BY <1>2, <1>3, RowForms
<1>7. Processing(w, "publishing") /\ faults' \in Nat
  BY <1>1 DEF Publish, RestType
<1> HIDE DEF r
<1> QED BY <1>4, <1>5, <1>6, <1>7, ProcessingStep DEF Owning, Pc

\* Closing a run writes at most the recording's status.
LEMMA CloseStep ==
  ASSUME TypeInv, NEW w \in Workers, Close(w)
  PROVE  RowsKept /\ TypeInv' /\ StaysOwner(w)
<1> DEFINE j == worker[w].task.job
           r == [worker[w] EXCEPT !.pc = "closing", !.outcome = Outcome(w)]
<1>1. rows \in Rows /\ RestType
  BY TypeParts
<1>2. worker[w].pc = "returned"
  BY DEF Close
<1>3. worker[w] \in CommittedRow /\ j \in Jobs
  BY <1>2, TaskParts
<1>4. r \in OwnedRow(worker[w].task)
  <2>1. Outcome(w) \in {"completed", "failed", "cancelled"}
    BY DEF Outcome, Published
  <2> QED BY <1>2, <1>3, <2>1, RowForms
<1>5. rows' \in Rows /\ NoNewRun(rows, rows')
  <2>1. CASE rows' = rows
    BY <1>1, <2>1, SameItems
  <2>2. CASE rows' = SetJob(rows, j, JobOutcome(Outcome(w)))
    BY <1>1, <1>3, <2>2, SetJobLemma, SameItems, JobOutcomeType
  <2> QED BY <2>1, <2>2 DEF Close, ClosedRows
<1>6. Set(w, r)
  BY DEF Close
<1>7. worker' \in [Workers -> CommittedRow]
  <2> HIDE DEF r
  <2> QED BY <1>4, <1>6, SetType DEF OwnedRow
<1>8. TypeInv'
  BY <1>1, <1>5, <1>7, TypeParts DEF Close, RestType, DispatchType
<1>9. StaysOwner(w)
  <2> HIDE DEF r
  <2>1. running' = running /\ phase' = phase
    BY DEF Close
  <2> QED BY <1>2, <1>4, <1>6, <2>1 DEF StaysOwner, Owning, Pc
<1> QED BY <1>5, <1>8, <1>9, NoNewRunKeeps

\* Releasing a recording ends its run and may promote the next one.
LEMMA ReleaseStep ==
  ASSUME TypeInv, NEW w \in Workers, Release(w)
  PROVE  RowsKept /\ TypeInv'
<1> DEFINE t == worker[w].task
           j == t.job
           c == Finalize(rows, j, t.item, worker[w].outcome, worker[w].bound)
<1>1. rows \in Rows /\ RestType /\ DispatchType
  BY TypeParts
<1>2. worker[w].pc = "closing"
  BY DEF Release
<1>3. /\ j \in Jobs /\ t.item \in Items \cup {NoItem}
      /\ worker[w].bound \in Execs \cup {NoExec}
      /\ worker[w].outcome \in ItemStatus \ Live
  BY <1>2, TaskParts DEF ItemStatus, Live, ActiveStatus
<1>4. c \in Rows /\ NoNewRun(rows, c)
  BY <1>1, <1>3, FinalizeLemma
<1>5. RowsKept /\ DispatchType'
  <2>1. Advance(c, j, FALSE, j \in protected) \/ Advance(rows, j, FALSE, j \in protected)
    BY DEF Release
  <2> HIDE DEF c
  <2>2. NoNewRun(rows, rows)
    BY SameItems
  <2> QED BY <1>1, <1>3, <1>4, <2>1, <2>2, AdvanceKeeps
<1>6. worker' \in [Workers -> CommittedRow]
  BY SetType, WorkerRows DEF Release
<1>7. RestType'
  <2>1. running' \in [Jobs -> Workers \cup {0}] /\ lock' \in Workers \cup {Free}
    BY <1>1, <1>3 DEF Release, RestType
  <2>2. faults' \in Nat
    <3>1. faults' = faults \/ faults' = faults + 1
      BY DEF Release
    <3> QED BY <1>1, <3>1 DEF RestType
  <2> QED BY <1>1, <2>1, <2>2 DEF Release, RestType
<1> QED BY <1>5, <1>6, <1>7, TypeParts DEF RowsKept

\* A worker that exits at shutdown leaves what it held to the restart.
LEMMA ExitStep ==
  ASSUME TypeInv, NEW w \in Workers, WorkerExit(w)
  PROVE  RowsKept /\ TypeInv'
<1>1. worker' \in [Workers -> CommittedRow]
  BY SetType, WorkerRows DEF WorkerExit
<1>2. TypeInv'
  BY <1>1, TypeParts DEF WorkerExit, RestType, DispatchType
<1> QED BY <1>2, SameRows DEF WorkerExit

\* All steps of a worker.
LEMMA WorkerStepKeeps ==
  ASSUME TypeInv, NEW w \in Workers, WorkerStep(w) \/ SpendBudget(w)
  PROVE  RowsKept /\ TypeInv'
<1>1. CASE Receive(w)
  BY <1>1, ReceiveStep
<1>2. CASE Claim(w)
  BY <1>2, ClaimStep
<1>3. CASE TakeResume(w)
  <2>1. worker[w].task.exec \in Execs
    BY <1>3, TaskParts DEF TakeResume, Processing
  <2> QED BY <1>3, <2>1, BeginStep
<1>4. CASE Refuse(w)
  BY <1>4, RefuseStep
<1>5. CASE Register(w)
  BY <1>5, RegisterStep
<1>6. CASE \E e \in Execs : BeginRun(w, e)
  BY <1>6, BeginStep
<1>7. CASE Work(w) \/ SpendBudget(w)
  BY <1>7, WorkStep
<1>8. CASE Publish(w)
  BY <1>8, PublishStep
<1>9. CASE Close(w)
  BY <1>9, CloseStep
<1>10. CASE Release(w)
  BY <1>10, ReleaseStep
<1>11. CASE WorkerExit(w)
  BY <1>11, ExitStep
<1> QED BY <1>1, <1>2, <1>3, <1>4, <1>5, <1>6, <1>7, <1>8, <1>9, <1>10, <1>11
        DEF WorkerStep

-----------------------------------------------------------------------------
(* The reconciler.                                                         *)

\* A repair ends at most the run that has no owner.
LEMMA RepairsLemma ==
  ASSUME rows \in Rows, NEW j \in Jobs, NEW d \in Repairs(j)
  PROVE  d \in Rows /\ NoNewRun(rows, d)
<1> DEFINE orphans == ItemsIn(rows, j, {"processing"})
           i == CHOOSE x \in orphans : TRUE
           b == Unclaimed(rows, j)
           e == rows.item[i].exec
<1>1. b \in Rows /\ NoNewRun(rows, b)
  <2>1. SetJob(rows, j, "failed") \in Rows /\ SetJob(rows, j, "failed").item = rows.item
    BY SetJobLemma DEF JobStatus
  <2>2. /\ FailProcessing(SetJob(rows, j, "failed"), j) \in Rows
        /\ FailProcessing(SetJob(rows, j, "failed"), j).item = rows.item
    BY <2>1, FailProcessingLemma
  <2> QED BY <2>2, SameItems DEF Unclaimed
<1>2. CASE d = rows
  BY <1>2, SameItems
<1>3. CASE d = b
  BY <1>1, <1>3
<1>4. CASE /\ orphans # {}
           /\ d \in {Finalize(b, j, i, s, e) : s \in OrphanOutcomes(rows, j, i)}
  <2>1. i \in Items
    BY <1>4 DEF ItemsIn
  <2>2. e \in Execs \cup {NoExec}
    <3> HIDE DEF i
    <3> QED BY <2>1 DEF Rows, ItemRow
  <2>3. PICK s \in OrphanOutcomes(rows, j, i) : d = Finalize(b, j, i, s, e)
    BY <1>4
  <2>4. s \in ItemStatus \ Live
    <3>1. s \in {"completed", "failed", "cancelled"}
      <4> HIDE DEF i
      <4> QED BY DEF OrphanOutcomes
    <3> QED BY <3>1 DEF ItemStatus, Live, ActiveStatus
  <2>5. d \in Rows /\ NoNewRun(b, d)
    <3> HIDE DEF b, i, e
    <3> QED BY <1>1, <2>1, <2>2, <2>3, <2>4, FinalizeLemma
  <2> QED BY <1>1, <2>5, NoNewRunTransitive
<1> HIDE DEF b
<1> QED BY <1>2, <1>3, <1>4 DEF Repairs, b

\* A pass over one recording repairs it, then promotes or dispatches.
LEMMA ReconcileStep ==
  ASSUME TypeInv, NEW j \in Jobs, Reconcile(j)
  PROVE  RowsKept /\ TypeInv'
<1>1. rows \in Rows /\ RestType /\ DispatchType /\ worker \in [Workers -> CommittedRow]
  BY TypeParts
<1>2. CASE KeepsRecovery(j)
  <2>1. TypeInv'
    BY <1>1, <1>2, TypeParts DEF Reconcile, RestType, DispatchType
  <2> QED BY <1>2, <2>1, SameRows DEF Reconcile
<1>3. CASE ~KeepsRecovery(j)
  <2>1. PICK d \in Repairs(j) : Redispatch(d, j)
    BY <1>3 DEF Reconcile
  <2>2. d \in Rows /\ NoNewRun(rows, d)
    BY <1>1, RepairsLemma
  <2>3. RowsKept /\ DispatchType'
    <3>1. CASE Advance(d, j, FALSE, FALSE)
      BY <1>1, <2>2, <3>1, AdvanceKeeps
    <3>2. CASE rows' = d /\ UNCHANGED <<channel, scheduled>>
      BY <1>1, <2>2, <3>2, NoNewRunKeeps DEF DispatchType
    <3>3. CASE /\ rows' = d /\ PendingTask(d, j) # NoTask
               /\ Enqueue(PendingTask(d, j))
      <4>1. PendingTask(d, j) \in Task
        BY <2>2, <3>3, PendingTaskType
      <4> QED BY <1>1, <2>2, <3>3, <4>1, EnqueueType, NoNewRunKeeps
    <3> QED BY <2>1, <3>1, <3>2, <3>3 DEF Redispatch
  <2>4. RestType' /\ worker' \in [Workers -> CommittedRow]
    BY <1>1, <1>3 DEF Reconcile, RestType
  <2> QED BY <2>3, <2>4, TypeParts DEF RowsKept
<1> QED BY <1>2, <1>3

-----------------------------------------------------------------------------
(* The server process.                                                     *)

\* Startup repair writes executions and recordings before it promotes.
LEMMA RepairStep ==
  ASSUME TypeInv, Recover \/ ResetZombieJobs
  PROVE  RowsKept /\ TypeInv'
<1>1. rows \in Rows /\ RestType
  BY TypeParts
<1>2. CASE Recover
  <2>1. rows' \in Rows /\ NoNewRun(rows, rows')
    <3>1. rows' = rows \/ rows' = InterruptAll(rows)
      BY <1>2 DEF Recover
    <3> QED BY <1>1, <3>1, InterruptAllLemma, SameItems
  <2>2. protected' \in SUBSET Jobs /\ phase' \in Phase
    BY <1>1, <1>2 DEF Recover, RestType, UnresolvedJobs, Phase
  <2>3. TypeInv'
    BY <1>1, <1>2, <2>1, <2>2, TypeParts DEF Recover, unstarted, RestType, DispatchType
  <2> QED BY <2>1, <2>3, NoNewRunKeeps
<1>3. CASE ResetZombieJobs
  <2> DEFINE zombies == {j \in Jobs : rows.job[j] = "processing"} \ protected
             x == [j \in Jobs |-> IF j \in zombies THEN "failed" ELSE rows.job[j]]
             y == [e \in Execs |-> IF JobOf[e] \in zombies
                                      /\ rows.exec[e].status = "processing"
                                   THEN [rows.exec[e] EXCEPT !.status = "failed"]
                                   ELSE rows.exec[e]]
  <2>1. x \in [Jobs -> JobStatus] /\ y \in [Execs -> ExecRow]
    <3> HIDE DEF zombies
    <3> QED BY <1>1 DEF Rows, JobStatus, ExecRow, ExecStatus
  <2>2. rows' = [rows EXCEPT !.job = x, !.exec = y]
    BY <1>3 DEF ResetZombieJobs
  <2>3. rows' \in Rows /\ rows'.item = rows.item
    <3> HIDE DEF x, y
    <3> QED BY <1>1, <2>1, <2>2 DEF Rows
  <2>4. TypeInv'
    BY <1>1, <1>3, <2>3, TypeParts
       DEF ResetZombieJobs, unstarted, RestType, DispatchType, Phase
  <2> QED BY <2>3, <2>4, SameItems, NoNewRunKeeps
<1> QED BY <1>2, <1>3

\* Every recording that promotion serves gets its first waiting run, which is
\* then its only active one; the others are left alone.
LEMMA PromotedAllLemma ==
  ASSUME NEW d \in Rows
  PROVE  /\ PromotedAll(d) \in Rows
         /\ NoneEnters(d, PromotedAll(d), Live)
         /\ SingleActive(d) => SingleActive(PromotedAll(d))
<1> DEFINE next == {j \in Jobs : Promotable(d, j) /\ j \notin protected}
           c == PromotedAll(d)
           x == [j \in Jobs |-> IF j \in next THEN PromoteNext(d, j).job[j] ELSE d.job[j]]
           y == [i \in Items |-> IF JobOf[i] \in next
                                 THEN PromoteNext(d, JobOf[i]).item[i] ELSE d.item[i]]
<1>1. \A j \in next : /\ PromoteNext(d, j) \in Rows
                      /\ NoneEnters(d, PromoteNext(d, j), Live)
                      /\ SingleActive(d) => SingleActive(PromoteNext(d, j))
  BY PromoteNextLemma, PromoteNextSingle
<1>2. c = [d EXCEPT !.job = x, !.item = y]
  BY DEF PromotedAll
<1>3. x \in [Jobs -> JobStatus] /\ y \in [Items -> ItemRow]
  <2> HIDE DEF next
  <2> QED BY <1>1 DEF Rows
<1>4. c \in Rows /\ c.item = y
  <2> HIDE DEF c, x, y
  <2> QED BY <1>2, <1>3 DEF Rows
<1>5. NoneEnters(d, c, Live)
  <2> HIDE DEF c, next
  <2> QED BY <1>1, <1>4 DEF NoneEnters
<1>6. ASSUME SingleActive(d) PROVE SingleActive(c)
  <2> SUFFICES ASSUME NEW k \in Jobs, NEW a \in ActiveItems(c, k),
                      NEW b \in ActiveItems(c, k)
               PROVE  a = b
    BY DEF SingleActive
  <2> HIDE DEF c, next
  <2>1. CASE k \in next
    <3>1. a \in ActiveItems(PromoteNext(d, k), k) /\ b \in ActiveItems(PromoteNext(d, k), k)
      BY <1>4, <2>1 DEF ActiveItems, ItemsIn
    <3> QED BY <1>1, <1>6, <2>1, <3>1 DEF SingleActive
  <2>2. CASE k \notin next
    <3>1. a \in ActiveItems(d, k) /\ b \in ActiveItems(d, k)
      BY <1>4, <2>2 DEF ActiveItems, ItemsIn
    <3> QED BY <1>6, <3>1 DEF SingleActive
  <2> QED BY <2>1, <2>2
<1> QED BY <1>4, <1>5, <1>6

\* Launch promotes, starts the workers and fills the channel.
LEMMA LaunchStep ==
  ASSUME TypeInv, Launch
  PROVE  RowsKept /\ TypeInv'
<1> DEFINE b == FailInterruptedExcept(rows, protected)
           d == PromotedAll(b)
           S == {k \in Jobs \ protected : d.job[k] = "pending"}
           tasks == {PendingTask(d, j) : j \in S} \ {NoTask}
           n == IF Cardinality(tasks) <= Capacity THEN Cardinality(tasks) ELSE Capacity
<1>1. rows \in Rows /\ RestType
  BY TypeParts
<1>2. b \in Rows /\ NoNewRun(rows, b)
  BY <1>1, FailInterruptedExceptLemma
<1>3. /\ d \in Rows /\ NoneEnters(b, d, Live)
      /\ SingleActive(b) => SingleActive(d)
  <2> HIDE DEF b
  <2> QED BY <1>2, PromotedAllLemma
<1>4. rows' = d
  BY DEF Launch
<1>5. RowsKept
  <2> HIDE DEF b, d
  <2>1. SingleActive(rows) => SingleActive(b)
    BY <1>2, SingleActiveKept DEF NoNewRun
  <2>2. NoneEnters(rows, d, Live)
    BY <1>2, <1>3 DEF NoNewRun, NoneEnters
  <2> QED BY <1>3, <1>4, <2>1, <2>2, NonTerminalKept DEF RowsKept
<1>6. tasks \in SUBSET Task /\ IsFiniteSet(tasks)
  <2> HIDE DEF b, d
  <2>1. \A j \in S : PendingTask(d, j) \in Task \cup {NoTask}
    BY <1>3, PendingTaskType
  <2>2. IsFiniteSet(S)
    <3>1. S \in SUBSET Jobs
      OBVIOUS
    <3> HIDE DEF S
    <3> QED BY <3>1, FS_Subset, IdAssumption
  <2> DEFINE T == {PendingTask(d, j) : j \in S}
             f == [j \in S |-> PendingTask(d, j)]
  <2>3. f \in Surjection(S, T)
    BY DEF Surjection
  <2>4. IsFiniteSet(T)
    <3> HIDE DEF S, T, f
    <3> QED BY <2>2, <2>3, FS_Surjection
  <2>5. IsFiniteSet(tasks)
    <3>1. tasks \in SUBSET T
      OBVIOUS
    <3> HIDE DEF tasks, T
    <3> QED BY <2>4, <3>1, FS_Subset
  <2> QED BY <2>1, <2>5
<1>7. n \in Nat /\ n <= Capacity
  <2> HIDE DEF tasks
  <2>1. Cardinality(tasks) \in Nat /\ Capacity \in Nat
    BY <1>6, FS_CardinalityType, QueueAssumption
  <2> QED BY <2>1
<1>8. DispatchType'
  <2>1. PICK order \in [1..n -> tasks] :
          channel' = order /\ scheduled' = {order[p] : p \in 1..n}
    BY DEF Launch
  <2> HIDE DEF tasks, n
  <2>2. order \in [1..n -> Task] /\ {order[p] : p \in 1..n} \in SUBSET Task
    BY <1>6
  <2>3. order \in Seq(Task) /\ Len(order) = n
    BY <1>7, <2>2
  <2> QED BY <1>7, <2>1, <2>2, <2>3 DEF DispatchType
<1>9. worker' \in [Workers -> CommittedRow]
  BY WorkerRows DEF Launch
<1>10. TypeInv'
  <2>1. rows' \in Rows
    BY <1>5 DEF RowsKept
  <2>2. RestType'
    BY <1>1 DEF Launch, RestType, Phase
  <2> QED BY <1>8, <1>9, <2>1, <2>2, TypeParts
<1> QED BY <1>5, <1>10

\* The process ends, orderly or not, and its memory with it.
LEMMA EndStep ==
  ASSUME TypeInv, Crash \/ Drain \/ Halt
  PROVE  RowsKept /\ TypeInv'
<1>1. rows \in Rows /\ RestType /\ UNCHANGED rows
  BY TypeParts DEF Crash, Drain, Halt, Forget
<1>2. CASE Drain
  <2>1. TypeInv'
    BY <1>1, <1>2, TypeParts DEF Drain, memory, RestType, DispatchType, Phase
  <2> QED BY <1>1, <2>1, SameRows
<1>3. CASE Crash \/ Halt
  <2>1. Forget /\ restarts' \in Nat /\ faults' \in Nat
    BY <1>1, <1>3 DEF Crash, Halt, RestType
  <2>2. DispatchType'
    BY <2>1, QueueAssumption DEF Forget, DispatchType
  <2>3. worker' \in [Workers -> CommittedRow]
    BY <2>1, WorkerRows DEF Forget
  <2>4. RestType'
    BY <1>1, <2>1 DEF Forget, RestType, Phase
  <2> QED BY <1>1, <2>2, <2>3, <2>4, SameRows, TypeParts
<1> QED BY <1>2, <1>3

\* A deadline passes.
LEMMA DeadlineStep ==
  ASSUME TypeInv, NEW e \in Execs, DeadlinePasses(e)
  PROVE  RowsKept /\ TypeInv'
<1>1. rows \in Rows
  BY TypeParts
<1> DEFINE r == [rows.exec[e] EXCEPT !.deadline = "past"]
<1>2. r \in ExecRow
  BY <1>1 DEF Rows, ExecRow, Deadline
<1>3. rows' = [rows EXCEPT !.exec[e] = r]
  BY <1>1 DEF DeadlinePasses, Rows, ExecRow
<1> HIDE DEF r
<1>4. rows' \in Rows /\ rows'.item = rows.item
  BY <1>1, <1>2, <1>3 DEF Rows
<1>5. TypeInv'
  BY <1>4, TypeParts DEF DeadlinePasses, memory, RestType, DispatchType
<1> QED BY <1>4, <1>5, SameItems, NoNewRunKeeps

-----------------------------------------------------------------------------
(* All steps.                                                              *)

\* The server starts with an uploaded library and nothing running.
LEMMA InitType == Init => TypeInv
<1> SUFFICES ASSUME Init PROVE TypeInv
  OBVIOUS
<1>1. InitRows \in Rows
  <2>1. [i \in Items |-> [status |-> "none", pos |-> 0, exec |-> NoExec]]
          \in [Items -> ItemRow]
    BY DEF ItemRow, ItemStatus
  <2>2. [e \in Execs |-> [item |-> NoItem, gen |-> 0, state |-> "none",
                          status |-> "none", deadline |-> "unset", budget |-> "left"]]
          \in [Execs -> ExecRow]
    BY DEF ExecRow, ExecState, ExecStatus, Deadline, Budget
  <2>3. [j \in Jobs |-> "uploaded"] \in [Jobs -> JobStatus]
    BY DEF JobStatus
  <2> QED BY <2>1, <2>2, <2>3 DEF InitRows, Rows
<1>2. /\ channel \in Seq(Task) /\ Len(channel) <= Capacity
      /\ scheduled \in SUBSET Task
  BY QueueAssumption DEF Init
<1>3. worker \in [Workers -> CommittedRow] /\ worker \in [Workers -> WorkerRow]
  BY WorkerRows DEF Init
<1>4. 1 \in Workers
  BY QueueAssumption DEF Workers
<1> QED BY <1>1, <1>2, <1>3, <1>4 DEF Init, TypeInv, TypeOK, Phase

\* What every request keeps.
LEMMA RequestStep ==
  ASSUME TypeInv, Requests
  PROVE  RowsKept /\ TypeInv'
<1>1. CASE \E j \in Jobs, i \in Items : AddRun(j, i)
  BY <1>1, AddRunStep
<1>2. CASE \E j \in Jobs : ReorderRuns(j) \/ ClearRuns(j)
  <2>1. CASE \E j \in Jobs : ReorderRuns(j)
    BY <2>1, ReorderQueuedLemma, EditLineStep, TypeParts DEF ReorderRuns
  <2>2. CASE \E j \in Jobs : ClearRuns(j)
    BY <2>2, ClearQueuedLemma, EditLineStep, TypeParts DEF ClearRuns
  <2> QED BY <1>2, <2>1, <2>2
<1>3. CASE \E j \in Jobs : ReserveJobDeletion(j) \/ DeleteJob(j) \/ ReleaseDeletion(j)
  BY <1>3, DeletionStep
<1>4. CASE \E i \in Items : CancelRun(i)
  BY <1>4, CancelQueuedLemma, EditLineStep, TypeParts DEF CancelRun
<1>5. CASE \E n \in Workers : SetWorkers(n)
  BY <1>5, SetWorkersStep
<1>6. CASE \E r \in StopRequest : RequestStop(r) \/ Stop(r)
  BY <1>6, StopStep
<1>7. CASE \E j \in Jobs, e \in Execs : ResumeExecution(j, e)
  BY <1>7, ResumeStep
<1>8. CASE \E j \in Jobs : \/ StartImmediateRun(j) \/ RenameRead(j) \/ RenameSave(j)
                           \/ AutoStartSave(j) \/ AutoStartEnqueue(j)
  BY <1>8, StatusStep
<1> QED BY <1>1, <1>2, <1>3, <1>4, <1>5, <1>6, <1>7, <1>8, QueueAssumption DEF Requests

\* What every step keeps.
LEMMA NextStep ==
  ASSUME TypeInv, [Next]_vars
  PROVE  RowsKept /\ TypeInv'
<1>1. CASE Requests
  BY <1>1, RequestStep
<1>2. CASE \E w \in Workers : WorkerStep(w) \/ SpendBudget(w)
  BY <1>2, WorkerStepKeeps
<1>3. CASE \E j \in Jobs : Reconcile(j)
  BY <1>3, ReconcileStep
<1>4. CASE Process
  BY <1>4, RepairStep, LaunchStep, EndStep DEF Process
<1>5. CASE \E e \in Execs : DeadlinePasses(e)
  BY <1>5, DeadlineStep
<1>6. CASE UNCHANGED vars
  <2>1. TypeInv'
    BY <1>6 DEF vars, memory, TypeInv, TypeOK
  <2> QED BY <1>6, <2>1, SameRows DEF vars
<1> QED BY <1>1, <1>2, <1>3, <1>4, <1>5, <1>6 DEF Next

-----------------------------------------------------------------------------
(* The theorems.                                                           *)

\* TypeInv is inductive.
LEMMA TypeInvariant == Spec => []TypeInv
<1>1. TypeInv /\ [Next]_vars => TypeInv'
  BY NextStep
<1> QED BY InitType, <1>1, PTL DEF Spec

\* The state of the queue keeps its shape: in particular the dispatch channel
\* never holds more entries than it has room for, whatever is enqueued, dropped
\* and recovered (enqueueTask, recoverPendingJobs).
THEOREM TypeCorrect == Spec => []TypeOK
<1>1. TypeInv => TypeOK
  BY DEF TypeInv
<1> QED BY TypeInvariant, <1>1, PTL

\* A recording never has two runs admitted or in progress at once, whatever
\* promotions, resumes, stops, repairs and restarts interleave (PromoteNext,
\* RequestResume, reconcileSequentialRuns, recoverSequentialRuns).
THEOREM ActiveRunIsSingle == Spec => []OneActiveRun
<1>1. Init => OneActiveRun
  BY DEF Init, InitRows, OneActiveRun, ActiveItems, ItemsIn, ActiveStatus
<1>2. TypeInv /\ OneActiveRun /\ [Next]_vars => OneActiveRun'
  BY NextStep DEF RowsKept, SingleActive, OneActiveRun
<1> QED BY <1>1, <1>2, TypeInvariant, PTL DEF Spec

-----------------------------------------------------------------------------
(* Ownership.                                                              *)

\* Between processes there are no workers and no owners: a process starts with
\* none, and SetWorkers starts none before Launch does.
Quiet ==
  phase \in {"down", "recovered", "repaired", "blocked"} =>
    /\ \A w \in Workers : worker[w].pc = "off"
    /\ \A j \in Jobs : running[j] = 0

OwnerInv == OneOwner /\ Quiet

\* A step that neither claims nor releases: every worker keeps its task while
\* it owns it, none becomes or ceases to be an owner, and none starts unless
\* the process is up.
KeepsOwners ==
  /\ running' = running
  /\ \A w \in Workers :
       /\ worker'[w].pc \in Owning <=> worker[w].pc \in Owning
       /\ worker[w].pc \in Owning => worker'[w].task = worker[w].task
       /\ worker[w].pc = "holding" => worker'[w].pc # "claimed"
  /\ Quiet'

\* Which is all that ownership needs.
LEMMA KeepsOwnersKeeps ==
  ASSUME TypeInv, OneOwner, KeepsOwners
  PROVE  OwnerInv'
<1>1. \A w \in Workers : worker'[w].pc \in Owning => running'[worker'[w].task.job] = w
  BY DEF OneOwner, KeepsOwners
<1>2. ASSUME NEW j \in Jobs, running'[j] # 0
      PROVE  worker'[running'[j]].pc \in Owning /\ worker'[running'[j]].task.job = j
  <2>1. running[j] \in Workers
    BY <1>2, TypeParts DEF KeepsOwners, RestType
  <2> QED BY <1>2, <2>1 DEF OneOwner, Owned, KeepsOwners
<1> QED BY <1>1, <1>2 DEF OwnerInv, OneOwner, Owned, KeepsOwners

\* A step that leaves workers, owners and the phase alone.
LEMMA SameOwners ==
  ASSUME Quiet, UNCHANGED <<worker, running, phase>>
  PROVE  KeepsOwners
BY DEF Quiet, KeepsOwners

\* One worker moves on, between two places that both own or both do not.
LEMMA MovesOn ==
  ASSUME TypeInv, NEW w \in Workers, NEW r \in CommittedRow, Set(w, r), running' = running,
         r.pc \in Owning <=> worker[w].pc \in Owning,
         worker[w].pc \in Owning => r.task = worker[w].task,
         worker[w].pc = "holding" => r.pc # "claimed",
         Quiet'
  PROVE  KeepsOwners
BY TypeParts DEF Set, KeepsOwners

\* No request changes who owns what.
LEMMA RequestOwners ==
  ASSUME TypeInv, OwnerInv, Requests
  PROVE  KeepsOwners
<1>1. CASE UNCHANGED <<worker, running, phase>>
  BY <1>1, SameOwners DEF OwnerInv
<1>2. ASSUME NEW n \in Workers, SetWorkers(n) PROVE KeepsOwners
  <2>1. running' = running /\ phase' = phase /\ worker' = Grown(n)
    BY <1>2 DEF SetWorkers
  <2>2. \A w \in Workers : \/ worker'[w] = worker[w]
                           \/ phase = "up" /\ worker[w].pc = "off" /\ worker'[w] = IdleWorker
    BY <2>1 DEF Grown
  <2> QED BY <2>1, <2>2 DEF OwnerInv, Quiet, KeepsOwners, IdleWorker, OffWorker, Owning
<1>3. ASSUME NEW r \in StopRequest, KillRunning(r) PROVE KeepsOwners
  <2>1. running' = running /\ phase' = phase
    BY <1>3 DEF KillRunning, StopHandled
  <2> DEFINE v == running[r.job]
             b == worker[v].stopped \/ ~TimedOut(v)
             x == [worker[v] EXCEPT !.stopped = b]
  <2>2. v \in Workers
    BY <1>3, TypeParts DEF KillRunning, Owned, StopRequest, RestType
  <2>3. worker' = worker \/ worker' = [worker EXCEPT ![v] = x]
    BY <1>3 DEF KillRunning
  <2>4. worker[v] \in CommittedRow
    BY <2>2, TypeParts
  <2>5. x.pc = worker[v].pc /\ x.task = worker[v].task
    <3> HIDE DEF b, v
    <3> QED BY <2>4 DEF CommittedRow, WorkerRow
  <2> HIDE DEF x, b, v
  <2>6. \A w \in Workers : worker'[w].pc = worker[w].pc /\ worker'[w].task = worker[w].task
    BY <2>2, <2>3, <2>5, TypeParts
  <2> QED BY <2>1, <2>6 DEF OwnerInv, Quiet, KeepsOwners
<1>4. Requests => \/ UNCHANGED <<worker, running, phase>>
                  \/ \E n \in Workers : SetWorkers(n)
                  \/ \E r \in StopRequest : KillRunning(r)
  BY ZenonT(60) DEF Requests, AddRun, ReorderRuns, ClearRuns, EditLine, CancelRun,
         ReserveJobDeletion, DeleteJob, ReleaseDeletion, RequestStop, Stop,
         KillPersisted, StopHandled, ResumeExecution, StartImmediateRun,
         RenameRead, RenameSave, AutoStartSave, AutoStartEnqueue, quiet
<1> QED BY <1>1, <1>2, <1>3, <1>4

\* Only a claim and a release change who owns what: everything between them
\* happens within one owner.
LEMMA WorkerOwners ==
  ASSUME TypeInv, OwnerInv, NEW w \in Workers, WorkerStep(w) \/ SpendBudget(w)
  PROVE  KeepsOwners \/ Claim(w) \/ Release(w)
<1> SUFFICES ASSUME ~Claim(w), ~Release(w) PROVE KeepsOwners
  OBVIOUS
<1>1. worker[w].pc # "off" /\ phase' = phase /\ running' = running
  BY DEF WorkerStep, Receive, TakeResume, Refuse, Register, BeginRun, Work,
         Publish, Close, WorkerExit, SpendBudget, Processing
<1>2. Quiet'
  BY <1>1 DEF OwnerInv, Quiet
<1>3. CASE worker' = worker
  BY <1>1, <1>3, SameOwners DEF OwnerInv
<1>4. CASE Receive(w)
  <2>1. PICK s \in JobStatus, t \in Task :
          \/ worker' = worker
          \/ Set(w, [IdleWorker EXCEPT !.pc = "holding", !.task = t, !.seen = s])
    <3>1. Head(channel) \in Task
      BY <1>4, TypeParts DEF Receive, DispatchType
    <3>2. rows.job[Head(channel).job] \in JobStatus
      <4>1. Head(channel).job \in Jobs
        BY <3>1 DEF Task
      <4> QED BY <4>1, TypeParts DEF Rows
    <3> QED BY <1>4, <3>1, <3>2 DEF Receive
  <2> DEFINE r == [IdleWorker EXCEPT !.pc = "holding", !.task = t, !.seen = s]
  <2>2. r \in CommittedRow /\ r.pc = "holding"
    <3>1. r.pc = "holding"
      BY DEF IdleWorker, OffWorker
    <3> QED BY <3>1, HoldingRow
  <2>3. worker[w].pc = "idle"
    BY <1>4 DEF Receive
  <2> HIDE DEF r
  <2> QED BY <1>1, <1>2, <1>3, <2>1, <2>2, <2>3, MovesOn DEF r, Owning
<1>5. CASE WorkerExit(w)
  <2>1. worker[w].pc \in {"idle", "holding"} /\ Set(w, OffWorker)
    BY <1>5 DEF WorkerExit
  <2>2. OffWorker \in CommittedRow /\ OffWorker.pc = "off"
    BY WorkerRows DEF OffWorker
  <2> QED BY <1>1, <1>2, <2>1, <2>2, MovesOn DEF Owning
<1>6. CASE StaysOwner(w)
  BY <1>2, <1>3, <1>6, MovesOn DEF StaysOwner, OwnedRow, Owning
<1>7. CASE TakeResume(w)
  <2>1. worker[w].task.exec \in Execs
    BY <1>7, TaskParts DEF TakeResume, Processing
  <2> QED BY <1>6, <1>7, <2>1, BeginStep
<1>8. CASE \E e \in Execs : BeginRun(w, e)
  BY <1>6, <1>8, BeginStep
<1>9. CASE \/ Refuse(w) \/ Register(w) \/ Work(w) \/ SpendBudget(w)
           \/ Publish(w) \/ Close(w)
  BY <1>6, <1>9, RefuseStep, RegisterStep, WorkStep, PublishStep, CloseStep
<1> QED BY <1>4, <1>5, <1>7, <1>8, <1>9 DEF WorkerStep

\* A claim makes a worker the owner of a recording nobody owns; a task it
\* cannot claim it gives up.
LEMMA ClaimOwners ==
  ASSUME TypeInv, OwnerInv, NEW w \in Workers, Claim(w)
  PROVE  OwnerInv'
<1> DEFINE t == worker[w].task
           j == t.job
           r == [worker[w] EXCEPT !.pc = "claimed", !.bound = t.exec]
<1>1. /\ worker[w].pc = "holding" /\ phase = "up" /\ phase' = phase
      /\ worker[w] \in CommittedRow /\ j \in Jobs /\ t.exec \in Execs \cup {NoExec}
  <2>1. worker[w].pc = "holding" /\ phase = "up" /\ phase' = phase
    BY DEF Claim
  <2> QED BY <2>1, TaskParts
<1>2. Quiet'
  BY <1>1 DEF Quiet
<1>3. CASE ~Takes(w)
  <2>1. Set(w, IdleWorker) /\ running' = running
    BY <1>3 DEF Claim, Drop
  <2>2. IdleWorker \in CommittedRow /\ IdleWorker.pc = "idle"
    BY WorkerRows DEF IdleWorker, OffWorker
  <2> QED BY <1>1, <1>2, <2>1, <2>2, MovesOn, KeepsOwnersKeeps DEF OwnerInv, Owning
<1>4. CASE Takes(w)
  <2>1. Set(w, r) /\ running' = [running EXCEPT ![j] = w] /\ running[j] = 0
    BY <1>4 DEF Claim, Takes, Owned
  <2>2. r \in OwnedRow(t)
    BY <1>1, RowForms
  <2>3. /\ worker' = [worker EXCEPT ![w] = r] /\ r.pc \in Owning /\ r.task = t
        /\ w # 0
    <3>1. w # 0
      BY QueueAssumption DEF Workers
    <3> HIDE DEF r
    <3> QED BY <2>1, <2>2, <3>1 DEF Set, OwnedRow
  <2>4. worker[w].pc \notin Owning
    BY <1>1 DEF Owning
  <2> HIDE DEF r
  <2>5. OneOwner'
    <3>1. ASSUME NEW v \in Workers, worker'[v].pc \in Owning
          PROVE  running'[worker'[v].task.job] = v
      <4>1. CASE v = w
        BY <1>1, <2>1, <2>3, <4>1, TypeParts DEF RestType
      <4>2. CASE v # w
        <5>1. worker'[v] = worker[v] /\ worker[v].pc \in Owning
          BY <2>3, <3>1, <4>2, TypeParts
        <5>2. running[worker[v].task.job] = v /\ worker[v].task.job \in Jobs
          BY <5>1, TaskParts DEF OwnerInv, OneOwner, Owning
        <5> QED BY <2>1, <5>1, <5>2, TypeParts DEF RestType, Workers
      <4> QED BY <4>1, <4>2
    <3>2. ASSUME NEW k \in Jobs, running'[k] # 0
          PROVE  worker'[running'[k]].pc \in Owning /\ worker'[running'[k]].task.job = k
      <4>1. CASE k = j
        BY <2>1, <2>3, <4>1, TypeParts DEF RestType
      <4>2. CASE k # j
        <5>1. running'[k] = running[k] /\ running[k] \in Workers
          BY <2>1, <3>2, <4>2, TypeParts DEF RestType
        <5>2. worker[running[k]].pc \in Owning /\ worker[running[k]].task.job = k
          BY <3>2, <5>1 DEF OwnerInv, OneOwner, Owned
        <5>3. running[k] # w
          BY <2>4, <5>2
        <5> QED BY <2>3, <5>1, <5>2, <5>3, TypeParts
      <4> QED BY <4>1, <4>2
    <3> QED BY <3>1, <3>2 DEF OneOwner, Owned
  <2> QED BY <1>2, <2>5 DEF OwnerInv
<1> QED BY <1>3, <1>4

\* A release ends the ownership of the recording and of nothing else.
LEMMA ReleaseOwners ==
  ASSUME TypeInv, OwnerInv, NEW w \in Workers, Release(w)
  PROVE  OwnerInv'
<1> DEFINE j == worker[w].task.job
<1>1. /\ worker[w].pc = "closing" /\ phase' = phase
      /\ running' = [running EXCEPT ![j] = 0]
      /\ worker' = [worker EXCEPT ![w] = IdleWorker]
  BY DEF Release, Set
<1>2. Quiet'
  BY <1>1 DEF OwnerInv, Quiet
<1>3. running[j] = w /\ j \in Jobs
  BY <1>1, TaskParts DEF OwnerInv, OneOwner, Owning, Pc
<1>4. IdleWorker.pc \notin Owning
  BY DEF IdleWorker, OffWorker, Owning
<1> HIDE DEF j
<1>5. ASSUME NEW v \in Workers, worker'[v].pc \in Owning
      PROVE  running'[worker'[v].task.job] = v
  <2>1. v # w /\ worker'[v] = worker[v]
    BY <1>1, <1>4, <1>5, TypeParts
  <2>2. running[worker[v].task.job] = v /\ worker[v].task.job \in Jobs
    BY <1>5, <2>1, TaskParts DEF OwnerInv, OneOwner, Owning
  <2> QED BY <1>1, <1>3, <2>1, <2>2, TypeParts DEF RestType
<1>6. ASSUME NEW k \in Jobs, running'[k] # 0
      PROVE  worker'[running'[k]].pc \in Owning /\ worker'[running'[k]].task.job = k
  <2>1. k # j /\ running'[k] = running[k] /\ running[k] \in Workers
    BY <1>1, <1>3, <1>6, TypeParts DEF RestType
  <2>2. worker[running[k]].pc \in Owning /\ worker[running[k]].task.job = k
    BY <1>6, <2>1 DEF OwnerInv, OneOwner, Owned
  <2>3. running[k] # w
    BY <2>1, <2>2 DEF j
  <2> QED BY <1>1, <2>1, <2>2, <2>3, TypeParts
<1> QED BY <1>2, <1>5, <1>6 DEF OwnerInv, OneOwner, Owned

\* Startup and the end of the process leave no owner behind.
LEMMA ProcessOwners ==
  ASSUME TypeInv, OwnerInv, Process
  PROVE  OwnerInv'
<1>1. CASE Recover \/ ResetZombieJobs
  <2>1. phase \in {"down", "recovered"} /\ worker' = worker /\ running' = running
    BY <1>1 DEF Recover, ResetZombieJobs, unstarted
  <2> QED BY <2>1 DEF OwnerInv, OneOwner, Quiet, Owned
<1>2. CASE Launch
  <2>1. /\ phase = "repaired" /\ phase' = "up" /\ running' = running
        /\ \A v \in Workers : worker'[v].pc \in {"idle", "off"}
    BY <1>2 DEF Launch, IdleWorker, OffWorker
  <2> QED BY <2>1 DEF OwnerInv, OneOwner, Quiet, Owned, Owning
<1>3. CASE Drain
  BY <1>3 DEF Drain, memory, OwnerInv, OneOwner, Quiet, Owned
<1>4. CASE Crash \/ Halt
  <2>1. Forget
    BY <1>4 DEF Crash, Halt
  <2>2. /\ \A v \in Workers : worker'[v].pc = "off"
        /\ \A j \in Jobs : running'[j] = 0
    BY <2>1 DEF Forget, OffWorker
  <2> QED BY <2>2 DEF OwnerInv, OneOwner, Quiet, Owned, Owning
<1> QED BY <1>1, <1>2, <1>3, <1>4 DEF Process

\* All steps.
LEMMA NextOwners ==
  ASSUME TypeInv, OwnerInv, [Next]_vars
  PROVE  OwnerInv'
<1>1. CASE KeepsOwners
  BY <1>1, KeepsOwnersKeeps DEF OwnerInv
<1>2. CASE Requests
  BY <1>1, <1>2, RequestOwners
<1>3. CASE \E w \in Workers : WorkerStep(w) \/ SpendBudget(w)
  BY <1>1, <1>3, WorkerOwners, ClaimOwners, ReleaseOwners
<1>4. CASE Process
  BY <1>4, ProcessOwners
<1>5. CASE UNCHANGED <<worker, running, phase>>
  BY <1>1, <1>5, SameOwners DEF OwnerInv
<1>6. CASE (\E j \in Jobs : Reconcile(j)) \/ (\E e \in Execs : DeadlinePasses(e))
           \/ UNCHANGED vars
  BY <1>5, <1>6 DEF Reconcile, DeadlinePasses, memory, vars
<1> QED BY <1>2, <1>3, <1>4, <1>6 DEF Next

\* Reservations for deletion are made by ReserveJobDeletion and by nothing else.
LEMMA ReservedBy ==
  ASSUME [Next]_vars
  PROVE  deleting' \subseteq deleting \/ \E j \in Jobs : ReserveJobDeletion(j)
<1>1. CASE Requests
  BY ZenonT(60), <1>1 DEF Requests, AddRun, ReorderRuns, ClearRuns, EditLine, CancelRun,
              DeleteJob, ReleaseDeletion, SetWorkers, RequestStop, Stop,
              KillRunning, KillPersisted, StopHandled, ResumeExecution,
              StartImmediateRun, RenameRead, RenameSave, AutoStartSave,
              AutoStartEnqueue, quiet
<1>2. CASE \E w \in Workers : WorkerStep(w) \/ SpendBudget(w)
  BY ZenonT(60), <1>2 DEF WorkerStep, Receive, Claim, TakeResume, Refuse, Register, BeginRun,
              Work, Publish, Close, Release, WorkerExit, SpendBudget, Processing
<1>3. CASE Process
  BY <1>3 DEF Process, Recover, ResetZombieJobs, Launch, Crash, Drain, Halt,
              Forget, unstarted, memory
<1>4. CASE (\E j \in Jobs : Reconcile(j)) \/ (\E e \in Execs : DeadlinePasses(e))
           \/ UNCHANGED vars
  BY <1>4 DEF Reconcile, DeadlinePasses, memory, vars
<1> QED BY <1>1, <1>2, <1>3, <1>4 DEF Next

\* A recording gets an owner by a claim, which refuses one being deleted and one
\* that is protected.
LEMMA OwnedBy ==
  ASSUME TypeInv, OwnerInv, [Next]_vars, NEW j \in Jobs, running[j] = 0, running'[j] # 0
  PROVE  j \notin deleting /\ j \notin protected
<1>1. CASE KeepsOwners
  BY <1>1 DEF KeepsOwners
<1>2. ASSUME NEW w \in Workers, Claim(w)
      PROVE  j \notin deleting /\ j \notin protected
  <2>1. \/ /\ worker[w].task.job \notin deleting
           /\ worker[w].task.job \notin protected
           /\ running' = [running EXCEPT ![worker[w].task.job] = w]
        \/ running' = running
    BY <1>2 DEF Claim, Takes, Claimable
  <2> QED BY <2>1, TypeParts DEF RestType
<1>3. ASSUME NEW w \in Workers, Release(w) PROVE FALSE
  <2>1. running' = [running EXCEPT ![worker[w].task.job] = 0]
    BY <1>3 DEF Release
  <2> QED BY <2>1, TypeParts DEF RestType
<1>4. CASE Requests
  BY <1>1, <1>4, RequestOwners
<1>5. CASE \E w \in Workers : WorkerStep(w) \/ SpendBudget(w)
  BY <1>1, <1>2, <1>3, <1>5, WorkerOwners
<1>6. CASE Process
  <2>1. running' = running \/ running' = [k \in Jobs |-> 0]
    BY <1>6 DEF Process, Recover, ResetZombieJobs, Launch, Crash, Drain, Halt,
                Forget, unstarted, memory
  <2> QED BY <2>1
<1>7. CASE (\E k \in Jobs : Reconcile(k)) \/ (\E e \in Execs : DeadlinePasses(e))
           \/ UNCHANGED vars
  BY <1>7 DEF Reconcile, DeadlinePasses, memory, vars
<1> QED BY <1>4, <1>5, <1>6, <1>7 DEF Next

\* OwnerInv is inductive, relative to TypeInv.
LEMMA OwnerInvariant == Spec => []OwnerInv
<1>1. Init => OwnerInv
  BY DEF Init, OwnerInv, OneOwner, Owned, Quiet, OffWorker, Owning
<1>2. TypeInv /\ OwnerInv /\ [Next]_vars => OwnerInv'
  BY NextOwners
<1> QED BY <1>1, <1>2, TypeInvariant, PTL DEF Spec

\* No two workers process one recording, and every registered owner is a worker
\* that is processing it, whatever stale or duplicate entries the channel holds
\* and whenever workers are added, stopped or lost (claimTask, worker,
\* finalizeAndAdvance).
THEOREM OwnerIsSingle == Spec => []OneOwner
<1>1. OwnerInv => OneOwner
  BY DEF OwnerInv
<1> QED BY <1>1, OwnerInvariant, PTL

\* While a recording is reserved for deletion nobody owns it, and no run of it
\* waits or is active (ReserveJobDeletion against every other entry point).
THEOREM DeletionIsExclusive == Spec => []DeletingIsQuiet
<1>1. Init => DeletingIsQuiet
  BY DEF Init, DeletingIsQuiet
<1>2. ASSUME TypeInv, OwnerInv, DeletingIsQuiet, [Next]_vars
      PROVE  DeletingIsQuiet'
  <2>1. CASE deleting' \subseteq deleting
    <3> SUFFICES ASSUME NEW j \in deleting'
                 PROVE  running'[j] = 0 /\ NonTerminal(rows', j) = {}
      BY DEF DeletingIsQuiet, Owned
    <3>1. j \in deleting /\ j \in Jobs
      BY <1>2, <2>1, TypeParts DEF RestType
    <3>2. running[j] = 0 /\ NonTerminal(rows, j) = {}
      BY <1>2, <3>1 DEF DeletingIsQuiet, Owned
    <3> QED BY <1>2, <3>1, <3>2, OwnedBy, NextStep DEF RowsKept
  <2>2. ASSUME NEW k \in Jobs, ReserveJobDeletion(k) PROVE DeletingIsQuiet'
    <3>1. /\ UNCHANGED <<rows, running>> /\ deleting' = deleting \cup {k}
          /\ running[k] = 0 /\ NonTerminal(rows, k) = {}
      BY <2>2 DEF ReserveJobDeletion, AtRest, Owned
    <3> QED BY <1>2, <3>1 DEF DeletingIsQuiet, Owned
  <2> QED BY <1>2, <2>1, <2>2, ReservedBy
<1> QED BY <1>1, <1>2, TypeInvariant, OwnerInvariant, PTL DEF Spec

\* A worker passes from holding a task to owning a recording by its own claim.
LEMMA ClaimedBy ==
  ASSUME TypeInv, OwnerInv, [Next]_vars, NEW w \in Workers,
         worker[w].pc = "holding", worker'[w].pc = "claimed"
  PROVE  Claim(w)
<1>1. CASE KeepsOwners
  BY <1>1 DEF KeepsOwners
<1>2. ASSUME NEW v \in Workers, v # w, Claim(v) \/ Release(v) PROVE FALSE
  <2>1. \E r : Set(v, r)
    BY <1>2 DEF Claim, Drop, Release
  <2> QED BY <1>2, <2>1, TypeParts DEF Set
<1>3. ~Release(w)
  BY DEF Release
<1>4. CASE Requests
  BY <1>1, <1>4, RequestOwners
<1>5. CASE \E v \in Workers : WorkerStep(v) \/ SpendBudget(v)
  BY <1>1, <1>2, <1>3, <1>5, WorkerOwners
<1>6. CASE Process
  BY <1>6 DEF Process, Recover, ResetZombieJobs, Launch, Crash, Drain, Halt,
              Forget, unstarted, memory, IdleWorker, OffWorker
<1>7. CASE (\E k \in Jobs : Reconcile(k)) \/ (\E e \in Execs : DeadlinePasses(e))
           \/ UNCHANGED vars
  BY <1>7 DEF Reconcile, DeadlinePasses, memory, vars
<1> QED BY <1>4, <1>5, <1>6, <1>7 DEF Next

\* A claim never takes the server past the configured number of simultaneous
\* recordings (the wait for capacity in worker).
THEOREM ClaimsRespectLimit == Spec => WorkerLimit
<1> DEFINE A == \A w \in Workers :
                  worker'[w].pc = "claimed" /\ worker[w].pc = "holding"
                    => Cardinality({j \in Jobs : running'[j] # 0}) <= limit
<1>1. ASSUME TypeInv, OwnerInv, [Next]_vars
      PROVE  A
  <2> SUFFICES ASSUME NEW w \in Workers, worker'[w].pc = "claimed", worker[w].pc = "holding"
               PROVE  Cardinality({j \in Jobs : running'[j] # 0}) <= limit
    OBVIOUS
  <2> DEFINE j == worker[w].task.job
  <2>1. Claim(w)
    BY <1>1, ClaimedBy
  <2>2. Cardinality(Busy) < limit
    BY <2>1 DEF Claim, HasRoom
  <2>3. running' = [running EXCEPT ![j] = w] /\ j \in Jobs
    <3>1. worker'[w] # IdleWorker
      BY DEF IdleWorker, OffWorker
    <3>2. Takes(w)
      BY <1>1, <2>1, <3>1, TypeParts DEF Claim, Drop, Set
    <3> QED BY <1>1, <2>1, <3>2, TaskParts DEF Claim
  <2>4. {k \in Jobs : running'[k] # 0} \in SUBSET (Busy \cup {j})
    BY <1>1, <2>3, TypeParts DEF RestType, Busy, Owned
  <2>5. IsFiniteSet(Busy)
    <3>1. Busy \in SUBSET Jobs
      BY DEF Busy
    <3> QED BY <3>1, FS_Subset, IdAssumption
  <2>6. /\ IsFiniteSet(Busy \cup {j})
        /\ Cardinality(Busy \cup {j}) \in Nat
        /\ Cardinality(Busy \cup {j}) <= Cardinality(Busy) + 1
    <3> HIDE DEF j
    <3>1. /\ IsFiniteSet(Busy \cup {j})
          /\ Cardinality(Busy \cup {j})
               = IF j \in Busy THEN Cardinality(Busy) ELSE Cardinality(Busy) + 1
      BY <2>5, FS_AddElement
    <3>2. Cardinality(Busy) \in Nat
      BY <2>5, FS_CardinalityType
    <3> QED BY <3>1, <3>2
  <2>7. /\ Cardinality({k \in Jobs : running'[k] # 0}) \in Nat
        /\ Cardinality({k \in Jobs : running'[k] # 0}) <= Cardinality(Busy \cup {j})
    <3> DEFINE B == {k \in Jobs : running'[k] # 0}
               C == Busy \cup {j}
    <3>1. B \in SUBSET C /\ IsFiniteSet(C)
      BY <2>4, <2>6
    <3> HIDE DEF B, C
    <3>2. IsFiniteSet(B) /\ Cardinality(B) <= Cardinality(C)
      BY <3>1, FS_Subset
    <3>3. Cardinality(B) \in Nat
      BY <3>2, FS_CardinalityType
    <3> QED BY <3>2, <3>3 DEF B, C
  <2>8. limit \in Nat /\ Cardinality(Busy) \in Nat
    BY <1>1, <2>5, FS_CardinalityType, TypeParts, QueueAssumption DEF RestType, Workers
  <2> QED BY <2>2, <2>6, <2>7, <2>8
<1>2. TypeInv /\ OwnerInv /\ [Next]_vars => [A]_vars
  BY <1>1
<1> HIDE DEF A
<1>3. Spec => [][A]_vars
  BY <1>2, TypeInvariant, OwnerInvariant, PTL DEF Spec
<1> QED BY <1>3 DEF A, WorkerLimit

-----------------------------------------------------------------------------
(* Dispatch.                                                               *)

\* Workers move in their own steps; of the requests only two reach them.
LEMMA RequestWorkers ==
  ASSUME Requests
  PROVE  \/ UNCHANGED worker
         \/ \E n \in Workers : SetWorkers(n)
         \/ \E r \in StopRequest : KillRunning(r)
BY ZenonT(60) DEF Requests, AddRun, ReorderRuns, ClearRuns, EditLine, CancelRun,
     ReserveJobDeletion, DeleteJob, ReleaseDeletion, RequestStop, Stop,
     KillPersisted, StopHandled, ResumeExecution, StartImmediateRun,
     RenameRead, RenameSave, AutoStartSave, AutoStartEnqueue, quiet

\* A step in which every worker stays where it is, with its task.
SameTasks ==
  \A v \in Workers : worker'[v].pc = worker[v].pc /\ worker'[v].task = worker[v].task

\* A stop marks the worker and moves it nowhere.
LEMMA KillKeepsTasks ==
  ASSUME TypeInv, NEW r \in StopRequest, KillRunning(r)
  PROVE  SameTasks
<1> DEFINE v == running[r.job]
           b == worker[v].stopped \/ ~TimedOut(v)
           x == [worker[v] EXCEPT !.stopped = b]
<1>1. v \in Workers
  BY TypeParts DEF KillRunning, Owned, StopRequest, RestType
<1>2. worker' = worker \/ worker' = [worker EXCEPT ![v] = x]
  BY DEF KillRunning
<1>3. worker[v] \in CommittedRow
  BY <1>1, TypeParts
<1>4. x.pc = worker[v].pc /\ x.task = worker[v].task
  <2> HIDE DEF b, v
  <2> QED BY <1>3 DEF CommittedRow, WorkerRow
<1> HIDE DEF x, b, v
<1> QED BY <1>1, <1>2, <1>4, TypeParts DEF SameTasks

\* Between its claim and its release every step of a worker is a step of the owner.
LEMMA InOwnersHands ==
  ASSUME TypeInv, NEW w \in Workers, WorkerStep(w) \/ SpendBudget(w)
  PROVE  \/ Receive(w) \/ Claim(w) \/ WorkerExit(w) \/ Release(w)
         \/ StaysOwner(w) /\ UNCHANGED <<channel, scheduled>>
<1>1. CASE TakeResume(w) \/ \E e \in Execs : BeginRun(w, e)
  <2>1. PICK e \in Execs : BeginRun(w, e) \/ TakeResume(w)
    <3>1. TakeResume(w) => worker[w].task.exec \in Execs
      BY TaskParts DEF TakeResume, Processing
    <3> QED BY <1>1, <3>1
  <2> QED BY <2>1, BeginStep DEF BeginRun, TakeResume, Processing
<1>2. CASE \/ Refuse(w) \/ Register(w) \/ Work(w) \/ SpendBudget(w)
           \/ Publish(w) \/ Close(w)
  <2>1. StaysOwner(w)
    BY <1>2, RefuseStep, RegisterStep, WorkStep, PublishStep, CloseStep
  <2>2. UNCHANGED <<channel, scheduled>>
    BY <1>2 DEF Refuse, Register, Work, SpendBudget, Publish, Close, Processing
  <2> QED BY <2>1, <2>2
<1> QED BY <1>1, <1>2 DEF WorkerStep

\* An idle worker has no entry in hand: it exits without giving up anybody's
\* reservation.
IdleHoldsNothing == \A w \in Workers : worker[w].pc = "idle" => worker[w].task = NoTask

DispatchInv == NoDoubleDispatch /\ IdleHoldsNothing

\* A worker becomes idle by putting down what it holds.
LEMMA IdleSet ==
  ASSUME TypeInv, IdleHoldsNothing, NEW w \in Workers, NEW r, Set(w, r),
         r = IdleWorker \/ r.pc # "idle"
  PROVE  IdleHoldsNothing'
<1>1. \A v \in Workers : worker'[v] = IF v = w THEN r ELSE worker[v]
  BY TypeParts DEF Set
<1>2. IdleWorker.task = NoTask
  BY DEF IdleWorker, OffWorker
<1> QED BY <1>1, <1>2 DEF IdleHoldsNothing

\* A worker becomes idle by letting go of its entry or of its recording.
LEMMA IdleStep ==
  ASSUME TypeInv, IdleHoldsNothing, [Next]_vars
  PROVE  IdleHoldsNothing'
<1>1. CASE \A v \in Workers : \/ worker'[v].pc = worker[v].pc /\ worker'[v].task = worker[v].task
                              \/ worker'[v] \in {IdleWorker, OffWorker}
  BY <1>1 DEF IdleHoldsNothing, IdleWorker, OffWorker
<1>2. CASE UNCHANGED worker
  BY <1>1, <1>2
<1>3. CASE Requests
  <2>1. ASSUME NEW n \in Workers, SetWorkers(n) PROVE IdleHoldsNothing'
    BY <1>1, <2>1 DEF SetWorkers, Grown
  <2>2. ASSUME NEW r \in StopRequest, KillRunning(r) PROVE IdleHoldsNothing'
    <3>1. SameTasks
      BY <2>2, KillKeepsTasks
    <3> QED BY <1>1, <3>1 DEF SameTasks
  <2>3. \/ UNCHANGED worker
        \/ \E n \in Workers : SetWorkers(n)
        \/ \E r \in StopRequest : KillRunning(r)
    BY <1>3, RequestWorkers
  <2> QED BY <1>2, <2>1, <2>2, <2>3
<1>4. ASSUME NEW w \in Workers, WorkerStep(w) \/ SpendBudget(w) PROVE IdleHoldsNothing'
  <2>1. CASE Receive(w)
    <3> DEFINE r == [IdleWorker EXCEPT !.pc = "holding", !.task = Head(channel),
                                       !.seen = rows.job[Head(channel).job]]
    <3>1. worker' = worker \/ Set(w, r)
      BY <2>1 DEF Receive
    <3>2. r.pc # "idle"
      BY DEF IdleWorker, OffWorker
    <3> HIDE DEF r
    <3> QED BY <1>2, <3>1, <3>2, IdleSet
  <2>2. CASE Claim(w)
    <3> DEFINE r == [worker[w] EXCEPT !.pc = "claimed", !.bound = worker[w].task.exec]
    <3>1. Set(w, IdleWorker) \/ Set(w, r)
      BY <2>2 DEF Claim, Drop
    <3>2. r.pc # "idle"
      <4>1. worker[w] \in CommittedRow
        BY TypeParts
      <4> QED BY <4>1 DEF CommittedRow, WorkerRow
    <3> HIDE DEF r
    <3> QED BY <3>1, <3>2, IdleSet
  <2>3. CASE WorkerExit(w) \/ Release(w)
    <3>1. Set(w, IdleWorker) \/ Set(w, OffWorker)
      BY <2>3 DEF WorkerExit, Release
    <3> QED BY <3>1, IdleSet DEF OffWorker
  <2>4. CASE StaysOwner(w)
    <3>1. \A r \in OwnedRow(worker[w].task) : r.pc # "idle"
      BY DEF OwnedRow, Owning
    <3> QED BY <1>2, <2>4, <3>1, IdleSet DEF StaysOwner
  <2>5. Receive(w) \/ Claim(w) \/ WorkerExit(w) \/ Release(w) \/ StaysOwner(w)
    BY <1>4, InOwnersHands
  <2> QED BY <2>1, <2>2, <2>3, <2>4, <2>5
<1>5. CASE Process
  BY <1>1, <1>5 DEF Process, Recover, ResetZombieJobs, Launch, Crash, Drain, Halt,
                    Forget, unstarted, memory
<1>6. CASE (\E k \in Jobs : Reconcile(k)) \/ (\E e \in Execs : DeadlinePasses(e))
           \/ UNCHANGED vars
  BY <1>2, <1>6 DEF Reconcile, DeadlinePasses, memory, vars
<1> QED BY <1>3, <1>4, <1>5, <1>6 DEF Next

\* A step after which the same workers hold the same entries.
SameHolders ==
  \A w \in Workers :
    /\ worker'[w].pc = "holding" <=> worker[w].pc = "holding"
    /\ worker[w].pc = "holding" => worker'[w].task = worker[w].task

\* A step that sends at most one entry.
SendsOne ==
  \/ UNCHANGED <<channel, scheduled>>
  \/ \E t : Enqueue(t)

\* An entry is sent once: the reservation it needs is given up only after it has
\* left the channel and the worker's hands.
LEMMA SendKeepsDispatch ==
  ASSUME TypeInv, NoDoubleDispatch, SameHolders, SendsOne
  PROVE  NoDoubleDispatch'
<1>1. /\ Held' = Held
      /\ \A v, w \in Workers :
           worker'[v].pc = "holding" /\ worker'[w].pc = "holding" /\ v # w =>
             worker'[v].task # worker'[w].task
  BY DEF NoDoubleDispatch, SameHolders, Held
<1>2. CASE UNCHANGED <<channel, scheduled>>
  BY <1>1, <1>2 DEF NoDoubleDispatch, Entries
<1>3. ASSUME NEW t, t \notin scheduled, channel' = Append(channel, t),
             scheduled' = scheduled \cup {t}
      PROVE  NoDoubleDispatch'
  <2>1. channel \in Seq(Task \cup {t})
    BY TypeParts DEF DispatchType
  <2>2. /\ Len(channel') = Len(channel) + 1 /\ Len(channel) \in Nat
        /\ channel'[Len(channel) + 1] = t
        /\ \A p \in 1..Len(channel) : channel'[p] = channel[p]
    BY <1>3, <2>1
  <2>3. Entries' = Entries \cup {t}
    BY <2>2 DEF Entries
  <2>4. t \notin Entries /\ t \notin Held
    BY <1>3 DEF NoDoubleDispatch
  <2>5. ASSUME NEW p \in 1..Len(channel'), NEW q \in 1..Len(channel'),
               channel'[p] = channel'[q]
        PROVE  p = q
    <3>1. \A n \in 1..Len(channel) : channel[n] # t
      BY <2>4 DEF Entries
    <3>2. \A n \in 1..Len(channel') : n \in 1..Len(channel) \/ n = Len(channel) + 1
      BY <2>2
    <3> QED BY <2>2, <2>5, <3>1, <3>2 DEF NoDoubleDispatch
  <2> QED BY <1>1, <1>3, <2>3, <2>4, <2>5 DEF NoDoubleDispatch
<1> QED BY <1>2, <1>3 DEF SendsOne, Enqueue

\* A worker lets go of what it holds, reservation and all.
LEMMA DropKeepsDispatch ==
  ASSUME TypeInv, NoDoubleDispatch, NEW w \in Workers, NEW r, r.pc # "holding",
         Set(w, r), channel' = channel,
         IF worker[w].pc = "holding" THEN scheduled' = scheduled \ {worker[w].task}
                                     ELSE scheduled' = scheduled
  PROVE  NoDoubleDispatch'
<1>1. \A v \in Workers : worker'[v] = IF v = w THEN r ELSE worker[v]
  BY TypeParts DEF Set
<1>2. CASE worker[w].pc # "holding"
  BY <1>1, <1>2, SendKeepsDispatch DEF SameHolders, SendsOne
<1>3. CASE worker[w].pc = "holding"
  <2>1. Held' = Held \ {worker[w].task} /\ worker[w].task \in Held
    BY <1>1, <1>3 DEF Held, NoDoubleDispatch
  <2>2. Entries' = Entries
    BY DEF Entries
  <2> QED BY <1>1, <1>3, <2>1, <2>2 DEF NoDoubleDispatch
<1> QED BY <1>2, <1>3

\* A worker takes the first entry and keeps its reservation; the entry of a deleted
\* recording is dropped with it.
LEMMA ReceiveKeepsDispatch ==
  ASSUME TypeInv, NoDoubleDispatch, NEW w \in Workers, Receive(w)
  PROVE  NoDoubleDispatch'
<1> DEFINE t == Head(channel)
           r == [IdleWorker EXCEPT !.pc = "holding", !.task = t,
                                   !.seen = rows.job[t.job]]
<1>1. /\ worker[w].pc = "idle" /\ channel' = Tail(channel)
      /\ \/ worker' = worker /\ scheduled' = scheduled \ {t}
         \/ Set(w, r) /\ scheduled' = scheduled
  BY DEF Receive
<1>2. channel \in Seq(Task) /\ channel # << >>
  BY TypeParts DEF Receive, DispatchType
<1>3. r.pc = "holding" /\ r.task = t
  BY DEF IdleWorker, OffWorker
<1>4. /\ Len(channel) \in Nat \ {0} /\ Len(channel') = Len(channel) - 1
      /\ t = channel[1]
      /\ \A p \in 1..Len(channel') : channel'[p] = channel[p + 1]
  BY <1>1, <1>2
<1>5. \A p \in 1..Len(channel), q \in 1..Len(channel) : channel[p] = channel[q] => p = q
  BY DEF NoDoubleDispatch
<1> HIDE DEF t, r
<1>6. Entries' = Entries \ {t} /\ t \in Entries
  <2>1. t \in Entries
    BY <1>4 DEF Entries
  <2>2. ASSUME NEW p \in 1..Len(channel') PROVE channel'[p] \in Entries \ {t}
    <3>1. p + 1 \in 1..Len(channel) /\ 1 \in 1..Len(channel) /\ p + 1 # 1
      BY <1>4
    <3> QED BY <1>4, <1>5, <3>1 DEF Entries
  <2>3. ASSUME NEW p \in 1..Len(channel), channel[p] # t PROVE channel[p] \in Entries'
    <3>1. p - 1 \in 1..Len(channel') /\ p = (p - 1) + 1
      BY <1>4, <2>3
    <3>2. channel'[p - 1] = channel[p]
      BY <1>4, <3>1
    <3> QED BY <3>1, <3>2 DEF Entries
  <2> QED BY <2>1, <2>2, <2>3 DEF Entries
<1>7. ASSUME NEW p \in 1..Len(channel'), NEW q \in 1..Len(channel'),
             channel'[p] = channel'[q]
      PROVE  p = q
  <2>1. p + 1 \in 1..Len(channel) /\ q + 1 \in 1..Len(channel) /\ p \in Nat /\ q \in Nat
    BY <1>4
  <2>2. channel[p + 1] = channel[q + 1]
    BY <1>4, <1>7
  <2>3. p + 1 = q + 1
    BY <1>5, <2>1, <2>2
  <2> QED BY <2>1, <2>3
<1>8. CASE worker' = worker /\ scheduled' = scheduled \ {t}
  <2>1. Held' = Held
    BY <1>8 DEF Held
  <2> QED BY <1>6, <1>7, <1>8, <2>1 DEF NoDoubleDispatch
<1>9. CASE Set(w, r) /\ scheduled' = scheduled
  <2>1. \A v \in Workers : worker'[v] = IF v = w THEN r ELSE worker[v]
    BY <1>9, TypeParts DEF Set
  <2>2. Held' = Held \cup {t}
    BY <1>1, <1>3, <2>1 DEF Held
  <2>3. t \notin Held
    BY <1>6 DEF NoDoubleDispatch
  <2>4. \A u, v \in Workers :
          worker'[u].pc = "holding" /\ worker'[v].pc = "holding" /\ u # v =>
            worker'[u].task # worker'[v].task
    BY <1>1, <1>3, <2>1, <2>3 DEF NoDoubleDispatch, Held
  <2> QED BY <1>6, <1>7, <1>9, <2>2, <2>3, <2>4 DEF NoDoubleDispatch
<1> QED BY <1>1, <1>8, <1>9

\* No request touches what a worker holds.
LEMMA RequestKeepsDispatch ==
  ASSUME TypeInv, NoDoubleDispatch, Requests
  PROVE  NoDoubleDispatch'
<1>1. SendsOne
  BY ZenonT(60) DEF Requests, AddRun, ReorderRuns, ClearRuns, EditLine, CancelRun,
       SetWorkers, ReserveJobDeletion, DeleteJob, ReleaseDeletion, RequestStop, Stop,
       KillRunning, KillPersisted, StopHandled, ResumeExecution, StartImmediateRun,
       RenameRead, RenameSave, AutoStartSave, AutoStartEnqueue, quiet, Advance, SendsOne
<1>2. SameHolders
  <2>1. CASE UNCHANGED worker
    BY <2>1 DEF SameHolders
  <2>2. CASE \E n \in Workers : SetWorkers(n)
    <3>1. PICK n \in Workers : worker' = Grown(n)
      BY <2>2 DEF SetWorkers
    <3>2. \A w \in Workers : \/ worker'[w] = worker[w]
                             \/ worker[w].pc = "off" /\ worker'[w] = IdleWorker
      BY <3>1 DEF Grown
    <3> QED BY <3>2 DEF SameHolders, IdleWorker, OffWorker
  <2>3. CASE \E r \in StopRequest : KillRunning(r)
    BY <2>3, KillKeepsTasks DEF SameTasks, SameHolders
  <2> QED BY <2>1, <2>2, <2>3, RequestWorkers
<1> QED BY <1>1, <1>2, SendKeepsDispatch

\* The steps of a worker: it receives, it lets go, or it holds nothing.
LEMMA WorkerKeepsDispatch ==
  ASSUME TypeInv, DispatchInv, NEW w \in Workers, WorkerStep(w) \/ SpendBudget(w)
  PROVE  NoDoubleDispatch'
<1> USE DEF DispatchInv
<1>1. CASE Receive(w)
  BY <1>1, ReceiveKeepsDispatch
<1>2. CASE Claim(w)
  <2>1. worker[w].pc = "holding" /\ channel' = channel
        /\ scheduled' = scheduled \ {worker[w].task}
    BY <1>2 DEF Claim, Drop
  <2> DEFINE r == [worker[w] EXCEPT !.pc = "claimed", !.bound = worker[w].task.exec]
  <2>2. Set(w, IdleWorker) \/ Set(w, r)
    BY <1>2 DEF Claim, Drop
  <2>3. r.pc # "holding" /\ IdleWorker.pc # "holding"
    <3>1. worker[w] \in CommittedRow
      BY <2>1, TaskParts
    <3> QED BY <3>1 DEF CommittedRow, WorkerRow, IdleWorker, OffWorker
  <2> HIDE DEF r
  <2> QED BY <2>1, <2>2, <2>3, DropKeepsDispatch
<1>3. CASE WorkerExit(w)
  <2>1. /\ worker[w].pc \in {"idle", "holding"} /\ Set(w, OffWorker) /\ channel' = channel
        /\ scheduled' = scheduled \ {worker[w].task}
    BY <1>3 DEF WorkerExit
  <2>2. OffWorker.pc # "holding"
    BY DEF OffWorker
  <2>3. worker[w].pc = "idle" => scheduled' = scheduled
    <3>1. worker[w].pc = "idle" => worker[w].task \notin scheduled
      BY TypeParts, TaskAssumption DEF IdleHoldsNothing, DispatchType
    <3> QED BY <2>1, <3>1
  <2> QED BY <2>1, <2>2, <2>3, DropKeepsDispatch
<1>4. CASE Release(w)
  <2>1. worker[w].pc = "closing" /\ Set(w, IdleWorker)
    BY <1>4 DEF Release
  <2>2. SameHolders
    BY <2>1, TypeParts DEF Set, SameHolders, IdleWorker, OffWorker
  <2>3. SendsOne
    BY <1>4 DEF Release, Advance, SendsOne
  <2> QED BY <2>2, <2>3, SendKeepsDispatch
<1>5. CASE StaysOwner(w) /\ UNCHANGED <<channel, scheduled>>
  <2>1. SameHolders
    <3>1. CASE worker' = worker
      BY <3>1 DEF SameHolders
    <3>2. ASSUME NEW r \in OwnedRow(worker[w].task), Set(w, r) PROVE SameHolders
      BY <1>5, <3>2, TypeParts DEF Set, SameHolders, OwnedRow, StaysOwner, Owning
    <3> QED BY <1>5, <3>1, <3>2 DEF StaysOwner
  <2> QED BY <1>5, <2>1, SendKeepsDispatch DEF SendsOne
<1> QED BY <1>1, <1>2, <1>3, <1>4, <1>5, InOwnersHands

\* The number of entries Launch makes is a number.
LEMMA LaunchSize ==
  ASSUME TypeInv
  PROVE  LET d == PromotedAll(FailInterruptedExcept(rows, protected))
             tasks == {PendingTask(d, j) : j \in {k \in Jobs \ protected :
                                                   d.job[k] = "pending"}} \ {NoTask}
         IN  Cardinality(tasks) \in Nat
<1> DEFINE d == PromotedAll(FailInterruptedExcept(rows, protected))
           S == {k \in Jobs \ protected : d.job[k] = "pending"}
           T == {PendingTask(d, j) : j \in S}
           f == [j \in S |-> PendingTask(d, j)]
<1>1. IsFiniteSet(S)
  <2>1. S \in SUBSET Jobs
    OBVIOUS
  <2> HIDE DEF S
  <2> QED BY <2>1, FS_Subset, IdAssumption
<1>2. f \in Surjection(S, T)
  BY DEF Surjection
<1>3. IsFiniteSet(T)
  <2> HIDE DEF S, T, f
  <2> QED BY <1>1, <1>2, FS_Surjection
<1>4. T \ {NoTask} \in SUBSET T
  OBVIOUS
<1> HIDE DEF T
<1>5. IsFiniteSet(T \ {NoTask})
  BY <1>3, <1>4, FS_Subset
<1> QED BY <1>5, FS_CardinalityType DEF T

\* Launch fills the channel with distinct entries while no worker holds one; the
\* end of a process empties it.
LEMMA ProcessKeepsDispatch ==
  ASSUME TypeInv, NoDoubleDispatch, Process
  PROVE  NoDoubleDispatch'
<1>1. CASE Recover \/ ResetZombieJobs \/ Drain
  <2>1. UNCHANGED <<channel, scheduled, worker>>
    BY <1>1 DEF Recover, ResetZombieJobs, Drain, unstarted, memory
  <2> QED BY <2>1, SendKeepsDispatch DEF SendsOne, SameHolders
<1>2. CASE Launch
  <2>1. \E n \in Nat : \E S : \E order \in [1..n -> S] :
          /\ \A p, q \in 1..n : order[p] = order[q] => p = q
          /\ channel' = order /\ scheduled' = {order[p] : p \in 1..n}
    <3> DEFINE d == PromotedAll(FailInterruptedExcept(rows, protected))
               tasks == {PendingTask(d, j) : j \in {k \in Jobs \ protected :
                                                     d.job[k] = "pending"}} \ {NoTask}
               n == IF Cardinality(tasks) <= Capacity THEN Cardinality(tasks) ELSE Capacity
    <3>1. /\ n \in Nat
          /\ \E order \in [1..n -> tasks] :
               /\ \A p, q \in 1..n : order[p] = order[q] => p = q
               /\ channel' = order
               /\ scheduled' = {order[p] : p \in 1..n}
      BY <1>2, LaunchSize, QueueAssumption DEF Launch
    <3> HIDE DEF tasks, n
    <3> QED BY <3>1, SMTT(30)
  <2>2. PICK n \in Nat : \E S : \E order \in [1..n -> S] :
          /\ \A p, q \in 1..n : order[p] = order[q] => p = q
          /\ channel' = order /\ scheduled' = {order[p] : p \in 1..n}
    BY <2>1
  <2>3. Len(channel') = n /\ Entries' = scheduled'
        /\ \A p, q \in 1..n : channel'[p] = channel'[q] => p = q
    <3>1. PICK S : \E order \in [1..n -> S] :
            /\ \A p, q \in 1..n : order[p] = order[q] => p = q
            /\ channel' = order /\ scheduled' = {order[p] : p \in 1..n}
      BY <2>2
    <3>2. PICK order \in [1..n -> S] :
            /\ \A p, q \in 1..n : order[p] = order[q] => p = q
            /\ channel' = order /\ scheduled' = {order[p] : p \in 1..n}
      BY <3>1
    <3>3. channel' \in Seq(S) /\ Len(channel') = n
      BY <3>2
    <3> QED BY <3>2, <3>3 DEF Entries
  <2>4. Held' = {}
    BY <1>2 DEF Launch, Held, IdleWorker, OffWorker
  <2>5. \A v \in Workers : worker'[v].pc # "holding"
    BY <1>2 DEF Launch, IdleWorker, OffWorker
  <2> QED BY <2>3, <2>4, <2>5 DEF NoDoubleDispatch
<1>3. CASE Crash \/ Halt
  <2>1. Forget
    BY <1>3 DEF Crash, Halt
  <2>2. /\ \A v \in Workers : worker'[v].pc = "off"
        /\ channel' = << >> /\ scheduled' = {}
    BY <2>1 DEF Forget, OffWorker
  <2>3. Entries' = {} /\ Held' = {}
    BY <2>2 DEF Entries, Held
  <2> QED BY <2>2, <2>3 DEF NoDoubleDispatch
<1> QED BY <1>1, <1>2, <1>3 DEF Process

\* The reservations, the channel and the workers' hands: the invariant that makes
\* every entry single.
LEMMA DispatchInvariant == Spec => []DispatchInv
<1>1. Init => DispatchInv
  BY DEF Init, DispatchInv, IdleHoldsNothing, NoDoubleDispatch, Entries, Held, OffWorker
<1>2. TypeInv /\ OwnerInv /\ DispatchInv /\ [Next]_vars => DispatchInv'
  <2> SUFFICES ASSUME TypeInv, OwnerInv, DispatchInv, [Next]_vars
               PROVE  NoDoubleDispatch'
    BY IdleStep DEF DispatchInv
  <2> USE DEF DispatchInv
  <2>1. ASSUME NEW j \in Jobs, Reconcile(j) PROVE NoDoubleDispatch'
    <3>1. SendsOne /\ UNCHANGED worker
      BY ZenonT(30), <2>1 DEF Reconcile, Redispatch, Advance, SendsOne
    <3> QED BY <3>1, SendKeepsDispatch DEF SameHolders
  <2>2. CASE (\E e \in Execs : DeadlinePasses(e)) \/ UNCHANGED vars
    <3>1. UNCHANGED <<channel, scheduled, worker>>
      BY <2>2 DEF DeadlinePasses, vars, memory
    <3> QED BY <3>1, SendKeepsDispatch DEF SendsOne, SameHolders
  <2> QED BY <2>1, <2>2, RequestKeepsDispatch, WorkerKeepsDispatch, ProcessKeepsDispatch
          DEF Next
<1> QED BY <1>1, <1>2, TypeInvariant, OwnerInvariant, PTL DEF Spec

\* Every entry in the channel or in a worker's hands holds its reservation and none
\* is there twice, however the reconciler, requests and releases enqueue while
\* workers receive, claim, drop and exit (enqueueTask, releaseScheduledTask,
\* recoverPendingJobs).
THEOREM EntriesAreSingle == Spec => []NoDoubleDispatch
<1>1. DispatchInv => NoDoubleDispatch
  BY DEF DispatchInv
<1> QED BY <1>1, DispatchInvariant, PTL

-----------------------------------------------------------------------------
(* Outcomes: what every step writes is bound to one recording.             *)

\* A task names a run and an execution of its own recording.
OwnTask(t) ==
  /\ t.item # NoItem => JobOf[t.item] = t.job
  /\ t.exec # NoExec => JobOf[t.exec] = t.job

\* A worker with a task owns executions of its recording only.
OwnWorker(r) ==
  r.pc \notin {"off", "idle"} =>
    /\ OwnTask(r.task)
    /\ r.bound # NoExec => JobOf[r.bound] = r.task.job
    /\ r.pc \in {"begun", "working", "publishing"} => JobOf[r.exec] = r.task.job

\* While adapters run, the execution is the one the queue knows, and a stop that
\* reached the worker has fenced it.
FencedWorker(d, r) ==
  r.pc \in {"working", "publishing"} =>
    r.bound = r.exec /\ (r.stopped => d.exec[r.exec].state \in Fenced)

OwnChannel == \A p \in 1..Len(channel) : OwnTask(channel[p])

OwnWorkers ==
  \A w \in Workers : OwnWorker(worker[w]) /\ FencedWorker(rows, worker[w])

BindInv == Sound(rows) /\ OwnChannel /\ OwnWorkers

\* A protected recording has no owner and is not being deleted.
ProtInv ==
  /\ \A j \in protected : running[j] = 0 /\ j \notin deleting
  /\ phase = "down" => deleting = {}

\* What a step does to the rows.
RowsFinal ==
  Sound(rows') /\ ExecsFinal(rows, rows') /\ RunsResumed(rows, rows')

\* What a step leaves of the runs of protected recordings.
RunsProtected ==
  \A j \in protected \cap protected' : \A i \in Items :
    JobOf[i] = j /\ rows'.item[i] # rows.item[i] =>
      rows'.item[i].status \in {"queued", "cancelled"}

\* What is final for runs and executions is what the invariants ask for.
LEMMA FinalRows ==
  ASSUME Sound(rows), Final(rows, rows')
  PROVE  RowsFinal
BY DEF Final, RowsFinal, RunsFinal, RunsResumed

\* A step on one recording that is not protected.
LEMMA WithinUnprotected ==
  ASSUME NEW j, j \notin protected, Within(rows, rows', j)
  PROVE  RunsProtected
BY DEF Within, RunsProtected

\* A step that changes no run leaves the protected ones alone.
LEMMA SameItemsProtected ==
  ASSUME rows'.item = rows.item
  PROVE  RunsProtected
BY DEF RunsProtected

\* Sending an entry of its own recording.
SendsOwn ==
  \/ UNCHANGED channel
  \/ \E t : OwnTask(t) /\ channel' = Append(channel, t)

\* The channel keeps to entries of their own recordings.
LEMMA SendKeepsOwn ==
  ASSUME DispatchType, OwnChannel, SendsOwn
  PROVE  OwnChannel'
<1>1. CASE UNCHANGED channel
  BY <1>1 DEF OwnChannel
<1>2. ASSUME NEW t, OwnTask(t), channel' = Append(channel, t) PROVE OwnChannel'
  <2>1. channel \in Seq(Task \cup {t})
    BY DEF DispatchType
  <2>2. /\ Len(channel') = Len(channel) + 1 /\ Len(channel) \in Nat
        /\ channel'[Len(channel) + 1] = t
        /\ \A p \in 1..Len(channel) : channel'[p] = channel[p]
    BY <1>2, <2>1
  <2>3. \A p \in 1..Len(channel') : p \in 1..Len(channel) \/ p = Len(channel) + 1
    BY <2>2
  <2> QED BY <1>2, <2>2, <2>3 DEF OwnChannel
<1> QED BY <1>1, <1>2 DEF SendsOwn

\* enqueueTask sends what it was given or nothing.
LEMMA EnqueueOwn ==
  ASSUME NEW t, OwnTask(t), Enqueue(t)
  PROVE  SendsOwn
BY DEF Enqueue, SendsOwn

\* What promoteNext does after the rows c were written.
LEMMA AdvanceOwn ==
  ASSUME NEW c \in Rows, NEW j \in Jobs, NEW owned, NEW kept, Advance(c, j, owned, kept)
  PROVE  /\ Moves(c, rows', j) /\ SendsOwn
         /\ kept => rows' = c
         /\ \A i \in Items : rows'.item[i].status = "cancelled" =>
                             c.item[i].status = "cancelled"
<1>1. CASE rows' = c /\ UNCHANGED <<channel, scheduled>>
  BY <1>1, StillMoves DEF SendsOwn
<1>2. CASE /\ ~kept /\ Promotable(c, j) /\ rows' = PromoteNext(c, j)
           /\ Enqueue(TaskOf(j, FirstQueued(c, j), NoExec))
  <2>1. JobOf[FirstQueued(c, j)] = j
    BY <1>2, FirstQueuedLemma DEF Promotable, Queued, ItemsIn
  <2>2. SendsOwn
    <3>1. OwnTask(TaskOf(j, FirstQueued(c, j), NoExec))
      BY <2>1 DEF OwnTask, TaskOf
    <3> QED BY <1>2, <3>1, EnqueueOwn
  <2>3. /\ Moves(c, rows', j)
        /\ \A i \in Items : \/ rows'.item[i].status = c.item[i].status
                            \/ rows'.item[i].status = "pending"
    BY <1>2, PromoteNextMoves
  <2>4. \A i \in Items : rows'.item[i].status = "cancelled" =>
                         c.item[i].status = "cancelled"
    BY <2>3
  <2> QED BY <1>2, <2>2, <2>3, <2>4
<1> QED BY <1>1, <1>2 DEF Advance

\* The entry of a pending recording is its own.
LEMMA PendingTaskOwn ==
  ASSUME NEW d \in Rows, NEW j \in Jobs, Sound(d), PendingTask(d, j) # NoTask
  PROVE  OwnTask(PendingTask(d, j))
<1> DEFINE i == FindPending(d, j)
           E == PendingExecs(d, j)
           e == CHOOSE x \in E : TRUE
<1>1. CASE i # NoItem
  <2>1. i \in Items /\ JobOf[i] = j
    BY <1>1 DEF FindPending, ItemsIn
  <2>2. d.item[i].exec # NoExec => JobOf[d.item[i].exec] = j
    BY <2>1 DEF Sound
  <2>3. PendingTask(d, j) = TaskOf(j, i, d.item[i].exec)
    BY <1>1 DEF PendingTask
  <2> HIDE DEF i
  <2> QED BY <2>1, <2>2, <2>3 DEF OwnTask, TaskOf
<1>2. CASE i = NoItem /\ E = {}
  <2>1. PendingTask(d, j) = TaskOf(j, NoItem, NoExec)
    BY <1>2 DEF PendingTask
  <2> QED BY <2>1 DEF OwnTask, TaskOf
<1>3. CASE i = NoItem /\ E # {}
  <2>1. JobOf[e] = j
    <3>1. e \in E
      BY <1>3
    <3> HIDE DEF e
    <3> QED BY <3>1 DEF PendingExecs, ExecsOf
  <2>2. PendingTask(d, j) = TaskOf(j, NoItem, e)
    BY <1>3 DEF PendingTask
  <2> HIDE DEF e
  <2> QED BY <2>1, <2>2 DEF OwnTask, TaskOf
<1> QED BY <1>1, <1>2, <1>3

\* A fence stays.
LEMMA FencedKept ==
  ASSUME ExecsFinal(rows, rows'), NEW r \in CommittedRow, FencedWorker(rows, r)
  PROVE  FencedWorker(rows', r)
BY DEF ExecsFinal, FencedWorker, CommittedRow, Fenced

\* One worker moves on, the others stay as they are.
LEMMA SetOwn ==
  ASSUME TypeInv, OwnWorkers, ExecsFinal(rows, rows'), NEW w \in Workers, NEW r, Set(w, r),
         OwnWorker(r), FencedWorker(rows', r)
  PROVE  OwnWorkers'
<1>1. \A v \in Workers : worker'[v] = IF v = w THEN r ELSE worker[v]
  BY TypeParts DEF Set
<1>2. \A v \in Workers : worker[v] \in CommittedRow
  BY TypeParts
<1>3. ASSUME NEW v \in Workers PROVE OwnWorker(worker'[v]) /\ FencedWorker(rows', worker'[v])
  BY <1>1, <1>2, FencedKept DEF OwnWorkers
<1> QED BY <1>3 DEF OwnWorkers

\* No worker moves.
LEMMA StillOwn ==
  ASSUME TypeInv, OwnWorkers, ExecsFinal(rows, rows'), UNCHANGED worker
  PROVE  OwnWorkers'
<1>1. \A v \in Workers : worker[v] \in CommittedRow
  BY TypeParts
<1>2. ASSUME NEW v \in Workers PROVE OwnWorker(worker'[v]) /\ FencedWorker(rows', worker'[v])
  BY <1>1, FencedKept DEF OwnWorkers
<1> QED BY <1>2 DEF OwnWorkers

\* A worker with nothing in hand owns nothing.
LEMMA FreeOwn ==
  ASSUME NEW d
  PROVE  /\ OwnWorker(IdleWorker) /\ OwnWorker(OffWorker)
         /\ FencedWorker(d, IdleWorker) /\ FencedWorker(d, OffWorker)
BY DEF OwnWorker, FencedWorker, IdleWorker, OffWorker

\* What the steps other than a publication are shown to do.
Lawful == RowsFinal /\ RunsProtected /\ Unpublished(rows, rows') /\ OwnChannel'

\* A step that changes the rows of one recording.
LEMMA KeepsLawful ==
  ASSUME Sound(rows), NEW j, Keeps(rows, rows', j), j \notin protected \/ RunsProtected,
         OwnChannel'
  PROVE  Lawful
BY FinalRows, WithinUnprotected DEF Keeps, Lawful

\* A step that changes no run and no execution.
LEMMA StillLawful ==
  ASSUME Sound(rows), rows'.item = rows.item, rows'.exec = rows.exec, OwnChannel'
  PROVE  Lawful
<1> DEFINE j == CHOOSE x : x \notin protected
<1>1. Moves(rows, rows', j)
  BY StillMoves
<1>2. RunsProtected
  BY SameItemsProtected
<1> HIDE DEF j
<1> QED BY <1>1, <1>2, MovesKeep, KeepsLawful

\* Additions to and edits of the waiting line.
LEMMA LineLawful ==
  ASSUME TypeInv, BindInv,
         \/ \E j \in Jobs, i \in Items : AddRun(j, i)
         \/ \E j \in Jobs : ReorderRuns(j) \/ ClearRuns(j)
         \/ \E i \in Items : CancelRun(i)
  PROVE  Lawful /\ UNCHANGED worker
<1>1. rows \in Rows /\ DispatchType /\ Sound(rows) /\ OwnChannel
  BY TypeParts DEF BindInv
<1>2. ASSUME NEW j \in Jobs, NEW i \in Items, AddRun(j, i) PROVE Lawful /\ UNCHANGED worker
  <2> DEFINE c == AppendRun(rows, j, i)
  <2>1. c \in Rows /\ \A k \in Items \ {i} : c.item[k] = rows.item[k]
    BY <1>1, AppendRunLemma
  <2>2. Moves(rows, c, j) /\ c.item[i].status = "queued"
    BY <1>1, <1>2, AppendRunMoves DEF AddRun
  <2>3. Advance(c, j, Owned(j), j \in protected) /\ UNCHANGED <<worker, protected>>
    BY <1>2 DEF AddRun, quiet
  <2> HIDE DEF c
  <2>4. Moves(c, rows', j) /\ SendsOwn /\ (j \in protected => rows' = c)
    BY <2>1, <2>3, AdvanceOwn
  <2>5. Keeps(rows, rows', j)
    BY <2>2, <2>4, MovesCompose, MovesKeep
  <2>6. j \in protected => RunsProtected
    BY <2>1, <2>2, <2>4 DEF RunsProtected
  <2> QED BY <1>1, <2>3, <2>4, <2>5, <2>6, SendKeepsOwn, KeepsLawful
<1>3. ASSUME NEW j \in Jobs, NEW c, Moves(rows, c, j), EditLine(c),
             \A i \in Items : c.item[i] # rows.item[i] =>
               c.item[i].status \in {"queued", "cancelled"}
      PROVE  Lawful /\ UNCHANGED worker
  <2>1. rows' = c /\ UNCHANGED <<channel, worker>>
    BY <1>3 DEF EditLine, quiet
  <2>2. Keeps(rows, rows', j) /\ RunsProtected
    BY <1>3, <2>1, MovesKeep DEF RunsProtected
  <2>3. OwnChannel'
    BY <1>1, <2>1 DEF OwnChannel
  <2> QED BY <1>1, <2>1, <2>2, <2>3, KeepsLawful
<1>4. ASSUME NEW j \in Jobs, ReorderRuns(j) PROVE Lawful /\ UNCHANGED worker
  <2>1. PICK place \in Orders(rows, j) : EditLine(ReorderQueued(rows, place))
    BY <1>4 DEF ReorderRuns
  <2>2. /\ Moves(rows, ReorderQueued(rows, place), j)
        /\ \A i \in Items : ReorderQueued(rows, place).item[i] # rows.item[i] =>
             ReorderQueued(rows, place).item[i].status = "queued"
    BY <1>1, ReorderMoves
  <2> QED BY <1>3, <2>1, <2>2
<1>5. ASSUME NEW j \in Jobs, ClearRuns(j) PROVE Lawful /\ UNCHANGED worker
  <2>1. /\ Moves(rows, ClearQueued(rows, j), j)
        /\ \A i \in Items : ClearQueued(rows, j).item[i] # rows.item[i] =>
             ClearQueued(rows, j).item[i].status = "cancelled"
    BY <1>1, ClearQueuedMoves
  <2> QED BY <1>3, <1>5, <2>1 DEF ClearRuns
<1>6. ASSUME NEW i \in Items, CancelRun(i) PROVE Lawful /\ UNCHANGED worker
  <2>1. rows.item[i].status = "queued" /\ EditLine(CancelQueued(rows, i))
    BY <1>6 DEF CancelRun
  <2>2. /\ Moves(rows, CancelQueued(rows, i), JobOf[i])
        /\ \A k \in Items : CancelQueued(rows, i).item[k] # rows.item[k] =>
             CancelQueued(rows, i).item[k].status \in {"queued", "cancelled"}
    BY <1>1, <2>1, CancelQueuedMoves
  <2>3. JobOf[i] \in Jobs
    BY IdAssumption
  <2> QED BY <1>3, <2>1, <2>2, <2>3
<1> QED BY <1>2, <1>4, <1>5, <1>6

\* Requests that write a recording's status or none, and the deletion.
LEMMA StatusLawful ==
  ASSUME TypeInv, BindInv, ProtInv, NEW j \in Jobs,
         \/ ReserveJobDeletion(j) \/ DeleteJob(j) \/ ReleaseDeletion(j)
         \/ StartImmediateRun(j) \/ RenameRead(j) \/ RenameSave(j)
         \/ AutoStartSave(j) \/ AutoStartEnqueue(j)
  PROVE  Lawful /\ UNCHANGED worker
<1>1. rows \in Rows /\ DispatchType /\ Sound(rows) /\ OwnChannel
  BY TypeParts DEF BindInv
<1>2. CASE DeleteJob(j)
  <2>1. /\ j \in deleting /\ rows' = DeleteWithAssociations(rows, j)
        /\ UNCHANGED <<channel, worker>>
    BY <1>2 DEF DeleteJob, quiet
  <2>2. j \notin protected
    BY <2>1 DEF ProtInv
  <2>3. OwnChannel'
    BY <1>1, <2>1 DEF OwnChannel
  <2> QED BY <1>1, <2>1, <2>2, <2>3, DeleteKeepsFinal, KeepsLawful
<1>3. CASE \/ ReserveJobDeletion(j) \/ ReleaseDeletion(j) \/ RenameRead(j)
           \/ StartImmediateRun(j) \/ RenameSave(j) \/ AutoStartSave(j) \/ AutoStartEnqueue(j)
  <2>1. /\ UNCHANGED worker
        /\ \/ rows' = rows
           \/ \E s : rows' = SetJob(rows, j, s)
           \/ \E s : rows' = [rows EXCEPT !.job[j] = s]
        /\ UNCHANGED channel \/ Enqueue(TaskOf(j, NoItem, NoExec))
    BY <1>3 DEF ReserveJobDeletion, ReleaseDeletion, RenameRead, StartImmediateRun,
                RenameSave, AutoStartSave, AutoStartEnqueue, quiet
  <2>2. rows'.item = rows.item /\ rows'.exec = rows.exec
    <3>1. \A s : /\ SetJob(rows, j, s).item = rows.item
                 /\ SetJob(rows, j, s).exec = rows.exec
      BY <1>1, SetJobMoves
    <3>2. \A s : LET c == [rows EXCEPT !.job[j] = s]
                 IN  c.item = rows.item /\ c.exec = rows.exec
      BY <1>1 DEF Rows
    <3> QED BY <2>1, <3>1, <3>2
  <2>3. SendsOwn
    <3>1. OwnTask(TaskOf(j, NoItem, NoExec))
      BY DEF OwnTask, TaskOf
    <3> QED BY <2>1, <3>1, EnqueueOwn DEF SendsOwn
  <2> QED BY <1>1, <2>1, <2>2, <2>3, SendKeepsOwn, StillLawful
<1> QED BY <1>2, <1>3

\* A stop of a worker fences the execution the worker is known to run.
LEMMA KillRunningLawful ==
  ASSUME TypeInv, OwnerInv, BindInv, NEW r \in StopRequest, KillRunning(r)
  PROVE  Lawful /\ OwnWorkers'
<1> DEFINE w == running[r.job]
           e == worker[w].bound
           b == worker[w].stopped \/ ~TimedOut(w)
           x == [worker[w] EXCEPT !.stopped = b]
<1>1. rows \in Rows /\ DispatchType /\ Sound(rows) /\ OwnChannel /\ OwnWorkers
  BY TypeParts DEF BindInv
<1>2. w \in Workers /\ r.job \in Jobs /\ Owned(r.job)
  BY TypeParts DEF KillRunning, Owned, StopRequest, RestType
<1>3. worker[w].pc \in Owning /\ worker[w].task.job = r.job
  BY <1>2 DEF OwnerInv, OneOwner
<1>4. worker[w] \in CommittedRow /\ e \in Execs \cup {NoExec}
  BY <1>2, TypeParts DEF CommittedRow, WorkerRow
<1>5. e # NoExec => JobOf[e] = r.job
  BY <1>1, <1>2, <1>3 DEF OwnWorkers, OwnWorker, Owning
<1>6. /\ UNCHANGED channel
      /\ \/ UNCHANGED <<rows, worker>>
         \/ /\ e # NoExec => CanCancel(rows, e)
            /\ rows' = IF e = NoExec THEN rows ELSE Cancel(rows, r.job, e)
            /\ worker' = [worker EXCEPT ![w] = x]
  BY DEF KillRunning
<1>7. OwnChannel'
  BY <1>1, <1>6 DEF OwnChannel
<1>8. /\ x.pc = worker[w].pc /\ x.task = worker[w].task /\ x.bound = worker[w].bound
      /\ x.exec = worker[w].exec
  <2> HIDE DEF b, w
  <2> QED BY <1>4 DEF CommittedRow, WorkerRow
<1>9. CASE UNCHANGED <<rows, worker>>
  <2>1. Lawful
    BY <1>1, <1>7, <1>9, StillLawful
  <2> QED BY <1>1, <1>9, <2>1 DEF OwnWorkers
<1>10. CASE worker' = [worker EXCEPT ![w] = x] /\ e = NoExec /\ rows' = rows
  <2> HIDE DEF x, b
  <2>1. Lawful
    BY <1>1, <1>7, <1>10, StillLawful
  <2>2. worker[w].pc \notin {"working", "publishing"}
    <3>1. worker[w].pc \in {"working", "publishing"} => worker[w].exec \in Execs
      BY <1>4 DEF CommittedRow
    <3> QED BY <1>1, <1>2, <1>10, <3>1, IdAssumption DEF OwnWorkers, FencedWorker
  <2>3. FencedWorker(rows', x)
    BY <1>8, <2>2 DEF FencedWorker
  <2>4. OwnWorker(x)
    BY <1>1, <1>2, <1>8 DEF OwnWorkers, OwnWorker
  <2>5. Set(w, x)
    BY <1>10 DEF Set
  <2> QED BY <1>1, <1>2, <2>1, <2>3, <2>4, <2>5, SetOwn DEF Lawful, RowsFinal
<1>11. CASE /\ worker' = [worker EXCEPT ![w] = x] /\ e # NoExec /\ CanCancel(rows, e)
            /\ rows' = Cancel(rows, r.job, e)
  <2> HIDE DEF x, b
  <2>1. /\ Keeps(rows, rows', r.job) /\ rows'.item = rows.item
        /\ rows'.exec[e].state = "cancelled"
    BY <1>1, <1>2, <1>4, <1>5, <1>11, CancelKeepsFinal
  <2>2. Lawful
    BY <1>1, <1>7, <2>1, SameItemsProtected, KeepsLawful
  <2>3. FencedWorker(rows', x)
    BY <1>1, <1>2, <1>8, <2>1 DEF OwnWorkers, FencedWorker, Fenced
  <2>4. OwnWorker(x)
    BY <1>1, <1>2, <1>8 DEF OwnWorkers, OwnWorker
  <2>5. Set(w, x)
    BY <1>11 DEF Set
  <2> QED BY <1>1, <1>2, <2>2, <2>3, <2>4, <2>5, SetOwn DEF Lawful, RowsFinal
<1> HIDE DEF x
<1> QED BY <1>6, <1>9, <1>10, <1>11

\* The active run of a recording is a run of it.
LEMMA FindActiveOwn ==
  ASSUME NEW d, NEW j \in Jobs, FindActive(d, j) # NoItem
  PROVE  JobOf[FindActive(d, j)] = j
BY DEF FindActive, ActiveItems, ItemsIn

\* The executions a stop finds in the rows are executions of the recording.
LEMMA PersistedOwn ==
  ASSUME rows \in Rows, Sound(rows), NEW j \in Jobs
  PROVE  \A e \in Persisted(j) : e \in Execs /\ JobOf[e] = j
<1> DEFINE i == FindActive(rows, j)
<1>1. CASE i = NoItem
  BY <1>1 DEF Persisted, UnresolvedExecs, ExecsOf
<1>2. CASE i # NoItem
  <2>1. i \in Items /\ JobOf[i] = j
    BY <1>2, FindActiveOwn, FindType
  <2>2. Persisted(j) = {rows.item[i].exec} \ {NoExec}
    BY <1>2 DEF Persisted
  <2> HIDE DEF i
  <2> QED BY <2>1, <2>2, PersistedType DEF Sound
<1> QED BY <1>1, <1>2

\* A stop without an owner touches the recording it names, and of its runs only the
\* active one if the recording stays protected.
LEMMA KillPersistedLawful ==
  ASSUME TypeInv, BindInv, NEW r \in StopRequest, KillPersisted(r)
  PROVE  Lawful /\ UNCHANGED worker
<1> DEFINE j == r.job
           i == FindActive(rows, j)
           E == Persisted(j)
           e == CHOOSE x \in E : TRUE
           d == IF E = {} THEN rows ELSE Cancel(rows, j, e)
           b == SetJob(d, j, "failed")
           c == MarkActiveCancelled(b, j, i)
           kept == IF E # {} /\ phase = "up" THEN protected \ {j} ELSE protected
<1>1. /\ rows \in Rows /\ DispatchType /\ Sound(rows) /\ OwnChannel
      /\ j \in Jobs /\ i \in Items \cup {NoItem}
  BY FindType, TypeParts DEF BindInv, StopRequest
<1>2. /\ UNCHANGED worker
      /\ \/ UNCHANGED <<rows, channel, scheduled, protected>>
         \/ /\ E # {} => CanCancel(rows, e)
            /\ protected' = kept /\ Advance(c, j, FALSE, j \in kept)
  BY DEF KillPersisted
<1>3. i # NoItem => JobOf[i] = j
  BY <1>1, FindActiveOwn
<1>4. \A x \in E : x \in Execs /\ JobOf[x] = j
  BY <1>1, PersistedOwn
<1> HIDE DEF i, E, j
<1>5. CASE UNCHANGED <<rows, channel, scheduled, protected>>
  <2>1. OwnChannel'
    BY <1>1, <1>5 DEF OwnChannel
  <2> QED BY <1>1, <1>2, <1>5, <2>1, StillLawful
<1>6. CASE /\ E # {} => CanCancel(rows, e)
           /\ protected' = kept /\ Advance(c, j, FALSE, j \in kept)
  <2>1. d \in Rows /\ d.item = rows.item /\ Keeps(rows, d, j)
    <3>1. CASE E = {}
      BY <1>1, <3>1, StillMoves, MovesKeep
    <3>2. CASE E # {}
      <4>1. e \in Execs /\ JobOf[e] = j /\ CanCancel(rows, e)
        BY <1>4, <1>6, <3>2
      <4> HIDE DEF e
      <4> QED BY <1>1, <3>2, <4>1, CancelLemma, CancelKeepsFinal
    <3> QED BY <3>1, <3>2
  <2> HIDE DEF d
  <2>2. b \in Rows /\ b.item = rows.item /\ Keeps(rows, b, j)
    <3>1. b \in Rows /\ Moves(d, b, j) /\ b.item = d.item
      BY <1>1, <2>1, SetJobLemma, SetJobMoves DEF JobStatus
    <3> HIDE DEF b
    <3> QED BY <2>1, <3>1, KeepThenMove
  <2> HIDE DEF b
  <2>3. c \in Rows /\ Keeps(rows, c, j)
        /\ \A k \in Items : c.item[k] # rows.item[k] => c.item[k].status = "cancelled"
    <3>1. /\ c \in Rows /\ Moves(b, c, j)
          /\ \A k \in Items : c.item[k] # b.item[k] => c.item[k].status = "cancelled"
      BY <1>1, <1>3, <2>2, MarkActiveCancelledLemma, MarkActiveCancelledMoves
    <3> HIDE DEF c
    <3> QED BY <2>2, <3>1, KeepThenMove
  <2> HIDE DEF c
  <2>4. Moves(c, rows', j) /\ SendsOwn /\ (j \in kept => rows' = c)
    BY <1>1, <1>6, <2>3, AdvanceOwn
  <2>5. Keeps(rows, rows', j)
    BY <2>3, <2>4, KeepThenMove
  <2>6. RunsProtected
    <3>1. CASE j \in protected'
      BY <1>6, <2>3, <2>4, <3>1 DEF RunsProtected
    <3>2. CASE j \notin protected'
      BY <2>5, <3>2 DEF RunsProtected, Keeps, Within
    <3> QED BY <3>1, <3>2
  <2> QED BY <1>1, <1>2, <2>4, <2>5, <2>6, SendKeepsOwn, KeepsLawful
<1> HIDE DEF c, kept
<1> QED BY <1>2, <1>5, <1>6

\* More workers start with nothing in hand.
LEMMA GrownOwn ==
  ASSUME TypeInv, BindInv, NEW n \in Workers, SetWorkers(n)
  PROVE  Lawful /\ OwnWorkers'
<1>1. Sound(rows) /\ OwnChannel /\ OwnWorkers /\ worker \in [Workers -> CommittedRow]
  BY TypeParts DEF BindInv
<1>2. UNCHANGED <<rows, channel>> /\ worker' = Grown(n)
  BY DEF SetWorkers
<1>3. \A v \in Workers : worker'[v] \in {worker[v], IdleWorker}
  BY <1>2 DEF Grown
<1>4. OwnWorkers'
  BY <1>1, <1>2, <1>3, FreeOwn DEF OwnWorkers
<1>5. OwnChannel'
  BY <1>1, <1>2 DEF OwnChannel
<1> QED BY <1>1, <1>2, <1>4, <1>5, StillLawful

\* A stop that is admitted changes nothing yet.
LEMMA RequestStopLawful ==
  ASSUME BindInv, NEW r \in StopRequest, RequestStop(r)
  PROVE  Lawful /\ UNCHANGED worker
<1>1. UNCHANGED <<rows, channel, worker>> /\ Sound(rows) /\ OwnChannel
  BY DEF RequestStop, BindInv
<1>2. OwnChannel'
  BY <1>1 DEF OwnChannel
<1> QED BY <1>1, <1>2, StillLawful

\* The only pending run of a recording is the one its entry names.
LEMMA PendingTaskNames ==
  ASSUME NEW d \in Rows, SingleActive(d), NEW j \in Jobs, NEW i \in Items, JobOf[i] = j,
         d.item[i].status = "pending"
  PROVE  PendingTask(d, j) = TaskOf(j, i, d.item[i].exec)
<1>1. i \in ItemsIn(d, j, {"pending"})
  BY DEF ItemsIn
<1>2. FindPending(d, j) \in ItemsIn(d, j, {"pending"})
  BY <1>1 DEF FindPending
<1>3. ItemsIn(d, j, {"pending"}) \in SUBSET ActiveItems(d, j)
  BY DEF ItemsIn, ActiveItems, ActiveStatus
<1>4. FindPending(d, j) = i
  BY <1>1, <1>2, <1>3 DEF SingleActive
<1>5. i # NoItem
  BY IdAssumption
<1> QED BY <1>4, <1>5 DEF PendingTask

\* A resume readmits one run and lifts the protection of its recording.
LEMMA ResumeLawful ==
  ASSUME TypeInv, BindInv, OneActiveRun, NEW j \in Jobs, NEW e \in Execs, ResumeExecution(j, e)
  PROVE  Lawful /\ UNCHANGED worker
<1> DEFINE admitted == rows.exec[e].state = "pending" /\ rows.exec[e].status = "pending"
           d == IF admitted THEN rows ELSE RequestResume(rows, j, e)
           task == PendingTask(d, j)
           i == rows.exec[e].item
<1>1. rows \in Rows /\ DispatchType /\ Sound(rows) /\ OwnChannel /\ SingleActive(rows)
  BY TypeParts DEF BindInv, OneActiveRun, SingleActive
<1>2. /\ rows' = d /\ JobOf[e] = j /\ UNCHANGED worker
      /\ admitted \/ Resumable(rows, j, e)
      /\ \/ /\ task # NoTask /\ task.exec = e
            /\ protected' = protected \ {j} /\ Enqueue(task)
         \/ /\ ~(task # NoTask /\ task.exec = e)
            /\ UNCHANGED <<protected, channel, scheduled>>
  <2> HIDE DEF task
  <2> QED BY DEF ResumeExecution, task
<1>3. d \in Rows /\ SingleActive(d)
  BY <1>1, <1>2, RequestResumeLemma, RequestResumeSingle
<1>4. /\ Unpublished(rows, d) /\ RunsResumed(rows, d) /\ Sound(d) /\ ExecsFinal(rows, d)
      /\ \A k \in Items : d.item[k] # rows.item[k] =>
           /\ k = i /\ i # NoItem /\ JobOf[i] = j
           /\ d.item[i].status = "pending" /\ d.item[i].exec = e
  <2>1. CASE admitted
    <3>1. d = rows
      BY <2>1
    <3> QED BY <1>1, <3>1 DEF Unpublished, RunsResumed, ExecsFinal, Fenced
  <2>2. CASE ~admitted
    <3>1. d = RequestResume(rows, j, e) /\ Resumable(rows, j, e)
      BY <1>2, <2>2
    <3> HIDE DEF d
    <3> QED BY <1>1, <1>2, <3>1, RequestResumeFinal
  <2> QED BY <2>1, <2>2
<1> HIDE DEF d
<1>5. RowsFinal /\ Unpublished(rows, rows')
  BY <1>2, <1>4 DEF RowsFinal
<1>6. RunsProtected
  <2> SUFFICES ASSUME NEW k \in Items, d.item[k] # rows.item[k]
               PROVE  JobOf[k] \notin protected'
    BY <1>2 DEF RunsProtected
  <2>1. k = i /\ JobOf[k] = j /\ d.item[k].status = "pending" /\ d.item[k].exec = e
    BY <1>4
  <2>2. task = TaskOf(j, k, e)
    BY <1>3, <2>1, PendingTaskNames
  <2>3. task # NoTask /\ task.exec = e
    BY <2>2, TaskOfType, TaskAssumption DEF TaskOf
  <2> QED BY <1>2, <2>1, <2>3
<1>7. OwnChannel'
  <2>1. CASE task # NoTask /\ Enqueue(task)
    BY <1>1, <1>3, <1>4, <2>1, PendingTaskOwn, EnqueueOwn, SendKeepsOwn
  <2>2. CASE UNCHANGED <<channel, scheduled>>
    BY <1>1, <2>2 DEF OwnChannel
  <2> QED BY <1>2, <2>1, <2>2
<1> QED BY <1>2, <1>5, <1>6, <1>7 DEF Lawful

\* What all requests are shown to do.
LEMMA RequestsLawful ==
  ASSUME TypeInv, OwnerInv, BindInv, ProtInv, OneActiveRun, Requests
  PROVE  Lawful /\ OwnWorkers'
<1>1. Jobs \in SUBSET Jobs /\ Immediate \in SUBSET Jobs /\ Renames \in SUBSET Jobs
      /\ AutoStarts \in SUBSET Jobs
  BY QueueAssumption
<1>2. ASSUME Lawful, UNCHANGED worker PROVE Lawful /\ OwnWorkers'
  <2>1. OwnWorkers /\ ExecsFinal(rows, rows')
    BY <1>2 DEF BindInv, Lawful, RowsFinal
  <2> QED BY <1>2, <2>1, StillOwn
<1>3. CASE \/ \E j \in Jobs, i \in Items : AddRun(j, i)
           \/ \E j \in Jobs : ReorderRuns(j) \/ ClearRuns(j)
           \/ \E i \in Items : CancelRun(i)
  BY <1>2, <1>3, LineLawful
<1>4. ASSUME NEW j \in Jobs,
             \/ ReserveJobDeletion(j) \/ DeleteJob(j) \/ ReleaseDeletion(j)
             \/ StartImmediateRun(j) \/ RenameRead(j) \/ RenameSave(j)
             \/ AutoStartSave(j) \/ AutoStartEnqueue(j)
      PROVE  Lawful /\ OwnWorkers'
  BY <1>2, <1>4, StatusLawful
<1>5. CASE \E n \in Workers : SetWorkers(n)
  BY <1>5, GrownOwn
<1>6. ASSUME NEW r \in StopRequest, RequestStop(r) \/ Stop(r) PROVE Lawful /\ OwnWorkers'
  BY <1>2, <1>6, RequestStopLawful, KillRunningLawful, KillPersistedLawful DEF Stop
<1>7. ASSUME NEW j \in Jobs, NEW e \in Execs, ResumeExecution(j, e) PROVE Lawful /\ OwnWorkers'
  BY <1>2, <1>7, ResumeLawful
<1> QED BY <1>1, <1>3, <1>4, <1>5, <1>6, <1>7, ZenonT(60) DEF Requests

\* What is published is published by the owner, which no stop has reached.
PublishedByOwner ==
  \A e \in Execs : rows.exec[e].state # "completed" /\ rows'.exec[e].state = "completed" =>
    /\ Owned(JobOf[e])
    /\ worker[running[JobOf[e]]].exec = e
    /\ worker[running[JobOf[e]]].gen = rows'.exec[e].gen
    /\ ~worker[running[JobOf[e]]].stopped

\* What every step is shown to do.
Rightful == RowsFinal /\ RunsProtected /\ PublishedByOwner /\ OwnChannel' /\ OwnWorkers'

\* A step that publishes nothing has no author to name.
LEMMA LawfulRightful ==
  ASSUME Lawful, OwnWorkers'
  PROVE  Rightful
BY DEF Lawful, Rightful, Unpublished, PublishedByOwner

\* The rows of a worker that goes on with its task keep to its recording.
LEMMA FormsOwn ==
  ASSUME NEW x \in CommittedRow, x.pc \notin {"off", "idle"}, OwnWorker(x)
  PROVE  /\ OwnWorker([x EXCEPT !.pc = "claimed", !.bound = x.task.exec])
         /\ \A e \in Execs, g \in Nat : JobOf[e] = x.task.job =>
              OwnWorker([x EXCEPT !.pc = "begun", !.exec = e, !.gen = g])
         /\ x.pc = "begun" => OwnWorker([x EXCEPT !.pc = "working", !.bound = x.exec])
         /\ \A s : OwnWorker([x EXCEPT !.pc = "returned", !.result = s])
         /\ x.pc = "working" =>
              \A s : OwnWorker([x EXCEPT !.pc = "publishing", !.result = s])
         /\ \A s : OwnWorker([x EXCEPT !.pc = "closing", !.outcome = s])
<1>1. x \in WorkerRow
  BY DEF CommittedRow
<1>2. /\ OwnTask(x.task)
      /\ x.bound # NoExec => JobOf[x.bound] = x.task.job
      /\ x.pc \in {"begun", "working", "publishing"} => JobOf[x.exec] = x.task.job
  BY DEF OwnWorker
<1>3. OwnWorker([x EXCEPT !.pc = "claimed", !.bound = x.task.exec])
  BY <1>1, <1>2 DEF OwnWorker, WorkerRow, OwnTask
<1>4. \A e \in Execs, g \in Nat : JobOf[e] = x.task.job =>
        OwnWorker([x EXCEPT !.pc = "begun", !.exec = e, !.gen = g])
  BY <1>1, <1>2 DEF OwnWorker, WorkerRow
<1>5. x.pc = "begun" => OwnWorker([x EXCEPT !.pc = "working", !.bound = x.exec])
  BY <1>1, <1>2 DEF OwnWorker, WorkerRow
<1>6. \A s : OwnWorker([x EXCEPT !.pc = "returned", !.result = s])
  BY <1>1, <1>2 DEF OwnWorker, WorkerRow
<1>7. x.pc = "working" => \A s : OwnWorker([x EXCEPT !.pc = "publishing", !.result = s])
  BY <1>1, <1>2 DEF OwnWorker, WorkerRow
<1>8. \A s : OwnWorker([x EXCEPT !.pc = "closing", !.outcome = s])
  BY <1>1, <1>2 DEF OwnWorker, WorkerRow
<1> QED BY <1>3, <1>4, <1>5, <1>6, <1>7, <1>8

\* Only while adapters run is there something to fence.
LEMMA FormsFenced ==
  ASSUME NEW x \in CommittedRow, NEW d
  PROVE  /\ FencedWorker(d, [x EXCEPT !.pc = "claimed", !.bound = x.task.exec])
         /\ \A e, g : FencedWorker(d, [x EXCEPT !.pc = "begun", !.exec = e, !.gen = g])
         /\ ~x.stopped => FencedWorker(d, [x EXCEPT !.pc = "working", !.bound = x.exec])
         /\ \A s : FencedWorker(d, [x EXCEPT !.pc = "returned", !.result = s])
         /\ x.pc = "working" /\ FencedWorker(d, x) =>
              \A s : FencedWorker(d, [x EXCEPT !.pc = "publishing", !.result = s])
         /\ \A s : FencedWorker(d, [x EXCEPT !.pc = "closing", !.outcome = s])
<1>1. x \in WorkerRow
  BY DEF CommittedRow
<1> QED BY <1>1 DEF FencedWorker, WorkerRow

\* An owner's recording is not protected, and all the owner names is of it.
LEMMA OwnerFacts ==
  ASSUME TypeInv, OwnerInv, BindInv, ProtInv, NEW w \in Workers, worker[w].pc \in Owning
  PROVE  /\ rows \in Rows /\ Sound(rows) /\ DispatchType /\ OwnChannel /\ OwnWorkers
         /\ worker[w] \in CommittedRow /\ worker[w].pc \notin {"off", "idle"}
         /\ worker[w].task.job \in Jobs /\ worker[w].task.job \notin protected
         /\ running[worker[w].task.job] = w /\ Owned(worker[w].task.job)
         /\ OwnTask(worker[w].task) /\ OwnWorker(worker[w]) /\ FencedWorker(rows, worker[w])
<1>1. worker[w].pc \notin {"off", "idle"}
  BY DEF Owning
<1>2. running[worker[w].task.job] = w /\ w # 0
  BY DEF OwnerInv, OneOwner, Workers
<1>3. /\ rows \in Rows /\ Sound(rows) /\ DispatchType /\ OwnChannel /\ OwnWorkers
      /\ worker[w] \in CommittedRow /\ worker[w].task.job \in Jobs
  BY <1>1, TypeParts, TaskParts DEF BindInv
<1> QED BY <1>1, <1>2, <1>3 DEF OwnWorkers, OwnWorker, ProtInv, Owned

\* A step of a worker on the rows of a recording that is not protected.
LEMMA WorkerRightful ==
  ASSUME TypeInv, BindInv, NEW w \in Workers, NEW j, j \notin protected,
         Keeps(rows, rows', j), OwnChannel',
         \/ UNCHANGED worker
         \/ \E r : Set(w, r) /\ OwnWorker(r) /\ FencedWorker(rows', r)
  PROVE  Rightful
<1>1. Lawful
  BY KeepsLawful DEF BindInv
<1>2. OwnWorkers /\ ExecsFinal(rows, rows')
  BY <1>1 DEF BindInv, Lawful, RowsFinal
<1>3. OwnWorkers'
  BY <1>2, SetOwn, StillOwn
<1> QED BY <1>1, <1>3, LawfulRightful

\* A worker receives an entry of its recording.
LEMMA ReceiveRightful ==
  ASSUME TypeInv, BindInv, NEW w \in Workers, Receive(w)
  PROVE  Rightful
<1> DEFINE t == Head(channel)
           r == [IdleWorker EXCEPT !.pc = "holding", !.task = t, !.seen = rows.job[t.job]]
<1>1. /\ channel \in Seq(Task) /\ channel # << >> /\ channel' = Tail(channel)
      /\ UNCHANGED rows /\ (worker' = worker \/ Set(w, r))
      /\ Sound(rows) /\ OwnChannel /\ OwnWorkers
  BY TypeParts DEF Receive, DispatchType, BindInv
<1>2. OwnTask(t)
  <2>1. t = channel[1] /\ 1 \in 1..Len(channel)
    BY <1>1
  <2> QED BY <1>1, <2>1 DEF OwnChannel
<1>3. OwnChannel'
  <2>1. \A p \in 1..Len(channel') : /\ p + 1 \in 1..Len(channel)
                                    /\ channel'[p] = channel[p + 1]
    BY <1>1
  <2> QED BY <1>1, <2>1 DEF OwnChannel
<1>4. Lawful
  <2> HIDE DEF r
  <2>1. rows'.item = rows.item /\ rows'.exec = rows.exec
    BY <1>1
  <2> QED BY <1>1, <1>3, <2>1, StillLawful
<1>5. r.pc = "holding" /\ r.task = t /\ r.bound = NoExec
  <2> HIDE DEF t
  <2> QED BY DEF IdleWorker, OffWorker
<1>6. OwnWorker(r) /\ FencedWorker(rows', r)
  <2> HIDE DEF r
  <2> QED BY <1>2, <1>5 DEF OwnWorker, FencedWorker
<1>7. OwnWorkers'
  <2> HIDE DEF r
  <2>1. ExecsFinal(rows, rows')
    BY <1>4 DEF Lawful, RowsFinal
  <2> QED BY <1>1, <1>6, <2>1, SetOwn, StillOwn
<1> QED BY <1>4, <1>7, LawfulRightful

\* A claim, of a recording that is not protected, or an entry dropped.
LEMMA ClaimRightful ==
  ASSUME TypeInv, BindInv, NEW w \in Workers, Claim(w)
  PROVE  Rightful
<1> DEFINE t == worker[w].task
           j == t.job
           r == [worker[w] EXCEPT !.pc = "claimed", !.bound = t.exec]
<1>1. /\ rows \in Rows /\ Sound(rows) /\ OwnChannel /\ OwnWorkers
      /\ worker[w] \in CommittedRow /\ worker[w].pc = "holding"
      /\ j \in Jobs /\ t.item \in Items \cup {NoItem} /\ UNCHANGED channel
  <2>1. worker[w].pc = "holding"
    BY DEF Claim
  <2> QED BY <2>1, TypeParts, TaskParts DEF BindInv, Claim
<1>2. OwnChannel'
  BY <1>1 DEF OwnChannel
<1>3. CASE ~Takes(w)
  <2>1. UNCHANGED rows /\ Set(w, IdleWorker)
    BY <1>3 DEF Claim, Drop
  <2>2. Lawful
    BY <1>1, <1>2, <2>1, StillLawful
  <2>3. OwnWorkers'
    BY <1>1, <2>1, <2>2, FreeOwn, SetOwn DEF Lawful, RowsFinal
  <2> QED BY <2>2, <2>3, LawfulRightful
<1>4. CASE Takes(w)
  <2>1. /\ j \notin protected /\ Set(w, r)
        /\ t.item # NoItem => CanClaimItem(rows, j, t.item)
        /\ rows' = IF t.item # NoItem THEN ClaimItem(rows, j, t.item)
                   ELSE SetJob(rows, j, "processing")
    BY <1>4 DEF Claim, Takes, Claimable
  <2>2. Keeps(rows, rows', j)
    BY <1>1, <2>1, ClaimItemMoves, SetJobMoves, MovesKeep
  <2>3. OwnWorker(r) /\ FencedWorker(rows', r)
    BY <1>1, FormsOwn, FormsFenced DEF OwnWorkers
  <2> HIDE DEF r
  <2> QED BY <1>2, <2>1, <2>2, <2>3, WorkerRightful
<1> QED BY <1>3, <1>4

\* The executions the processor begins, resumes, refuses and registers are its own.
LEMMA BeginRightful ==
  ASSUME TypeInv, OwnerInv, BindInv, ProtInv, NEW w \in Workers, NEW e \in Execs,
         BeginRun(w, e) \/ TakeResume(w)
  PROVE  Rightful
<1> DEFINE t == worker[w].task
           j == t.job
           r(f, g) == [worker[w] EXCEPT !.pc = "begun", !.exec = f, !.gen = g]
<1>1. worker[w].pc \in Owning /\ UNCHANGED channel
  BY DEF BeginRun, TakeResume, Processing, Owning, Pc
<1>2. /\ rows \in Rows /\ worker[w] \in CommittedRow /\ worker[w].pc \notin {"off", "idle"}
      /\ j \in Jobs /\ j \notin protected
      /\ OwnTask(t) /\ OwnWorker(worker[w]) /\ OwnChannel
      /\ t.item \in Items \cup {NoItem} /\ t.exec \in Execs \cup {NoExec}
  BY <1>1, OwnerFacts, TaskParts
<1>3. OwnChannel'
  BY <1>1, <1>2 DEF OwnChannel
<1>4. CASE BeginRun(w, e)
  <2> DEFINE x == IF e \in Timed THEN "ahead" ELSE "unset"
  <2>1. /\ JobOf[e] = j /\ rows.exec[e].state = "none" /\ CanBegin(rows, j, t.item, e)
        /\ rows' = Begin(rows, t.item, e, x) /\ Set(w, r(e, 1))
    BY <1>4 DEF BeginRun
  <2>2. x \in Deadline
    BY DEF Deadline
  <2>3. Keeps(rows, rows', j)
    <3>1. t.item # NoItem => CanBind(rows, t.item, e) /\ JobOf[t.item] = JobOf[e]
      BY <1>2, <2>1 DEF CanBegin, OwnTask
    <3> HIDE DEF x, t
    <3> QED BY <1>2, <2>1, <2>2, <3>1, BeginKeepsFinal
  <2>4. OwnWorker(r(e, 1)) /\ FencedWorker(rows', r(e, 1))
    BY <1>2, <2>1, FormsOwn, FormsFenced
  <2> HIDE DEF r
  <2> QED BY <1>2, <1>3, <2>1, <2>3, <2>4, WorkerRightful
<1>5. CASE TakeResume(w)
  <2> DEFINE f == t.exec
             g == rows.exec[f].gen
  <2>1. /\ f \in Execs /\ CanClaimResume(rows, f)
        /\ rows' = ClaimResume(rows, f) /\ Set(w, r(f, g))
    BY <1>2, <1>5 DEF TakeResume
  <2>2. JobOf[f] = j /\ g \in Nat
    <3>1. f # NoExec
      BY <2>1, IdAssumption
    <3> QED BY <1>2, <2>1, <3>1 DEF OwnTask, Rows, ExecRow
  <2>3. Keeps(rows, rows', j)
    BY <1>2, <2>1, <2>2, ClaimResumeKeepsFinal
  <2> HIDE DEF f, g
  <2>4. OwnWorker(r(f, g)) /\ FencedWorker(rows', r(f, g))
    BY <1>2, <2>1, <2>2, FormsOwn, FormsFenced
  <2> HIDE DEF r
  <2> QED BY <1>2, <1>3, <2>1, <2>3, <2>4, WorkerRightful
<1> QED BY <1>4, <1>5

\* A run refused before it began may end an expired resume, of its own recording.
LEMMA RefuseRightful ==
  ASSUME TypeInv, OwnerInv, BindInv, ProtInv, NEW w \in Workers, Refuse(w)
  PROVE  Rightful
<1> DEFINE t == worker[w].task
           j == t.job
           r == [worker[w] EXCEPT !.pc = "returned", !.result = "error"]
<1>1. worker[w].pc \in Owning /\ UNCHANGED channel /\ Set(w, r)
  BY DEF Refuse, Returned, Processing, Owning, Pc
<1>2. /\ rows \in Rows /\ worker[w] \in CommittedRow /\ worker[w].pc \notin {"off", "idle"}
      /\ j \in Jobs /\ j \notin protected
      /\ OwnTask(t) /\ OwnWorker(worker[w]) /\ OwnChannel
      /\ t.exec \in Execs \cup {NoExec}
  BY <1>1, OwnerFacts, TaskParts
<1>3. OwnChannel'
  BY <1>1, <1>2 DEF OwnChannel
<1>4. Keeps(rows, rows', j)
  <2>1. CASE UNCHANGED rows
    BY <2>1, StillMoves, MovesKeep
  <2>2. CASE ExpiresUnclaimed(w) /\ rows' = ExpirePending(rows, j, t.exec)
    <3>1. t.exec \in Execs /\ JobOf[t.exec] = j /\ CanExpire(rows, j, t.exec)
      BY <1>2, <2>2 DEF ExpiresUnclaimed, OwnTask
    <3> QED BY <1>2, <2>2, <3>1, ExpirePendingKeepsFinal
  <2> QED BY <2>1, <2>2 DEF Refuse
<1>5. OwnWorker(r) /\ FencedWorker(rows', r)
  BY <1>2, FormsOwn, FormsFenced
<1> HIDE DEF r
<1> QED BY <1>1, <1>2, <1>3, <1>4, <1>5, WorkerRightful

\* Registration binds the worker to the execution it has begun, or cancels that one.
LEMMA RegisterRightful ==
  ASSUME TypeInv, OwnerInv, BindInv, ProtInv, NEW w \in Workers, Register(w)
  PROVE  Rightful
<1> DEFINE t == worker[w].task
           j == t.job
           e == worker[w].exec
           r == [worker[w] EXCEPT !.pc = "returned", !.result = "error"]
           b == [worker[w] EXCEPT !.pc = "working", !.bound = e]
<1>1. worker[w].pc = "begun" /\ UNCHANGED channel
  BY DEF Register, Processing
<1>2. /\ rows \in Rows /\ worker[w] \in CommittedRow /\ worker[w].pc \notin {"off", "idle"}
      /\ j \in Jobs /\ j \notin protected
      /\ OwnTask(t) /\ OwnWorker(worker[w]) /\ OwnChannel
      /\ t.item \in Items \cup {NoItem} /\ e \in Execs
  BY <1>1, OwnerFacts, TaskParts DEF Owning, Pc
<1>3. OwnChannel' /\ JobOf[e] = j
  BY <1>1, <1>2 DEF OwnChannel, OwnWorker
<1>4. \/ /\ (rows' = rows \/ (CanCancel(rows, e) /\ rows' = Cancel(rows, j, e)))
         /\ Set(w, r)
      \/ /\ ~CtxDone(w) /\ (t.item # NoItem => CanBind(rows, t.item, e))
         /\ rows' = IF t.item = NoItem THEN rows ELSE BindExecution(rows, t.item, e)
         /\ Set(w, b)
  BY DEF Register, Returned
<1>5. CASE /\ (rows' = rows \/ (CanCancel(rows, e) /\ rows' = Cancel(rows, j, e)))
           /\ Set(w, r)
  <2>1. Keeps(rows, rows', j)
    BY <1>2, <1>3, <1>5, StillMoves, MovesKeep, CancelKeepsFinal
  <2>2. OwnWorker(r) /\ FencedWorker(rows', r)
    BY <1>2, FormsOwn, FormsFenced
  <2> HIDE DEF r
  <2> QED BY <1>2, <1>3, <1>5, <2>1, <2>2, WorkerRightful
<1>6. CASE /\ ~CtxDone(w) /\ (t.item # NoItem => CanBind(rows, t.item, e))
           /\ rows' = IF t.item = NoItem THEN rows ELSE BindExecution(rows, t.item, e)
           /\ Set(w, b)
  <2>1. Keeps(rows, rows', j)
    <3>1. CASE t.item = NoItem
      BY <1>6, <3>1, StillMoves, MovesKeep
    <3>2. CASE t.item # NoItem
      <4>1. /\ rows.item[t.item].status \notin Over /\ JobOf[t.item] = j
            /\ rows' = BindExecution(rows, t.item, e) /\ t.item \in Items
        BY <1>2, <1>6, <3>2 DEF CanBind, Over, OwnTask
      <4> QED BY <1>2, <1>3, <4>1, BindMoves, MovesKeep
    <3> QED BY <3>1, <3>2
  <2>2. ~worker[w].stopped
    BY <1>6 DEF CtxDone, CtxErrors
  <2>3. OwnWorker(b) /\ FencedWorker(rows', b)
    BY <1>1, <1>2, <2>2, FormsOwn, FormsFenced
  <2> HIDE DEF b
  <2> QED BY <1>2, <1>3, <1>6, <2>1, <2>3, WorkerRightful
<1> HIDE DEF r, b
<1> QED BY <1>4, <1>5, <1>6

\* While adapters run the rows change in a budget only, which is no outcome.
LEMMA WorkRightful ==
  ASSUME TypeInv, OwnerInv, BindInv, ProtInv, NEW w \in Workers, SpendBudget(w) \/ Work(w)
  PROVE  Rightful
<1> DEFINE j == worker[w].task.job
           e == worker[w].exec
<1>1. worker[w].pc = "working" /\ UNCHANGED channel
  BY DEF SpendBudget, Work, Processing
<1>2. /\ rows \in Rows /\ worker[w] \in CommittedRow /\ worker[w].pc \notin {"off", "idle"}
      /\ j \in Jobs /\ j \notin protected /\ e \in Execs
      /\ OwnWorker(worker[w]) /\ OwnChannel /\ FencedWorker(rows, worker[w])
  BY <1>1, OwnerFacts, TaskParts DEF Owning, Pc
<1>3. OwnChannel' /\ JobOf[e] = j
  BY <1>1, <1>2 DEF OwnChannel, OwnWorker
<1>4. CASE SpendBudget(w)
  <2> DEFINE r == [rows.exec[e] EXCEPT !.budget = "spent"]
             c == [rows EXCEPT !.exec[e] = r]
  <2>1. rows' = c /\ UNCHANGED worker
    BY <1>4 DEF SpendBudget
  <2>2. r.state = rows.exec[e].state /\ r.status = rows.exec[e].status
    BY <1>2 DEF Rows, ExecRow
  <2> HIDE DEF r
  <2>3. /\ c.exec[e] = r /\ \A k \in Execs : k # e => c.exec[k] = rows.exec[k]
        /\ c.item = rows.item
    BY <1>2, ExecutionRow
  <2> HIDE DEF c
  <2>4. Final(rows, c) /\ Unpublished(rows, c)
    BY <2>2, <2>3, StatesFinal
  <2>5. Keeps(rows, rows', j)
    BY <1>3, <2>1, <2>3, <2>4 DEF Keeps, Within
  <2> QED BY <1>2, <1>3, <2>1, <2>5, WorkerRightful
<1>5. CASE Work(w)
  <2>1. PICK x \in {"ok", "error", "cancelled"} :
          Set(w, [worker[w] EXCEPT !.pc = "publishing", !.result = x])
    BY <1>5 DEF Work
  <2> DEFINE r == [worker[w] EXCEPT !.pc = "publishing", !.result = x]
  <2>2. rows' = rows
    BY <1>5 DEF Work
  <2>3. OwnWorker(r) /\ FencedWorker(rows', r)
    BY <1>1, <1>2, <2>2, FormsOwn, FormsFenced
  <2>4. Keeps(rows, rows', j)
    BY <2>2, StillMoves, MovesKeep
  <2> HIDE DEF r
  <2> QED BY <1>2, <1>3, <2>1, <2>3, <2>4, WorkerRightful DEF r
<1> QED BY <1>4, <1>5

\* Publication: by the owner, of the execution that carries its generation and that
\* no stop has fenced.
LEMMA PublishRightful ==
  ASSUME TypeInv, OwnerInv, BindInv, ProtInv, NEW w \in Workers, Publish(w)
  PROVE  Rightful
<1> DEFINE j == worker[w].task.job
           e == worker[w].exec
           s == IF worker[w].result = "ok" THEN "completed" ELSE "failed"
           r(x) == [worker[w] EXCEPT !.pc = "returned", !.result = x]
<1>1. worker[w].pc = "publishing" /\ UNCHANGED channel
  BY DEF Publish, Processing
<1>2. /\ rows \in Rows /\ worker[w] \in CommittedRow /\ worker[w].pc \notin {"off", "idle"}
      /\ j \in Jobs /\ j \notin protected /\ e \in Execs /\ Sound(rows)
      /\ OwnWorker(worker[w]) /\ OwnChannel /\ OwnWorkers /\ FencedWorker(rows, worker[w])
      /\ running[j] = w /\ Owned(j)
  BY <1>1, OwnerFacts, TaskParts DEF Owning, Pc
<1>3. OwnChannel' /\ JobOf[e] = j
  BY <1>1, <1>2 DEF OwnChannel, OwnWorker
<1>4. PICK x : Set(w, r(x))
  <2>1. Set(w, r("error")) \/ Set(w, r(worker[w].result))
    BY DEF Publish, Returned
  <2> HIDE DEF r
  <2> QED BY <2>1
<1>5. OwnWorker(r(x)) /\ FencedWorker(rows', r(x))
  BY <1>2, FormsOwn, FormsFenced
<1> HIDE DEF r
<1>6. CASE rows' = rows \/ (CanCancel(rows, e) /\ rows' = Cancel(rows, j, e))
  <2>1. Keeps(rows, rows', j)
    BY <1>2, <1>3, <1>6, StillMoves, MovesKeep, CancelKeepsFinal
  <2> QED BY <1>2, <1>3, <1>4, <1>5, <2>1, WorkerRightful
<1>7. CASE CanFinish(rows, e, worker[w].gen, s) /\ rows' = Finish(rows, j, e, s)
  <2>1. s \in {"completed", "failed"}
    OBVIOUS
  <2> HIDE DEF s
  <2>2. /\ Within(rows, rows', j) /\ Final(rows, rows')
        /\ \A k \in Execs : k # e => rows'.exec[k] = rows.exec[k]
        /\ rows'.exec[e].state = s /\ rows'.exec[e].gen = worker[w].gen
    BY <1>2, <1>3, <1>7, <2>1, FinishFinal
  <2>3. RowsFinal /\ RunsProtected
    BY <1>2, <2>2, FinalRows, WithinUnprotected
  <2>4. OwnWorkers'
    BY <1>2, <1>4, <1>5, <2>3, SetOwn DEF RowsFinal
  <2>5. ~worker[w].stopped
    BY <1>1, <1>2, <1>7 DEF FencedWorker, CanFinish, Fenced
  <2>6. PublishedByOwner
    BY <1>2, <1>3, <2>2, <2>5 DEF PublishedByOwner
  <2> QED BY <1>3, <2>3, <2>4, <2>6 DEF Rightful
<1>8. \/ rows' = rows \/ (CanCancel(rows, e) /\ rows' = Cancel(rows, j, e))
      \/ CanFinish(rows, e, worker[w].gen, s) /\ rows' = Finish(rows, j, e, s)
  BY DEF Publish
<1> QED BY <1>6, <1>7, <1>8

\* Closing writes the recording's status at most.
LEMMA CloseRightful ==
  ASSUME TypeInv, OwnerInv, BindInv, ProtInv, NEW w \in Workers, Close(w)
  PROVE  Rightful
<1> DEFINE j == worker[w].task.job
           r == [worker[w] EXCEPT !.pc = "closing", !.outcome = Outcome(w)]
<1>1. worker[w].pc \in Owning /\ UNCHANGED channel /\ Set(w, r)
  BY DEF Close, Owning, Pc
<1>2. /\ rows \in Rows /\ worker[w] \in CommittedRow /\ worker[w].pc \notin {"off", "idle"}
      /\ j \in Jobs /\ j \notin protected /\ OwnWorker(worker[w]) /\ OwnChannel
  BY <1>1, OwnerFacts
<1>3. OwnChannel'
  BY <1>1, <1>2 DEF OwnChannel
<1>4. Keeps(rows, rows', j)
  <2>1. rows' = rows \/ rows' = SetJob(rows, j, JobOutcome(Outcome(w)))
    BY DEF Close, ClosedRows
  <2> QED BY <1>2, <2>1, SetJobMoves, StillMoves, MovesKeep
<1>5. OwnWorker(r) /\ FencedWorker(rows', r)
  BY <1>2, FormsOwn, FormsFenced
<1> HIDE DEF r
<1> QED BY <1>1, <1>2, <1>3, <1>4, <1>5, WorkerRightful

\* The release ends the owner's run and admits the next one of the recording.
LEMMA ReleaseRightful ==
  ASSUME TypeInv, OwnerInv, BindInv, ProtInv, NEW w \in Workers, Release(w)
  PROVE  Rightful
<1> DEFINE t == worker[w].task
           j == t.job
           c == Finalize(rows, j, t.item, worker[w].outcome, worker[w].bound)
<1>1. worker[w].pc = "closing" /\ Set(w, IdleWorker)
  BY DEF Release
<1>2. /\ rows \in Rows /\ worker[w] \in CommittedRow /\ worker[w].pc \notin {"off", "idle"}
      /\ j \in Jobs /\ j \notin protected
      /\ OwnTask(t) /\ OwnWorker(worker[w]) /\ OwnChannel /\ DispatchType
      /\ t.item \in Items \cup {NoItem} /\ worker[w].bound \in Execs \cup {NoExec}
      /\ worker[w].outcome \in ItemStatus \ Live
  <2>1. worker[w].pc \in Owning
    BY <1>1 DEF Owning, Pc
  <2> QED BY <1>1, <2>1, OwnerFacts, TaskParts DEF ItemStatus, Live, ActiveStatus
<1>3. c \in Rows /\ Moves(rows, c, j)
  <2>1. /\ worker[w].bound # NoExec => JobOf[worker[w].bound] = j /\ worker[w].bound \in Execs
        /\ t.item # NoItem => JobOf[t.item] = j
    BY <1>2 DEF OwnWorker, OwnTask
  <2> HIDE DEF t
  <2> QED BY <1>2, <2>1, FinalizeLemma, FinalizeMoves
<1>4. Moves(rows, rows, j)
  BY StillMoves
<1>5. Advance(c, j, FALSE, j \in protected) \/ Advance(rows, j, FALSE, j \in protected)
  BY DEF Release
<1> HIDE DEF c
<1>6. PICK b \in Rows : Moves(rows, b, j) /\ Advance(b, j, FALSE, j \in protected)
  BY <1>2, <1>3, <1>4, <1>5
<1>7. Moves(b, rows', j) /\ SendsOwn
  BY <1>2, <1>6, AdvanceOwn
<1>8. Keeps(rows, rows', j)
  BY <1>6, <1>7, MovesCompose, MovesKeep
<1>9. OwnChannel'
  BY <1>2, <1>7, SendKeepsOwn
<1> QED BY <1>1, <1>2, <1>8, <1>9, FreeOwn, WorkerRightful

\* A worker that exits writes nothing.
LEMMA ExitRightful ==
  ASSUME TypeInv, BindInv, NEW w \in Workers, WorkerExit(w)
  PROVE  Rightful
<1>1. /\ UNCHANGED <<rows, channel>> /\ Set(w, OffWorker)
      /\ Sound(rows) /\ OwnChannel /\ OwnWorkers
  BY DEF WorkerExit, BindInv
<1>2. OwnChannel'
  BY <1>1 DEF OwnChannel
<1>3. Lawful
  BY <1>1, <1>2, StillLawful
<1>4. OwnWorkers'
  BY <1>1, <1>3, FreeOwn, SetOwn DEF Lawful, RowsFinal
<1> QED BY <1>3, <1>4, LawfulRightful

\* All steps of a worker.
LEMMA WorkersRightful ==
  ASSUME TypeInv, OwnerInv, BindInv, ProtInv, NEW w \in Workers, WorkerStep(w) \/ SpendBudget(w)
  PROVE  Rightful
<1>1. CASE TakeResume(w)
  <2>1. worker[w].task.exec \in Execs
    BY <1>1, TaskParts DEF TakeResume, Processing
  <2> QED BY <1>1, <2>1, BeginRightful
<1>2. CASE Receive(w) \/ Claim(w) \/ WorkerExit(w)
  BY <1>2, ReceiveRightful, ClaimRightful, ExitRightful
<1>3. CASE Refuse(w) \/ Register(w) \/ (\E e \in Execs : BeginRun(w, e))
  BY <1>3, RefuseRightful, RegisterRightful, BeginRightful
<1>4. CASE Work(w) \/ SpendBudget(w) \/ Publish(w) \/ Close(w) \/ Release(w)
  BY <1>4, WorkRightful, PublishRightful, CloseRightful, ReleaseRightful
<1> QED BY <1>1, <1>2, <1>3, <1>4 DEF WorkerStep

\* What is final is kept over two writes, one of which leaves the executions alone.
LEMMA FinalCompose ==
  ASSUME NEW b, NEW c, NEW d, Final(d, b), Final(b, c), b.exec = d.exec \/ c.exec = b.exec
  PROVE  Final(d, c)
<1> SUFFICES ASSUME Sound(d) PROVE Sound(c) /\ RunsFinal(d, c) /\ ExecsFinal(d, c)
  BY DEF Final
<1>1. /\ Sound(b) /\ RunsFinal(d, b) /\ ExecsFinal(d, b)
      /\ Sound(c) /\ RunsFinal(b, c) /\ ExecsFinal(b, c)
  BY DEF Final
<1>2. RunsFinal(d, c)
  BY <1>1 DEF RunsFinal, Over
<1>3. ExecsFinal(d, c)
  BY <1>1 DEF ExecsFinal, Fenced
<1> QED BY <1>1, <1>2, <1>3

\* A repair of a recording without an owner keeps what is final.
LEMMA RepairsFinal ==
  ASSUME rows \in Rows, Sound(rows), NEW j \in Jobs, NEW d \in Repairs(j)
  PROVE  Keeps(rows, d, j)
<1> DEFINE orphans == ItemsIn(rows, j, {"processing"})
           i == CHOOSE x \in orphans : TRUE
           b == Unclaimed(rows, j)
           e == rows.item[i].exec
<1>1. b \in Rows /\ Keeps(rows, b, j)
  <2> DEFINE a == SetJob(rows, j, "failed")
  <2>1. a \in Rows /\ a.item = rows.item /\ a.exec = rows.exec
    BY SetJobLemma, SetJobMoves DEF JobStatus
  <2>2. b = rows \/ b = FailProcessing(a, j)
    BY DEF Unclaimed
  <2> HIDE DEF a, b
  <2>3. CASE b = rows
    BY <2>3, StillMoves, MovesKeep
  <2>4. CASE b = FailProcessing(a, j)
    <3>1. b \in Rows /\ Keeps(a, b, j)
      BY <2>1, <2>4, FailProcessingLemma, FailProcessingKeepsFinal
    <3>2. Within(rows, b, j) /\ Unpublished(rows, b)
      BY <2>1, <3>1 DEF Keeps, Within, Unpublished
    <3>3. Final(rows, b)
      <4>1. Moves(rows, a, j)
        BY <2>1, StillMoves
      <4> QED BY <2>1, <3>1, <4>1, MovesKeep, FinalCompose DEF Keeps
    <3> QED BY <3>1, <3>2, <3>3 DEF Keeps
  <2> QED BY <2>2, <2>3, <2>4
<1>2. CASE d = rows
  BY <1>2, StillMoves, MovesKeep
<1>3. CASE d = b
  BY <1>1, <1>3
<1>4. CASE /\ orphans # {}
           /\ d \in {Finalize(b, j, i, s, e) : s \in OrphanOutcomes(rows, j, i)}
  <2>1. i \in Items /\ JobOf[i] = j
    BY <1>4 DEF ItemsIn
  <2>2. e # NoExec => JobOf[e] = j /\ e \in Execs
    <3> HIDE DEF i
    <3> QED BY <2>1 DEF Rows, ItemRow, Sound
  <2>3. PICK s \in OrphanOutcomes(rows, j, i) : d = Finalize(b, j, i, s, e)
    BY <1>4
  <2>4. s \in ItemStatus
    <3>1. s \in {"completed", "failed", "cancelled"}
      <4> HIDE DEF i
      <4> QED BY DEF OrphanOutcomes
    <3> QED BY <3>1 DEF ItemStatus
  <2>5. Moves(b, d, j)
    <3> HIDE DEF b, i, e
    <3> QED BY <1>1, <2>1, <2>2, <2>3, <2>4, FinalizeMoves
  <2> QED BY <1>1, <2>5, KeepThenMove
<1> HIDE DEF b
<1> QED BY <1>2, <1>3, <1>4 DEF Repairs, b

\* The reconciler works on recordings that are not protected.
LEMMA ReconcileRightful ==
  ASSUME TypeInv, BindInv, NEW j \in Jobs, Reconcile(j)
  PROVE  Rightful
<1>1. /\ rows \in Rows /\ DispatchType /\ Sound(rows) /\ OwnChannel /\ OwnWorkers
      /\ j \notin protected /\ UNCHANGED worker
  BY TypeParts DEF BindInv, Reconcile
<1>2. ASSUME Lawful PROVE Rightful
  BY <1>1, <1>2, StillOwn, LawfulRightful DEF Lawful, RowsFinal
<1>3. CASE KeepsRecovery(j)
  <2>1. UNCHANGED <<rows, channel>>
    BY <1>3 DEF Reconcile
  <2>2. OwnChannel'
    BY <1>1, <2>1 DEF OwnChannel
  <2> QED BY <1>1, <1>2, <2>1, <2>2, StillLawful
<1>4. CASE ~KeepsRecovery(j)
  <2>1. PICK d \in Repairs(j) : Redispatch(d, j)
    BY <1>4 DEF Reconcile
  <2>2. d \in Rows /\ Keeps(rows, d, j) /\ Sound(d)
    BY <1>1, RepairsLemma, RepairsFinal DEF Keeps, Final
  <2>3. Keeps(rows, rows', j) /\ OwnChannel'
    <3>1. CASE Advance(d, j, FALSE, FALSE)
      BY <1>1, <2>2, <3>1, AdvanceOwn, KeepThenMove, SendKeepsOwn
    <3>2. CASE rows' = d /\ UNCHANGED <<channel, scheduled>>
      BY <1>1, <2>2, <3>2 DEF OwnChannel
    <3>3. CASE /\ rows' = d /\ PendingTask(d, j) # NoTask
               /\ Enqueue(PendingTask(d, j))
      <4>1. OwnTask(PendingTask(d, j))
        BY <2>2, <3>3, PendingTaskOwn
      <4> QED BY <1>1, <2>2, <3>3, <4>1, EnqueueOwn, SendKeepsOwn
    <3> QED BY <2>1, <3>1, <3>2, <3>3 DEF Redispatch
  <2> QED BY <1>1, <1>2, <2>3, KeepsLawful
<1> QED BY <1>3, <1>4

\* Startup writes executions and recordings before it promotes.
LEMMA RepairRightful ==
  ASSUME TypeInv, BindInv, Recover \/ ResetZombieJobs
  PROVE  Rightful
<1>1. /\ rows \in Rows /\ Sound(rows) /\ OwnChannel /\ OwnWorkers
      /\ UNCHANGED <<channel, worker>>
  BY TypeParts DEF BindInv, Recover, ResetZombieJobs, unstarted
<1>2. OwnChannel'
  BY <1>1 DEF OwnChannel
<1>3. Final(rows, rows') /\ Unpublished(rows, rows') /\ rows'.item = rows.item
  <2>1. CASE Recover
    <3>1. rows' = rows \/ rows' = InterruptAll(rows)
      BY <2>1 DEF Recover
    <3>2. Final(rows, rows) /\ Unpublished(rows, rows)
      BY StatesFinal
    <3> QED BY <1>1, <3>1, <3>2, InterruptAllLemma, InterruptAllFinal
  <2>2. CASE ResetZombieJobs
    <3> DEFINE zombies == {j \in Jobs : rows.job[j] = "processing"} \ protected
               x == [j \in Jobs |-> IF j \in zombies THEN "failed" ELSE rows.job[j]]
               r(e) == [rows.exec[e] EXCEPT !.status = "failed"]
               y == [e \in Execs |-> IF JobOf[e] \in zombies
                                        /\ rows.exec[e].status = "processing"
                                     THEN r(e) ELSE rows.exec[e]]
    <3>1. rows' = [rows EXCEPT !.job = x, !.exec = y]
      BY <2>2 DEF ResetZombieJobs
    <3>2. rows'.item = rows.item /\ rows'.exec = y
      <4> HIDE DEF x, y
      <4> QED BY <1>1, <3>1 DEF Rows
    <3>3. \A e \in Execs : r(e).state = rows.exec[e].state
      BY <1>1 DEF Rows, ExecRow
    <3> HIDE DEF zombies, r
    <3>4. \A e \in Execs : \/ rows'.exec[e] = rows.exec[e]
                           \/ /\ rows'.exec[e].state = rows.exec[e].state
                              /\ rows.exec[e].status # "completed"
      BY <3>2, <3>3
    <3> QED BY <3>2, <3>4, StatesFinal
  <2> QED BY <2>1, <2>2
<1>4. RowsFinal /\ RunsProtected
  BY <1>1, <1>3, FinalRows, SameItemsProtected
<1>5. OwnWorkers'
  BY <1>1, <1>4, StillOwn DEF RowsFinal
<1> QED BY <1>2, <1>3, <1>4, <1>5, LawfulRightful DEF Lawful

\* Promotion at startup passes over the protected recordings.
LEMMA PromotedAllFinal ==
  ASSUME NEW d \in Rows
  PROVE  LET c == PromotedAll(d)
         IN  /\ c.exec = d.exec /\ Final(d, c)
             /\ \A i \in Items : JobOf[i] \in protected => c.item[i] = d.item[i]
<1> DEFINE next == {j \in Jobs : Promotable(d, j) /\ j \notin protected}
           c == PromotedAll(d)
           x == [j \in Jobs |-> IF j \in next THEN PromoteNext(d, j).job[j] ELSE d.job[j]]
           y == [i \in Items |-> IF JobOf[i] \in next
                                 THEN PromoteNext(d, JobOf[i]).item[i] ELSE d.item[i]]
<1>1. c = [d EXCEPT !.job = x, !.item = y]
  BY DEF PromotedAll
<1>2. c.exec = d.exec /\ c.item = y
  <2> HIDE DEF c, x, y
  <2> QED BY <1>1 DEF Rows
<1>3. \A j \in next : Moves(d, PromoteNext(d, j), j)
  BY PromoteNextMoves
<1> HIDE DEF c
<1>4. \A i \in Items : JobOf[i] \in protected => c.item[i] = d.item[i]
  BY <1>2
<1>5. \A i \in Items :
        \/ c.item[i] = d.item[i]
        \/ /\ d.item[i].status \notin Over
           /\ \/ c.item[i].exec \in {d.item[i].exec, NoExec}
              \/ JobOf[c.item[i].exec] = JobOf[i]
  <2> HIDE DEF next
  <2> QED BY <1>2, <1>3 DEF Moves
<1> HIDE DEF next, x, y
<1>6. Final(d, c)
  <2> SUFFICES ASSUME Sound(d) PROVE Sound(c) /\ RunsFinal(d, c) /\ ExecsFinal(d, c)
    BY DEF Final
  <2>1. Sound(c)
    BY <1>2, <1>5 DEF Sound
  <2>2. RunsFinal(d, c)
    BY <1>5 DEF RunsFinal
  <2>3. ExecsFinal(d, c)
    BY <1>2 DEF ExecsFinal, Fenced
  <2> QED BY <2>1, <2>2, <2>3
<1> QED BY <1>2, <1>4, <1>6 DEF c

\* Launch promotes, starts the workers and fills the channel.
LEMMA LaunchRightful ==
  ASSUME TypeInv, BindInv, Launch
  PROVE  Rightful
<1> DEFINE b == FailInterruptedExcept(rows, protected)
           d == PromotedAll(b)
           S == {k \in Jobs \ protected : d.job[k] = "pending"}
           tasks == {PendingTask(d, j) : j \in S} \ {NoTask}
           n == IF Cardinality(tasks) <= Capacity THEN Cardinality(tasks) ELSE Capacity
<1>1. rows \in Rows /\ Sound(rows)
  BY TypeParts DEF BindInv
<1>2. /\ b \in Rows /\ b.exec = rows.exec /\ Final(rows, b)
      /\ \A i \in Items : JobOf[i] \in protected => b.item[i] = rows.item[i]
  BY <1>1, FailInterruptedExceptLemma, FailInterruptedFinal
<1>3. /\ d \in Rows /\ d.exec = b.exec /\ Final(b, d)
      /\ \A i \in Items : JobOf[i] \in protected => d.item[i] = b.item[i]
  <2> HIDE DEF b
  <2> QED BY <1>2, PromotedAllLemma, PromotedAllFinal
<1>4. rows' = d
  BY DEF Launch
<1>5. Cardinality(tasks) \in Nat
  BY LaunchSize
<1>6. n \in Nat
  <2> HIDE DEF tasks
  <2> QED BY <1>5, QueueAssumption
<1>7. PICK order \in [1..n -> tasks] : channel' = order
  BY DEF Launch
<1> HIDE DEF b, d
<1>8. Final(rows, rows')
  BY <1>2, <1>3, <1>4, FinalCompose
<1>9. RowsFinal /\ Sound(d)
  BY <1>1, <1>4, <1>8, FinalRows DEF RowsFinal
<1>10. RunsProtected
  BY <1>2, <1>3, <1>4 DEF RunsProtected
<1>11. Unpublished(rows, rows')
  BY <1>2, <1>3, <1>4 DEF Unpublished
<1>12. OwnChannel'
  <2>1. \A t \in tasks : OwnTask(t)
    BY <1>3, <1>9, PendingTaskOwn
  <2> HIDE DEF tasks, n
  <2>2. channel' \in Seq(tasks) /\ Len(channel') = n /\ \A p \in 1..n : channel'[p] \in tasks
    BY <1>6, <1>7
  <2> QED BY <2>1, <2>2 DEF OwnChannel
<1>13. OwnWorkers'
  <2>1. \A w \in Workers : worker'[w] \in {IdleWorker, OffWorker}
    BY DEF Launch
  <2> QED BY <2>1, FreeOwn DEF OwnWorkers
<1> QED BY <1>9, <1>10, <1>11, <1>12, <1>13, LawfulRightful DEF Lawful

\* The end of the process, and time, change no run.
LEMMA EndRightful ==
  ASSUME TypeInv, BindInv, Crash \/ Drain \/ Halt
  PROVE  Rightful
<1>1. UNCHANGED rows /\ Sound(rows) /\ OwnChannel /\ OwnWorkers
  BY DEF Crash, Drain, Halt, Forget, BindInv
<1>2. OwnChannel' /\ OwnWorkers'
  <2>1. CASE Drain
    BY <1>1, <2>1 DEF Drain, memory, OwnChannel, OwnWorkers
  <2>2. CASE Forget
    <3>1. channel' = << >> /\ \A w \in Workers : worker'[w] = OffWorker
      BY <2>2 DEF Forget
    <3> QED BY <3>1, FreeOwn DEF OwnChannel, OwnWorkers
  <2> QED BY <2>1, <2>2 DEF Crash, Halt
<1> QED BY <1>1, <1>2, StillLawful, LawfulRightful

\* A deadline that passes changes no state.
LEMMA DeadlineRightful ==
  ASSUME TypeInv, BindInv, NEW e \in Execs, DeadlinePasses(e)
  PROVE  Rightful
<1> DEFINE r == [rows.exec[e] EXCEPT !.deadline = "past"]
           c == [rows EXCEPT !.exec[e] = r]
<1>1. /\ rows \in Rows /\ Sound(rows) /\ OwnChannel /\ OwnWorkers
      /\ rows' = c /\ UNCHANGED <<channel, worker>>
  BY TypeParts DEF BindInv, DeadlinePasses, memory
<1>2. r.state = rows.exec[e].state /\ r.status = rows.exec[e].status
  BY <1>1 DEF Rows, ExecRow
<1> HIDE DEF r
<1>3. /\ c.exec[e] = r /\ \A k \in Execs : k # e => c.exec[k] = rows.exec[k]
      /\ c.item = rows.item
  BY <1>1, ExecutionRow
<1> HIDE DEF c
<1>4. Final(rows, c) /\ Unpublished(rows, c)
  BY <1>2, <1>3, StatesFinal
<1>5. RowsFinal /\ RunsProtected
  BY <1>1, <1>3, <1>4, FinalRows, SameItemsProtected
<1>6. OwnChannel'
  BY <1>1 DEF OwnChannel
<1>7. OwnWorkers'
  BY <1>1, <1>5, StillOwn DEF RowsFinal
<1> QED BY <1>1, <1>4, <1>5, <1>6, <1>7, LawfulRightful DEF Lawful

\* Every step.
LEMMA NextRightful ==
  ASSUME TypeInv, OwnerInv, BindInv, ProtInv, OneActiveRun, [Next]_vars
  PROVE  Rightful
<1>1. CASE UNCHANGED vars
  <2>1. /\ UNCHANGED <<rows, channel, worker>> /\ Sound(rows) /\ OwnChannel /\ OwnWorkers
    BY <1>1 DEF vars, memory, BindInv
  <2>2. OwnChannel' /\ OwnWorkers'
    BY <2>1 DEF OwnChannel, OwnWorkers
  <2> QED BY <2>1, <2>2, StillLawful, LawfulRightful
<1>2. CASE Requests
  BY <1>2, RequestsLawful, LawfulRightful
<1>3. CASE \E w \in Workers : WorkerStep(w) \/ SpendBudget(w)
  BY <1>3, WorkersRightful
<1>4. CASE \E j \in Jobs : Reconcile(j)
  BY <1>4, ReconcileRightful
<1>5. CASE Process
  BY <1>5, RepairRightful, LaunchRightful, EndRightful DEF Process
<1>6. CASE \E e \in Execs : DeadlinePasses(e)
  BY <1>6, DeadlineRightful
<1> QED BY <1>1, <1>2, <1>3, <1>4, <1>5, <1>6 DEF Next

\* A recording becomes protected at startup or when the reconciler finds a run it
\* must not repair.
LEMMA ProtectedBy ==
  ASSUME [Next]_vars
  PROVE  \/ protected' \subseteq protected
         \/ Recover
         \/ \E j \in Jobs : Reconcile(j) /\ KeepsRecovery(j)
<1>1. ASSUME NEW r \in StopRequest, KillPersisted(r) PROVE protected' \subseteq protected
  <2> DEFINE E == Persisted(r.job)
  <2>1. \/ protected' = protected
        \/ protected' = IF E # {} /\ phase = "up" THEN protected \ {r.job} ELSE protected
    BY <1>1 DEF KillPersisted
  <2> HIDE DEF E
  <2> QED BY <2>1
<1>2. ASSUME NEW j \in Jobs, NEW e \in Execs, ResumeExecution(j, e)
      PROVE  protected' \subseteq protected
  <2>1. protected' = protected \ {j} \/ protected' = protected
    BY <1>2 DEF ResumeExecution
  <2> QED BY <2>1
<1>3. CASE Requests
  <2>1. \/ protected' = protected
        \/ \E r \in StopRequest : KillPersisted(r)
        \/ \E j \in Jobs, e \in Execs : ResumeExecution(j, e)
    BY ZenonT(60), <1>3
       DEF Requests, AddRun, ReorderRuns, ClearRuns, EditLine, CancelRun,
           ReserveJobDeletion, DeleteJob, ReleaseDeletion, SetWorkers, RequestStop, Stop,
           KillRunning, StopHandled, StartImmediateRun, RenameRead, RenameSave,
           AutoStartSave, AutoStartEnqueue, quiet
  <2> QED BY <1>1, <1>2, <2>1
<1>4. CASE \E w \in Workers : WorkerStep(w) \/ SpendBudget(w)
  <2>1. protected' = protected
    BY ZenonT(60), <1>4 DEF WorkerStep, Receive, Claim, TakeResume, Refuse, Register, BeginRun,
              Work, Publish, Close, Release, WorkerExit, SpendBudget, Processing
  <2> QED BY <2>1
<1>5. CASE Process
  <2>1. Recover \/ protected' = protected \/ protected' = {}
    BY <1>5 DEF Process, ResetZombieJobs, Launch, Crash, Drain, Halt, Forget, unstarted, memory
  <2> QED BY <2>1
<1>6. CASE \E j \in Jobs : Reconcile(j)
  <2>1. \/ protected' = protected
        \/ \E j \in Jobs : Reconcile(j) /\ KeepsRecovery(j)
    BY <1>6 DEF Reconcile
  <2> QED BY <2>1
<1>7. CASE (\E e \in Execs : DeadlinePasses(e)) \/ UNCHANGED vars
  BY <1>7 DEF DeadlinePasses, memory, vars
<1> QED BY <1>3, <1>4, <1>5, <1>6, <1>7 DEF Next

\* A process that goes down forgets what it was deleting.
LEMMA DownBy ==
  ASSUME [Next]_vars, phase' = "down"
  PROVE  phase = "down" \/ deleting' = {}
<1>1. CASE Requests
  BY ZenonT(60), <1>1 DEF Requests, AddRun, ReorderRuns, ClearRuns, EditLine, CancelRun,
              ReserveJobDeletion, DeleteJob, ReleaseDeletion, SetWorkers, RequestStop, Stop,
              KillRunning, KillPersisted, StopHandled, ResumeExecution,
              StartImmediateRun, RenameRead, RenameSave, AutoStartSave,
              AutoStartEnqueue, quiet
<1>2. CASE \E w \in Workers : WorkerStep(w) \/ SpendBudget(w)
  BY ZenonT(60), <1>2 DEF WorkerStep, Receive, Claim, TakeResume, Refuse, Register, BeginRun,
              Work, Publish, Close, Release, WorkerExit, SpendBudget, Processing
<1>3. CASE Process
  BY <1>3 DEF Process, Recover, ResetZombieJobs, Launch, Crash, Drain, Halt, Forget
<1>4. CASE (\E j \in Jobs : Reconcile(j)) \/ (\E e \in Execs : DeadlinePasses(e))
           \/ UNCHANGED vars
  BY <1>4 DEF Reconcile, DeadlinePasses, memory, vars
<1> QED BY <1>1, <1>2, <1>3, <1>4 DEF Next

\* Protection excludes an owner and a deletion: whoever would become either is
\* refused, and only a recording without both becomes protected.
LEMMA ProtStep ==
  ASSUME TypeInv, OwnerInv, DeletingIsQuiet, ProtInv, [Next]_vars
  PROVE  ProtInv'
<1>1. /\ running \in [Jobs -> Workers \cup {0}] /\ protected \in SUBSET Jobs
      /\ protected' \in SUBSET Jobs
  BY NextStep, TypeParts DEF RestType, TypeInv, TypeOK
<1>2. \A j \in Jobs : running[j] = 0 /\ running'[j] # 0 => j \notin protected
  BY OwnedBy
<1>3. deleting' \subseteq deleting \/ \E k \in Jobs : ReserveJobDeletion(k)
  BY ReservedBy
<1>4. \A k \in Jobs : ReserveJobDeletion(k) =>
        /\ k \notin protected /\ deleting' = deleting \cup {k} /\ protected' = protected
        /\ phase' = phase /\ phase = "up"
  BY DEF ReserveJobDeletion, AtRest, Admitting
<1>5. CASE protected' \subseteq protected
  BY <1>1, <1>2, <1>3, <1>4, <1>5, DownBy DEF ProtInv
<1>6. CASE Recover
  <2>1. phase = "down" /\ UNCHANGED <<running, deleting>>
    BY <1>6 DEF Recover, unstarted
  <2>2. deleting = {} /\ \A j \in Jobs : running[j] = 0
    BY <2>1 DEF ProtInv, OwnerInv, Quiet
  <2> QED BY <1>1, <2>1, <2>2 DEF ProtInv
<1>7. ASSUME NEW j \in Jobs, Reconcile(j), KeepsRecovery(j) PROVE ProtInv'
  <2>1. /\ protected' = protected \cup {j} /\ running[j] = 0
        /\ UNCHANGED <<running, deleting, phase>>
    BY <1>7 DEF Reconcile, Owned
  <2>2. NonTerminal(rows, j) # {}
    BY <1>7 DEF KeepsRecovery, ItemsIn, NonTerminal, ActiveStatus
  <2>3. j \notin deleting
    BY <2>2 DEF DeletingIsQuiet
  <2> QED BY <2>1, <2>3 DEF ProtInv
<1> QED BY <1>5, <1>6, <1>7, ProtectedBy

\* ProtInv is inductive, relative to the ownership and deletion invariants.
LEMMA ProtInvariant == Spec => []ProtInv
<1>1. Init => ProtInv
  BY DEF Init, ProtInv
<1>2. TypeInv /\ OwnerInv /\ DeletingIsQuiet /\ ProtInv /\ [Next]_vars => ProtInv'
  BY ProtStep
<1> QED BY <1>1, <1>2, TypeInvariant, OwnerInvariant, DeletionIsExclusive, PTL DEF Spec

\* Whatever names a recording names runs and executions of it.
LEMMA BindInvariant == Spec => []BindInv
<1>1. Init => BindInv
  <2> SUFFICES ASSUME Init PROVE BindInv
    OBVIOUS
  <2>1. Sound(rows)
    BY DEF Init, InitRows, Sound
  <2>2. OwnChannel
    BY DEF Init, OwnChannel
  <2>3. OwnWorkers
    BY FreeOwn DEF Init, OwnWorkers
  <2> QED BY <2>1, <2>2, <2>3 DEF BindInv
<1>2. TypeInv /\ OwnerInv /\ BindInv /\ ProtInv /\ OneActiveRun /\ [Next]_vars => BindInv'
  BY NextRightful DEF Rightful, RowsFinal, BindInv
<1> QED BY <1>1, <1>2, TypeInvariant, OwnerInvariant, ProtInvariant, ActiveRunIsSingle, PTL
        DEF Spec

\* A published outcome is final and has one author: no late worker, stop, repair,
\* restart or resume changes a completed or cancelled execution or run, a failed run
\* moves only when its own execution is resumed, and completion is published only by
\* the owner, under the generation the execution carries and before any stop
\* (execution_lifecycle.go, Finish and Cancel, against every other writer).
THEOREM OutcomesKeepTheirAuthor == Spec => OutcomesAreFinal
<1> DEFINE A == /\ \A e \in Execs : rows.exec[e].state \in {"completed", "cancelled"} =>
                     rows'.exec[e].state \in {rows.exec[e].state, "gone"}
                /\ \A i \in Items :
                     /\ rows.item[i].status \in {"completed", "cancelled"} =>
                          rows'.item[i].status \in {rows.item[i].status, "gone"}
                     /\ rows.item[i].status = "failed" =>
                          \/ rows'.item[i].status \in {"failed", "gone"}
                          \/ /\ rows'.item[i].status = "pending"
                             /\ rows.item[i].exec # NoExec
                             /\ rows'.exec[rows.item[i].exec].state = "pending"
           B == \A e \in Execs :
                  rows.exec[e].state # "completed" /\ rows'.exec[e].state = "completed" =>
                    /\ Owned(JobOf[e])
                    /\ worker[running[JobOf[e]]].exec = e
                    /\ worker[running[JobOf[e]]].gen = rows'.exec[e].gen
                    /\ ~worker[running[JobOf[e]]].stopped
<1>1. ASSUME TypeInv, OwnerInv, BindInv, ProtInv, OneActiveRun, [Next]_vars
      PROVE  A /\ B
  <2>1. RowsFinal /\ PublishedByOwner
    BY <1>1, NextRightful DEF Rightful
  <2>2. A
    BY <2>1 DEF RowsFinal, ExecsFinal, RunsResumed, Over, Fenced
  <2>3. B
    BY <2>1 DEF PublishedByOwner
  <2> QED BY <2>2, <2>3
<1>2. TypeInv /\ OwnerInv /\ BindInv /\ ProtInv /\ OneActiveRun /\ [Next]_vars
        => [A]_vars /\ [B]_vars
  BY <1>1
<1> HIDE DEF A, B
<1>3. Spec => [][A]_vars /\ [][B]_vars
  BY <1>2, TypeInvariant, OwnerInvariant, BindInvariant, ProtInvariant, ActiveRunIsSingle, PTL
     DEF Spec
<1> QED BY <1>3 DEF A, B, OutcomesAreFinal, PublishedIsFinal, OnlyTheOwnerPublishes

\* While a recording is protected nobody owns it and no run of it is promoted,
\* claimed, failed or completed; only a stop may cancel its run (protectedJobs in
\* promoteNext, claimTask, the reconciler and startup).
THEOREM ProtectionHolds == Spec => ProtectedIsLeftAlone
<1> DEFINE A == \A j \in protected \cap protected' :
                  /\ running'[j] = running[j]
                  /\ \A i \in Items : JobOf[i] = j /\ rows'.item[i] # rows.item[i] =>
                       rows'.item[i].status \in {"queued", "cancelled"}
<1>1. ASSUME TypeInv, OwnerInv, BindInv, ProtInv, DeletingIsQuiet, OneActiveRun, [Next]_vars
      PROVE  A
  <2>1. RunsProtected
    BY <1>1, NextRightful DEF Rightful
  <2>2. ProtInv'
    BY <1>1, ProtStep
  <2> QED BY <1>1, <2>1, <2>2 DEF RunsProtected, ProtInv
<1>2. TypeInv /\ OwnerInv /\ BindInv /\ ProtInv /\ DeletingIsQuiet /\ OneActiveRun
        /\ [Next]_vars => [A]_vars
  BY <1>1
<1> HIDE DEF A
<1>3. Spec => [][A]_vars
  BY <1>2, TypeInvariant, OwnerInvariant, BindInvariant, ProtInvariant, DeletionIsExclusive,
     ActiveRunIsSingle, PTL DEF Spec
<1> QED BY <1>3 DEF A, ProtectedIsLeftAlone

\* A stop request is used up by the stop it asks for, or lost with the process.
LEMMA HandledBy ==
  ASSUME TypeInv, [Next]_vars, NEW r \in stopping, r \notin stopping', phase' # "down"
  PROVE  r \in StopRequest /\ Stop(r)
<1>1. r \in StopRequest
  BY TypeParts DEF RestType
<1>2. ASSUME NEW q \in StopRequest, Stop(q) PROVE Stop(r)
  <2>1. stopping' = stopping \ {q}
    BY <1>2 DEF Stop, KillRunning, KillPersisted, StopHandled
  <2>2. q = r
    BY <2>1
  <2> QED BY <1>2, <2>2
<1>3. ASSUME NEW q, RequestStop(q) PROVE FALSE
  BY <1>3 DEF RequestStop
<1>4. CASE Requests
  <2>1. \/ stopping' = stopping
        \/ \E q \in StopRequest : RequestStop(q) \/ Stop(q)
    BY ZenonT(60), <1>4 DEF Requests, AddRun, ReorderRuns, ClearRuns, EditLine, CancelRun,
              ReserveJobDeletion, DeleteJob, ReleaseDeletion, SetWorkers, ResumeExecution,
              StartImmediateRun, RenameRead, RenameSave, AutoStartSave,
              AutoStartEnqueue, quiet
  <2> QED BY <1>1, <1>2, <1>3, <2>1
<1>5. CASE \E w \in Workers : WorkerStep(w) \/ SpendBudget(w)
  <2>1. stopping' = stopping
    BY ZenonT(60), <1>5 DEF WorkerStep, Receive, Claim, TakeResume, Refuse, Register, BeginRun,
              Work, Publish, Close, Release, WorkerExit, SpendBudget, Processing
  <2> QED BY <2>1
<1>6. CASE Process
  BY <1>6 DEF Process, Recover, ResetZombieJobs, Launch, Crash, Drain, Halt, Forget,
              unstarted, memory
<1>7. CASE (\E j \in Jobs : Reconcile(j)) \/ (\E e \in Execs : DeadlinePasses(e))
           \/ UNCHANGED vars
  BY <1>7 DEF Reconcile, DeadlinePasses, memory, vars
<1> QED BY <1>1, <1>4, <1>5, <1>6, <1>7 DEF Next

\* A stop of a worker marks the worker whose run it names and cancels no other run.
LEMMA KillRunningExact ==
  ASSUME TypeInv, NEW r \in StopRequest, r.target # AnyRun, KillRunning(r)
  PROVE  /\ rows'.item = rows.item
         /\ \A v \in Workers : worker[v].task.item # r.target => worker'[v] = worker[v]
<1> DEFINE w == running[r.job]
           e == worker[w].bound
           x == [worker[w] EXCEPT !.stopped = @ \/ ~TimedOut(w)]
<1>1. /\ rows \in Rows /\ worker \in [Workers -> CommittedRow]
      /\ w \in Workers /\ r.job \in Jobs
  BY TypeParts DEF KillRunning, Owned, StopRequest, RestType
<1>2. e \in Execs \cup {NoExec}
  BY <1>1 DEF CommittedRow, WorkerRow
<1>3. \/ UNCHANGED <<rows, worker>>
      \/ /\ r.target = worker[w].task.item
         /\ rows' = IF e = NoExec THEN rows ELSE Cancel(rows, r.job, e)
         /\ worker' = [worker EXCEPT ![w] = x]
  BY DEF KillRunning, Names
<1>4. rows'.item = rows.item
  <2> HIDE DEF e, w
  <2> QED BY <1>1, <1>2, <1>3, CancelLemma
<1>5. \A v \in Workers : worker[v].task.item # r.target => worker'[v] = worker[v]
  <2> HIDE DEF x, w
  <2> QED BY <1>1, <1>3
<1> QED BY <1>4, <1>5

\* A stop without an owner cancels the active run if that is the one it names.
LEMMA KillPersistedExact ==
  ASSUME TypeInv, NEW r \in StopRequest, r.target # AnyRun, KillPersisted(r)
  PROVE  /\ worker' = worker
         /\ \A k \in Items \ {r.target} :
              rows.item[k].status # "cancelled" => rows'.item[k].status # "cancelled"
<1> DEFINE j == r.job
           i == FindActive(rows, j)
           E == Persisted(j)
           e == CHOOSE x \in E : TRUE
           d == IF E = {} THEN rows ELSE Cancel(rows, j, e)
           b == SetJob(d, j, "failed")
           c == MarkActiveCancelled(b, j, i)
           kept == IF E # {} /\ phase = "up" THEN protected \ {j} ELSE protected
<1>1. rows \in Rows /\ j \in Jobs /\ i \in Items \cup {NoItem} /\ E \in SUBSET Execs
  BY FindType, PersistedType, TypeParts DEF StopRequest
<1>2. /\ worker' = worker
      /\ \/ rows' = rows
         \/ r.target = i /\ Advance(c, j, FALSE, j \in kept)
  BY DEF KillPersisted, Names
<1>3. i # NoItem => JobOf[i] = j
  BY <1>1, FindActiveOwn
<1> HIDE DEF i, E, j
<1>4. d \in Rows /\ d.item = rows.item
  BY <1>1, CancelLemma
<1> HIDE DEF d
<1>5. b \in Rows /\ b.item = rows.item
  BY <1>1, <1>4, SetJobLemma DEF JobStatus
<1> HIDE DEF b
<1>6. c \in Rows /\ \A k \in Items : c.item[k] # rows.item[k] => k = i
  BY <1>1, <1>3, <1>5, MarkActiveCancelledLemma, MarkActiveCancelledMoves
<1> HIDE DEF c, kept
<1>7. CASE r.target = i /\ Advance(c, j, FALSE, j \in kept)
  <2>1. \A k \in Items : rows'.item[k].status = "cancelled" => c.item[k].status = "cancelled"
    BY <1>1, <1>6, <1>7, AdvanceOwn
  <2> QED BY <1>2, <1>6, <1>7, <2>1
<1> QED BY <1>2, <1>7

\* A stop that names the run its caller reviewed cancels that run or nothing: the
\* run, the execution and the worker of a successor that was promoted in the
\* meantime are untouched (killJob and its target).
THEOREM StopsAreExact == Spec => StopIsExact
<1> DEFINE A == \A r \in stopping \ stopping' :
                  r.target # AnyRun /\ phase' # "down" =>
                    /\ \A i \in Items \ {r.target} :
                         rows.item[i].status # "cancelled" => rows'.item[i].status # "cancelled"
                    /\ \A w \in Workers :
                         worker[w].pc \in Owning /\ worker[w].task.item # r.target =>
                           worker'[w].stopped = worker[w].stopped
<1>1. ASSUME TypeInv, [Next]_vars PROVE A
  <2> SUFFICES ASSUME NEW r \in stopping \ stopping', r.target # AnyRun, phase' # "down"
               PROVE  /\ \A i \in Items \ {r.target} :
                           rows.item[i].status # "cancelled" => rows'.item[i].status # "cancelled"
                      /\ \A w \in Workers :
                           worker[w].pc \in Owning /\ worker[w].task.item # r.target =>
                             worker'[w].stopped = worker[w].stopped
    OBVIOUS
  <2>1. r \in StopRequest /\ Stop(r)
    BY <1>1, HandledBy
  <2>2. CASE KillRunning(r)
    BY <1>1, <2>1, <2>2, KillRunningExact
  <2>3. CASE KillPersisted(r)
    BY <1>1, <2>1, <2>3, KillPersistedExact
  <2> QED BY <2>1, <2>2, <2>3 DEF Stop
<1>2. TypeInv /\ [Next]_vars => [A]_vars
  BY <1>1
<1> HIDE DEF A
<1>3. Spec => [][A]_vars
  BY <1>2, TypeInvariant, PTL DEF Spec
<1> QED BY <1>3 DEF A, StopIsExact
=============================================================================
