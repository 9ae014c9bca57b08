---------------------------- MODULE StoryProofs -----------------------------
(***************************************************************************)
(* More theorems about TaskQueue: the queue's memory, the rows of a run    *)
(* and the rows of its execution, each written by a transaction of its     *)
(* own, tell one story in every reachable state.  StoryInv follows what an *)
(* owner has in hand from the claim to the outcome; a step either leaves   *)
(* every owner's rows alone (Calm), or moves one owner on.  SightInv adds  *)
(* what the recording's own row says while it is owned.  Then the task     *)
(* queue is shown to implement SequentialRuns: Told is what a step must be *)
(* for the client of one recording.  The last part shows that no execution *)
(* that counts as an owner is forgotten: FollowInv says of every recording *)
(* who is going to end what it has begun.                                  *)
(***************************************************************************)
EXTENDS TaskQueueProofs, QueueRefinement

-----------------------------------------------------------------------------
(* One story: memory, runs and executions agree.                           *)

\* An entry names a run that has not begun, or the run its execution was begun for.
TidyTask(d, t) ==
  t.item # NoItem =>
    /\ t.exec = NoExec => Unbound(d, t.item)
    /\ t.exec # NoExec => d.exec[t.exec].item = t.item /\ Bound(d, t.item)

TidyTasks == \A t \in scheduled : TidyTask(rows, t)

\* The execution a worker began: its own still, or cancelled under it.
OwnOrCancelled(d, e, gen) ==
  \/ d.exec[e].state = "cancelled"
  \/ d.exec[e].state = "running" /\ d.exec[e].gen = gen

\* What the rows say of the run an owner has in hand: nobody readmits it, a stop has
\* fenced the execution the queue knew of, and that execution is the run's.
InHand(d, r) ==
  LET i == r.task.item
  IN  /\ i # NoItem => d.item[i].status \in {"processing"} \cup Over
      /\ r.stopped /\ r.bound # NoExec => d.exec[r.bound].state = "cancelled"
      /\ r.bound # NoExec /\ i # NoItem => d.exec[r.bound].item = i

\* Before the execution is registered the queue knows what the entry named.
AsClaimed(d, r) ==
  LET t == r.task
  IN  /\ r.bound = t.exec
      /\ t.item # NoItem /\ t.exec = NoExec => d.item[t.item].exec = NoExec

AsBegun(d, r) ==
  LET t == r.task
  IN  /\ r.bound = t.exec /\ OwnOrCancelled(d, r.exec, r.gen)
      /\ t.item # NoItem => d.exec[r.exec].item = t.item
      /\ t.exec # NoExec => r.exec = t.exec
      /\ t.item # NoItem /\ t.exec = NoExec => d.item[t.item].exec = r.exec

\* While adapters run.
AsBound(d, r) ==
  LET i == r.task.item
  IN  /\ r.bound = r.exec /\ OwnOrCancelled(d, r.exec, r.gen)
      /\ i # NoItem => d.item[i].status = "processing" /\ d.item[i].exec = r.exec

\* A processor that returns before it registered leaves a cancelled execution, if it
\* began one; one that succeeded has published.
AsReturned(d, r) ==
  LET i == r.task.item
  IN  /\ r.pc = "returned" /\ r.result = "ok" =>
           r.bound # NoExec /\ d.exec[r.bound].state = "completed"
      /\ r.bound = NoExec /\ i # NoItem /\ d.item[i].exec # NoExec =>
           d.exec[d.item[i].exec].state = "cancelled"

\* The outcome about to be written on the run is the one of its execution.
AsClosing(d, r) ==
  IF r.bound = NoExec THEN r.outcome # "completed"
  ELSE /\ r.outcome = "completed" <=> d.exec[r.bound].state = "completed"
       /\ r.outcome = "cancelled" => d.exec[r.bound].state = "cancelled"

Story(d, r) ==
  /\ r.pc = "holding" => ~r.stopped
  /\ r.pc \in Owning => InHand(d, r)
  /\ r.pc = "claimed" => AsClaimed(d, r)
  /\ r.pc = "begun" => AsBegun(d, r)
  /\ r.pc \in {"working", "publishing"} => AsBound(d, r)
  /\ r.pc \in {"returned", "closing"} => AsReturned(d, r)
  /\ r.pc = "closing" => AsClosing(d, r)

Stories ==
  \A w \in Workers : Story(rows, worker[w]) /\ (worker[w].pc = "closing" => lock = w)

StoryInv == Tidy(rows) /\ TidyTasks /\ Stories

\* What a step sends names its run.
SendsTidy == \A t \in scheduled' : t \in scheduled \/ TidyTask(rows', t)

\* What a step leaves of the recordings in hand.
OwnersRest ==
  \A w \in Workers : worker[w].pc \in Owning => Rests(rows, rows', worker[w].task.job)

\* A worker with nothing in hand has no story.
LEMMA FreeStory ==
  ASSUME NEW d
  PROVE  Story(d, IdleWorker) /\ Story(d, OffWorker)
BY DEF Story, IdleWorker, OffWorker, Owning

\* A story does not change while the recording rests.
LEMMA StoryStable ==
  ASSUME NEW c, NEW d \in Rows, Sound(d), NEW r \in CommittedRow, OwnWorker(r),
         r.pc \in Owning => Rests(d, c, r.task.job), Story(d, r)
  PROVE  Story(c, r)
<1>1. CASE r.pc \notin Owning
  BY <1>1 DEF Story, Owning, Pc
<1>2. CASE r.pc \in Owning
  <2> DEFINE t == r.task
             j == t.job
  <2>1. /\ InHand(d, r) /\ Rests(d, c, j) /\ r.pc \notin {"off", "idle"}
        /\ r.bound \in Execs \cup {NoExec}
        /\ t.item \in Items \cup {NoItem}
    BY <1>2 DEF Story, Owning, CommittedRow, WorkerRow, Task
  <2>2. /\ t.item # NoItem => JobOf[t.item] = j
        /\ r.bound # NoExec => JobOf[r.bound] = j
        /\ r.pc \in {"begun", "working", "publishing"} => JobOf[r.exec] = j /\ r.exec \in Execs
    BY <2>1 DEF OwnWorker, OwnTask, CommittedRow
  <2>3. t.item # NoItem => /\ c.item[t.item].status = d.item[t.item].status
                           /\ c.item[t.item].exec = d.item[t.item].exec
    BY <2>1, <2>2 DEF InHand, Rests
  <2>4. \A e \in Execs : JobOf[e] = j =>
          /\ c.exec[e].state = d.exec[e].state /\ c.exec[e].gen = d.exec[e].gen
          /\ c.exec[e].item = d.exec[e].item
    BY <2>1 DEF Rests
  <2>5. r.bound # NoExec => /\ c.exec[r.bound].state = d.exec[r.bound].state
                            /\ c.exec[r.bound].item = d.exec[r.bound].item
    BY <2>1, <2>2, <2>4
  <2>6. r.pc \in {"begun", "working", "publishing"} =>
          /\ c.exec[r.exec].item = d.exec[r.exec].item
          /\ OwnOrCancelled(d, r.exec, r.gen) => OwnOrCancelled(c, r.exec, r.gen)
    BY <2>2, <2>4 DEF OwnOrCancelled
  <2>7. t.item # NoItem /\ d.item[t.item].exec # NoExec =>
          c.exec[d.item[t.item].exec].state = d.exec[d.item[t.item].exec].state
    <3> SUFFICES ASSUME t.item # NoItem, d.item[t.item].exec # NoExec
                 PROVE  c.exec[d.item[t.item].exec].state = d.exec[d.item[t.item].exec].state
      OBVIOUS
    <3>1. t.item \in Items /\ JobOf[t.item] = j
      BY <2>1, <2>2
    <3>2. JobOf[d.item[t.item].exec] = j /\ d.item[t.item].exec \in Execs
      BY <3>1 DEF Sound, Rows, ItemRow
    <3> QED BY <2>4, <3>2
  <2>8. InHand(c, r)
    BY <2>1, <2>3, <2>5 DEF InHand
  <2>9. r.pc = "claimed" => AsClaimed(c, r)
    BY <2>3 DEF Story, AsClaimed
  <2>10. r.pc = "begun" => AsBegun(c, r)
    BY <2>3, <2>6 DEF Story, AsBegun
  <2>11. r.pc \in {"working", "publishing"} => AsBound(c, r)
    BY <2>3, <2>6 DEF Story, AsBound
  <2>12. r.pc \in {"returned", "closing"} => AsReturned(c, r)
    BY <2>3, <2>5, <2>7 DEF Story, AsReturned
  <2>13. r.pc = "closing" => AsClosing(c, r)
    BY <2>5 DEF Story, AsClosing
  <2> QED BY <2>8, <2>9, <2>10, <2>11, <2>12, <2>13, <1>2 DEF Story, Owning
<1> QED BY <1>1, <1>2

\* Entries age with their runs.
LEMMA TasksKept ==
  ASSUME TypeInv, TidyTasks, Ages(rows, rows'), SendsTidy
  PROVE  TidyTasks'
<1> SUFFICES ASSUME NEW t \in scheduled' PROVE TidyTask(rows', t)
  BY DEF TidyTasks
<1>1. CASE t \in scheduled
  <2>1. /\ t.item \in Items \cup {NoItem} /\ t.exec \in Execs \cup {NoExec}
        /\ TidyTask(rows, t)
    BY <1>1, TypeParts DEF DispatchType, Task, TidyTasks
  <2> QED BY <2>1 DEF TidyTask, Ages
<1> QED BY <1>1 DEF SendsTidy

\* A step in which no worker moves and the recordings in hand rest.
LEMMA QuietStory ==
  ASSUME TypeInv, BindInv, StoryInv, Proper(rows, rows'), SendsTidy, OwnersRest,
         UNCHANGED <<worker, lock>>
  PROVE  StoryInv'
<1>1. Tidy(rows') /\ Ages(rows, rows')
  BY DEF StoryInv, Proper
<1>2. TidyTasks'
  BY <1>1, TasksKept DEF StoryInv
<1>3. ASSUME NEW w \in Workers
      PROVE  Story(rows', worker[w]) /\ (worker[w].pc = "closing" => lock = w)
  <2>1. /\ rows \in Rows /\ worker[w] \in CommittedRow
        /\ Sound(rows) /\ OwnWorker(worker[w])
    BY TypeParts DEF BindInv, OwnWorkers
  <2> QED BY <2>1, StoryStable DEF OwnersRest, StoryInv, Stories
<1> QED BY <1>1, <1>2, <1>3 DEF StoryInv, Stories

\* A step of one worker, during which the recordings of the others rest.
LEMMA WorkerStories ==
  ASSUME TypeInv, BindInv, Stories,
         NEW w \in Workers, NEW r, Set(w, r), Story(rows', r), r.pc = "closing" => lock' = w,
         \A v \in Workers \ {w} :
           /\ worker[v].pc \in Owning => Rests(rows, rows', worker[v].task.job)
           /\ worker[v].pc = "closing" => lock' = v
  PROVE  Stories'
<1>1. \A v \in Workers : worker'[v] = IF v = w THEN r ELSE worker[v]
  BY TypeParts DEF Set
<1>2. ASSUME NEW v \in Workers
      PROVE  Story(rows', worker'[v]) /\ (worker'[v].pc = "closing" => lock' = v)
  <2>1. CASE v = w
    BY <1>1, <2>1
  <2>2. CASE v # w
    <3>1. /\ rows \in Rows /\ worker[v] \in CommittedRow
          /\ Sound(rows) /\ OwnWorker(worker[v]) /\ Story(rows, worker[v])
      BY TypeParts DEF BindInv, OwnWorkers, Stories
    <3>2. Story(rows', worker[v])
      BY <2>2, <3>1, StoryStable
    <3> QED BY <1>1, <2>2, <3>2
  <2> QED BY <2>1, <2>2
<1> QED BY <1>2 DEF Stories

\* A step on a recording nobody owns.
LEMMA UnownedRests ==
  ASSUME TypeInv, OwnerInv, NEW j, ~Owned(j), Within(rows, rows', j)
  PROVE  OwnersRest
<1> SUFFICES ASSUME NEW w \in Workers, worker[w].pc \in Owning
             PROVE  Rests(rows, rows', worker[w].task.job)
  BY DEF OwnersRest
<1>1. running[worker[w].task.job] = w /\ w # 0
  BY DEF OwnerInv, OneOwner, Workers
<1> QED BY <1>1, RestsWithin DEF Owned

\* A worker's step on its own recording.
LEMMA OthersRest ==
  ASSUME TypeInv, OwnerInv, NEW w \in Workers, worker[w].pc \in Owning,
         Within(rows, rows', worker[w].task.job)
  PROVE  \A v \in Workers \ {w} :
           worker[v].pc \in Owning => Rests(rows, rows', worker[v].task.job)
<1> SUFFICES ASSUME NEW v \in Workers \ {w}, worker[v].pc \in Owning
             PROVE  Rests(rows, rows', worker[v].task.job)
  OBVIOUS
<1>1. running[worker[v].task.job] = v /\ running[worker[w].task.job] = w
  BY DEF OwnerInv, OneOwner
<1> QED BY <1>1, RestsWithin

\* enqueueTask sends a tidy entry or nothing.
LEMMA EnqueueTidy ==
  ASSUME NEW t, TidyTask(rows', t), Enqueue(t)
  PROVE  SendsTidy
BY DEF Enqueue, SendsTidy

\* Promotion sends the run it admits, which has not begun.
LEMMA AdvanceTidy ==
  ASSUME NEW c \in Rows, Tidy(c), NEW j \in Jobs, NEW owned, NEW kept,
         Advance(c, j, owned, kept)
  PROVE  /\ Proper(c, rows') /\ \A k : Rests(c, rows', k)
         /\ SendsTidy
<1>1. CASE rows' = c /\ UNCHANGED <<channel, scheduled>>
  BY <1>1, StillProper, RestsStill DEF SendsTidy
<1>2. CASE /\ Promotable(c, j) /\ rows' = PromoteNext(c, j)
           /\ Enqueue(TaskOf(j, FirstQueued(c, j), NoExec))
  <2> DEFINE f == FirstQueued(c, j)
  <2>1. /\ LineChange(c, rows') /\ f \in Items /\ c.item[f].status = "queued"
        /\ rows'.item[f].status = "pending" /\ rows'.item[f].exec = c.item[f].exec
    BY <1>2, PromoteNextLine
  <2>2. c.item[f].exec = NoExec
    BY <2>1 DEF Tidy, RunsAgree, Agrees
  <2> HIDE DEF f
  <2>3. TidyTask(rows', TaskOf(j, f, NoExec))
    BY <2>1, <2>2 DEF TidyTask, TaskOf, Unbound
  <2> QED BY <1>2, <2>1, <2>3, LineProper, EnqueueTidy DEF f
<1> QED BY <1>1, <1>2 DEF Advance

\* The entry of a pending recording is tidy.
LEMMA PendingTaskTidy ==
  ASSUME NEW d \in Rows, NEW j \in Jobs, Tidy(d)
  PROVE  TidyTask(d, PendingTask(d, j)) \/ PendingTask(d, j) = NoTask
<1> DEFINE i == FindPending(d, j)
<1>1. CASE i # NoItem
  <2>1. i \in Items /\ d.item[i].status = "pending"
    BY <1>1 DEF FindPending, ItemsIn
  <2>2. PendingTask(d, j) = TaskOf(j, i, d.item[i].exec)
    BY <1>1 DEF PendingTask
  <2> HIDE DEF i
  <2>3. Agrees(d, i, "pending", d.item[i].exec)
    BY <2>1 DEF Tidy, RunsAgree
  <2> QED BY <2>1, <2>2, <2>3 DEF TidyTask, TaskOf, Agrees, Unbound, Bound
<1>2. CASE i = NoItem
  <2>1. PendingTask(d, j) = NoTask \/ \E e : PendingTask(d, j) = TaskOf(j, NoItem, e)
    BY <1>2 DEF PendingTask
  <2> QED BY <2>1 DEF TidyTask, TaskOf
<1> QED BY <1>1, <1>2

\* What the steps that move no worker are shown to do.
Calm == /\ Proper(rows, rows') /\ SendsTidy /\ OwnersRest
        /\ UNCHANGED <<worker, lock>>

\* A step that leaves runs and executions alone and sends nothing.
LEMMA StillCalm ==
  ASSUME rows'.item = rows.item, rows'.exec = rows.exec, scheduled' \subseteq scheduled,
         UNCHANGED <<worker, lock>>
  PROVE  Calm
<1>1. Proper(rows, rows') /\ \A j : Rests(rows, rows', j)
  BY StillProper, RestsStill
<1> QED BY <1>1 DEF Calm, SendsTidy, OwnersRest

\* Additions to and edits of the waiting line.
LEMMA LineCalm ==
  ASSUME TypeInv, StoryInv,
         \/ \E j \in Jobs, i \in Items : AddRun(j, i)
         \/ \E j \in Jobs : ReorderRuns(j) \/ ClearRuns(j)
         \/ \E i \in Items : CancelRun(i)
  PROVE  Calm
<1>1. rows \in Rows /\ Tidy(rows)
  BY TypeParts DEF StoryInv
<1>2. ASSUME NEW j \in Jobs, NEW i \in Items, AddRun(j, i) PROVE Calm
  <2> DEFINE c == AppendRun(rows, j, i)
  <2>1. c \in Rows /\ LineChange(rows, c)
    BY <1>1, <1>2, AppendRunLemma, AppendRunLine DEF AddRun
  <2>2. Advance(c, j, Owned(j), j \in protected) /\ UNCHANGED <<worker, lock>>
    BY <1>2 DEF AddRun, quiet
  <2> HIDE DEF c
  <2>3. Proper(rows, c) /\ Tidy(c) /\ \A k : Rests(rows, c, k)
    BY <1>1, <2>1, LineProper DEF Proper
  <2>4. Proper(c, rows') /\ SendsTidy /\ \A k : Rests(c, rows', k)
    BY <2>1, <2>2, <2>3, AdvanceTidy
  <2>5. Proper(rows, rows') /\ \A k : Rests(rows, rows', k)
    BY <2>3, <2>4, ProperCompose, RestsCompose
  <2> QED BY <2>2, <2>4, <2>5 DEF Calm, OwnersRest
<1>3. ASSUME NEW c, LineChange(rows, c), EditLine(c) PROVE Calm
  <2>1. rows' = c /\ UNCHANGED <<scheduled, worker, lock>>
    BY <1>3 DEF EditLine, quiet
  <2>2. Proper(rows, c) /\ \A k : Rests(rows, c, k)
    BY <1>3, LineProper
  <2> QED BY <2>1, <2>2 DEF Calm, OwnersRest, SendsTidy
<1>4. ASSUME NEW j \in Jobs, ReorderRuns(j) PROVE Calm
  <2>1. PICK place \in Orders(rows, j) : EditLine(ReorderQueued(rows, place))
    BY <1>4 DEF ReorderRuns
  <2> QED BY <1>1, <1>3, <2>1, ReorderLine
<1>5. ASSUME NEW j \in Jobs, ClearRuns(j) PROVE Calm
  BY <1>1, <1>3, <1>5, ClearQueuedLine DEF ClearRuns
<1>6. ASSUME NEW i \in Items, CancelRun(i) PROVE Calm
  BY <1>1, <1>3, <1>6, CancelQueuedLine DEF CancelRun
<1> QED BY <1>2, <1>4, <1>5, <1>6

\* Requests that write a recording's status or none, and the deletion of one that
\* nobody owns.
LEMMA StatusCalm ==
  ASSUME TypeInv, OwnerInv, BindInv, StoryInv, DeletingIsQuiet, NEW j \in Jobs,
         \/ ReserveJobDeletion(j) \/ DeleteJob(j) \/ ReleaseDeletion(j)
         \/ StartImmediateRun(j) \/ RenameRead(j) \/ RenameSave(j)
         \/ AutoStartSave(j) \/ AutoStartEnqueue(j)
  PROVE  Calm
<1>1. rows \in Rows /\ Sound(rows)
  BY TypeParts DEF BindInv
<1>2. CASE DeleteJob(j)
  <2>1. /\ j \in deleting /\ rows' = DeleteWithAssociations(rows, j)
        /\ UNCHANGED <<scheduled, worker, lock>>
    BY <1>2 DEF DeleteJob, quiet
  <2>2. Within(rows, rows', j) /\ ~Owned(j)
    BY <1>1, <2>1, DeleteKeepsFinal DEF Keeps, DeletingIsQuiet
  <2>3. OwnersRest
    BY <2>2, UnownedRests
  <2> QED BY <1>1, <2>1, <2>3, DeleteProper DEF Calm, SendsTidy
<1>3. CASE \/ ReserveJobDeletion(j) \/ ReleaseDeletion(j) \/ RenameRead(j)
           \/ StartImmediateRun(j) \/ RenameSave(j) \/ AutoStartSave(j) \/ AutoStartEnqueue(j)
  <2>1. /\ UNCHANGED <<worker, lock>>
        /\ \/ rows' = rows
           \/ \E s : rows' = SetJob(rows, j, s)
           \/ \E s : rows' = [rows EXCEPT !.job[j] = s]
        /\ UNCHANGED scheduled \/ Enqueue(TaskOf(j, NoItem, NoExec))
    BY <1>3 DEF ReserveJobDeletion, ReleaseDeletion, RenameRead, StartImmediateRun,
                RenameSave, AutoStartSave, AutoStartEnqueue, quiet
  <2>2. rows'.item = rows.item /\ rows'.exec = rows.exec
    <3>1. \A s : /\ SetJob(rows, j, s).item = rows.item
                 /\ SetJob(rows, j, s).exec = rows.exec
      BY <1>1, SetJobMoves
    <3>2. \A s : LET c == [rows EXCEPT !.job[j] = s]
                 IN  c.item = rows.item /\ c.exec = rows.exec
      BY <1>1 DEF Rows
    <3> QED BY <2>1, <3>1, <3>2
  <2>3. SendsTidy
    <3>1. TidyTask(rows', TaskOf(j, NoItem, NoExec))
      BY DEF TidyTask, TaskOf
    <3> QED BY <2>1, <3>1, EnqueueTidy DEF SendsTidy
  <2>4. Proper(rows, rows') /\ \A k : Rests(rows, rows', k)
    BY <2>2, StillProper, RestsStill
  <2> QED BY <2>1, <2>3, <2>4 DEF Calm, OwnersRest
<1> QED BY <1>2, <1>3

\* A stop without an owner cancels the execution first and its run after it.
LEMMA KillPersistedCalm ==
  ASSUME TypeInv, OwnerInv, BindInv, StoryInv, NEW r \in StopRequest, KillPersisted(r)
  PROVE  Calm
<1> DEFINE j == r.job
           i == FindActive(rows, j)
           E == Persisted(j)
           e == CHOOSE x \in E : TRUE
           d == IF E = {} THEN rows ELSE Cancel(rows, j, e)
           b == SetJob(d, j, "failed")
           c == MarkActiveCancelled(b, j, i)
           kept == IF E # {} /\ phase = "up" THEN protected \ {j} ELSE protected
<1>1. /\ rows \in Rows /\ DispatchType /\ Sound(rows) /\ Tidy(rows)
      /\ j \in Jobs /\ i \in Items \cup {NoItem}
  BY FindType, TypeParts DEF BindInv, StopRequest, StoryInv
<1>2. /\ ~Owned(j) /\ UNCHANGED <<worker, lock>>
      /\ \/ UNCHANGED <<rows, channel, scheduled, protected>>
         \/ /\ E # {} => CanCancel(rows, e)
            /\ Advance(c, j, FALSE, j \in kept)
  BY DEF KillPersisted, StopHandled
<1>3. i # NoItem => JobOf[i] = j
  BY <1>1, FindActiveOwn
<1>4. /\ \A x \in E : x \in Execs /\ JobOf[x] = j
      /\ i # NoItem /\ rows.item[i].exec # NoExec => E = {rows.item[i].exec}
  BY <1>1, PersistedOwn DEF Persisted
<1> HIDE DEF i, E, j
<1>5. CASE UNCHANGED <<rows, channel, scheduled, protected>>
  BY <1>2, <1>5, StillCalm
<1>6. CASE /\ E # {} => CanCancel(rows, e)
           /\ Advance(c, j, FALSE, j \in kept)
  <2>1. /\ d \in Rows /\ d.item = rows.item /\ Proper(rows, d)
        /\ i # NoItem /\ d.item[i].exec # NoExec =>
             d.exec[d.item[i].exec].state = "cancelled"
        /\ Keeps(rows, d, j)
    <3>1. CASE E = {}
      <4>1. Proper(rows, rows)
        BY StillProper
      <4>2. i # NoItem => rows.item[i].exec = NoExec
        BY <1>4, <3>1
      <4> QED BY <1>1, <3>1, <4>1, <4>2, StillMoves, MovesKeep
    <3>2. CASE E # {}
      <4>1. e \in Execs /\ JobOf[e] = j /\ CanCancel(rows, e)
            /\ (i # NoItem /\ rows.item[i].exec # NoExec => e = rows.item[i].exec)
        BY <1>4, <1>6, <3>2
      <4> HIDE DEF e
      <4>2. /\ d = Cancel(rows, j, e) /\ d \in Rows /\ Proper(rows, d)
            /\ d.item = rows.item /\ d.exec[e].state = "cancelled"
            /\ Keeps(rows, d, j)
        BY <1>1, <3>2, <4>1, CancelLemma, CancelProper, CancelKeepsFinal
      <4> HIDE DEF d
      <4> QED BY <4>1, <4>2
    <3> QED BY <3>1, <3>2
  <2> HIDE DEF d
  <2>2. /\ b \in Rows /\ b.item = rows.item /\ Proper(rows, b) /\ b.exec = d.exec
        /\ Keeps(rows, b, j)
    <3>1. b \in Rows /\ b.item = d.item /\ b.exec = d.exec /\ Moves(d, b, j)
      BY <1>1, <2>1, SetJobLemma, SetJobMoves DEF JobStatus
    <3> HIDE DEF b
    <3>2. Proper(d, b)
      BY <3>1, StillProper
    <3> QED BY <2>1, <3>1, <3>2, ProperCompose, KeepThenMove
  <2> HIDE DEF b
  <2>3. c \in Rows /\ Proper(rows, c) /\ Keeps(rows, c, j)
    <3>1. c \in Rows /\ Moves(b, c, j)
      BY <1>1, <1>3, <2>2, MarkActiveCancelledLemma, MarkActiveCancelledMoves
    <3>2. Proper(b, c)
      BY <1>1, <1>3, <2>1, <2>2, MarkActiveCancelledProper
    <3> HIDE DEF c
    <3> QED BY <2>2, <3>1, <3>2, ProperCompose, KeepThenMove
  <2> HIDE DEF c
  <2>4. Tidy(c)
    BY <1>1, <2>3 DEF Proper
  <2>5. Proper(c, rows') /\ SendsTidy /\ Moves(c, rows', j)
    BY <1>1, <1>6, <2>3, <2>4, AdvanceTidy, AdvanceOwn
  <2>6. Proper(rows, rows') /\ Within(rows, rows', j)
    BY <2>3, <2>5, ProperCompose, KeepThenMove DEF Keeps
  <2>7. OwnersRest
    BY <1>2, <2>6, UnownedRests
  <2> QED BY <1>2, <2>5, <2>6, <2>7 DEF Calm
<1> HIDE DEF c, kept
<1> QED BY <1>2, <1>5, <1>6

\* A resume readmits an execution and its run, and sends what the rows then name.
LEMMA ResumeCalm ==
  ASSUME TypeInv, OwnerInv, BindInv, StoryInv, NEW j \in Jobs, NEW e \in Execs,
         ResumeExecution(j, e)
  PROVE  Calm
<1> DEFINE admitted == rows.exec[e].state = "pending" /\ rows.exec[e].status = "pending"
           d == IF admitted THEN rows ELSE RequestResume(rows, j, e)
           task == PendingTask(d, j)
<1>1. rows \in Rows /\ Sound(rows) /\ Tidy(rows)
  BY TypeParts DEF BindInv, StoryInv
<1>2. /\ rows' = d /\ JobOf[e] = j /\ ~Owned(j) /\ UNCHANGED <<worker, lock>>
      /\ admitted \/ Resumable(rows, j, e)
      /\ \/ task # NoTask /\ Enqueue(task)
         \/ UNCHANGED <<channel, scheduled>>
  <2> HIDE DEF task
  <2> QED BY DEF ResumeExecution, task
<1>3. d \in Rows /\ Proper(rows, d) /\ Within(rows, d, j)
  <2>1. CASE admitted
    BY <1>1, <2>1, StillProper DEF Within
  <2>2. CASE ~admitted
    <3>1. d = RequestResume(rows, j, e) /\ Resumable(rows, j, e)
      BY <1>2, <2>2
    <3>2. /\ \A k \in Items : d.item[k] # rows.item[k] => JobOf[k] = j
          /\ \A k \in Execs : k # e => d.exec[k] = rows.exec[k]
      <4> HIDE DEF d
      <4> QED BY <1>1, <1>2, <3>1, RequestResumeFinal
    <3> HIDE DEF d
    <3> QED BY <1>1, <1>2, <3>1, <3>2, RequestResumeLemma, RequestResumeProper DEF Within
  <2> QED BY <2>1, <2>2
<1> HIDE DEF d
<1>4. Tidy(d)
  BY <1>1, <1>3 DEF Proper
<1>5. SendsTidy
  <2>1. task # NoTask => TidyTask(rows', task)
    BY <1>2, <1>3, <1>4, PendingTaskTidy
  <2> HIDE DEF task
  <2> QED BY <1>2, <2>1, EnqueueTidy DEF SendsTidy
<1>6. OwnersRest
  BY <1>2, <1>3, UnownedRests
<1> QED BY <1>2, <1>3, <1>5, <1>6 DEF Calm

\* The usual step of a worker: it sends nothing, and writes nothing of the runs and
\* executions of other recordings.
LEMMA WorkerStory ==
  ASSUME TypeInv, OwnerInv, BindInv, StoryInv, Proper(rows, rows'), scheduled' \subseteq scheduled,
         NEW w \in Workers, NEW r, Set(w, r), Story(rows', r), r.pc = "closing" => lock' = w,
         lock' = lock \/ lock \in {w, Free},
         \/ rows'.item = rows.item /\ rows'.exec = rows.exec
         \/ worker[w].pc \in Owning /\ Within(rows, rows', worker[w].task.job)
  PROVE  StoryInv'
<1>1. Tidy(rows') /\ Ages(rows, rows') /\ Stories /\ TidyTasks
  BY DEF StoryInv, Proper
<1>2. TidyTasks'
  BY <1>1, TasksKept DEF SendsTidy
<1>3. \A v \in Workers \ {w} :
        /\ worker[v].pc \in Owning => Rests(rows, rows', worker[v].task.job)
        /\ worker[v].pc = "closing" => lock' = v
  <2>1. \A v \in Workers \ {w} :
          worker[v].pc \in Owning => Rests(rows, rows', worker[v].task.job)
    BY RestsStill, OthersRest
  <2>2. \A v \in Workers \ {w} : worker[v].pc = "closing" => lock' = v
    BY <1>1, QueueAssumption DEF Stories
  <2> QED BY <2>1, <2>2
<1>4. Stories'
  BY <1>1, <1>3, WorkerStories
<1> QED BY <1>1, <1>2, <1>4 DEF StoryInv

\* Workers start with nothing in hand.
LEMMA GrownStory ==
  ASSUME TypeInv, StoryInv, NEW n \in Workers, SetWorkers(n)
  PROVE  StoryInv'
<1>1. UNCHANGED <<rows, scheduled, lock>> /\ worker' = Grown(n)
  BY DEF SetWorkers
<1>2. \A v \in Workers : worker'[v] \in {worker[v], IdleWorker}
  BY <1>1 DEF Grown
<1>3. IdleWorker.pc # "closing"
  BY DEF IdleWorker, OffWorker
<1>4. Stories'
  BY <1>1, <1>2, <1>3, FreeStory DEF Stories, StoryInv
<1> QED BY <1>1, <1>4 DEF StoryInv, TidyTasks

\* The story of a worker whose execution a stop has cancelled, and that is told so.
LEMMA StoppedStory ==
  ASSUME NEW d, NEW r \in CommittedRow, r.pc \in Owning, NEW b, Story(d, r),
         r.bound # NoExec => d.exec[r.bound].state = "cancelled"
  PROVE  Story(d, [r EXCEPT !.stopped = b])
<1> DEFINE x == [r EXCEPT !.stopped = b]
<1>1. /\ x.pc = r.pc /\ x.task = r.task /\ x.bound = r.bound /\ x.exec = r.exec
      /\ x.gen = r.gen /\ x.result = r.result /\ x.outcome = r.outcome
  BY DEF CommittedRow, WorkerRow
<1> HIDE DEF x
<1>2. InHand(d, x)
  BY <1>1 DEF Story, InHand
<1>3. /\ AsClaimed(d, r) => AsClaimed(d, x)
      /\ AsBegun(d, r) => AsBegun(d, x)
      /\ AsBound(d, r) => AsBound(d, x)
      /\ AsReturned(d, r) => AsReturned(d, x)
      /\ AsClosing(d, r) => AsClosing(d, x)
  BY <1>1 DEF AsClaimed, AsBegun, AsBound, AsReturned, AsClosing
<1>4. x.pc # "holding"
  BY <1>1 DEF Owning
<1> QED BY <1>1, <1>2, <1>3, <1>4 DEF Story, x

\* A cancellation under the worker that has the execution in hand, before it closes.
LEMMA FencedStory ==
  ASSUME NEW c, NEW d \in Rows, Columns(d),
         NEW r \in CommittedRow, r.pc \in Owning, r.pc # "closing", Story(d, r),
         r.bound \in Execs, d.exec[r.bound].status # "completed",
         c.item = d.item, c.exec[r.bound].state = "cancelled",
         c.exec[r.bound].item = d.exec[r.bound].item,
         \A f \in Execs : f # r.bound => c.exec[f] = d.exec[f]
  PROVE  Story(c, r)
<1>1. r.bound # NoExec /\ d.exec[r.bound].state # "completed"
  BY IdAssumption DEF Columns
<1>2. InHand(c, r)
  BY DEF Story, InHand
<1>3. r.pc = "claimed" => AsClaimed(c, r)
  BY DEF Story, AsClaimed
<1>4. \A f \in Execs : /\ c.exec[f].item = d.exec[f].item
                       /\ OwnOrCancelled(d, f, r.gen) => OwnOrCancelled(c, f, r.gen)
  BY DEF OwnOrCancelled
<1>5. r.pc \in {"begun", "working", "publishing"} => r.exec \in Execs
  BY DEF CommittedRow
<1>6. r.pc = "begun" => AsBegun(c, r)
  BY <1>4, <1>5 DEF Story, AsBegun
<1>7. r.pc \in {"working", "publishing"} => AsBound(c, r)
  BY <1>4, <1>5 DEF Story, AsBound
<1>8. r.pc = "returned" => AsReturned(c, r)
  BY <1>1 DEF Story, AsReturned
<1> QED BY <1>2, <1>3, <1>6, <1>7, <1>8 DEF Story, Owning

\* A stop of a worker fences the execution first and ends the context after it.
LEMMA KillRunningStory ==
  ASSUME TypeInv, OwnerInv, BindInv, StoryInv, NEW q \in StopRequest, KillRunning(q)
  PROVE  StoryInv'
<1> DEFINE w == running[q.job]
           e == worker[w].bound
           b == worker[w].stopped \/ ~TimedOut(w)
           x == [worker[w] EXCEPT !.stopped = b]
<1>1. rows \in Rows /\ OwnWorkers /\ Columns(rows) /\ Stories
  BY TypeParts DEF BindInv, StoryInv, Tidy
<1>2. w \in Workers /\ q.job \in Jobs /\ Owned(q.job)
  BY TypeParts DEF KillRunning, Owned, StopRequest, RestType
<1>3. worker[w].pc \in Owning /\ worker[w].task.job = q.job
  BY <1>2 DEF OwnerInv, OneOwner
<1>4. /\ worker[w] \in CommittedRow /\ e \in Execs \cup {NoExec}
      /\ Story(rows, worker[w])
  BY <1>1, <1>2, TypeParts DEF CommittedRow, WorkerRow, Stories
<1>5. e # NoExec => JobOf[e] = q.job
  BY <1>1, <1>2, <1>3 DEF OwnWorkers, OwnWorker, Owning
<1>6. /\ UNCHANGED <<scheduled, lock>> /\ Unlocked
      /\ \/ UNCHANGED <<rows, worker>>
         \/ /\ e # NoExec => CanCancel(rows, e)
            /\ rows' = IF e = NoExec THEN rows ELSE Cancel(rows, q.job, e)
            /\ worker' = [worker EXCEPT ![w] = x]
  BY DEF KillRunning, StopHandled
<1>7. worker[w].pc # "closing"
  BY <1>1, <1>2, <1>6, QueueAssumption DEF Stories, Unlocked
<1>8. x.pc = worker[w].pc
  <2> HIDE DEF b, w
  <2> QED BY <1>4 DEF CommittedRow, WorkerRow
<1>9. CASE UNCHANGED <<rows, worker>>
  BY <1>6, <1>9 DEF StoryInv, TidyTasks, Stories
<1>10. CASE worker' = [worker EXCEPT ![w] = x] /\ e = NoExec /\ rows' = rows
  <2>1. Story(rows', x)
    <3> HIDE DEF b, w
    <3> QED BY <1>3, <1>4, <1>10, StoppedStory
  <2>2. Set(w, x)
    BY <1>10 DEF Set
  <2>3. Proper(rows, rows')
    BY <1>10, StillProper
  <2> HIDE DEF x
  <2> QED BY <1>2, <1>6, <1>7, <1>8, <1>10, <2>1, <2>2, <2>3, WorkerStory
<1>11. CASE /\ worker' = [worker EXCEPT ![w] = x] /\ e # NoExec /\ CanCancel(rows, e)
            /\ rows' = Cancel(rows, q.job, e)
  <2>1. /\ Proper(rows, rows') /\ rows'.item = rows.item
        /\ rows'.exec[e].state = "cancelled" /\ rows'.exec[e].item = rows.exec[e].item
        /\ \A f \in Execs : f # e => rows'.exec[f] = rows.exec[f]
    BY <1>1, <1>2, <1>4, <1>11, CancelProper
  <2>2. Within(rows, rows', q.job)
    BY <1>1, <1>2, <1>4, <1>5, <1>11, CancelKeepsFinal DEF Keeps
  <2>3. Story(rows', worker[w])
    <3>1. rows.exec[e].status # "completed" /\ e \in Execs
      BY <1>4, <1>11 DEF CanCancel
    <3> HIDE DEF w
    <3> QED BY <1>1, <1>3, <1>4, <1>7, <2>1, <3>1, FencedStory
  <2>4. Story(rows', x)
    <3> HIDE DEF b, w
    <3> QED BY <1>3, <1>4, <2>1, <2>3, StoppedStory
  <2>5. Set(w, x)
    BY <1>11 DEF Set
  <2> HIDE DEF x
  <2> QED BY <1>2, <1>3, <1>6, <1>7, <1>8, <2>1, <2>2, <2>4, <2>5, WorkerStory
<1> HIDE DEF x
<1> QED BY <1>6, <1>9, <1>10, <1>11

\* What all requests do to the story.
LEMMA RequestsStory ==
  ASSUME TypeInv, OwnerInv, BindInv, StoryInv, DeletingIsQuiet, Requests
  PROVE  StoryInv'
<1>1. Immediate \in SUBSET Jobs /\ Renames \in SUBSET Jobs /\ AutoStarts \in SUBSET Jobs
  BY QueueAssumption
<1>2. ASSUME Calm PROVE StoryInv'
  BY <1>2, QuietStory DEF Calm
<1>3. CASE \/ \E j \in Jobs, i \in Items : AddRun(j, i)
           \/ \E j \in Jobs : ReorderRuns(j) \/ ClearRuns(j)
           \/ \E i \in Items : CancelRun(i)
  BY <1>2, <1>3, LineCalm
<1>4. ASSUME NEW j \in Jobs,
             \/ ReserveJobDeletion(j) \/ DeleteJob(j) \/ ReleaseDeletion(j)
             \/ StartImmediateRun(j) \/ RenameRead(j) \/ RenameSave(j)
             \/ AutoStartSave(j) \/ AutoStartEnqueue(j)
      PROVE  StoryInv'
  BY <1>2, <1>4, StatusCalm
<1>5. CASE \E n \in Workers : SetWorkers(n)
  BY <1>5, GrownStory
<1>6. ASSUME NEW r \in StopRequest, RequestStop(r) PROVE StoryInv'
  <2>1. UNCHANGED <<rows, scheduled, worker, lock>>
    BY <1>6 DEF RequestStop
  <2> QED BY <1>2, <2>1, StillCalm
<1>7. ASSUME NEW r \in StopRequest, Stop(r) PROVE StoryInv'
  BY <1>2, <1>7, KillRunningStory, KillPersistedCalm DEF Stop
<1>8. ASSUME NEW j \in Jobs, NEW e \in Execs, ResumeExecution(j, e) PROVE StoryInv'
  BY <1>2, <1>8, ResumeCalm
<1> QED BY <1>1, <1>3, <1>4, <1>5, <1>6, <1>7, <1>8, ZenonT(60) DEF Requests

\* A worker receives an entry, drops it or exits: nothing is in its hands yet.
LEMMA ReceiveStory ==
  ASSUME TypeInv, OwnerInv, BindInv, StoryInv, NEW w \in Workers, Receive(w) \/ WorkerExit(w)
  PROVE  StoryInv'
<1> DEFINE t == Head(channel)
           r == [IdleWorker EXCEPT !.pc = "holding", !.task = t, !.seen = rows.job[t.job]]
<1>1. /\ UNCHANGED <<rows, lock>> /\ scheduled' \subseteq scheduled
      /\ UNCHANGED worker \/ Set(w, r) \/ Set(w, OffWorker)
  BY DEF Receive, WorkerExit
<1>2. Proper(rows, rows')
  BY <1>1, StillProper
<1>3. r.pc = "holding" /\ r.stopped = FALSE
  <2> HIDE DEF t
  <2> QED BY DEF IdleWorker, OffWorker
<1> HIDE DEF r
<1>4. Story(rows', r) /\ Story(rows', OffWorker) /\ OffWorker.pc # "closing"
  BY <1>3, FreeStory DEF Story, Owning, OffWorker
<1>5. CASE UNCHANGED worker
  BY <1>1, <1>5, StillCalm, QuietStory DEF Calm
<1>6. CASE Set(w, r)
  BY <1>1, <1>2, <1>3, <1>4, <1>6, WorkerStory
<1>7. CASE Set(w, OffWorker)
  BY <1>1, <1>2, <1>4, <1>7, WorkerStory
<1> QED BY <1>1, <1>5, <1>6, <1>7

\* A claim takes its run in hand: no other entry names that run before it began, and
\* the entry's execution is the run's.
LEMMA ClaimStory ==
  ASSUME TypeInv, OwnerInv, BindInv, DispatchInv, StoryInv, NEW w \in Workers, Claim(w)
  PROVE  StoryInv'
<1> DEFINE t == worker[w].task
           j == t.job
           i == t.item
           r == [worker[w] EXCEPT !.pc = "claimed", !.bound = t.exec]
<1>1. /\ rows \in Rows /\ worker[w] \in CommittedRow /\ worker[w].pc = "holding"
      /\ j \in Jobs /\ i \in Items \cup {NoItem} /\ UNCHANGED lock
      /\ t \in Task /\ OwnWorkers /\ OwnChannel /\ TidyTasks /\ Stories /\ Tidy(rows)
  <2>1. worker[w].pc = "holding" /\ UNCHANGED lock
    BY DEF Claim
  <2> QED BY <2>1, TypeParts, TaskParts DEF BindInv, StoryInv
<1>2. CASE ~Takes(w)
  <2>1. UNCHANGED rows /\ Set(w, IdleWorker) /\ scheduled' \subseteq scheduled
    BY <1>2 DEF Claim, Drop
  <2>2. Proper(rows, rows') /\ IdleWorker.pc # "closing"
    BY <2>1, StillProper DEF IdleWorker, OffWorker
  <2> QED BY <1>1, <2>1, <2>2, FreeStory, WorkerStory
<1>3. CASE Takes(w)
  <2>1. /\ Set(w, r) /\ scheduled' = scheduled \ {t}
        /\ i # NoItem => CanClaimItem(rows, j, i)
        /\ rows' = IF i # NoItem THEN ClaimItem(rows, j, i)
                   ELSE SetJob(rows, j, "processing")
    BY <1>3 DEF Claim, Takes, Claimable
  <2>2. r.pc = "claimed" /\ r.task = t /\ r.bound = t.exec /\ r.stopped = FALSE
    <3>1. worker[w].stopped = FALSE
      BY <1>1 DEF Stories, Story, CommittedRow, WorkerRow
    <3> QED BY <1>1, <3>1 DEF CommittedRow, WorkerRow
  <2> HIDE DEF r
  <2>3. CASE i = NoItem
    <3>1. rows'.item = rows.item /\ rows'.exec = rows.exec
      BY <1>1, <2>1, <2>3, SetJobMoves
    <3>2. Proper(rows, rows')
      BY <3>1, StillProper
    <3>3. Story(rows', r)
      BY <2>2, <2>3 DEF Story, InHand, AsClaimed
    <3> QED BY <1>1, <2>1, <2>2, <3>1, <3>2, <3>3, WorkerStory
  <2>4. CASE i # NoItem
    <3>1. i \in Items /\ rows.item[i].status = "pending" /\ t \in scheduled
      <4>1. t \in scheduled
        BY <1>1 DEF DispatchInv, NoDoubleDispatch, Held
      <4> QED BY <1>1, <2>1, <2>4, <4>1 DEF CanClaimItem
    <3>2. /\ Tidy(rows') /\ rows'.exec = rows.exec
          /\ rows'.item[i].status = "processing" /\ rows'.item[i].exec = rows.item[i].exec
          /\ \A k \in Items : k # i => rows'.item[k] = rows.item[k]
      BY <1>1, <2>1, <2>4, <3>1, ClaimItemTidy
    <3>3. TidyTask(rows, t)
      BY <1>1, <3>1 DEF TidyTasks
    <3>4. TidyTasks'
      <4> SUFFICES ASSUME NEW s \in scheduled, s # t PROVE TidyTask(rows', s)
        BY <2>1 DEF TidyTasks
      <4>1. TidyTask(rows, s) /\ s \in Task /\ s.item \in Items \cup {NoItem}
        BY <1>1, TypeParts DEF TidyTasks, DispatchType, Task
      <4>2. CASE s.item # i
        BY <3>2, <4>1, <4>2 DEF TidyTask, Unbound, Bound
      <4>3. CASE s.item = i
        <5>1. OwnTask(s) /\ OwnTask(t)
          <6>1. s \in Entries \cup Held
            BY DEF DispatchInv, NoDoubleDispatch
          <6>2. CASE s \in Entries
            BY <1>1, <6>2 DEF Entries, OwnChannel, OwnWorkers, OwnWorker
          <6>3. CASE s \in Held
            BY <1>1, <6>3 DEF Held, OwnWorkers, OwnWorker
          <6> QED BY <6>1, <6>2, <6>3
        <5>2. s.job = j
          BY <2>4, <4>3, <5>1 DEF OwnTask
        <5>3. s.exec # t.exec
          BY <1>1, <4>1, <4>3, <5>2 DEF Task
        <5>4. s.exec # NoExec
          BY <2>4, <3>1, <3>3, <4>1, <4>3, <5>3 DEF TidyTask, Unbound, Bound
        <5> QED BY <2>4, <3>1, <3>2, <4>1, <4>3, <5>4 DEF TidyTask, Bound
      <4> QED BY <4>2, <4>3
    <3>5. Story(rows', r)
      <4>1. t.exec # NoExec => rows.exec[t.exec].item = i
        BY <2>4, <3>3 DEF TidyTask
      <4>2. t.exec = NoExec => rows.item[i].exec = NoExec
        BY <2>4, <3>3 DEF TidyTask, Unbound
      <4> QED BY <2>2, <3>2, <4>1, <4>2 DEF Story, InHand, AsClaimed
    <3>6. \A k \in Jobs : Rests(rows, rows', k)
      BY <3>1, <3>2 DEF Rests, Over
    <3>7. \A v \in Workers \ {w} :
            /\ worker[v].pc \in Owning => Rests(rows, rows', worker[v].task.job)
            /\ worker[v].pc = "closing" => lock' = v
      <4>1. \A v \in Workers : worker[v].pc \in Owning => worker[v].task.job \in Jobs
        BY TaskParts DEF Owning
      <4> QED BY <1>1, <3>6, <4>1 DEF Stories
    <3>8. Stories'
      BY <1>1, <2>1, <2>2, <3>5, <3>7, WorkerStories
    <3> QED BY <3>2, <3>4, <3>8 DEF StoryInv
  <2> QED BY <2>3, <2>4
<1> QED BY <1>2, <1>3

\* The processor begins an execution for its run, or takes over the one it was sent.
LEMMA BeginStory ==
  ASSUME TypeInv, OwnerInv, BindInv, ProtInv, StoryInv, NEW w \in Workers, NEW e \in Execs,
         BeginRun(w, e) \/ TakeResume(w)
  PROVE  StoryInv'
<1> DEFINE t == worker[w].task
           j == t.job
           i == t.item
           x == IF e \in Timed THEN "ahead" ELSE "unset"
           r(f, g) == [worker[w] EXCEPT !.pc = "begun", !.exec = f, !.gen = g]
<1>1. /\ worker[w].pc = "claimed" /\ worker[w].pc \in Owning
      /\ UNCHANGED <<scheduled, lock>>
  BY DEF BeginRun, TakeResume, Processing, Owning, Pc
<1>2. /\ rows \in Rows /\ worker[w] \in CommittedRow
      /\ j \in Jobs /\ OwnTask(t)
      /\ i \in Items \cup {NoItem} /\ t.exec \in Execs \cup {NoExec}
  BY <1>1, OwnerFacts, TaskParts
<1>3. InHand(rows, worker[w]) /\ AsClaimed(rows, worker[w])
  BY <1>1 DEF StoryInv, Stories, Story
<1>4. \A f, g : LET y == r(f, g)
                IN  /\ y.pc = "begun" /\ y.task = t /\ y.bound = worker[w].bound
                    /\ y.stopped = worker[w].stopped /\ y.exec = f /\ y.gen = g
  BY <1>2 DEF CommittedRow, WorkerRow
<1> HIDE DEF r
<1>5. CASE BeginRun(w, e)
  <2>1. /\ JobOf[e] = j /\ rows.exec[e].state = "none" /\ CanBegin(rows, j, i, e)
        /\ rows' = Begin(rows, i, e, x) /\ Set(w, r(e, 1)) /\ t.exec = NoExec
    BY <1>5 DEF BeginRun, r
  <2>2. x \in Deadline
    BY DEF Deadline
  <2> HIDE DEF x, t
  <2>3. /\ Proper(rows, rows') /\ rows'.exec[e].state = "running" /\ rows'.exec[e].gen = 1
        /\ rows'.exec[e].item = i
        /\ \A k \in Items : rows'.item[k].status = rows.item[k].status
        /\ i # NoItem => rows'.item[i].exec = e
    <3> HIDE DEF i, j
    <3> QED BY <1>2, <2>1, <2>2, BeginProper
  <2>4. Within(rows, rows', j)
    <3>1. i # NoItem => CanBind(rows, i, e) /\ JobOf[i] = JobOf[e]
      BY <1>2, <2>1 DEF CanBegin, OwnTask
    <3> QED BY <1>2, <2>1, <2>2, <3>1, BeginKeepsFinal DEF Keeps
  <2>5. Story(rows', r(e, 1))
    <3>1. r(e, 1).bound = NoExec
      BY <1>3, <1>4, <2>1 DEF AsClaimed, t
    <3>2. InHand(rows', r(e, 1))
      BY <1>2, <1>3, <1>4, <2>3, <3>1, SMTT(30) DEF InHand, t
    <3>3. AsBegun(rows', r(e, 1))
      BY <1>4, <2>1, <2>3, <3>1 DEF AsBegun, OwnOrCancelled, t
    <3> QED BY <1>4, <3>2, <3>3 DEF Story
  <2>6. r(e, 1).pc # "closing"
    BY <1>4
  <2> QED BY <1>1, <2>1, <2>3, <2>4, <2>5, <2>6, WorkerStory DEF t
<1>6. CASE TakeResume(w)
  <2> DEFINE f == t.exec
             g == rows.exec[f].gen
  <2>1. /\ f \in Execs /\ f # NoExec /\ CanClaimResume(rows, f)
        /\ rows' = ClaimResume(rows, f) /\ Set(w, r(f, g))
    BY <1>2, <1>6 DEF TakeResume, r
  <2>2. /\ Proper(rows, rows') /\ rows'.item = rows.item /\ rows'.exec[f].state = "running"
        /\ rows'.exec[f].gen = g /\ rows'.exec[f].item = rows.exec[f].item
    BY <1>2, <2>1, ClaimResumeProper
  <2>3. JobOf[f] = j
    BY <1>2, <2>1 DEF OwnTask
  <2>4. Within(rows, rows', j)
    BY <1>2, <2>1, <2>3, ClaimResumeKeepsFinal DEF Keeps
  <2>5. worker[w].bound = f /\ ~worker[w].stopped
    <3>1. worker[w].bound = f
      BY <1>3 DEF AsClaimed
    <3>2. rows.exec[f].state # "cancelled"
      BY <2>1 DEF CanClaimResume
    <3> QED BY <1>3, <2>1, <3>1, <3>2 DEF InHand
  <2>6. Story(rows', r(f, g))
    <3> DEFINE y == r(f, g)
    <3>1. i # NoItem => rows.exec[f].item = i
      BY <1>3, <2>1, <2>5 DEF InHand
    <3>2. /\ y.pc = "begun" /\ y.task = t /\ y.bound = f
          /\ ~y.stopped /\ y.exec = f /\ y.gen = g
      BY <1>4, <2>5
    <3>3. i # NoItem => rows'.item[i].status \in {"processing"} \cup Over
      BY <1>3, <2>2 DEF InHand
    <3> HIDE DEF y
    <3>4. InHand(rows', y)
      BY <2>2, <3>1, <3>2, <3>3 DEF InHand
    <3>5. AsBegun(rows', y)
      BY <2>1, <2>2, <3>1, <3>2 DEF AsBegun, OwnOrCancelled
    <3> QED BY <3>2, <3>4, <3>5 DEF Story, y
  <2>7. r(f, g).pc # "closing"
    BY <1>4
  <2> HIDE DEF f, g
  <2> QED BY <1>1, <2>1, <2>2, <2>4, <2>6, <2>7, WorkerStory
<1> QED BY <1>5, <1>6

\* A processor that gives up leaves the run as it was told, or as it ended.
LEMMA GivenUp ==
  ASSUME NEW d, NEW x \in CommittedRow, InHand(d, x),
         x.bound = NoExec /\ x.task.item # NoItem /\ d.item[x.task.item].exec # NoExec =>
           d.exec[d.item[x.task.item].exec].state = "cancelled"
  PROVE  LET r == [x EXCEPT !.pc = "returned", !.result = "error"]
         IN  Story(d, r) /\ r.pc # "closing"
<1> DEFINE r == [x EXCEPT !.pc = "returned", !.result = "error"]
<1>1. /\ r.pc = "returned" /\ r.result = "error" /\ r.task = x.task /\ r.bound = x.bound
      /\ r.stopped = x.stopped
  BY DEF CommittedRow, WorkerRow
<1> HIDE DEF r
<1>2. InHand(d, r) /\ AsReturned(d, r)
  BY <1>1 DEF InHand, AsReturned
<1> QED BY <1>1, <1>2 DEF Story, r

\* A run refused before it began is as it was, or its resume has expired.
LEMMA RefuseStory ==
  ASSUME TypeInv, OwnerInv, BindInv, ProtInv, StoryInv, NEW w \in Workers, Refuse(w)
  PROVE  StoryInv'
<1> DEFINE t == worker[w].task
           j == t.job
           i == t.item
           e == t.exec
           r == [worker[w] EXCEPT !.pc = "returned", !.result = "error"]
<1>1. /\ worker[w].pc = "claimed" /\ worker[w].pc \in Owning /\ Set(w, r)
      /\ UNCHANGED <<scheduled, lock>>
      /\ UNCHANGED rows \/ (ExpiresUnclaimed(w) /\ rows' = ExpirePending(rows, j, e))
  BY DEF Refuse, Returned, Processing, Owning, Pc
<1>2. /\ rows \in Rows /\ worker[w] \in CommittedRow
      /\ j \in Jobs /\ OwnTask(t)
      /\ i \in Items \cup {NoItem} /\ e \in Execs \cup {NoExec}
  BY <1>1, OwnerFacts, TaskParts
<1>3. InHand(rows, worker[w]) /\ AsClaimed(rows, worker[w])
  BY <1>1 DEF StoryInv, Stories, Story
<1>4. CASE UNCHANGED rows
  <2>1. Proper(rows, rows')
    BY <1>4, StillProper
  <2>2. worker[w].bound = NoExec /\ i # NoItem => rows.item[i].exec = NoExec
    BY <1>3 DEF AsClaimed
  <2>3. Story(rows', r) /\ r.pc # "closing"
    BY <1>2, <1>3, <1>4, <2>2, GivenUp
  <2> HIDE DEF r
  <2> QED BY <1>1, <1>4, <2>1, <2>3, WorkerStory
<1>5. CASE ExpiresUnclaimed(w) /\ rows' = ExpirePending(rows, j, e)
  <2>1. /\ e \in Execs /\ e # NoExec /\ JobOf[e] = j /\ CanExpire(rows, j, e)
        /\ rows.exec[e].state = "pending"
    BY <1>2, <1>5 DEF ExpiresUnclaimed, OwnTask, CanExpire
  <2>2. /\ Proper(rows, rows') /\ rows'.exec[e].item = rows.exec[e].item
        /\ \A k \in Items : IF k = rows.exec[e].item THEN rows'.item[k].status = "failed"
                            ELSE rows'.item[k] = rows.item[k]
    <3> HIDE DEF e, j
    <3> QED BY <1>2, <1>5, <2>1, ExpireProper
  <2>3. Within(rows, rows', j)
    BY <1>2, <1>5, <2>1, ExpirePendingKeepsFinal DEF Keeps
  <2>4. worker[w].bound = e
    BY <1>3 DEF AsClaimed
  <2>5. InHand(rows', worker[w])
    <3>1. ~worker[w].stopped
      BY <1>3, <2>1, <2>4 DEF InHand
    <3>2. i # NoItem => rows'.item[i].status \in {"processing"} \cup Over
      BY <1>2, <1>3, <2>2 DEF InHand, Over
    <3> QED BY <1>3, <2>2, <2>4, <3>1, <3>2 DEF InHand
  <2>6. Story(rows', r) /\ r.pc # "closing"
    BY <1>2, <2>1, <2>4, <2>5, GivenUp
  <2> HIDE DEF r
  <2> QED BY <1>1, <2>2, <2>3, <2>6, WorkerStory
<1> QED BY <1>1, <1>4, <1>5

\* Registration binds the execution to the run, or cancels it.
LEMMA RegisterStory ==
  ASSUME TypeInv, OwnerInv, BindInv, ProtInv, StoryInv, NEW w \in Workers, Register(w)
  PROVE  StoryInv'
<1> DEFINE t == worker[w].task
           j == t.job
           i == t.item
           e == worker[w].exec
           r == [worker[w] EXCEPT !.pc = "returned", !.result = "error"]
           b == [worker[w] EXCEPT !.pc = "working", !.bound = e]
<1>1. /\ worker[w].pc = "begun" /\ worker[w].pc \in Owning
      /\ UNCHANGED <<scheduled, lock>>
      /\ \/ /\ rows' = IF CanCancel(rows, e) THEN Cancel(rows, j, e) ELSE rows
            /\ Set(w, r)
         \/ /\ ~CtxDone(w) /\ (i # NoItem => CanBind(rows, i, e))
            /\ rows' = IF i = NoItem THEN rows ELSE BindExecution(rows, i, e)
            /\ Set(w, b)
  BY DEF Register, Returned, Processing, Owning, Pc
<1>2. /\ rows \in Rows /\ worker[w] \in CommittedRow
      /\ j \in Jobs /\ OwnTask(t) /\ JobOf[e] = j
      /\ i \in Items \cup {NoItem} /\ e \in Execs
  BY <1>1, OwnerFacts, TaskParts DEF OwnWorker
<1>3. /\ InHand(rows, worker[w]) /\ AsBegun(rows, worker[w])
      /\ rows.exec[e].state # "completed" /\ rows.exec[e].status # "completed"
  <2>1. Columns(rows) /\ InHand(rows, worker[w]) /\ AsBegun(rows, worker[w])
    BY <1>1 DEF StoryInv, Stories, Story, Tidy
  <2> QED BY <1>2, <2>1 DEF AsBegun, OwnOrCancelled, Columns
<1>4. CASE rows' = Cancel(rows, j, e) /\ CanCancel(rows, e) /\ Set(w, r)
  <2>1. /\ Proper(rows, rows') /\ rows'.item = rows.item
        /\ rows'.exec[e].state = "cancelled" /\ rows'.exec[e].item = rows.exec[e].item
        /\ \A f \in Execs : f # e => rows'.exec[f] = rows.exec[f]
    BY <1>2, <1>4, CancelProper
  <2>2. Within(rows, rows', j)
    BY <1>2, <1>4, CancelKeepsFinal DEF Keeps
  <2>3. InHand(rows', worker[w])
    <3>1. worker[w].bound \in Execs \cup {NoExec}
      BY <1>2 DEF CommittedRow, WorkerRow
    <3> QED BY <1>3, <2>1, <3>1 DEF InHand
  <2>4. worker[w].bound = NoExec /\ i # NoItem => rows'.item[i].exec = e
    BY <1>3, <2>1 DEF AsBegun
  <2>5. Story(rows', r) /\ r.pc # "closing"
    BY <1>2, <2>1, <2>3, <2>4, GivenUp
  <2> HIDE DEF r
  <2> QED BY <1>1, <1>4, <2>1, <2>2, <2>5, WorkerStory
<1>5. CASE /\ ~CtxDone(w) /\ (i # NoItem => CanBind(rows, i, e))
           /\ rows' = IF i = NoItem THEN rows ELSE BindExecution(rows, i, e)
           /\ Set(w, b)
  <2>1. /\ Proper(rows, rows') /\ rows'.exec = rows.exec
        /\ i # NoItem => rows'.item[i].status = "processing" /\ rows'.item[i].exec = e
        /\ Within(rows, rows', j)
    <3>1. CASE i = NoItem
      BY <1>5, <3>1, StillProper DEF Within
    <3>2. CASE i # NoItem
      <4>1. /\ i \in Items /\ JobOf[i] = j /\ rows.exec[e].item = i
            /\ rows' = BindExecution(rows, i, e) /\ CanBind(rows, i, e)
        BY <1>2, <1>3, <1>5, <3>2 DEF OwnTask, AsBegun
      <4>2. /\ Proper(rows, rows') /\ rows'.exec = rows.exec
            /\ rows'.item[i].status = "processing" /\ rows'.item[i].exec = e
            /\ \A k \in Items : k # i => rows'.item[k] = rows.item[k]
        <5> HIDE DEF i, e
        <5> QED BY <1>2, <1>3, <4>1, BindProper
      <4> QED BY <4>1, <4>2 DEF Within
    <3> QED BY <3>1, <3>2
  <2>2. ~worker[w].stopped
    BY <1>5 DEF CtxDone, CtxErrors
  <2>3. /\ b.pc = "working" /\ b.task = t /\ b.bound = e /\ b.exec = e
        /\ b.gen = worker[w].gen /\ b.stopped = worker[w].stopped
    BY <1>2 DEF CommittedRow, WorkerRow
  <2> HIDE DEF b
  <2>4. InHand(rows', b)
    BY <1>3, <2>1, <2>2, <2>3 DEF InHand, AsBegun
  <2>5. AsBound(rows', b)
    BY <1>3, <2>1, <2>3 DEF AsBound, AsBegun, OwnOrCancelled
  <2>6. Story(rows', b) /\ b.pc # "closing"
    BY <2>3, <2>4, <2>5 DEF Story
  <2> QED BY <1>1, <1>5, <2>1, <2>6, WorkerStory
<1>6. CanCancel(rows, e)
  BY <1>3 DEF CanCancel
<1> HIDE DEF r, b
<1> QED BY <1>1, <1>4, <1>5, <1>6

\* While adapters run a budget is spent at most.
LEMMA WorkStory ==
  ASSUME TypeInv, OwnerInv, BindInv, StoryInv, NEW w \in Workers, SpendBudget(w) \/ Work(w)
  PROVE  StoryInv'
<1> DEFINE e == worker[w].exec
<1>1. /\ worker[w].pc = "working" /\ UNCHANGED <<scheduled, lock>>
  BY DEF SpendBudget, Work, Processing
<1>2. /\ rows \in Rows /\ worker[w] \in CommittedRow /\ e \in Execs
  BY <1>1, TypeParts, TaskParts
<1>3. CASE SpendBudget(w)
  <2> DEFINE r == [rows.exec[e] EXCEPT !.budget = "spent"]
             c == [rows EXCEPT !.exec[e] = r]
  <2>1. rows' = c /\ UNCHANGED worker
    BY <1>3 DEF SpendBudget
  <2>2. /\ r.state = rows.exec[e].state /\ r.status = rows.exec[e].status
        /\ r.item = rows.exec[e].item /\ r.gen = rows.exec[e].gen
    BY <1>2 DEF Rows, ExecRow
  <2> HIDE DEF r
  <2>3. /\ c.exec[e] = r /\ \A k \in Execs : k # e => c.exec[k] = rows.exec[k]
        /\ c.item = rows.item
    BY <1>2, ExecutionRow
  <2> HIDE DEF c
  <2>4. \A k \in Execs : /\ c.exec[k].state = rows.exec[k].state
                         /\ c.exec[k].status = rows.exec[k].status
                         /\ c.exec[k].item = rows.exec[k].item
                         /\ c.exec[k].gen = rows.exec[k].gen
    BY <2>2, <2>3
  <2>5. Proper(rows, c)
    BY <1>2, <2>3, <2>4, FailuresProper
  <2>6. OwnersRest /\ SendsTidy
    BY <1>1, <2>1, <2>3, <2>4 DEF OwnersRest, Rests, SendsTidy
  <2> QED BY <1>1, <2>1, <2>5, <2>6, QuietStory
<1>4. CASE Work(w)
  <2>1. PICK x \in {"ok", "error", "cancelled"} :
          Set(w, [worker[w] EXCEPT !.pc = "publishing", !.result = x])
    BY <1>4 DEF Work
  <2> DEFINE r == [worker[w] EXCEPT !.pc = "publishing", !.result = x]
  <2>2. rows' = rows /\ Proper(rows, rows')
    BY <1>4, StillProper DEF Work
  <2>3. /\ r.pc = "publishing" /\ r.task = worker[w].task /\ r.bound = worker[w].bound
        /\ r.exec = worker[w].exec /\ r.gen = worker[w].gen /\ r.stopped = worker[w].stopped
    BY <1>2 DEF CommittedRow, WorkerRow
  <2>4. Set(w, r)
    BY <2>1
  <2> HIDE DEF r
  <2>5. InHand(rows, worker[w]) /\ AsBound(rows, worker[w])
    BY <1>1 DEF StoryInv, Stories, Story, Owning, Pc
  <2>6. InHand(rows', r) /\ AsBound(rows', r)
    BY <2>2, <2>3, <2>5 DEF InHand, AsBound, OwnOrCancelled
  <2>7. Story(rows', r) /\ r.pc # "closing"
    BY <2>3, <2>6 DEF Story
  <2> QED BY <1>1, <2>2, <2>4, <2>7, WorkerStory
<1> QED BY <1>3, <1>4

\* Publication ends the execution and the run together, or neither.
LEMMA PublishStory ==
  ASSUME TypeInv, OwnerInv, BindInv, ProtInv, StoryInv, NEW w \in Workers, Publish(w)
  PROVE  StoryInv'
<1> DEFINE t == worker[w].task
           j == t.job
           i == t.item
           e == worker[w].exec
           s == IF worker[w].result = "ok" THEN "completed" ELSE "failed"
           r(x) == [worker[w] EXCEPT !.pc = "returned", !.result = x]
<1>1. /\ worker[w].pc = "publishing" /\ worker[w].pc \in Owning
      /\ UNCHANGED <<scheduled, lock>>
      /\ \/ /\ rows' = rows \/ (CanCancel(rows, e) /\ rows' = Cancel(rows, j, e))
            /\ Set(w, r("error"))
         \/ /\ CanFinish(rows, e, worker[w].gen, s) /\ rows' = Finish(rows, j, e, s)
            /\ Set(w, r(worker[w].result))
  BY DEF Publish, Returned, Processing, Owning, Pc
<1>2. /\ rows \in Rows /\ worker[w] \in CommittedRow /\ j \in Jobs /\ JobOf[e] = j
      /\ i \in Items \cup {NoItem} /\ e \in Execs
  BY <1>1, OwnerFacts, TaskParts DEF OwnWorker
<1>3. /\ InHand(rows, worker[w]) /\ AsBound(rows, worker[w])
      /\ worker[w].bound = e /\ e # NoExec
  BY <1>1, <1>2, IdAssumption DEF StoryInv, Stories, Story, AsBound
<1>4. CASE /\ rows' = rows \/ (CanCancel(rows, e) /\ rows' = Cancel(rows, j, e))
           /\ Set(w, r("error"))
  <2>1. /\ Proper(rows, rows') /\ rows'.item = rows.item
        /\ rows' = rows \/ rows'.exec[e].state = "cancelled"
        /\ rows'.exec[e].item = rows.exec[e].item
        /\ Within(rows, rows', j)
    <3>1. CASE rows' = rows
      BY <3>1, StillProper DEF Within
    <3>2. CASE CanCancel(rows, e) /\ rows' = Cancel(rows, j, e)
      BY <1>2, <3>2, CancelProper, CancelKeepsFinal DEF Keeps
    <3> QED BY <1>4, <3>1, <3>2
  <2>2. InHand(rows', worker[w])
    BY <1>3, <2>1 DEF InHand
  <2>3. Story(rows', r("error")) /\ r("error").pc # "closing"
    BY <1>2, <1>3, <2>2, GivenUp
  <2> HIDE DEF r
  <2> QED BY <1>1, <1>4, <2>1, <2>3, WorkerStory
<1>5. CASE /\ CanFinish(rows, e, worker[w].gen, s) /\ rows' = Finish(rows, j, e, s)
           /\ Set(w, r(worker[w].result))
  <2>1. s \in {"completed", "failed"} /\ (worker[w].result = "ok" => s = "completed")
    OBVIOUS
  <2> DEFINE y == r(worker[w].result)
  <2>2. /\ y.pc = "returned" /\ y.result = worker[w].result /\ y.task = t /\ y.bound = e
        /\ y.stopped = worker[w].stopped
    BY <1>2, <1>3 DEF CommittedRow, WorkerRow
  <2> HIDE DEF s, y
  <2>3. /\ Proper(rows, rows')
        /\ rows'.exec[e].state = s /\ rows'.exec[e].item = rows.exec[e].item
        /\ \A k \in Items : IF k = rows.exec[e].item THEN rows'.item[k].status = s
                            ELSE rows'.item[k] = rows.item[k]
    <3> DEFINE g == worker[w].gen
    <3>1. CanFinish(rows, e, g, s) /\ rows' = Finish(rows, j, e, s)
      BY <1>5
    <3> HIDE DEF g, e, j
    <3> QED BY <1>2, <2>1, <3>1, FinishProper
  <2>4. Within(rows, rows', j)
    BY <1>2, <1>5, <2>1, FinishFinal
  <2>5. ~worker[w].stopped
    BY <1>3, <1>5 DEF InHand, CanFinish
  <2>6. InHand(rows', y)
    <3>1. i # NoItem => rows'.item[i].status \in {"processing"} \cup Over
      BY <1>2, <1>3, <2>1, <2>3 DEF InHand, Over
    <3> QED BY <1>3, <2>2, <2>3, <2>5, <3>1 DEF InHand
  <2>7. AsReturned(rows', y)
    BY <1>3, <2>1, <2>2, <2>3 DEF AsReturned
  <2>8. Story(rows', y) /\ y.pc # "closing"
    BY <2>2, <2>6, <2>7 DEF Story
  <2>9. Set(w, y)
    BY <1>5 DEF y
  <2> HIDE DEF r
  <2> QED BY <1>1, <2>3, <2>4, <2>8, <2>9, WorkerStory
<1> HIDE DEF r
<1> QED BY <1>1, <1>4, <1>5

\* The outcome a worker closes with is the one of its execution.
LEMMA CloseStory ==
  ASSUME TypeInv, OwnerInv, BindInv, ProtInv, StoryInv, NEW w \in Workers, Close(w)
  PROVE  StoryInv'
<1> DEFINE x == worker[w]
           s == Outcome(w)
           r == [worker[w] EXCEPT !.pc = "closing", !.outcome = s]
<1>1. /\ x.pc = "returned" /\ x.pc \in Owning /\ Unlocked /\ lock' = w
      /\ Set(w, r) /\ UNCHANGED scheduled
      /\ rows' = rows \/ rows' = SetJob(rows, x.task.job, JobOutcome(s))
  BY DEF Close, ClosedRows, Owning, Pc
<1>2. /\ rows \in Rows /\ x \in CommittedRow /\ x.task.job \in Jobs
  BY <1>1, OwnerFacts
<1>3. InHand(rows, x) /\ AsReturned(rows, x)
  BY <1>1 DEF StoryInv, Stories, Story
<1>4. rows'.item = rows.item /\ rows'.exec = rows.exec
  <2> HIDE DEF s, x
  <2> QED BY <1>1, <1>2, SetJobMoves
<1>5. Proper(rows, rows')
  BY <1>4, StillProper
<1>6. /\ r.pc = "closing" /\ r.outcome = s /\ r.task = x.task /\ r.bound = x.bound
      /\ r.stopped = x.stopped
  <2> HIDE DEF s
  <2> QED BY <1>2 DEF CommittedRow, WorkerRow
<1>7. IF x.bound = NoExec THEN s # "completed"
      ELSE /\ s = "completed" <=> rows.exec[x.bound].state = "completed"
           /\ s = "cancelled" => rows.exec[x.bound].state = "cancelled"
  <2>1. CASE Published(w)
    BY <2>1 DEF Published, Outcome
  <2>2. CASE ~Published(w)
    <3>1. x.bound # NoExec =>
            rows.exec[x.bound].state \notin {"completed", "failed", "cancelled"}
      BY <2>2 DEF Published
    <3>2. x.result # "ok"
      BY <1>1, <1>3, <3>1 DEF AsReturned
    <3>3. s \in {"cancelled", "failed"} /\ (s = "cancelled" => x.stopped)
      BY <2>2, <3>2 DEF Outcome
    <3> QED BY <1>3, <3>1, <3>3 DEF InHand
  <2> QED BY <2>1, <2>2
<1> HIDE DEF r, s
<1>8. InHand(rows', r) /\ AsReturned(rows', r) /\ AsClosing(rows', r)
  BY <1>3, <1>4, <1>6, <1>7 DEF InHand, AsReturned, AsClosing
<1>9. Story(rows', r)
  BY <1>6, <1>8 DEF Story
<1> QED BY <1>1, <1>4, <1>5, <1>9, WorkerStory DEF Unlocked

\* The release writes that outcome on the run and admits the next one.
LEMMA ReleaseStory ==
  ASSUME TypeInv, OwnerInv, BindInv, ProtInv, StoryInv, NEW w \in Workers, Release(w)
  PROVE  StoryInv'
<1> DEFINE x == worker[w]
           t == x.task
           j == t.job
           i == t.item
           e == x.bound
           s == x.outcome
           c == Finalize(rows, j, i, s, e)
<1>1. /\ x.pc = "closing" /\ x.pc \in Owning /\ Set(w, IdleWorker) /\ lock = w
      /\ Stories /\ TidyTasks /\ Tidy(rows)
  BY DEF Release, StoryInv, Stories, Owning, Pc
<1>2. /\ rows \in Rows /\ x \in CommittedRow /\ j \in Jobs
      /\ OwnTask(t) /\ OwnWorker(x)
      /\ i \in Items \cup {NoItem} /\ e \in Execs \cup {NoExec}
      /\ s \in {"completed", "failed", "cancelled"}
      /\ i # NoItem => JobOf[i] = j
      /\ e # NoExec => JobOf[e] = j
  BY <1>1, OwnerFacts, TaskParts DEF OwnTask, OwnWorker
<1>3. InHand(rows, x) /\ AsReturned(rows, x) /\ AsClosing(rows, x)
  BY <1>1 DEF Stories, Story
<1>4. c \in Rows /\ Moves(rows, c, j)
  <2>1. s \in ItemStatus \ Live
    BY <1>2 DEF ItemStatus, Live, ActiveStatus
  <2> HIDE DEF x, t, j, i, e, s
  <2> QED BY <1>2, <2>1, FinalizeLemma, FinalizeMoves
<1>5. Proper(rows, c)
  <2>1. i # NoItem => rows.item[i].status # "pending"
    BY <1>3 DEF InHand, Over
  <2>2. i # NoItem /\ rows.item[i].status = "processing" =>
          Agrees(rows, i, s, IF e = NoExec THEN rows.item[i].exec ELSE e)
    <3> SUFFICES ASSUME i # NoItem
                 PROVE  Agrees(rows, i, s, IF e = NoExec THEN rows.item[i].exec ELSE e)
      OBVIOUS
    <3>1. CASE e # NoExec
      BY <1>2, <1>3, <3>1 DEF InHand, AsClosing, Agrees
    <3>2. CASE e = NoExec
      <4>1. Agrees(rows, i, rows.item[i].status, rows.item[i].exec)
        BY <1>1, <1>2 DEF Tidy, RunsAgree
      <4> QED BY <1>2, <1>3, <3>2, <4>1 DEF AsReturned, AsClosing, Agrees
    <3> QED BY <3>1, <3>2
  <2> HIDE DEF x, t, j, i, e, s
  <2> QED BY <1>2, <2>1, <2>2, FinalizeProper
<1>6. Advance(c, j, FALSE, j \in protected) \/ Advance(rows, j, FALSE, j \in protected)
  BY DEF Release
<1> HIDE DEF c
<1>7. PICK b \in Rows : /\ Proper(rows, b) /\ Moves(rows, b, j)
                        /\ Advance(b, j, FALSE, j \in protected)
  BY <1>2, <1>4, <1>5, <1>6, StillProper, StillMoves
<1>8. Tidy(b)
  BY <1>1, <1>7 DEF Proper
<1>9. Proper(b, rows') /\ SendsTidy /\ Moves(b, rows', j)
  BY <1>2, <1>7, <1>8, AdvanceTidy, AdvanceOwn
<1>10. Proper(rows, rows') /\ Within(rows, rows', j)
  BY <1>7, <1>9, ProperCompose, MovesCompose, MovesKeep DEF Keeps
<1>11. Tidy(rows') /\ TidyTasks'
  BY <1>1, <1>9, <1>10, TasksKept DEF Proper
<1>12. \A v \in Workers \ {w} :
         /\ worker[v].pc \in Owning => Rests(rows, rows', worker[v].task.job)
         /\ worker[v].pc = "closing" => lock' = v
  BY <1>1, <1>10, OthersRest DEF Stories
<1>13. Stories'
  <2>1. Story(rows', IdleWorker) /\ IdleWorker.pc # "closing"
    BY FreeStory DEF IdleWorker, OffWorker
  <2> HIDE DEF x
  <2> QED BY <1>1, <1>12, <2>1, WorkerStories
<1> QED BY <1>11, <1>13 DEF StoryInv

\* All steps of a worker.
LEMMA WorkersStory ==
  ASSUME TypeInv, OwnerInv, BindInv, ProtInv, DispatchInv, StoryInv,
         NEW w \in Workers, WorkerStep(w) \/ SpendBudget(w)
  PROVE  StoryInv'
<1>1. CASE TakeResume(w)
  <2>1. worker[w].task.exec \in Execs
    BY <1>1, TaskParts DEF TakeResume, Processing
  <2> QED BY <1>1, <2>1, BeginStory
<1>2. CASE Receive(w) \/ Claim(w) \/ WorkerExit(w)
  BY <1>2, ReceiveStory, ClaimStory
<1>3. CASE Refuse(w) \/ Register(w) \/ (\E e \in Execs : BeginRun(w, e))
  BY <1>3, RefuseStory, RegisterStory, BeginStory
<1>4. CASE Work(w) \/ SpendBudget(w) \/ Publish(w) \/ Close(w) \/ Release(w)
  BY <1>4, WorkStory, PublishStory, CloseStory, ReleaseStory
<1> QED BY <1>1, <1>2, <1>3, <1>4 DEF WorkerStep

\* A repair ends the run nobody owns as its execution ended.
LEMMA RepairsProper ==
  ASSUME rows \in Rows, Sound(rows), Tidy(rows), NEW j \in Jobs, NEW d \in Repairs(j)
  PROVE  Proper(rows, d)
<1> DEFINE orphans == ItemsIn(rows, j, {"processing"})
           i == CHOOSE x \in orphans : TRUE
           b == Unclaimed(rows, j)
           e == rows.item[i].exec
<1>1. /\ b \in Rows /\ Proper(rows, b) /\ b.item = rows.item
      /\ \A k \in Execs : b.exec[k].state = rows.exec[k].state
  <2> DEFINE a == SetJob(rows, j, "failed")
  <2>1. a \in Rows /\ a.item = rows.item /\ a.exec = rows.exec
    BY SetJobLemma, SetJobMoves DEF JobStatus
  <2>2. b = rows \/ b = FailProcessing(a, j)
    BY DEF Unclaimed
  <2> HIDE DEF a, b
  <2>3. CASE b = rows
    BY <2>3, StillProper
  <2>4. CASE b = FailProcessing(a, j)
    <3>1. /\ b \in Rows /\ Proper(a, b)
          /\ \A k \in Execs : b.exec[k].state = a.exec[k].state
      BY <2>1, <2>4, FailProcessingLemma, FailProcessingProper
    <3>2. b.item = a.item
      BY <2>1, <2>4 DEF FailProcessing, Rows
    <3>3. Proper(rows, a)
      BY <2>1, StillProper
    <3> QED BY <2>1, <3>1, <3>2, <3>3, ProperCompose
  <2> QED BY <2>2, <2>3, <2>4
<1>2. CASE d = rows
  BY <1>2, StillProper
<1>3. CASE d = b
  BY <1>1, <1>3
<1>4. CASE /\ orphans # {}
           /\ d \in {Finalize(b, j, i, s, e) : s \in OrphanOutcomes(rows, j, i)}
  <2>1. i \in Items /\ JobOf[i] = j /\ rows.item[i].status = "processing"
    BY <1>4 DEF ItemsIn
  <2>2. e \in Execs \cup {NoExec} /\ (e # NoExec => JobOf[e] = j)
    <3> HIDE DEF i
    <3> QED BY <2>1 DEF Rows, ItemRow, Sound
  <2>3. PICK s \in OrphanOutcomes(rows, j, i) : d = Finalize(b, j, i, s, e)
    BY <1>4
  <2>4. s \in {"completed", "failed", "cancelled"}
    <3> HIDE DEF i
    <3> QED BY DEF OrphanOutcomes
  <2>5. Tidy(b) /\ b.item[i].exec = e /\ b.item[i].status = "processing"
    BY <1>1, <2>1 DEF Proper
  <2>6. Agrees(b, i, s, e)
    <3> SUFFICES ASSUME e # NoExec PROVE Agrees(b, i, s, e)
      BY DEF Agrees
    <3>1. e \in Execs /\ b.exec[e].item = i
      BY <2>1, <2>2, <2>5 DEF Tidy, RunsAgree, Agrees
    <3>2. s = CASE rows.exec[e].status = "completed" -> "completed"
                [] rows.exec[e].state = "cancelled"  -> "cancelled"
                [] OTHER                             -> "failed"
      <4> HIDE DEF i
      <4> QED BY DEF OrphanOutcomes
    <3>3. rows.exec[e].state = "completed" <=> rows.exec[e].status = "completed"
      BY <3>1 DEF Tidy, Columns
    <3> HIDE DEF e, i
    <3>4. /\ s = "completed" <=> rows.exec[e].state = "completed"
          /\ s = "cancelled" => rows.exec[e].state = "cancelled"
      BY <3>2, <3>3
    <3> QED BY <1>1, <2>4, <3>1, <3>4 DEF Agrees
  <2>7. Proper(b, d)
    <3> HIDE DEF b, i, e
    <3>1. i \in Items \cup {NoItem} /\ i # NoItem
      BY <2>1, IdAssumption
    <3> QED BY <1>1, <2>1, <2>2, <2>3, <2>4, <2>5, <2>6, <3>1, FinalizeProper
  <2> QED BY <1>1, <2>7, ProperCompose
<1> HIDE DEF b
<1> QED BY <1>2, <1>3, <1>4 DEF Repairs, b

\* The reconciler repairs what nobody owns and sends what the rows then name.
LEMMA ReconcileCalm ==
  ASSUME TypeInv, OwnerInv, BindInv, StoryInv, NEW j \in Jobs, Reconcile(j)
  PROVE  Calm
<1>1. /\ rows \in Rows /\ DispatchType /\ Sound(rows) /\ Tidy(rows)
      /\ ~Owned(j) /\ UNCHANGED <<worker, lock>>
  BY TypeParts DEF BindInv, StoryInv, Reconcile
<1>2. CASE KeepsRecovery(j)
  <2>1. UNCHANGED <<rows, scheduled>>
    BY <1>2 DEF Reconcile
  <2> QED BY <1>1, <2>1, StillCalm
<1>3. CASE ~KeepsRecovery(j)
  <2>1. PICK d \in Repairs(j) : Redispatch(d, j)
    BY <1>3 DEF Reconcile
  <2>2. d \in Rows /\ Keeps(rows, d, j) /\ Proper(rows, d) /\ Tidy(d)
    BY <1>1, RepairsLemma, RepairsFinal, RepairsProper DEF Proper
  <2>3. Proper(rows, rows') /\ SendsTidy /\ Within(rows, rows', j)
    <3>1. CASE Advance(d, j, FALSE, FALSE)
      <4>1. Proper(d, rows') /\ SendsTidy /\ Moves(d, rows', j)
        BY <1>1, <2>2, <3>1, AdvanceTidy, AdvanceOwn
      <4> QED BY <2>2, <4>1, ProperCompose, KeepThenMove DEF Keeps
    <3>2. CASE rows' = d /\ UNCHANGED <<channel, scheduled>>
      BY <2>2, <3>2 DEF Keeps, SendsTidy
    <3>3. CASE /\ rows' = d /\ PendingTask(d, j) # NoTask
               /\ Enqueue(PendingTask(d, j))
      <4>1. TidyTask(d, PendingTask(d, j))
        BY <2>2, <3>3, PendingTaskTidy
      <4> QED BY <2>2, <3>3, <4>1, EnqueueTidy DEF Keeps
    <3> QED BY <2>1, <3>1, <3>2, <3>3 DEF Redispatch
  <2>4. OwnersRest
    BY <1>1, <2>3, UnownedRests
  <2> QED BY <1>1, <2>3, <2>4 DEF Calm
<1> QED BY <1>2, <1>3

\* Startup repairs while nobody owns anything.
LEMMA RepairCalm ==
  ASSUME TypeInv, OwnerInv, Recover \/ ResetZombieJobs
  PROVE  Calm
<1>1. /\ rows \in Rows /\ UNCHANGED <<scheduled, worker, lock>>
      /\ \A w \in Workers : worker[w].pc \notin Owning
  BY TypeParts DEF Recover, ResetZombieJobs, unstarted, OwnerInv, Quiet, Owning
<1>2. Proper(rows, rows')
  <2>1. CASE Recover
    <3>1. rows' = rows \/ rows' = InterruptAll(rows)
      BY <2>1 DEF Recover
    <3> QED BY <1>1, <3>1, StillProper, InterruptAllProper
  <2>2. CASE ResetZombieJobs
    <3> DEFINE zombies == {j \in Jobs : rows.job[j] = "processing"} \ protected
               x == [j \in Jobs |-> IF j \in zombies THEN "failed" ELSE rows.job[j]]
               r(e) == [rows.exec[e] EXCEPT !.status = "failed"]
               y == [e \in Execs |-> IF JobOf[e] \in zombies
                                        /\ rows.exec[e].status = "processing"
                                     THEN r(e) ELSE rows.exec[e]]
    <3>1. rows' = [rows EXCEPT !.job = x, !.exec = y]
      BY <2>2 DEF ResetZombieJobs
    <3>2. rows'.item = rows.item /\ rows'.exec = y
      <4> HIDE DEF x, y
      <4> QED BY <1>1, <3>1 DEF Rows
    <3>3. \A e \in Execs : /\ r(e).state = rows.exec[e].state /\ r(e).status = "failed"
                           /\ r(e).item = rows.exec[e].item
      BY <1>1 DEF Rows, ExecRow
    <3> HIDE DEF zombies, r
    <3>4. \A e \in Execs : \/ rows'.exec[e] = rows.exec[e]
                           \/ /\ rows'.exec[e].item = rows.exec[e].item
                              /\ rows.exec[e].status = "processing"
                              /\ rows'.exec[e].state = rows.exec[e].state
                              /\ rows'.exec[e].status = "failed"
      BY <3>2, <3>3
    <3> QED BY <1>1, <3>2, <3>4, FailuresProper
  <2> QED BY <2>1, <2>2
<1> QED BY <1>1, <1>2 DEF Calm, SendsTidy, OwnersRest

\* Promotion at startup is a change of the waiting lines.
LEMMA PromotedAllLine ==
  ASSUME NEW d \in Rows
  PROVE  LineChange(d, PromotedAll(d))
<1> DEFINE next == {j \in Jobs : Promotable(d, j) /\ j \notin protected}
           c == PromotedAll(d)
           x == [j \in Jobs |-> IF j \in next THEN PromoteNext(d, j).job[j] ELSE d.job[j]]
           y == [i \in Items |-> IF JobOf[i] \in next
                                 THEN PromoteNext(d, JobOf[i]).item[i] ELSE d.item[i]]
<1>1. c = [d EXCEPT !.job = x, !.item = y]
  BY DEF PromotedAll
<1>2. c.exec = d.exec /\ c.item = y
  <2> HIDE DEF c, x, y
  <2> QED BY <1>1 DEF Rows
<1>3. \A j \in next : LineChange(d, PromoteNext(d, j))
  BY PromoteNextLine
<1> HIDE DEF c, next, x
<1>4. \A i \in Items : \/ c.item[i] = d.item[i]
                       \/ \E j \in next : c.item[i] = PromoteNext(d, j).item[i]
  BY <1>2
<1> HIDE DEF y
<1> QED BY <1>2, <1>3, <1>4 DEF LineChange, c

\* Launch: the rows are tidied, and every entry comes from them.
LEMMA LaunchStory ==
  ASSUME TypeInv, BindInv, StoryInv, Launch
  PROVE  StoryInv'
<1> DEFINE b == FailInterruptedExcept(rows, protected)
           d == PromotedAll(b)
           S == {k \in Jobs \ protected : d.job[k] = "pending"}
           tasks == {PendingTask(d, j) : j \in S} \ {NoTask}
           n == IF Cardinality(tasks) <= Capacity THEN Cardinality(tasks) ELSE Capacity
<1>1. rows \in Rows /\ Tidy(rows)
  BY TypeParts DEF StoryInv
<1>2. b \in Rows /\ Proper(rows, b)
  BY <1>1, FailInterruptedExceptLemma, FailInterruptedProper
<1>3. d \in Rows /\ Proper(b, d)
  <2> HIDE DEF b
  <2> QED BY <1>2, PromotedAllLemma, PromotedAllLine, LineProper
<1>4. rows' = d
  BY DEF Launch
<1>5. Tidy(rows')
  <2> HIDE DEF b, d
  <2> QED BY <1>1, <1>2, <1>3, <1>4 DEF Proper
<1>6. \A t \in scheduled' : t \in tasks
  <2>1. PICK order \in [1..n -> tasks] : scheduled' = {order[p] : p \in 1..n}
    BY DEF Launch
  <2> HIDE DEF tasks, n
  <2> QED BY <2>1
<1> HIDE DEF b, d, n
<1>7. \A t \in tasks : TidyTask(rows', t)
  BY <1>3, <1>4, <1>5, PendingTaskTidy
<1> HIDE DEF tasks
<1>8. TidyTasks'
  BY <1>6, <1>7 DEF TidyTasks
<1>9. Stories'
  <2>1. \A w \in Workers : worker'[w] \in {IdleWorker, OffWorker}
    BY DEF Launch
  <2>2. IdleWorker.pc # "closing" /\ OffWorker.pc # "closing"
    BY DEF IdleWorker, OffWorker
  <2> QED BY <2>1, <2>2, FreeStory DEF Stories
<1> QED BY <1>5, <1>8, <1>9 DEF StoryInv

\* The end of the process forgets the workers and the entries.
LEMMA EndStory ==
  ASSUME StoryInv, Crash \/ Drain \/ Halt
  PROVE  StoryInv'
<1>1. CASE Drain
  BY <1>1 DEF Drain, memory, StoryInv, TidyTasks, Stories
<1>2. CASE Forget
  <2>1. /\ rows' = rows /\ scheduled' = {} /\ \A w \in Workers : worker'[w] = OffWorker
    BY <1>2 DEF Forget
  <2>2. OffWorker.pc # "closing"
    BY DEF OffWorker
  <2> QED BY <2>1, <2>2, FreeStory DEF StoryInv, TidyTasks, Stories
<1> QED BY <1>1, <1>2 DEF Crash, Halt

\* A deadline that passes changes no story.
LEMMA DeadlineCalm ==
  ASSUME TypeInv, NEW e \in Execs, DeadlinePasses(e)
  PROVE  Calm
<1> DEFINE r == [rows.exec[e] EXCEPT !.deadline = "past"]
           c == [rows EXCEPT !.exec[e] = r]
<1>1. /\ rows \in Rows /\ rows' = c /\ UNCHANGED <<scheduled, worker, lock>>
  BY TypeParts DEF DeadlinePasses, memory
<1>2. /\ r.state = rows.exec[e].state /\ r.status = rows.exec[e].status
      /\ r.item = rows.exec[e].item /\ r.gen = rows.exec[e].gen
  BY <1>1 DEF Rows, ExecRow
<1> HIDE DEF r
<1>3. /\ c.exec[e] = r /\ \A k \in Execs : k # e => c.exec[k] = rows.exec[k]
      /\ c.item = rows.item
  BY <1>1, ExecutionRow
<1> HIDE DEF c
<1>4. \A k \in Execs : /\ c.exec[k].state = rows.exec[k].state
                       /\ c.exec[k].status = rows.exec[k].status
                       /\ c.exec[k].item = rows.exec[k].item
                       /\ c.exec[k].gen = rows.exec[k].gen
  BY <1>2, <1>3
<1>5. Proper(rows, c)
  BY <1>1, <1>3, <1>4, FailuresProper
<1>6. OwnersRest
  BY <1>1, <1>3, <1>4 DEF OwnersRest, Rests
<1> QED BY <1>1, <1>5, <1>6 DEF Calm, SendsTidy

\* Every step.
LEMMA NextStory ==
  ASSUME TypeInv, OwnerInv, BindInv, ProtInv, DispatchInv, StoryInv, DeletingIsQuiet,
         [Next]_vars
  PROVE  StoryInv'
<1>1. ASSUME Calm PROVE StoryInv'
  BY <1>1, QuietStory DEF Calm
<1>2. CASE UNCHANGED vars
  BY <1>2 DEF vars, memory, StoryInv, TidyTasks, Stories
<1>3. CASE Requests
  BY <1>3, RequestsStory
<1>4. CASE \E w \in Workers : WorkerStep(w) \/ SpendBudget(w)
  BY <1>4, WorkersStory
<1>5. CASE \E j \in Jobs : Reconcile(j)
  BY <1>1, <1>5, ReconcileCalm
<1>6. CASE Process
  BY <1>1, <1>6, RepairCalm, LaunchStory, EndStory DEF Process
<1>7. CASE \E e \in Execs : DeadlinePasses(e)
  BY <1>1, <1>7, DeadlineCalm
<1> QED BY <1>2, <1>3, <1>4, <1>5, <1>6, <1>7 DEF Next

\* At first there is nothing to tell.
LEMMA InitStory == Init => StoryInv
<1> SUFFICES ASSUME Init PROVE StoryInv
  OBVIOUS
<1>1. /\ rows = InitRows /\ scheduled = {} /\ \A w \in Workers : worker[w] = OffWorker
  BY DEF Init
<1>2. /\ \A e \in Execs : /\ rows.exec[e].state = "none" /\ rows.exec[e].status = "none"
                          /\ rows.exec[e].item = NoItem
      /\ \A i \in Items : rows.item[i].exec = NoExec
  BY <1>1 DEF InitRows
<1>3. Tidy(rows)
  BY <1>2 DEF Tidy, Columns, SingleCompeting, RunsAgree, Agrees, ActiveStatus
<1>4. Stories
  <2>1. OffWorker.pc # "closing"
    BY DEF OffWorker
  <2> QED BY <1>1, <2>1, FreeStory DEF Stories
<1> QED BY <1>1, <1>3, <1>4 DEF StoryInv, TidyTasks

\* Memory, runs and executions tell one story in every reachable state.
LEMMA StoryInvariant == Spec => []StoryInv
<1>1. TypeInv /\ OwnerInv /\ BindInv /\ ProtInv /\ DispatchInv /\ DeletingIsQuiet
        /\ StoryInv /\ [Next]_vars => StoryInv'
  BY NextStory
<1> QED BY <1>1, InitStory, TypeInvariant, OwnerInvariant, BindInvariant, ProtInvariant,
           DispatchInvariant, DeletionIsExclusive, PTL DEF Spec

\* At most one execution of a recording counts as its live one: starts are refused
\* while another competes, and repairs, stops and crashes end the one they find
\* (CreateExecution, BeginExecution, ReconcileInterruptedJobs).
THEOREM LiveExecutionIsSingle == Spec => []OneLiveExecution
<1>1. StoryInv => OneLiveExecution
  BY DEF StoryInv, Tidy, SingleCompeting, OneLiveExecution, Competing, ExecsOf
<1> QED BY <1>1, StoryInvariant, PTL

\* No request, repair or deletion takes the run from under a live worker: while its
\* adapters run, the run is the processing one, bound to the worker's execution, which
\* is running at the worker's generation or already fenced (BindExecution, CancelJob).
THEOREM OwnersHoldTheirRuns == Spec => []OwnerHoldsItsRun
<1>1. StoryInv => OwnerHoldsItsRun
  BY DEF StoryInv, Stories, Story, AsBound, OwnOrCancelled, OwnerHoldsItsRun
<1> QED BY <1>1, StoryInvariant, PTL

\* The run and the execution it is bound to, written by separate transactions, agree on
\* how the work ended, whichever of stop, publication and shutdown came first
\* (Finish, MarkActiveCancelled, Finalize).
THEOREM RunsAndExecutionsAgree == Spec => []OutcomesAgree
<1>1. StoryInv => OutcomesAgree
  BY DEF StoryInv, Tidy, RunsAgree, Agrees, OutcomesAgree
<1> QED BY <1>1, StoryInvariant, PTL

-----------------------------------------------------------------------------
(* A recording is owned only while its row says so.                        *)

\* The recordings whose row nobody writes but the queue.
Steady == Jobs \ (Renames \cup AutoStarts)

\* An owner at work has its recording processing, or has been stopped.
InSight(d, r) ==
  r.pc \in {"claimed", "begun", "working"} =>
    \/ d.job[r.task.job] = "processing"
    \/ r.stopped
    \/ r.bound # NoExec /\ d.exec[r.bound].state = "cancelled"

SightInv == \A w \in Workers : worker[w].task.job \in Steady => InSight(rows, worker[w])

\* What a step leaves of the status of the recordings in hand.
OwnersKeep ==
  \A w \in Workers :
    worker[w].pc \in Owning /\ worker[w].task.job \in Steady =>
      rows'.job[worker[w].task.job] = rows.job[worker[w].task.job]

\* A step that writes no status.
LEMMA SameJobsKeep ==
  ASSUME rows'.job = rows.job
  PROVE  OwnersKeep
BY DEF OwnersKeep

\* A step on a recording nobody owns, or whose status others write too.
LEMMA UnownedKeeps ==
  ASSUME TypeInv, OwnerInv, NEW j, ~Owned(j) \/ j \notin Steady, OnlyJob(rows, rows', j)
  PROVE  OwnersKeep
<1> SUFFICES ASSUME NEW w \in Workers, worker[w].pc \in Owning,
                    worker[w].task.job \in Steady
             PROVE  rows'.job[worker[w].task.job] = rows.job[worker[w].task.job]
  BY DEF OwnersKeep
<1>1. running[worker[w].task.job] = w /\ w # 0
  BY DEF OwnerInv, OneOwner, Workers
<1> QED BY <1>1 DEF Owned, OnlyJob, Steady

\* What an owner sees does not change while its recording rests.
LEMMA SightStable ==
  ASSUME NEW c, NEW d, NEW r \in CommittedRow, OwnWorker(r),
         r.pc \in Owning => /\ Rests(d, c, r.task.job)
                            /\ c.job[r.task.job] = d.job[r.task.job],
         InSight(d, r)
  PROVE  InSight(c, r)
<1> SUFFICES ASSUME r.pc \in {"claimed", "begun", "working"}
             PROVE  InSight(c, r)
  BY DEF InSight
<1>1. /\ r.pc \in Owning /\ r.pc \notin {"off", "idle"}
      /\ r.bound \in Execs \cup {NoExec}
  BY DEF Owning, Pc, CommittedRow, WorkerRow
<1>2. r.bound # NoExec => JobOf[r.bound] = r.task.job
  BY <1>1 DEF OwnWorker
<1>3. r.bound # NoExec => c.exec[r.bound].state = d.exec[r.bound].state
  BY <1>1, <1>2 DEF Rests
<1> QED BY <1>1, <1>3 DEF InSight

\* A step in which no worker moves.
LEMMA QuietSight ==
  ASSUME TypeInv, BindInv, SightInv, OwnersRest, OwnersKeep, UNCHANGED worker
  PROVE  SightInv'
<1> SUFFICES ASSUME NEW w \in Workers, worker[w].task.job \in Steady
             PROVE  InSight(rows', worker[w])
  BY DEF SightInv, Steady
<1>1. worker[w] \in CommittedRow /\ OwnWorker(worker[w]) /\ InSight(rows, worker[w])
  BY TypeParts DEF BindInv, OwnWorkers, SightInv
<1> QED BY <1>1, SightStable DEF OwnersRest, OwnersKeep

\* A step of one worker.
LEMMA WorkerSight ==
  ASSUME TypeInv, BindInv, SightInv, NEW w \in Workers, NEW r, Set(w, r),
         r.task.job \in Steady => InSight(rows', r),
         \A v \in Workers \ {w} :
           worker[v].pc \in Owning /\ worker[v].task.job \in Steady =>
             /\ Rests(rows, rows', worker[v].task.job)
             /\ rows'.job[worker[v].task.job] = rows.job[worker[v].task.job]
  PROVE  SightInv'
<1>1. \A v \in Workers : worker'[v] = IF v = w THEN r ELSE worker[v]
  BY TypeParts DEF Set
<1>2. ASSUME NEW v \in Workers, worker'[v].task.job \in Steady
      PROVE  InSight(rows', worker'[v])
  <2>1. CASE v = w
    BY <1>1, <1>2, <2>1
  <2>2. CASE v # w
    <3>1. /\ worker[v] \in CommittedRow /\ OwnWorker(worker[v])
          /\ worker[v].task.job \in Steady /\ InSight(rows, worker[v])
      BY <1>1, <1>2, <2>2, TypeParts DEF BindInv, OwnWorkers, SightInv
    <3>2. InSight(rows', worker[v])
      BY <2>2, <3>1, SightStable
    <3> QED BY <1>1, <2>2, <3>2
  <2> QED BY <2>1, <2>2
<1> QED BY <1>2 DEF SightInv, Steady

\* A worker's step on its own recording: the others' rest.
LEMMA OwnerSight ==
  ASSUME TypeInv, OwnerInv, BindInv, SightInv, NEW w \in Workers, worker[w].pc \in Owning,
         NEW r, Set(w, r), r.task.job \in Steady => InSight(rows', r),
         Within(rows, rows', worker[w].task.job), OnlyJob(rows, rows', worker[w].task.job)
  PROVE  SightInv'
<1>1. \A v \in Workers \ {w} : worker[v].pc \in Owning =>
        /\ Rests(rows, rows', worker[v].task.job)
        /\ worker[v].task.job # worker[w].task.job
  BY OthersRest DEF OwnerInv, OneOwner
<1>2. \A v \in Workers \ {w} :
        worker[v].pc \in Owning /\ worker[v].task.job \in Steady =>
          /\ Rests(rows, rows', worker[v].task.job)
          /\ rows'.job[worker[v].task.job] = rows.job[worker[v].task.job]
  BY <1>1 DEF OnlyJob, Steady
<1> QED BY <1>2, WorkerSight

\* Promotion concerns one recording, and none that is owned.
LEMMA AdvanceJobs ==
  ASSUME NEW c \in Rows, NEW j \in Jobs, NEW owned, NEW kept, Advance(c, j, owned, kept)
  PROVE  OnlyJob(c, rows', j) /\ (owned => rows' = c)
<1>1. OnlyJob(c, c, j)
  BY DEF OnlyJob
<1> QED BY <1>1, PromoteNextJobs DEF Advance, JobSet

\* Additions to and edits of the waiting line.
LEMMA LineKeeps ==
  ASSUME TypeInv, OwnerInv,
         \/ \E j \in Jobs, i \in Items : AddRun(j, i)
         \/ \E j \in Jobs : ReorderRuns(j) \/ ClearRuns(j)
         \/ \E i \in Items : CancelRun(i)
  PROVE  OwnersKeep
<1>1. rows \in Rows
  BY TypeParts
<1>2. ASSUME NEW j \in Jobs, NEW i \in Items, AddRun(j, i) PROVE OwnersKeep
  <2> DEFINE c == AppendRun(rows, j, i)
  <2>1. c \in Rows /\ c.job = rows.job
    BY <1>1, <1>2, AppendRunLemma, LineJobs DEF AddRun
  <2>2. Advance(c, j, Owned(j), j \in protected)
    BY <1>2 DEF AddRun
  <2> HIDE DEF c
  <2>3. OnlyJob(c, rows', j) /\ (Owned(j) => rows' = c)
    BY <2>1, <2>2, AdvanceJobs
  <2>4. CASE Owned(j)
    BY <2>1, <2>3, <2>4, SameJobsKeep
  <2>5. CASE ~Owned(j)
    <3>1. OnlyJob(rows, rows', j)
      BY <2>1, <2>3 DEF OnlyJob
    <3> QED BY <2>5, <3>1, UnownedKeeps
  <2> QED BY <2>4, <2>5
<1>3. ASSUME NEW j \in Jobs, ReorderRuns(j) PROVE OwnersKeep
  <2>1. PICK place \in Orders(rows, j) : rows' = ReorderQueued(rows, place)
    BY <1>3 DEF ReorderRuns, EditLine
  <2>2. rows'.job = rows.job
    BY <1>1, <2>1, LineJobs
  <2> QED BY <2>2, SameJobsKeep
<1>4. ASSUME NEW j \in Jobs, ClearRuns(j) PROVE OwnersKeep
  <2>1. rows'.job = rows.job
    BY <1>1, <1>4, LineJobs DEF ClearRuns, EditLine
  <2> QED BY <2>1, SameJobsKeep
<1>5. ASSUME NEW i \in Items, CancelRun(i) PROVE OwnersKeep
  <2>1. rows' = CancelQueued(rows, i) /\ JobOf[i] \in Jobs
    BY <1>5, IdAssumption DEF CancelRun, EditLine
  <2>2. rows'.job = rows.job
    BY <1>1, <2>1, LineJobs
  <2> QED BY <2>2, SameJobsKeep
<1> QED BY <1>2, <1>3, <1>4, <1>5

\* Requests that write a status do so where nobody owns the recording, but for the
\* titles and the starts that write over it.
LEMMA StatusKeeps ==
  ASSUME TypeInv, OwnerInv, DeletingIsQuiet, NEW j \in Jobs,
         \/ ReserveJobDeletion(j) \/ DeleteJob(j) \/ ReleaseDeletion(j)
         \/ StartImmediateRun(j)
         \/ j \in Renames /\ (RenameRead(j) \/ RenameSave(j))
         \/ j \in AutoStarts /\ (AutoStartSave(j) \/ AutoStartEnqueue(j))
  PROVE  OwnersKeep
<1>1. rows \in Rows
  BY TypeParts
<1>2. CASE DeleteJob(j)
  <2>1. j \in deleting /\ rows' = DeleteWithAssociations(rows, j)
    BY <1>2 DEF DeleteJob
  <2>2. OnlyJob(rows, rows', j) /\ ~Owned(j)
    BY <1>1, <2>1, DeleteJobs DEF JobSet, DeletingIsQuiet
  <2> QED BY <2>2, UnownedKeeps
<1>3. CASE StartImmediateRun(j)
  <2>1. ~Owned(j) /\ rows' = SetJob(rows, j, "pending")
    BY <1>3 DEF StartImmediateRun, AtRest
  <2>2. OnlyJob(rows, rows', j)
    BY <1>1, <2>1, SetJobRow DEF JobSet
  <2> QED BY <2>1, <2>2, UnownedKeeps
<1>4. CASE ReserveJobDeletion(j) \/ ReleaseDeletion(j) \/ RenameRead(j)
  <2>1. rows' = rows
    BY <1>4 DEF ReserveJobDeletion, ReleaseDeletion, RenameRead
  <2> QED BY <2>1, SameJobsKeep
<1>5. CASE \/ j \in Renames /\ RenameSave(j)
           \/ j \in AutoStarts /\ (AutoStartSave(j) \/ AutoStartEnqueue(j))
  <2>1. j \notin Steady
    BY <1>5 DEF Steady
  <2>2. \/ rows' = rows
        \/ \E s : rows' = SetJob(rows, j, s)
        \/ \E s : rows' = [rows EXCEPT !.job[j] = s]
    BY <1>5 DEF RenameSave, AutoStartSave, AutoStartEnqueue
  <2>3. OnlyJob(rows, rows', j)
    <3>1. \A s : OnlyJob(rows, SetJob(rows, j, s), j)
      BY <1>1, SetJobRow DEF JobSet
    <3>2. \A s : OnlyJob(rows, [rows EXCEPT !.job[j] = s], j)
      BY <1>1 DEF Rows, OnlyJob
    <3>3. OnlyJob(rows, rows, j)
      BY DEF OnlyJob
    <3> QED BY <2>2, <3>1, <3>2, <3>3
  <2> QED BY <2>1, <2>3, UnownedKeeps
<1> QED BY <1>2, <1>3, <1>4, <1>5

\* A stop without an owner.
LEMMA KillPersistedKeeps ==
  ASSUME TypeInv, OwnerInv, BindInv, NEW r \in StopRequest, KillPersisted(r)
  PROVE  OwnersKeep
<1> DEFINE j == r.job
           i == FindActive(rows, j)
           E == Persisted(j)
           e == CHOOSE x \in E : TRUE
           d == IF E = {} THEN rows ELSE Cancel(rows, j, e)
           b == SetJob(d, j, "failed")
           c == MarkActiveCancelled(b, j, i)
           kept == IF E # {} /\ phase = "up" THEN protected \ {j} ELSE protected
<1>1. /\ rows \in Rows /\ DispatchType /\ Sound(rows)
      /\ j \in Jobs /\ i \in Items \cup {NoItem}
  BY FindType, TypeParts DEF BindInv, StopRequest
<1>2. /\ ~Owned(j)
      /\ UNCHANGED rows \/ Advance(c, j, FALSE, j \in kept)
  BY DEF KillPersisted, StopHandled
<1>3. \A x \in E : x \in Execs
  BY <1>1, PersistedOwn DEF Persisted
<1> HIDE DEF i, E, j
<1>4. CASE UNCHANGED rows
  BY <1>4, SameJobsKeep
<1>5. CASE Advance(c, j, FALSE, j \in kept)
  <2>1. d \in Rows /\ OnlyJob(rows, d, j)
    <3>1. CASE E = {}
      BY <1>1, <3>1 DEF OnlyJob
    <3>2. CASE E # {}
      <4>1. e \in Execs
        BY <1>3, <3>2
      <4> HIDE DEF e
      <4>2. d \in Rows /\ d = Cancel(rows, j, e)
        BY <1>1, <3>2, <4>1, CancelLemma
      <4> HIDE DEF d
      <4>3. OnlyJob(rows, rows, j)
        BY DEF OnlyJob
      <4> QED BY <1>1, <4>1, <4>2, <4>3, CancelJobs DEF JobSet
    <3> QED BY <3>1, <3>2
  <2> HIDE DEF d
  <2>2. b \in Rows /\ OnlyJob(d, b, j)
    BY <1>1, <2>1, SetJobLemma, SetJobRow DEF JobSet, JobStatus
  <2> HIDE DEF b
  <2>3. c \in Rows /\ OnlyJob(b, c, j)
    <3>1. OnlyJob(b, b, j)
      BY DEF OnlyJob
    <3> QED BY <1>1, <2>2, <3>1, MarkActiveCancelledLemma, MarkActiveCancelledJobs DEF JobSet
  <2> HIDE DEF c, kept
  <2>4. OnlyJob(c, rows', j)
    BY <1>1, <1>5, <2>3, AdvanceJobs
  <2>5. OnlyJob(rows, rows', j)
    BY <2>1, <2>2, <2>3, <2>4 DEF OnlyJob
  <2> QED BY <1>2, <2>5, UnownedKeeps
<1> QED BY <1>2, <1>4, <1>5

\* A resume, and the reconciler's repair, of a recording nobody owns.
LEMMA ResumeKeeps ==
  ASSUME TypeInv, OwnerInv, NEW j \in Jobs, NEW e \in Execs, ResumeExecution(j, e)
  PROVE  OwnersKeep
<1>1. rows \in Rows
  BY TypeParts
<1>2. ~Owned(j) /\ (rows' = rows \/ rows' = RequestResume(rows, j, e))
  BY DEF ResumeExecution
<1>3. OnlyJob(rows, rows', j)
  <2>1. OnlyJob(rows, rows, j)
    BY DEF OnlyJob
  <2> QED BY <1>1, <1>2, <2>1, RequestResumeJobs DEF JobSet
<1> QED BY <1>2, <1>3, UnownedKeeps

\* A repair writes the status of the recording it repairs.
LEMMA RepairsJobs ==
  ASSUME rows \in Rows, Sound(rows), NEW j \in Jobs, NEW d \in Repairs(j)
  PROVE  OnlyJob(rows, d, j)
<1> DEFINE orphans == ItemsIn(rows, j, {"processing"})
           i == CHOOSE x \in orphans : TRUE
           b == Unclaimed(rows, j)
           e == rows.item[i].exec
<1>1. b \in Rows /\ OnlyJob(rows, b, j)
  <2> DEFINE a == SetJob(rows, j, "failed")
  <2>1. a \in Rows /\ OnlyJob(rows, a, j)
    BY SetJobLemma, SetJobRow DEF JobStatus, JobSet
  <2>2. b = rows \/ b = FailProcessing(a, j)
    BY DEF Unclaimed
  <2> HIDE DEF a, b
  <2>3. CASE b = rows
    BY <2>3 DEF OnlyJob
  <2>4. CASE b = FailProcessing(a, j)
    BY <2>1, <2>4, FailProcessingLemma, LineJobs DEF OnlyJob
  <2> QED BY <2>2, <2>3, <2>4
<1>2. CASE d = rows
  BY <1>2 DEF OnlyJob
<1>3. CASE d = b
  BY <1>1, <1>3
<1>4. CASE /\ orphans # {}
           /\ d \in {Finalize(b, j, i, s, e) : s \in OrphanOutcomes(rows, j, i)}
  <2>1. i \in Items
    BY <1>4 DEF ItemsIn
  <2>2. e \in Execs \cup {NoExec}
    <3> HIDE DEF i
    <3> QED BY <2>1 DEF Rows, ItemRow
  <2>3. PICK s \in OrphanOutcomes(rows, j, i) : d = Finalize(b, j, i, s, e)
    BY <1>4
  <2>4. s \in ItemStatus
    <3> HIDE DEF i
    <3> QED BY DEF OrphanOutcomes, ItemStatus
  <2> HIDE DEF b, i, e
  <2>5. OnlyJob(b, b, j)
    BY DEF OnlyJob
  <2>6. OnlyJob(b, d, j)
    BY <1>1, <2>1, <2>2, <2>3, <2>4, <2>5, FinalizeJobs DEF JobSet
  <2> QED BY <1>1, <2>6 DEF OnlyJob
<1> HIDE DEF b
<1> QED BY <1>2, <1>3, <1>4 DEF Repairs, b

\* The reconciler.
LEMMA ReconcileKeeps ==
  ASSUME TypeInv, OwnerInv, BindInv, NEW j \in Jobs, Reconcile(j)
  PROVE  OwnersKeep
<1>1. rows \in Rows /\ Sound(rows) /\ ~Owned(j)
  BY TypeParts DEF BindInv, Reconcile
<1>2. CASE KeepsRecovery(j)
  <2>1. UNCHANGED rows
    BY <1>2 DEF Reconcile
  <2> QED BY <2>1, SameJobsKeep
<1>3. CASE ~KeepsRecovery(j)
  <2>1. PICK d \in Repairs(j) : Redispatch(d, j)
    BY <1>3 DEF Reconcile
  <2>2. d \in Rows /\ OnlyJob(rows, d, j)
    BY <1>1, RepairsLemma, RepairsJobs
  <2>3. OnlyJob(d, rows', j)
    <3>1. OnlyJob(d, d, j)
      BY DEF OnlyJob
    <3>2. rows' = d \/ Advance(d, j, FALSE, FALSE)
      BY <2>1 DEF Redispatch
    <3> QED BY <2>2, <3>1, <3>2, AdvanceJobs
  <2>4. OnlyJob(rows, rows', j)
    BY <2>2, <2>3 DEF OnlyJob
  <2> QED BY <1>1, <2>4, UnownedKeeps
<1> QED BY <1>2, <1>3

\* A stop of a worker cancels the execution or ends the context.
LEMMA KillRunningSight ==
  ASSUME TypeInv, OwnerInv, BindInv, SightInv, NEW q \in StopRequest, KillRunning(q)
  PROVE  SightInv'
<1> DEFINE w == running[q.job]
           e == worker[w].bound
           b == worker[w].stopped \/ ~TimedOut(w)
           x == [worker[w] EXCEPT !.stopped = b]
<1>1. rows \in Rows /\ OwnWorkers
  BY TypeParts DEF BindInv
<1>2. w \in Workers /\ q.job \in Jobs /\ Owned(q.job)
  BY TypeParts DEF KillRunning, Owned, StopRequest, RestType
<1>3. worker[w].pc \in Owning /\ worker[w].task.job = q.job
  BY <1>2 DEF OwnerInv, OneOwner
<1>4. worker[w] \in CommittedRow /\ e \in Execs \cup {NoExec}
  BY <1>2, TypeParts DEF CommittedRow, WorkerRow
<1>5. e # NoExec => JobOf[e] = q.job
  BY <1>1, <1>2, <1>3 DEF OwnWorkers, OwnWorker, Owning
<1>6. \/ UNCHANGED <<rows, worker>>
      \/ /\ e # NoExec => CanCancel(rows, e)
         /\ rows' = IF e = NoExec THEN rows ELSE Cancel(rows, q.job, e)
         /\ worker' = [worker EXCEPT ![w] = x]
  BY DEF KillRunning
<1>7. /\ x.pc = worker[w].pc /\ x.task = worker[w].task /\ x.bound = e
      /\ worker[w].stopped => x.stopped
  <2> HIDE DEF w
  <2>1. worker[w].stopped => b
    OBVIOUS
  <2> HIDE DEF b
  <2> QED BY <1>4, <2>1 DEF CommittedRow, WorkerRow
<1>8. q.job \in Steady => InSight(rows, worker[w])
  BY <1>2, <1>3 DEF SightInv
<1>9. CASE UNCHANGED <<rows, worker>>
  BY <1>9 DEF SightInv, InSight
<1>10. CASE worker' = [worker EXCEPT ![w] = x] /\ e = NoExec /\ rows' = rows
  <2>1. q.job \in Steady => InSight(rows', x)
    <3> HIDE DEF w, x
    <3> QED BY <1>7, <1>8, <1>10 DEF InSight
  <2>2. Set(w, x) /\ Within(rows, rows', q.job) /\ OnlyJob(rows, rows', q.job)
    BY <1>10 DEF Set, Within, OnlyJob
  <2> HIDE DEF x
  <2> QED BY <1>2, <1>3, <1>7, <2>1, <2>2, OwnerSight
<1>11. CASE /\ worker' = [worker EXCEPT ![w] = x] /\ e # NoExec /\ CanCancel(rows, e)
            /\ rows' = Cancel(rows, q.job, e)
  <2>1. Within(rows, rows', q.job) /\ rows'.exec[e].state = "cancelled"
    BY <1>1, <1>2, <1>4, <1>5, <1>11, CancelKeepsFinal DEF Keeps
  <2>2. OnlyJob(rows, rows', q.job)
    <3>1. OnlyJob(rows, rows, q.job)
      BY DEF OnlyJob
    <3>2. e \in Execs
      BY <1>4, <1>11
    <3> HIDE DEF e
    <3> QED BY <1>1, <1>2, <1>11, <3>1, <3>2, CancelJobs DEF JobSet
  <2>3. InSight(rows', x) /\ Set(w, x)
    <3> HIDE DEF w, x
    <3> QED BY <1>7, <1>11, <2>1 DEF InSight, Set
  <2> HIDE DEF x
  <2> QED BY <1>2, <1>3, <1>7, <2>1, <2>2, <2>3, OwnerSight
<1> HIDE DEF x
<1> QED BY <1>6, <1>9, <1>10, <1>11

\* What all requests leave in sight.
LEMMA RequestsSight ==
  ASSUME TypeInv, OwnerInv, BindInv, StoryInv, SightInv, DeletingIsQuiet, Requests
  PROVE  SightInv'
<1>1. Immediate \in SUBSET Jobs /\ Renames \in SUBSET Jobs /\ AutoStarts \in SUBSET Jobs
  BY QueueAssumption
<1>2. ASSUME Calm, OwnersKeep PROVE SightInv'
  BY <1>2, QuietSight DEF Calm
<1>3. CASE \/ \E j \in Jobs, i \in Items : AddRun(j, i)
           \/ \E j \in Jobs : ReorderRuns(j) \/ ClearRuns(j)
           \/ \E i \in Items : CancelRun(i)
  BY <1>2, <1>3, LineCalm, LineKeeps
<1>4. ASSUME NEW j \in Jobs,
             \/ ReserveJobDeletion(j) \/ DeleteJob(j) \/ ReleaseDeletion(j)
             \/ StartImmediateRun(j)
             \/ j \in Renames /\ (RenameRead(j) \/ RenameSave(j))
             \/ j \in AutoStarts /\ (AutoStartSave(j) \/ AutoStartEnqueue(j))
      PROVE  SightInv'
  <2>1. OwnersKeep
    BY <1>4, StatusKeeps
  <2>2. Calm
    BY <1>4, StatusCalm
  <2> QED BY <1>2, <2>1, <2>2
<1>5. ASSUME NEW n \in Workers, SetWorkers(n) PROVE SightInv'
  <2>1. UNCHANGED rows /\ \A v \in Workers : worker'[v] \in {worker[v], IdleWorker}
    BY <1>5 DEF SetWorkers, Grown
  <2>2. \A d : InSight(d, IdleWorker)
    BY DEF InSight, IdleWorker, OffWorker
  <2> QED BY <2>1, <2>2 DEF SightInv, Steady
<1>6. ASSUME NEW r \in StopRequest, RequestStop(r) PROVE SightInv'
  <2>1. UNCHANGED <<rows, scheduled, worker, lock>>
    BY <1>6 DEF RequestStop
  <2> QED BY <1>2, <2>1, StillCalm, SameJobsKeep
<1>7. ASSUME NEW r \in StopRequest, Stop(r) PROVE SightInv'
  BY <1>2, <1>7, KillRunningSight, KillPersistedCalm, KillPersistedKeeps DEF Stop
<1>8. ASSUME NEW j \in Jobs, NEW e \in Execs, ResumeExecution(j, e) PROVE SightInv'
  BY <1>2, <1>8, ResumeCalm, ResumeKeeps
<1>9. \A j \in Immediate : StartImmediateRun(j) => SightInv'
  BY <1>1, <1>4
<1>10. \A j \in Renames : RenameRead(j) \/ RenameSave(j) => SightInv'
  BY <1>1, <1>4
<1>11. \A j \in AutoStarts : AutoStartSave(j) \/ AutoStartEnqueue(j) => SightInv'
  BY <1>1, <1>4
<1> QED BY <1>3, <1>4, <1>5, <1>6, <1>7, <1>8, <1>9, <1>10, <1>11, ZenonT(60) DEF Requests

\* A worker that receives, drops or lays down an entry owns nothing yet.
LEMMA ReceiveSight ==
  ASSUME TypeInv, OwnerInv, BindInv, StoryInv, SightInv, NEW w \in Workers,
         Receive(w) \/ WorkerExit(w)
  PROVE  SightInv'
<1> DEFINE t == Head(channel)
           r == [IdleWorker EXCEPT !.pc = "holding", !.task = t, !.seen = rows.job[t.job]]
<1>1. UNCHANGED rows /\ (UNCHANGED worker \/ Set(w, r) \/ Set(w, OffWorker))
  BY DEF Receive, WorkerExit
<1>2. r.pc = "holding" /\ OffWorker.pc = "off"
  <2> HIDE DEF t
  <2> QED BY DEF IdleWorker, OffWorker
<1> HIDE DEF r
<1>3. InSight(rows', r) /\ InSight(rows', OffWorker)
  BY <1>2 DEF InSight
<1>4. \A k : Rests(rows, rows', k)
  BY <1>1, RestsStill
<1>5. CASE UNCHANGED worker
  BY <1>1, <1>5 DEF SightInv, InSight
<1>6. CASE Set(w, r) \/ Set(w, OffWorker)
  BY <1>1, <1>3, <1>4, <1>6, WorkerSight
<1> QED BY <1>1, <1>5, <1>6

\* A claim makes the recording a processing one.
LEMMA ClaimSight ==
  ASSUME TypeInv, OwnerInv, BindInv, SightInv, NEW w \in Workers, Claim(w)
  PROVE  SightInv'
<1> DEFINE t == worker[w].task
           j == t.job
           i == t.item
           r == [worker[w] EXCEPT !.pc = "claimed", !.bound = t.exec]
<1>1. /\ rows \in Rows /\ worker[w] \in CommittedRow
      /\ j \in Jobs /\ i \in Items \cup {NoItem}
  <2>1. worker[w].pc = "holding"
    BY DEF Claim
  <2> QED BY <2>1, TypeParts, TaskParts
<1>2. CASE ~Takes(w)
  <2>1. UNCHANGED rows /\ Set(w, IdleWorker)
    BY <1>2 DEF Claim, Drop
  <2>2. InSight(rows', IdleWorker)
    BY DEF InSight, IdleWorker, OffWorker
  <2>3. \A k : Rests(rows, rows', k)
    BY <2>1, RestsStill
  <2> QED BY <2>1, <2>2, <2>3, WorkerSight
<1>3. CASE Takes(w)
  <2>1. /\ Set(w, r) /\ ~Owned(j) /\ rows.job[j] = "pending"
        /\ i # NoItem => CanClaimItem(rows, j, i)
        /\ rows' = IF i # NoItem THEN ClaimItem(rows, j, i)
                   ELSE SetJob(rows, j, "processing")
    BY <1>3 DEF Claim, Takes, Claimable, CanClaimItem
  <2>2. Within(rows, rows', j)
    <3>1. Keeps(rows, rows', j)
      BY <1>1, <2>1, ClaimItemMoves, SetJobMoves, MovesKeep
    <3> QED BY <3>1 DEF Keeps
  <2>3. JobSet(rows, rows', j, "processing")
    BY <1>1, <2>1, ClaimItemJobs, SetJobRow
  <2>4. InSight(rows', r)
    <3>1. r.task = t
      BY <1>1 DEF CommittedRow, WorkerRow
    <3> HIDE DEF r
    <3> QED BY <2>1, <2>3, <3>1 DEF JobSet, InSight
  <2>5. OwnersRest /\ OwnersKeep
    BY <2>1, <2>2, <2>3, UnownedRests, UnownedKeeps DEF JobSet
  <2> HIDE DEF r
  <2> QED BY <2>1, <2>4, <2>5, WorkerSight DEF OwnersRest, OwnersKeep
<1> QED BY <1>2, <1>3

\* An execution begins, or is taken over, under a recording that is processing.
LEMMA BeginSight ==
  ASSUME TypeInv, OwnerInv, BindInv, ProtInv, StoryInv, SightInv,
         NEW w \in Workers, NEW e \in Execs, BeginRun(w, e) \/ TakeResume(w)
  PROVE  SightInv'
<1> DEFINE t == worker[w].task
           j == t.job
           i == t.item
           x == IF e \in Timed THEN "ahead" ELSE "unset"
           r(f, g) == [worker[w] EXCEPT !.pc = "begun", !.exec = f, !.gen = g]
<1>1. worker[w].pc = "claimed" /\ worker[w].pc \in Owning
  BY DEF BeginRun, TakeResume, Processing, Owning, Pc
<1>2. /\ rows \in Rows /\ worker[w] \in CommittedRow
      /\ j \in Jobs /\ OwnTask(t)
      /\ i \in Items \cup {NoItem} /\ t.exec \in Execs \cup {NoExec}
  BY <1>1, OwnerFacts, TaskParts
<1>3. worker[w].bound = t.exec
  BY <1>1 DEF StoryInv, Stories, Story, AsClaimed
<1>4. \A f, g : LET y == r(f, g)
                IN  /\ y.pc = "begun" /\ y.task = t /\ y.bound = worker[w].bound
                    /\ y.stopped = worker[w].stopped
  BY <1>2 DEF CommittedRow, WorkerRow
<1> HIDE DEF r
<1>5. CASE BeginRun(w, e)
  <2>1. /\ JobOf[e] = j /\ rows.exec[e].state = "none" /\ CanBegin(rows, j, i, e)
        /\ rows' = Begin(rows, i, e, x) /\ Set(w, r(e, 1))
    BY <1>5 DEF BeginRun, r
  <2>2. x \in Deadline
    BY DEF Deadline
  <2> HIDE DEF x
  <2>3. Within(rows, rows', j)
    <3>1. i # NoItem => CanBind(rows, i, e) /\ JobOf[i] = JobOf[e]
      BY <1>2, <2>1 DEF CanBegin, OwnTask
    <3> QED BY <1>2, <2>1, <2>2, <3>1, BeginKeepsFinal DEF Keeps
  <2>4. rows'.job = rows.job
    BY <1>2, <2>1, BeginJobs
  <2>5. rows.job[j] = "processing"
    BY <2>1 DEF CanBegin
  <2>6. InSight(rows', r(e, 1))
    BY <1>4, <2>4, <2>5 DEF InSight
  <2>7. OnlyJob(rows, rows', j)
    BY <2>4 DEF OnlyJob
  <2> QED BY <1>1, <2>1, <2>3, <2>6, <2>7, OwnerSight
<1>6. CASE TakeResume(w)
  <2> DEFINE f == t.exec
             g == rows.exec[f].gen
  <2>1. /\ f \in Execs /\ f # NoExec /\ CanClaimResume(rows, f)
        /\ rows' = ClaimResume(rows, f) /\ Set(w, r(f, g))
    BY <1>2, <1>6 DEF TakeResume, r
  <2>2. JobOf[f] = j
    BY <1>2, <2>1 DEF OwnTask
  <2>3. Within(rows, rows', j)
    BY <1>2, <2>1, <2>2, ClaimResumeKeepsFinal DEF Keeps
  <2>4. rows'.job = rows.job
    BY <1>2, <2>1, LineJobs
  <2>5. OnlyJob(rows, rows', j)
    BY <2>4 DEF OnlyJob
  <2>6. rows.exec[f].state # "cancelled"
    BY <2>1 DEF CanClaimResume
  <2>7. j \in Steady => InSight(rows', r(f, g))
    <3>1. j \in Steady => InSight(rows, worker[w])
      BY DEF SightInv
    <3> QED BY <1>1, <1>3, <1>4, <2>4, <2>6, <3>1 DEF InSight
  <2>8. r(f, g).task.job = j
    BY <1>4
  <2> HIDE DEF f, g
  <2> QED BY <1>1, <2>1, <2>3, <2>5, <2>7, <2>8, OwnerSight
<1> QED BY <1>5, <1>6

\* A worker at work registers its execution while its recording is processing.
LEMMA RegisterSight ==
  ASSUME TypeInv, OwnerInv, BindInv, ProtInv, StoryInv, SightInv,
         NEW w \in Workers, Register(w)
  PROVE  SightInv'
<1> DEFINE t == worker[w].task
           j == t.job
           i == t.item
           e == worker[w].exec
           r == [worker[w] EXCEPT !.pc = "returned", !.result = "error"]
           b == [worker[w] EXCEPT !.pc = "working", !.bound = e]
<1>1. /\ worker[w].pc = "begun" /\ worker[w].pc \in Owning
      /\ \/ /\ rows' = IF CanCancel(rows, e) THEN Cancel(rows, j, e) ELSE rows
            /\ Set(w, r)
         \/ /\ ~CtxDone(w) /\ (i # NoItem => CanBind(rows, i, e))
            /\ rows' = IF i = NoItem THEN rows ELSE BindExecution(rows, i, e)
            /\ Set(w, b)
  BY DEF Register, Returned, Processing, Owning, Pc
<1>2. /\ rows \in Rows /\ worker[w] \in CommittedRow
      /\ j \in Jobs /\ OwnTask(t) /\ JobOf[e] = j
      /\ i \in Items \cup {NoItem} /\ e \in Execs
  BY <1>1, OwnerFacts, TaskParts DEF OwnWorker
<1>3. AsBegun(rows, worker[w])
  BY <1>1 DEF StoryInv, Stories, Story
<1>4. r.pc = "returned" /\ b.pc = "working" /\ b.task = t /\ b.bound = e
      /\ b.stopped = worker[w].stopped
  BY <1>2 DEF CommittedRow, WorkerRow
<1> HIDE DEF r, b
<1>5. OnlyJob(rows, rows, j) /\ Within(rows, rows, j)
  BY DEF OnlyJob, Within
<1>6. CASE /\ rows' = IF CanCancel(rows, e) THEN Cancel(rows, j, e) ELSE rows
           /\ Set(w, r)
  <2>1. Within(rows, rows', j)
    BY <1>2, <1>5, <1>6, CancelKeepsFinal DEF Keeps
  <2>2. OnlyJob(rows, rows', j)
    BY <1>2, <1>5, <1>6, CancelJobs DEF JobSet
  <2>3. InSight(rows', r)
    BY <1>4 DEF InSight
  <2> QED BY <1>1, <1>6, <2>1, <2>2, <2>3, OwnerSight
<1>7. CASE /\ ~CtxDone(w) /\ (i # NoItem => CanBind(rows, i, e))
           /\ rows' = IF i = NoItem THEN rows ELSE BindExecution(rows, i, e)
           /\ Set(w, b)
  <2>1. /\ Within(rows, rows', j) /\ rows'.job = rows.job /\ rows'.exec = rows.exec
    <3>1. CASE i = NoItem
      BY <1>5, <1>7, <3>1
    <3>2. CASE i # NoItem
      <4>1. /\ i \in Items /\ JobOf[i] = j /\ CanBind(rows, i, e)
            /\ rows' = BindExecution(rows, i, e)
        BY <1>2, <1>7, <3>2 DEF OwnTask
      <4>2. rows.item[i].status \notin Over
        BY <4>1 DEF CanBind, Over
      <4>3. Moves(rows, rows', j)
        BY <1>2, <4>1, <4>2, BindMoves
      <4>4. Within(rows, rows', j)
        BY <4>3, MovesKeep DEF Keeps
      <4>5. rows'.job = rows.job
        BY <1>2, <4>1, LineJobs
      <4> QED BY <4>3, <4>4, <4>5 DEF Moves
    <3> QED BY <3>1, <3>2
  <2>2. OnlyJob(rows, rows', j)
    BY <2>1 DEF OnlyJob
  <2>3. ~worker[w].stopped
    BY <1>7 DEF CtxDone, CtxErrors
  <2>4. j \in Steady => InSight(rows', b)
    <3>1. j \in Steady => InSight(rows, worker[w])
      BY DEF SightInv
    <3>2. worker[w].bound # NoExec => worker[w].bound = e
      BY <1>3 DEF AsBegun
    <3>3. e # NoExec
      BY <1>2, IdAssumption
    <3> QED BY <1>1, <1>4, <2>1, <2>3, <3>1, <3>2, <3>3 DEF InSight
  <2> QED BY <1>1, <1>4, <1>7, <2>1, <2>2, <2>4, OwnerSight
<1> QED BY <1>1, <1>6, <1>7

\* A budget that is spent changes no status, state or run.
LEMMA SpendSight ==
  ASSUME TypeInv, BindInv, SightInv, NEW w \in Workers, SpendBudget(w)
  PROVE  SightInv'
<1> DEFINE e == worker[w].exec
           r == [rows.exec[e] EXCEPT !.budget = "spent"]
           c == [rows EXCEPT !.exec[e] = r]
<1>1. rows' = c /\ UNCHANGED worker /\ worker[w].pc = "working"
  BY DEF SpendBudget, Processing
<1>2. rows \in Rows /\ e \in Execs
  BY <1>1, TypeParts, TaskParts
<1>3. /\ r.state = rows.exec[e].state /\ r.status = rows.exec[e].status
      /\ r.item = rows.exec[e].item /\ r.gen = rows.exec[e].gen
  BY <1>2 DEF Rows, ExecRow
<1> HIDE DEF r
<1>4. /\ c.exec[e] = r /\ \A k \in Execs : k # e => c.exec[k] = rows.exec[k]
      /\ c.item = rows.item
  BY <1>2, ExecutionRow
<1>5. c.job = rows.job
  BY <1>2 DEF Rows
<1> HIDE DEF c
<1>6. OwnersRest
  BY <1>1, <1>3, <1>4 DEF OwnersRest, Rests
<1> QED BY <1>1, <1>5, <1>6, SameJobsKeep, QuietSight

\* The steps that end a run: what they write is of its own recording.
LEMMA EndingSight ==
  ASSUME TypeInv, OwnerInv, BindInv, ProtInv, StoryInv, SightInv, NEW w \in Workers,
         Refuse(w) \/ Work(w) \/ Publish(w) \/ Close(w) \/ Release(w)
  PROVE  SightInv'
<1> DEFINE t == worker[w].task
           j == t.job
           i == t.item
           e == worker[w].exec
           f == worker[w].bound
           o == worker[w].outcome
           r(x) == [worker[w] EXCEPT !.pc = "returned", !.result = x]
           s == IF worker[w].result = "ok" THEN "completed" ELSE "failed"
<1>1. worker[w].pc \in Owning
  BY DEF Refuse, Work, Publish, Close, Release, Processing, Owning, Pc
<1>2. /\ rows \in Rows /\ worker[w] \in CommittedRow /\ j \in Jobs /\ OwnTask(t)
      /\ i \in Items \cup {NoItem} /\ t.exec \in Execs \cup {NoExec}
      /\ f \in Execs \cup {NoExec} /\ OwnWorker(worker[w])
  <2>1. f \in Execs \cup {NoExec}
    BY <1>1, OwnerFacts DEF CommittedRow, WorkerRow
  <2> QED BY <1>1, <2>1, OwnerFacts, TaskParts
<1>3. OnlyJob(rows, rows, j) /\ Within(rows, rows, j)
  BY DEF OnlyJob, Within
<1>4. ASSUME NEW x, Set(w, x), x.pc \notin {"claimed", "begun", "working"},
             Within(rows, rows', j), OnlyJob(rows, rows', j)
      PROVE  SightInv'
  <2>1. InSight(rows', x)
    BY <1>4 DEF InSight
  <2> QED BY <1>1, <1>4, <2>1, OwnerSight
<1>5. \A x : r(x).pc = "returned"
  BY <1>2 DEF CommittedRow, WorkerRow
<1>6. CASE Refuse(w)
  <2>1. /\ Set(w, r("error"))
        /\ UNCHANGED rows \/ (ExpiresUnclaimed(w) /\ rows' = ExpirePending(rows, j, t.exec))
    BY <1>6 DEF Refuse, Returned
  <2>2. CASE UNCHANGED rows
    BY <1>3, <1>4, <1>5, <2>1, <2>2
  <2>3. CASE ExpiresUnclaimed(w) /\ rows' = ExpirePending(rows, j, t.exec)
    <3>1. t.exec \in Execs /\ JobOf[t.exec] = j /\ CanExpire(rows, j, t.exec)
      BY <1>2, <2>3 DEF ExpiresUnclaimed, OwnTask
    <3>2. Within(rows, rows', j)
      BY <1>2, <2>3, <3>1, ExpirePendingKeepsFinal DEF Keeps
    <3>3. OnlyJob(rows, rows', j)
      BY <1>2, <2>3, <3>1, ExpirePendingJobs DEF JobSet
    <3> QED BY <1>4, <1>5, <2>1, <3>2, <3>3
  <2> QED BY <2>1, <2>2, <2>3
<1>7. CASE Work(w)
  <2>1. PICK x : Set(w, [worker[w] EXCEPT !.pc = "publishing", !.result = x])
    BY <1>7 DEF Work
  <2> DEFINE y == [worker[w] EXCEPT !.pc = "publishing", !.result = x]
  <2>2. y.pc = "publishing" /\ Set(w, y)
    BY <1>2, <2>1 DEF CommittedRow, WorkerRow
  <2>3. rows' = rows
    BY <1>7 DEF Work
  <2> HIDE DEF y
  <2> QED BY <1>3, <1>4, <2>2, <2>3
<1>8. CASE Publish(w)
  <2>1. /\ worker[w].pc = "publishing"
        /\ \/ /\ rows' = rows \/ (CanCancel(rows, e) /\ rows' = Cancel(rows, j, e))
              /\ Set(w, r("error"))
           \/ /\ CanFinish(rows, e, worker[w].gen, s) /\ rows' = Finish(rows, j, e, s)
              /\ Set(w, r(worker[w].result))
    BY <1>8 DEF Publish, Returned, Processing
  <2>2. e \in Execs /\ JobOf[e] = j
    BY <1>2, <2>1, TaskParts DEF OwnWorker
  <2>3. s \in {"completed", "failed"}
    OBVIOUS
  <2> HIDE DEF s
  <2>4. Within(rows, rows', j)
    BY <1>2, <1>3, <2>1, <2>2, <2>3, CancelKeepsFinal, FinishFinal DEF Keeps
  <2>5. OnlyJob(rows, rows', j)
    BY <1>2, <1>3, <2>1, <2>2, <2>3, CancelJobs, FinishJobs DEF JobSet
  <2> HIDE DEF r
  <2> QED BY <1>4, <1>5, <2>1, <2>4, <2>5
<1>9. CASE Close(w)
  <2> DEFINE y == [worker[w] EXCEPT !.pc = "closing", !.outcome = Outcome(w)]
  <2>1. /\ Set(w, y)
        /\ rows' = rows \/ rows' = SetJob(rows, j, JobOutcome(Outcome(w)))
    BY <1>9 DEF Close, ClosedRows
  <2>2. y.pc = "closing"
    BY <1>2 DEF CommittedRow, WorkerRow
  <2> HIDE DEF y
  <2>3. Within(rows, rows', j)
    BY <1>2, <1>3, <2>1, SetJobMoves, MovesKeep DEF Keeps
  <2>4. OnlyJob(rows, rows', j)
    BY <1>2, <1>3, <2>1, SetJobRow DEF JobSet
  <2> QED BY <1>4, <2>1, <2>2, <2>3, <2>4
<1>10. CASE Release(w)
  <2> DEFINE c == Finalize(rows, j, i, o, f)
  <2>1. /\ Set(w, IdleWorker) /\ worker[w].pc = "closing"
        /\ Advance(c, j, FALSE, j \in protected) \/ Advance(rows, j, FALSE, j \in protected)
    BY <1>10 DEF Release
  <2>2. /\ o \in ItemStatus /\ o \in ItemStatus \ Live
        /\ i # NoItem => JobOf[i] = j
        /\ f # NoExec => JobOf[f] = j
    <3>1. o \in {"completed", "failed", "cancelled"}
      BY <1>2, <2>1, TaskParts
    <3>2. OwnWorker(worker[w]) /\ worker[w].pc \notin {"off", "idle"}
      BY <1>2, <2>1
    <3> QED BY <1>2, <3>1, <3>2 DEF OwnWorker, OwnTask, ItemStatus, Live, ActiveStatus
  <2> HIDE DEF t, j, i, f, o
  <2>3. c \in Rows /\ Moves(rows, c, j) /\ OnlyJob(rows, c, j)
    <3>1. c \in Rows
      BY <1>2, <2>2, FinalizeLemma
    <3>2. Moves(rows, c, j)
      BY <1>2, <2>2, FinalizeMoves
    <3>3. OnlyJob(rows, c, j)
      BY <1>2, <1>3, <2>2, FinalizeJobs DEF JobSet
    <3> QED BY <3>1, <3>2, <3>3
  <2> HIDE DEF c
  <2>4. PICK b \in Rows : /\ Moves(rows, b, j) /\ OnlyJob(rows, b, j)
                          /\ Advance(b, j, FALSE, j \in protected)
    BY <1>2, <1>3, <2>1, <2>3, StillMoves
  <2>5. Moves(b, rows', j) /\ OnlyJob(b, rows', j)
    BY <1>2, <2>4, AdvanceOwn, AdvanceJobs
  <2>6. Within(rows, rows', j)
    BY <2>4, <2>5, MovesCompose, MovesKeep DEF Keeps
  <2>7. OnlyJob(rows, rows', j)
    BY <2>4, <2>5 DEF OnlyJob
  <2>8. IdleWorker.pc = "idle"
    BY DEF IdleWorker, OffWorker
  <2> QED BY <1>4, <2>1, <2>6, <2>7, <2>8
<1> HIDE DEF r
<1> QED BY <1>6, <1>7, <1>8, <1>9, <1>10

\* All steps of a worker.
LEMMA WorkersSight ==
  ASSUME TypeInv, OwnerInv, BindInv, ProtInv, StoryInv, SightInv,
         NEW w \in Workers, WorkerStep(w) \/ SpendBudget(w)
  PROVE  SightInv'
<1>1. CASE TakeResume(w)
  <2>1. worker[w].task.exec \in Execs
    BY <1>1, TaskParts DEF TakeResume, Processing
  <2> QED BY <1>1, <2>1, BeginSight
<1>2. CASE Receive(w) \/ Claim(w) \/ WorkerExit(w)
  BY <1>2, ReceiveSight, ClaimSight
<1>3. CASE Register(w) \/ (\E e \in Execs : BeginRun(w, e)) \/ SpendBudget(w)
  BY <1>3, RegisterSight, BeginSight, SpendSight
<1>4. CASE Refuse(w) \/ Work(w) \/ Publish(w) \/ Close(w) \/ Release(w)
  BY <1>4, EndingSight
<1> QED BY <1>1, <1>2, <1>3, <1>4 DEF WorkerStep

\* The server starts and ends with nothing owned.
LEMMA ProcessSight ==
  ASSUME TypeInv, OwnerInv, SightInv, Process
  PROVE  SightInv'
<1>1. \A d : InSight(d, IdleWorker) /\ InSight(d, OffWorker)
  BY DEF InSight, IdleWorker, OffWorker
<1>2. CASE Recover \/ ResetZombieJobs
  <2>1. UNCHANGED worker /\ \A w \in Workers : worker[w].pc \notin Owning
    BY <1>2 DEF Recover, ResetZombieJobs, unstarted, OwnerInv, Quiet, Owning
  <2> QED BY <2>1 DEF SightInv, InSight, Owning, Pc
<1>3. CASE Launch
  <2>1. \A w \in Workers : worker'[w] \in {IdleWorker, OffWorker}
    BY <1>3 DEF Launch
  <2> QED BY <1>1, <2>1 DEF SightInv
<1>4. CASE Forget
  <2>1. \A w \in Workers : worker'[w] = OffWorker
    BY <1>4 DEF Forget
  <2> QED BY <1>1, <2>1 DEF SightInv
<1>5. CASE Drain
  BY <1>5 DEF Drain, memory, SightInv, InSight
<1> QED BY <1>2, <1>3, <1>4, <1>5 DEF Process, Crash, Halt

\* Every step.
LEMMA NextSight ==
  ASSUME TypeInv, OwnerInv, BindInv, ProtInv, StoryInv, SightInv, DeletingIsQuiet,
         [Next]_vars
  PROVE  SightInv'
<1>1. ASSUME Calm, OwnersKeep PROVE SightInv'
  BY <1>1, QuietSight DEF Calm
<1>2. CASE UNCHANGED vars
  BY <1>2 DEF vars, memory, SightInv, InSight
<1>3. CASE Requests
  BY <1>3, RequestsSight
<1>4. CASE \E w \in Workers : WorkerStep(w) \/ SpendBudget(w)
  BY <1>4, WorkersSight
<1>5. CASE \E j \in Jobs : Reconcile(j)
  BY <1>1, <1>5, ReconcileCalm, ReconcileKeeps
<1>6. CASE Process
  BY <1>6, ProcessSight
<1>7. ASSUME NEW e \in Execs, DeadlinePasses(e) PROVE SightInv'
  <2>1. rows \in Rows /\ rows' = [rows EXCEPT !.exec[e].deadline = "past"]
    BY <1>7, TypeParts DEF DeadlinePasses
  <2>2. rows'.job = rows.job
    BY <2>1 DEF Rows
  <2> QED BY <1>1, <1>7, <2>2, DeadlineCalm, SameJobsKeep
<1> QED BY <1>2, <1>3, <1>4, <1>5, <1>6, <1>7 DEF Next

\* Recordings are owned only while their rows say so.
LEMMA SightInvariant == Spec => []SightInv
<1>1. Init => SightInv
  BY DEF Init, OffWorker, SightInv, InSight
<1>2. TypeInv /\ OwnerInv /\ BindInv /\ ProtInv /\ DeletingIsQuiet /\ StoryInv
        /\ SightInv /\ [Next]_vars => SightInv'
  BY NextSight
<1> QED BY <1>1, <1>2, TypeInvariant, OwnerInvariant, BindInvariant, ProtInvariant,
           DeletionIsExclusive, StoryInvariant, PTL DEF Spec

\* The queue's memory, the recording's row, the run's row and the execution's row, each
\* written on its own, tell one story, as long as no title update and no automatic start
\* writes a recording's row from an earlier reading (worker, killJob, Finish, Finalize).
THEOREM OneStoryIsTold == Renames = {} /\ AutoStarts = {} => (Spec => []OneStory)
<1> SUFFICES ASSUME Renames = {}, AutoStarts = {} PROVE Spec => []OneStory
  OBVIOUS
<1>1. SightInv /\ TypeInv => OwnedIsProcessing
  <2> SUFFICES ASSUME SightInv, TypeInv, NEW w \in Workers,
                      worker[w].pc \in {"claimed", "begun", "working"}
               PROVE  InSight(rows, worker[w])
    BY DEF OwnedIsProcessing, InSight
  <2>1. worker[w].task.job \in Jobs
    BY TaskParts
  <2> QED BY <2>1 DEF SightInv, Steady
<1> QED BY <1>1, SightInvariant, TypeInvariant, LiveExecutionIsSingle, OwnersHoldTheirRuns,
           RunsAndExecutionsAgree, PTL DEF OneStory

-----------------------------------------------------------------------------
(* The rows of one recording are one queue.                                *)

\* Positions are dense: the line a client sees is the order of promotion.
OrderInv == IsLine(rows, Recording, Line)

Told == OrderInv' /\ [RunQueue!Next]_(RunQueue!vars)

\* From the rows c, the recording the client watches moves up or stays.
Lifts(c) ==
  \/ Still(c, rows', Recording)
  \/ /\ Promotable(c, Recording)
     /\ \A k \in Items : JobOf[k] = Recording =>
          rows'.item[k] = PromoteNext(c, Recording).item[k]

\* The abstract state before and after a step.
LEMMA LineShown ==
  /\ \A l : IsLine(rows, Recording, l) => Line = l
  /\ \A l : IsLine(rows', Recording, l) => Line' = l /\ OrderInv'
<1>1. ASSUME NEW l, IsLine(rows, Recording, l) PROVE Line = l
  BY <1>1, LineIsUnique DEF Line
<1>2. ASSUME NEW l, IsLine(rows', Recording, l) PROVE Line' = l /\ OrderInv'
  <2>1. Line' = l
    BY <1>2, LineIsUnique DEF Line
  <2> QED BY <1>2, <2>1 DEF OrderInv
<1> QED BY <1>1, <1>2

\* How each run of the recording ended, in the rows' own words.
LEMMA EndedShown ==
  ASSUME NEW i
  PROVE  Ended(i) = Result(rows.item[i].status) /\ Ended(i)' = Result(rows'.item[i].status)
  BY DEF Ended, Result

\* The line the client sees holds the waiting runs of its recording.
LEMMA WaitingShown ==
  ASSUME OrderInv
  PROVE  /\ RunQueue!Waiting = Queued(rows, Recording)
         /\ Queued(rows, Recording) \subseteq RunsOfRecording
         /\ Line \in Seq(Items)
<1>1. /\ \A p \in 1..Len(Line) : Line[p] \in Queued(rows, Recording)
      /\ \A i \in Queued(rows, Recording) : \E p \in 1..Len(Line) : Line[p] = i
      /\ Line \in Seq(Items)
  BY DEF OrderInv, IsLine
<1>2. Queued(rows, Recording) \subseteq RunsOfRecording
  BY DEF Queued, ItemsIn, RunsOfRecording
<1> QED BY <1>1, <1>2 DEF RunQueue!Waiting

\* What moving up means for the abstract line l behind the runs of c.
LEMMA LiftsUp ==
  ASSUME NEW c \in Rows, NEW l, IsLine(c, Recording, l), Lifts(c)
  PROVE  /\ OrderInv'
         /\ RunQueue!MovesUp(l, ActiveItems(c, Recording))
         /\ \A k \in RunsOfRecording : Ended(k)' = Result(c.item[k].status)
<1>1. CASE Still(c, rows', Recording)
  <2>1. IsLine(rows', Recording, l)
        /\ ActiveItems(rows', Recording) = ActiveItems(c, Recording)
    BY <1>1, StillLine
  <2>2. OrderInv' /\ Line' = l
    BY <2>1, LineShown
  <2>3. \A k \in RunsOfRecording : Ended(k)' = Result(c.item[k].status)
    BY <1>1, EndedShown DEF Still, SameView, RunsOfRecording
  <2> QED BY <2>1, <2>2, <2>3 DEF RunQueue!MovesUp
<1>2. CASE /\ Promotable(c, Recording)
           /\ \A k \in Items : JobOf[k] = Recording =>
                rows'.item[k] = PromoteNext(c, Recording).item[k]
  <2> DEFINE b == PromoteNext(c, Recording)
  <2>1. /\ l # << >> /\ IsLine(b, Recording, Tail(l))
        /\ ActiveItems(c, Recording) = {} /\ ActiveItems(b, Recording) = {Head(l)}
        /\ \A k \in Items : Result(b.item[k].status) = Result(c.item[k].status)
    BY <1>2, PromoteLine, RecordingAssumption
  <2>2. \A k \in Items : JobOf[k] = Recording => rows'.item[k] = b.item[k]
    BY <1>2
  <2> HIDE DEF b
  <2>3. IsLine(rows', Recording, Tail(l))
        /\ ActiveItems(rows', Recording) = ActiveItems(b, Recording)
    <3>1. Still(b, rows', Recording)
      BY <2>2, SameItemsStill
    <3> QED BY <2>1, <3>1, StillLine
  <2>4. OrderInv' /\ Line' = Tail(l)
    BY <2>3, LineShown
  <2>5. \A k \in RunsOfRecording : Ended(k)' = Result(c.item[k].status)
    BY <2>1, <2>2, EndedShown DEF RunsOfRecording
  <2> QED BY <2>1, <2>3, <2>4, <2>5 DEF RunQueue!MovesUp
<1> QED BY <1>1, <1>2 DEF Lifts

\* At most one active run ends, and at most one waiting run is promoted.
LEMMA EndTold ==
  ASSUME OrderInv, NEW c \in Rows, AtMostEnds(rows, c, Recording), Lifts(c)
  PROVE  Told
<1>1. IsLine(rows, Recording, Line)
  BY DEF OrderInv
<1>2. CASE Still(rows, c, Recording)
  <2>1. IsLine(c, Recording, Line)
        /\ ActiveItems(c, Recording) = ActiveItems(rows, Recording)
    BY <1>1, <1>2, StillLine
  <2>2. /\ OrderInv' /\ RunQueue!MovesUp(Line, ActiveItems(rows, Recording))
        /\ \A k \in RunsOfRecording : Ended(k)' = Result(c.item[k].status)
    BY <2>1, LiftsUp
  <2>3. \A k \in RunsOfRecording : Ended(k)' = Ended(k)
    BY <1>2, <2>2, EndedShown DEF Still, SameView, RunsOfRecording
  <2>4. UNCHANGED [i \in RunsOfRecording |-> Ended(i)]
    BY <2>3
  <2> QED BY <2>2, <2>4 DEF Told, RunQueue!Next, RunQueue!Promote
<1>3. ASSUME NEW i \in ActiveItems(rows, Recording), NEW s \in EndedAs,
             Turns(rows, c, Recording, i, s)
      PROVE  Told
  <2>1. i \in Items /\ JobOf[i] = Recording /\ rows.item[i].status \in ActiveStatus
        /\ i \in RunsOfRecording
    BY <1>3 DEF ActiveItems, ItemsIn, RunsOfRecording
  <2>2. IsLine(c, Recording, Line)
        /\ ActiveItems(c, Recording) = ActiveItems(rows, Recording) \ {i}
    <3>1. rows.item[i].status # "queued" /\ s # "queued" /\ s \notin ActiveStatus
      BY <2>1 DEF EndedAs, ActiveStatus
    <3>2. Turns(rows, c, Recording, i, s) /\ i \in Items /\ JobOf[i] = Recording
      BY <1>3, <2>1
    <3>3. /\ IsLine(c, Recording, Line)
          /\ ActiveItems(c, Recording) = IF s \in ActiveStatus
                                         THEN ActiveItems(rows, Recording) \cup {i}
                                         ELSE ActiveItems(rows, Recording) \ {i}
      BY <1>1, <3>1, <3>2, TurnsLine
    <3> QED BY <3>1, <3>3
  <2>3. /\ OrderInv' /\ RunQueue!MovesUp(Line, ActiveItems(rows, Recording) \ {i})
        /\ \A k \in RunsOfRecording : Ended(k)' = Result(c.item[k].status)
    BY <2>2, LiftsUp
  <2>4. Ended(i)' = s
    BY <1>3, <2>1, <2>3 DEF Turns, Result, EndedAs
  <2>5. \A k \in RunsOfRecording : k # i => Ended(k)' = Ended(k)
    BY <1>3, <2>3, EndedShown DEF Turns, SameView, RunsOfRecording
  <2>6. [k \in RunsOfRecording |-> Ended(k)]'
          = [[k \in RunsOfRecording |-> Ended(k)] EXCEPT ![i] = s]
    BY <2>1, <2>4, <2>5
  <2>7. RunQueue!End
    BY <1>3, <2>3, <2>6 DEF RunQueue!End, RunQueue!Outcomes, EndedAs
  <2> QED BY <2>3, <2>7 DEF Told, RunQueue!Next
<1> QED BY <1>2, <1>3 DEF AtMostEnds

\* What shows no change is no step.
LEMMA StillTold ==
  ASSUME OrderInv, rows \in Rows, Still(rows, rows', Recording)
  PROVE  Told
<1>1. AtMostEnds(rows, rows, Recording)
  BY SameItemsStill
<1> QED BY <1>1, EndTold DEF Lifts

\* AppendRun, with or without a promotion behind it.
LEMMA AddTold ==
  ASSUME TypeInv, OrderInv, NEW i \in Items, CanAppend(rows, Recording, i),
         Lifts(AppendRun(rows, Recording, i))
  PROVE  Told
<1> DEFINE c == AppendRun(rows, Recording, i)
<1>1. rows \in Rows /\ Recording \in Jobs
  BY TypeParts, RecordingAssumption
<1>2. c \in Rows
  BY <1>1, AppendRunLemma
<1>3. /\ IsLine(c, Recording, Append(Line, i))
      /\ ActiveItems(c, Recording) = ActiveItems(rows, Recording)
      /\ \A k \in Items : Result(c.item[k].status) = Result(rows.item[k].status)
  BY <1>1, AppendLine DEF OrderInv
<1>4. Lifts(c)
  OBVIOUS
<1> HIDE DEF c
<1>5. /\ OrderInv'
      /\ RunQueue!MovesUp(Append(Line, i), ActiveItems(rows, Recording))
      /\ \A k \in RunsOfRecording : Ended(k)' = Result(c.item[k].status)
  BY <1>2, <1>3, <1>4, LiftsUp
<1>6. UNCHANGED [k \in RunsOfRecording |-> Ended(k)]
  BY <1>3, <1>5, EndedShown DEF RunsOfRecording
<1>7. i \in RunQueue!Fresh
  <2>1. JobOf[i] = Recording /\ rows.item[i].status = "none"
    BY DEF CanAppend
  <2>2. i \in RunsOfRecording /\ Ended(i) = "no"
    BY <2>1, EndedShown DEF RunsOfRecording, Result
  <2>3. i \notin Queued(rows, Recording) /\ i \notin ActiveItems(rows, Recording)
    BY <2>1 DEF Queued, ActiveItems, ItemsIn, ActiveStatus
  <2> QED BY <2>2, <2>3, WaitingShown DEF RunQueue!Fresh
<1> QED BY <1>5, <1>6, <1>7 DEF Told, RunQueue!Next, RunQueue!Add

\* An edit of the line that leaves the recording's other runs alone.
LEMMA ReorderTold ==
  ASSUME TypeInv, OrderInv, NEW place \in Orders(rows, Recording),
         rows' = ReorderQueued(rows, place)
  PROVE  Told
<1>1. rows \in Rows /\ Recording \in Jobs /\ IsLine(rows, Recording, Line)
  BY TypeParts, RecordingAssumption DEF OrderInv
<1>2. PICK m \in [1..Len(Line) -> Queued(rows, Recording)] : IsLine(rows', Recording, m)
  BY <1>1, ReorderedLine
<1>3. \A k \in Items : rows'.item[k].status = rows.item[k].status
  BY <1>1, ReorderedLine
<1>4. OrderInv' /\ Line' = m
  BY <1>2, LineShown
<1>5. \A p, q \in DOMAIN m : m[p] = m[q] => p = q
  <2>1. \A p, q \in 1..Len(m) : m[p] = m[q] => p = q
    BY <1>2, LinePlace
  <2>2. m \in Seq(Items)
    BY <1>2 DEF IsLine
  <2> QED BY <2>1, <2>2
<1>6. ActiveItems(rows', Recording) = ActiveItems(rows, Recording)
  BY <1>3 DEF ActiveItems, ItemsIn
<1>7. UNCHANGED [k \in RunsOfRecording |-> Ended(k)]
  BY <1>3, EndedShown DEF RunsOfRecording
<1>8. RunQueue!Reorder
  <2>1. \A p, q \in 1..Len(Line) : m[p] = m[q] => p = q
    BY <1>2, <1>5
  <2> QED BY <1>2, <1>4, <1>6, <1>7, <2>1, WaitingShown DEF RunQueue!Reorder
<1> QED BY <1>4, <1>8 DEF Told, RunQueue!Next

\* The runs S leave the line by a cancellation; the rest keep their order.
LEMMA WithdrawTold ==
  ASSUME TypeInv, OrderInv, NEW S \in SUBSET Queued(rows, Recording),
         NEW m, IsLine(rows', Recording, m),
         Queued(rows', Recording) = Queued(rows, Recording) \ S,
         \A k \in Items : rows'.item[k].status = IF k \in S THEN "cancelled"
                                                 ELSE rows.item[k].status,
         \A r, t \in Queued(rows', Recording) :
           rows'.item[r].pos < rows'.item[t].pos <=> rows.item[r].pos < rows.item[t].pos
  PROVE  Told
<1>1. OrderInv' /\ Line' = m
  BY LineShown
<1>2. m \in Seq(Queued(rows, Recording) \ S)
      /\ \A r \in Queued(rows, Recording) \ S : \E p \in 1..Len(m) : m[p] = r
  <2>1. m \in Seq(Items) /\ \A p \in 1..Len(m) : m[p] \in Queued(rows', Recording)
    BY DEF IsLine
  <2>2. m \in Seq(Queued(rows', Recording))
    BY <2>1
  <2>3. \A r \in Queued(rows', Recording) : \E p \in 1..Len(m) : m[p] = r
    BY DEF IsLine
  <2> QED BY <2>2, <2>3
<1>3. ASSUME NEW r \in Queued(rows, Recording) \ S, NEW t \in Queued(rows, Recording) \ S
      PROVE  RunQueue!Ahead(m, r, t) <=> RunQueue!Ahead(Line, r, t)
  <2>1. RunQueue!Ahead(Line, r, t) <=> rows.item[r].pos < rows.item[t].pos
    BY LineOrder DEF RunQueue!Ahead, OrderInv
  <2>2. RunQueue!Ahead(m, r, t) <=> rows'.item[r].pos < rows'.item[t].pos
    BY LineOrder DEF RunQueue!Ahead
  <2> QED BY <2>1, <2>2
<1>4. ActiveItems(rows', Recording) = ActiveItems(rows, Recording)
  BY DEF ActiveItems, Queued, ItemsIn, ActiveStatus
<1>5. [k \in RunsOfRecording |-> Ended(k)]'
        = [k \in RunsOfRecording |->
             IF k \in S THEN "cancelled" ELSE [i \in RunsOfRecording |-> Ended(i)][k]]
  BY EndedShown DEF RunsOfRecording, Result
<1>6. RunQueue!Withdraw
  BY <1>1, <1>2, <1>3, <1>4, <1>5, WaitingShown DEF RunQueue!Withdraw
<1> QED BY <1>1, <1>6 DEF Told, RunQueue!Next

\* A failed run comes back to a recording with no active run.
LEMMA ResumeTold ==
  ASSUME TypeInv, OrderInv, NEW i \in Items, JobOf[i] = Recording,
         rows.item[i].status = "failed", ActiveItems(rows, Recording) = {},
         Turns(rows, rows', Recording, i, "pending")
  PROVE  Told
<1>1. /\ IsLine(rows', Recording, Line)
      /\ ActiveItems(rows', Recording) = {i}
  <2>1. "pending" \in ActiveStatus /\ "pending" # "queued"
    BY DEF ActiveStatus
  <2>2. /\ IsLine(rows, Recording, Line) /\ rows.item[i].status # "queued"
        /\ Turns(rows, rows', Recording, i, "pending") /\ i \in Items /\ JobOf[i] = Recording
    BY DEF OrderInv
  <2>3. /\ IsLine(rows', Recording, Line)
        /\ ActiveItems(rows', Recording) = IF "pending" \in ActiveStatus
                                           THEN ActiveItems(rows, Recording) \cup {i}
                                           ELSE ActiveItems(rows, Recording) \ {i}
    BY <2>1, <2>2, TurnsLine, ZenonT(60)
  <2> QED BY <2>1, <2>3
<1>2. OrderInv' /\ Line' = Line
  BY <1>1, LineShown
<1>3. i \in RunsOfRecording /\ Ended(i) = "failed" /\ Ended(i)' = "no"
  BY EndedShown DEF RunsOfRecording, Turns, Result
<1>4. \A k \in RunsOfRecording : k # i => Ended(k)' = Ended(k)
  BY EndedShown DEF Turns, SameView, RunsOfRecording
<1>5. [k \in RunsOfRecording |-> Ended(k)]'
        = [[k \in RunsOfRecording |-> Ended(k)] EXCEPT ![i] = "no"]
  BY <1>3, <1>4
<1>6. RunQueue!Resume
  BY <1>1, <1>2, <1>3, <1>5 DEF RunQueue!Resume
<1> QED BY <1>2, <1>6 DEF Told, RunQueue!Next

\* A recording that is deleted has no waiting and no active run.
LEMMA DeleteTold ==
  ASSUME TypeInv, OrderInv, NonTerminal(rows, Recording) = {},
         rows' = DeleteWithAssociations(rows, Recording)
  PROVE  Told
<1>1. rows \in Rows /\ Recording \in Jobs
  BY TypeParts, RecordingAssumption
<1>2. /\ Queued(rows, Recording) = {} /\ ActiveItems(rows, Recording) = {}
      /\ Queued(rows', Recording) = {} /\ ActiveItems(rows', Recording) = {}
      /\ \A k \in Items : JobOf[k] = Recording =>
           Result(rows'.item[k].status) = IF Result(rows.item[k].status) = "no" THEN "no"
                                          ELSE "deleted"
  BY <1>1, DeletedLine
<1>3. Line = << >> /\ Line' = << >> /\ OrderInv'
  BY <1>2, EmptyLine, LineShown
<1>4. [k \in RunsOfRecording |-> Ended(k)]'
        = [k \in RunsOfRecording |->
             IF [i \in RunsOfRecording |-> Ended(i)][k] = "no" THEN "no" ELSE "deleted"]
  BY <1>2, EndedShown DEF RunsOfRecording
<1>5. RunQueue!Delete
  BY <1>2, <1>3, <1>4 DEF RunQueue!Delete
<1> QED BY <1>3, <1>5 DEF Told, RunQueue!Next

-----------------------------------------------------------------------------
(* Every step of the task queue is a step of the recording's queue.        *)

\* promoteNext moves this recording up, or shows it nothing.
LEMMA AdvanceLifts ==
  ASSUME NEW c \in Rows, NEW j \in Jobs, NEW owned, NEW kept, Advance(c, j, owned, kept)
  PROVE  Lifts(c)
<1>1. CASE rows' = c
  <2>1. Still(c, rows', Recording)
    BY <1>1, SameItemsStill
  <2> QED BY <2>1 DEF Lifts
<1>2. CASE Promotable(c, j) /\ rows' = PromoteNext(c, j)
  <2>1. CASE j = Recording
    BY <1>2, <2>1 DEF Lifts
  <2>2. CASE j # Recording
    <3>1. Moves(c, rows', j)
      BY <1>2, PromoteNextMoves
    <3>2. \A k \in Items : JobOf[k] = Recording => rows'.item[k] = c.item[k]
      BY <2>2, <3>1 DEF Moves
    <3>3. Still(c, rows', Recording)
      BY <3>2, SameItemsStill
    <3> QED BY <3>3 DEF Lifts
  <2> QED BY <2>1, <2>2
<1> QED BY <1>1, <1>2 DEF Advance

\* Rows that keep their items show the client nothing.
LEMMA SameItemsTold ==
  ASSUME TypeInv, OrderInv, \A k \in Items : JobOf[k] = Recording => rows'.item[k] = rows.item[k]
  PROVE  Told
<1>1. rows \in Rows /\ Still(rows, rows', Recording)
  BY TypeParts, SameItemsStill
<1> QED BY <1>1, StillTold

\* One row written, with or without a promotion behind it.
LEMMA OneRunTold ==
  ASSUME OrderInv, NEW c \in Rows, OneRun(rows, c), rows' = c \/ Lifts(c)
  PROVE  Told
<1>1. Lifts(c)
  <2>1. CASE rows' = c
    <3>1. Still(c, rows', Recording)
      BY <2>1, SameItemsStill
    <3> QED BY <3>1 DEF Lifts
  <2> QED BY <2>1
<1>2. AtMostEnds(rows, c, Recording)
  BY OneRunEnds
<1> QED BY <1>1, <1>2, EndTold

\* A client adds a run or rearranges the line of this or of another recording.
LEMMA LineTold ==
  ASSUME TypeInv, OrderInv,
         \/ \E j \in Jobs, i \in Items : AddRun(j, i)
         \/ \E j \in Jobs : ReorderRuns(j) \/ ClearRuns(j)
         \/ \E i \in Items : CancelRun(i)
  PROVE  Told
<1>1. rows \in Rows /\ IsLine(rows, Recording, Line) /\ Recording \in Jobs
  BY TypeParts, RecordingAssumption DEF OrderInv
<1>2. ASSUME NEW j \in Jobs, NEW c, Moves(rows, c, j), rows' = c, j # Recording PROVE Told
  <2>1. \A k \in Items : JobOf[k] = Recording => rows'.item[k] = rows.item[k]
    BY <1>2 DEF Moves
  <2> QED BY <2>1, SameItemsTold
<1>3. ASSUME NEW j \in Jobs, NEW i \in Items, AddRun(j, i) PROVE Told
  <2> DEFINE c == AppendRun(rows, j, i)
  <2>1. CanAppend(rows, j, i) /\ Advance(c, j, Owned(j), j \in protected)
    BY <1>3 DEF AddRun
  <2>2. c \in Rows /\ Moves(rows, c, j)
    BY <1>1, <2>1, AppendRunLemma, AppendRunMoves
  <2>3. Lifts(c)
    <3> HIDE DEF c
    <3> QED BY <2>1, <2>2, AdvanceLifts
  <2>4. CASE j = Recording
    BY <2>1, <2>3, <2>4, AddTold
  <2>5. CASE j # Recording
    <3> HIDE DEF c
    <3>1. AtMostEnds(rows, c, Recording)
      <4>1. \A k \in Items : JobOf[k] = Recording => c.item[k] = rows.item[k]
        BY <2>2, <2>5 DEF Moves
      <4> QED BY <4>1, SameItemsStill
    <3> QED BY <2>2, <2>3, <3>1, EndTold
  <2> QED BY <2>4, <2>5
<1>4. ASSUME NEW j \in Jobs, ReorderRuns(j) PROVE Told
  <2>1. PICK place \in Orders(rows, j) : rows' = ReorderQueued(rows, place)
    BY <1>4 DEF ReorderRuns, EditLine
  <2>2. Moves(rows, ReorderQueued(rows, place), j)
    BY <1>1, ReorderMoves
  <2> QED BY <1>2, <2>1, <2>2, ReorderTold
<1>5. ASSUME NEW j \in Jobs, ClearRuns(j) PROVE Told
  <2>1. rows' = ClearQueued(rows, j)
    BY <1>5 DEF ClearRuns, EditLine
  <2>2. Moves(rows, ClearQueued(rows, j), j)
    BY <1>1, ClearQueuedMoves
  <2>3. CASE j = Recording
    <3>1. /\ Queued(rows', Recording) = {}
          /\ \A k \in Items : rows'.item[k].status = IF k \in Queued(rows, Recording)
                                                     THEN "cancelled" ELSE rows.item[k].status
      BY <1>1, <2>1, <2>3, ClearLine
    <3>2. IsLine(rows', Recording, << >>)
      BY <3>1, EmptyLine
    <3> QED BY <3>1, <3>2, WithdrawTold
  <2> QED BY <1>2, <2>1, <2>2, <2>3
<1>6. ASSUME NEW i \in Items, CancelRun(i) PROVE Told
  <2>1. rows.item[i].status = "queued" /\ rows' = CancelQueued(rows, i) /\ JobOf[i] \in Jobs
    BY <1>6, IdAssumption DEF CancelRun, EditLine
  <2>2. Moves(rows, CancelQueued(rows, i), JobOf[i])
    BY <1>1, <2>1, CancelQueuedMoves
  <2>3. CASE JobOf[i] = Recording
    <3>1. PICK m : /\ IsLine(rows', Recording, m)
                   /\ Queued(rows', Recording) = Queued(rows, Recording) \ {i}
                   /\ rows'.item[i].status = "cancelled"
                   /\ \A k \in Items : k # i => rows'.item[k].status = rows.item[k].status
                   /\ \A r, t \in Queued(rows', Recording) :
                        rows'.item[r].pos < rows'.item[t].pos
                          <=> rows.item[r].pos < rows.item[t].pos
      BY <1>1, <2>1, <2>3, CancelLine
    <3>2. {i} \in SUBSET Queued(rows, Recording)
      BY <2>1, <2>3 DEF Queued, ItemsIn
    <3> QED BY <3>1, <3>2, WithdrawTold
  <2> QED BY <1>2, <2>1, <2>2, <2>3
<1> QED BY <1>3, <1>4, <1>5, <1>6

\* The requests that write a recording's own status, and its deletion.
LEMMA StatusTold ==
  ASSUME TypeInv, OrderInv, DeletingIsQuiet, NEW j \in Jobs,
         \/ ReserveJobDeletion(j) \/ DeleteJob(j) \/ ReleaseDeletion(j)
         \/ StartImmediateRun(j) \/ RenameRead(j) \/ RenameSave(j)
         \/ AutoStartSave(j) \/ AutoStartEnqueue(j)
  PROVE  Told
<1>1. rows \in Rows
  BY TypeParts
<1>2. CASE DeleteJob(j)
  <2>1. rows' = DeleteWithAssociations(rows, j) /\ NonTerminal(rows, j) = {}
    BY <1>2 DEF DeleteJob, DeletingIsQuiet
  <2>2. CASE j = Recording
    BY <2>1, <2>2, DeleteTold
  <2>3. CASE j # Recording
    <3>1. \A k \in Items : JobOf[k] = Recording => rows'.item[k] = rows.item[k]
      BY <2>1, <2>3 DEF DeleteWithAssociations
    <3> QED BY <3>1, SameItemsTold
  <2> QED BY <2>2, <2>3
<1>3. ASSUME ~DeleteJob(j) PROVE rows'.item = rows.item
  <2>1. rows' = rows \/ rows' = SetJob(rows, j, "pending")
        \/ \E s : rows' = [rows EXCEPT !.job[j] = s]
    BY <1>3 DEF ReserveJobDeletion, ReleaseDeletion, StartImmediateRun, RenameRead,
                RenameSave, AutoStartSave, AutoStartEnqueue
  <2> QED BY <1>1, <2>1 DEF SetJob, Rows
<1> QED BY <1>2, <1>3, SameItemsTold

\* A step that writes one run.
LEMMA WrittenTold ==
  ASSUME OrderInv, rows' \in Rows, OneRun(rows, rows')
  PROVE  Told
BY OneRunTold

\* A transaction that writes one run, with promoteNext behind it.
LEMMA AdvanceTold ==
  ASSUME OrderInv, NEW c \in Rows, OneRun(rows, c), NEW j \in Jobs, NEW owned, NEW kept,
         Advance(c, j, owned, kept)
  PROVE  Told
<1>1. Lifts(c)
  BY AdvanceLifts
<1> QED BY <1>1, OneRunTold

\* OneRun looks at the items alone.
LEMMA OneRunItems ==
  ASSUME NEW b, NEW c, NEW d, b.item = d.item, OneRun(b, c)
  PROVE  OneRun(d, c)
BY DEF OneRun

\* A stop of an owned recording writes no run: its worker will.
LEMMA KillRunningTold ==
  ASSUME TypeInv, OrderInv, NEW r \in StopRequest, KillRunning(r)
  PROVE  Told
<1> DEFINE w == running[r.job]
           e == worker[w].bound
<1>1. rows \in Rows /\ r.job \in Jobs
  BY TypeParts DEF StopRequest
<1>2. e \in Execs \cup {NoExec}
  <2>1. w \in Workers
    BY <1>1, TypeParts DEF KillRunning, Owned, RestType
  <2> QED BY <2>1, TypeParts DEF CommittedRow, WorkerRow
<1>3. rows' = rows \/ /\ e # NoExec /\ rows' = Cancel(rows, r.job, e)
  BY DEF KillRunning
<1> HIDE DEF e
<1>4. rows'.item = rows.item
  BY <1>1, <1>2, <1>3, CancelLemma
<1> QED BY <1>4, SameItemsTold

\* A stop without an owner ends the active run, and may promote the next.
LEMMA KillPersistedTold ==
  ASSUME TypeInv, OrderInv, NEW r \in StopRequest, KillPersisted(r)
  PROVE  Told
<1> DEFINE j == r.job
           i == FindActive(rows, j)
           E == Persisted(j)
           e == CHOOSE x \in E : TRUE
           d == IF E = {} THEN rows ELSE Cancel(rows, j, e)
           b == SetJob(d, j, "failed")
           c == MarkActiveCancelled(b, j, i)
           kept == IF E # {} /\ phase = "up" THEN protected \ {j} ELSE protected
<1>1. rows \in Rows /\ j \in Jobs /\ i \in Items \cup {NoItem} /\ E \in SUBSET Execs
  BY FindType, PersistedType, TypeParts DEF StopRequest
<1>2. UNCHANGED rows \/ Advance(c, j, FALSE, j \in kept)
  BY DEF KillPersisted
<1> HIDE DEF i, E, j
<1>3. d \in Rows /\ d.item = rows.item
  <2>1. CASE E = {}
    BY <1>1, <2>1
  <2>2. CASE E # {}
    <3>1. e \in Execs
      BY <1>1, <2>2
    <3> HIDE DEF e
    <3> QED BY <1>1, <2>2, <3>1, CancelLemma
  <2> QED BY <2>1, <2>2
<1> HIDE DEF d
<1>4. b \in Rows /\ b.item = rows.item
  BY <1>1, <1>3, SetJobLemma DEF JobStatus
<1> HIDE DEF b
<1>5. c \in Rows /\ OneRun(b, c)
  BY <1>1, <1>4, MarkOneRun, MarkActiveCancelledLemma
<1> HIDE DEF c, kept
<1>6. OneRun(rows, c)
  BY <1>4, <1>5, OneRunItems
<1> QED BY <1>1, <1>2, <1>5, <1>6, AdvanceTold, SameItemsTold

\* A resume brings back a failed run, or one that looks active already.
LEMMA ResumeStepTold ==
  ASSUME TypeInv, OrderInv, NEW j \in Jobs, NEW e \in Execs, ResumeExecution(j, e)
  PROVE  Told
<1>1. rows \in Rows
  BY TypeParts
<1>2. /\ JobOf[e] = j
      /\ \/ rows' = rows
         \/ rows' = RequestResume(rows, j, e) /\ Resumable(rows, j, e)
  BY DEF ResumeExecution
<1>3. CASE rows' = rows
  BY <1>3, SameItemsTold
<1>4. CASE rows' = RequestResume(rows, j, e) /\ Resumable(rows, j, e)
  <2>1. CASE j = Recording
    <3>1. \/ Still(rows, rows', Recording)
          \/ /\ ActiveItems(rows, Recording) = {}
             /\ \E i \in Items : /\ JobOf[i] = Recording /\ rows.item[i].status = "failed"
                                 /\ Turns(rows, rows', Recording, i, "pending")
      BY <1>1, <1>2, <1>4, <2>1, RequestResumeTurns
    <3> QED BY <1>1, <3>1, StillTold, ResumeTold
  <2>2. CASE j # Recording
    <3> DEFINE i == rows.exec[e].item
    <3>1. i # NoItem => JobOf[i] = j
      BY <1>2, <1>4 DEF Resumable, HoldsItem
    <3>2. \A k \in Items : k # i => rows'.item[k] = rows.item[k]
      BY <1>1, <1>4, RequestResumeLemma
    <3> HIDE DEF i
    <3>3. \A k \in Items : JobOf[k] = Recording => k # i
      BY <2>2, <3>1, IdAssumption
    <3> QED BY <3>2, <3>3, SameItemsTold
  <2> QED BY <2>1, <2>2
<1> QED BY <1>2, <1>3, <1>4

\* Every request of the API.
LEMMA RequestsTold ==
  ASSUME TypeInv, OrderInv, DeletingIsQuiet, Requests
  PROVE  Told
<1>1. CASE \E n \in Workers : SetWorkers(n)
  BY <1>1, SameItemsTold DEF SetWorkers
<1>2. CASE \E r \in StopRequest : RequestStop(r) \/ Stop(r)
  <2>1. CASE \E r \in StopRequest : RequestStop(r)
    BY <2>1, SameItemsTold DEF RequestStop
  <2> QED BY <1>2, <2>1, KillRunningTold, KillPersistedTold DEF Stop
<1>3. CASE \E j \in Jobs, e \in Execs : ResumeExecution(j, e)
  BY <1>3, ResumeStepTold
<1>4. CASE \/ \E j \in Jobs, i \in Items : AddRun(j, i)
           \/ \E j \in Jobs : ReorderRuns(j) \/ ClearRuns(j)
           \/ \E i \in Items : CancelRun(i)
  BY <1>4, LineTold
<1>5. CASE \/ \E j \in Jobs : ReserveJobDeletion(j) \/ DeleteJob(j) \/ ReleaseDeletion(j)
           \/ \E j \in Immediate : StartImmediateRun(j)
           \/ \E j \in Renames : RenameRead(j) \/ RenameSave(j)
           \/ \E j \in AutoStarts : AutoStartSave(j) \/ AutoStartEnqueue(j)
  <2>1. Immediate \subseteq Jobs /\ Renames \subseteq Jobs /\ AutoStarts \subseteq Jobs
    BY QueueAssumption
  <2> QED BY <1>5, <2>1, StatusTold
<1> QED BY <1>1, <1>2, <1>3, <1>4, <1>5 DEF Requests

\* The steps of a worker that leave every run to what it is.
LEMMA RestingTold ==
  ASSUME TypeInv, OrderInv, NEW w \in Workers,
         Receive(w) \/ TakeResume(w) \/ Work(w) \/ SpendBudget(w) \/ Close(w) \/ WorkerExit(w)
  PROVE  Told
<1>1. rows \in Rows
  BY TypeParts
<1>2. CASE Receive(w) \/ Work(w) \/ WorkerExit(w)
  BY <1>2, SameItemsTold DEF Receive, Work, WorkerExit
<1>3. CASE TakeResume(w)
  <2> DEFINE e == worker[w].task.exec
  <2>1. worker[w].pc = "claimed" /\ e # NoExec /\ rows' = ClaimResume(rows, e)
    BY <1>3 DEF TakeResume, Processing
  <2>2. e \in Execs
    BY <2>1, TaskParts
  <2> HIDE DEF e
  <2>3. rows'.item = rows.item
    BY <1>1, <2>1, <2>2, ClaimResumeLemma
  <2> QED BY <2>3, SameItemsTold
<1>4. CASE SpendBudget(w)
  <2>1. rows'.item = rows.item
    BY <1>1, <1>4 DEF SpendBudget, Rows
  <2> QED BY <2>1, SameItemsTold
<1>5. CASE Close(w)
  <2>1. \/ rows' = rows
        \/ \E s : rows' = SetJob(rows, worker[w].task.job, s)
    BY <1>5 DEF Close, ClosedRows
  <2>2. rows'.item = rows.item
    BY <1>1, <2>1 DEF SetJob, Rows
  <2> QED BY <2>2, SameItemsTold
<1> QED BY <1>2, <1>3, <1>4, <1>5

\* The steps of a worker that write the run in its hands.
LEMMA WritingTold ==
  ASSUME TypeInv, OrderInv, rows' \in Rows, NEW w \in Workers,
         \/ Claim(w) \/ Refuse(w) \/ Register(w) \/ Publish(w)
         \/ \E e \in Execs : BeginRun(w, e)
  PROVE  Told
<1> DEFINE t == worker[w].task
           j == t.job
           x == worker[w].exec
<1>1. rows \in Rows /\ worker[w].pc \notin {"off", "idle"}
  BY TypeParts DEF Claim, Refuse, Register, Publish, BeginRun, Processing
<1>2. /\ j \in Jobs /\ t.item \in Items \cup {NoItem} /\ t.exec \in Execs \cup {NoExec}
      /\ worker[w].pc \in {"begun", "publishing"} => x \in Execs
  BY <1>1, TaskParts
<1>3. CASE Claim(w)
  <2>1. \/ rows' = rows \/ rows' = SetJob(rows, j, "processing")
        \/ /\ t.item # NoItem /\ CanClaimItem(rows, j, t.item)
           /\ rows' = ClaimItem(rows, j, t.item)
    BY <1>3 DEF Claim, Takes, Claimable
  <2> HIDE DEF t, j
  <2>2. CASE rows' = rows \/ rows' = SetJob(rows, j, "processing")
    <3>1. rows'.item = rows.item
      BY <1>1, <2>2 DEF SetJob, Rows
    <3> QED BY <3>1, SameItemsTold
  <2>3. CASE /\ t.item # NoItem /\ CanClaimItem(rows, j, t.item)
             /\ rows' = ClaimItem(rows, j, t.item)
    <3>1. OneRun(rows, rows')
      BY <1>1, <1>2, <2>3, ClaimOneRun
    <3> QED BY <3>1, WrittenTold
  <2> QED BY <2>1, <2>2, <2>3
<1>4. ASSUME NEW e \in Execs, BeginRun(w, e) PROVE Told
  <2> DEFINE y == IF e \in Timed THEN "ahead" ELSE "unset"
  <2>1. CanBegin(rows, j, t.item, e) /\ rows' = Begin(rows, t.item, e, y)
    BY <1>4 DEF BeginRun
  <2>2. (t.item # NoItem => CanBind(rows, t.item, e)) /\ y \in Deadline
    BY <2>1 DEF CanBegin, Deadline
  <2> HIDE DEF t, y
  <2>3. OneRun(rows, rows')
    BY <1>1, <1>2, <2>1, <2>2, BeginOneRun
  <2> QED BY <2>3, WrittenTold
<1>5. CASE Refuse(w)
  <2>1. \/ rows' = rows
        \/ /\ t.exec # NoExec /\ CanExpire(rows, j, t.exec)
           /\ rows' = ExpirePending(rows, j, t.exec)
    BY <1>5 DEF Refuse, ExpiresUnclaimed
  <2> HIDE DEF t, j
  <2>2. CASE rows' = rows
    BY <2>2, SameItemsTold
  <2>3. CASE /\ t.exec # NoExec /\ CanExpire(rows, j, t.exec)
             /\ rows' = ExpirePending(rows, j, t.exec)
    <3>1. t.exec \in Execs
      BY <1>2, <2>3
    <3>2. OneRun(rows, rows')
      BY <1>1, <1>2, <2>3, <3>1, ExecutionEndOneRun
    <3> QED BY <3>2, WrittenTold
  <2> QED BY <2>1, <2>2, <2>3
<1>6. CASE Register(w)
  <2>1. worker[w].pc = "begun"
    BY <1>6 DEF Register, Processing
  <2>2. \/ rows' = rows \/ rows' = Cancel(rows, j, x)
        \/ /\ t.item # NoItem /\ CanBind(rows, t.item, x)
           /\ rows' = BindExecution(rows, t.item, x)
    BY <1>6 DEF Register
  <2> HIDE DEF t, j, x
  <2>3. CASE rows' = rows \/ rows' = Cancel(rows, j, x)
    <3>1. rows'.item = rows.item
      BY <1>1, <1>2, <2>1, <2>3, CancelLemma
    <3> QED BY <3>1, SameItemsTold
  <2>4. CASE /\ t.item # NoItem /\ CanBind(rows, t.item, x)
             /\ rows' = BindExecution(rows, t.item, x)
    <3>1. OneRun(rows, rows')
      BY <1>1, <1>2, <2>4, BindOneRun
    <3> QED BY <3>1, WrittenTold
  <2> QED BY <2>2, <2>3, <2>4
<1>7. CASE Publish(w)
  <2> DEFINE s == IF worker[w].result = "ok" THEN "completed" ELSE "failed"
             g == worker[w].gen
  <2>1. worker[w].pc = "publishing"
    BY <1>7 DEF Publish, Processing
  <2>2. \/ rows' = rows \/ rows' = Cancel(rows, j, x)
        \/ CanFinish(rows, x, g, s) /\ rows' = Finish(rows, j, x, s)
    BY <1>7 DEF Publish
  <2>3. s \in {"completed", "failed"}
    OBVIOUS
  <2> HIDE DEF t, j, x, s, g
  <2>4. CASE rows' = rows \/ rows' = Cancel(rows, j, x)
    <3>1. rows'.item = rows.item
      BY <1>1, <1>2, <2>1, <2>4, CancelLemma
    <3> QED BY <3>1, SameItemsTold
  <2>5. CASE CanFinish(rows, x, g, s) /\ rows' = Finish(rows, j, x, s)
    <3>1. OneRun(rows, rows')
      BY <1>1, <1>2, <2>1, <2>3, <2>5, ExecutionEndOneRun
    <3> QED BY <3>1, WrittenTold
  <2> QED BY <2>2, <2>4, <2>5
<1> QED BY <1>3, <1>4, <1>5, <1>6, <1>7

\* Releasing a recording ends its run, and the next one may move up.
LEMMA ReleaseTold ==
  ASSUME TypeInv, OrderInv, NEW w \in Workers, Release(w)
  PROVE  Told
<1> DEFINE t == worker[w].task
           j == t.job
           s == worker[w].outcome
           e == worker[w].bound
           c == Finalize(rows, j, t.item, s, e)
<1>1. rows \in Rows /\ worker[w].pc = "closing"
  BY TypeParts DEF Release
<1>2. j \in Jobs /\ t.item \in Items \cup {NoItem} /\ e \in Execs \cup {NoExec} /\ s \in EndedAs
  BY <1>1, TaskParts DEF EndedAs
<1>3. Advance(c, j, FALSE, j \in protected) \/ Advance(rows, j, FALSE, j \in protected)
  BY DEF Release
<1> HIDE DEF t, j, s, e
<1>4. OneRun(rows, rows) /\ OneRun(rows, c)
  BY <1>1, <1>2, FinalizeOneRun DEF OneRun
<1>5. c \in Rows
  <2>1. s \in ItemStatus \ Live
    BY <1>2 DEF EndedAs, ItemStatus, Live, ActiveStatus
  <2> QED BY <1>1, <1>2, <2>1, FinalizeLemma
<1> HIDE DEF c
<1> QED BY <1>1, <1>2, <1>3, <1>4, <1>5, AdvanceTold

\* The reconciler ends a run nobody owns, or moves the line up.
LEMMA ReconcileTold ==
  ASSUME TypeInv, OrderInv, NEW j \in Jobs, Reconcile(j)
  PROVE  Told
<1>1. rows \in Rows
  BY TypeParts
<1>2. CASE KeepsRecovery(j)
  BY <1>2, SameItemsTold DEF Reconcile
<1>3. CASE ~KeepsRecovery(j)
  <2>1. PICK d \in Repairs(j) : Redispatch(d, j)
    BY <1>3 DEF Reconcile
  <2>2. d \in Rows
    BY <1>1, RepairsLemma
  <2> DEFINE orphans == ItemsIn(rows, j, {"processing"})
             i == CHOOSE x \in orphans : TRUE
             b == Unclaimed(rows, j)
             e == rows.item[i].exec
  <2>3. b \in Rows /\ b.item = rows.item
    <3> DEFINE a == SetJob(rows, j, "failed")
    <3>1. a \in Rows /\ a.item = rows.item
      BY <1>1, SetJobLemma DEF JobStatus
    <3>2. b = rows \/ b = FailProcessing(a, j)
      BY DEF Unclaimed
    <3> HIDE DEF a, b
    <3>3. FailProcessing(a, j) \in Rows /\ FailProcessing(a, j).item = a.item
      BY <3>1, FailProcessingLemma, SMTT(30) DEF FailProcessing, Rows
    <3> QED BY <1>1, <3>1, <3>2, <3>3
  <2>4. OneRun(rows, d)
    <3>1. CASE d = rows \/ d = b
      BY <2>3, <3>1 DEF OneRun
    <3>2. CASE orphans # {} /\ d \in {Finalize(b, j, i, s, e) : s \in OrphanOutcomes(rows, j, i)}
      <4>1. i \in Items
        BY <3>2 DEF ItemsIn
      <4> HIDE DEF i, b
      <4>2. PICK s \in OrphanOutcomes(rows, j, i) : d = Finalize(b, j, i, s, e)
        BY <3>2
      <4>3. s \in EndedAs
        BY DEF OrphanOutcomes, EndedAs
      <4>4. OneRun(b, d)
        BY <2>3, <4>1, <4>2, <4>3, FinalizeOneRun
      <4> QED BY <2>3, <4>4, OneRunItems
    <3> HIDE DEF b
    <3> QED BY <3>1, <3>2 DEF Repairs, b
  <2>5. Advance(d, j, FALSE, FALSE) \/ rows' = d
    BY <2>1 DEF Redispatch
  <2> QED BY <2>2, <2>4, <2>5, AdvanceTold, OneRunTold
<1> QED BY <1>2, <1>3

\* Startup ends the run an interruption left behind and moves every line up once.
LEMMA LaunchTold ==
  ASSUME TypeInv, OrderInv, OneActiveRun, Launch
  PROVE  Told
<1> DEFINE d == FailInterruptedExcept(rows, protected)
           next == {j \in Jobs : Promotable(d, j) /\ j \notin protected}
           x == [j \in Jobs |-> IF j \in next THEN PromoteNext(d, j).job[j] ELSE d.job[j]]
           y == [i \in Items |-> IF JobOf[i] \in next
                                 THEN PromoteNext(d, JobOf[i]).item[i] ELSE d.item[i]]
<1>1. rows \in Rows
  BY TypeParts
<1>2. d \in Rows
  BY <1>1, FailInterruptedExceptLemma
<1>3. AtMostEnds(rows, d, Recording)
  BY <1>1, FailInterruptedEnds, RecordingAssumption DEF OneActiveRun, SingleActive
<1>4. rows' = [d EXCEPT !.job = x, !.item = y]
  BY DEF Launch, PromotedAll
<1> HIDE DEF d, x
<1>5. rows'.item = y
  <2> HIDE DEF y
  <2> QED BY <1>2, <1>4 DEF Rows
<1>6. Lifts(d)
  <2>1. CASE Recording \in next
    <3>1. \A k \in Items : JobOf[k] = Recording => y[k] = PromoteNext(d, Recording).item[k]
      BY <2>1
    <3> QED BY <1>5, <2>1, <3>1 DEF Lifts
  <2>2. CASE Recording \notin next
    <3>1. \A k \in Items : JobOf[k] = Recording => y[k] = d.item[k]
      BY <2>2
    <3>2. Still(d, rows', Recording)
      BY <1>5, <3>1, SameItemsStill
    <3> QED BY <3>2 DEF Lifts
  <2> QED BY <2>1, <2>2
<1> QED BY <1>2, <1>3, <1>6, EndTold

\* The life of the process, and the clock.
LEMMA ProcessTold ==
  ASSUME TypeInv, OrderInv, OneActiveRun, Process \/ \E e \in Execs : DeadlinePasses(e)
  PROVE  Told
<1>1. rows \in Rows
  BY TypeParts
<1>2. CASE Launch
  BY <1>2, LaunchTold
<1>3. ASSUME ~Launch PROVE rows'.item = rows.item
  <2>1. CASE Recover
    BY <1>1, <2>1, InterruptAllLemma DEF Recover
  <2>2. CASE ResetZombieJobs
    BY <1>1, <2>2 DEF ResetZombieJobs, Rows
  <2>3. CASE Crash \/ Drain \/ Halt
    BY <2>3 DEF Crash, Drain, Halt, Forget
  <2>4. CASE \E e \in Execs : DeadlinePasses(e)
    BY <1>1, <2>4 DEF DeadlinePasses, Rows
  <2> QED BY <1>3, <2>1, <2>2, <2>3, <2>4 DEF Process
<1> QED BY <1>2, <1>3, SameItemsTold

\* Every step of the task queue is a step of the queue the client sees.
LEMMA NextTold ==
  ASSUME TypeInv, OrderInv, OneActiveRun, DeletingIsQuiet, [Next]_vars
  PROVE  Told
<1>1. rows' \in Rows
  BY NextStep DEF RowsKept
<1>2. CASE UNCHANGED vars
  BY <1>2, SameItemsTold DEF vars
<1>3. CASE Requests
  BY <1>3, RequestsTold
<1>4. CASE \E w \in Workers : WorkerStep(w) \/ SpendBudget(w)
  BY <1>1, <1>4, RestingTold, WritingTold, ReleaseTold DEF WorkerStep
<1>5. CASE \E j \in Jobs : Reconcile(j)
  BY <1>5, ReconcileTold
<1>6. CASE Process \/ \E e \in Execs : DeadlinePasses(e)
  BY <1>6, ProcessTold
<1> QED BY <1>2, <1>3, <1>4, <1>5, <1>6 DEF Next

\* At first nothing waits, is active or has ended.
LEMMA InitTold ==
  ASSUME Init
  PROVE  OrderInv /\ RunQueue!Init
<1>1. \A i \in Items : rows.item[i].status = "none"
  BY DEF Init, InitRows
<1>2. Queued(rows, Recording) = {} /\ ActiveItems(rows, Recording) = {}
  BY <1>1 DEF Queued, ActiveItems, ItemsIn, ActiveStatus
<1>3. IsLine(rows, Recording, << >>)
  BY <1>2, EmptyLine
<1>4. Line = << >>
  BY <1>3, LineShown
<1>5. \A i \in RunsOfRecording : Ended(i) = "no"
  BY <1>1, EndedShown DEF RunsOfRecording, Result
<1> QED BY <1>2, <1>3, <1>4, <1>5 DEF OrderInv, RunQueue!Init

\* In every reachable state the positions of a recording's waiting runs are 1..n.
LEMMA OrderInvariant == Spec => []OrderInv
<1>1. TypeInv /\ OrderInv /\ OneActiveRun /\ DeletingIsQuiet /\ [Next]_vars => OrderInv'
  BY NextTold DEF Told
<1>2. Init => OrderInv
  BY InitTold
<1> QED BY <1>1, <1>2, TypeInvariant, ActiveRunIsSingle, DeletionIsExclusive, PTL DEF Spec

\* The rows of one recording are one queue, as SequentialRuns describes it: whatever
\* requests, workers, stops, repairs, crashes and restarts interleave, first in line is
\* first promoted, one run is active at most, a run ends once, and only a failed one
\* comes back, by a resume (PromoteNext, normalizeQueuedPositions, Finalize,
\* RequestResume, recoverSequentialRuns, reconcileSequentialRuns).
THEOREM RowsAreOneQueue == Spec => RunQueueImplemented
<1>1. Init => RunQueue!Init
  BY InitTold
<1>2. TypeInv /\ OrderInv /\ OneActiveRun /\ DeletingIsQuiet /\ [Next]_vars
        => [RunQueue!Next]_(RunQueue!vars)
  BY NextTold DEF Told
<1> QED BY <1>1, <1>2, OrderInvariant, TypeInvariant, ActiveRunIsSingle,
           DeletionIsExclusive, PTL DEF Spec, RunQueueImplemented, RunQueue!Spec

-----------------------------------------------------------------------------
(* No execution is forgotten: whatever counts as an owner has one.         *)

AtWork == {"begun", "working", "publishing"}

\* An execution begun for a run of its recording, and still that run's.
Begun(d, e) ==
  LET i == d.exec[e].item
  IN  i \in Items /\ JobOf[i] = JobOf[e] /\ (d.item[i].exec = e \/ d.item[i].status = "gone")

\* It counts as an owner only in the state that says so.
Paired(x) ==
  /\ x.status = "pending" => x.state = "pending"
  /\ x.status = "processing" => x.state = "running"

Born(d, j) ==
  \A e \in ExecsOf(d, j) : Paired(d.exec[e]) /\ (d.exec[e].state # "none" => Begun(d, e))

\* A pending recording has the run that is to be dispatched.
Ready(d, i) ==
  /\ d.item[i].status = "pending"
  /\ d.item[i].exec = NoExec \/ d.exec[d.item[i].exec].state = "pending"
Waits(d, j) ==
  d.job[j] = "pending" => \E i \in Items : JobOf[i] = j /\ Ready(d, i)

Orderly(d, j) == Waits(d, j) /\ Born(d, j)

\* An owner has a run, which is under way as long as its recording is.  Once what it
\* runs has ended, the recording says so, and once it has closed the run as well if
\* the number n of failed writes is none.
HoldsRun(d, r, n) ==
  LET j == r.task.job
  IN  /\ r.task.item # NoItem
      /\ d.job[j] \notin {"deleted", "pending"}
      /\ d.job[j] = "processing" =>
           /\ d.item[r.task.item].status = "processing"
           /\ r.pc = "closing" => n # 0
           /\ r.bound # NoExec => d.exec[r.bound].state \notin EndedAs
           /\ r.pc \in AtWork => d.exec[r.exec].state \notin EndedAs

\* An admitted execution whose run is to be dispatched.
Awaits(d, e) ==
  LET i == d.exec[e].item
  IN  /\ d.exec[e].state = "pending" /\ d.job[JobOf[e]] = "pending"
      /\ i \in Items /\ JobOf[i] = JobOf[e]
      /\ d.item[i].status = "pending" /\ d.item[i].exec = e

\* What may count as the owner of a recording that nobody owns, and of one that r owns.
Unheld(d, j) == \A e \in Competing(d, j) : Expired(d, e) \/ Awaits(d, e)
HeldBy(d, r, j) ==
  \A e \in Competing(d, j) :
    \/ Expired(d, e)
    \/ r.pc = "claimed" /\ e = r.task.exec /\ d.exec[e].state = "pending"
    \/ r.pc \in AtWork /\ e = r.exec

Counts   == Up /\ faults = 0
Starting == phase \in {"recovered", "repaired"}

Following(j) ==
  /\ Orderly(rows, j)
  /\ Owned(j) => HoldsRun(rows, worker[running[j]], faults)
  /\ Counts => IF Owned(j) THEN HeldBy(rows, worker[running[j]], j) ELSE Unheld(rows, j)
  /\ Starting => Competing(rows, j) = {}

\* A worker that has not begun has no execution of an earlier run.
Fresh == \A w \in Workers : worker[w].pc \in {"holding", "claimed"} => worker[w].exec = NoExec

FollowInv == Fresh /\ \A j \in Jobs : Following(j)

\* What was proved of the queue before.
Known ==
  /\ TypeInv /\ OwnerInv /\ BindInv /\ ProtInv /\ DispatchInv /\ StoryInv
  /\ SingleActive(rows) /\ DeletingIsQuiet

-----------------------------------------------------------------------------
\* From d to c nothing of recording j changes but its waiting line.
Alike(d, c, j) ==
  /\ c.job[j] = d.job[j]
  /\ \A e \in Execs : JobOf[e] = j =>
       /\ c.exec[e].state = d.exec[e].state /\ c.exec[e].status = d.exec[e].status
       /\ c.exec[e].item = d.exec[e].item
       /\ Expired(d, e) => Expired(c, e)
  /\ \A i \in Items :
       JobOf[i] = j /\ (d.item[i].status \notin {"none", "queued"} \/ d.item[i].exec # NoExec) =>
         c.item[i].status = d.item[i].status /\ c.item[i].exec = d.item[i].exec

\* Then it is as orderly as it was, and the same executions count.
LEMMA AlikeOrderly ==
  ASSUME NEW d \in Rows, NEW c, NEW j \in Jobs, Sound(d), Alike(d, c, j)
  PROVE  /\ Orderly(d, j) => Orderly(c, j)
         /\ Competing(c, j) = Competing(d, j)
<1>1. Competing(c, j) = Competing(d, j)
  BY DEF Alike, Competing, ExecsOf
<1>2. ASSUME Waits(d, j) PROVE Waits(c, j)
  <2> SUFFICES ASSUME c.job[j] = "pending"
               PROVE  \E i \in Items : JobOf[i] = j /\ Ready(c, i)
    BY DEF Waits
  <2>1. PICK i \in Items : JobOf[i] = j /\ Ready(d, i)
    BY <1>2 DEF Waits, Alike
  <2>2. c.item[i].status = "pending" /\ c.item[i].exec = d.item[i].exec
    BY <2>1 DEF Alike, Ready
  <2>3. d.item[i].exec \in Execs \cup {NoExec}
    BY DEF Rows, ItemRow
  <2>4. d.item[i].exec # NoExec => JobOf[d.item[i].exec] = j
    BY <2>1 DEF Sound
  <2>5. Ready(c, i)
    BY <2>1, <2>2, <2>3, <2>4 DEF Ready, Alike
  <2> QED BY <2>1, <2>5
<1>3. ASSUME Born(d, j) PROVE Born(c, j)
  <2> SUFFICES ASSUME NEW e \in Execs, JobOf[e] = j
               PROVE  Paired(c.exec[e]) /\ (c.exec[e].state # "none" => Begun(c, e))
    BY DEF Born, ExecsOf
  <2>1. Paired(d.exec[e]) /\ (d.exec[e].state # "none" => Begun(d, e))
    BY <1>3 DEF Born, ExecsOf
  <2>2. Paired(c.exec[e])
    BY <2>1 DEF Paired, Alike
  <2>3. Begun(d, e) => Begun(c, e)
    BY IdAssumption DEF Begun, Alike
  <2> QED BY <2>1, <2>2, <2>3 DEF Alike
<1> QED BY <1>1, <1>2, <1>3 DEF Orderly

\* An owner holds its run as it did.
LEMMA AlikeHolds ==
  ASSUME NEW d, NEW c, NEW r, NEW s, NEW n, NEW m, m = 0 => n = 0,
         Alike(d, c, r.task.job), HoldsRun(d, r, n),
         r.task.item \in Items /\ JobOf[r.task.item] = r.task.job,
         s.task = r.task, s.bound = r.bound, s.exec = r.exec,
         s.pc = r.pc \/ s.pc \notin {"closing"} \cup AtWork,
         r.bound # NoExec => r.bound \in Execs /\ JobOf[r.bound] = r.task.job,
         r.pc \in AtWork => r.exec \in Execs /\ JobOf[r.exec] = r.task.job
  PROVE  HoldsRun(c, s, m)
BY DEF HoldsRun, Alike

\* What counted is accounted for as it was.
LEMMA AlikeUnheld ==
  ASSUME NEW d, NEW c, NEW j \in Jobs, Competing(c, j) = Competing(d, j), Alike(d, c, j)
  PROVE  /\ Unheld(d, j) => Unheld(c, j)
         /\ \A r : HeldBy(d, r, j) => HeldBy(c, r, j)
<1>1. \A e \in Competing(d, j) :
        /\ e \in Execs /\ JobOf[e] = j
        /\ c.exec[e].state = d.exec[e].state /\ (Expired(d, e) => Expired(c, e))
  BY DEF Alike, Competing, ExecsOf
<1>2. ASSUME NEW e \in Competing(d, j), Awaits(d, e) PROVE Awaits(c, e)
  BY <1>1, <1>2, IdAssumption DEF Awaits, Alike
<1>3. Unheld(d, j) => Unheld(c, j)
  BY <1>1, <1>2 DEF Unheld
<1>4. ASSUME NEW r, HeldBy(d, r, j) PROVE HeldBy(c, r, j)
  BY <1>1, <1>4 DEF HeldBy
<1> QED BY <1>3, <1>4

\* What an owner's row says of its run.
SameWork(r, s) ==
  s.pc = r.pc /\ s.task = r.task /\ s.bound = r.bound /\ s.exec = r.exec

\* A recording a step leaves alone.
LEMMA LeftAlone ==
  ASSUME Known, NEW j \in Jobs, Following(j), Alike(rows, rows', j),
         running'[j] = running[j],
         Owned(j) => SameWork(worker[running[j]], worker'[running[j]]),
         Counts' => Counts, faults' = 0 => faults = 0, Starting' => Starting
  PROVE  Following(j)'
<1> DEFINE w == running[j]
           r == worker[w]
           s == worker'[w]
<1>1. rows \in Rows /\ Sound(rows)
  BY TypeParts DEF Known, BindInv
<1>2. Orderly(rows', j) /\ Competing(rows', j) = Competing(rows, j)
  BY <1>1, AlikeOrderly DEF Following
<1>3. /\ Unheld(rows, j) => Unheld(rows', j)
      /\ \A x : HeldBy(rows, x, j) => HeldBy(rows', x, j)
  BY <1>2, AlikeUnheld
<1>4. CASE ~Owned(j)
  BY <1>2, <1>3, <1>4 DEF Following, Owned
<1>5. CASE Owned(j)
  <2>1. w \in Workers
    BY <1>5, TypeParts DEF Owned, RestType, Known
  <2>2. r.pc \in Owning /\ r.task.job = j /\ SameWork(r, s)
    BY <1>5 DEF Known, OwnerInv, OneOwner
  <2>3. /\ r.pc \notin {"off", "idle"} /\ OwnWorker(r)
        /\ r.bound \in Execs \cup {NoExec} /\ r.task.item \in Items \cup {NoItem}
        /\ r.pc \in AtWork => r.exec \in Execs
    BY <2>1, <2>2, TaskParts DEF Known, BindInv, OwnWorkers, Owning, AtWork
  <2>4. HoldsRun(rows, r, faults)
    BY <1>5 DEF Following
  <2> HIDE DEF r, s, w
  <2>5. HoldsRun(rows', s, faults')
    <3>1. r.task.item \in Items /\ JobOf[r.task.item] = r.task.job
      BY <2>3, <2>4 DEF HoldsRun, OwnWorker, OwnTask
    <3> QED BY <2>2, <2>3, <2>4, <3>1, AlikeHolds DEF SameWork, OwnWorker, AtWork
  <2>6. HeldBy(rows', r, j) => HeldBy(rows', s, j)
    BY <2>2 DEF SameWork, HeldBy
  <2> USE DEF r, s, w
  <2>7. Owned(j)' /\ running'[j] = w
    BY <1>5 DEF Owned
  <2> HIDE DEF r, s
  <2>8. Counts => HeldBy(rows, r, j)
    BY <1>5 DEF Following, r
  <2>9. Starting => Competing(rows, j) = {}
    BY DEF Following
  <2> QED BY <1>2, <1>3, <2>5, <2>6, <2>7, <2>8, <2>9 DEF Following, s
<1> QED BY <1>4, <1>5

\* A step on another recording.
LEMMA AlikeWithin ==
  ASSUME NEW c, NEW d, NEW j \in Jobs, NEW k \in Jobs, j # k,
         Within(d, c, k), OnlyJob(d, c, k)
  PROVE  Alike(d, c, j)
BY DEF Within, OnlyJob, Alike, Expired

\* A step on the waiting lines.
LEMMA AlikeLine ==
  ASSUME NEW c, NEW d, NEW j \in Jobs, Tidy(d), LineChange(d, c), c.job[j] = d.job[j]
  PROVE  Alike(d, c, j)
<1>1. \A i \in Items : d.item[i].status \in {"none", "queued"} => d.item[i].exec = NoExec
  BY DEF Tidy, RunsAgree, Agrees
<1> QED BY <1>1 DEF LineChange, Alike, Expired

\* A step that writes nothing.
LEMMA AlikeStill ==
  ASSUME NEW d
  PROVE  \A j : Alike(d, d, j)
BY DEF Alike

\* A step in which every recording is left alone.
LEMMA AllAlone ==
  ASSUME Known, FollowInv, \A j \in Jobs : Alike(rows, rows', j),
         running' = running, Fresh',
         \A w \in Workers : worker[w].pc \in Owning => SameWork(worker[w], worker'[w]),
         Counts' => Counts, faults' = 0 => faults = 0, Starting' => Starting
  PROVE  FollowInv'
<1>1. ASSUME NEW j \in Jobs, Owned(j)
      PROVE  SameWork(worker[running[j]], worker'[running[j]])
  <2>1. running[j] \in Workers
    BY <1>1, TypeParts DEF Owned, RestType, Known
  <2> QED BY <1>1, <2>1 DEF Known, OwnerInv, OneOwner
<1>2. ASSUME NEW j \in Jobs PROVE Following(j)'
  BY <1>1, LeftAlone DEF FollowInv
<1> QED BY <1>2 DEF FollowInv

\* A step on one recording that nobody owns.
LEMMA OneFollowed ==
  ASSUME Known, FollowInv, NEW j \in Jobs, Within(rows, rows', j), OnlyJob(rows, rows', j),
         ~Owned(j), UNCHANGED <<running, worker, phase, faults>>, ~Starting,
         Orderly(rows', j), Counts => Unheld(rows', j)
  PROVE  FollowInv'
<1>1. ASSUME NEW k \in Jobs PROVE Following(k)'
  <2>1. CASE k = j
    BY <2>1 DEF Following, Owned, Counts, Up, Starting
  <2>2. CASE k # j
    <3>1. Alike(rows, rows', k)
      BY <2>2, AlikeWithin
    <3> QED BY <3>1, LeftAlone DEF FollowInv, Counts, Up, Starting, SameWork
  <2> QED BY <2>1, <2>2
<1> QED BY <1>1 DEF FollowInv, Fresh

\* A step of an owner on its own recording.
LEMMA OwnerFollowed ==
  ASSUME Known, FollowInv, NEW w \in Workers, worker[w].pc \in Owning,
         NEW j, j = worker[w].task.job, NEW r, Set(w, r),
         r.pc \in {"holding", "claimed"} => r.exec = NoExec,
         Within(rows, rows', j), OnlyJob(rows, rows', j),
         running' = running, phase' = phase, faults' = 0 => faults = 0,
         Orderly(rows', j), HoldsRun(rows', r, faults'), Counts' => HeldBy(rows', r, j)
  PROVE  FollowInv'
<1>1. /\ running[j] = w /\ j \in Jobs /\ w # 0 /\ 0 \notin Workers
      /\ \A v \in Workers : worker'[v] = IF v = w THEN r ELSE worker[v]
      /\ phase \notin {"down", "recovered", "repaired", "blocked"}
  BY TypeParts, OwnerFacts DEF Known, Workers, Set, OwnerInv, OneOwner, Quiet, Owning, Pc
<1>2. Fresh'
  BY <1>1 DEF Fresh, FollowInv
<1>3. ASSUME NEW k \in Jobs PROVE Following(k)'
  <2>1. CASE k = j
    BY <1>1, <2>1 DEF Following, Owned, Starting
  <2>2. CASE k # j
    <3>1. Alike(rows, rows', k)
      BY <1>1, <2>2, AlikeWithin
    <3>2. ASSUME Owned(k) PROVE SameWork(worker[running[k]], worker'[running[k]])
      <4>1. running[k] \in Workers
        BY <3>2, TypeParts DEF Owned, RestType, Known
      <4>2. running[k] # w
        BY <2>2, <3>2, <4>1 DEF Known, OwnerInv, OneOwner
      <4> QED BY <1>1, <4>1, <4>2 DEF SameWork
    <3> QED BY <3>1, <3>2, LeftAlone DEF FollowInv, Counts, Up, Starting
  <2> QED BY <2>1, <2>2
<1> QED BY <1>2, <1>3 DEF FollowInv

-----------------------------------------------------------------------------
\* Executions that stay begun for runs that stay theirs.
LEMMA StillBorn ==
  ASSUME NEW d, NEW c, NEW j \in Jobs, Born(d, j),
         \A i \in Items : JobOf[i] = j =>
           /\ d.item[i].exec # NoExec /\ c.item[i].status # "gone" =>
                c.item[i].exec = d.item[i].exec
           /\ d.item[i].status = "gone" => c.item[i].status = "gone",
         \A e \in Execs : JobOf[e] = j =>
           /\ Paired(c.exec[e])
           /\ c.exec[e].state # "none" =>
                d.exec[e].state # "none" /\ c.exec[e].item = d.exec[e].item
  PROVE  Born(c, j)
<1> SUFFICES ASSUME NEW e \in Execs, JobOf[e] = j, c.exec[e].state # "none"
             PROVE  Begun(c, e)
  BY DEF Born, ExecsOf
<1>1. Begun(d, e) /\ c.exec[e].item = d.exec[e].item
  BY DEF Born, ExecsOf
<1>2. e # NoExec
  BY IdAssumption
<1> QED BY <1>1, <1>2 DEF Begun

\* Promotion keeps a recording orderly, and happens where nothing waits for dispatch.
LEMMA PromoteFollowed ==
  ASSUME NEW b \in Rows, Tidy(b), NEW j \in Jobs, Promotable(b, j), Orderly(b, j),
         NEW c, c = PromoteNext(b, j)
  PROVE  /\ Orderly(c, j) /\ (Unheld(b, j) => Unheld(c, j))
         /\ c.job[j] = "pending" /\ c.exec = b.exec
<1> DEFINE f == FirstQueued(b, j)
<1>1. /\ LineChange(b, c) /\ f \in Items /\ JobOf[f] = j
      /\ b.item[f].status = "queued"
      /\ c.item[f].status = "pending" /\ c.item[f].exec = b.item[f].exec
  BY PromoteNextLine, FirstQueuedLemma DEF Promotable, Queued, ItemsIn
<1> HIDE DEF f
<1>2. c.job[j] = "pending"
  BY PromoteNextJobs DEF JobSet, Promotable, Idle
<1>3. \A i \in Items : b.item[i].status \in {"none", "queued"} => b.item[i].exec = NoExec
  BY DEF Tidy, RunsAgree, Agrees
<1>4. Ready(c, f)
  BY <1>1, <1>3 DEF Ready
<1>5. Born(c, j)
  <2>1. \A i \in Items :
          /\ b.item[i].exec # NoExec => c.item[i].exec = b.item[i].exec
          /\ b.item[i].status = "gone" => c.item[i].status = "gone"
    BY <1>1, <1>3 DEF LineChange
  <2>2. \A e \in Execs : JobOf[e] = j => Paired(c.exec[e]) /\ c.exec[e] = b.exec[e]
    BY <1>1 DEF LineChange, Orderly, Born, ExecsOf
  <2> QED BY <2>1, <2>2, StillBorn DEF Orderly
<1>6. ASSUME Unheld(b, j) PROVE Unheld(c, j)
  <2>1. Competing(c, j) = Competing(b, j) /\ c.exec = b.exec
    BY <1>1 DEF LineChange, Competing, ExecsOf
  <2>2. \A e \in Competing(b, j) : ~Awaits(b, e)
    BY DEF Promotable, ActiveItems, ItemsIn, ActiveStatus, Awaits, Competing, ExecsOf
  <2> QED BY <1>6, <2>1, <2>2 DEF Unheld, Expired
<1> QED BY <1>1, <1>2, <1>4, <1>5, <1>6 DEF Orderly, Waits, LineChange

\* promoteNext after the rows b were written.
LEMMA AdvanceFollowed ==
  ASSUME NEW b \in Rows, Tidy(b), NEW j \in Jobs, NEW owned, NEW kept,
         Advance(b, j, owned, kept), Orderly(b, j)
  PROVE  /\ Orderly(rows', j)
         /\ Unheld(b, j) => Unheld(rows', j)
         /\ rows'.job[j] \in {b.job[j], "pending"}
BY PromoteFollowed DEF Advance

\* An execution that ends, and its recording with it, stays accounted for.
EndsExec(d, c, j, e) ==
  /\ c.job[j] # "pending"
  /\ c.exec[e].item = d.exec[e].item /\ c.exec[e].status \notin ActiveStatus
  /\ c.exec[e].state # "none"
  /\ \A f \in Execs : f # e => c.exec[f] = d.exec[f]
  /\ \A i \in Items : JobOf[i] = j =>
       /\ d.item[i].exec # NoExec => c.item[i].exec = d.item[i].exec
       /\ d.item[i].status = "gone" => c.item[i].status = "gone"

\* Then nothing waits for dispatch, and one execution less counts.
LEMMA EndsOrderly ==
  ASSUME NEW d, NEW c, NEW j \in Jobs, NEW e \in Execs, EndsExec(d, c, j, e),
         Orderly(d, j), d.exec[e].state # "none"
  PROVE  Orderly(c, j) /\ Competing(c, j) = Competing(d, j) \ {e}
<1>1. Waits(c, j)
  BY DEF EndsExec, Waits
<1>2. Competing(c, j) = Competing(d, j) \ {e}
  BY DEF EndsExec, Competing, ExecsOf
<1>3. \A f \in Execs : JobOf[f] = j =>
        /\ Paired(c.exec[f])
        /\ c.exec[f].state # "none" =>
             d.exec[f].state # "none" /\ c.exec[f].item = d.exec[f].item
  BY DEF EndsExec, Orderly, Born, ExecsOf, Paired, ActiveStatus
<1>4. Born(c, j)
  BY <1>3, StillBorn DEF EndsExec, Orderly
<1> QED BY <1>1, <1>2, <1>4 DEF Orderly

\* Cancelling ends an execution, or has done so.
LEMMA CancelEnds ==
  ASSUME NEW d \in Rows, NEW j \in Jobs, NEW e \in Execs, d.exec[e].state # "cancelled"
  PROVE  /\ EndsExec(d, Cancel(d, j, e), j, e)
         /\ Cancel(d, j, e).item = d.item
         /\ Cancel(d, j, e).job[j] \in {"failed", "deleted"}
<1> DEFINE a == SetExec(d, e, "cancelled", "failed")
           b == [a EXCEPT !.exec[e].gen = @ + 1]
           c == SetJob(b, j, "failed")
<1>1. /\ a.exec[e].state = "cancelled" /\ a.exec[e].status = "failed"
      /\ a.exec[e].item = d.exec[e].item
      /\ \A f \in Execs : f # e => a.exec[f] = d.exec[f]
      /\ a.item = d.item /\ a \in Rows
  <2>1. "cancelled" \in ExecState /\ "failed" \in ExecStatus
    BY DEF ExecState, ExecStatus
  <2> QED BY <2>1, SetExecRow, SMTT(30)
<1> HIDE DEF a
<1>2. /\ b.exec[e].state = "cancelled" /\ b.exec[e].status = "failed"
      /\ b.exec[e].item = d.exec[e].item
      /\ \A f \in Execs : f # e => b.exec[f] = d.exec[f]
      /\ b.item = d.item /\ b \in Rows
  BY <1>1, GenRow
<1>3. Cancel(d, j, e) = c
  BY DEF Cancel, a
<1> HIDE DEF b
<1>4. /\ c.item = b.item /\ c.exec = b.exec
      /\ c.job[j] \in {"failed", "deleted"}
  BY <1>2, SetJobRow, SetJobMoves DEF JobSet
<1> HIDE DEF c
<1> QED BY <1>2, <1>3, <1>4 DEF EndsExec, ActiveStatus

\* Writing one outcome on an execution and its recording, and perhaps on its run.
LEMMA OutcomeEnds ==
  ASSUME NEW d \in Rows, NEW j \in Jobs, NEW e \in Execs, NEW i \in Items \cup {NoItem},
         NEW s \in {"completed", "failed"}, i # NoItem => d.item[i].status # "gone"
  PROVE  LET a == SetJob(SetExec(d, e, s, s), j, s)
             c == IF i = NoItem THEN a ELSE SetItem(a, i, s)
         IN  EndsExec(d, c, j, e) /\ c.job[j] \in {s, "deleted"}
<1> DEFINE b == SetExec(d, e, s, s)
           a == SetJob(b, j, s)
           c == IF i = NoItem THEN a ELSE SetItem(a, i, s)
<1>1. /\ b.exec[e].status = s /\ b.exec[e].state = s
      /\ b.exec[e].item = d.exec[e].item
      /\ \A f \in Execs : f # e => b.exec[f] = d.exec[f]
      /\ b.item = d.item /\ b \in Rows
  <2>1. s \in ExecState /\ s \in ExecStatus
    BY DEF ExecState, ExecStatus
  <2> QED BY <2>1, SetExecRow, SMTT(30)
<1> HIDE DEF b
<1>2. a.item = b.item /\ a.exec = b.exec /\ a.job[j] \in {s, "deleted"} /\ a \in Rows
  <2>1. a \in Rows
    BY <1>1, SetJobLemma DEF JobStatus
  <2> QED BY <1>1, <2>1, SetJobRow, SetJobMoves DEF JobSet
<1> HIDE DEF a
<1>3. /\ c.exec = a.exec /\ c.job = a.job
      /\ \A k \in Items : /\ c.item[k].exec = a.item[k].exec
                          /\ d.item[k].status = "gone" => c.item[k].status = "gone"
  <2>1. CASE i = NoItem
    BY <1>1, <1>2, <2>1
  <2>2. CASE i # NoItem
    BY <1>1, <1>2, <2>2, SetItemRow
  <2> QED BY <2>1, <2>2
<1> HIDE DEF c
<1>4. EndsExec(d, c, j, e)
  BY <1>1, <1>2, <1>3 DEF EndsExec, ActiveStatus
<1> QED BY <1>2, <1>3, <1>4 DEF a, b, c

\* Publication and the end of an admitted resume that ran out of its deadline.
LEMMA FinishEnds ==
  ASSUME NEW d \in Rows, NEW j \in Jobs, NEW e \in Execs, NEW s \in {"completed", "failed"},
         HoldsItem(d, e, ActiveStatus)
  PROVE  /\ EndsExec(d, Finish(d, j, e, s), j, e)
         /\ Finish(d, j, e, s).job[j] \in {s, "deleted"}
         /\ EndsExec(d, ExpirePending(d, j, e), j, e)
         /\ ExpirePending(d, j, e).job[j] \in {"failed", "deleted"}
<1> DEFINE i == d.exec[e].item
           E(x) == LET a == SetJob(SetExec(d, e, x, x), j, x)
                   IN  IF i = NoItem THEN a ELSE SetItem(a, i, x)
<1>1. i \in Items \cup {NoItem}
  BY DEF Rows, ExecRow
<1>2. i # NoItem => d.item[i].status # "gone"
  BY DEF HoldsItem, ActiveStatus
<1>3. Finish(d, j, e, s) = E(s) /\ ExpirePending(d, j, e) = E("failed")
  BY DEF Finish, ExpirePending
<1> HIDE DEF i
<1>4. \A x \in {"completed", "failed"} :
        EndsExec(d, E(x), j, e) /\ E(x).job[j] \in {x, "deleted"}
  BY <1>1, <1>2, OutcomeEnds
<1> HIDE DEF E
<1> QED BY <1>3, <1>4

\* A run ends, and its recording with it.
LEMMA EndsItem ==
  ASSUME NEW d \in Rows, NEW c, NEW j \in Jobs, Orderly(d, j), c.exec = d.exec,
         c.job[j] # "pending",
         \A i \in Items : JobOf[i] = j =>
           /\ d.item[i].exec # NoExec => c.item[i].exec = d.item[i].exec
           /\ d.item[i].status = "gone" => c.item[i].status = "gone"
  PROVE  Orderly(c, j) /\ Competing(c, j) = Competing(d, j)
<1>1. Waits(c, j)
  BY DEF Waits
<1>2. Competing(c, j) = Competing(d, j)
  BY DEF Competing, ExecsOf
<1>3. Born(c, j)
  <2>1. \A e \in Execs : JobOf[e] = j => Paired(d.exec[e])
    BY DEF Orderly, Born, ExecsOf
  <2> QED BY <2>1, StillBorn DEF Orderly
<1> QED BY <1>1, <1>2, <1>3 DEF Orderly

\* The end of the run an owner held, bound to the execution it was begun for.
LEMMA FinalizeEnds ==
  ASSUME NEW d \in Rows, NEW j \in Jobs, NEW i \in Items \cup {NoItem},
         NEW s \in {"completed", "failed", "cancelled"}, NEW e \in Execs \cup {NoExec},
         Orderly(d, j), Tidy(d), d.job[j] # "pending",
         i # NoItem => JobOf[i] = j,
         e # NoExec /\ i # NoItem => JobOf[e] = j /\ d.exec[e].item = i
  PROVE  LET c == Finalize(d, j, i, s, e)
         IN  /\ Orderly(c, j) /\ Competing(c, j) = Competing(d, j) /\ c.exec = d.exec
             /\ c.job[j] \in {d.job[j], "completed", "failed"}
<1> DEFINE x == IF e = NoExec THEN d.item[i].exec ELSE e
           c == Finalize(d, j, i, s, e)
<1>1. CASE i = NoItem \/ d.item[i].status \notin ActiveStatus
  BY <1>1 DEF Finalize
<1>2. CASE ~(i = NoItem \/ d.item[i].status \notin ActiveStatus)
  <2>1. i \in Items /\ JobOf[i] = j /\ d.item[i].status \in ActiveStatus
    BY <1>2
  <2>2. d.item[i].exec # NoExec => x = d.item[i].exec
    <3> SUFFICES ASSUME d.item[i].exec # NoExec, e # NoExec PROVE e = d.item[i].exec
      OBVIOUS
    <3>1. e \in Execs /\ d.exec[e].item = i /\ JobOf[e] = j
      BY <2>1, IdAssumption
    <3>2. d.exec[e].state # "none"
      BY <2>1, <3>1, IdAssumption DEF Tidy, Columns
    <3>3. Begun(d, e)
      BY <3>1, <3>2 DEF Orderly, Born, ExecsOf
    <3> QED BY <2>1, <3>1, <3>3 DEF Begun, ActiveStatus
  <2>3. s \in ItemStatus /\ (e # NoExec => JobOf[e] = j /\ e \in Execs)
    BY <2>1, IdAssumption DEF ItemStatus
  <2>4. /\ c.exec = d.exec
        /\ \A k \in Items : c.item[k] # d.item[k] => k = i /\ c.item[k].exec = x
    BY <2>1, <2>3, FinalizeMoves DEF Moves
  <2>5. c.job[j] \in {d.job[j], "completed", "failed"} /\ c.job[j] # "pending"
    BY <2>3, FinalizeJobs DEF JobSet, JobOutcome
  <2> HIDE DEF x, c
  <2>6. \A k \in Items : JobOf[k] = j =>
          /\ d.item[k].exec # NoExec => c.item[k].exec = d.item[k].exec
          /\ d.item[k].status = "gone" => c.item[k].status = "gone"
    BY <2>1, <2>2, <2>4 DEF ActiveStatus
  <2> QED BY <2>4, <2>5, <2>6, EndsItem DEF c
<1> QED BY <1>1, <1>2

\* The repair of a recording that nobody owns fails an execution nobody claimed.
LEMMA UnclaimedFollowed ==
  ASSUME rows \in Rows, Tidy(rows), NEW j \in Jobs, Orderly(rows, j)
  PROVE  LET c == Unclaimed(rows, j)
         IN  /\ c \in Rows /\ Tidy(c) /\ c.item = rows.item /\ Orderly(c, j)
             /\ \A e \in Execs : c.exec[e].item = rows.exec[e].item
             /\ Unheld(rows, j) => Unheld(c, j)
             /\ c.job[j] = "pending" => rows.job[j] = "pending"
<1> DEFINE a == SetJob(rows, j, "failed")
           c == FailProcessing(a, j)
<1>1. CASE rows.job[j] # "processing"
  BY <1>1 DEF Unclaimed
<1>2. CASE rows.job[j] = "processing"
  <2>1. a \in Rows /\ a.item = rows.item /\ a.exec = rows.exec /\ a.job[j] = "failed"
    <3>1. a \in Rows
      BY SetJobLemma DEF JobStatus
    <3>2. a.job[j] = "failed"
      BY <1>2, SetJobRow DEF JobSet
    <3> QED BY <3>1, <3>2, SetJobMoves
  <2>2. Unclaimed(rows, j) = c
    BY <1>2 DEF Unclaimed
  <2> HIDE DEF a
  <2>3. Proper(a, c) /\ Proper(rows, a)
    BY <2>1, FailProcessingProper, StillProper
  <2>4. c \in Rows /\ c.item = a.item /\ c.job = a.job
    BY <2>1, FailProcessingLemma, LineJobs
  <2>5. \A e \in Execs :
          c.exec[e] = IF JobOf[e] = j /\ a.exec[e].status = "processing"
                      THEN [a.exec[e] EXCEPT !.status = "failed"] ELSE a.exec[e]
    BY <2>1 DEF FailProcessing, Rows
  <2>6. \A e \in Execs :
          /\ c.exec[e].state = a.exec[e].state /\ c.exec[e].item = a.exec[e].item
          /\ c.exec[e].deadline = a.exec[e].deadline
          /\ c.exec[e].status \in {a.exec[e].status, "failed"}
    <3> DEFINE r(e) == [a.exec[e] EXCEPT !.status = "failed"]
    <3>1. \A e \in Execs :
            /\ r(e).state = a.exec[e].state /\ r(e).item = a.exec[e].item
            /\ r(e).deadline = a.exec[e].deadline /\ r(e).status = "failed"
      BY <2>1 DEF Rows, ExecRow
    <3>2. \A e \in Execs : c.exec[e] \in {r(e), a.exec[e]}
      BY <2>5
    <3> HIDE DEF r, c
    <3> QED BY <3>1, <3>2
  <2> HIDE DEF c
  <2>7. Orderly(c, j)
    <3>1. \A e \in Execs : JobOf[e] = j => Paired(c.exec[e])
      BY <2>1, <2>6 DEF Orderly, Born, ExecsOf, Paired
    <3>2. Born(c, j)
      BY <2>1, <2>4, <2>6, <3>1, StillBorn DEF Orderly
    <3> QED BY <2>1, <2>4, <3>2 DEF Orderly, Waits
  <2>8. ASSUME Unheld(rows, j) PROVE Unheld(c, j)
    <3>1. \A e \in Competing(c, j) : e \in Competing(rows, j)
      BY <2>1, <2>6 DEF Competing, ExecsOf, ActiveStatus
    <3>2. \A e \in Competing(rows, j) : ~Awaits(rows, e)
      BY <1>2 DEF Awaits, Competing, ExecsOf
    <3>3. \A e \in Competing(rows, j) : Expired(rows, e)
      BY <2>8, <3>2 DEF Unheld
    <3>4. \A e \in Competing(rows, j) : Expired(c, e)
      BY <2>1, <2>6, <3>3 DEF Expired, Competing, ExecsOf
    <3> QED BY <3>1, <3>4 DEF Unheld
  <2> QED BY <2>1, <2>2, <2>3, <2>4, <2>6, <2>7, <2>8 DEF Proper
<1> QED BY <1>1, <1>2

\* A repair keeps the recording orderly, and ends only what nobody waits for.
LEMMA RepairsFollowed ==
  ASSUME rows \in Rows, Tidy(rows), Sound(rows), SingleActive(rows), NEW j \in Jobs,
         Orderly(rows, j), NEW d \in Repairs(j)
  PROVE  d \in Rows /\ Tidy(d) /\ Orderly(d, j) /\ (Unheld(rows, j) => Unheld(d, j))
<1> DEFINE orphans == ItemsIn(rows, j, {"processing"})
           i == CHOOSE x \in orphans : TRUE
           b == Unclaimed(rows, j)
           e == rows.item[i].exec
<1>1. /\ b \in Rows /\ Tidy(b) /\ b.item = rows.item /\ Orderly(b, j)
      /\ \A f \in Execs : b.exec[f].item = rows.exec[f].item
      /\ Unheld(rows, j) => Unheld(b, j)
      /\ b.job[j] = "pending" => rows.job[j] = "pending"
  BY UnclaimedFollowed
<1>2. d \in Rows /\ Tidy(d)
  BY RepairsLemma, RepairsProper DEF Proper
<1>3. CASE d = rows \/ d = b
  BY <1>1, <1>2, <1>3
<1>4. CASE /\ orphans # {}
           /\ d \in {Finalize(b, j, i, s, e) : s \in OrphanOutcomes(rows, j, i)}
  <2>1. i \in Items /\ JobOf[i] = j /\ rows.item[i].status = "processing"
    BY <1>4 DEF ItemsIn
  <2>2. PICK s \in OrphanOutcomes(rows, j, i) : d = Finalize(b, j, i, s, e)
    BY <1>4
  <2> HIDE DEF i, b
  <2>3. s \in {"completed", "failed", "cancelled"}
    BY DEF OrphanOutcomes
  <2>4. rows.job[j] # "pending"
    <3> SUFFICES ASSUME rows.job[j] = "pending" PROVE FALSE
      OBVIOUS
    <3>1. PICK k \in Items : JobOf[k] = j /\ rows.item[k].status = "pending"
      BY DEF Orderly, Waits, Ready
    <3> QED BY <2>1, <3>1 DEF SingleActive, ActiveItems, ItemsIn, ActiveStatus
  <2>5. e \in Execs \cup {NoExec} /\ (e # NoExec => JobOf[e] = j /\ b.exec[e].item = i)
    BY <1>1, <2>1 DEF Rows, ItemRow, Sound, Tidy, RunsAgree, Agrees
  <2> HIDE DEF e
  <2>6. Orderly(d, j) /\ Competing(d, j) = Competing(b, j) /\ d.exec = b.exec
    BY <1>1, <2>1, <2>2, <2>3, <2>4, <2>5, FinalizeEnds
  <2>7. \A f \in Competing(b, j) : ~Awaits(b, f)
    BY <1>1, <2>4 DEF Awaits, Competing, ExecsOf
  <2>8. Unheld(b, j) => Unheld(d, j)
    BY <2>6, <2>7 DEF Unheld, Expired
  <2> QED BY <1>1, <1>2, <2>6, <2>8
<1> HIDE DEF b
<1> QED BY <1>3, <1>4 DEF Repairs, b

-----------------------------------------------------------------------------
\* The rows, as far as they are known.
LEMMA KnownRows ==
  ASSUME Known
  PROVE  rows \in Rows /\ Tidy(rows) /\ Sound(rows) /\ SingleActive(rows)
BY TypeParts DEF Known, StoryInv, BindInv

\* A step that writes nothing, and of the workers only what nobody follows.
LEMMA StillFollowed ==
  ASSUME Known, FollowInv, rows' = rows, running' = running, Fresh',
         \A w \in Workers : worker[w].pc \in Owning => SameWork(worker[w], worker'[w]),
         Counts' => Counts, faults' = 0 => faults = 0, Starting' => Starting
  PROVE  FollowInv'
BY AlikeStill, AllAlone

\* Additions to and edits of the waiting line.
LEMMA LineFollowed ==
  ASSUME Known, FollowInv,
         \/ \E j \in Jobs, i \in Items : AddRun(j, i)
         \/ \E j \in Jobs : ReorderRuns(j) \/ ClearRuns(j)
         \/ \E i \in Items : CancelRun(i)
  PROVE  FollowInv'
<1>1. rows \in Rows /\ Tidy(rows) /\ Sound(rows)
  BY KnownRows
<1>2. ASSUME NEW c, LineChange(rows, c), c.job = rows.job, rows' = c, UNCHANGED quiet
      PROVE  FollowInv'
  <2>1. \A j \in Jobs : Alike(rows, rows', j)
    BY <1>1, <1>2, AlikeLine
  <2>2. running' = running /\ worker' = worker /\ phase' = phase /\ faults' = faults
    BY <1>2 DEF quiet
  <2> QED BY <2>1, <2>2, AllAlone DEF FollowInv, Fresh, SameWork, Counts, Up, Starting
<1>3. ASSUME NEW j \in Jobs, NEW i \in Items, AddRun(j, i) PROVE FollowInv'
  <2> DEFINE c == AppendRun(rows, j, i)
  <2>1. c \in Rows /\ LineChange(rows, c) /\ c.job = rows.job /\ Moves(rows, c, j)
    BY <1>1, <1>3, AppendRunLemma, AppendRunLine, AppendRunMoves, LineJobs DEF AddRun
  <2>2. /\ Advance(c, j, Owned(j), j \in protected) /\ UNCHANGED quiet
        /\ Admitting
    BY <1>3 DEF AddRun
  <2> HIDE DEF c
  <2>3. CASE rows' = c
    BY <1>2, <2>1, <2>2, <2>3
  <2>4. CASE ~Owned(j)
    <3>1. Tidy(c)
      BY <1>1, <2>1, LineProper DEF Proper
    <3>2. Alike(rows, c, j)
      BY <1>1, <2>1, AlikeLine
    <3>3. Orderly(c, j) /\ (Unheld(rows, j) => Unheld(c, j))
      BY <1>1, <3>2, AlikeOrderly, AlikeUnheld DEF FollowInv, Following
    <3>4. Orderly(rows', j) /\ (Unheld(c, j) => Unheld(rows', j))
      BY <2>1, <2>2, <3>1, <3>3, AdvanceFollowed
    <3>5. Within(rows, rows', j) /\ OnlyJob(rows, rows', j)
      <4>1. Moves(c, rows', j) /\ OnlyJob(c, rows', j)
        BY <2>1, <2>2, AdvanceOwn, AdvanceJobs
      <4> QED BY <2>1, <4>1, MovesCompose, MovesKeep DEF Keeps, OnlyJob
    <3>6. Counts => Unheld(rows', j)
      BY <2>4, <3>3, <3>4 DEF FollowInv, Following
    <3>7. UNCHANGED <<running, worker, phase, faults>> /\ ~Starting
      BY <2>2 DEF quiet, Admitting, Starting
    <3> QED BY <2>4, <3>4, <3>5, <3>6, <3>7, OneFollowed
  <2> QED BY <2>2, <2>3, <2>4 DEF Advance
<1>4. ASSUME NEW c, LineChange(rows, c), c.job = rows.job, EditLine(c) PROVE FollowInv'
  BY <1>2, <1>4 DEF EditLine
<1>5. ASSUME NEW j \in Jobs, ReorderRuns(j) PROVE FollowInv'
  <2>1. PICK place \in Orders(rows, j) : EditLine(ReorderQueued(rows, place))
    BY <1>5 DEF ReorderRuns
  <2>2. ReorderQueued(rows, place).job = rows.job /\ LineChange(rows, ReorderQueued(rows, place))
    BY <1>1, LineJobs, ReorderLine
  <2> QED BY <1>4, <2>1, <2>2
<1>6. ASSUME NEW j \in Jobs, ClearRuns(j) PROVE FollowInv'
  <2>1. ClearQueued(rows, j).job = rows.job /\ LineChange(rows, ClearQueued(rows, j))
    BY <1>1, LineJobs, ClearQueuedLine
  <2> QED BY <1>4, <1>6, <2>1 DEF ClearRuns
<1>7. ASSUME NEW i \in Items, CancelRun(i) PROVE FollowInv'
  <2>1. CancelQueued(rows, i).job = rows.job /\ LineChange(rows, CancelQueued(rows, i))
    BY <1>1, <1>7, LineJobs, CancelQueuedLine, IdAssumption DEF CancelRun
  <2> QED BY <1>4, <1>7, <2>1 DEF CancelRun
<1> QED BY <1>3, <1>5, <1>6, <1>7

\* Reservations and the deletion, which happen where nobody owns the recording.
LEMMA DeletionFollowed ==
  ASSUME Known, FollowInv, NEW j \in Jobs,
         ReserveJobDeletion(j) \/ DeleteJob(j) \/ ReleaseDeletion(j)
  PROVE  FollowInv'
<1>1. UNCHANGED <<running, worker, phase, faults>>
  BY DEF ReserveJobDeletion, DeleteJob, ReleaseDeletion, quiet
<1>2. CASE rows' = rows
  BY <1>1, <1>2, StillFollowed DEF FollowInv, Fresh, SameWork, Counts, Up, Starting
<1>3. CASE DeleteJob(j)
  <2> DEFINE c == DeleteWithAssociations(rows, j)
  <2>1. rows \in Rows /\ Tidy(rows) /\ Sound(rows)
    BY KnownRows
  <2>2. rows' = c /\ ~Owned(j) /\ ~Starting
    BY <1>3 DEF DeleteJob, Known, DeletingIsQuiet, Serving, Starting
  <2>3. /\ JobSet(rows, c, j, "deleted") /\ Within(rows, c, j)
    BY <2>1, DeleteJobs, DeleteKeepsFinal DEF Keeps
  <2>4. \A e \in Execs : JobOf[e] = j =>
          /\ c.exec[e].status \notin ActiveStatus
          /\ c.exec[e].state # "none" =>
               rows.exec[e].state # "none" /\ c.exec[e].item = rows.exec[e].item
    <3> DEFINE r(e) == [rows.exec[e] EXCEPT !.state = "gone", !.status = "none"]
    <3>1. \A e \in Execs : r(e).status = "none" /\ r(e).item = rows.exec[e].item
      BY <2>1 DEF Rows, ExecRow
    <3>2. \A e \in Execs : JobOf[e] = j =>
            \/ rows.exec[e].state # "none" /\ c.exec[e] = r(e)
            \/ rows.exec[e].state = "none" /\ c.exec[e] = rows.exec[e]
      BY DEF DeleteWithAssociations
    <3>3. \A e \in Execs : rows.exec[e].state = "none" => rows.exec[e].status = "none"
      BY <2>1 DEF Tidy, Columns
    <3> HIDE DEF r, c
    <3> QED BY <3>1, <3>2, <3>3 DEF ActiveStatus
  <2>5. \A i \in Items : JobOf[i] = j =>
          \/ c.item[i].status = "gone"
          \/ rows.item[i].status = "none" /\ c.item[i] = rows.item[i]
    BY DEF DeleteWithAssociations
  <2> HIDE DEF c
  <2>6. Born(c, j)
    <3>1. \A e \in Execs : JobOf[e] = j => Paired(c.exec[e])
      BY <2>4 DEF Paired, ActiveStatus
    <3>2. Born(rows, j)
      BY DEF FollowInv, Following, Orderly
    <3> QED BY <2>4, <2>5, <3>1, <3>2, StillBorn
  <2>7. Orderly(c, j)
    BY <2>3, <2>6 DEF Orderly, Waits, JobSet
  <2>8. Unheld(c, j)
    BY <2>4 DEF Unheld, Competing, ExecsOf
  <2> QED BY <1>1, <2>2, <2>3, <2>7, <2>8, OneFollowed DEF JobSet
<1> QED BY <1>2, <1>3 DEF ReserveJobDeletion, ReleaseDeletion

\* Settings, and requests that are only taken note of.
LEMMA NotedFollowed ==
  ASSUME Known, FollowInv,
         (\E n \in Workers : SetWorkers(n)) \/ (\E r \in StopRequest : RequestStop(r))
  PROVE  FollowInv'
<1>1. UNCHANGED <<rows, running, phase, faults>>
  BY DEF SetWorkers, RequestStop
<1>2. \A w \in Workers :
        worker'[w] = worker[w] \/ (worker[w].pc = "off" /\ worker'[w] = IdleWorker)
  BY DEF SetWorkers, RequestStop, Grown
<1>3. IdleWorker.pc = "idle"
  BY DEF IdleWorker, OffWorker
<1>4. Fresh'
  BY <1>2, <1>3 DEF FollowInv, Fresh
<1> QED BY <1>1, <1>2, <1>4, StillFollowed DEF SameWork, Counts, Up, Starting, Owning

\* Cancelling an execution of recording j, or finding it cancelled.
LEMMA CancelFollowed ==
  ASSUME NEW d \in Rows, Tidy(d), NEW j \in Jobs, NEW e \in Execs, JobOf[e] = j,
         CanCancel(d, e), d.exec[e].state # "none", Orderly(d, j)
  PROVE  LET c == Cancel(d, j, e)
         IN  /\ c \in Rows /\ Tidy(c) /\ Orderly(c, j) /\ c.item = d.item
             /\ Within(d, c, j) /\ OnlyJob(d, c, j)
             /\ Competing(c, j) = Competing(d, j) \ {e}
             /\ \A f \in Execs : f # e => c.exec[f] = d.exec[f]
             /\ c = d \/ c.job[j] \in {"failed", "deleted"}
<1> DEFINE c == Cancel(d, j, e)
<1>1. c \in Rows /\ Tidy(c) /\ c.item = d.item /\ Within(d, c, j)
  BY CancelLemma, CancelProper, CancelKeepsFinal DEF Proper, Keeps
<1>2. CASE d.exec[e].state = "cancelled"
  <2>1. c = d
    BY <1>2 DEF Cancel
  <2>2. e \notin Competing(d, j)
    BY <1>2 DEF Orderly, Born, ExecsOf, Paired, Competing, ActiveStatus
  <2>3. OnlyJob(d, d, j)
    BY DEF OnlyJob
  <2> HIDE DEF c
  <2> QED BY <1>1, <2>1, <2>2, <2>3 DEF c
<1>3. CASE d.exec[e].state # "cancelled"
  <2>1. EndsExec(d, c, j, e) /\ c.job[j] \in {"failed", "deleted"}
    BY <1>3, CancelEnds
  <2>2. OnlyJob(d, c, j)
    BY <1>3, CancelJobs DEF JobSet
  <2> HIDE DEF c
  <2>3. Orderly(c, j) /\ Competing(c, j) = Competing(d, j) \ {e}
    BY <2>1, EndsOrderly
  <2>4. \A f \in Execs : f # e => c.exec[f] = d.exec[f]
    BY <2>1 DEF EndsExec
  <2> QED BY <1>1, <2>1, <2>2, <2>3, <2>4 DEF c
<1> QED BY <1>2, <1>3

\* What an owner has bound or begun exists.
LEMMA OwnersExec ==
  ASSUME Known, FollowInv, NEW w \in Workers, worker[w].pc \in Owning
  PROVE  LET r == worker[w]
             j == r.task.job
         IN  /\ running[j] = w /\ Owned(j) /\ j \in Jobs
             /\ r \in CommittedRow /\ OwnWorker(r) /\ Story(rows, r) /\ OwnTask(r.task)
             /\ r.task.item \in Items /\ JobOf[r.task.item] = j
             /\ HoldsRun(rows, r, faults) /\ Orderly(rows, j)
             /\ Counts => HeldBy(rows, r, j)
             /\ r.bound # NoExec =>
                  /\ r.bound \in Execs /\ JobOf[r.bound] = j
                  /\ rows.exec[r.bound].state # "none"
<1> DEFINE r == worker[w]
           j == r.task.job
<1>1. /\ running[j] = w /\ Owned(j) /\ j \in Jobs /\ r \in CommittedRow
      /\ OwnWorker(r) /\ OwnTask(r.task) /\ Story(rows, r)
      /\ r.pc \notin {"off", "idle"}
  BY OwnerFacts DEF Known, StoryInv, Stories
<1>2. /\ HoldsRun(rows, r, faults) /\ Orderly(rows, j)
      /\ Counts => HeldBy(rows, r, j)
  BY <1>1 DEF FollowInv, Following
<1>3. r.task.item \in Items /\ JobOf[r.task.item] = j /\ r.bound \in Execs \cup {NoExec}
  <2>1. r.task.item \in Items \cup {NoItem} /\ r.bound \in Execs \cup {NoExec}
    BY <1>1, TaskParts DEF Known
  <2> QED BY <1>1, <1>2, <2>1 DEF HoldsRun, OwnTask
<1>4. ASSUME r.bound # NoExec
      PROVE  r.bound \in Execs /\ JobOf[r.bound] = j /\ rows.exec[r.bound].state # "none"
  <2>1. r.bound \in Execs /\ JobOf[r.bound] = j
    BY <1>1, <1>3, <1>4 DEF OwnWorker
  <2>2. rows.exec[r.bound].item = r.task.item
    BY <1>1, <1>3, <1>4, IdAssumption DEF Story, InHand
  <2> HIDE DEF r, j
  <2>3. rows.exec[r.bound].state # "none"
    BY <1>3, <2>1, <2>2, IdAssumption DEF Known, StoryInv, Tidy, Columns
  <2> QED BY <2>1, <2>3
<1> QED BY <1>1, <1>2, <1>3, <1>4

\* Cancelling under an owner fails its recording: the owner holds its run as before.
LEMMA CancelHolds ==
  ASSUME NEW d, NEW c, NEW r, NEW s, NEW n, NEW m, m = 0 => n = 0, HoldsRun(d, r, n),
         c = d \/ c.job[r.task.job] \in {"failed", "deleted"},
         OnlyJob(d, c, r.task.job), c.job[r.task.job] = "deleted" => d.job[r.task.job] = "deleted",
         s.task = r.task, s.bound = r.bound \/ s.bound = NoExec, s.exec = r.exec,
         s.pc = r.pc \/ s.pc \notin {"closing"} \cup AtWork
  PROVE  HoldsRun(c, s, m)
BY DEF HoldsRun

\* A stop of a worker.
LEMMA KillRunningFollowed ==
  ASSUME Known, FollowInv, NEW q \in StopRequest, KillRunning(q)
  PROVE  FollowInv'
<1> DEFINE w == running[q.job]
           j == q.job
           e == worker[w].bound
           b == worker[w].stopped \/ ~TimedOut(w)
           x == [worker[w] EXCEPT !.stopped = b]
<1>1. w \in Workers /\ j \in Jobs /\ Owned(j) /\ worker[w].pc \in Owning /\ worker[w].task.job = j
  <2>1. w \in Workers /\ j \in Jobs /\ Owned(j)
    BY TypeParts DEF Known, KillRunning, Owned, StopRequest, RestType
  <2> QED BY <2>1 DEF Known, OwnerInv, OneOwner
<1>2. /\ \/ UNCHANGED <<rows, worker>>
         \/ /\ e # NoExec => CanCancel(rows, e)
            /\ rows' = IF e = NoExec THEN rows ELSE Cancel(rows, j, e)
            /\ Set(w, x)
      /\ UNCHANGED <<running, phase, faults>>
  BY DEF KillRunning, StopHandled, Set
<1>3. /\ worker[w] \in CommittedRow /\ Orderly(rows, j)
      /\ HoldsRun(rows, worker[w], faults) /\ (Counts => HeldBy(rows, worker[w], j))
      /\ e # NoExec => e \in Execs /\ JobOf[e] = j /\ rows.exec[e].state # "none"
  BY <1>1, OwnersExec
<1>4. SameWork(worker[w], x)
  <2> HIDE DEF b, w
  <2> QED BY <1>3 DEF CommittedRow, WorkerRow, SameWork
<1>5. worker[w].pc \in {"holding", "claimed"} => worker[w].exec = NoExec
  BY <1>1 DEF FollowInv, Fresh
<1>6. rows \in Rows /\ Tidy(rows)
  BY KnownRows
<1>7. CASE UNCHANGED <<rows, worker>>
  BY <1>2, <1>7, StillFollowed DEF FollowInv, Fresh, SameWork, Counts, Up, Starting
<1> HIDE DEF e, x, b
<1>8. CASE /\ e # NoExec => CanCancel(rows, e)
           /\ rows' = IF e = NoExec THEN rows ELSE Cancel(rows, j, e)
           /\ Set(w, x)
  <2>1. /\ Within(rows, rows', j) /\ OnlyJob(rows, rows', j) /\ Orderly(rows', j)
        /\ rows' = rows \/ rows'.job[j] \in {"failed", "deleted"}
        /\ rows'.job[j] = "deleted" => rows.job[j] = "deleted"
        /\ \A f \in Competing(rows', j) : f \in Competing(rows, j) /\ rows'.exec[f] = rows.exec[f]
    <3>1. CASE e = NoExec
      BY <1>3, <1>8, <3>1 DEF Within, OnlyJob
    <3>2. CASE e # NoExec
      <4>1. rows'.job[j] = "deleted" => rows.job[j] = "deleted"
        BY <1>1, <1>3, <1>6, <1>8, <3>2, CancelJobs DEF JobSet
      <4> QED BY <1>1, <1>3, <1>6, <1>8, <3>2, <4>1, CancelFollowed DEF Competing, ExecsOf
    <3> QED BY <3>1, <3>2
  <2>2. HoldsRun(rows', x, faults')
    <3> HIDE DEF w
    <3> QED BY <1>1, <1>2, <1>3, <1>4, <2>1, CancelHolds DEF SameWork
  <2>3. Counts => HeldBy(rows', x, j)
    <3> HIDE DEF w
    <3> QED BY <1>3, <1>4, <2>1 DEF HeldBy, SameWork, Expired
  <2>4. x.pc \in {"holding", "claimed"} => x.exec = NoExec
    BY <1>4, <1>5 DEF SameWork
  <2>5. phase' = phase /\ (Counts' => Counts) /\ (faults' = 0 => faults = 0)
    BY <1>2 DEF Counts, Up
  <2> HIDE DEF w
  <2> QED BY <1>1, <1>2, <1>8, <2>1, <2>2, <2>3, <2>4, <2>5, OwnerFollowed
<1> QED BY <1>2, <1>7, <1>8

\* An execution that awaits its dispatch is the one a stop finds in the rows.
LEMMA AwaitedIsPersisted ==
  ASSUME rows \in Rows, SingleActive(rows), NEW j \in Jobs, NEW e \in Execs, JobOf[e] = j,
         Awaits(rows, e)
  PROVE  Persisted(j) = {e}
<1> DEFINE k == rows.exec[e].item
           i == FindActive(rows, j)
<1>1. k \in ActiveItems(rows, j) /\ rows.item[k].exec = e
  BY DEF Awaits, ActiveItems, ItemsIn, ActiveStatus
<1>2. i \in ActiveItems(rows, j)
  BY <1>1 DEF FindActive, ActiveItems, ItemsIn, ActiveStatus
<1> HIDE DEF k, i
<1>3. i = k /\ i # NoItem
  BY <1>1, <1>2, IdAssumption DEF SingleActive, ActiveItems, ItemsIn
<1> QED BY <1>1, <1>3, IdAssumption DEF Persisted, i

\* A stop of a recording that nobody owns cancels what awaits dispatch.
LEMMA KillPersistedFollowed ==
  ASSUME Known, FollowInv, NEW r \in StopRequest, KillPersisted(r)
  PROVE  FollowInv'
<1> DEFINE j == r.job
           i == FindActive(rows, j)
           E == Persisted(j)
           e == CHOOSE x \in E : TRUE
           d == IF E = {} THEN rows ELSE Cancel(rows, j, e)
           b == SetJob(d, j, "failed")
           c == MarkActiveCancelled(b, j, i)
           kept == IF E # {} /\ phase = "up" THEN protected \ {j} ELSE protected
<1>1. /\ rows \in Rows /\ Sound(rows) /\ Tidy(rows) /\ SingleActive(rows)
      /\ j \in Jobs /\ i \in Items \cup {NoItem}
  BY KnownRows, FindType DEF StopRequest
<1>2. /\ ~Owned(j) /\ UNCHANGED <<running, worker, phase, faults>> /\ ~Starting
      /\ \/ rows' = rows
         \/ /\ E # {} => CanCancel(rows, e)
            /\ Cardinality(E) <= 1
            /\ Advance(c, j, FALSE, j \in kept)
  <2>1. Cardinality(E) > 1 \/ Cardinality(E) <= 1
    <3>1. IsFiniteSet(E)
      <4>1. E \subseteq Execs
        BY <1>1, PersistedOwn
      <4> QED BY <4>1, FS_Subset, IdAssumption
    <3>2. Cardinality(E) \in Nat
      BY <3>1, FS_CardinalityType
    <3> QED BY <3>2
  <2> QED BY <2>1 DEF KillPersisted, StopHandled, Serving, Starting
<1>3. i # NoItem => JobOf[i] = j
  BY <1>1, FindActiveOwn
<1>4. \A x \in E : x \in Execs /\ JobOf[x] = j /\ rows.exec[x].state # "none"
  <2>1. \A x \in E : x \in Execs /\ JobOf[x] = j
    BY <1>1, PersistedOwn
  <2>2. ASSUME NEW x \in E PROVE rows.exec[x].state # "none"
    <3>1. CASE i = NoItem
      BY <2>1, <2>2, <3>1 DEF Persisted, UnresolvedExecs, ExecsOf, Unresolved
    <3>2. CASE i # NoItem
      <4>1. x = rows.item[i].exec /\ x # NoExec
        BY <3>2 DEF Persisted
      <4>2. rows.exec[x].item = i
        BY <1>1, <3>2, <4>1 DEF Tidy, RunsAgree, Agrees
      <4> QED BY <1>1, <2>1, <3>2, <4>2 DEF Tidy, Columns
    <3> QED BY <3>1, <3>2
  <2> QED BY <2>1, <2>2
<1>5. \A f \in Competing(rows, j) : Awaits(rows, f) => E = {f}
  BY <1>1, AwaitedIsPersisted DEF Competing, ExecsOf
<1>6. Orderly(rows, j) /\ (Counts => Unheld(rows, j))
  BY <1>1, <1>2 DEF FollowInv, Following
<1> HIDE DEF i, E, j
<1>7. CASE rows' = rows
  BY <1>2, <1>7, StillFollowed DEF FollowInv, Fresh, SameWork, Counts, Up, Starting
<1>8. CASE /\ E # {} => CanCancel(rows, e)
           /\ Advance(c, j, FALSE, j \in kept)
  <2>1. /\ d \in Rows /\ Tidy(d) /\ Orderly(d, j) /\ d.item = rows.item
        /\ Within(rows, d, j) /\ OnlyJob(rows, d, j)
        /\ \A f \in Competing(d, j) :
             f \in Competing(rows, j) /\ f \notin E /\ d.exec[f] = rows.exec[f]
        /\ i # NoItem /\ rows.item[i].exec # NoExec =>
             d.exec[rows.item[i].exec].state = "cancelled"
    <3>1. CASE E = {}
      <4>1. i # NoItem => rows.item[i].exec = NoExec
        BY <3>1 DEF Persisted, i, E
      <4>2. Within(rows, rows, j) /\ OnlyJob(rows, rows, j)
        BY DEF Within, OnlyJob
      <4> QED BY <1>1, <1>6, <3>1, <4>1, <4>2
    <3>2. CASE E # {}
      <4>1. e \in E /\ e \in Execs /\ JobOf[e] = j /\ CanCancel(rows, e)
            /\ rows.exec[e].state # "none"
            /\ (i # NoItem /\ rows.item[i].exec # NoExec => e = rows.item[i].exec)
        BY <1>4, <1>8, <3>2 DEF Persisted, i, E
      <4>2. \A x \in E : x = e
        BY <1>2, <1>4, <3>2, <4>1
      <4> HIDE DEF e
      <4>3. d = Cancel(rows, j, e)
        BY <3>2
      <4> HIDE DEF d
      <4>4. /\ d \in Rows /\ Tidy(d) /\ Orderly(d, j) /\ d.item = rows.item
            /\ Within(rows, d, j) /\ OnlyJob(rows, d, j)
            /\ Competing(d, j) = Competing(rows, j) \ {e}
            /\ \A f \in Execs : f # e => d.exec[f] = rows.exec[f]
        BY <1>1, <1>6, <4>1, <4>3, CancelFollowed
      <4>5. d.exec[e].state = "cancelled"
        BY <1>1, <4>1, <4>3, CancelProper
      <4>6. \A f \in Competing(d, j) :
              f \in Competing(rows, j) /\ f \notin E /\ d.exec[f] = rows.exec[f]
        BY <4>2, <4>4 DEF Competing, ExecsOf
      <4> QED BY <4>1, <4>4, <4>5, <4>6
    <3> QED BY <3>1, <3>2
  <2> HIDE DEF d, e
  <2>2. /\ b \in Rows /\ b.item = d.item /\ b.exec = d.exec /\ Tidy(b)
        /\ OnlyJob(d, b, j) /\ b.job[j] \in {"failed", "deleted"}
    <3>1. "failed" \in JobStatus
      BY DEF JobStatus
    <3>2. b.item = d.item /\ b.exec = d.exec /\ b \in Rows /\ JobSet(d, b, j, "failed")
      BY <1>1, <2>1, <3>1, SetJobLemma, SetJobMoves, SetJobRow
    <3> QED BY <2>1, <3>2, StillProper DEF Proper, JobSet
  <2> HIDE DEF b
  <2>3. i # NoItem /\ b.item[i].exec # NoExec => b.exec[b.item[i].exec].state = "cancelled"
    BY <2>1, <2>2
  <2>4. /\ c \in Rows /\ Tidy(c) /\ Moves(b, c, j)
        /\ \A k \in Items : c.item[k] # b.item[k] =>
             b.item[k].status \in ActiveStatus /\ c.item[k].exec = b.item[k].exec
    BY <1>1, <1>3, <2>2, <2>3, MarkActiveCancelledLemma, MarkActiveCancelledMoves,
       MarkActiveCancelledProper DEF Proper
  <2>5. OnlyJob(b, c, j) /\ c.job[j] \in {"failed", "deleted"}
    <3>1. OnlyJob(b, b, j)
      BY DEF OnlyJob
    <3> QED BY <1>1, <2>2, <3>1, MarkActiveCancelledJobs DEF JobSet
  <2> HIDE DEF c
  <2>6. /\ c.exec = d.exec
        /\ \A k \in Items : JobOf[k] = j =>
             /\ d.item[k].exec # NoExec => c.item[k].exec = d.item[k].exec
             /\ d.item[k].status = "gone" => c.item[k].status = "gone"
    BY <2>2, <2>4 DEF Moves, ActiveStatus
  <2>7. Orderly(c, j) /\ Competing(c, j) = Competing(d, j)
    BY <1>1, <2>1, <2>5, <2>6, EndsItem
  <2>8. Counts => Unheld(c, j)
    BY <1>5, <1>6, <2>1, <2>6, <2>7 DEF Unheld, Expired
  <2> HIDE DEF kept
  <2>9. /\ Orderly(rows', j) /\ (Unheld(c, j) => Unheld(rows', j))
        /\ Moves(c, rows', j) /\ OnlyJob(c, rows', j)
    BY <1>1, <1>8, <2>4, <2>7, AdvanceFollowed, AdvanceOwn, AdvanceJobs
  <2>10. Within(rows, rows', j)
    <3>1. Within(rows, b, j)
      BY <2>1, <2>2 DEF Within
    <3> QED BY <2>4, <2>9, <3>1, KeepThenMove
  <2>11. OnlyJob(rows, rows', j)
    BY <2>1, <2>2, <2>5, <2>9 DEF OnlyJob
  <2> QED BY <1>1, <1>2, <2>8, <2>9, <2>10, <2>11, OneFollowed
<1> QED BY <1>2, <1>7, <1>8

\* A resume of a recording that nobody owns admits an execution and its run.
LEMMA ResumeFollowed ==
  ASSUME Known, FollowInv, NEW j \in Jobs, NEW e \in Execs, ResumeExecution(j, e)
  PROVE  FollowInv'
<1> DEFINE i == rows.exec[e].item
<1>1. rows \in Rows /\ Sound(rows) /\ Tidy(rows)
  BY KnownRows
<1>2. /\ ~Owned(j) /\ UNCHANGED <<running, worker, phase, faults>> /\ ~Starting /\ JobOf[e] = j
      /\ \/ rows' = rows
         \/ Resumable(rows, j, e) /\ rows' = RequestResume(rows, j, e)
  BY DEF ResumeExecution, Admitting, Starting
<1>3. Orderly(rows, j)
  BY DEF FollowInv, Following
<1>4. CASE rows' = rows
  BY <1>2, <1>4, StillFollowed DEF FollowInv, Fresh, SameWork, Counts, Up, Starting
<1>5. CASE Resumable(rows, j, e) /\ rows' = RequestResume(rows, j, e)
  <2>1. rows.exec[e].state # "none" /\ Competing(rows, j) \subseteq {e} /\ rows.job[j] # "deleted"
    BY <1>5 DEF Resumable
  <2>2. i \in Items /\ JobOf[i] = j /\ i # NoItem
    BY <1>2, <1>3, <2>1, IdAssumption DEF Orderly, Born, ExecsOf, Begun
  <2>3. rows.item[i].exec = e
    BY <1>5, <2>2 DEF Resumable, HoldsItem
  <2>4. /\ \A k \in Items : k # i => rows'.item[k] = rows.item[k]
        /\ rows'.item[i].status = "pending" /\ rows'.item[i].exec = e
        /\ rows'.exec[e].state = "pending" /\ rows'.exec[e].status = "pending"
        /\ rows'.exec[e].item = i
        /\ \A k \in Execs : k # e => rows'.exec[k] = rows.exec[k]
    BY <1>1, <1>2, <1>5, <2>2, RequestResumeFinal
  <2>5. OnlyJob(rows, rows', j) /\ rows'.job[j] = "pending"
    BY <1>1, <1>5, <2>1, RequestResumeJobs DEF JobSet
  <2> HIDE DEF i
  <2>6. Within(rows, rows', j)
    BY <1>2, <2>2, <2>4 DEF Within
  <2>7. Waits(rows', j)
    BY <2>2, <2>4 DEF Waits, Ready
  <2>8. Born(rows', j)
    <3>1. \A f \in Execs : JobOf[f] = j =>
            /\ Paired(rows'.exec[f])
            /\ rows'.exec[f].state # "none" =>
                 rows.exec[f].state # "none" /\ rows'.exec[f].item = rows.exec[f].item
      BY <1>3, <2>1, <2>4 DEF Orderly, Born, ExecsOf, Paired, i
    <3>2. \A k \in Items : JobOf[k] = j =>
            /\ rows.item[k].exec # NoExec => rows'.item[k].exec = rows.item[k].exec
            /\ rows.item[k].status = "gone" => rows'.item[k].status = "gone"
      <4>1. rows.item[i].status # "gone"
        BY <1>1, <2>2, <2>3, IdAssumption DEF Tidy, RunsAgree, Agrees
      <4> QED BY <2>3, <2>4, <4>1
    <3> QED BY <1>3, <3>1, <3>2, StillBorn DEF Orderly
  <2>9. Awaits(rows', e)
    BY <1>2, <2>2, <2>4, <2>5 DEF Awaits
  <2>10. Unheld(rows', j)
    BY <2>1, <2>4, <2>9 DEF Unheld, Competing, ExecsOf
  <2> QED BY <1>2, <2>5, <2>6, <2>7, <2>8, <2>10, OneFollowed DEF Orderly
<1> QED BY <1>2, <1>4, <1>5

-----------------------------------------------------------------------------
\* A worker that receives an entry, or exits, owns nothing.
LEMMA ReceiveFollowed ==
  ASSUME Known, FollowInv, NEW w \in Workers, Receive(w) \/ WorkerExit(w)
  PROVE  FollowInv'
<1> DEFINE t == Head(channel)
           x == [IdleWorker EXCEPT !.pc = "holding", !.task = t, !.seen = rows.job[t.job]]
<1>1. worker[w].pc \notin Owning
  BY DEF Receive, WorkerExit, Owning, Pc
<1>2. UNCHANGED <<rows, running, phase, faults>>
  BY DEF Receive, WorkerExit
<1>3. \/ worker' = worker
      \/ \E r \in {x, OffWorker} : Set(w, r)
  BY DEF Receive, WorkerExit
<1>4. x.exec = NoExec /\ OffWorker.exec = NoExec
  BY DEF IdleWorker, OffWorker
<1> HIDE DEF x
<1>5. \A v \in Workers : worker'[v] = worker[v] \/ (v = w /\ worker'[v].exec = NoExec)
  <2>1. worker \in [Workers -> CommittedRow]
    BY DEF Known, TypeInv
  <2> QED BY <1>3, <1>4, <2>1 DEF Set
<1> QED BY <1>1, <1>2, <1>5, StillFollowed DEF FollowInv, Fresh, SameWork, Counts, Up, Starting

\* The entry a worker claims names the run that is to be dispatched, and its execution.
LEMMA ClaimedEntry ==
  ASSUME Known, FollowInv, NEW w \in Workers, worker[w].pc = "holding", Takes(w)
  PROVE  LET t == worker[w].task
             j == t.job
             i == t.item
         IN  /\ j \in Jobs /\ i \in Items /\ JobOf[i] = j /\ CanClaimItem(rows, j, i)
             /\ rows.item[i].exec = t.exec /\ t.exec \in Execs \cup {NoExec}
             /\ t.exec # NoExec => JobOf[t.exec] = j /\ rows.exec[t.exec].state = "pending"
<1> DEFINE t == worker[w].task
           j == t.job
           i == t.item
<1>1. /\ rows \in Rows /\ Sound(rows) /\ Tidy(rows) /\ SingleActive(rows)
      /\ j \in Jobs /\ i \in Items \cup {NoItem} /\ t.exec \in Execs \cup {NoExec}
      /\ OwnTask(t)
  <2>1. OwnWorker(worker[w])
    BY DEF Known, BindInv, OwnWorkers
  <2> QED BY <2>1, KnownRows, TaskParts DEF Known, OwnWorker
<1>2. /\ rows.job[j] = "pending" /\ Waits(rows, j) /\ Born(rows, j)
      /\ i # NoItem => CanClaimItem(rows, j, i)
      /\ i = NoItem => FindPending(rows, j) = NoItem
  BY <1>1 DEF Takes, Claimable, CanClaimItem, FollowInv, Following, Orderly
<1>3. PICK k \in Items : JobOf[k] = j /\ Ready(rows, k)
  BY <1>2 DEF Waits
<1>4. i # NoItem
  <2>1. k \in ItemsIn(rows, j, {"pending"})
    BY <1>3 DEF Ready, ItemsIn
  <2>2. FindPending(rows, j) \in Items
    BY <2>1 DEF FindPending, ItemsIn
  <2> QED BY <1>2, <2>2, IdAssumption
<1>5. t \in scheduled
  BY DEF Known, DispatchInv, NoDoubleDispatch, Held
<1> HIDE DEF t
<1>6. i \in Items /\ JobOf[i] = j /\ CanClaimItem(rows, j, i) /\ rows.item[i].status = "pending"
  BY <1>1, <1>2, <1>4 DEF CanClaimItem
<1>7. k = i
  <2>1. k \in ActiveItems(rows, j) /\ i \in ActiveItems(rows, j)
    BY <1>3, <1>6 DEF Ready, ActiveItems, ItemsIn, ActiveStatus
  <2> QED BY <1>1, <2>1 DEF SingleActive
<1>8. rows.item[i].exec = t.exec
  <2>1. TidyTask(rows, t)
    BY <1>5 DEF Known, StoryInv, TidyTasks
  <2>2. CASE t.exec = NoExec
    BY <1>4, <2>1, <2>2 DEF TidyTask, Unbound
  <2>3. CASE t.exec # NoExec
    <3>1. t.exec \in Execs /\ JobOf[t.exec] = j /\ rows.exec[t.exec].item = i
      BY <1>1, <1>4, <2>1, <2>3 DEF TidyTask, OwnTask
    <3>2. rows.exec[t.exec].state # "none"
      BY <1>1, <1>4, <3>1 DEF Tidy, Columns
    <3> QED BY <1>2, <1>6, <3>1, <3>2 DEF Born, ExecsOf, Begun
  <2> QED BY <2>2, <2>3
<1>9. t.exec # NoExec => JobOf[t.exec] = j /\ rows.exec[t.exec].state = "pending"
  BY <1>1, <1>3, <1>7, <1>8 DEF OwnTask, Ready
<1> QED BY <1>1, <1>6, <1>8, <1>9 DEF t

\* A worker that takes a run in hand owns its recording and what awaited dispatch.
LEMMA ClaimFollowed ==
  ASSUME Known, FollowInv, NEW w \in Workers, Claim(w)
  PROVE  FollowInv'
<1> DEFINE t == worker[w].task
           j == t.job
           i == t.item
           x == [worker[w] EXCEPT !.pc = "claimed", !.bound = t.exec]
<1>1. /\ worker[w].pc = "holding" /\ worker[w] \in CommittedRow
      /\ UNCHANGED <<phase, faults>> /\ ~Starting /\ w # 0 /\ 0 \notin Workers
      /\ worker \in [Workers -> CommittedRow]
  BY TypeParts DEF Claim, Starting, Workers, Known
<1>2. CASE ~Takes(w)
  <2>1. UNCHANGED <<rows, running>> /\ Set(w, IdleWorker)
    BY <1>2 DEF Claim, Drop
  <2>2. \A v \in Workers : IF v = w THEN worker'[v].exec = NoExec ELSE worker'[v] = worker[v]
    BY <1>1, <2>1 DEF Set, IdleWorker, OffWorker
  <2> QED BY <1>1, <2>1, <2>2, StillFollowed
          DEF FollowInv, Fresh, SameWork, Counts, Up, Starting, Owning, Pc
<1>3. CASE Takes(w)
  <2>1. /\ j \in Jobs /\ i \in Items /\ JobOf[i] = j /\ CanClaimItem(rows, j, i)
        /\ rows.item[i].exec = t.exec /\ t.exec \in Execs \cup {NoExec}
        /\ t.exec # NoExec => JobOf[t.exec] = j /\ rows.exec[t.exec].state = "pending"
    BY <1>1, <1>3, ClaimedEntry
  <2>2. /\ Set(w, x) /\ ~Owned(j) /\ running' = [running EXCEPT ![j] = w]
        /\ rows' = ClaimItem(rows, j, i) /\ rows.job[j] = "pending"
    BY <1>3, <2>1, IdAssumption DEF Claim, Takes, CanClaimItem
  <2>3. /\ rows \in Rows /\ Sound(rows) /\ Tidy(rows) /\ SingleActive(rows)
        /\ running \in [Jobs -> Workers \cup {0}]
    BY KnownRows, TypeParts DEF Known, RestType
  <2>4. x.pc = "claimed" /\ x.bound = t.exec /\ x.task = t /\ x.exec = NoExec
    <3>1. worker[w].exec = NoExec
      BY <1>1 DEF FollowInv, Fresh
    <3> QED BY <1>1, <3>1 DEF CommittedRow, WorkerRow
  <2> HIDE DEF x, t
  <2>5. /\ rows'.exec = rows.exec /\ rows'.item[i].exec = rows.item[i].exec
        /\ \A k \in Items : k # i => rows'.item[k] = rows.item[k]
        /\ rows.item[i].status = "pending" /\ rows'.item[i].status = "processing"
    BY <2>1, <2>2, <2>3, ClaimItemTidy DEF CanClaimItem
  <2>6. OnlyJob(rows, rows', j) /\ rows'.job[j] = "processing"
    BY <2>1, <2>2, <2>3, ClaimItemJobs DEF JobSet
  <2>7. Within(rows, rows', j)
    BY <2>1, <2>5 DEF Within
  <2>8. Orderly(rows', j)
    <3>1. Orderly(rows, j)
      BY <2>1 DEF FollowInv, Following
    <3>2. \A k \in Items : JobOf[k] = j =>
            /\ rows.item[k].exec # NoExec => rows'.item[k].exec = rows.item[k].exec
            /\ rows.item[k].status = "gone" => rows'.item[k].status = "gone"
      BY <2>5
    <3>3. rows'.job[j] # "pending"
      BY <2>6
    <3> QED BY <2>1, <2>3, <2>5, <3>1, <3>2, <3>3, EndsItem
  <2>9. HoldsRun(rows', x, faults')
    BY <2>1, <2>4, <2>5, <2>6, IdAssumption DEF HoldsRun, AtWork, EndedAs
  <2>10. Counts' => HeldBy(rows', x, j)
    <3> SUFFICES ASSUME Counts', NEW e \in Competing(rows', j)
                 PROVE  \/ Expired(rows', e)
                        \/ e = t.exec /\ rows'.exec[e].state = "pending"
      BY <2>4 DEF HeldBy
    <3>1. e \in Execs /\ JobOf[e] = j /\ (Expired(rows, e) \/ Awaits(rows, e))
      BY <1>1, <2>1, <2>2, <2>5 DEF FollowInv, Following, Counts, Up, Unheld, Competing, ExecsOf
    <3>2. ASSUME Awaits(rows, e) PROVE e = t.exec /\ rows.exec[e].state = "pending"
      <4>1. rows.exec[e].item \in ActiveItems(rows, j) /\ i \in ActiveItems(rows, j)
        BY <2>1, <2>5, <3>1, <3>2 DEF Awaits, ActiveItems, ItemsIn, ActiveStatus
      <4>2. rows.exec[e].item = i
        BY <2>1, <2>3, <4>1 DEF SingleActive
      <4> QED BY <2>1, <3>2, <4>2 DEF Awaits
    <3> QED BY <2>5, <3>1, <3>2 DEF Expired
  <2>11. \A v \in Workers : worker'[v] = IF v = w THEN x ELSE worker[v]
    BY <1>1, <2>2 DEF Set
  <2>12. \A k \in Jobs : running'[k] = IF k = j THEN w ELSE running[k]
    BY <2>2, <2>3
  <2>13. Fresh'
    BY <2>4, <2>11 DEF FollowInv, Fresh
  <2>14. ASSUME NEW k \in Jobs PROVE Following(k)'
    <3>1. CASE k = j
      BY <1>1, <2>1, <2>8, <2>9, <2>10, <2>11, <2>12, <3>1 DEF Following, Owned, Starting
    <3>2. CASE k # j
      <4>1. Alike(rows, rows', k)
        BY <2>1, <2>6, <2>7, <3>2, AlikeWithin
      <4>2. ASSUME Owned(k) PROVE SameWork(worker[running[k]], worker'[running[k]])
        <5>1. running[k] \in Workers /\ worker[running[k]].pc \in Owning
          BY <2>3, <4>2 DEF Owned, Known, OwnerInv, OneOwner
        <5>2. running[k] # w
          BY <1>1, <5>1 DEF Owning, Pc
        <5> QED BY <2>11, <5>1, <5>2 DEF SameWork
      <4> QED BY <1>1, <2>12, <3>2, <4>1, <4>2, LeftAlone DEF FollowInv, Counts, Up, Starting
    <3> QED BY <3>1, <3>2
  <2> QED BY <2>13, <2>14 DEF FollowInv
<1> QED BY <1>2, <1>3

\* Begin writes the row of one execution and binds the run it is begun for.
LEMMA BeginWrites ==
  ASSUME NEW d \in Rows, NEW i \in Items, NEW e \in Execs, NEW x \in Deadline
  PROVE  LET c == Begin(d, i, e, x)
         IN  /\ c.exec[e].item = i /\ c.exec[e].state = "running"
             /\ c.exec[e].status = "processing" /\ c.item[i].exec = e
             /\ \A f \in Execs : f # e => c.exec[f] = d.exec[f]
             /\ \A k \in Items : k # i => c.item[k] = d.item[k]
             /\ \A k \in Items : c.item[k].status = d.item[k].status
<1> DEFINE r == [item |-> i, gen |-> 1, state |-> "running", status |-> "processing",
                 deadline |-> x, budget |-> "left"]
           b == [d EXCEPT !.exec[e] = r]
           q == [b.item[i] EXCEPT !.exec = e]
           c == Begin(d, i, e, x)
<1>1. r.item = i /\ r.state = "running" /\ r.status = "processing" /\ r \in ExecRow
  BY DEF ExecRow, ExecState, ExecStatus, Budget
<1>2. c = [b EXCEPT !.item[i] = q]
  BY IdAssumption DEF Begin, BindExecution
<1> HIDE DEF r, c
<1>3. b.exec[e] = r /\ (\A f \in Execs : f # e => b.exec[f] = d.exec[f]) /\ b.item = d.item
  BY ExecutionRow
<1>4. b \in Rows
  BY <1>1 DEF Rows
<1> HIDE DEF b
<1>5. q.status = b.item[i].status /\ q.exec = e
  BY <1>4 DEF Rows, ItemRow
<1> HIDE DEF q
<1>6. /\ c.item[i] = q /\ \A k \in Items : k # i => c.item[k] = b.item[k]
      /\ c.exec = b.exec
  BY <1>2, <1>4, RunRow, SMTT(30)
<1> QED BY <1>1, <1>3, <1>5, <1>6 DEF c

\* An execution begins for the run in hand, when none counts as its owner.
LEMMA BeginFollowed ==
  ASSUME Known, FollowInv, NEW w \in Workers, NEW e \in Execs, BeginRun(w, e)
  PROVE  FollowInv'
<1> DEFINE t == worker[w].task
           j == t.job
           i == t.item
           dl == IF e \in Timed THEN "ahead" ELSE "unset"
           x == [worker[w] EXCEPT !.pc = "begun", !.exec = e, !.gen = 1]
<1>1. worker[w].pc = "claimed" /\ worker[w].pc \in Owning /\ worker[w] \in CommittedRow
  BY TypeParts DEF BeginRun, Processing, Owning, Pc, Known
<1>2. /\ running' = running /\ phase' = phase /\ faults' = faults /\ Set(w, x)
      /\ t.exec = NoExec /\ JobOf[e] = j /\ rows.exec[e].state = "none"
      /\ CanBegin(rows, j, i, e) /\ rows' = Begin(rows, i, e, dl)
  BY DEF BeginRun, Processing
<1>3. /\ rows \in Rows /\ j \in Jobs /\ i \in Items /\ JobOf[i] = j
      /\ HoldsRun(rows, worker[w], faults) /\ Orderly(rows, j)
      /\ worker[w].bound = NoExec
  BY <1>1, <1>2, OwnersExec, KnownRows DEF Story, AsClaimed
<1>4. x.pc = "begun" /\ x.task = t /\ x.bound = NoExec /\ x.exec = e
  BY <1>1, <1>3 DEF CommittedRow, WorkerRow
<1>5. dl \in Deadline
  BY DEF Deadline
<1> HIDE DEF x, dl, t
<1>6. /\ rows.job[j] = "processing" /\ Competing(rows, j) = {}
      /\ rows.item[i].status = "processing" /\ rows.item[i].exec \in {NoExec, e}
  BY <1>2, <1>3, IdAssumption DEF CanBegin, CanBind
<1>7. /\ rows'.exec[e].item = i /\ rows'.exec[e].state = "running"
      /\ rows'.exec[e].status = "processing" /\ rows'.item[i].exec = e
      /\ \A f \in Execs : f # e => rows'.exec[f] = rows.exec[f]
      /\ \A k \in Items : k # i => rows'.item[k] = rows.item[k]
      /\ \A k \in Items : rows'.item[k].status = rows.item[k].status
  BY <1>2, <1>3, <1>5, BeginWrites
<1>8. rows'.job = rows.job
  BY <1>2, <1>3, BeginJobs
<1>9. Within(rows, rows', j) /\ OnlyJob(rows, rows', j)
  BY <1>2, <1>3, <1>7, <1>8 DEF Within, OnlyJob
<1>10. Orderly(rows', j)
  <2>1. Born(rows', j)
    <3> SUFFICES ASSUME NEW f \in Execs, JobOf[f] = j
                 PROVE  /\ Paired(rows'.exec[f])
                        /\ rows'.exec[f].state # "none" => Begun(rows', f)
      BY DEF Born, ExecsOf
    <3>1. CASE f = e
      BY <1>3, <1>7, <3>1 DEF Paired, Begun
    <3>2. CASE f # e
      <4>1. Paired(rows.exec[f]) /\ (rows.exec[f].state # "none" => Begun(rows, f))
        BY <1>3 DEF Orderly, Born, ExecsOf
      <4>2. f # NoExec
        BY IdAssumption
      <4> QED BY <1>6, <1>7, <3>2, <4>1, <4>2 DEF Begun
    <3> QED BY <3>1, <3>2
  <2> QED BY <1>6, <1>8, <2>1 DEF Orderly, Waits
<1>11. HoldsRun(rows', x, faults')
  BY <1>3, <1>4, <1>6, <1>7, <1>8 DEF HoldsRun, EndedAs, t
<1>12. HeldBy(rows', x, j)
  BY <1>4, <1>6, <1>7 DEF HeldBy, AtWork, Competing, ExecsOf
<1> QED BY <1>1, <1>2, <1>4, <1>9, <1>10, <1>11, <1>12, OwnerFollowed DEF t

\* The worker takes over the resume it was handed.
LEMMA TakeFollowed ==
  ASSUME Known, FollowInv, NEW w \in Workers, TakeResume(w)
  PROVE  FollowInv'
<1> DEFINE t == worker[w].task
           j == t.job
           e == t.exec
           x == [worker[w] EXCEPT !.pc = "begun", !.exec = e, !.gen = rows.exec[e].gen]
<1>1. worker[w].pc = "claimed" /\ worker[w].pc \in Owning /\ worker[w] \in CommittedRow
  BY TypeParts DEF TakeResume, Processing, Owning, Pc, Known
<1>2. /\ running' = running /\ phase' = phase /\ faults' = faults /\ Set(w, x)
      /\ e # NoExec /\ CanClaimResume(rows, e) /\ rows' = ClaimResume(rows, e)
  BY DEF TakeResume, Processing
<1>3. /\ rows \in Rows /\ j \in Jobs
      /\ HoldsRun(rows, worker[w], faults) /\ Orderly(rows, j)
      /\ Counts => HeldBy(rows, worker[w], j)
      /\ worker[w].bound = e /\ e \in Execs /\ JobOf[e] = j
  BY <1>1, <1>2, OwnersExec, KnownRows DEF Story, AsClaimed
<1>4. x.pc = "begun" /\ x.task = t /\ x.bound = e /\ x.exec = e
  BY <1>1, <1>3 DEF CommittedRow, WorkerRow
<1> HIDE DEF x
<1>5. /\ rows'.exec[e].item = rows.exec[e].item /\ rows'.exec[e].state = "running"
      /\ rows'.exec[e].status = "processing"
      /\ \A f \in Execs : f # e => rows'.exec[f] = rows.exec[f]
      /\ rows'.item = rows.item /\ rows'.job = rows.job
  <2>1. "running" \in ExecState /\ "processing" \in ExecStatus
    BY DEF ExecState, ExecStatus
  <2>2. rows' = SetExec(rows, e, "running", "processing")
    BY <1>2 DEF ClaimResume
  <2> HIDE DEF e
  <2> QED BY <1>3, <2>1, <2>2, SetExecRow, SMTT(30)
<1>6. rows.exec[e].state = "pending"
  BY <1>2 DEF CanClaimResume
<1>7. Within(rows, rows', j) /\ OnlyJob(rows, rows', j)
  BY <1>3, <1>5 DEF Within, OnlyJob
<1>8. rows.job[j] # "pending"
  BY <1>3 DEF HoldsRun
<1> HIDE DEF t
<1>9. Orderly(rows', j)
  <2>1. \A f \in Execs : JobOf[f] = j =>
          /\ Paired(rows'.exec[f])
          /\ rows'.exec[f].state # "none" =>
               rows.exec[f].state # "none" /\ rows'.exec[f].item = rows.exec[f].item
    BY <1>3, <1>5, <1>6 DEF Orderly, Born, ExecsOf, Paired
  <2>2. Born(rows', j)
    BY <1>3, <1>5, <2>1, StillBorn DEF Orderly
  <2> QED BY <1>5, <1>8, <2>2 DEF Orderly, Waits
<1>10. HoldsRun(rows', x, faults')
  BY <1>3, <1>4, <1>5 DEF HoldsRun, EndedAs, t
<1>11. Counts => HeldBy(rows', x, j)
  BY <1>1, <1>3, <1>4, <1>5 DEF HeldBy, AtWork, Competing, ExecsOf, Expired, t
<1>12. Counts' => Counts
  BY <1>2 DEF Counts, Up
<1> QED BY <1>1, <1>2, <1>4, <1>7, <1>9, <1>10, <1>11, <1>12, OwnerFollowed DEF t

\* A worker refuses what it claimed only when nothing is left that would count, or
\* after a failed read.
LEMMA RefuseFollowed ==
  ASSUME Known, FollowInv, NEW w \in Workers, Refuse(w)
  PROVE  FollowInv'
<1> DEFINE r == worker[w]
           t == r.task
           j == t.job
           e == t.exec
           x == [r EXCEPT !.pc = "returned", !.result = "error"]
<1>1. r.pc = "claimed" /\ r.pc \in Owning /\ r \in CommittedRow
  BY TypeParts DEF Refuse, Processing, Owning, Pc, Known
<1>2. /\ running' = running /\ phase' = phase /\ Set(w, x)
      /\ \/ Refused(w) /\ faults' = faults
         \/ faults' = faults + 1
      /\ \/ e # NoExec /\ CanExpire(rows, j, e) /\ rows' = ExpirePending(rows, j, e)
         \/ rows' = rows
  BY DEF Refuse, Processing, Returned, ExpiresUnclaimed
<1>3. /\ rows \in Rows /\ j \in Jobs /\ Tidy(rows)
      /\ HoldsRun(rows, r, faults) /\ Orderly(rows, j)
      /\ Counts => HeldBy(rows, r, j)
      /\ r.bound = e /\ InHand(rows, r)
      /\ e # NoExec => e \in Execs /\ JobOf[e] = j /\ rows.exec[e].state # "none"
  BY <1>1, OwnersExec, KnownRows DEF Story, AsClaimed
<1>4. x.pc = "returned" /\ x.task = t /\ x.bound = e /\ x.exec = r.exec
  BY <1>1, <1>3 DEF CommittedRow, WorkerRow
<1>5. r.exec = NoExec /\ faults \in Nat
  BY <1>1, TypeParts DEF FollowInv, Fresh, Known, RestType
<1> HIDE DEF x
<1>6. faults' = 0 => faults = 0 /\ Refused(w)
  BY <1>2, <1>5
<1>7. Counts' => \A f \in Competing(rows, j) : Expired(rows, f)
  <2> SUFFICES ASSUME Counts', NEW f \in Competing(rows, j), ~Expired(rows, f)
               PROVE  FALSE
    OBVIOUS
  <2>1. Refused(w) /\ HeldBy(rows, r, j) /\ phase # "draining"
    BY <1>2, <1>3, <1>6 DEF Counts, Up
  <2>2. f = e /\ rows.exec[f].state = "pending" /\ f \in Execs /\ JobOf[f] = j
    BY <1>1, <2>1 DEF HeldBy, AtWork, Competing, ExecsOf
  <2>3. rows.exec[f].status = "pending"
    <3>1. rows.exec[f].status \in ActiveStatus
      BY DEF Competing
    <3> QED BY <1>3, <2>2, <3>1 DEF Orderly, Born, ExecsOf, Paired, ActiveStatus
  <2>4. CanClaimResume(rows, e) /\ e # NoExec
    BY <2>2, <2>3, IdAssumption DEF CanClaimResume
  <2>5. ~TimedOut(w)
    BY <1>3, <1>5, <2>2, IdAssumption DEF TimedOut
  <2>6. ~r.stopped
    BY <1>3, <2>2, <2>4 DEF InHand
  <2>7. ~CtxDone(w)
    BY <2>1, <2>5, <2>6 DEF CtxDone, CtxErrors
  <2> QED BY <2>1, <2>4, <2>7 DEF Refused
<1> HIDE DEF r
<1>8. CASE rows' = rows
  <2>1. Within(rows, rows', j) /\ OnlyJob(rows, rows', j)
    BY <1>8 DEF Within, OnlyJob
  <2>2. HoldsRun(rows', x, faults')
    BY <1>3, <1>4, <1>6, <1>8, <2>1, CancelHolds DEF AtWork
  <2>3. Counts' => HeldBy(rows', x, j)
    BY <1>7, <1>8 DEF HeldBy
  <2> QED BY <1>1, <1>2, <1>3, <1>4, <1>6, <1>8, <2>1, <2>2, <2>3, OwnerFollowed DEF r
<1>9. CASE e # NoExec /\ CanExpire(rows, j, e) /\ rows' = ExpirePending(rows, j, e)
  <2>1. e \in Execs /\ JobOf[e] = j /\ HoldsItem(rows, e, ActiveStatus)
    BY <1>3, <1>9 DEF CanExpire
  <2> HIDE DEF e
  <2>2. EndsExec(rows, rows', j, e) /\ rows'.job[j] \in {"failed", "deleted"}
    <3>1. "failed" \in {"completed", "failed"}
      OBVIOUS
    <3> QED BY <1>3, <1>9, <2>1, <3>1, FinishEnds
  <2>3. Orderly(rows', j) /\ Competing(rows', j) = Competing(rows, j) \ {e}
    BY <1>3, <1>9, <2>1, <2>2, EndsOrderly
  <2>4. /\ Within(rows, rows', j) /\ OnlyJob(rows, rows', j)
        /\ rows'.job[j] = "deleted" => rows.job[j] = "deleted"
    <3>1. Keeps(rows, rows', j)
      BY <1>3, <1>9, <2>1, ExpirePendingKeepsFinal
    <3>2. JobSet(rows, rows', j, "failed")
      BY <1>3, <1>9, <2>1, ExpirePendingJobs
    <3> QED BY <2>2, <3>1, <3>2 DEF Keeps, JobSet
  <2>5. HoldsRun(rows', x, faults')
    BY <1>3, <1>4, <1>6, <2>2, <2>4, CancelHolds DEF AtWork
  <2>6. Counts' => HeldBy(rows', x, j)
    BY <1>7, <2>2, <2>3 DEF HeldBy, Expired, EndsExec, Competing, ExecsOf
  <2> QED BY <1>1, <1>2, <1>3, <1>4, <1>6, <2>3, <2>4, <2>5, <2>6, OwnerFollowed DEF r
<1> QED BY <1>2, <1>8, <1>9

\* A processor that gives up cancels what it has begun.
LEMMA GivesUpFollowed ==
  ASSUME Known, FollowInv, NEW w \in Workers, worker[w].pc \in AtWork,
         NEW x, Set(w, x), x.pc = "returned", x.task = worker[w].task,
         x.bound = worker[w].bound, x.exec = worker[w].exec,
         UNCHANGED <<running, phase, faults>>,
         rows' = IF CanCancel(rows, worker[w].exec)
                 THEN Cancel(rows, worker[w].task.job, worker[w].exec) ELSE rows
  PROVE  FollowInv'
<1> DEFINE r == worker[w]
           j == r.task.job
           e == r.exec
<1>1. r.pc \in Owning /\ r \in CommittedRow
  BY TypeParts DEF AtWork, Owning, Pc, Known
<1>2. /\ rows \in Rows /\ j \in Jobs /\ Tidy(rows)
      /\ HoldsRun(rows, r, faults) /\ Orderly(rows, j)
      /\ Counts => HeldBy(rows, r, j)
      /\ e \in Execs /\ JobOf[e] = j /\ rows.exec[e].state # "none"
  <2>1. e \in Execs
    BY <1>1 DEF CommittedRow, AtWork
  <2>2. OwnWorker(r) /\ Story(rows, r)
    BY <1>1, OwnersExec
  <2>3. OwnOrCancelled(rows, e, r.gen) /\ JobOf[e] = j
    BY <1>1, <2>2 DEF Story, AsBegun, AsBound, OwnWorker, AtWork, Owning, Pc
  <2>4. rows.exec[e].state # "none"
    BY <2>3 DEF OwnOrCancelled
  <2> QED BY <1>1, <2>1, <2>3, <2>4, OwnersExec, KnownRows
<1> HIDE DEF r
<1>3. /\ Within(rows, rows', j) /\ OnlyJob(rows, rows', j) /\ Orderly(rows', j)
      /\ rows' = rows \/ rows'.job[j] \in {"failed", "deleted"}
      /\ rows'.job[j] = "deleted" => rows.job[j] = "deleted"
      /\ \A f \in Competing(rows', j) :
           f \in Competing(rows, j) /\ f # e /\ rows'.exec[f] = rows.exec[f]
  <2>1. CASE ~CanCancel(rows, e)
    <3>1. rows' = rows /\ rows.exec[e].status = "completed"
      BY <2>1 DEF CanCancel, r
    <3>2. e \notin Competing(rows, j)
      BY <3>1 DEF Competing, ActiveStatus
    <3> QED BY <1>2, <3>1, <3>2 DEF Within, OnlyJob
  <2>2. CASE CanCancel(rows, e)
    <3>1. rows' = Cancel(rows, j, e)
      BY <2>2 DEF r
    <3> HIDE DEF e, j
    <3>2. rows'.job[j] = "deleted" => rows.job[j] = "deleted"
      BY <1>2, <3>1, CancelJobs DEF JobSet
    <3> QED BY <1>2, <2>2, <3>1, <3>2, CancelFollowed DEF Competing, ExecsOf
  <2> QED BY <2>1, <2>2
<1>4. HoldsRun(rows', x, faults')
  BY <1>2, <1>3, CancelHolds DEF AtWork, r
<1>5. Counts => HeldBy(rows', x, j)
  <2>1. r.pc # "claimed"
    BY DEF AtWork, r
  <2> QED BY <1>2, <1>3, <2>1 DEF HeldBy, Expired
<1>6. Counts' => Counts
  BY DEF Counts, Up
<1> QED BY <1>1, <1>2, <1>3, <1>4, <1>5, <1>6, OwnerFollowed DEF r

\* An execution that is registered is the one its run was bound to when it began.
LEMMA RegisterFollowed ==
  ASSUME Known, FollowInv, NEW w \in Workers, Register(w)
  PROVE  FollowInv'
<1> DEFINE r == worker[w]
           t == r.task
           j == t.job
           i == t.item
           e == r.exec
           x == [r EXCEPT !.pc = "returned", !.result = "error"]
           b == [r EXCEPT !.pc = "working", !.bound = e]
<1>1. r.pc = "begun" /\ r.pc \in Owning /\ r \in CommittedRow
  BY TypeParts DEF Register, Processing, Owning, Pc, Known
<1>2. /\ UNCHANGED <<running, phase, faults>>
      /\ \/ /\ rows' = IF CanCancel(rows, e) THEN Cancel(rows, j, e) ELSE rows
            /\ Set(w, x)
         \/ /\ i # NoItem => CanBind(rows, i, e)
            /\ rows' = IF i = NoItem THEN rows ELSE BindExecution(rows, i, e)
            /\ Set(w, b)
  BY DEF Register, Processing, Returned
<1>3. /\ x.pc = "returned" /\ x.task = t /\ x.bound = r.bound /\ x.exec = e
      /\ b.pc = "working" /\ b.task = t /\ b.bound = e /\ b.exec = e
  BY <1>1 DEF CommittedRow, WorkerRow
<1>4. /\ rows \in Rows /\ Sound(rows) /\ Tidy(rows) /\ j \in Jobs /\ i \in Items /\ JobOf[i] = j
      /\ HoldsRun(rows, r, faults) /\ Orderly(rows, j) /\ (Counts => HeldBy(rows, r, j))
      /\ e \in Execs /\ JobOf[e] = j /\ AsBegun(rows, r)
  BY <1>1, OwnersExec, KnownRows DEF CommittedRow, OwnWorker, Story
<1> HIDE DEF x, b
<1>5. CASE /\ rows' = IF CanCancel(rows, e) THEN Cancel(rows, j, e) ELSE rows
           /\ Set(w, x)
  BY <1>1, <1>2, <1>3, <1>5, GivesUpFollowed DEF AtWork
<1>6. CASE /\ i # NoItem => CanBind(rows, i, e)
           /\ rows' = IF i = NoItem THEN rows ELSE BindExecution(rows, i, e)
           /\ Set(w, b)
  <2>1. /\ CanBind(rows, i, e) /\ rows' = BindExecution(rows, i, e) /\ i # NoItem
        /\ rows.item[i].status = "processing"
    BY <1>4, <1>6, IdAssumption DEF CanBind
  <2>2. rows.exec[e].item = i /\ rows.exec[e].state \in {"running", "cancelled"}
    BY <1>4, <2>1 DEF AsBegun, OwnOrCancelled
  <2>3. rows.item[i].exec = e
    <3>1. Begun(rows, e)
      BY <1>4, <2>2 DEF Orderly, Born, ExecsOf
    <3> QED BY <2>1, <2>2, <3>1 DEF Begun
  <2> HIDE DEF r
  <2>4. /\ rows'.exec = rows.exec
        /\ rows'.item[i].status = "processing" /\ rows'.item[i].exec = e
        /\ \A k \in Items : k # i => rows'.item[k] = rows.item[k]
    BY <1>4, <2>1, <2>2, BindProper
  <2>5. rows'.job = rows.job
    BY <2>1 DEF BindExecution
  <2>6. Within(rows, rows', j) /\ OnlyJob(rows, rows', j) /\ Alike(rows, rows', j)
    BY <1>4, <2>1, <2>3, <2>4, <2>5 DEF Within, OnlyJob, Alike, Expired
  <2>7. Orderly(rows', j) /\ Competing(rows', j) = Competing(rows, j)
    BY <1>4, <2>6, AlikeOrderly
  <2>8. HoldsRun(rows', b, faults')
    BY <1>1, <1>3, <1>4, <2>4, <2>5 DEF HoldsRun, AtWork, r
  <2>9. Counts' => HeldBy(rows', b, j)
    <3>1. Counts' => Counts
      BY <1>2 DEF Counts, Up
    <3> QED BY <1>1, <1>3, <1>4, <2>4, <2>7, <3>1 DEF HeldBy, AtWork, Expired, r
  <2> QED BY <1>1, <1>2, <1>3, <1>6, <2>6, <2>7, <2>8, <2>9, OwnerFollowed DEF r
<1> QED BY <1>2, <1>5, <1>6

\* The adapters return.
LEMMA WorkFollowed ==
  ASSUME Known, FollowInv, NEW w \in Workers, Work(w)
  PROVE  FollowInv'
<1> DEFINE r == worker[w]
           j == r.task.job
           x(res) == [r EXCEPT !.pc = "publishing", !.result = res]
<1>1. r.pc = "working" /\ r.pc \in Owning /\ r \in CommittedRow
  BY TypeParts DEF Work, Processing, Owning, Pc, Known
<1>2. UNCHANGED <<rows, running, phase, faults>> /\ \E res : Set(w, x(res))
  BY DEF Work, Processing
<1>3. \A res : LET y == x(res)
               IN  y.pc = "publishing" /\ y.task = r.task /\ y.bound = r.bound /\ y.exec = r.exec
  BY <1>1 DEF CommittedRow, WorkerRow
<1> HIDE DEF x
<1>4. PICK y : /\ Set(w, y) /\ y.pc = "publishing" /\ y.task = r.task
               /\ y.bound = r.bound /\ y.exec = r.exec
  BY <1>2, <1>3
<1>5. /\ HoldsRun(rows, r, faults) /\ Orderly(rows, j) /\ (Counts => HeldBy(rows, r, j))
  BY <1>1, OwnersExec
<1>6. Within(rows, rows', j) /\ OnlyJob(rows, rows', j) /\ rows' = rows
  BY <1>2 DEF Within, OnlyJob
<1>7. HoldsRun(rows', y, faults')
  BY <1>1, <1>4, <1>5, <1>6 DEF HoldsRun, AtWork
<1>8. Counts => HeldBy(rows', y, j)
  BY <1>1, <1>4, <1>5, <1>6 DEF HeldBy, AtWork
<1>9. Counts' => Counts
  BY <1>2 DEF Counts, Up
<1> QED BY <1>1, <1>2, <1>4, <1>5, <1>6, <1>7, <1>8, <1>9, OwnerFollowed

\* The budget of an execution says nothing of who has it.
LEMMA SpendFollowed ==
  ASSUME Known, FollowInv, NEW w \in Workers, SpendBudget(w)
  PROVE  FollowInv'
<1> DEFINE e == worker[w].exec
           q == [rows.exec[e] EXCEPT !.budget = "spent"]
<1>1. /\ UNCHANGED <<running, worker, phase, faults>>
      /\ rows' = [rows EXCEPT !.exec[e] = q]
      /\ worker[w].pc = "working"
  BY DEF SpendBudget, Processing
<1>2. e \in Execs /\ rows \in Rows
  BY <1>1, TypeParts DEF Known, CommittedRow
<1>3. /\ q.state = rows.exec[e].state /\ q.status = rows.exec[e].status
      /\ q.item = rows.exec[e].item /\ q.deadline = rows.exec[e].deadline
  BY <1>2 DEF Rows, ExecRow
<1> HIDE DEF q, e
<1>4. /\ rows'.exec[e] = q /\ \A f \in Execs : f # e => rows'.exec[f] = rows.exec[f]
      /\ rows'.item = rows.item /\ rows'.job = rows.job
  BY <1>1, <1>2, ExecutionRow
<1>5. \A j \in Jobs : Alike(rows, rows', j)
  BY <1>3, <1>4 DEF Alike, Expired
<1> QED BY <1>1, <1>5, AllAlone DEF FollowInv, Fresh, SameWork, Counts, Up, Starting

\* A publication that is refused leaves nothing that would count but an execution
\* whose deadline has passed.
LEMMA RefusedPublication ==
  ASSUME Known, FollowInv, NEW w \in Workers, worker[w].pc = "publishing",
         NEW s \in {"completed", "failed"},
         ~CanFinish(rows, worker[w].exec, worker[w].gen, s), Counts
  PROVE  \A f \in Competing(rows, worker[w].task.job) : Expired(rows, f)
<1> DEFINE r == worker[w]
           j == r.task.job
           i == r.task.item
           e == r.exec
<1>1. r.pc \in Owning
  BY DEF Owning, Pc
<1>2. /\ rows \in Rows /\ Tidy(rows) /\ j \in Jobs /\ i \in Items /\ JobOf[i] = j
      /\ HoldsRun(rows, r, faults) /\ Orderly(rows, j) /\ HeldBy(rows, r, j)
      /\ e \in Execs /\ JobOf[e] = j /\ AsBound(rows, r)
  BY <1>1, OwnersExec, KnownRows DEF CommittedRow, OwnWorker, Story
<1>3. i # NoItem
  BY <1>2 DEF HoldsRun
<1> SUFFICES ASSUME NEW f \in Competing(rows, j), ~Expired(rows, f)
             PROVE  FALSE
  OBVIOUS
<1>4. f = e
  BY <1>2 DEF HeldBy
<1>5. rows.exec[e].status \in ActiveStatus /\ Paired(rows.exec[e])
  BY <1>2, <1>4 DEF Competing, Orderly, Born, ExecsOf
<1>6. /\ rows.exec[e].state = "running" /\ rows.exec[e].status = "processing"
      /\ rows.exec[e].gen = r.gen
  BY <1>2, <1>5 DEF AsBound, OwnOrCancelled, Paired, ActiveStatus
<1>7. rows.item[i].status = "processing" /\ rows.item[i].exec = e /\ rows.exec[e].item = i
  <2>1. rows.item[i].status = "processing" /\ rows.item[i].exec = e
    BY <1>2, <1>3 DEF AsBound
  <2> QED BY <1>2, <2>1, IdAssumption DEF Tidy, RunsAgree, Agrees
<1>8. HoldsItem(rows, e, {"processing"})
  BY <1>2, <1>7 DEF HoldsItem
<1>9. rows.job[JobOf[e]] # "deleted"
  BY <1>2 DEF HoldsRun
<1> QED BY <1>4, <1>6, <1>8, <1>9 DEF CanFinish

\* A publication ends the execution in hand, or is refused or lost.
LEMMA PublishFollowed ==
  ASSUME Known, FollowInv, NEW w \in Workers, Publish(w)
  PROVE  FollowInv'
<1> DEFINE r == worker[w]
           j == r.task.job
           e == r.exec
           s == IF r.result = "ok" THEN "completed" ELSE "failed"
           x(res) == [r EXCEPT !.pc = "returned", !.result = res]
<1>1. r.pc = "publishing" /\ r.pc \in Owning /\ r \in CommittedRow
  BY TypeParts DEF Publish, Processing, Owning, Pc, Known
<1>2. \A res : LET y == x(res)
               IN  y.pc = "returned" /\ y.task = r.task /\ y.bound = r.bound /\ y.exec = e
  BY <1>1 DEF CommittedRow, WorkerRow
<1>3. /\ running' = running /\ phase' = phase /\ faults \in Nat
      /\ \/ /\ rows' = IF CanCancel(rows, e) THEN Cancel(rows, j, e) ELSE rows
            /\ Set(w, x("error")) /\ faults' = faults
         \/ /\ CanFinish(rows, e, r.gen, s) /\ rows' = Finish(rows, j, e, s)
            /\ Set(w, x(r.result)) /\ faults' = faults
         \/ rows' = rows /\ Set(w, x("error")) /\ faults' = faults + 1
         \/ /\ ~CanFinish(rows, e, r.gen, s)
            /\ rows' = rows /\ Set(w, x("error")) /\ faults' = faults
  BY TypeParts DEF Publish, Processing, Returned, Known, RestType
<1> HIDE DEF x
<1>4. PICK y : /\ Set(w, y) /\ y.pc = "returned" /\ y.task = r.task
               /\ y.bound = r.bound /\ y.exec = e
  BY <1>2, <1>3
<1>5. /\ rows \in Rows /\ j \in Jobs /\ s \in {"completed", "failed"}
      /\ HoldsRun(rows, r, faults) /\ Orderly(rows, j) /\ (Counts => HeldBy(rows, r, j))
      /\ e \in Execs /\ JobOf[e] = j
  BY <1>1, OwnersExec, KnownRows DEF CommittedRow, OwnWorker
<1>6. Within(rows, rows, j) /\ OnlyJob(rows, rows, j)
  BY DEF Within, OnlyJob
<1> HIDE DEF s
<1>7. CASE /\ rows' = IF CanCancel(rows, e) THEN Cancel(rows, j, e) ELSE rows
           /\ faults' = faults
  BY <1>1, <1>3, <1>4, <1>7, GivesUpFollowed DEF AtWork
<1>8. CASE /\ CanFinish(rows, e, r.gen, s) /\ rows' = Finish(rows, j, e, s)
           /\ faults' = faults
  <2>1. HoldsItem(rows, e, ActiveStatus) /\ rows.job[j] # "deleted"
        /\ rows.exec[e].state # "none"
    BY <1>5, <1>8 DEF CanFinish, HoldsItem, ActiveStatus
  <2>2. EndsExec(rows, rows', j, e)
    BY <1>5, <1>8, <2>1, FinishEnds
  <2>3. Within(rows, rows', j)
    BY <1>5, <1>8, FinishFinal
  <2>4. OnlyJob(rows, rows', j) /\ rows'.job[j] = s
    BY <1>5, <1>8, <2>1, FinishJobs DEF JobSet
  <2>5. Orderly(rows', j) /\ Competing(rows', j) = Competing(rows, j) \ {e}
    BY <1>5, <2>1, <2>2, EndsOrderly
  <2>6. HoldsRun(rows', y, faults')
    BY <1>4, <1>5, <2>4 DEF HoldsRun
  <2>7. Counts => HeldBy(rows', y, j)
    BY <1>1, <1>5, <2>2, <2>5 DEF HeldBy, Expired, EndsExec, Competing, ExecsOf
  <2>8. Counts' => Counts
    BY <1>3, <1>8 DEF Counts, Up
  <2> QED BY <1>1, <1>3, <1>4, <1>8, <2>3, <2>4, <2>5, <2>6, <2>7, <2>8, OwnerFollowed
<1>9. CASE /\ rows' = rows
           /\ \/ faults' = faults + 1
              \/ faults' = faults /\ ~CanFinish(rows, e, r.gen, s)
  <2>1. HoldsRun(rows', y, faults')
    BY <1>4, <1>5, <1>9 DEF HoldsRun, AtWork
  <2>2. Counts' => Counts /\ ~CanFinish(rows, e, r.gen, s)
    BY <1>3, <1>9 DEF Counts, Up
  <2>3. Counts' => HeldBy(rows', y, j)
    BY <1>1, <1>5, <1>9, <2>2, RefusedPublication DEF HeldBy
  <2>4. faults' = 0 => faults = 0
    BY <1>3, <1>9
  <2> QED BY <1>1, <1>3, <1>4, <1>5, <1>6, <1>9, <2>1, <2>3, <2>4, OwnerFollowed
<1> QED BY <1>3, <1>7, <1>8, <1>9

\* A worker that closes its run writes the recording's status, unless the outcome is
\* published.
LEMMA CloseFollowed ==
  ASSUME Known, FollowInv, NEW w \in Workers, Close(w)
  PROVE  FollowInv'
<1> DEFINE r == worker[w]
           j == r.task.job
           o == Outcome(w)
           x == [r EXCEPT !.pc = "closing", !.outcome = o]
<1>1. r.pc = "returned" /\ r.pc \in Owning /\ r \in CommittedRow
  BY TypeParts DEF Close, Owning, Pc, Known
<1>2. /\ UNCHANGED <<running, phase>> /\ Set(w, x) /\ faults \in Nat
      /\ \/ /\ faults' = faults
            /\ \/ Published(w) /\ rows' = rows
               \/ rows' = SetJob(rows, j, JobOutcome(o))
         \/ faults' = faults + 1 /\ rows' = rows
  BY TypeParts DEF Close, ClosedRows, Known, RestType
<1>3. x.pc = "closing" /\ x.task = r.task /\ x.bound = r.bound /\ x.exec = r.exec
  BY <1>1 DEF CommittedRow, WorkerRow
<1> HIDE DEF x, o
<1>4. /\ rows \in Rows /\ j \in Jobs
      /\ HoldsRun(rows, r, faults) /\ Orderly(rows, j) /\ (Counts => HeldBy(rows, r, j))
  BY <1>1, OwnersExec, KnownRows
<1>5. /\ rows'.item = rows.item /\ rows'.exec = rows.exec
      /\ OnlyJob(rows, rows', j)
      /\ rows'.job[j] \notin {"pending", "deleted"}
      /\ rows'.job[j] = "processing" => rows' = rows /\ faults' # 0
  <2>1. CASE Published(w) /\ rows' = rows
    BY <1>4, <2>1 DEF Published, HoldsRun, EndedAs, OnlyJob
  <2>2. CASE rows' = SetJob(rows, j, JobOutcome(o))
    <3>1. JobOutcome(o) \in {"completed", "failed"}
      BY DEF JobOutcome
    <3>2. rows.job[j] # "deleted"
      BY <1>4 DEF HoldsRun
    <3> HIDE DEF r
    <3> QED BY <1>4, <2>2, <3>1, <3>2, SetJobMoves, SetJobRow DEF JobSet
  <2>3. CASE faults' = faults + 1 /\ rows' = rows
    BY <1>2, <1>4, <2>3 DEF HoldsRun, OnlyJob
  <2> QED BY <1>2, <2>1, <2>2, <2>3
<1>6. Within(rows, rows', j) /\ (faults' = 0 => faults = 0)
  BY <1>2, <1>5 DEF Within
<1>7. Orderly(rows', j) /\ Competing(rows', j) = Competing(rows, j)
  <2>1. CASE rows' = rows
    BY <1>4, <2>1
  <2>2. CASE rows' # rows
    BY <1>2, <1>4, <1>5, <2>2, EndsItem
  <2> QED BY <2>1, <2>2
<1>8. HoldsRun(rows', x, faults')
  BY <1>3, <1>4, <1>5 DEF HoldsRun, AtWork
<1>9. Counts' => HeldBy(rows', x, j)
  <2>1. Counts' => Counts
    BY <1>2, <1>6 DEF Counts, Up
  <2> QED BY <1>1, <1>4, <1>5, <1>7, <2>1 DEF HeldBy, Expired, AtWork
<1> QED BY <1>1, <1>2, <1>3, <1>5, <1>6, <1>7, <1>8, <1>9, OwnerFollowed

\* A release ends the run and leaves its recording without an owner, and not processing
\* unless its finalization fails after an earlier write.
LEMMA ReleaseFollowed ==
  ASSUME Known, FollowInv, NEW w \in Workers, Release(w)
  PROVE  /\ FollowInv'
         /\ rows'.job[worker[w].task.job] = "processing" => 0 < faults /\ faults < faults'
<1> DEFINE r == worker[w]
           j == r.task.job
           i == r.task.item
           e == r.bound
           s == r.outcome
           c == Finalize(rows, j, i, s, e)
<1>1. r.pc = "closing" /\ r.pc \in Owning /\ r \in CommittedRow
  BY TypeParts DEF Release, Owning, Pc, Known
<1>2. /\ running' = [running EXCEPT ![j] = 0] /\ Set(w, IdleWorker)
      /\ phase' = phase /\ faults \in Nat
      /\ \/ Advance(c, j, FALSE, j \in protected) /\ faults' = faults
         \/ Advance(rows, j, FALSE, j \in protected) /\ faults' = faults + 1
  BY TypeParts DEF Release, Known, RestType
<1>3. /\ rows \in Rows /\ Tidy(rows) /\ j \in Jobs /\ i \in Items /\ JobOf[i] = j
      /\ HoldsRun(rows, r, faults) /\ Orderly(rows, j) /\ (Counts => HeldBy(rows, r, j))
      /\ e \in Execs \cup {NoExec} /\ (e # NoExec => JobOf[e] = j)
      /\ InHand(rows, r) /\ AsReturned(rows, r) /\ AsClosing(rows, r)
  BY <1>1, OwnersExec, KnownRows DEF Story
<1>4. s \in {"completed", "failed", "cancelled"} /\ i # NoItem
  BY <1>1, <1>3 DEF CommittedRow, HoldsRun
<1>5. /\ rows.job[j] # "pending"
      /\ rows.job[j] = "processing" => faults # 0 /\ rows.item[i].status = "processing"
  BY <1>1, <1>3 DEF HoldsRun
<1>6. e # NoExec => rows.exec[e].item = i
  BY <1>3, <1>4 DEF InHand
<1>7. c \in Rows /\ Tidy(c) /\ Moves(rows, c, j) /\ OnlyJob(rows, c, j)
  <2>1. s \in ItemStatus \ Live /\ s \in ItemStatus
    BY <1>4 DEF ItemStatus, Live, ActiveStatus
  <2>2. rows.item[i].status # "pending"
    BY <1>3, <1>4 DEF InHand, Over
  <2>3. Agrees(rows, i, s, IF e = NoExec THEN rows.item[i].exec ELSE e)
    <3>1. CASE e # NoExec
      BY <1>3, <1>4, <1>6, <3>1 DEF AsClosing, Agrees
    <3>2. CASE e = NoExec
      <4>1. Agrees(rows, i, rows.item[i].status, rows.item[i].exec)
        BY <1>3 DEF Tidy, RunsAgree
      <4> QED BY <1>3, <1>4, <3>2, <4>1 DEF AsReturned, AsClosing, Agrees
    <3> QED BY <3>1, <3>2
  <2> HIDE DEF r, j, i, e, s
  <2>4. c \in Rows /\ Moves(rows, c, j)
    BY <1>3, <1>4, <2>1, FinalizeLemma, FinalizeMoves
  <2>5. Proper(rows, c)
    BY <1>3, <1>4, <2>2, <2>3, FinalizeProper
  <2>6. OnlyJob(rows, rows, j)
    BY DEF OnlyJob
  <2>7. OnlyJob(rows, c, j)
    BY <1>3, <2>1, <2>6, FinalizeJobs DEF JobSet
  <2> QED BY <1>3, <2>4, <2>5, <2>7 DEF Proper
<1>8. /\ Orderly(c, j) /\ Competing(c, j) = Competing(rows, j) /\ c.exec = rows.exec
      /\ c.job[j] \in {rows.job[j], "completed", "failed"} /\ c.job[j] # "processing"
  <2>1. /\ Orderly(c, j) /\ Competing(c, j) = Competing(rows, j) /\ c.exec = rows.exec
        /\ c.job[j] \in {rows.job[j], "completed", "failed"}
    <3> HIDE DEF r, j, i, e, s
    <3> QED BY <1>3, <1>4, <1>5, <1>6, FinalizeEnds
  <2>2. ASSUME rows.job[j] = "processing" PROVE c.job[j] # "processing"
    <3>1. rows.item[i].status \in ActiveStatus
      BY <1>5, <2>2 DEF ActiveStatus
    <3>2. c.job[j] = JobOutcome(s)
      <4> HIDE DEF r, j, i, e, s
      <4> QED BY <1>3, <1>4, <2>2, <3>1 DEF Finalize, SetJob, SetItem, Rows
    <3> QED BY <3>2 DEF JobOutcome
  <2> QED BY <2>1, <2>2
<1> HIDE DEF c
<1>9. PICK b \in Rows :
        /\ Tidy(b) /\ Moves(rows, b, j) /\ OnlyJob(rows, b, j) /\ Orderly(b, j)
        /\ Competing(b, j) = Competing(rows, j) /\ b.exec = rows.exec
        /\ b.job[j] \in {rows.job[j], "completed", "failed"}
        /\ b.job[j] = "processing" => faults' = faults + 1 /\ rows.job[j] = "processing"
        /\ Advance(b, j, FALSE, j \in protected)
  <2>1. Moves(rows, rows, j) /\ OnlyJob(rows, rows, j)
    BY StillMoves DEF OnlyJob
  <2> QED BY <1>2, <1>3, <1>7, <1>8, <2>1
<1>10. /\ Orderly(rows', j) /\ (Unheld(b, j) => Unheld(rows', j))
       /\ rows'.job[j] \in {b.job[j], "pending"}
       /\ Moves(b, rows', j) /\ OnlyJob(b, rows', j)
  BY <1>3, <1>9, AdvanceFollowed, AdvanceOwn, AdvanceJobs
<1>11. Within(rows, rows', j) /\ OnlyJob(rows, rows', j)
  <2>1. Within(rows, rows', j)
    BY <1>9, <1>10, MovesCompose, MovesKeep DEF Keeps
  <2>2. OnlyJob(rows, rows', j)
    BY <1>9, <1>10 DEF OnlyJob
  <2> QED BY <2>1, <2>2
<1>12. (Counts' => Counts) /\ (faults' = 0 => faults = 0)
  <2>1. faults \in Nat /\ (faults' = faults \/ faults' = faults + 1)
    BY <1>2
  <2>2. faults' = 0 => faults = 0
    BY <2>1
  <2> QED BY <1>2, <2>2 DEF Counts, Up
<1>13. Counts' => Unheld(rows', j)
  <2>1. Counts => Unheld(b, j)
    BY <1>1, <1>3, <1>9 DEF HeldBy, Unheld, Expired, AtWork
  <2> QED BY <1>10, <1>12, <2>1
<1>14. /\ \A v \in Workers : worker'[v] = IF v = w THEN IdleWorker ELSE worker[v]
       /\ \A k \in Jobs : running'[k] = IF k = j THEN 0 ELSE running[k]
       /\ running[j] = w /\ w # 0
  <2>1. worker \in [Workers -> CommittedRow] /\ running \in [Jobs -> Workers \cup {0}]
    BY TypeParts DEF Known, RestType
  <2> QED BY <1>1, <1>2, <2>1, OwnersExec DEF Set, Workers
<1>15. phase \notin {"down", "recovered", "repaired", "blocked"}
  BY <1>1 DEF Known, OwnerInv, Quiet, Owning, Pc
<1>16. Fresh'
  BY <1>14 DEF FollowInv, Fresh, IdleWorker, OffWorker
<1> HIDE DEF r
<1>17. ASSUME NEW k \in Jobs PROVE Following(k)'
  <2>1. CASE k = j
    BY <1>2, <1>10, <1>13, <1>14, <1>15, <2>1 DEF Following, Owned, Starting
  <2>2. CASE k # j
    <3>1. Alike(rows, rows', k)
      BY <1>3, <1>11, <2>2, AlikeWithin
    <3>2. ASSUME Owned(k) PROVE SameWork(worker[running[k]], worker'[running[k]])
      <4>1. running[k] \in Workers /\ worker[running[k]].task.job = k
        BY <3>2, TypeParts DEF Owned, RestType, Known, OwnerInv, OneOwner
      <4>2. running[k] # w
        BY <2>2, <4>1 DEF r
      <4> QED BY <1>14, <4>1, <4>2 DEF SameWork
    <3> QED BY <1>2, <1>12, <1>14, <2>2, <3>1, <3>2, LeftAlone DEF FollowInv, Starting
  <2> QED BY <2>1, <2>2
<1>18. rows'.job[j] = "processing" => 0 < faults /\ faults < faults'
  BY <1>2, <1>5, <1>9, <1>10
<1> QED BY <1>16, <1>17, <1>18 DEF FollowInv, r

-----------------------------------------------------------------------------
\* The reconciler repairs a recording that nobody owns.
LEMMA ReconcileFollowed ==
  ASSUME Known, FollowInv, NEW j \in Jobs, Reconcile(j)
  PROVE  FollowInv'
<1>1. rows \in Rows /\ Sound(rows) /\ Tidy(rows) /\ SingleActive(rows)
  BY KnownRows
<1>2. /\ ~Owned(j) /\ UNCHANGED <<running, worker, phase, faults>> /\ ~Starting
      /\ rows' = rows \/ \E d \in Repairs(j) : Redispatch(d, j)
  BY DEF Reconcile, Admitting, Starting
<1>3. Orderly(rows, j) /\ (Counts => Unheld(rows, j))
  BY <1>2 DEF FollowInv, Following
<1>4. CASE rows' = rows
  BY <1>2, <1>4, StillFollowed DEF FollowInv, Fresh, SameWork, Counts, Up, Starting
<1>5. ASSUME NEW d \in Repairs(j), Redispatch(d, j) PROVE FollowInv'
  <2>1. d \in Rows /\ Tidy(d) /\ Orderly(d, j) /\ (Unheld(rows, j) => Unheld(d, j))
    BY <1>1, <1>3, RepairsFollowed
  <2>2. Within(rows, d, j) /\ OnlyJob(rows, d, j)
    BY <1>1, RepairsFinal, RepairsJobs DEF Keeps
  <2>3. /\ Orderly(rows', j) /\ (Unheld(d, j) => Unheld(rows', j))
        /\ Moves(d, rows', j) /\ OnlyJob(d, rows', j)
    <3>1. CASE rows' = d
      BY <2>1, <3>1, StillMoves DEF OnlyJob
    <3>2. CASE Advance(d, j, FALSE, FALSE)
      BY <2>1, <3>2, AdvanceFollowed, AdvanceOwn, AdvanceJobs
    <3> QED BY <1>5, <3>1, <3>2 DEF Redispatch
  <2>4. Within(rows, rows', j) /\ OnlyJob(rows, rows', j)
    <3>1. OnlyJob(rows, rows', j)
      BY <2>2, <2>3 DEF OnlyJob
    <3> QED BY <2>2, <2>3, <3>1, KeepThenMove
  <2> QED BY <1>2, <1>3, <2>1, <2>3, <2>4, OneFollowed
<1> QED BY <1>2, <1>4, <1>5

-----------------------------------------------------------------------------
\* At startup nobody owns anything.
LEMMA StartFollowed ==
  ASSUME Known, FollowInv, phase \in {"down", "recovered", "repaired"},
         running' = running, Fresh',
         \A j \in Jobs : Orderly(rows', j) /\ Competing(rows', j) = {}
  PROVE  FollowInv'
<1>1. \A j \in Jobs : ~Owned(j) /\ ~Owned(j)'
  BY DEF Known, OwnerInv, Quiet, Owned
<1>2. \A j \in Jobs : Unheld(rows', j)
  BY DEF Unheld
<1> QED BY <1>1, <1>2 DEF FollowInv, Following

\* What startup interrupts no longer counts, and no run waits for it.
LEMMA InterruptedOrderly ==
  ASSUME NEW d \in Rows, Sound(d), NEW j \in Jobs, Orderly(d, j)
  PROVE  Orderly(InterruptAll(d), j) /\ Competing(InterruptAll(d), j) = {}
<1> DEFINE c == InterruptAll(d)
           hit == {e \in Execs : d.exec[e].state \in {"pending", "running"}}
<1>1. c.item = d.item
  BY InterruptAllLemma
<1>2. \A e \in Execs : e \in hit =>
        /\ c.exec[e].state = "interrupted" /\ c.exec[e].status = "failed"
        /\ c.exec[e].item = d.exec[e].item
  <2> SUFFICES ASSUME NEW e \in hit
               PROVE  /\ c.exec[e].state = "interrupted" /\ c.exec[e].status = "failed"
                      /\ c.exec[e].item = d.exec[e].item
    OBVIOUS
  <2>1. c.exec[e] = [d.exec[e] EXCEPT !.state = "interrupted", !.status = "failed"]
    BY ZenonT(60) DEF InterruptAll, Rows
  <2>2. d.exec[e] \in ExecRow
    BY DEF Rows
  <2> QED BY <2>1, <2>2 DEF ExecRow
<1>3. \A e \in Execs : e \notin hit => c.exec[e] = d.exec[e]
  BY ZenonT(60) DEF InterruptAll, Rows
<1>4. c.job[j] = "pending" => d.job[j] = "pending" /\ \A e \in hit : JobOf[e] # j
  BY DEF InterruptAll, Rows
<1> HIDE DEF c
<1>5. Waits(c, j)
  <2> SUFFICES ASSUME c.job[j] = "pending"
               PROVE  \E i \in Items : JobOf[i] = j /\ Ready(c, i)
    BY DEF Waits
  <2>1. PICK i \in Items : JobOf[i] = j /\ Ready(d, i)
    BY <1>4 DEF Orderly, Waits
  <2>2. d.item[i].exec \in Execs \cup {NoExec}
    BY DEF Rows, ItemRow
  <2>3. d.item[i].exec = NoExec
    BY <1>4, <2>1, <2>2 DEF Ready, Sound
  <2> QED BY <1>1, <2>1, <2>3 DEF Ready
<1>6. \A e \in Execs : JobOf[e] = j => Paired(d.exec[e])
  BY DEF Orderly, Born, ExecsOf
<1>7. Born(c, j)
  <2>1. \A e \in Execs : JobOf[e] = j =>
          /\ Paired(c.exec[e])
          /\ c.exec[e].state # "none" =>
               d.exec[e].state # "none" /\ c.exec[e].item = d.exec[e].item
    BY <1>2, <1>3, <1>6 DEF Paired
  <2> QED BY <1>1, <2>1, StillBorn DEF Orderly
<1>8. Competing(c, j) = {}
  BY <1>2, <1>3, <1>6 DEF Competing, ExecsOf, Paired, ActiveStatus
<1> QED BY <1>5, <1>7, <1>8 DEF Orderly, c

\* RecoverExecutions interrupts what earlier workers left behind, or refuses dispatch.
LEMMA RecoverFollowed ==
  ASSUME Known, FollowInv, Recover
  PROVE  FollowInv'
<1>1. UNCHANGED <<running, worker, faults>> /\ phase = "down" /\ Fresh'
  BY DEF Recover, unstarted, FollowInv, Fresh
<1>2. CASE phase' = "blocked" /\ rows' = rows
  BY <1>1, <1>2, StillFollowed DEF SameWork, Counts, Up, Starting
<1>3. CASE rows' = InterruptAll(rows)
  <2>1. \A j \in Jobs : Orderly(rows', j) /\ Competing(rows', j) = {}
    BY <1>3, KnownRows, InterruptedOrderly DEF FollowInv, Following
  <2> QED BY <1>1, <2>1, StartFollowed
<1> QED BY <1>2, <1>3 DEF Recover

\* ResetZombieJobs fails what nobody owns any more.
LEMMA ResetFollowed ==
  ASSUME Known, FollowInv, ResetZombieJobs
  PROVE  FollowInv'
<1> DEFINE zombies == {j \in Jobs : rows.job[j] = "processing"} \ protected
           q(e) == [rows.exec[e] EXCEPT !.status = "failed"]
<1>1. UNCHANGED <<running, worker, faults>> /\ phase = "recovered" /\ Fresh'
  BY DEF ResetZombieJobs, unstarted, FollowInv, Fresh
<1>2. rows \in Rows /\ Sound(rows)
  BY KnownRows
<1>3. rows'.item = rows.item
  BY DEF ResetZombieJobs, Rows
<1>4. \A e \in Execs : rows'.exec[e] = IF JobOf[e] \in zombies /\ rows.exec[e].status = "processing"
                                      THEN q(e) ELSE rows.exec[e]
  BY <1>2, ZenonT(60) DEF ResetZombieJobs, Rows
<1>5. \A j \in Jobs : rows'.job[j] = IF j \in zombies THEN "failed" ELSE rows.job[j]
  BY <1>2 DEF ResetZombieJobs, Rows
<1>6. \A e \in Execs : /\ q(e).status = "failed" /\ q(e).state = rows.exec[e].state
                       /\ q(e).item = rows.exec[e].item
  BY <1>2 DEF Rows, ExecRow
<1> HIDE DEF zombies, q
<1>7. ASSUME NEW j \in Jobs PROVE Orderly(rows', j) /\ Competing(rows', j) = {}
  <2>1. Orderly(rows, j) /\ Competing(rows, j) = {}
    BY <1>1 DEF FollowInv, Following, Starting
  <2>2. Waits(rows', j)
    <3> SUFFICES ASSUME rows'.job[j] = "pending"
                 PROVE  \E i \in Items : JobOf[i] = j /\ Ready(rows', i)
      BY DEF Waits
    <3>1. PICK i \in Items : JobOf[i] = j /\ Ready(rows, i)
      BY <1>5, <2>1 DEF Orderly, Waits
    <3>2. rows.item[i].exec # NoExec =>
            /\ rows.item[i].exec \in Execs
            /\ rows'.exec[rows.item[i].exec].state = rows.exec[rows.item[i].exec].state
      <4>1. rows.item[i].exec \in Execs \cup {NoExec}
        BY <1>2 DEF Rows, ItemRow
      <4> QED BY <1>4, <1>6, <4>1
    <3> QED BY <1>3, <3>1, <3>2 DEF Ready
  <2>3. Born(rows', j)
    <3>1. \A e \in Execs : JobOf[e] = j =>
            /\ Paired(rows'.exec[e])
            /\ rows'.exec[e].state # "none" =>
                 rows.exec[e].state # "none" /\ rows'.exec[e].item = rows.exec[e].item
      BY <1>4, <1>6, <2>1 DEF Orderly, Born, ExecsOf, Paired
    <3> QED BY <1>3, <2>1, <3>1, StillBorn DEF Orderly
  <2>4. Competing(rows', j) = {}
    BY <1>4, <1>6, <2>1 DEF Competing, ExecsOf, ActiveStatus
  <2> QED BY <2>2, <2>3, <2>4 DEF Orderly
<1> QED BY <1>1, <1>7, StartFollowed

\* Startup fails the runs it finds in hand and promotes the first waiting ones.
LEMMA LaunchFollowed ==
  ASSUME Known, FollowInv, Launch
  PROVE  FollowInv'
<1> DEFINE b == FailInterruptedExcept(rows, protected)
           c == PromotedAll(b)
           next == {j \in Jobs : Promotable(b, j) /\ j \notin protected}
<1>1. /\ running' = running /\ phase = "repaired" /\ rows' = c
      /\ worker' = [w \in Workers |-> IF w <= limit THEN IdleWorker ELSE OffWorker]
  BY DEF Launch
<1>2. rows \in Rows /\ Sound(rows) /\ Tidy(rows)
  BY KnownRows
<1>3. /\ b \in Rows /\ Tidy(b) /\ Sound(b) /\ b.exec = rows.exec /\ b.job = rows.job
      /\ \A i \in Items :
           /\ b.item[i].exec = rows.item[i].exec
           /\ rows.item[i].status # "processing" => b.item[i].status = rows.item[i].status
  <2>1. /\ b \in Rows /\ Tidy(b) /\ Sound(b) /\ b.exec = rows.exec
    BY <1>2, FailInterruptedExceptLemma, FailInterruptedProper, FailInterruptedFinal
       DEF Proper, Final
  <2>2. b.job = rows.job
    BY DEF FailInterruptedExcept
  <2>3. \A i \in Items :
          \/ b.item[i] = rows.item[i]
          \/ /\ rows.item[i].status = "processing"
             /\ b.item[i] = [rows.item[i] EXCEPT !.status = "failed", !.pos = 0]
    BY <1>2, ZenonT(60) DEF FailInterruptedExcept, Rows
  <2>4. \A i \in Items : rows.item[i] \in ItemRow
    BY <1>2 DEF Rows
  <2> QED BY <2>1, <2>2, <2>3, <2>4 DEF ItemRow
<1>4. /\ c.exec = b.exec
      /\ \A j \in Jobs : c.job[j] = IF j \in next THEN PromoteNext(b, j).job[j] ELSE b.job[j]
      /\ \A i \in Items : c.item[i] = IF JobOf[i] \in next
                                      THEN PromoteNext(b, JobOf[i]).item[i] ELSE b.item[i]
  <2> HIDE DEF b
  <2> QED BY <1>3, ZenonT(60) DEF PromotedAll, Rows
<1> HIDE DEF b, c
<1>5. ASSUME NEW j \in Jobs PROVE Orderly(c, j) /\ Competing(c, j) = {}
  <2>1. Orderly(rows, j) /\ Competing(rows, j) = {}
    BY <1>1 DEF FollowInv, Following, Starting
  <2>2. Orderly(b, j)
    <3>1. Waits(b, j)
      BY <1>3, <2>1 DEF Orderly, Waits, Ready
    <3>2. Born(b, j)
      <4>1. \A i \in Items :
              /\ rows.item[i].exec # NoExec => b.item[i].exec = rows.item[i].exec
              /\ rows.item[i].status = "gone" => b.item[i].status = "gone"
        BY <1>3
      <4>2. \A e \in Execs : JobOf[e] = j => Paired(b.exec[e])
        BY <1>3, <2>1 DEF Orderly, Born, ExecsOf
      <4> QED BY <1>3, <2>1, <4>1, <4>2, StillBorn DEF Orderly
    <3> QED BY <3>1, <3>2 DEF Orderly
  <2>3. Orderly(c, j)
    <3>1. CASE j \notin next
      <4>1. Alike(b, c, j)
        BY <1>4, <3>1 DEF Alike, Expired
      <4> QED BY <1>3, <2>2, <4>1, AlikeOrderly
    <3>2. CASE j \in next
      <4> DEFINE p == PromoteNext(b, j)
      <4>1. Promotable(b, j)
        BY <3>2
      <4>2. p \in Rows /\ Sound(p) /\ Orderly(p, j) /\ p.exec = b.exec
        <5>1. p \in Rows /\ Moves(b, p, j)
          BY <1>3, <4>1, PromoteNextLemma, PromoteNextMoves
        <5> HIDE DEF p
        <5>2. Sound(p)
          BY <1>3, <5>1, MovesKeep DEF Keeps, Final
        <5> QED BY <1>3, <2>2, <4>1, <5>1, <5>2, PromoteFollowed DEF p
      <4>3. Alike(p, c, j)
        <5>1. c.exec = p.exec /\ c.job[j] = p.job[j]
          BY <1>4, <3>2, <4>2
        <5>2. \A i \in Items : JobOf[i] = j => c.item[i] = p.item[i]
          BY <1>4, <3>2
        <5> HIDE DEF p
        <5> QED BY <5>1, <5>2 DEF Alike, Expired
      <4> HIDE DEF p
      <4> QED BY <4>2, <4>3, AlikeOrderly
    <3> QED BY <3>1, <3>2
  <2>4. Competing(c, j) = {}
    BY <1>3, <1>4, <2>1 DEF Competing, ExecsOf
  <2> QED BY <2>3, <2>4
<1>6. Fresh'
  BY <1>1 DEF Fresh, IdleWorker, OffWorker
<1> QED BY <1>1, <1>5, <1>6, StartFollowed

\* The end of a process, its shutdown, and a deadline that passes.
LEMMA EndFollowed ==
  ASSUME Known, FollowInv, Crash \/ Halt \/ Drain
  PROVE  FollowInv'
<1>1. CASE Drain
  BY <1>1, StillFollowed
     DEF Drain, memory, FollowInv, Fresh, SameWork, Counts, Up, Starting
<1>2. CASE Crash \/ Halt
  <2>1. /\ rows' = rows /\ running' = [j \in Jobs |-> 0] /\ phase' = "down"
        /\ worker' = [w \in Workers |-> OffWorker]
    BY <1>2 DEF Crash, Halt, Forget
  <2>2. Fresh'
    BY <2>1 DEF Fresh, OffWorker
  <2> QED BY <2>1, <2>2 DEF FollowInv, Following, Owned, Counts, Up, Starting
<1> QED BY <1>1, <1>2

\* A deadline that passes takes an execution out of account.
LEMMA DeadlineFollowed ==
  ASSUME Known, FollowInv, NEW e \in Execs, DeadlinePasses(e)
  PROVE  FollowInv'
<1> DEFINE q == [rows.exec[e] EXCEPT !.deadline = "past"]
<1>1. /\ UNCHANGED <<running, worker, phase, faults>>
      /\ rows' = [rows EXCEPT !.exec[e] = q] /\ rows \in Rows
  BY KnownRows DEF DeadlinePasses, memory
<1>2. /\ q.state = rows.exec[e].state /\ q.status = rows.exec[e].status
      /\ q.item = rows.exec[e].item /\ q.deadline = "past"
  BY <1>1 DEF Rows, ExecRow
<1> HIDE DEF q
<1>3. /\ rows'.exec[e] = q /\ \A f \in Execs : f # e => rows'.exec[f] = rows.exec[f]
      /\ rows'.item = rows.item /\ rows'.job = rows.job
  BY <1>1, ExecutionRow
<1>4. \A j \in Jobs : Alike(rows, rows', j)
  BY <1>2, <1>3 DEF Alike, Expired
<1> QED BY <1>1, <1>4, AllAlone DEF FollowInv, Fresh, SameWork, Counts, Up, Starting

-----------------------------------------------------------------------------
\* Clients start runs through the run queue only, and edit no title: an immediate run
\* has no item a stop could name (its entry outlives it), an automatic start writes a
\* pending recording before it has an entry, and a title update writes back a status
\* it read before.
OnlyQueuedRuns == Immediate = {} /\ Renames = {} /\ AutoStarts = {}

\* All requests.
LEMMA RequestsFollowed ==
  ASSUME OnlyQueuedRuns, Known, FollowInv, Requests
  PROVE  FollowInv'
<1>1. CASE \/ \E j \in Jobs, i \in Items : AddRun(j, i)
           \/ \E j \in Jobs : ReorderRuns(j) \/ ClearRuns(j)
           \/ \E i \in Items : CancelRun(i)
  BY <1>1, LineFollowed
<1>2. CASE \E j \in Jobs : ReserveJobDeletion(j) \/ DeleteJob(j) \/ ReleaseDeletion(j)
  BY <1>2, DeletionFollowed
<1>3. CASE (\E n \in Workers : SetWorkers(n)) \/ (\E r \in StopRequest : RequestStop(r))
  BY <1>3, NotedFollowed
<1>4. CASE \E r \in StopRequest : Stop(r)
  BY <1>4, KillRunningFollowed, KillPersistedFollowed DEF Stop
<1>5. CASE \E j \in Jobs, e \in Execs : ResumeExecution(j, e)
  BY <1>5, ResumeFollowed
<1>6. Immediate = {} /\ Renames = {} /\ AutoStarts = {}
  BY DEF OnlyQueuedRuns
<1> QED BY <1>1, <1>2, <1>3, <1>4, <1>5, <1>6 DEF Requests

\* Every step.
LEMMA NextFollowed ==
  ASSUME OnlyQueuedRuns, Known, FollowInv, [Next]_vars
  PROVE  FollowInv'
<1>1. CASE UNCHANGED vars
  BY <1>1, StillFollowed
     DEF vars, memory, FollowInv, Fresh, SameWork, Counts, Up, Starting
<1>2. CASE Requests
  BY <1>2, RequestsFollowed
<1>3. CASE \E w \in Workers : WorkerStep(w) \/ SpendBudget(w)
  BY <1>3, ReceiveFollowed, ClaimFollowed, BeginFollowed, TakeFollowed, RefuseFollowed,
     RegisterFollowed, WorkFollowed, SpendFollowed, PublishFollowed, CloseFollowed,
     ReleaseFollowed DEF WorkerStep
<1>4. CASE \E j \in Jobs : Reconcile(j)
  BY <1>4, ReconcileFollowed
<1>5. CASE Process \/ \E e \in Execs : DeadlinePasses(e)
  BY <1>5, RecoverFollowed, ResetFollowed, LaunchFollowed, EndFollowed, DeadlineFollowed
     DEF Process
<1> QED BY <1>1, <1>2, <1>3, <1>4, <1>5 DEF Next

\* At first nothing counts and nobody owns anything.
LEMMA InitFollowed ==
  ASSUME Init
  PROVE  FollowInv
<1>1. /\ \A j \in Jobs : rows.job[j] = "uploaded"
      /\ \A e \in Execs : rows.exec[e].state = "none" /\ rows.exec[e].status = "none"
      /\ \A w \in Workers : worker[w] = OffWorker
      /\ \A j \in Jobs : running[j] = 0
      /\ phase = "down"
  BY DEF Init, InitRows
<1>2. \A j \in Jobs : Orderly(rows, j)
  BY <1>1 DEF Orderly, Waits, Born, ExecsOf, Paired
<1> QED BY <1>1, <1>2 DEF FollowInv, Following, Fresh, OffWorker, Owned, Counts, Up, Starting

\* The earlier invariants together, and the new one on top of them.
LEMMA KnownInvariant == Spec => []Known
<1>1. /\ TypeInv /\ OwnerInv /\ BindInv /\ ProtInv /\ DispatchInv /\ StoryInv
      /\ OneActiveRun /\ DeletingIsQuiet
      => Known
  BY DEF Known, SingleActive, OneActiveRun
<1> QED BY <1>1, TypeInvariant, OwnerInvariant, BindInvariant, ProtInvariant, DispatchInvariant,
           StoryInvariant, ActiveRunIsSingle, DeletionIsExclusive, PTL

\* See above.
LEMMA FollowInvariant == ASSUME OnlyQueuedRuns PROVE Spec => []FollowInv
<1>1. Init => FollowInv
  BY InitFollowed
<1>2. Known /\ FollowInv /\ [Next]_vars => FollowInv'
  BY NextFollowed
<1> QED BY <1>1, <1>2, KnownInvariant, PTL DEF Spec

\* While no database write has failed, an execution that counts as the owner of a
\* recording is some worker's, or is to be dispatched, or has run out of its deadline:
\* whatever stops, resumes, repairs and restarts did before, the next run may begin
\* (Begin, RegisterExecution, killJob, RequestResume, RecoverExecutions).
THEOREM UnownedAreAccountedFor == OnlyQueuedRuns => (Spec => []UnownedIsAccountedFor)
<1> SUFFICES ASSUME OnlyQueuedRuns PROVE Spec => []UnownedIsAccountedFor
  OBVIOUS
<1>1. FollowInv => UnownedIsAccountedFor
  <2> SUFFICES ASSUME FollowInv, Counts, NEW j \in Jobs, NEW e \in Competing(rows, j), ~Owned(j)
               PROVE  Expired(rows, e) \/ rows.job[j] = "pending"
    BY DEF UnownedIsAccountedFor, Counts
  <2>1. Expired(rows, e) \/ Awaits(rows, e)
    BY DEF FollowInv, Following, Unheld
  <2> QED BY <2>1 DEF Awaits, Competing, ExecsOf
<1> QED BY <1>1, FollowInvariant, PTL

\* A worker that lets go of a recording leaves it ended or to be dispatched, never
\* processing with nobody to process it, unless its finalization fails after an
\* earlier write has: one lost write, also that of the outcome, is made good in the
\* same step (worker, finalizeAndAdvance).
THEOREM ReleasesTerminate == OnlyQueuedRuns => (Spec => ReleaseTerminates)
<1> SUFFICES ASSUME OnlyQueuedRuns PROVE Spec => ReleaseTerminates
  OBVIOUS
<1> DEFINE A == \A j \in Jobs :
                  Owned(j) /\ running'[j] = 0 /\ phase' # "down" =>
                    \/ rows'.job[j] # "processing"
                    \/ /\ 0 < faults
                       /\ faults < faults' \/ worker[running[j]].task.item = NoItem
<1>1. ASSUME Known, FollowInv, [Next]_vars PROVE A
  <2> DEFINE Lost == 0 < faults /\ faults < faults'
  <2> SUFFICES ASSUME NEW j \in Jobs, Owned(j), running'[j] = 0, phase' # "down"
               PROVE  rows'.job[j] # "processing" \/ Lost
    OBVIOUS
  <2>1. running' # running /\ ~KeepsOwners
    BY DEF Owned, KeepsOwners
  <2>2. ASSUME NEW w \in Workers, Release(w) PROVE rows'.job[j] # "processing" \/ Lost
    <3>1. running' = [running EXCEPT ![worker[w].task.job] = 0]
      BY <2>2 DEF Release
    <3>2. j = worker[w].task.job
      BY <1>1, <3>1, TypeParts DEF Known, RestType, Owned
    <3> QED BY <1>1, <2>2, <3>2, ReleaseFollowed
  <2>3. ASSUME NEW w \in Workers, Claim(w) PROVE FALSE
    <3>1. running' = running \/ running' = [running EXCEPT ![worker[w].task.job] = w]
      BY <2>3 DEF Claim
    <3>2. w # 0
      BY DEF Workers
    <3> QED BY <1>1, <3>1, <3>2, TypeParts DEF Known, RestType, Owned
  <2>4. CASE Requests
    BY <1>1, <2>1, <2>4, RequestOwners DEF Known
  <2>5. CASE \E w \in Workers : WorkerStep(w) \/ SpendBudget(w)
    BY <1>1, <2>1, <2>2, <2>3, <2>5, WorkerOwners DEF Known
  <2>6. CASE Process
    BY <2>1, <2>6 DEF Process, Recover, ResetZombieJobs, Launch, Crash, Halt, Forget, Drain,
                      unstarted, memory
  <2>7. CASE \/ \E k \in Jobs : Reconcile(k)
             \/ \E e \in Execs : DeadlinePasses(e)
             \/ UNCHANGED vars
    BY <2>1, <2>7 DEF Reconcile, DeadlinePasses, memory, vars
  <2> QED BY <1>1, <2>4, <2>5, <2>6, <2>7 DEF Next
<1>2. Known /\ FollowInv /\ [Next]_vars => A
  BY <1>1
<1> QED BY <1>2, KnownInvariant, FollowInvariant, PTL DEF Spec, ReleaseTerminates
=============================================================================
