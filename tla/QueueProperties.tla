--------------------------- MODULE QueueProperties ---------------------------
(***************************************************************************)
(* What the task queue promises.  Each property names the code it is about *)
(* and the interference that makes it worth stating.                       *)
(***************************************************************************)
EXTENDS TaskQueue

Up == phase = "up"

(***************************************************************************)
(* Ownership.                                                              *)
(***************************************************************************)

\* runningJobs and the workers agree: a worker between its claim and its
\* release is the registered owner of its recording, and every registered
\* owner is such a worker.  So no two workers process one recording, whatever
\* stale or duplicate entries the channel still holds (queue.go worker,
\* claimTask, finalizeAndAdvance).
OneOwner ==
  /\ \A w \in Workers : worker[w].pc \in Owning => running[worker[w].task.job] = w
  /\ \A j \in Jobs : Owned(j) =>
       worker[running[j]].pc \in Owning /\ worker[running[j]].task.job = j

\* A recording never has two runs admitted or in progress at once: promotion,
\* resume, stop, repair and restart all leave at most one active item.
OneActiveRun ==
  \A j \in Jobs : \A i, k \in ActiveItems(rows, j) : i = k

\* A recording never has two executions that count as its owner: Begin meets
\* admitted resumes and executions that a failed publication left running.
OneLiveExecution ==
  \A j \in Jobs : \A d, e \in Competing(rows, j) : d = e

\* While adapters run, the owner's queued run is the processing item bound to
\* its execution, unless a stop has already fenced that execution: no request and
\* no repair takes the run from under a live worker.
OwnerHoldsItsRun ==
  \A w \in Workers :
    worker[w].pc \in {"working", "publishing"} =>
      LET t == worker[w].task
          e == worker[w].exec
      IN  \/ rows.exec[e].state = "cancelled"
          \/ /\ rows.exec[e].state = "running" /\ rows.exec[e].gen = worker[w].gen
             /\ t.item # NoItem => rows.item[t.item].status = "processing"
                                   /\ rows.item[t.item].exec = e

\* A recording is owned only while its row says so: clients that list running
\* recordings, the start and delete admissions and the stop handler all read
\* that row.  Between a published or cancelled outcome and the release the row
\* is already terminal.
OwnedIsProcessing ==
  \A w \in Workers :
    worker[w].pc \in {"claimed", "begun", "working"} =>
      \/ rows.job[worker[w].task.job] = "processing"
      \/ worker[w].stopped
      \/ worker[w].bound # NoExec /\ rows.exec[worker[w].bound].state = "cancelled"

\* A run and the execution bound to it agree about how it ended, once nobody
\* owns the recording: a completed run has a completed execution and the other
\* way round, whichever of stop, publication and shutdown came first.
OutcomesAgree ==
  \A i \in Items :
    LET e == rows.item[i].exec
    IN  e # NoExec /\ ~Owned(JobOf[i]) /\ rows.item[i].status # "gone" =>
          /\ rows.item[i].status = "completed" <=> rows.exec[e].state = "completed"
          /\ rows.item[i].status = "cancelled" => rows.exec[e].state = "cancelled"

\* The places that tell the story of a run agree, although each is written on its
\* own: the queue's memory, the job row, the item row and the execution row.
OneStory == OneLiveExecution /\ OwnerHoldsItsRun /\ OwnedIsProcessing /\ OutcomesAgree

(***************************************************************************)
(* Dispatch.                                                               *)
(***************************************************************************)

Entries == {channel[p] : p \in 1..Len(channel)}
Held    == {worker[w].task : w \in {v \in Workers : worker[v].pc = "holding"}}

\* Every entry in the channel or in a worker's hands holds its reservation and
\* no entry is queued twice: the reconciler cannot amplify a recording into
\* many entries in the window between receive and claim (enqueueTask,
\* releaseScheduledTask, and the comment above the release in worker).
NoDoubleDispatch ==
  /\ scheduled = Entries \cup Held
  /\ \A p, q \in 1..Len(channel) : channel[p] = channel[q] => p = q
  /\ Entries \cap Held = {}
  /\ \A v, w \in Workers :
       worker[v].pc = "holding" /\ worker[w].pc = "holding" /\ v # w =>
         worker[v].task # worker[w].task

\* A claim never takes the server past the configured number of simultaneous
\* recordings, even one made by a worker that waited while SetWorkers lowered
\* the limit; recordings already running are left alone.
WorkerLimit ==
  [][\A w \in Workers :
       worker'[w].pc = "claimed" /\ worker[w].pc = "holding"
         => Cardinality({j \in Jobs : running'[j] # 0}) <= limit]_vars

(***************************************************************************)
(* Outcomes.                                                               *)
(***************************************************************************)

\* A published outcome is final: no late worker, stop, repair, restart or
\* resume changes a completed or cancelled execution or run; a failed run
\* moves only when its own execution is resumed.
PublishedIsFinal ==
  [][/\ \A e \in Execs : rows.exec[e].state \in {"completed", "cancelled"} =>
          rows'.exec[e].state \in {rows.exec[e].state, "gone"}
     /\ \A i \in Items :
          /\ rows.item[i].status \in {"completed", "cancelled"} =>
               rows'.item[i].status \in {rows.item[i].status, "gone"}
          /\ rows.item[i].status = "failed" =>
               \/ rows'.item[i].status \in {"failed", "gone"}
               \/ /\ rows'.item[i].status = "pending"
                  /\ rows.item[i].exec # NoExec
                  /\ rows'.exec[rows.item[i].exec].state = "pending"]_vars

\* Releasing a recording, ending its run and promoting its successor are one
\* step to everyone else: what was owned is not left processing without an
\* owner ("one observable transition", finalizeAndAdvance).  Two writes end a run,
\* and one of them may fail: only a run that loses both, the second in the step that
\* releases it, or one that lost the first and has no queue item to finalize, is
\* left to the reconciler.
ReleaseTerminates ==
  [][\A j \in Jobs :
       Owned(j) /\ running'[j] = 0 /\ phase' # "down" =>
         \/ rows'.job[j] # "processing"
         \/ /\ 0 < faults
            /\ faults < faults' \/ worker[running[j]].task.item = NoItem]_vars

\* A worker that publishes completion is the owner of the recording and holds
\* the execution's current generation: a fenced owner publishes nothing.
OnlyTheOwnerPublishes ==
  [][\A e \in Execs :
       rows.exec[e].state # "completed" /\ rows'.exec[e].state = "completed" =>
         /\ Owned(JobOf[e])
         /\ worker[running[JobOf[e]]].exec = e
         /\ worker[running[JobOf[e]]].gen = rows'.exec[e].gen
         /\ ~worker[running[JobOf[e]]].stopped]_vars

\* An outcome has one author and one value, whichever of the owner, a fenced owner,
\* a stop, a repair, a restart and a resume comes last.
OutcomesAreFinal == PublishedIsFinal /\ OnlyTheOwnerPublishes

(***************************************************************************)
(* Stop, delete, protection, recovery.                                     *)
(***************************************************************************)

\* A stop that names the run its caller reviewed cancels that run or nothing:
\* if the run ended and a successor was promoted in the meantime, the
\* successor's item, execution and worker are untouched (killJob's target).
StopIsExact ==
  [][\A r \in stopping \ stopping' :
       r.target # AnyRun /\ phase' # "down" =>
         /\ \A i \in Items \ {r.target} :
              rows.item[i].status # "cancelled" => rows'.item[i].status # "cancelled"
         /\ \A w \in Workers :
              worker[w].pc \in Owning /\ worker[w].task.item # r.target =>
                worker'[w].stopped = worker[w].stopped]_vars

\* A recording reserved for deletion stays idle until the reservation ends: no
\* worker owns it and no run of it waits or is active.
DeletingIsQuiet ==
  \A j \in deleting : ~Owned(j) /\ NonTerminal(rows, j) = {}

\* Nothing automatic touches a protected recording: while its interrupted
\* execution awaits a decision no run of it is promoted, claimed, failed or
\* completed.  Only a stop, which the client asks for, may cancel its run.
ProtectedIsLeftAlone ==
  [][\A j \in protected \cap protected' :
       /\ running'[j] = running[j]
       /\ \A i \in Items : JobOf[i] = j /\ rows'.item[i] # rows.item[i] =>
            rows'.item[i].status \in {"queued", "cancelled"}]_vars

\* Between startup and shutdown an execution that counts as the owner of its
\* recording, but that no worker has, is either dispatched or waiting for
\* dispatch, or its recording is protected: nothing else may refuse the
\* recording's next Begin.  Left out are the two ways a run can lose its
\* publication, a failed write and a deadline that passes first (Publish).
UnownedIsAccountedFor ==
  Up /\ faults = 0 => \A j \in Jobs : \A e \in Competing(rows, j) :
    Owned(j) \/ Expired(rows, e) \/ rows.job[j] = "pending" \/ j \in protected

(***************************************************************************)
(* Progress.                                                               *)
(***************************************************************************)

Settled(i) == rows.item[i].status \in {"completed", "failed", "cancelled", "gone"}

\* An accepted run ends, waits for a decision about an interrupted execution,
\* or the server goes down first: full channels, dropped entries, lost writes
\* and lowered limits only delay it (promoteNext, enqueueTask, the reconciler).
AcceptedRunSettles ==
  \A i \in Items :
    rows.item[i].status \in {"queued", "pending", "processing"}
      ~> (Settled(i) \/ JobOf[i] \in protected \/ phase # "up")

\* A stopped worker gives its recording back.
StoppedWorkerReleases ==
  \A w \in Workers : worker[w].stopped ~> worker[w].pc \in {"off", "idle"}

\* Stop returns: every worker does, whose processor does, whatever it holds or
\* waits for in the queue.  What else may hold up a processor is in ServerExit.
ShutdownEnds == phase = "draining" ~> phase = "down"

\* What is told to stop ends, one run or the whole queue.
StopsEnd == StoppedWorkerReleases /\ ShutdownEnds

(***************************************************************************)
(* What the documentation and the tests say and the code does not do.      *)
(***************************************************************************)

\* "Interrupted executions remain visible and require explicit same-plan
\* resume": an interrupted execution with budget and time left that alone is
\* unresolved can be resumed once the server is up (RequestResume).
InterruptedCanBeResumed ==
  Up /\ lock = Free => \A j \in Jobs : \A e \in UnresolvedExecs(rows, j) :
    /\ rows.exec[e].state = "interrupted" /\ rows.exec[e].budget = "left" /\ ~Expired(rows, e)
    /\ UnresolvedExecs(rows, j) = {e} /\ ~Owned(j) /\ Idle(rows, j)
    => Resumable(rows, j, e)
=============================================================================
