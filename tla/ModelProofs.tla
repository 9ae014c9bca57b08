----------------------------- MODULE ModelProofs -----------------------------
(***************************************************************************)
(* Theorems about ModelDownloads, for any number of models, runs and       *)
(* downloads, and any number of requests, fetches, shutdowns and crashes.  *)
(***************************************************************************)
EXTENDS ModelProperties, TLAPS

-----------------------------------------------------------------------------
(* The lease.  Its marker tells on children that may still be at work, and *)
(* a server whose predecessors left some does not trust them.              *)

LeaseInv ==
  /\ marker \in [says : {"nothing", "clean", "unclean", "torn"}, boundary : Nat]
  /\ lease # "none" => marker.boundary = boundary
  /\ lease \in {"acquired", "marked"} => marker.says \in {"unclean", "torn"}
  /\ lease = "held" => marker.says = "unclean"
  /\ orphans # {} => /\ marker.says \in {"unclean", "torn"}
                     /\ marker.says = "unclean" => marker.boundary = boundary
                     /\ lease # "none" => ~proven
  /\ boundary \in Nat /\ lease \in {"none", "acquired", "held", "marked"}

leaseState == <<leaseVars, orphans>>

\* Only the steps that begin or end a server touch the lease or leave orphans.
LEMMA LeaseSteps ==
  ASSUME Next
  PROVE  \/ UNCHANGED leaseState
         \/ StartServer \/ AcquireLease \/ MarkDrained \/ Exit \/ Crash \/ Reboot
         \/ \E u \in Users : OrphanExits(u)
<1>1. CASE RemovalStep
  BY <1>1 DEF leaseState, RemovalStep, EnterBarrier, CheckRemoval, RefuseRequest,
     RenameFiles, PurgeFiles, SaveKeep, OwnerAsks, PreviewCleanup, ShowPlan, BeginCleanup,
     PlanCleanup, CollectTarget, EndCleanup, others
<1>2. CASE \/ \E r \in Runs : \/ BeginAdmission(r) \/ EndAdmission(r) \/ Dispatch(r)
                              \/ BeginStage(r) \/ FetchFiles(r) \/ EndStage(r) \/ FinishRun(r)
                              \/ CancelQueued(r) \/ StopRun(r)
           \/ ViewInventory \/ EndScan
  BY <1>2 DEF leaseState, BeginAdmission, EndAdmission, Dispatch, BeginStage, FetchFiles,
     EndStage, FinishRun, CancelQueued, StopRun, SetRun, ViewInventory, EndScan
<1>3. CASE \/ \E f \in Fetches : Enqueue(f) \/ CancelDownload(f) \/ DownloadFiles(f)
           \/ Wake \/ ClaimDownload \/ BeginDownload \/ EndDownload \/ ReadKeep \/ FindEntries
           \/ KeepNext \/ KeepAnswered \/ FinishDownload
  BY <1>3 DEF leaseState, elsewhere, around, Enqueue, CancelDownload, DownloadFiles, Wake,
     ClaimDownload, BeginDownload, EndDownload, ReadKeep, FindEntries, KeepNext,
     KeepAnswered, FinishDownload
<1>4. CASE Shutdown
  BY <1>4 DEF Shutdown, leaseState
<1> QED BY <1>1, <1>2, <1>3, <1>4 DEF Next

\* Every step keeps what the marker tells, the torn writes of a crash included.
LEMMA LeaseInductive ==
  ASSUME LeaseInv, [Next]_vars
  PROVE  LeaseInv'
<1> USE DEF LeaseInv, leaseVars
<1>1. CASE UNCHANGED leaseState
  BY <1>1 DEF leaseState
<1>2. CASE StartServer
  BY <1>2 DEF StartServer, Truncate
<1>3. CASE AcquireLease
  BY <1>3 DEF AcquireLease, Acquire, PriorStopped
<1>4. CASE MarkDrained
  BY <1>4 DEF MarkDrained, MarkWorkersStopped, MayMark
<1>5. CASE Exit
  BY <1>5 DEF Exit, Leave, MayMark
<1>6. CASE Crash
  BY <1>6 DEF Crash, LoseLease
<1>7. CASE Reboot
  BY <1>7 DEF Reboot, NextBoundary
<1>8. CASE \E u \in Users : OrphanExits(u)
  BY <1>8 DEF OrphanExits
<1>9. CASE UNCHANGED vars
  BY <1>9 DEF vars, storageVars, leaseState
<1> QED BY <1>1, <1>2, <1>3, <1>4, <1>5, <1>6, <1>7, <1>8, <1>9, LeaseSteps

\* A server that believes all earlier workers stopped is right, whatever writes of
\* the marker were cut short by whatever crash (internal/serverlock).
THEOREM ProvenServerIsAlone == Spec => []ProvenMeansAlone
<1>1. Init => LeaseInv
  BY DEF Init, StorageInit, LeaseInit, LeaseInv
<1>2. LeaseInv => ProvenMeansAlone
  BY DEF LeaseInv, ProvenMeansAlone
<1> QED BY <1>1, <1>2, LeaseInductive, PTL DEF Spec

-----------------------------------------------------------------------------
(* Types.                                                                  *)

Requests == [Writers ->
  [pc : {"idle", "waiting", "inside", "checked", "renamed", "answered"},
   op : {"none", "remove", "expire", "clear", "keep", "unkeep"},
   model : Models \cup {None}, version : FileRow \cup {None}]]
Barriers == [readers : SUBSET Runs, writer : Writers \cup {None}, waiting : SUBSET Writers]
Marks == [Models -> {"clean", "seen", "changed"}]
Rows == [Fetches -> [state : {"none", "queued", "downloading", "canceling", "completed",
                              "failed", "canceled"}, keep : BOOLEAN]]
Scans == [by : {None, "view", "preview", Collector, Service}, step : {"none", "read", "done"},
          seen : [Models -> FileRow \cup {None}]]
Workers == [pc : {"off", "idle", "looking", "claimed", "fetching", "fetched", "scanning",
                  "keeping", "finishing"},
            fetch : Fetches \cup {None}, live : BOOLEAN,
            outcome : {"none", "completed", "failed", "canceled"}, todo : SUBSET Target]
Engaged(k) == k.pc \notin {"off", "idle", "looking"} => k.fetch \in Fetches

\* A request is for a model.
Asked(q) == \A w \in Writers : q[w].pc # "idle" => q[w].model \in Models

\* TypeOK is not inductive: what a cleanup, an owner or a download plans comes from
\* an inventory, which has an entry for every model or for none, and what the
\* download worker writes concerns a catalog entry.
TypeInv ==
  /\ TypeOK
  /\ Scanned => snapshot \in [Models -> FileRow]
  /\ scan.step # "none" => scan.seen \in [Models -> FileRow]
  /\ Engaged(worker)
  /\ Asked(request)

\* The request of a writer that asks for nothing.
LEMMA NoRequestType ==
  NoRequest \in [pc : {"idle", "waiting", "inside", "checked", "renamed", "answered"},
                 op : {"none", "remove", "expire", "clear", "keep", "unkeep"},
                 model : Models \cup {None}, version : FileRow \cup {None}]
BY DEF NoRequest

\* The steps of runs and of the inventory.
LEMMA RunStepType ==
  ASSUME TypeInv,
         \/ \E r \in Runs : \/ BeginAdmission(r) \/ EndAdmission(r) \/ Dispatch(r)
                            \/ BeginStage(r) \/ FetchFiles(r) \/ EndStage(r) \/ FinishRun(r)
                            \/ CancelQueued(r) \/ StopRun(r)
         \/ ViewInventory \/ EndScan,
         UNCHANGED serviceVars
  PROVE  TypeInv'
<1> USE StorageAssumption DEF TypeInv, TypeOK, StorageTypeOK, LeaseTypeOK, leaseVars, manager,
        gate, disk, serviceVars, Users, Scanned
<1>1. ASSUME NEW r \in Runs, BeginAdmission(r) PROVE TypeInv'
  BY <1>1 DEF BeginAdmission, MayRead
<1>2. ASSUME NEW r \in Runs, EndAdmission(r) PROVE TypeInv'
  <2>1. /\ barrier' \in [readers : SUBSET Runs, writer : Writers \cup {None},
                          waiting : SUBSET Writers]
        /\ barrier'.writer # None => barrier'.readers = {}
    BY <1>2 DEF EndAdmission
  <2>2. runs' \in [Runs -> {"none", "admitting", "queued", "processing", "stopped", "done"}]
    BY <1>2 DEF EndAdmission
  <2> QED BY <1>2, <2>1, <2>2 DEF EndAdmission
<1>3. ASSUME NEW r \in Runs, Dispatch(r) PROVE TypeInv'
  BY <1>3 DEF Dispatch
<1>4. ASSUME NEW r \in Runs, BeginStage(r) PROVE TypeInv'
  BY <1>4 DEF BeginStage, BeginUse, MayRead
<1>5. ASSUME NEW r \in Runs, FetchFiles(r) PROVE TypeInv'
  BY <1>5 DEF FetchFiles, Fetch, FileRow
<1>6. ASSUME NEW r \in Runs, EndStage(r) PROVE TypeInv'
  BY <1>6 DEF EndStage, EndUse, Marked
<1>7. ASSUME NEW r \in Runs, FinishRun(r) \/ CancelQueued(r) \/ StopRun(r) PROVE TypeInv'
  BY <1>7 DEF FinishRun, CancelQueued, StopRun, SetRun
<1>8. ASSUME ViewInventory PROVE TypeInv'
  BY <1>8 DEF ViewInventory, BeginScan
<1>9. ASSUME EndScan PROVE TypeInv'
  BY <1>9 DEF EndScan, NoScan, MarksSince, MarksKept
<1> QED BY <1>1, <1>2, <1>3, <1>4, <1>5, <1>6, <1>7, <1>8, <1>9

\* The answer to a request leaves well-typed requests behind.
LEMMA LeaveBarrierType ==
  ASSUME TypeInv, NEW w \in Writers, NEW op \in {"none", "keep"}, LeaveBarrier(w, op)
  PROVE  /\ request' \in Requests /\ barrier' \in Barriers /\ barrier'.writer = None
         /\ request[w].pc # "idle" => Asked(request')
<1> DEFINE row == [pc : {"idle", "waiting", "inside", "checked", "renamed", "answered"},
                   op : {"none", "remove", "expire", "clear", "keep", "unkeep"},
                   model : Models \cup {None}, version : FileRow \cup {None}]
<1>1. request \in [Writers -> row] /\ barrier \in Barriers /\ Asked(request)
  BY DEF TypeInv, TypeOK, StorageTypeOK, Barriers
<1>5. barrier' \in Barriers /\ barrier'.writer = None
  BY <1>1 DEF LeaveBarrier, Barriers
<1>2. CASE w = Client
  <2>1. request' = [request EXCEPT ![w] = NoRequest]
    BY <1>2, StorageAssumption DEF LeaveBarrier
  <2> QED BY <1>1, <1>5, <2>1, NoRequestType DEF Requests, Asked, NoRequest
<1>3. CASE w = Collector
  <2>1. request' = [request EXCEPT ![w] = [NoRequest EXCEPT !.op = request[w].op]]
    BY <1>3, StorageAssumption DEF LeaveBarrier
  <2>2. request[w] \in row
    BY <1>1
  <2>3. [NoRequest EXCEPT !.op = request[w].op] \in row
    BY <2>2, NoRequestType DEF NoRequest
  <2> QED BY <1>1, <1>5, <2>1, <2>3 DEF Requests, Asked, NoRequest
<1>4. CASE w = Service
  <2>1. request' = [request EXCEPT ![w] = [request[w] EXCEPT !.pc = "answered", !.op = op]]
    BY <1>1, <1>4, StorageAssumption DEF LeaveBarrier
  <2>2. request[w] \in row
    BY <1>1
  <2>3. [request[w] EXCEPT !.pc = "answered", !.op = op] \in row
    BY <2>2
  <2> QED BY <1>1, <1>5, <2>1, <2>3 DEF Requests, Asked, NoRequest
<1> QED BY <1>2, <1>3, <1>4 DEF Writers

\* A request is for a model, in a version.
LEMMA AskType ==
  ASSUME TypeInv, NEW w \in Writers,
         NEW op \in {"none", "remove", "expire", "clear", "keep", "unkeep"},
         NEW t \in [model : Models, version : FileRow \cup {None}], Ask(w, op, t)
  PROVE  /\ request' \in Requests /\ Asked(request') /\ barrier' \in Barriers
         /\ barrier'.writer # None => barrier'.readers = {}
BY SMTT(30) DEF TypeInv, TypeOK, StorageTypeOK, Ask, Requests, Barriers, Asked

\* What the step of a request has to keep of the types.
LEMMA RequestStepType ==
  ASSUME TypeInv, UNCHANGED <<others, serviceVars>>,
         request' \in Requests, Asked(request'), barrier' \in Barriers,
         barrier'.writer # None => barrier'.readers = {},
         files' \in [Models -> FileRow], kept' \subseteq Models, expired' \subseteq Models,
         marks' \in Marks, plan' \subseteq Target, confirmed' \subseteq Target,
         requests' \in Nat
  PROVE  TypeInv'
BY DEF TypeInv, TypeOK, StorageTypeOK, LeaseTypeOK, leaseVars, others, serviceVars, Users,
       Scanned, Requests, Barriers, Marks

\* What a scan leaves of the types.
LEMMA ScanStepType ==
  ASSUME TypeInv, UNCHANGED <<leaseVars, disk, orphans, uses, barrier, snapshot, stopping,
                              serviceVars>>,
         request' \in Requests, Asked(request'), marks' \in Marks, plan' \subseteq Target,
         confirmed' \subseteq Target, requests' \in Nat,
         \/ BeginScan("preview", TRUE) \/ BeginScan(Collector, FALSE) \/ scan' = NoScan
  PROVE  TypeInv'
<1>1. scan' \in [by : {None, "view", "preview", Collector, Service},
                step : {"none", "read", "done"}, seen : [Models -> FileRow \cup {None}]]
  BY DEF TypeInv, TypeOK, StorageTypeOK, BeginScan, NoScan, Scanned
<1>2. scan'.step # "none" => scan'.seen \in [Models -> FileRow]
  BY DEF TypeInv, TypeOK, StorageTypeOK, BeginScan, NoScan, Scanned
<1> QED BY <1>1, <1>2 DEF TypeInv, TypeOK, StorageTypeOK, LeaseTypeOK, leaseVars, disk,
        serviceVars, Users, Scanned, Requests, Barriers, Marks

\* The steps of removals, preferences and cleanups.
LEMMA RemovalStepType ==
  ASSUME TypeInv, RemovalStep, UNCHANGED serviceVars
  PROVE  TypeInv'
<1>0. /\ request \in Requests /\ Asked(request) /\ barrier \in Barriers /\ marks \in Marks
      /\ barrier.writer # None => barrier.readers = {}
      /\ files \in [Models -> FileRow] /\ kept \subseteq Models /\ expired \subseteq Models
      /\ plan \subseteq Target /\ confirmed \subseteq Target /\ requests \in Nat
      /\ snapshot \in [Models -> FileRow \cup {None}]
      /\ scan.step # "none" => scan.seen \in [Models -> FileRow]
  BY DEF TypeInv, TypeOK, StorageTypeOK, Requests, Barriers, Marks
<1>c. Client \in Writers /\ Collector \in Writers
  BY DEF Writers
<1>m. \A S : Marked(S) \in Marks
  BY <1>0 DEF Marked, Marks
<1>e. ASSUME NEW w \in Writers, NEW pc \in {"inside", "checked", "renamed"},
             request[w].pc # "idle"
      PROVE  /\ [request EXCEPT ![w].pc = pc] \in Requests
             /\ Asked([request EXCEPT ![w].pc = pc])
  BY <1>0, <1>e DEF Requests, Asked
<1>1. ASSUME NEW w \in Writers, EnterBarrier(w) PROVE TypeInv'
  <2>1. request' \in Requests /\ Asked(request')
    BY <1>1, <1>e DEF EnterBarrier
  <2>2. barrier' \in Barriers /\ barrier'.readers = {}
    BY <1>0, <1>1 DEF EnterBarrier, Barriers
  <2> QED BY <1>0, <1>1, <2>1, <2>2, RequestStepType DEF EnterBarrier
<1>2. ASSUME NEW w \in Writers, CheckRemoval(w) PROVE TypeInv'
  <2>1. request' \in Requests /\ Asked(request')
    BY <1>2, <1>e DEF CheckRemoval
  <2> QED BY <1>0, <1>2, <2>1, RequestStepType DEF CheckRemoval
<1>3. ASSUME NEW w \in Writers, RefuseRequest(w) PROVE TypeInv'
  <2>1. /\ request' \in Requests /\ Asked(request')
        /\ barrier' \in Barriers /\ barrier'.writer = None
    BY <1>3, LeaveBarrierType DEF RefuseRequest
  <2>2. marks' \in Marks
    BY <1>0, <1>3, <1>m DEF RefuseRequest, FilesChanged
  <2> QED BY <1>0, <1>3, <2>1, <2>2, RequestStepType DEF RefuseRequest
<1>4. ASSUME NEW w \in Writers, RenameFiles(w) PROVE TypeInv'
  <2>0. request[w].model \in Models
    BY <1>0, <1>4 DEF RenameFiles, Asked
  <2>1. files' \in [Models -> FileRow]
    <3>1. PICK m \in Models : m = request[w].model
      BY <2>0
    <3>2. \/ files' = files \/ files' = [files EXCEPT ![m].left = TRUE]
          \/ files' = [files EXCEPT ![m].there = FALSE, ![m].left = TRUE]
      BY <1>4, <3>1 DEF RenameFiles
    <3>3. CASE files' = [files EXCEPT ![m].there = FALSE, ![m].left = TRUE]
      <4>1. files' = [files EXCEPT ![m] = [files[m] EXCEPT !.there = FALSE, !.left = TRUE]]
        BY <1>0, <3>3
      <4>2. [files[m] EXCEPT !.there = FALSE, !.left = TRUE] \in FileRow
        BY <1>0 DEF FileRow
      <4> QED BY <1>0, <4>1, <4>2
    <3>4. CASE files' = [files EXCEPT ![m].left = TRUE]
      BY <1>0, <3>4 DEF FileRow
    <3> QED BY <1>0, <3>2, <3>3, <3>4
  <2>2. CASE LeaveBarrier(w, "none") /\ FilesChanged({request[w].model})
    <3>1. /\ request' \in Requests /\ Asked(request')
          /\ barrier' \in Barriers /\ barrier'.writer = None
      BY <1>4, <2>2, LeaveBarrierType DEF RenameFiles
    <3>2. marks' \in Marks
      BY <2>2, <1>m DEF FilesChanged
    <3> QED BY <1>0, <1>4, <2>1, <3>1, <3>2, RequestStepType DEF RenameFiles
  <2>3. CASE request' = [request EXCEPT ![w].pc = "renamed"] /\ UNCHANGED <<barrier, marks>>
    <3>1. request' \in Requests /\ Asked(request')
      BY <1>4, <2>3, <1>e DEF RenameFiles
    <3> QED BY <1>0, <1>4, <2>1, <2>3, <3>1, RequestStepType DEF RenameFiles
  <2> QED BY <1>4, <2>2, <2>3 DEF RenameFiles
<1>5. ASSUME NEW w \in Writers, PurgeFiles(w) PROVE TypeInv'
  <2>0. request[w].model \in Models
    BY <1>0, <1>5 DEF PurgeFiles, Asked
  <2>1. files' \in [Models -> FileRow]
    <3>1. PICK m \in Models : m = request[w].model
      BY <2>0
    <3>2. files' = files \/ files' = [files EXCEPT ![m].left = FALSE]
      BY <1>5, <3>1 DEF PurgeFiles
    <3> QED BY <1>0, <3>2 DEF FileRow
  <2>2. /\ request' \in Requests /\ Asked(request')
        /\ barrier' \in Barriers /\ barrier'.writer = None
    BY <1>5, LeaveBarrierType DEF PurgeFiles
  <2>3. marks' \in Marks
    BY <1>5, <1>m DEF PurgeFiles, FilesChanged
  <2> QED BY <1>0, <1>5, <2>1, <2>2, <2>3, RequestStepType DEF PurgeFiles
<1>6. ASSUME NEW w \in Writers, SaveKeep(w) PROVE TypeInv'
  <2>1. /\ request' \in Requests /\ Asked(request')
        /\ barrier' \in Barriers /\ barrier'.writer = None
    BY <1>6, LeaveBarrierType DEF SaveKeep
  <2>2. request[w].model \in Models
    BY <1>0, <1>6 DEF SaveKeep, Asked
  <2>3. kept' \subseteq Models
    BY <1>0, <1>6, <2>2 DEF SaveKeep
  <2> QED BY <1>0, <1>6, <2>1, <2>3, RequestStepType DEF SaveKeep
<1>7. ASSUME NEW op \in {"remove", "keep", "unkeep"}, OwnerAsks(op) PROVE TypeInv'
  <2>1. PICK m \in Models : Ask(Client, op, [model |-> m, version |-> snapshot[m]])
    BY <1>7 DEF OwnerAsks
  <2>2. [model |-> m, version |-> snapshot[m]] \in [model : Models, version : FileRow \cup {None}]
    BY <1>0
  <2>3. /\ request' \in Requests /\ Asked(request') /\ barrier' \in Barriers
        /\ barrier'.writer # None => barrier'.readers = {}
    BY <1>c, <2>1, <2>2, AskType
  <2> QED BY <1>0, <1>7, <2>3, RequestStepType DEF OwnerAsks, Requested
<1>8. ASSUME BeginScan("preview", TRUE) \/ BeginScan(Collector, FALSE) PROVE marks' \in Marks
  BY <1>0, <1>8 DEF BeginScan, Marks
<1>9. ASSUME PreviewCleanup PROVE TypeInv'
  BY <1>0, <1>8, <1>9, ScanStepType DEF PreviewCleanup, Requested
<1>10. ASSUME NEW op, scan.step = "done" PROVE Targets(op) \subseteq Target
  BY <1>0, <1>10 DEF Targets, Target
<1>11. ASSUME ShowPlan PROVE TypeInv'
  BY <1>0, <1>10, <1>11, ScanStepType DEF ShowPlan, gate
<1>12. ASSUME NEW op \in {"clear", "expire"}, BeginCleanup(op) PROVE TypeInv'
  <2>1. request' \in Requests /\ Asked(request')
    BY <1>0, <1>12, <1>c DEF BeginCleanup, Requests, Asked
  <2> QED BY <1>0, <1>8, <1>12, <2>1, ScanStepType DEF BeginCleanup, Requested
<1>13. ASSUME PlanCleanup PROVE TypeInv'
  BY <1>0, <1>10, <1>13, ScanStepType DEF PlanCleanup, gate
<1>14. ASSUME CollectTarget PROVE TypeInv'
  <2>1. PICK t \in plan : Ask(Collector, request[Collector].op, t)
    BY <1>14 DEF CollectTarget
  <2>2. /\ t \in [model : Models, version : FileRow \cup {None}]
        /\ request[Collector].op \in {"none", "remove", "expire", "clear", "keep", "unkeep"}
    BY <1>0, <1>c DEF Target, Requests
  <2>3. /\ request' \in Requests /\ Asked(request') /\ barrier' \in Barriers
        /\ barrier'.writer # None => barrier'.readers = {}
    BY <1>c, <2>1, <2>2, AskType
  <2> QED BY <1>0, <1>14, <2>3, RequestStepType DEF CollectTarget
<1>15. ASSUME EndCleanup PROVE TypeInv'
  <2>1. request' \in Requests /\ Asked(request')
    BY <1>0, <1>15, <1>c, NoRequestType DEF EndCleanup, Requests, Asked, NoRequest
  <2> QED BY <1>0, <1>15, <2>1, RequestStepType DEF EndCleanup
<1> QED BY <1>1, <1>2, <1>3, <1>4, <1>5, <1>6, <1>7, <1>9, <1>11, <1>12, <1>13, <1>14, <1>15
        DEF RemovalStep

\* What the step of a download has to keep of the types.
LEMMA DownloadStepType ==
  ASSUME TypeInv, UNCHANGED around, files' \in [Models -> FileRow], requests' \in Nat,
         rows' \in Rows, uses' \subseteq Users, barrier' = barrier \/ barrier' \in Barriers,
         barrier'.writer # None => barrier'.readers = {}, marks' \in Marks,
         scan' \in Scans, scan'.step # "none" => scan'.seen \in [Models -> FileRow],
         request' \in Requests, Asked(request'), worker' \in Workers, Engaged(worker'),
         wake' \in BOOLEAN
  PROVE  TypeInv'
BY DEF TypeInv, TypeOK, StorageTypeOK, LeaseTypeOK, leaseVars, around, Scanned, Requests,
       Barriers, Marks, Rows, Scans, Workers

\* A worker that executes nothing, and one that has just claimed a download.
LEMMA NoWorkerType ==
  /\ NoWorker \in Workers /\ Engaged(NoWorker)
  /\ \A pc \in {"idle", "looking"} :
       [NoWorker EXCEPT !.pc = pc] \in Workers /\ Engaged([NoWorker EXCEPT !.pc = pc])
  /\ \A f \in Fetches : [NoWorker EXCEPT !.pc = "claimed", !.fetch = f] \in Workers
BY DEF NoWorker, Workers, Engaged

\* The steps of requests for downloads, and of the download worker.
LEMMA DownloadsType ==
  ASSUME TypeInv,
         \/ \E f \in Fetches : Enqueue(f) \/ CancelDownload(f) \/ DownloadFiles(f)
         \/ Wake \/ ClaimDownload \/ BeginDownload \/ EndDownload \/ ReadKeep \/ FindEntries
         \/ KeepNext \/ KeepAnswered \/ FinishDownload
  PROVE  TypeInv'
<1>0. /\ files \in [Models -> FileRow] /\ requests \in Nat /\ rows \in Rows
      /\ uses \subseteq Users /\ barrier \in Barriers /\ marks \in Marks
      /\ barrier.writer # None => barrier.readers = {}
      /\ scan \in Scans
      /\ scan.step # "none" => scan.seen \in [Models -> FileRow]
      /\ request \in Requests /\ Asked(request)
      /\ worker \in Workers /\ Engaged(worker) /\ wake \in BOOLEAN
      /\ Scanned => snapshot \in [Models -> FileRow]
  BY DEF TypeInv, TypeOK, StorageTypeOK, Requests, Barriers, Marks, Rows, Scans, Workers
<1>n. /\ Service \in Writers /\ Needs \in [Users -> SUBSET Models]
      /\ \A f \in Fetches : f \in Users /\ Needs[f] \subseteq Models
  BY StorageAssumption DEF Writers, Users
<1>r. ASSUME NEW f \in Fetches, NEW state \in {"none", "queued", "downloading", "canceling",
             "completed", "failed", "canceled"}, SetRow(f, state)
      PROVE  rows' \in Rows
  BY <1>0, <1>r DEF SetRow, Rows
<1>u. ASSUME NEW f \in Fetches, EndUse(f)
      PROVE  uses' \subseteq Users /\ barrier' = barrier /\ marks' \in Marks
  BY <1>0, <1>u DEF EndUse, Marked, Marks
<1>g. ASSUME NEW pc \in {"looking", "fetching", "fetched", "scanning"}, Goto(pc),
             pc # "looking" => worker.fetch \in Fetches
      PROVE  worker' \in Workers /\ Engaged(worker')
  BY <1>0, <1>g DEF Goto, Workers, Engaged
<1>f. ASSUME NEW o \in {"completed", "failed", "canceled"}, FinishAs(o),
             worker.fetch \in Fetches
      PROVE  worker' \in Workers /\ Engaged(worker')
  BY <1>0, <1>f DEF FinishAs, Workers, Engaged
<1>w. \A pc \in {"claimed", "fetching", "fetched", "scanning", "keeping", "finishing"} :
        At(pc) => worker.fetch \in Fetches
  BY <1>0 DEF At, Engaged
<1>1. ASSUME NEW f \in Fetches, Enqueue(f) PROVE TypeInv'
  <2>1. PICK keep \in BOOLEAN : rows' = [rows EXCEPT ![f] =
          IF Active(f) THEN [@ EXCEPT !.keep = @ \/ keep]
          ELSE [state |-> "queued", keep |-> keep]]
    BY <1>1 DEF Enqueue
  <2>2. rows' \in Rows
    BY <1>0, <2>1 DEF Rows
  <2> QED BY <1>0, <1>1, <2>2, DownloadStepType DEF Enqueue, Requested, gate
<1>2. ASSUME NEW f \in Fetches, CancelDownload(f) PROVE TypeInv'
  <2>1. rows' \in Rows
    BY <1>2, <1>r DEF CancelDownload
  <2>2. worker' \in Workers /\ Engaged(worker')
    BY <1>0, <1>2 DEF CancelDownload, Workers, Engaged
  <2> QED BY <1>0, <1>2, <2>1, <2>2, DownloadStepType DEF CancelDownload, elsewhere, gate
<1>3. ASSUME NEW f \in Fetches, DownloadFiles(f) PROVE TypeInv'
  <2>1. PICK m \in Needs[f] :
          files' = [files EXCEPT ![m].there = TRUE, ![m].content = @ + 1]
    BY <1>3 DEF DownloadFiles, Fetch
  <2>2. m \in Models
    BY <1>n
  <2>3. files' = [files EXCEPT ![m] =
          [files[m] EXCEPT !.there = TRUE, !.content = files[m].content + 1]]
    BY <1>0, <2>1, <2>2
  <2>4. [files[m] EXCEPT !.there = TRUE, !.content = files[m].content + 1] \in FileRow
    <3>1. files[m] \in FileRow
      BY <1>0, <2>2
    <3> DEFINE c == files[m].content + 1
    <3>2. c \in Nat
      BY <3>1 DEF FileRow
    <3> HIDE DEF c
    <3>3. [files[m] EXCEPT !.there = TRUE, !.content = c] \in FileRow
      BY <3>1, <3>2 DEF FileRow
    <3> QED BY <3>3 DEF c
  <2>5. files' \in [Models -> FileRow]
    BY <1>0, <2>2, <2>3, <2>4
  <2> QED BY <1>0, <1>3, <2>5, DownloadStepType DEF DownloadFiles, gate
<1>4. ASSUME Wake PROVE TypeInv'
  <2>1. worker' \in Workers /\ Engaged(worker') /\ wake' \in BOOLEAN
    BY <1>0, <1>4, <1>g, NoWorkerType DEF Wake
  <2> QED BY <1>0, <1>4, <2>1, DownloadStepType DEF Wake, elsewhere, gate
<1>5. ASSUME ClaimDownload PROVE TypeInv'
  <2>1. CASE UNCHANGED rows /\ (worker' = NoWorker \/ worker' = [NoWorker EXCEPT !.pc = "idle"])
    BY <1>0, <1>5, <2>1, NoWorkerType, DownloadStepType DEF ClaimDownload, elsewhere, gate
  <2>2. ASSUME NEW f \in Fetches, SetRow(f, "downloading"),
               worker' = [NoWorker EXCEPT !.pc = "claimed", !.fetch = f]
        PROVE  TypeInv'
    <3>1. worker' \in Workers /\ Engaged(worker')
      BY <2>2, NoWorkerType DEF NoWorker, Engaged
    <3>2. rows' \in Rows
      BY <1>r, <2>2
    <3> QED BY <1>0, <1>5, <3>1, <3>2, DownloadStepType DEF ClaimDownload, elsewhere, gate
  <2> QED BY <1>5, <2>1, <2>2 DEF ClaimDownload
<1>6. ASSUME BeginDownload PROVE TypeInv'
  <2>1. worker' \in Workers /\ Engaged(worker')
    BY <1>6, <1>f, <1>g, <1>w DEF BeginDownload
  <2>2. uses' \subseteq Users /\ barrier' = barrier /\ marks' = marks
    BY <1>0, <1>6, <1>n, <1>w DEF BeginDownload, BeginUse, gate
  <2> QED BY <1>0, <1>6, <2>1, <2>2, DownloadStepType DEF BeginDownload, elsewhere
<1>7. ASSUME EndDownload PROVE TypeInv'
  <2>1. worker' \in Workers /\ Engaged(worker')
    BY <1>7, <1>f, <1>g, <1>w, NoWorkerType DEF EndDownload
  <2>2. uses' \subseteq Users /\ barrier' = barrier /\ marks' \in Marks
    BY <1>0, <1>7, <1>u, <1>w DEF EndDownload, gate, FilesChanged, Marked, Marks
  <2> QED BY <1>0, <1>7, <2>1, <2>2, DownloadStepType DEF EndDownload, elsewhere
<1>8. ASSUME ReadKeep PROVE TypeInv'
  <2>1. worker' \in Workers /\ Engaged(worker')
    BY <1>8, <1>f, <1>g, <1>w DEF ReadKeep
  <2>2. ASSUME BeginScan(Service, FALSE)
        PROVE  /\ marks' \in Marks /\ scan' \in Scans
               /\ scan'.step # "none" => scan'.seen \in [Models -> FileRow]
    BY <1>0, <2>2 DEF BeginScan, Marks, Scans, Scanned
  <2>3. /\ marks' \in Marks /\ scan' \in Scans
        /\ scan'.step # "none" => scan'.seen \in [Models -> FileRow]
    BY <1>0, <1>8, <2>2 DEF ReadKeep
  <2> QED BY <1>0, <1>8, <2>1, <2>3, DownloadStepType DEF ReadKeep, elsewhere
<1>9. ASSUME FindEntries PROVE TypeInv'
  <2>1. NoScan \in Scans /\ NoScan.step = "none"
    BY DEF NoScan, Scans
  <2>2. /\ scan' \in Scans
        /\ scan'.step # "none" => scan'.seen \in [Models -> FileRow]
    BY <1>0, <1>9, <2>1 DEF FindEntries
  <2>3. worker' \in Workers /\ Engaged(worker')
    <3>1. CASE \E o \in {"failed"} : FinishAs(o)
      BY <1>9, <1>f, <1>w, <3>1 DEF FindEntries
    <3>2. CASE /\ scan.step = "done"
               /\ worker' = [worker EXCEPT !.pc = "keeping", !.todo =
                    {[model |-> m, version |-> scan.seen[m]] : m \in Needs[worker.fetch] \ kept}]
      <4>1. worker.fetch \in Fetches
        BY <1>9, <1>w DEF FindEntries
      <4>2. {[model |-> m, version |-> scan.seen[m]] : m \in Needs[worker.fetch] \ kept}
              \subseteq Target
        BY <1>0, <1>n, <3>2, <4>1 DEF Target
      <4> QED BY <1>0, <3>2, <4>1, <4>2 DEF Workers, Engaged
    <3> QED BY <1>9, <3>1, <3>2 DEF FindEntries
  <2> QED BY <1>0, <1>9, <2>2, <2>3, DownloadStepType DEF FindEntries, elsewhere, gate
<1>10. ASSUME KeepNext PROVE TypeInv'
  <2>1. CASE worker.todo = {} /\ FinishAs("completed") /\ UNCHANGED <<request, barrier>>
    <3>1. worker' \in Workers /\ Engaged(worker')
      BY <1>10, <1>f, <1>w, <2>1 DEF KeepNext
    <3> QED BY <1>0, <1>10, <2>1, <3>1, DownloadStepType DEF KeepNext, elsewhere
  <2>2. ASSUME NEW t \in worker.todo, Ask(Service, "keep", t), UNCHANGED worker
        PROVE  TypeInv'
    <3>1. t \in [model : Models, version : FileRow \cup {None}]
      BY <1>0 DEF Workers, Target
    <3>2. /\ request' \in Requests /\ Asked(request') /\ barrier' \in Barriers
          /\ barrier'.writer # None => barrier'.readers = {}
      BY <1>n, <2>2, <3>1, AskType
    <3> QED BY <1>0, <1>10, <2>2, <3>2, DownloadStepType DEF KeepNext, elsewhere
  <2> QED BY <1>10, <2>1, <2>2 DEF KeepNext
<1>11. ASSUME KeepAnswered PROVE TypeInv'
  <2>1. request' \in Requests /\ Asked(request')
    BY <1>0, <1>11, <1>n, NoRequestType DEF KeepAnswered, Requests, Asked, NoRequest
  <2>2. worker' \in Workers /\ Engaged(worker')
    <3>1. CASE FinishAs("failed")
      BY <1>11, <1>f, <1>w, <3>1 DEF KeepAnswered
    <3>2. CASE worker' = [worker EXCEPT !.todo =
                 {t \in worker.todo : t.model # request[Service].model}]
      BY <1>0, <3>2 DEF Workers, Engaged
    <3> QED BY <1>0, <1>11, <3>1, <3>2 DEF KeepAnswered, Workers
  <2> QED BY <1>0, <1>11, <2>1, <2>2, DownloadStepType DEF KeepAnswered, elsewhere, gate
<1>12. ASSUME FinishDownload PROVE TypeInv'
  <2>1. Outcome(worker.fetch) \in {"none", "completed", "failed", "canceled"}
    BY <1>0 DEF Outcome, Workers
  <2>2. rows' \in Rows
    BY <1>0, <1>12, <1>r, <1>w, <2>1 DEF FinishDownload
  <2>3. uses' \subseteq Users /\ barrier' = barrier /\ marks' \in Marks
    BY <1>0, <1>12, <1>u, <1>w DEF FinishDownload, gate
  <2> QED BY <1>0, <1>12, <2>2, <2>3, NoWorkerType, DownloadStepType DEF FinishDownload, elsewhere
<1> QED BY <1>1, <1>2, <1>3, <1>4, <1>5, <1>6, <1>7, <1>8, <1>9, <1>10, <1>11, <1>12

\* The memory of a server that does not run.
LEMMA EmptyTypes ==
  /\ [w \in Writers |-> NoRequest] \in Requests /\ Asked([w \in Writers |-> NoRequest])
  /\ [readers |-> {}, writer |-> None, waiting |-> {}] \in Barriers
  /\ [m \in Models |-> "clean"] \in Marks
  /\ [m \in Models |-> None] \in [Models -> FileRow \cup {None}]
  /\ NoScan \in Scans /\ NoScan.step = "none"
BY NoRequestType DEF Requests, Asked, NoRequest, Barriers, Marks, NoScan, Scans

\* A server that has just come to its end leaves nothing but what is on disk.
LEMMA MemoryLostType ==
  ASSUME TypeInv, MemoryLost, LeaseTypeOK', orphans' \subseteq Users, crashes' \in Nat
  PROVE  TypeInv'
<1>1. /\ request' \in Requests /\ Asked(request') /\ barrier' \in Barriers
      /\ barrier'.writer = None /\ marks' \in Marks /\ ~Scanned'
      /\ snapshot' \in [Models -> FileRow \cup {None}]
      /\ scan' \in Scans /\ scan'.step = "none" /\ uses' = {} /\ plan' = {}
      /\ stopping' = FALSE /\ wake' = FALSE
  BY EmptyTypes DEF MemoryLost, Scanned
<1>2. worker' \in Workers /\ Engaged(worker')
  BY NoWorkerType DEF MemoryLost
<1>3. runs' \in [Runs -> {"none", "admitting", "queued", "processing", "stopped", "done"}]
  BY DEF TypeInv, TypeOK, StorageTypeOK, MemoryLost
<1>4. /\ files' \in [Models -> FileRow] /\ kept' \subseteq Models /\ expired' \subseteq Models
      /\ rows' \in Rows /\ confirmed' \subseteq Target /\ requests' \in Nat
  BY DEF TypeInv, TypeOK, StorageTypeOK, MemoryLost, Rows
<1>5. StorageTypeOK'
  BY <1>1, <1>3, <1>4 DEF StorageTypeOK, Requests, Barriers, Marks, Scans, Rows
<1>6. TypeOK'
  BY <1>1, <1>2, <1>5 DEF TypeOK, Workers
<1> QED BY <1>1, <1>2, <1>6 DEF TypeInv

\* The steps that begin and end a server.
LEMMA ServerType ==
  ASSUME TypeInv,
         \/ AcquireLease \/ StartServer \/ Shutdown \/ MarkDrained \/ Exit \/ Crash \/ Reboot
         \/ \E u \in Users : OrphanExits(u)
  PROVE  TypeInv'
<1>0. LeaseTypeOK /\ orphans \subseteq Users /\ crashes \in Nat /\ worker \in Workers
      /\ Engaged(worker) /\ uses \subseteq Users
  BY DEF TypeInv, TypeOK, StorageTypeOK, Workers
<1>s. ASSUME LeaseTypeOK', orphans' \subseteq Users, stopping' \in BOOLEAN,
             UNCHANGED <<disk, gate, manager, requests, serviceVars>>
      PROVE  TypeInv'
  BY <1>s DEF TypeInv, TypeOK, StorageTypeOK, Scanned, disk, gate, manager, serviceVars
<1>1. CASE AcquireLease
  BY <1>0, <1>1, <1>s DEF AcquireLease, Acquire, PriorStopped, LeaseTypeOK, TypeInv, TypeOK,
     StorageTypeOK
<1>2. CASE StartServer
  <2>1. LeaseTypeOK'
    BY <1>0, <1>2 DEF StartServer, Truncate, LeaseTypeOK
  <2>2. runs' \in [Runs -> {"none", "admitting", "queued", "processing", "stopped", "done"}]
    BY <1>2 DEF StartServer, TypeInv, TypeOK, StorageTypeOK
  <2>3. rows' \in Rows
    <3>1. rows \in Rows
      BY DEF TypeInv, TypeOK, StorageTypeOK, Rows
    <3>2. CASE UNCHANGED rows
      BY <3>1, <3>2
    <3>3. CASE rows' = [f \in Fetches |-> [rows[f] EXCEPT !.state =
               CASE @ = "canceling" -> "canceled" [] @ = "downloading" -> "queued"
                 [] OTHER -> @]]
      BY <3>1, <3>3 DEF Rows
    <3> QED BY <1>2, <3>2, <3>3 DEF StartServer
  <2>4. worker' \in Workers /\ Engaged(worker') /\ wake' \in BOOLEAN
    BY <1>0, <1>2, NoWorkerType DEF StartServer, TypeInv, TypeOK
  <2> QED BY <1>2, <2>1, <2>2, <2>3, <2>4 DEF StartServer, TypeInv, TypeOK, StorageTypeOK, gate,
          manager, Scanned, Rows, Workers
<1>3. CASE Shutdown
  BY <1>0, <1>3, <1>s DEF Shutdown, leaseVars, LeaseTypeOK
<1>4. CASE MarkDrained
  BY <1>0, <1>4, <1>s DEF MarkDrained, MarkWorkersStopped, MayMark, LeaseTypeOK, TypeInv, TypeOK,
     StorageTypeOK
<1>5. CASE Exit
  <2>1. LeaseTypeOK'
    BY <1>0, <1>5 DEF Exit, Leave, MayMark, LeaseTypeOK
  <2> QED BY <1>0, <1>5, <2>1, MemoryLostType DEF Exit
<1>6. CASE Crash
  <2>1. LeaseTypeOK'
    BY <1>0, <1>6 DEF Crash, LoseLease, LeaseTypeOK
  <2>2. Children \subseteq Users
    BY <1>0 DEF Children, Users
  <2> QED BY <1>0, <1>6, <2>1, <2>2, MemoryLostType DEF Crash, Ends
<1>7. CASE Reboot
  <2>1. LeaseTypeOK'
    BY <1>0, <1>7 DEF Reboot, NextBoundary, LeaseTypeOK
  <2> QED BY <1>0, <1>7, <2>1, MemoryLostType DEF Reboot, Ends
<1>8. CASE \E u \in Users : OrphanExits(u)
  BY <1>0, <1>8, <1>s DEF OrphanExits, leaseVars, LeaseTypeOK, TypeInv, TypeOK, StorageTypeOK
<1> QED BY <1>1, <1>2, <1>3, <1>4, <1>5, <1>6, <1>7, <1>8

\* The types hold of a first start, before any server.
LEMMA TypeInvStart ==
  ASSUME Init
  PROVE  TypeInv
<1>1. /\ request \in Requests /\ Asked(request) /\ barrier \in Barriers
      /\ barrier.writer = None /\ marks \in Marks /\ ~Scanned
      /\ snapshot \in [Models -> FileRow \cup {None}]
      /\ scan \in Scans /\ scan.step = "none"
  BY EmptyTypes DEF Init, StorageInit, Scanned
<1>2. worker \in Workers /\ Engaged(worker)
  BY NoWorkerType DEF Init
<1>3. LeaseTypeOK
  BY DEF Init, StorageInit, LeaseInit, LeaseTypeOK
<1>4. StorageTypeOK
  BY <1>1, <1>3 DEF Init, StorageInit, StorageTypeOK, Requests, Barriers, Marks, Scans, FileRow
<1>5. TypeOK
  BY <1>2, <1>4 DEF Init, TypeOK, Workers
<1> QED BY <1>1, <1>2, <1>5 DEF TypeInv

\* Every step keeps the types.
LEMMA TypeInvStep == TypeInv /\ [Next]_vars => TypeInv'
<1> SUFFICES ASSUME TypeInv, [Next]_vars PROVE TypeInv'
  OBVIOUS
<1>1. CASE UNCHANGED vars
  BY <1>1 DEF vars, storageVars, serviceVars, leaseVars, disk, gate, manager, TypeInv, TypeOK,
     StorageTypeOK, LeaseTypeOK, Scanned
<1>2. CASE Next
  BY <1>2, RunStepType, RemovalStepType, DownloadsType, ServerType DEF Next
<1> QED BY <1>1, <1>2

\* Every variable keeps its type, whatever the server, its owner and its children do.
THEOREM TypeCorrect == Spec => []TypeOK
<1>1. TypeInv => TypeOK
  BY DEF TypeInv
<1> QED BY <1>1, TypeInvStart, TypeInvStep, PTL DEF Spec

-----------------------------------------------------------------------------
(* Removals and uses.  Whoever has files of a model in hand is listed, by   *)
(* its server or in the rows that survive it; a removal holds the barrier  *)
(* from its look at the lists to its end, and no list grows under it.      *)

\* Only admissions, their end, dispatch, stops and the end of a run, and the start and
\* the end of a server write what becomes of runs.
LEMMA RunSteps ==
  ASSUME Next
  PROVE  \/ UNCHANGED runs \/ StartServer \/ MemoryLost
         \/ \E r \in Runs : \/ BeginAdmission(r) \/ EndAdmission(r) \/ Dispatch(r)
                            \/ FinishRun(r) \/ CancelQueued(r) \/ StopRun(r)
<1>1. CASE RemovalStep
  BY <1>1 DEF RemovalStep, EnterBarrier, CheckRemoval, RefuseRequest, RenameFiles, PurgeFiles,
     SaveKeep, OwnerAsks, PreviewCleanup, ShowPlan, BeginCleanup, PlanCleanup, CollectTarget,
     EndCleanup, others, disk
<1>2. CASE \/ \E r \in Runs : \/ BeginAdmission(r) \/ EndAdmission(r) \/ Dispatch(r)
                              \/ BeginStage(r) \/ FetchFiles(r) \/ EndStage(r) \/ FinishRun(r)
                              \/ CancelQueued(r) \/ StopRun(r)
           \/ ViewInventory \/ EndScan
  BY <1>2 DEF BeginStage, FetchFiles, EndStage, ViewInventory, EndScan, disk
<1>3. CASE \/ \E f \in Fetches : Enqueue(f) \/ CancelDownload(f) \/ DownloadFiles(f)
           \/ Wake \/ ClaimDownload \/ BeginDownload \/ EndDownload \/ ReadKeep \/ FindEntries
           \/ KeepNext \/ KeepAnswered \/ FinishDownload
  BY <1>3 DEF Enqueue, CancelDownload, DownloadFiles, Wake, ClaimDownload, BeginDownload,
     EndDownload, ReadKeep, FindEntries, KeepNext, KeepAnswered, FinishDownload, elsewhere, around
<1>4. CASE \/ AcquireLease \/ StartServer \/ Shutdown \/ MarkDrained \/ Exit \/ Crash \/ Reboot
           \/ \E u \in Users : OrphanExits(u)
  BY <1>4 DEF AcquireLease, Shutdown, MarkDrained, Exit, Crash, Reboot, OrphanExits, disk
<1> QED BY <1>1, <1>2, <1>3, <1>4 DEF Next

\* A stopped run stays stopped.
LEMMA StoppedStays ==
  ASSUME TypeInv, [Next]_vars
  PROVE  Stopped \subseteq Stopped'
<1>0. runs \in [Runs -> {"none", "admitting", "queued", "processing", "stopped", "done"}]
  BY DEF TypeInv, TypeOK, StorageTypeOK
<1>1. CASE UNCHANGED runs
  BY <1>1 DEF Stopped
<1>2. CASE StartServer \/ MemoryLost
  BY <1>0, <1>2 DEF StartServer, MemoryLost, Stopped
<1>3. CASE \E r \in Runs : \/ BeginAdmission(r) \/ EndAdmission(r) \/ Dispatch(r)
                          \/ FinishRun(r) \/ CancelQueued(r) \/ StopRun(r)
  BY <1>0, <1>3 DEF BeginAdmission, EndAdmission, Dispatch, FinishRun, CancelQueued, StopRun, SetRun,
     Stopped
<1>4. CASE UNCHANGED vars
  BY <1>1, <1>4 DEF vars, storageVars, disk
<1> QED BY <1>1, <1>2, <1>3, <1>4, RunSteps

\* One request at a time is behind the barrier.
BarrierIsOwned ==
  \A w \in Writers : request[w].pc \in {"inside", "checked", "renamed"} => barrier.writer = w

\* What a removal has checked stays so until it renames the files.
CheckedIsFree ==
  \A w \in Writers : request[w].pc = "checked" =>
    /\ request[w].model \notin kept
    /\ \A u \in Protected : request[w].model \notin Needs[u]

\* The rows name every child that has outlived its server, unless its run was stopped:
\* every child of a server has a row that says so, and no server that could have left
\* some resets rows when it starts.
UsesAreListed ==
  /\ orphans \subseteq DurableUses \cup Stopped
  /\ \A r \in uses \cap Runs : runs[r] \in {"processing", "stopped"}
  /\ worker.pc \notin {"off", "idle", "looking"} =>
       rows[worker.fetch].state \in {"downloading", "canceling"}

\* Only a server that is alone has a download worker, and only a running one uses.
WorkerIsTrusted == worker.pc # "off" => lease = "held" /\ proven
IdleUsesNothing == lease # "held" => uses = {}

UseInv == /\ TypeInv /\ LeaseInv /\ BarrierIsOwned /\ CheckedIsFree /\ UsesAreListed
          /\ WorkerIsTrusted /\ IdleUsesNothing

\* What holds of requests outlasts every step that adds no use and no preference.
LEMMA RequestsStay ==
  ASSUME BarrierIsOwned, CheckedIsFree, UNCHANGED request, barrier'.writer = barrier.writer,
         kept' \subseteq kept, uses' \subseteq uses, orphans' \subseteq orphans,
         Stopped \subseteq Stopped'
  PROVE  BarrierIsOwned' /\ CheckedIsFree'
BY DEF BarrierIsOwned, CheckedIsFree, Protected

\* A use may begin when no removal is behind the barrier.
LEMMA NobodyBehind ==
  ASSUME BarrierIsOwned, UNCHANGED request, barrier'.writer = None, barrier.writer = None
  PROVE  BarrierIsOwned' /\ CheckedIsFree'
<1>1. \A w \in Writers : request[w].pc \notin {"inside", "checked", "renamed"}
  BY StorageAssumption DEF BarrierIsOwned
<1> QED BY <1>1 DEF BarrierIsOwned, CheckedIsFree

\* The lists outlast every step that leaves rows, uses and the server alone.
LEMMA ListsStay ==
  ASSUME UsesAreListed, WorkerIsTrusted, IdleUsesNothing,
         UNCHANGED <<leaseVars, runs, rows, orphans, uses, worker>>
  PROVE  UsesAreListed' /\ WorkerIsTrusted' /\ IdleUsesNothing'
BY DEF UsesAreListed, WorkerIsTrusted, IdleUsesNothing, DurableUses, Stopped, leaseVars

\* When a request ends, the barrier is free; nobody else was behind it.
LEMMA LeaveKeepsOthersOut ==
  ASSUME UseInv, NEW w \in Writers, NEW op \in {"none", "keep"}, LeaveBarrier(w, op),
         request[w].pc \in {"inside", "checked", "renamed"}
  PROVE  BarrierIsOwned' /\ CheckedIsFree'
<1>1. request \in [Writers -> [pc : {"idle", "waiting", "inside", "checked", "renamed",
                                    "answered"},
                              op : {"none", "remove", "expire", "clear", "keep", "unkeep"},
                              model : Models \cup {None}, version : FileRow \cup {None}]]
  BY DEF UseInv, TypeInv, TypeOK, StorageTypeOK
<1>2. \A v \in Writers : v # w => request'[v] = request[v]
                               /\ request[v].pc \notin {"inside", "checked", "renamed"}
  BY <1>1 DEF LeaveBarrier, UseInv, BarrierIsOwned
<1>3. request'[w].pc \in {"idle", "answered"}
  <2>1. CASE w = Client
    <3>1. request' = [request EXCEPT ![w] = NoRequest]
      BY <2>1, StorageAssumption DEF LeaveBarrier
    <3> QED BY <1>1, <3>1 DEF NoRequest
  <2>2. CASE w = Collector
    <3>1. request' = [request EXCEPT ![w] = [NoRequest EXCEPT !.op = request[w].op]]
      BY <2>2, StorageAssumption DEF LeaveBarrier
    <3> QED BY <1>1, <3>1 DEF NoRequest
  <2>3. CASE w = Service
    <3>1. request' = [request EXCEPT ![w] = [request[w] EXCEPT !.pc = "answered", !.op = op]]
      BY <1>1, <2>3, StorageAssumption DEF LeaveBarrier
    <3> QED BY <1>1, <3>1
  <2> QED BY <2>1, <2>2, <2>3 DEF Writers
<1>4. \A v \in Writers : request'[v].pc \notin {"inside", "checked", "renamed"}
  BY <1>2, <1>3
<1> QED BY <1>4 DEF BarrierIsOwned, CheckedIsFree

\* The steps of removals, preferences and cleanups.
LEMMA RemovalStepUse ==
  ASSUME UseInv, RemovalStep, UNCHANGED serviceVars
  PROVE  BarrierIsOwned' /\ CheckedIsFree' /\ UsesAreListed' /\ WorkerIsTrusted'
           /\ IdleUsesNothing'
<1>0. /\ request \in Requests /\ barrier \in Barriers /\ BarrierIsOwned /\ CheckedIsFree
      /\ Client \in Writers /\ Collector \in Writers
  BY DEF UseInv, TypeInv, TypeOK, StorageTypeOK, Requests, Barriers, Writers
<1>1. UsesAreListed' /\ WorkerIsTrusted' /\ IdleUsesNothing'
  BY ListsStay DEF UseInv, RemovalStep, EnterBarrier, CheckRemoval, RefuseRequest, RenameFiles,
     PurgeFiles, SaveKeep, OwnerAsks, PreviewCleanup, ShowPlan, BeginCleanup, PlanCleanup,
     CollectTarget, EndCleanup, others, serviceVars, disk, gate
<1>2. ASSUME NEW w \in Writers, EnterBarrier(w) PROVE BarrierIsOwned' /\ CheckedIsFree'
  <2>1. \A v \in Writers : request[v].pc \notin {"inside", "checked", "renamed"}
    BY <1>0, <1>2, StorageAssumption DEF EnterBarrier, BarrierIsOwned
  <2>2. \A v \in Writers : request'[v].pc \in {"inside", "checked", "renamed"} => v = w
    BY <1>0, <1>2, <2>1 DEF EnterBarrier, Requests
  <2>3. barrier'.writer = w /\ request'[w].pc = "inside"
    BY <1>0, <1>2 DEF EnterBarrier, Requests, Barriers
  <2> QED BY <2>2, <2>3 DEF BarrierIsOwned, CheckedIsFree
<1>3. ASSUME NEW w \in Writers, CheckRemoval(w) PROVE BarrierIsOwned' /\ CheckedIsFree'
  <2>1. /\ \A v \in Writers : v # w => request'[v] = request[v]
        /\ request'[w].model = request[w].model /\ request[w].pc = "inside"
    BY <1>0, <1>3 DEF CheckRemoval, Requests
  <2>2. BarrierIsOwned'
    BY <1>0, <1>3, <2>1 DEF CheckRemoval, BarrierIsOwned
  <2>3. request[w].model \notin kept /\ \A u \in Protected : request[w].model \notin Needs[u]
    BY <1>3 DEF CheckRemoval, Removable, InUse, UseInv, UsesAreListed, Protected
  <2> QED BY <1>0, <1>3, <2>1, <2>2, <2>3 DEF CheckRemoval, CheckedIsFree, others,
          Protected, Stopped, disk
<1>4. ASSUME NEW w \in Writers, RefuseRequest(w) PROVE BarrierIsOwned' /\ CheckedIsFree'
  BY <1>4, LeaveKeepsOthersOut DEF RefuseRequest
<1>5. ASSUME NEW w \in Writers, RenameFiles(w) PROVE BarrierIsOwned' /\ CheckedIsFree'
  <2>1. CASE LeaveBarrier(w, "none")
    BY <1>5, <2>1, LeaveKeepsOthersOut DEF RenameFiles
  <2>2. CASE request' = [request EXCEPT ![w].pc = "renamed"] /\ UNCHANGED barrier
    BY <1>0, <1>5, <2>2 DEF RenameFiles, others, BarrierIsOwned, CheckedIsFree, Requests
  <2> QED BY <1>5, <2>1, <2>2 DEF RenameFiles
<1>6. ASSUME NEW w \in Writers, PurgeFiles(w) PROVE BarrierIsOwned' /\ CheckedIsFree'
  BY <1>6, LeaveKeepsOthersOut DEF PurgeFiles
<1>7. ASSUME NEW w \in Writers, SaveKeep(w) PROVE BarrierIsOwned' /\ CheckedIsFree'
  BY <1>7, LeaveKeepsOthersOut DEF SaveKeep
<1>8. ASSUME NEW w \in Writers, NEW op, NEW t, Ask(w, op, t), UNCHANGED <<kept, others>>,
             request[w].pc = "idle"
      PROVE  BarrierIsOwned' /\ CheckedIsFree'
  <2>1. /\ \A v \in Writers : v # w => request'[v] = request[v]
        /\ request'[w].pc = "waiting" /\ barrier'.writer = barrier.writer
    BY <1>0, <1>8 DEF Ask, Requests, Barriers
  <2> QED BY <1>0, <1>8, <2>1 DEF others, BarrierIsOwned, CheckedIsFree, Protected, Stopped, disk
<1>9. ASSUME NEW op \in {"remove", "keep", "unkeep"}, OwnerAsks(op)
      PROVE  BarrierIsOwned' /\ CheckedIsFree'
  BY <1>0, <1>8, <1>9 DEF OwnerAsks
<1>10. CASE PreviewCleanup \/ ShowPlan \/ PlanCleanup
  <2>1. UNCHANGED <<request, barrier, kept, runs, uses, orphans>>
    BY <1>10 DEF PreviewCleanup, ShowPlan, PlanCleanup, gate, disk
  <2> QED BY <1>0, <1>1, <2>1, RequestsStay DEF Stopped
<1>11. ASSUME NEW op \in {"clear", "expire"}, BeginCleanup(op)
       PROVE  BarrierIsOwned' /\ CheckedIsFree'
  BY <1>0, <1>11 DEF BeginCleanup, Idle, NoRequest, disk, Requests, BarrierIsOwned, CheckedIsFree,
     Protected, Stopped
<1>12. CASE CollectTarget
  <2>1. PICK t \in plan : Ask(Collector, request[Collector].op, t)
    BY <1>12 DEF CollectTarget
  <2> QED BY <1>0, <1>1, <1>8, <1>12, <2>1 DEF CollectTarget
<1>13. CASE EndCleanup
  <2>1. /\ \A v \in Writers : v # Collector => request'[v] = request[v]
        /\ request'[Collector].pc = "idle"
    BY <1>0, <1>13 DEF EndCleanup, NoRequest, Requests
  <2> QED BY <1>0, <1>1, <1>13, <2>1 DEF EndCleanup, others, BarrierIsOwned, CheckedIsFree,
          Protected, Stopped, disk
<1> QED BY <1>1, <1>2, <1>3, <1>4, <1>5, <1>6, <1>7, <1>9, <1>10, <1>11, <1>12, <1>13
        DEF RemovalStep

\* The steps of runs and of the inventory.
LEMMA RunStepUse ==
  ASSUME UseInv,
         \/ \E r \in Runs : \/ BeginAdmission(r) \/ EndAdmission(r) \/ Dispatch(r)
                            \/ BeginStage(r) \/ FetchFiles(r) \/ EndStage(r) \/ FinishRun(r)
                            \/ CancelQueued(r) \/ StopRun(r)
         \/ ViewInventory \/ EndScan,
         UNCHANGED serviceVars
  PROVE  BarrierIsOwned' /\ CheckedIsFree' /\ UsesAreListed' /\ WorkerIsTrusted'
           /\ IdleUsesNothing'
<1>s. Stopped \subseteq Stopped'
  BY StoppedStays DEF UseInv, Next
<1>0. /\ runs \in [Runs -> {"none", "admitting", "queued", "processing", "stopped", "done"}]
      /\ barrier \in Barriers /\ Runs \cap Fetches = {} /\ uses \subseteq Users
      /\ BarrierIsOwned /\ CheckedIsFree /\ UsesAreListed /\ WorkerIsTrusted /\ IdleUsesNothing
      /\ UNCHANGED <<worker, request, orphans, kept, rows, leaseVars>>
  BY StorageAssumption DEF UseInv, TypeInv, TypeOK, StorageTypeOK, Barriers, serviceVars, manager,
     disk, BeginAdmission, EndAdmission, Dispatch, BeginStage, FetchFiles, EndStage, FinishRun,
     CancelQueued, StopRun, SetRun,
     ViewInventory, EndScan
<1>1. ASSUME NEW r \in Runs, BeginStage(r) PROVE UsesAreListed' /\ IdleUsesNothing'
                                                /\ BarrierIsOwned' /\ CheckedIsFree'
  <2>1. BarrierIsOwned' /\ CheckedIsFree'
    BY <1>0, <1>1, NobodyBehind DEF BeginStage, BeginUse, MayRead
  <2> QED BY <1>0, <1>1, <2>1 DEF BeginStage, BeginUse, disk, Up, leaseVars, UsesAreListed,
          IdleUsesNothing, DurableUses, Stopped
<1>2. CASE \E r \in Runs : BeginStage(r)
  BY <1>0, <1>1, <1>2 DEF WorkerIsTrusted, leaseVars
<1>3. CASE UNCHANGED <<runs, uses, barrier>>
  <2>1. BarrierIsOwned' /\ CheckedIsFree'
    BY <1>0, <1>3, <1>s, RequestsStay
  <2> QED BY <1>0, <1>3, <2>1, ListsStay
<1>4. ASSUME NEW r \in Runs, EndStage(r)
      PROVE  UsesAreListed' /\ IdleUsesNothing' /\ BarrierIsOwned' /\ CheckedIsFree'
  <2>1. UNCHANGED barrier /\ uses' \subseteq uses
    BY <1>4 DEF EndStage, EndUse
  <2>2. BarrierIsOwned' /\ CheckedIsFree'
    BY <1>0, <2>1, <1>s, RequestsStay
  <2> QED BY <1>0, <1>4, <2>1, <2>2 DEF EndStage, disk, leaseVars, UsesAreListed, IdleUsesNothing,
          DurableUses, Stopped
<1>5. CASE \E r \in Runs : EndStage(r)
  BY <1>0, <1>4, <1>5 DEF WorkerIsTrusted, leaseVars
<1>6. ASSUME NEW r \in Runs, BeginAdmission(r) \/ EndAdmission(r) \/ Dispatch(r) \/ FinishRun(r)
                             \/ CancelQueued(r) \/ StopRun(r)
      PROVE  UsesAreListed' /\ IdleUsesNothing' /\ BarrierIsOwned' /\ CheckedIsFree'
  <2>1. barrier'.writer = barrier.writer /\ UNCHANGED uses
    BY <1>0, <1>6 DEF BeginAdmission, EndAdmission, Dispatch, FinishRun,
       CancelQueued, StopRun, SetRun, Barriers, gate
  <2>2. BarrierIsOwned' /\ CheckedIsFree'
    BY <1>0, <2>1, <1>s, RequestsStay
  <2>3. \A q \in Runs : runs[q] \in {"processing", "stopped"} /\ q \in uses \cup orphans
                       => runs'[q] \in {"processing", "stopped"}
    BY <1>0, <1>6 DEF BeginAdmission, EndAdmission, Dispatch, FinishRun,
       CancelQueued, StopRun, SetRun
  <2> QED BY <1>0, <2>1, <2>2, <2>3 DEF leaseVars, UsesAreListed, IdleUsesNothing, DurableUses,
          Stopped
<1>7. CASE \E r \in Runs : BeginAdmission(r) \/ EndAdmission(r) \/ Dispatch(r) \/ FinishRun(r)
                           \/ CancelQueued(r) \/ StopRun(r)
  BY <1>0, <1>6, <1>7 DEF WorkerIsTrusted, leaseVars
<1>8. CASE (\E r \in Runs : FetchFiles(r)) \/ ViewInventory \/ EndScan
  BY <1>3, <1>8 DEF FetchFiles, ViewInventory, EndScan, gate, disk
<1> QED BY <1>2, <1>5, <1>7, <1>8

\* While a server has a download worker, no child of another is at work.
LEMMA WorkerIsAlone ==
  ASSUME UseInv, worker.pc # "off"
  PROVE  orphans = {} /\ lease = "held"
BY DEF UseInv, WorkerIsTrusted, LeaseInv

\* The steps of requests for downloads, and of the download worker.
LEMMA DownloadsUse ==
  ASSUME UseInv,
         \/ \E f \in Fetches : Enqueue(f) \/ CancelDownload(f) \/ DownloadFiles(f)
         \/ Wake \/ ClaimDownload \/ BeginDownload \/ EndDownload \/ ReadKeep \/ FindEntries
         \/ KeepNext \/ KeepAnswered \/ FinishDownload
  PROVE  BarrierIsOwned' /\ CheckedIsFree' /\ UsesAreListed' /\ WorkerIsTrusted'
           /\ IdleUsesNothing'
<1> DEFINE engaged == worker.pc \notin {"off", "idle", "looking"}
           listed(f) == rows[f].state \in {"downloading", "canceling"}
<1>0. /\ request \in Requests /\ barrier \in Barriers /\ rows \in Rows /\ worker \in Workers
      /\ Runs \cap Fetches = {} /\ uses \subseteq Users /\ Service \in Writers
      /\ engaged => worker.fetch \in Fetches /\ listed(worker.fetch)
      /\ BarrierIsOwned /\ CheckedIsFree /\ UsesAreListed /\ WorkerIsTrusted /\ IdleUsesNothing
      /\ UNCHANGED <<leaseVars, kept, runs, orphans>>
  BY StorageAssumption DEF UseInv, TypeInv, TypeOK, StorageTypeOK, Barriers, Rows, Requests, Workers,
     Engaged, UsesAreListed, Writers, elsewhere, around, Enqueue, CancelDownload, DownloadFiles,
     Wake, ClaimDownload, BeginDownload, EndDownload, ReadKeep, FindEntries, KeepNext, KeepAnswered,
     FinishDownload
\* The step of a worker: what it executes stays, or the worker looks for the next.
<1>w. ASSUME worker.pc # "off",
             \/ worker'.pc \in {"off", "idle", "looking"}
             \/ worker'.fetch \in Fetches /\ rows'[worker'.fetch].state \in {"downloading", "canceling"},
             \A r \in uses' \cap Runs : r \in uses
      PROVE  UsesAreListed' /\ WorkerIsTrusted' /\ IdleUsesNothing'
  BY <1>0, <1>w, WorkerIsAlone DEF UsesAreListed, WorkerIsTrusted, IdleUsesNothing, leaseVars
<1>o. ASSUME UNCHANGED <<request, barrier>>, uses' \subseteq uses
      PROVE  BarrierIsOwned' /\ CheckedIsFree'
  BY <1>0, <1>o, RequestsStay DEF Stopped
<1>1. ASSUME NEW f \in Fetches, Enqueue(f)
      PROVE  UsesAreListed' /\ WorkerIsTrusted' /\ IdleUsesNothing' /\ UNCHANGED <<request, barrier, uses>>
  <2>1. PICK keep \in BOOLEAN : rows' = [rows EXCEPT ![f] =
          IF Active(f) THEN [@ EXCEPT !.keep = @ \/ keep]
          ELSE [state |-> "queued", keep |-> keep]]
    BY <1>1 DEF Enqueue
  <2>2. \A g \in Fetches : listed(g) => rows'[g].state = rows[g].state
    BY <1>0, <2>1 DEF Rows, Active
  <2>3. UNCHANGED <<request, barrier, uses, worker>> /\ worker.pc # "off"
    BY <1>1 DEF Enqueue, gate, Available
  <2> QED BY <1>0, <1>w, <2>2, <2>3
<1>2. ASSUME NEW f \in Fetches, CancelDownload(f)
      PROVE  UsesAreListed' /\ WorkerIsTrusted' /\ IdleUsesNothing' /\ UNCHANGED <<request, barrier, uses>>
  <2>1. \A g \in Fetches : listed(g) => rows'[g].state \in {"downloading", "canceling"}
    BY <1>0, <1>2 DEF CancelDownload, SetRow, Rows
  <2>2. /\ UNCHANGED <<request, barrier, uses>> /\ worker.pc # "off"
        /\ worker'.pc = worker.pc /\ worker'.fetch = worker.fetch
    BY <1>0, <1>2 DEF CancelDownload, gate, Available, Workers
  <2> QED BY <1>0, <1>w, <2>1, <2>2
<1>3. ASSUME NEW f \in Fetches, DownloadFiles(f)
      PROVE  UsesAreListed' /\ WorkerIsTrusted' /\ IdleUsesNothing' /\ UNCHANGED <<request, barrier, uses>>
  BY <1>0, <1>3, ListsStay DEF DownloadFiles, gate
<1>4. ASSUME Wake
      PROVE  UsesAreListed' /\ WorkerIsTrusted' /\ IdleUsesNothing' /\ UNCHANGED <<request, barrier, uses>>
  <2>1. worker.pc # "off" /\ worker'.pc \in {"off", "looking"} /\ UNCHANGED <<request, barrier, uses>>
    BY <1>0, <1>4 DEF Wake, At, Goto, NoWorker, gate, Workers
  <2> QED BY <1>w, <2>1
<1>5. ASSUME ClaimDownload
      PROVE  UsesAreListed' /\ WorkerIsTrusted' /\ IdleUsesNothing' /\ UNCHANGED <<request, barrier, uses>>
  <2>1. worker.pc # "off" /\ UNCHANGED <<request, barrier, uses>>
    BY <1>5 DEF ClaimDownload, At, gate
  <2>2. \/ worker'.pc \in {"off", "idle"}
        \/ worker'.fetch \in Fetches /\ rows'[worker'.fetch].state = "downloading"
    <3>1. CASE worker' = NoWorker \/ worker' = [NoWorker EXCEPT !.pc = "idle"]
      BY <3>1 DEF NoWorker
    <3>2. ASSUME NEW f \in Fetches, SetRow(f, "downloading"),
                 worker' = [NoWorker EXCEPT !.pc = "claimed", !.fetch = f]
          PROVE  worker'.fetch \in Fetches /\ rows'[worker'.fetch].state = "downloading"
      BY <1>0, <3>2 DEF NoWorker, SetRow, Rows
    <3> QED BY <1>5, <3>1, <3>2 DEF ClaimDownload
  <2> QED BY <1>w, <2>1, <2>2
<1>6. CASE BeginDownload
  <2>1. worker.pc # "off" /\ engaged /\ UNCHANGED <<request, barrier, rows>>
    BY <1>6 DEF BeginDownload, At, BeginUse, gate
  <2>2. worker'.fetch = worker.fetch
    BY <1>0, <1>6 DEF BeginDownload, Goto, FinishAs, Workers
  <2>3. uses' = uses \/ (MayRead /\ uses' = uses \cup {worker.fetch})
    BY <1>6 DEF BeginDownload, BeginUse, gate
  <2>4. BarrierIsOwned' /\ CheckedIsFree'
    <3>1. CASE uses' = uses
      BY <1>o, <2>1, <3>1
    <3>2. CASE MayRead
      BY <1>0, <2>1, <3>2, NobodyBehind DEF MayRead
    <3> QED BY <2>3, <3>1, <3>2
  <2> QED BY <1>0, <1>w, <2>1, <2>2, <2>3, <2>4
<1>7. ASSUME EndDownload
      PROVE  UsesAreListed' /\ WorkerIsTrusted' /\ IdleUsesNothing'
             /\ UNCHANGED <<request, barrier>> /\ uses' \subseteq uses
  <2>1. engaged /\ UNCHANGED <<request, barrier, rows>> /\ uses' \subseteq uses
    BY <1>7 DEF EndDownload, At, EndUse, gate
  <2>2. worker'.pc = "off" \/ worker'.fetch = worker.fetch
    <3>1. worker' = NoWorker \/ Goto("fetched") \/ FinishAs("canceled") \/ FinishAs("failed")
      BY <1>7 DEF EndDownload
    <3>2. CASE worker' = NoWorker
      BY <3>2 DEF NoWorker
    <3>3. CASE Goto("fetched")
      BY <1>0, <3>3 DEF Goto, Workers
    <3>4. CASE FinishAs("canceled") \/ FinishAs("failed")
      BY <1>0, <3>4 DEF FinishAs, Workers
    <3> QED BY <3>1, <3>2, <3>3, <3>4
  <2> QED BY <1>0, <1>w, <2>1, <2>2
<1>8. ASSUME ReadKeep \/ FindEntries
      PROVE  UsesAreListed' /\ WorkerIsTrusted' /\ IdleUsesNothing' /\ UNCHANGED <<request, barrier, uses>>
  <2>1. engaged /\ UNCHANGED <<request, barrier, rows, uses>>
    BY <1>8 DEF ReadKeep, FindEntries, At, gate
  <2>2. worker'.fetch = worker.fetch
    BY <1>0, <1>8 DEF ReadKeep, FindEntries, Goto, FinishAs, Workers
  <2> QED BY <1>0, <1>w, <2>1, <2>2
<1>9. ASSUME KeepNext \/ KeepAnswered
      PROVE  UsesAreListed' /\ WorkerIsTrusted' /\ IdleUsesNothing'
  <2>1. engaged /\ UNCHANGED <<rows, uses>>
    BY <1>9 DEF KeepNext, KeepAnswered, At, gate
  <2>2. worker'.fetch = worker.fetch
    BY <1>0, <1>9 DEF KeepNext, KeepAnswered, FinishAs, Workers
  <2> QED BY <1>0, <1>w, <2>1, <2>2
<1>10. ASSUME KeepNext \/ KeepAnswered PROVE BarrierIsOwned' /\ CheckedIsFree'
  <2>1. CASE UNCHANGED <<request, barrier>>
    BY <1>10, <1>o, <2>1 DEF KeepNext, KeepAnswered, gate
  <2>2. CASE \E t : Ask(Service, "keep", t) /\ Idle(Service)
    <3>1. /\ \A v \in Writers : v # Service => request'[v] = request[v]
          /\ request'[Service].pc = "waiting" /\ barrier'.writer = barrier.writer
      BY <1>0, <2>2 DEF Ask, Requests, Barriers
    <3>2. request[Service].pc = "idle"
      BY <2>2 DEF Idle, NoRequest
    <3>3. UNCHANGED uses
      BY <1>10 DEF KeepNext, KeepAnswered, gate
    <3> QED BY <1>0, <3>1, <3>2, <3>3 DEF BarrierIsOwned, CheckedIsFree, Protected, Stopped
  <2>3. CASE KeepAnswered
    <3>1. /\ \A v \in Writers : v # Service => request'[v] = request[v]
          /\ request'[Service].pc = "idle" /\ UNCHANGED <<barrier, uses>>
      BY <1>0, <2>3 DEF KeepAnswered, Requests, gate, NoRequest
    <3> QED BY <1>0, <3>1 DEF BarrierIsOwned, CheckedIsFree, Protected, Stopped
  <2> QED BY <1>10, <2>1, <2>2, <2>3 DEF KeepNext
<1>11. ASSUME FinishDownload
       PROVE  UsesAreListed' /\ WorkerIsTrusted' /\ IdleUsesNothing'
              /\ UNCHANGED <<request, barrier>> /\ uses' \subseteq uses
  <2>1. engaged /\ UNCHANGED <<request, barrier>> /\ uses' \subseteq uses
    BY <1>11 DEF FinishDownload, At, EndUse, gate
  <2>2. worker'.pc = "looking"
    BY <1>11 DEF FinishDownload, NoWorker
  <2> QED BY <1>w, <2>1, <2>2
<1> QED BY <1>o, <1>1, <1>2, <1>3, <1>4, <1>5, <1>6, <1>7, <1>8, <1>9, <1>10, <1>11

\* What a server leaves when it ends, if the rows name the children it leaves.
LEMMA MemoryLostUse ==
  ASSUME UseInv, MemoryLost, lease' = "none", orphans' \subseteq orphans \cup Children
  PROVE  BarrierIsOwned' /\ CheckedIsFree' /\ UsesAreListed' /\ WorkerIsTrusted'
           /\ IdleUsesNothing'
<1>1. \A w \in Writers : request'[w].pc = "idle"
  BY DEF MemoryLost, NoRequest
<1>2. BarrierIsOwned' /\ CheckedIsFree'
  BY <1>1 DEF BarrierIsOwned, CheckedIsFree
<1>3. uses' = {} /\ worker'.pc = "off"
  BY DEF MemoryLost, NoWorker
<1>4. runs \in [Runs -> {"none", "admitting", "queued", "processing", "stopped", "done"}]
  BY DEF UseInv, TypeInv, TypeOK, StorageTypeOK
<1>5. DurableUses \subseteq DurableUses' /\ Stopped \subseteq Stopped'
  BY <1>4 DEF DurableUses, MemoryLost, Stopped
<1>6. Children \subseteq DurableUses \cup Stopped
  BY DEF Children, DurableUses, UseInv, UsesAreListed, At, Stopped
<1>7. orphans' \subseteq (DurableUses \cup Stopped)'
  BY <1>5, <1>6 DEF UseInv, UsesAreListed
<1> QED BY <1>2, <1>3, <1>7 DEF UsesAreListed, WorkerIsTrusted, IdleUsesNothing

\* The steps that begin and end a server.
LEMMA ServerUse ==
  ASSUME UseInv,
         \/ AcquireLease \/ StartServer \/ Shutdown \/ MarkDrained \/ Exit \/ Crash \/ Reboot
         \/ \E u \in Users : OrphanExits(u)
  PROVE  BarrierIsOwned' /\ CheckedIsFree' /\ UsesAreListed' /\ WorkerIsTrusted'
           /\ IdleUsesNothing'
<1>0. BarrierIsOwned /\ CheckedIsFree /\ UsesAreListed /\ WorkerIsTrusted /\ IdleUsesNothing
  BY DEF UseInv
<1>1. ASSUME UNCHANGED <<disk, gate, manager, worker>>, orphans' \subseteq orphans
      PROVE  BarrierIsOwned' /\ CheckedIsFree' /\ UsesAreListed'
  <2>1. BarrierIsOwned' /\ CheckedIsFree'
    BY <1>0, <1>1, RequestsStay DEF disk, gate, manager, Stopped
  <2> QED BY <1>0, <1>1, <2>1 DEF disk, gate, UsesAreListed, DurableUses, Stopped
<1>2. CASE AcquireLease
  BY <1>0, <1>1, <1>2 DEF AcquireLease, Acquire, serviceVars, WorkerIsTrusted, IdleUsesNothing, gate
<1>3. CASE StartServer
  <2>1. lease = "acquired" /\ lease' = "held" /\ UNCHANGED <<request, barrier, kept, uses, orphans>>
    BY <1>3 DEF StartServer, Truncate, gate, manager
  <2>2. uses = {} /\ worker.pc = "off"
    BY <1>0, <2>1 DEF IdleUsesNothing, WorkerIsTrusted
  <2>3. BarrierIsOwned' /\ CheckedIsFree'
    BY <1>0, <2>1, <1>3, StoppedStays, RequestsStay DEF UseInv, Next
  <2>4. CASE proven
    <3>1. orphans = {}
      BY <2>1, <2>4 DEF UseInv, LeaseInv
    <3>2. worker'.pc = "idle" /\ proven' = proven
      BY <1>3, <2>4 DEF StartServer, Truncate, NoWorker
    <3> QED BY <2>1, <2>2, <2>3, <2>4, <3>1, <3>2 DEF UsesAreListed, WorkerIsTrusted, IdleUsesNothing
  <2>5. CASE ~proven
    BY <1>0, <1>3, <2>1, <2>2, <2>3, <2>5 DEF StartServer, UsesAreListed, WorkerIsTrusted,
       IdleUsesNothing, DurableUses, Stopped
  <2> QED BY <2>4, <2>5
<1>4. CASE Shutdown
  BY <1>0, <1>1, <1>4 DEF Shutdown, serviceVars, leaseVars, WorkerIsTrusted, IdleUsesNothing, gate
<1>5. CASE MarkDrained
  BY <1>0, <1>1, <1>5 DEF MarkDrained, At, serviceVars, WorkerIsTrusted, IdleUsesNothing, gate
<1>6. CASE Exit
  BY <1>6, MemoryLostUse DEF Exit, Leave
<1>7. CASE Crash
  BY <1>7, MemoryLostUse DEF Crash, LoseLease
<1>8. CASE Reboot
  BY <1>8, MemoryLostUse DEF Reboot, NextBoundary
<1>9. CASE \E u \in Users : OrphanExits(u)
  BY <1>0, <1>1, <1>9 DEF OrphanExits, serviceVars, leaseVars, WorkerIsTrusted, IdleUsesNothing, gate
<1> QED BY <1>2, <1>3, <1>4, <1>5, <1>6, <1>7, <1>8, <1>9

\* Removals and uses, from the first start on.
LEMMA UseInvStart ==
  ASSUME Init
  PROVE  UseInv
<1>1. TypeInv /\ LeaseInv
  BY TypeInvStart DEF Init, StorageInit, LeaseInit, LeaseInv
<1>2. BarrierIsOwned /\ CheckedIsFree
  BY DEF Init, StorageInit, NoRequest, BarrierIsOwned, CheckedIsFree
<1>3. UsesAreListed /\ WorkerIsTrusted /\ IdleUsesNothing
  BY DEF Init, StorageInit, NoWorker, UsesAreListed, WorkerIsTrusted, IdleUsesNothing
<1> QED BY <1>1, <1>2, <1>3 DEF UseInv

\* Removals and uses, over every step of the server and its children.
LEMMA UseInvStep ==
  ASSUME UseInv, [Next]_vars
  PROVE  UseInv'
<1>1. TypeInv' /\ LeaseInv'
  BY TypeInvStep, LeaseInductive DEF UseInv
<1>2. CASE UNCHANGED vars
  BY <1>1, <1>2, RequestsStay, ListsStay DEF vars, storageVars, serviceVars, disk, gate, manager, UseInv,
     Protected, Stopped
<1>3. CASE Next
  BY <1>1, <1>3, RemovalStepUse, RunStepUse, DownloadsUse, ServerUse DEF Next, UseInv
<1> QED BY <1>2, <1>3

\* Only the renaming of a removal that has been checked takes the files of a model.
LEMMA LossIsARemoval ==
  ASSUME UseInv, [Next]_vars, NEW m \in Models, Lost(m)
  PROVE  \E w \in Writers : request[w].pc = "checked" /\ request[w].model = m
<1>0. files \in [Models -> FileRow]
  BY DEF UseInv, TypeInv, TypeOK, StorageTypeOK
<1>1. files' # files
  BY DEF Lost
<1>2. ASSUME NEW u \in Users, Fetch(u) PROVE FALSE
  BY <1>0, <1>2 DEF Lost, Fetch, FileRow
<1>3. ASSUME NEW w \in Writers, PurgeFiles(w) PROVE FALSE
  BY <1>0, <1>3 DEF Lost, PurgeFiles, FileRow
<1>4. \/ \E u \in Users : Fetch(u)
      \/ \E w \in Writers : RenameFiles(w) \/ PurgeFiles(w)
  <2>1. CASE RemovalStep
    BY <1>1, <2>1 DEF RemovalStep, EnterBarrier, CheckRemoval, RefuseRequest, SaveKeep, OwnerAsks,
       PreviewCleanup, ShowPlan, BeginCleanup, PlanCleanup, CollectTarget, EndCleanup, disk
  <2>2. CASE \/ \E r \in Runs : \/ BeginAdmission(r) \/ EndAdmission(r) \/ Dispatch(r)
                                \/ BeginStage(r) \/ FetchFiles(r) \/ EndStage(r) \/ FinishRun(r)
                                \/ CancelQueued(r) \/ StopRun(r)
             \/ ViewInventory \/ EndScan
    BY <1>1, <2>2 DEF BeginAdmission, EndAdmission, Dispatch, BeginStage, FetchFiles, EndStage,
       FinishRun, CancelQueued, StopRun, SetRun, ViewInventory, EndScan, disk, Users
  <2>3. CASE \/ \E f \in Fetches : Enqueue(f) \/ CancelDownload(f) \/ DownloadFiles(f)
             \/ Wake \/ ClaimDownload \/ BeginDownload \/ EndDownload \/ ReadKeep \/ FindEntries
             \/ KeepNext \/ KeepAnswered \/ FinishDownload
    BY <1>1, <2>3 DEF Enqueue, CancelDownload, DownloadFiles, Wake, ClaimDownload, BeginDownload,
       EndDownload, ReadKeep, FindEntries, KeepNext, KeepAnswered, FinishDownload, elsewhere, Users
  <2>4. CASE \/ AcquireLease \/ StartServer \/ Shutdown \/ MarkDrained \/ Exit \/ Crash \/ Reboot
             \/ \E u \in Users : OrphanExits(u)
    BY <1>1, <2>4 DEF AcquireLease, StartServer, Shutdown, MarkDrained, Exit, Crash, Reboot,
       OrphanExits, MemoryLost, disk
  <2>5. CASE UNCHANGED vars
    BY <1>1, <2>5 DEF vars, storageVars, disk
  <2> QED BY <2>1, <2>2, <2>3, <2>4, <2>5 DEF Next
<1>5. PICK w \in Writers : RenameFiles(w)
  BY <1>2, <1>3, <1>4
<1> QED BY <1>0, <1>5 DEF RenameFiles, Lost, FileRow

\* No removal takes files from a stage or a download that is at work on them, of this
\* server or of one that has died, unless the run of that one was stopped since
\* (internal/modelstorage).
THEOREM UsedFilesAreSafe == Spec => UsedFilesStay
<1>1. ASSUME UseInv, [Next]_vars
      PROVE  [\A m \in Models : Lost(m) => \A u \in Protected : m \notin Needs[u]]_vars
  BY <1>1, LossIsARemoval DEF UseInv, CheckedIsFree
<1> QED BY <1>1, UseInvStart, UseInvStep, PTL DEF Spec, UsedFilesStay

\* What the owner keeps is not removed by what was confirmed or planned before.
THEOREM KeptFilesAreSafe == Spec => KeptFilesStay
<1>1. ASSUME UseInv, [Next]_vars
      PROVE  [\A m \in kept : ~Lost(m)]_vars
  <2>1. kept \subseteq Models
    BY <1>1 DEF UseInv, TypeInv, TypeOK, StorageTypeOK
  <2> QED BY <1>1, <2>1, LossIsARemoval DEF UseInv, CheckedIsFree
<1> QED BY <1>1, UseInvStart, UseInvStep, PTL DEF Spec, KeptFilesStay

-----------------------------------------------------------------------------
(* Cancellations.                                                          *)

\* The steps that write a row, and what they make of one that is being canceled.
LEMMA CancelingRows ==
  ASSUME TypeInv, [Next]_vars, NEW f \in Fetches, rows[f].state = "canceling"
  PROVE  rows'[f].state \in {"canceling", "canceled"}
<1>0. rows \in Rows
  BY DEF TypeInv, TypeOK, StorageTypeOK, Rows
<1>1. CASE UNCHANGED rows
  BY <1>1
<1>2. ASSUME NEW g \in Fetches, Enqueue(g) PROVE rows'[f].state = "canceling"
  <2>1. PICK keep \in BOOLEAN : rows' = [rows EXCEPT ![g] =
          IF Active(g) THEN [@ EXCEPT !.keep = @ \/ keep]
          ELSE [state |-> "queued", keep |-> keep]]
    BY <1>2 DEF Enqueue
  <2> QED BY <1>0, <2>1 DEF Rows, Active
<1>3. ASSUME NEW g \in Fetches, CancelDownload(g) PROVE rows'[f].state = "canceling"
  BY <1>0, <1>3 DEF CancelDownload, SetRow, Rows
<1>4. CASE ClaimDownload
  BY <1>0, <1>4 DEF ClaimDownload, SetRow, Rows
<1>5. CASE FinishDownload
  BY <1>0, <1>5 DEF FinishDownload, SetRow, Outcome, Rows
<1>6. CASE StartServer
  BY <1>0, <1>6 DEF StartServer, Rows
<1>7. \/ UNCHANGED rows \/ ClaimDownload \/ FinishDownload \/ StartServer
      \/ \E g \in Fetches : Enqueue(g) \/ CancelDownload(g)
  <2>1. CASE RemovalStep
    BY <2>1 DEF RemovalStep, EnterBarrier, CheckRemoval, RefuseRequest, RenameFiles, PurgeFiles,
       SaveKeep, OwnerAsks, PreviewCleanup, ShowPlan, BeginCleanup, PlanCleanup, CollectTarget,
       EndCleanup, others, disk
  <2>2. CASE \/ \E r \in Runs : \/ BeginAdmission(r) \/ EndAdmission(r) \/ Dispatch(r)
                                \/ BeginStage(r) \/ FetchFiles(r) \/ EndStage(r) \/ FinishRun(r)
                                \/ CancelQueued(r) \/ StopRun(r)
             \/ ViewInventory \/ EndScan
    BY <2>2 DEF BeginAdmission, EndAdmission, Dispatch, BeginStage, FetchFiles, EndStage,
       FinishRun, CancelQueued, StopRun, SetRun, ViewInventory, EndScan, disk
  <2>3. CASE \/ \E g \in Fetches : DownloadFiles(g)
             \/ Wake \/ BeginDownload \/ EndDownload \/ ReadKeep \/ FindEntries \/ KeepNext
             \/ KeepAnswered
    BY <2>3 DEF DownloadFiles, Wake, BeginDownload, EndDownload, ReadKeep, FindEntries, KeepNext,
       KeepAnswered
  <2>4. CASE \/ AcquireLease \/ Shutdown \/ MarkDrained \/ Exit \/ Crash \/ Reboot
             \/ \E u \in Users : OrphanExits(u)
    BY <2>4 DEF AcquireLease, Shutdown, MarkDrained, Exit, Crash, Reboot, OrphanExits,
       MemoryLost, disk
  <2>5. CASE UNCHANGED vars
    BY <2>5 DEF vars, storageVars, disk
  <2> QED BY <2>1, <2>2, <2>3, <2>4, <2>5 DEF Next
<1> QED BY <1>1, <1>2, <1>3, <1>4, <1>5, <1>6, <1>7

\* A confirmed cancellation is not replaced by a late outcome or a restart
\* (internal/repository/model_downloads.go).
THEOREM CancellationIsFinal == Spec => CancellationWins
<1>1. ASSUME TypeInv, [Next]_vars
      PROVE  [\A f \in Fetches :
                rows[f].state = "canceling" => rows'[f].state \in {"canceling", "canceled"}]_vars
  BY <1>1, CancelingRows
<1> QED BY <1>1, TypeInvStart, TypeInvStep, PTL DEF Spec, CancellationWins

-----------------------------------------------------------------------------
(* The cached inventory.  Whoever changes files marks them, at the latest   *)
(* when it lets go of them; a scan reads the marks before the files, and no *)
(* removal is at work while one reads.                                      *)

\* Somebody who will mark the model is at work on it: a use of this server.  Or the
\* server does not know that it is alone, and somebody whom the rows name, or named
\* until he was stopped, may be.
Held(m) ==
  \/ \E u \in uses : m \in Needs[u]
  \/ ~proven /\ \E u \in DurableUses \cup Stopped : m \in Needs[u]
UnderRemoval(m) ==
  \E w \in Writers : request[w].model = m /\ request[w].pc \in {"checked", "renamed"}

\* The download's child is a use of the server.
FetchIsUse == worker.pc = "fetching" => worker.fetch \in uses

\* A removal and a scan exclude each other (Manager.scanMu).
ScanIsAlone ==
  scan.step = "read" => \A w \in Writers : request[w].pc \notin {"checked", "renamed"}

\* A mark is between "seen" and its removal only while the scan that saw it reads.
MarksAreRead == \A m \in Models : marks[m] = "seen" => scan.step = "read"

\* What a scan has read is what is there, unless that will be marked or has been.
LookIsFresh ==
  scan.step = "read" =>
    \A m \in Models : scan.seen[m] = files[m] \/ marks[m] = "changed" \/ Held(m)

\* The same for the inventory a scan has left.
CacheIsFresh ==
  Scanned =>
    \A m \in Models :
      snapshot[m] = files[m] \/ marks[m] # "clean" \/ Held(m) \/ UnderRemoval(m)

\* A server that has not started yet has looked at nothing.
NothingSeenYet == lease \in {"none", "acquired"} => ~Scanned /\ scan.step = "none"

CacheParts ==
  ScanIsAlone /\ MarksAreRead /\ LookIsFresh /\ CacheIsFresh /\ NothingSeenYet /\ FetchIsUse
CacheInv == UseInv /\ CacheParts

\* A use lasts over every step that ends no use and resets no row.
LEMMA HeldStays ==
  ASSUME uses \subseteq uses', UNCHANGED proven,
         ~proven => DurableUses \cup Stopped \subseteq (DurableUses \cup Stopped)',
         NEW m \in Models, Held(m)
  PROVE  Held(m)'
BY DEF Held

\* The invariant of the inventory outlasts every step that starts and ends no scan, if
\* whoever changes files, or lets go of them, has marked them.
LEMMA CacheStays ==
  ASSUME CacheParts, UNCHANGED snapshot, FetchIsUse',
         scan' = scan \/ (scan.step = "done" /\ scan'.step \notin {"read"}),
         lease' \in {"none", "acquired"} => lease \in {"none", "acquired"},
         \A w \in Writers : request'[w].pc \in {"checked", "renamed"} =>
           request[w].pc \in {"checked", "renamed"} \/ scan.step # "read",
         \A m \in Models :
           /\ marks'[m] = marks[m] \/ marks'[m] = "changed"
           /\ files'[m] = files[m] \/ Held(m)' \/ marks'[m] = "changed"
                \/ (UnderRemoval(m) /\ UnderRemoval(m)')
           /\ Held(m) => Held(m)' \/ marks'[m] = "changed"
           /\ UnderRemoval(m) => UnderRemoval(m)' \/ marks'[m] = "changed"
  PROVE  CacheParts'
<1>1. ScanIsAlone' /\ NothingSeenYet'
  BY DEF CacheParts, ScanIsAlone, NothingSeenYet, Scanned
<1>2. MarksAreRead'
  BY DEF CacheParts, MarksAreRead
<1>3. LookIsFresh'
  <2> SUFFICES ASSUME scan'.step = "read", NEW m \in Models
               PROVE  scan'.seen[m] = files'[m] \/ marks'[m] = "changed" \/ Held(m)'
    BY DEF LookIsFresh
  <2>1. scan' = scan /\ ~UnderRemoval(m)
    BY DEF CacheParts, ScanIsAlone, UnderRemoval
  <2>2. scan.seen[m] = files[m] \/ marks[m] = "changed" \/ Held(m)
    BY <2>1 DEF CacheParts, LookIsFresh
  <2> QED BY <2>1, <2>2
<1>4. CacheIsFresh'
  <2> SUFFICES ASSUME Scanned, NEW m \in Models
               PROVE  \/ snapshot[m] = files'[m] \/ marks'[m] # "clean"
                      \/ Held(m)' \/ UnderRemoval(m)'
    BY DEF CacheIsFresh, Scanned
  <2>1. snapshot[m] = files[m] \/ marks[m] # "clean" \/ Held(m) \/ UnderRemoval(m)
    BY DEF CacheParts, CacheIsFresh
  <2> QED BY <2>1
<1> QED BY <1>1, <1>2, <1>3, <1>4 DEF CacheParts

\* A scan reads the marks, then the files of what is marked or of everything.
LEMMA BeginScanIsFresh ==
  ASSUME TypeInv, CacheParts, NEW by \in {"view", "preview", Collector, Service},
         NEW refresh \in BOOLEAN, BeginScan(by, refresh), FetchIsUse',
         UNCHANGED <<files, leaseVars, runs, rows, uses, snapshot>>,
         lease \notin {"none", "acquired"},
         \A w \in Writers : request'[w].pc \in {"checked", "renamed"} =>
           request[w].pc \in {"checked", "renamed"}
  PROVE  CacheParts'
<1> DEFINE look == IF refresh \/ ~Scanned THEN Models
                   ELSE {m \in Models : marks[m] = "changed"}
<1>1. \A w \in Writers : request[w].pc \notin {"checked", "renamed"}
  BY DEF BeginScan, ScanFree
<1>2. \A m \in Models : marks[m] # "seen" /\ ~UnderRemoval(m)
  BY <1>1 DEF CacheParts, MarksAreRead, BeginScan, UnderRemoval
<1>3. /\ scan'.step = "read"
      /\ \A m \in Models : scan'.seen[m] = IF m \in look THEN files[m] ELSE snapshot[m]
      /\ \A m \in Models : marks'[m] = IF marks[m] = "changed" THEN "seen" ELSE marks[m]
  BY DEF BeginScan
<1>4. \A m \in Models : Held(m) => Held(m)'
  BY HeldStays DEF leaseVars, DurableUses, Stopped
<1>5. marks \in Marks
  BY DEF TypeInv, TypeOK, StorageTypeOK, Marks
<1> HIDE DEF look
<1>6. LookIsFresh'
  <2> SUFFICES ASSUME NEW m \in Models
               PROVE  scan'.seen[m] = files[m] \/ Held(m)'
    BY DEF LookIsFresh
  <2>1. CASE m \in look
    BY <1>3, <2>1
  <2>2. CASE m \notin look
    <3>1. Scanned /\ marks[m] # "changed" /\ scan'.seen[m] = snapshot[m]
      BY <1>3, <2>2 DEF look
    <3>2. marks[m] = "clean"
      BY <1>2, <1>5, <3>1 DEF Marks
    <3> QED BY <1>2, <1>4, <3>1, <3>2 DEF CacheParts, CacheIsFresh
  <2> QED BY <2>1, <2>2
<1>7. CacheIsFresh'
  <2> SUFFICES ASSUME Scanned, NEW m \in Models
               PROVE  snapshot[m] = files[m] \/ marks'[m] # "clean" \/ Held(m)'
    BY DEF CacheIsFresh, Scanned
  <2>1. snapshot[m] = files[m] \/ marks[m] # "clean" \/ Held(m)
    BY <1>2 DEF CacheParts, CacheIsFresh
  <2> QED BY <1>3, <1>4, <2>1
<1>8. ScanIsAlone' /\ MarksAreRead' /\ NothingSeenYet'
  BY <1>1, <1>3 DEF ScanIsAlone, MarksAreRead, NothingSeenYet, leaseVars
<1> QED BY <1>6, <1>7, <1>8 DEF CacheParts

\* A scan that succeeds leaves what it has read; one that fails, the marks it saw.
LEMMA EndScanIsFresh ==
  ASSUME TypeInv, CacheParts, EndScan, UNCHANGED worker
  PROVE  CacheParts'
<1>1. /\ scan.step = "read" /\ scan'.step \in {"none", "done"}
      /\ UNCHANGED <<leaseVars, files, runs, rows, uses, request>>
  <2>1. scan \in Scans
    BY DEF TypeInv, TypeOK, StorageTypeOK, Scans
  <2>2. CASE scan' = NoScan
    BY <2>2 DEF EndScan, disk, NoScan
  <2>3. CASE scan' = [scan EXCEPT !.step = "done"]
    BY <2>1, <2>3 DEF EndScan, disk, Scans
  <2> QED BY <2>2, <2>3 DEF EndScan
<1>2. \A m \in Models : Held(m) => Held(m)'
  BY <1>1, HeldStays DEF leaseVars, DurableUses, Stopped
<1>3. lease \notin {"none", "acquired"}
  BY <1>1 DEF CacheParts, NothingSeenYet
<1>4. ScanIsAlone' /\ LookIsFresh' /\ NothingSeenYet' /\ FetchIsUse'
  BY <1>1, <1>3 DEF CacheParts, ScanIsAlone, LookIsFresh, NothingSeenYet, FetchIsUse, leaseVars
<1>5. MarksAreRead'
  BY <1>1 DEF MarksAreRead, EndScan, MarksSince, MarksKept
<1>6. CacheIsFresh'
  <2> SUFFICES ASSUME Scanned', NEW m \in Models
               PROVE  snapshot'[m] = files[m] \/ marks'[m] # "clean" \/ Held(m)'
    BY <1>1 DEF CacheIsFresh
  <2>1. CASE snapshot' = scan.seen /\ marks' = MarksSince
    <3>1. scan.seen[m] = files[m] \/ marks[m] = "changed" \/ Held(m)
      BY <1>1 DEF CacheParts, LookIsFresh
    <3> QED BY <1>2, <2>1, <3>1 DEF MarksSince
  <2>2. CASE UNCHANGED snapshot /\ marks' = MarksKept
    <3>1. snapshot[m] = files[m] \/ marks[m] # "clean" \/ Held(m) \/ UnderRemoval(m)
      BY <2>2 DEF CacheParts, CacheIsFresh, Scanned
    <3>2. ~UnderRemoval(m)
      BY <1>1 DEF CacheParts, ScanIsAlone, UnderRemoval
    <3> QED BY <1>2, <2>2, <3>1, <3>2 DEF MarksKept
  <2> QED BY <2>1, <2>2 DEF EndScan
<1> QED BY <1>4, <1>5, <1>6 DEF CacheParts

\* A request that ends has marked its model when it was at work on files.
LEMMA RequestLeaves ==
  ASSUME TypeInv, NEW w \in Writers, NEW op, LeaveBarrier(w, op)
  PROVE  \A v \in Writers : v # w => request'[v] = request[v]
BY DEF LeaveBarrier, TypeInv, TypeOK, StorageTypeOK

\* The steps of removals, preferences and cleanups.
LEMMA RemovalStepCache ==
  ASSUME UseInv, CacheParts, RemovalStep, UNCHANGED serviceVars
  PROVE  CacheParts'
<1> DEFINE kind(q, v) == q[v].pc \in {"checked", "renamed"}
<1>0. /\ request \in Requests /\ marks \in Marks /\ TypeInv
      /\ Client \in Writers /\ Collector \in Writers
  BY DEF UseInv, TypeInv, TypeOK, StorageTypeOK, Requests, Marks, Writers
<1>1. UNCHANGED <<leaseVars, runs, rows, uses, snapshot, worker>>
  BY DEF RemovalStep, EnterBarrier, CheckRemoval, RefuseRequest, RenameFiles, PurgeFiles, SaveKeep,
     OwnerAsks, PreviewCleanup, ShowPlan, BeginCleanup, PlanCleanup, CollectTarget, EndCleanup,
     others, serviceVars, disk, gate
<1>2. FetchIsUse' /\ (\A m \in Models : Held(m) => Held(m)') /\ (lease' = lease)
  BY <1>1, HeldStays DEF CacheParts, FetchIsUse, DurableUses, leaseVars, Stopped
\* A step that neither begins nor ends work on files.
<1>q. ASSUME UNCHANGED <<files, scan>>, \A m \in Models : marks'[m] \in {marks[m], "changed"},
             \A v \in Writers : \/ request'[v] = request[v]
                                \/ ~kind(request, v) /\ ~kind(request', v)
      PROVE  CacheParts'
  <2>1. \A m \in Models : UnderRemoval(m) => UnderRemoval(m)'
    BY <1>q DEF UnderRemoval
  <2> QED BY <1>1, <1>2, <1>q, <2>1, CacheStays
<1>3. ASSUME NEW w \in Writers, EnterBarrier(w) PROVE CacheParts'
  <2>1. /\ \A v \in Writers : v # w => request'[v] = request[v]
        /\ request[w].pc = "waiting" /\ request'[w].pc = "inside"
    BY <1>0, <1>3 DEF EnterBarrier, Requests
  <2> QED BY <1>3, <1>q, <2>1 DEF EnterBarrier, others
<1>4. ASSUME NEW w \in Writers, CheckRemoval(w) PROVE CacheParts'
  <2>1. /\ \A v \in Writers : v # w => request'[v] = request[v]
        /\ request[w].pc = "inside" /\ request'[w].pc = "checked"
        /\ scan.step # "read" /\ UNCHANGED <<files, scan, marks>>
    BY <1>0, <1>4 DEF CheckRemoval, Requests, ScanFree, others
  <2>2. \A m \in Models : UnderRemoval(m) => UnderRemoval(m)'
    BY <2>1 DEF UnderRemoval
  <2> QED BY <1>1, <1>2, <2>1, <2>2, CacheStays
<1>5. ASSUME NEW w \in Writers, RefuseRequest(w) PROVE CacheParts'
  <2>1. \A v \in Writers : v # w => request'[v] = request[v]
    BY <1>0, <1>5, RequestLeaves DEF RefuseRequest
  <2>2. request[w].pc = "inside" /\ request'[w].pc \notin {"checked", "renamed"}
    BY <1>0, <1>5 DEF RefuseRequest, LeaveBarrier, NoRequest, Requests, Writers
  <2>3. \A m \in Models : marks'[m] \in {marks[m], "changed"}
    BY <1>5 DEF RefuseRequest, FilesChanged, Marked
  <2> QED BY <1>5, <1>q, <2>1, <2>2, <2>3 DEF RefuseRequest, others
\* The last step of a removal: its model is marked.
<1>e. ASSUME NEW w \in Writers, kind(request, w), LeaveBarrier(w, "none"), UNCHANGED scan,
             FilesChanged({request[w].model}),
             \A m \in Models : m # request[w].model => files'[m] = files[m]
      PROVE  CacheParts'
  <2>1. \A v \in Writers : v # w => request'[v] = request[v]
    BY <1>0, <1>e, RequestLeaves
  <2>2. \A m \in Models : marks'[m] \in {marks[m], "changed"}
                          /\ (m = request[w].model => marks'[m] = "changed")
    BY <1>e DEF FilesChanged, Marked
  <2>3. \A v \in Writers : kind(request', v) => kind(request, v)
    BY <1>e, <2>1
  <2>4. \A m \in Models : UnderRemoval(m) => UnderRemoval(m)' \/ marks'[m] = "changed"
    BY <2>1, <2>2 DEF UnderRemoval
  <2> QED BY <1>1, <1>2, <1>e, <2>2, <2>3, <2>4, CacheStays
<1>6. ASSUME NEW w \in Writers, RenameFiles(w) PROVE CacheParts'
  <2>0. files \in [Models -> FileRow] /\ UNCHANGED scan /\ kind(request, w)
    BY <1>6 DEF UseInv, TypeInv, TypeOK, StorageTypeOK, RenameFiles, others
  <2>1. \A m \in Models : m # request[w].model => files'[m] = files[m]
    BY <1>6, <2>0 DEF RenameFiles
  <2>2. CASE LeaveBarrier(w, "none") /\ FilesChanged({request[w].model})
    BY <1>e, <2>0, <2>1, <2>2
  <2>3. CASE request' = [request EXCEPT ![w].pc = "renamed"] /\ UNCHANGED marks
    <3>1. /\ \A v \in Writers : v # w => request'[v] = request[v]
          /\ request'[w].pc = "renamed" /\ request'[w].model = request[w].model
      BY <1>0, <2>3 DEF Requests
    <3>2. \A m \in Models : UnderRemoval(m) => UnderRemoval(m)'
      BY <3>1 DEF UnderRemoval
    <3>3. \A m \in Models : m = request[w].model => UnderRemoval(m) /\ UnderRemoval(m)'
      BY <2>0, <3>1 DEF UnderRemoval
    <3> QED BY <1>1, <1>2, <2>0, <2>1, <2>3, <3>1, <3>2, <3>3, CacheStays
  <2> QED BY <1>6, <2>2, <2>3 DEF RenameFiles
<1>7. ASSUME NEW w \in Writers, PurgeFiles(w) PROVE CacheParts'
  <2>0. files \in [Models -> FileRow] /\ UNCHANGED scan /\ kind(request, w)
    BY <1>7 DEF UseInv, TypeInv, TypeOK, StorageTypeOK, PurgeFiles, others
  <2>1. \A m \in Models : m # request[w].model => files'[m] = files[m]
    BY <1>7, <2>0 DEF PurgeFiles
  <2> QED BY <1>7, <1>e, <2>0, <2>1 DEF PurgeFiles
<1>8. ASSUME NEW w \in Writers, SaveKeep(w) PROVE CacheParts'
  <2>1. \A v \in Writers : v # w => request'[v] = request[v]
    BY <1>0, <1>8, RequestLeaves DEF SaveKeep
  <2>2. request[w].pc = "inside" /\ request'[w].pc \notin {"checked", "renamed"}
    BY <1>0, <1>8 DEF SaveKeep, LeaveBarrier, NoRequest, Requests, Writers
  <2> QED BY <1>8, <1>q, <2>1, <2>2 DEF SaveKeep, others
<1>9. ASSUME NEW w \in Writers, NEW op, NEW t, Ask(w, op, t), request[w].pc = "idle",
             UNCHANGED <<files, marks, scan>>
      PROVE  CacheParts'
  <2>1. /\ \A v \in Writers : v # w => request'[v] = request[v]
        /\ request'[w].pc = "waiting"
    BY <1>0, <1>9 DEF Ask, Requests
  <2> QED BY <1>9, <1>q, <2>1
<1>10. ASSUME NEW op \in {"remove", "keep", "unkeep"}, OwnerAsks(op) PROVE CacheParts'
  BY <1>0, <1>9, <1>10 DEF OwnerAsks, others
<1>11. CASE CollectTarget
  <2>1. PICK t \in plan : Ask(Collector, request[Collector].op, t)
    BY <1>11 DEF CollectTarget
  <2> QED BY <1>0, <1>9, <1>11, <2>1 DEF CollectTarget, others
<1>12. CASE EndCleanup
  <2>1. /\ \A v \in Writers : v # Collector => request'[v] = request[v]
        /\ request[Collector].pc = "idle" /\ request'[Collector].pc = "idle"
    BY <1>0, <1>12 DEF EndCleanup, NoRequest, Requests
  <2> QED BY <1>0, <1>12, <1>q, <2>1 DEF EndCleanup, others
<1>13. CASE ShowPlan \/ PlanCleanup
  <2>1. /\ scan.step = "done" /\ scan'.step = "none" /\ UNCHANGED <<request, files, marks>>
    BY <1>13 DEF ShowPlan, PlanCleanup, NoScan, gate, disk
  <2>2. \A m \in Models : UnderRemoval(m) => UnderRemoval(m)'
    BY <2>1 DEF UnderRemoval
  <2> QED BY <1>1, <1>2, <2>1, <2>2, CacheStays
<1>14. CASE PreviewCleanup
  <2>1. lease \notin {"none", "acquired"} /\ UNCHANGED <<files, request>>
    BY <1>14 DEF PreviewCleanup, Serving, Up, disk
  <2> QED BY <1>0, <1>1, <1>2, <1>14, <2>1, BeginScanIsFresh DEF PreviewCleanup
<1>15. ASSUME NEW op \in {"clear", "expire"}, BeginCleanup(op) PROVE CacheParts'
  <2>1. /\ lease \notin {"none", "acquired"} /\ UNCHANGED files
        /\ \A v \in Writers : request'[v].pc = request[v].pc
    BY <1>0, <1>15 DEF BeginCleanup, Serving, Up, disk, Requests
  <2> QED BY <1>0, <1>1, <1>2, <1>15, <2>1, BeginScanIsFresh DEF BeginCleanup
<1> QED BY <1>3, <1>4, <1>5, <1>6, <1>7, <1>8, <1>10, <1>11, <1>12, <1>13, <1>14, <1>15
        DEF RemovalStep

\* The steps of runs, and of the owner who looks at the inventory.
LEMMA RunStepCache ==
  ASSUME UseInv, CacheParts,
         \/ \E r \in Runs : \/ BeginAdmission(r) \/ EndAdmission(r) \/ Dispatch(r)
                            \/ BeginStage(r) \/ FetchFiles(r) \/ EndStage(r) \/ FinishRun(r)
                            \/ CancelQueued(r) \/ StopRun(r)
         \/ ViewInventory \/ EndScan,
         UNCHANGED serviceVars
  PROVE  CacheParts'
<1>0. /\ runs \in [Runs -> {"none", "admitting", "queued", "processing", "stopped", "done"}]
      /\ files \in [Models -> FileRow] /\ marks \in Marks /\ TypeInv /\ worker' = worker
      /\ Runs \cap Fetches = {}
      /\ worker.pc = "fetching" => worker.fetch \in Fetches
      /\ worker.pc = "fetching" => worker.fetch \in uses
  BY StorageAssumption DEF UseInv, TypeInv, TypeOK, StorageTypeOK, Marks, Engaged, CacheParts,
     FetchIsUse, serviceVars
\* A step that leaves scans and requests alone.
<1>q. ASSUME UNCHANGED <<leaseVars, snapshot, scan, request>>, FetchIsUse',
             \A m \in Models : /\ marks'[m] \in {marks[m], "changed"}
                               /\ files'[m] = files[m] \/ Held(m)'
                               /\ Held(m) => Held(m)' \/ marks'[m] = "changed"
      PROVE  CacheParts'
  <2>1. \A m \in Models : UnderRemoval(m) => UnderRemoval(m)'
    BY <1>q DEF UnderRemoval
  <2> QED BY <1>q, <2>1, CacheStays DEF leaseVars
<1>1. ASSUME NEW r \in Runs, BeginAdmission(r) \/ EndAdmission(r) \/ Dispatch(r) \/ FinishRun(r)
                             \/ CancelQueued(r) \/ StopRun(r)
                               \/ BeginStage(r)
      PROVE  CacheParts'
  <2>1. /\ UNCHANGED <<leaseVars, snapshot, scan, request, files, marks, rows>> /\ uses \subseteq uses'
        /\ ~proven => \A q \in Runs : runs[q] \in {"processing", "stopped"} =>
                                       runs'[q] \in {"processing", "stopped"}
    BY <1>0, <1>1 DEF BeginAdmission, EndAdmission, Dispatch, FinishRun,
       CancelQueued, StopRun, SetRun, BeginStage, BeginUse,
       manager, gate, disk, Stopped
  <2>2. \A m \in Models : Held(m) => Held(m)'
    BY <2>1, HeldStays DEF leaseVars, DurableUses, Stopped
  <2> QED BY <1>0, <1>q, <2>1, <2>2 DEF FetchIsUse
<1>2. ASSUME NEW r \in Runs, FetchFiles(r) PROVE CacheParts'
  <2>1. /\ UNCHANGED <<leaseVars, snapshot, scan, request, marks, rows, runs, uses>>
        /\ r \in uses \cup orphans /\ \E m \in Needs[r] :
             files' = [files EXCEPT ![m].there = TRUE, ![m].content = @ + 1]
    BY <1>2 DEF FetchFiles, Fetch, gate, manager
  <2>2. \A m \in Models : Held(m) => Held(m)'
    BY <2>1, HeldStays DEF leaseVars, DurableUses, Stopped
  <2>3. CASE lease \in {"none", "acquired"}
    BY <1>0, <2>1, <2>3 DEF CacheParts, ScanIsAlone, MarksAreRead, LookIsFresh, CacheIsFresh,
       NothingSeenYet, FetchIsUse, Scanned, leaseVars
  <2>4. CASE lease \notin {"none", "acquired"}
    <3>1. r \in uses \/ (~proven /\ r \in DurableUses \cup Stopped)
      BY <2>1, <2>4 DEF UseInv, LeaseInv, UsesAreListed
    <3>2. \A m \in Models : files'[m] = files[m] \/ m \in Needs[r]
      BY <1>0, <2>1
    <3>3. \A m \in Models : files'[m] = files[m] \/ Held(m)'
      BY <2>2, <3>1, <3>2 DEF Held
    <3> QED BY <1>0, <1>q, <2>1, <2>2, <3>3 DEF FetchIsUse
  <2> QED BY <2>3, <2>4
<1>3. ASSUME NEW r \in Runs, EndStage(r) PROVE CacheParts'
  <2>1. /\ UNCHANGED <<leaseVars, snapshot, scan, request, files, rows, runs>>
        /\ uses' = uses \ {r} /\ marks' = Marked(Needs[r])
    BY <1>3 DEF EndStage, EndUse, manager, disk
  <2>2. \A m \in Models : marks'[m] \in {marks[m], "changed"}
                          /\ (m \in Needs[r] => marks'[m] = "changed")
    BY <2>1 DEF Marked
  <2>3. \A m \in Models : Held(m) => Held(m)' \/ m \in Needs[r]
    BY <2>1 DEF Held, DurableUses, leaseVars, Stopped
  <2>4. FetchIsUse'
    BY <1>0, <2>1 DEF FetchIsUse
  <2> QED BY <1>q, <2>1, <2>2, <2>3, <2>4
<1>4. CASE ViewInventory
  <2>1. lease \notin {"none", "acquired"}
        /\ UNCHANGED <<files, leaseVars, runs, rows, uses, snapshot, request>>
    BY <1>4 DEF ViewInventory, Serving, Up, disk
  <2>2. FetchIsUse'
    BY <1>0, <2>1 DEF FetchIsUse
  <2> QED BY <1>0, <1>4, <2>1, <2>2, BeginScanIsFresh DEF ViewInventory
<1>5. CASE EndScan
  BY <1>0, <1>5, EndScanIsFresh
<1> QED BY <1>1, <1>2, <1>3, <1>4, <1>5

\* The steps of requests for downloads, and of the download worker.
LEMMA DownloadsCache ==
  ASSUME UseInv, CacheParts,
         \/ \E f \in Fetches : Enqueue(f) \/ CancelDownload(f) \/ DownloadFiles(f)
         \/ Wake \/ ClaimDownload \/ BeginDownload \/ EndDownload \/ ReadKeep \/ FindEntries
         \/ KeepNext \/ KeepAnswered \/ FinishDownload
  PROVE  CacheParts'
<1>0. /\ request \in Requests /\ rows \in Rows /\ worker \in Workers /\ Service \in Writers
      /\ files \in [Models -> FileRow]
      /\ scan \in Scans /\ TypeInv /\ Engaged(worker)
      /\ UNCHANGED <<leaseVars, runs, orphans, snapshot>>
  BY StorageAssumption DEF UseInv, TypeInv, TypeOK, StorageTypeOK, Rows, Requests, Workers, Writers,
     Scans, elsewhere, around, Enqueue, CancelDownload, DownloadFiles, Wake, ClaimDownload,
     BeginDownload, EndDownload, ReadKeep, FindEntries, KeepNext, KeepAnswered, FinishDownload
<1>1. worker.pc = "fetching" => worker.fetch \in uses
  BY DEF CacheParts, FetchIsUse
<1>2. worker.pc # "off" => proven /\ lease = "held"
  BY DEF UseInv, WorkerIsTrusted
\* A step of a server that trusts its predecessors holds what is in use.
<1>h. ASSUME proven, uses \subseteq uses' PROVE \A m \in Models : Held(m) => Held(m)'
  BY <1>0, <1>h DEF Held, leaseVars
\* A step that begins and ends no removal and no scan.
<1>q. ASSUME scan' = scan \/ (scan.step = "done" /\ scan'.step = "none"), FetchIsUse',
             \A v \in Writers : \/ request'[v] = request[v]
                                \/ /\ request[v].pc \notin {"checked", "renamed"}
                                   /\ request'[v].pc \notin {"checked", "renamed"},
             \A m \in Models : /\ marks'[m] \in {marks[m], "changed"}
                               /\ files'[m] = files[m] \/ Held(m)'
                               /\ Held(m) => Held(m)' \/ marks'[m] = "changed"
      PROVE  CacheParts'
  <2>1. \A m \in Models : UnderRemoval(m) => UnderRemoval(m)'
    BY <1>q DEF UnderRemoval
  <2> QED BY <1>0, <1>q, <2>1, CacheStays DEF leaseVars
\* The end of a use.
<1>e. ASSUME proven, EndUse(worker.fetch), UNCHANGED <<scan, request, files>>, worker'.pc # "fetching"
      PROVE  CacheParts'
  <2>1. \A m \in Models : marks'[m] \in {marks[m], "changed"}
                          /\ (m \in Needs[worker.fetch] => marks'[m] = "changed")
    BY <1>e DEF EndUse, Marked
  <2>2. \A m \in Models : Held(m) => Held(m)' \/ m \in Needs[worker.fetch]
    BY <1>0, <1>e DEF Held, EndUse, leaseVars
  <2> QED BY <1>e, <1>q, <2>1, <2>2 DEF FetchIsUse
\* A step that leaves gate, scans and requests alone.
<1>g. ASSUME proven, UNCHANGED <<scan, request, files, gate>>, FetchIsUse' PROVE CacheParts'
  BY <1>g, <1>h, <1>q DEF gate
<1>3. ASSUME NEW f \in Fetches, Enqueue(f) \/ CancelDownload(f) PROVE CacheParts'
  <2>1. /\ UNCHANGED <<scan, request, files, gate>> /\ worker.pc # "off"
        /\ worker'.pc = worker.pc /\ worker'.fetch = worker.fetch
    BY <1>0, <1>3 DEF Enqueue, CancelDownload, Available, Workers, elsewhere
  <2> QED BY <1>1, <1>2, <1>g, <2>1 DEF FetchIsUse, gate
<1>4. ASSUME NEW f \in Fetches, DownloadFiles(f) PROVE CacheParts'
  <2>1. /\ UNCHANGED <<scan, request, gate, worker, rows>>
        /\ f \in uses \cup orphans /\ \E m \in Needs[f] :
             files' = [files EXCEPT ![m].there = TRUE, ![m].content = @ + 1]
    BY <1>1, <1>4 DEF DownloadFiles, Fetch, At
  <2>2. \A m \in Models : Held(m) => Held(m)'
    BY <1>0, <2>1, HeldStays DEF leaseVars, DurableUses, gate, Stopped
  <2>3. FetchIsUse'
    BY <1>1, <2>1 DEF FetchIsUse, gate
  <2>4. CASE lease \in {"none", "acquired"}
    BY <1>0, <2>1, <2>3, <2>4 DEF CacheParts, ScanIsAlone, MarksAreRead, LookIsFresh, CacheIsFresh,
       NothingSeenYet, Scanned, leaseVars, gate
  <2>5. CASE lease \notin {"none", "acquired"}
    <3>1. f \in uses \/ (~proven /\ f \in DurableUses \cup Stopped)
      BY <2>1, <2>5 DEF UseInv, LeaseInv, UsesAreListed
    <3>2. \A m \in Models : files'[m] = files[m] \/ m \in Needs[f]
      BY <1>0, <2>1
    <3>3. \A m \in Models : files'[m] = files[m] \/ Held(m)'
      BY <2>2, <3>1, <3>2 DEF Held
    <3> QED BY <1>q, <2>1, <2>2, <2>3, <3>3 DEF gate
  <2> QED BY <2>4, <2>5
<1>5. CASE Wake \/ ClaimDownload
  <2>1. UNCHANGED <<scan, request, files, gate>> /\ worker.pc # "off"
    BY <1>5 DEF Wake, ClaimDownload, At, elsewhere
  <2>2. worker'.pc # "fetching"
    <3>1. CASE Wake
      BY <1>0, <3>1 DEF Wake, Goto, NoWorker, Workers
    <3>2. CASE worker' = NoWorker \/ worker' = [NoWorker EXCEPT !.pc = "idle"]
      BY <3>2 DEF NoWorker
    <3>3. CASE \E f \in Fetches : worker' = [NoWorker EXCEPT !.pc = "claimed", !.fetch = f]
      BY <3>3 DEF NoWorker
    <3> QED BY <1>5, <3>1, <3>2, <3>3 DEF ClaimDownload
  <2> QED BY <1>2, <1>g, <2>1, <2>2 DEF FetchIsUse
<1>6. CASE BeginDownload
  <2>1. UNCHANGED <<scan, request, files, marks>> /\ worker.pc # "off"
    BY <1>6 DEF BeginDownload, BeginUse, At, elsewhere, gate
  <2>2. uses \subseteq uses' /\ FetchIsUse'
    <3>1. CASE BeginUse(worker.fetch) /\ Goto("fetching")
      BY <1>0, <3>1 DEF BeginUse, Goto, FetchIsUse, Workers
    <3>2. CASE FinishAs("failed") /\ UNCHANGED gate
      BY <1>0, <3>2 DEF FinishAs, FetchIsUse, gate, Workers
    <3> QED BY <1>6, <3>1, <3>2 DEF BeginDownload
  <2> QED BY <1>2, <1>h, <1>q, <2>1, <2>2
<1>7. CASE EndDownload
  <2>0. UNCHANGED <<scan, request, files>> /\ worker.pc # "off"
    BY <1>7 DEF EndDownload, At, elsewhere
  <2>1. CASE worker' = NoWorker /\ EndUse(worker.fetch)
    BY <1>2, <1>e, <2>0, <2>1 DEF NoWorker
  <2>2. CASE (FinishAs("canceled") \/ FinishAs("failed")) /\ UNCHANGED gate
    <3>1. worker'.pc = "finishing"
      BY <1>0, <2>2 DEF FinishAs, Workers
    <3> QED BY <1>2, <1>g, <2>0, <2>2, <3>1 DEF FetchIsUse
  <2>3. CASE Goto("fetched") /\ FilesChanged(Needs[worker.fetch]) /\ UNCHANGED uses
    <3>1. worker'.pc = "fetched"
      BY <1>0, <2>3 DEF Goto, Workers
    <3>2. \A m \in Models : marks'[m] \in {marks[m], "changed"}
      BY <2>3 DEF FilesChanged, Marked
    <3> QED BY <1>2, <1>h, <1>q, <2>0, <2>3, <3>1, <3>2 DEF FetchIsUse
  <2> QED BY <1>7, <2>1, <2>2, <2>3 DEF EndDownload
<1>8. CASE ReadKeep
  <2>0. UNCHANGED <<rows, uses, request, files>> /\ worker.pc # "off"
    BY <1>8 DEF ReadKeep, At, elsewhere
  <2>1. CASE (FinishAs("completed") \/ FinishAs("failed")) /\ UNCHANGED <<marks, scan>>
    <3>1. worker'.pc = "finishing"
      BY <1>0, <2>1 DEF FinishAs, Workers
    <3> QED BY <1>2, <1>h, <1>q, <2>0, <2>1, <3>1 DEF FetchIsUse
  <2>2. CASE BeginScan(Service, FALSE) /\ Goto("scanning")
    <3>1. worker'.pc = "scanning"
      BY <1>0, <2>2 DEF Goto, Workers
    <3>2. FetchIsUse'
      BY <3>1 DEF FetchIsUse
    <3> QED BY <1>0, <1>2, <2>0, <2>2, <3>2, BeginScanIsFresh
  <2> QED BY <1>8, <2>1, <2>2 DEF ReadKeep
<1>9. CASE FindEntries
  <2>1. UNCHANGED <<request, files, gate>> /\ worker.pc # "off"
    BY <1>9 DEF FindEntries, At, elsewhere
  <2>2. scan' = scan \/ (scan.step = "done" /\ scan'.step = "none")
    BY <1>9 DEF FindEntries, NoScan
  <2>3. worker'.pc # "fetching"
    BY <1>0, <1>9 DEF FindEntries, FinishAs, Workers
  <2> QED BY <1>2, <1>h, <1>q, <2>1, <2>2, <2>3 DEF FetchIsUse, gate
<1>10. CASE KeepNext \/ KeepAnswered
  <2>1. UNCHANGED <<scan, files, marks, uses>> /\ worker.pc = "keeping"
    BY <1>10 DEF KeepNext, KeepAnswered, At, elsewhere, gate
  <2>2. worker'.pc # "fetching"
    BY <1>0, <1>10, <2>1 DEF KeepNext, KeepAnswered, FinishAs, Workers
  <2>3. \A v \in Writers : \/ request'[v] = request[v]
                           \/ /\ request[v].pc \notin {"checked", "renamed"}
                              /\ request'[v].pc \notin {"checked", "renamed"}
    <3>1. CASE UNCHANGED request
      BY <3>1
    <3>2. ASSUME NEW t, Ask(Service, "keep", t), Idle(Service)
          PROVE  /\ \A v \in Writers : v # Service => request'[v] = request[v]
                 /\ request[Service].pc = "idle" /\ request'[Service].pc = "waiting"
      BY <1>0, <3>2 DEF Ask, Idle, NoRequest, Requests
    <3>3. CASE KeepAnswered
      BY <1>0, <3>3 DEF KeepAnswered, NoRequest, Requests
    <3> QED BY <1>10, <3>1, <3>2, <3>3 DEF KeepNext
  <2> QED BY <1>2, <1>h, <1>q, <2>1, <2>2, <2>3 DEF FetchIsUse
<1>11. CASE FinishDownload
  <2>1. UNCHANGED <<scan, request, files>> /\ worker.pc # "off" /\ worker'.pc = "looking"
    BY <1>11 DEF FinishDownload, At, elsewhere, NoWorker
  <2>2. CASE EndUse(worker.fetch)
    BY <1>2, <1>e, <2>1, <2>2
  <2>3. CASE UNCHANGED gate
    BY <1>2, <1>g, <2>1, <2>3 DEF FetchIsUse
  <2> QED BY <1>11, <2>2, <2>3 DEF FinishDownload
<1> QED BY <1>3, <1>4, <1>5, <1>6, <1>7, <1>8, <1>9, <1>10, <1>11

\* A new server has looked at nothing.
LEMMA MemoryLostCache ==
  ASSUME MemoryLost
  PROVE  CacheParts'
<1>1. /\ \A w \in Writers : request'[w].pc = "idle"
      /\ \A m \in Models : marks'[m] = "clean"
      /\ snapshot' = [m \in Models |-> None] /\ scan'.step = "none" /\ worker'.pc = "off"
  BY DEF MemoryLost, NoRequest, NoScan, NoWorker
<1>2. ~Scanned'
  BY <1>1 DEF Scanned
<1> QED BY <1>1, <1>2 DEF CacheParts, ScanIsAlone, MarksAreRead, LookIsFresh, CacheIsFresh,
        NothingSeenYet, FetchIsUse

\* The steps that begin and end a server.
LEMMA ServerCache ==
  ASSUME UseInv, CacheParts,
         \/ AcquireLease \/ StartServer \/ Shutdown \/ MarkDrained \/ Exit \/ Crash \/ Reboot
         \/ \E u \in Users : OrphanExits(u)
  PROVE  CacheParts'
\* Steps of a server that has looked at nothing.
<1>n. ASSUME UNCHANGED <<files, uses, marks, snapshot, scan, request>>, FetchIsUse',
             lease \in {"none", "acquired"}
      PROVE  CacheParts'
  BY <1>n DEF CacheParts, ScanIsAlone, MarksAreRead, LookIsFresh, CacheIsFresh, NothingSeenYet, Scanned
<1>q. ASSUME UNCHANGED <<files, uses, marks, snapshot, scan, request, proven, runs, rows, worker>>,
             lease' \notin {"none", "acquired"} \/ lease' = lease
      PROVE  CacheParts'
  <2>1. FetchIsUse'
    BY <1>q DEF CacheParts, FetchIsUse
  <2>2. \A m \in Models : (Held(m) => Held(m)') /\ (UnderRemoval(m) => UnderRemoval(m)')
    BY <1>q DEF Held, UnderRemoval, DurableUses, Stopped
  <2> QED BY <1>q, <2>1, <2>2, CacheStays
<1>1. CASE AcquireLease
  BY <1>1, <1>n DEF AcquireLease, Acquire, disk, gate, manager, serviceVars, FetchIsUse, CacheParts
<1>2. CASE StartServer
  <2>1. worker.pc = "off"
    BY <1>2 DEF StartServer, Truncate, UseInv, WorkerIsTrusted
  <2>2. FetchIsUse'
    BY <1>2, <2>1 DEF StartServer, FetchIsUse, NoWorker
  <2> QED BY <1>2, <1>n, <2>2 DEF StartServer, Truncate, gate, manager
<1>3. CASE Shutdown
  BY <1>3, <1>q DEF Shutdown, leaseVars, disk, gate, manager, serviceVars
<1>4. CASE MarkDrained
  BY <1>4, <1>q DEF MarkDrained, MarkWorkersStopped, disk, gate, manager, serviceVars
<1>5. CASE \E u \in Users : OrphanExits(u)
  BY <1>5, <1>q DEF OrphanExits, leaseVars, disk, gate, manager, serviceVars
<1>6. CASE Exit \/ Crash \/ Reboot
  BY <1>6, MemoryLostCache DEF Exit, Crash, Reboot
<1> QED BY <1>1, <1>2, <1>3, <1>4, <1>5, <1>6

\* The invariant of the inventory, from the first start on.
LEMMA CacheInvStart ==
  ASSUME Init
  PROVE  CacheInv
<1>1. UseInv
  BY UseInvStart
<1>2. ~Scanned /\ scan.step = "none" /\ worker.pc = "off"
  BY DEF Init, StorageInit, Scanned, NoScan, NoWorker
<1>3. \A m \in Models : marks[m] = "clean"
  BY DEF Init, StorageInit
<1> QED BY <1>1, <1>2, <1>3 DEF CacheInv, CacheParts, ScanIsAlone, MarksAreRead, LookIsFresh,
        CacheIsFresh, NothingSeenYet, FetchIsUse

\* The invariant of the inventory, over every step.
LEMMA CacheInvStep ==
  ASSUME CacheInv, [Next]_vars
  PROVE  CacheInv'
<1>1. UseInv /\ UseInv' /\ CacheParts
  BY UseInvStep DEF CacheInv
<1>2. CASE UNCHANGED vars
  BY <1>1, <1>2 DEF CacheInv, CacheParts, ScanIsAlone, MarksAreRead, LookIsFresh, CacheIsFresh,
     NothingSeenYet, FetchIsUse, Held, UnderRemoval, DurableUses, Scanned, vars, storageVars,
     serviceVars, disk, gate, manager, leaseVars, Stopped
<1>3. CASE Next
  BY <1>1, <1>3, RemovalStepCache, RunStepCache, DownloadsCache, ServerCache DEF CacheInv, Next
<1> QED BY <1>2, <1>3

\* The cached inventory is never silently wrong: what differs from the disk is marked, is
\* being removed, or is shown as in use; but for what a run needs that was stopped in a
\* server that does not know that it is alone (internal/modelstorage).
THEOREM CachedInventoryIsHonest == Spec => []StaleEntriesAreMarked
<1>1. CacheInv => StaleEntriesAreMarked
  BY DEF CacheInv, CacheParts, CacheIsFresh, StaleEntriesAreMarked, Held, UnderRemoval, InUse, Unwatched,
     Stopped
<1> QED BY <1>1, CacheInvStart, CacheInvStep, PTL DEF Spec

-----------------------------------------------------------------------------
(* Cleanups.  A plan and what comes of it concern what the owner has been   *)
(* shown; what is checked behind the barrier stays so until the rename.     *)

\* Admission holds the barrier as a reader.
AdmissionsRead == \A r \in Runs : runs[r] = "admitting" => r \in barrier.readers

\* A cleanup in progress has a purpose.
CleanupIsNamed ==
  /\ request[Collector].op \in {"none", "clear", "expire"}
  /\ scan.by = Collector \/ plan # {} \/ request[Collector].pc # "idle" =>
       request[Collector].op # "none"

\* Only a server that is up cleans up.
CleanupIsUp == request[Collector].op # "none" => lease = "held"

\* No preview is taken during a cleanup.
PreviewIsAlone ==
  /\ scan.step = "none" => scan.by = None
  /\ scan.by = "preview" => request[Collector].op = "none"

\* What is cleared has been shown, in the version that is asked for.
ClearsWhatWasShown ==
  request[Collector].op = "clear" =>
    /\ plan \subseteq confirmed
    /\ request[Collector].pc \in {"waiting", "inside", "checked"} =>
         [model |-> request[Collector].model, version |-> request[Collector].version] \in confirmed

\* What a cleanup has checked is the version it asked for, unless the child of a
\* stopped run has changed it, and nobody waits for it.
CheckedIsAgreed ==
  request[Collector].pc = "checked" =>
    /\ \/ request[Collector].version = files[request[Collector].model]
       \/ Unwatched(request[Collector].model)
    /\ ~Awaited(request[Collector].model)

CleanupParts ==
  AdmissionsRead /\ CleanupIsNamed /\ CleanupIsUp /\ PreviewIsAlone /\ ClearsWhatWasShown /\ CheckedIsAgreed
CleanupInv == UseInv /\ FetchIsUse /\ CleanupParts

\* Whoever has been stopped in a server that does not know that it is alone stays so.
LEMMA UnwatchedStays ==
  ASSUME UseInv, [Next]_vars, lease # "none", NEW m, Unwatched(m)
  PROVE  Unwatched(m)'
<1>1. Stopped \subseteq Stopped'
  BY StoppedStays DEF UseInv
<1>2. UNCHANGED proven
  <2>1. CASE UNCHANGED leaseState
    BY <2>1 DEF leaseState, leaseVars
  <2>2. CASE UNCHANGED vars
    BY <2>2 DEF vars, storageVars, leaseVars
  <2> QED BY <2>1, <2>2, LeaseSteps DEF AcquireLease, Acquire, StartServer, Truncate, MarkDrained,
          MarkWorkersStopped, Exit, Leave, Crash, LoseLease, Reboot, NextBoundary, OrphanExits,
          leaseVars
<1> QED BY <1>1, <1>2 DEF Unwatched

\* The files a removal has checked stay as they are until it renames them, but for the
\* child of a stopped run.
LEMMA CheckedFilesStay ==
  ASSUME UseInv, FetchIsUse, CleanupParts, Next, request[Collector].pc = "checked",
         request'[Collector].pc = "checked"
  PROVE  \/ files'[request[Collector].model] = files[request[Collector].model]
         \/ Unwatched(request[Collector].model)
<1> DEFINE c == request[Collector].model
<1>0. /\ files \in [Models -> FileRow] /\ request \in Requests /\ c \in Models
      /\ Collector \in Writers /\ barrier.writer = Collector
      /\ \A u \in Protected : c \notin Needs[u]
  BY DEF UseInv, TypeInv, TypeOK, StorageTypeOK, Asked, Requests, Writers, BarrierIsOwned,
     CheckedIsFree
<1>u. lease = "held"
  BY DEF CleanupParts, CleanupIsUp, CleanupIsNamed
<1> HIDE DEF c
<1>1. ASSUME NEW u \in uses \cup orphans, Fetch(u) PROVE files'[c] = files[c] \/ Unwatched(c)
  <2>1. CASE u \in Protected
    BY <1>0, <1>1, <2>1 DEF Fetch
  <2>2. CASE u \in orphans \cap Stopped
    <3>1. ~proven
      BY <1>u, <2>2 DEF UseInv, LeaseInv
    <3>2. u \in Stopped /\ (c \in Needs[u] \/ files'[c] = files[c])
      BY <1>0, <1>1, <2>2 DEF Fetch
    <3> QED BY <3>1, <3>2 DEF Unwatched
  <2> QED BY <1>1, <2>1, <2>2 DEF Protected
<1>2. ASSUME NEW w \in Writers, RenameFiles(w) PROVE FALSE
  <2>1. w = Collector
    BY <1>0, <1>2 DEF RenameFiles, UseInv, BarrierIsOwned
  <2>2. CASE request' = [request EXCEPT ![w].pc = "renamed"]
    BY <1>0, <2>1, <2>2 DEF Requests
  <2>3. CASE LeaveBarrier(w, "none")
    BY <1>0, <2>1, <2>3, StorageAssumption DEF LeaveBarrier, NoRequest, Requests
  <2> QED BY <1>2, <2>2, <2>3 DEF RenameFiles
<1>3. ASSUME NEW w \in Writers, PurgeFiles(w) PROVE FALSE
  BY <1>0, <1>3 DEF PurgeFiles, UseInv, BarrierIsOwned
<1>4. \/ UNCHANGED files
      \/ \E u \in uses \cup orphans : Fetch(u)
      \/ \E w \in Writers : RenameFiles(w) \/ PurgeFiles(w)
  <2>1. CASE RemovalStep
    BY <2>1 DEF RemovalStep, EnterBarrier, CheckRemoval, RefuseRequest, SaveKeep, OwnerAsks,
       PreviewCleanup, ShowPlan, BeginCleanup, PlanCleanup, CollectTarget, EndCleanup, disk
  <2>2. CASE \/ \E r \in Runs : \/ BeginAdmission(r) \/ EndAdmission(r) \/ Dispatch(r)
                                \/ BeginStage(r) \/ FetchFiles(r) \/ EndStage(r) \/ FinishRun(r)
                                \/ CancelQueued(r) \/ StopRun(r)
             \/ ViewInventory \/ EndScan
    BY <2>2 DEF BeginAdmission, EndAdmission, Dispatch, BeginStage, FetchFiles, EndStage,
       FinishRun, CancelQueued, StopRun, SetRun, ViewInventory, EndScan, disk
  <2>3. CASE \/ \E f \in Fetches : Enqueue(f) \/ CancelDownload(f) \/ DownloadFiles(f)
             \/ Wake \/ ClaimDownload \/ BeginDownload \/ EndDownload \/ ReadKeep \/ FindEntries
             \/ KeepNext \/ KeepAnswered \/ FinishDownload
    BY <2>3 DEF Enqueue, CancelDownload, DownloadFiles, Wake, ClaimDownload, BeginDownload,
       EndDownload, ReadKeep, FindEntries, KeepNext, KeepAnswered, FinishDownload, elsewhere,
       FetchIsUse, At
  <2>4. CASE \/ AcquireLease \/ StartServer \/ Shutdown \/ MarkDrained \/ Exit \/ Crash \/ Reboot
             \/ \E u \in Users : OrphanExits(u)
    BY <2>4 DEF AcquireLease, StartServer, Shutdown, MarkDrained, Exit, Crash, Reboot,
       OrphanExits, MemoryLost, disk
  <2> QED BY <2>1, <2>2, <2>3, <2>4 DEF Next
<1> QED BY <1>1, <1>2, <1>3, <1>4 DEF c

\* Nobody is admitted while a removal is behind the barrier.
LEMMA NobodyIsAdmitted ==
  ASSUME UseInv, AdmissionsRead, barrier.writer # None, NEW r \in Runs
  PROVE  runs[r] # "admitting"
BY DEF UseInv, TypeInv, TypeOK, StorageTypeOK, AdmissionsRead

\* What a cleanup has checked stays agreed: files stay, and no run joins the queue.
LEMMA CheckedStaysAgreed ==
  ASSUME UseInv, FetchIsUse, CleanupParts, Next, request[Collector].pc = "checked",
         request'[Collector] = request[Collector]
  PROVE  CheckedIsAgreed'
<1>1. request[Collector].model \in Models /\ barrier.writer = Collector /\ Collector # None
  BY StorageAssumption DEF UseInv, TypeInv, Asked, Writers, BarrierIsOwned
<1>2. \/ files'[request[Collector].model] = files[request[Collector].model]
      \/ Unwatched(request[Collector].model)
  BY CheckedFilesStay
<1>5. Unwatched(request[Collector].model) => Unwatched(request[Collector].model)'
  BY <1>1, UnwatchedStays DEF CleanupParts, CleanupIsUp, CleanupIsNamed
<1>3. \A r \in Runs : runs'[r] = "queued" => runs[r] = "queued"
  <2>0. /\ runs \in [Runs -> {"none", "admitting", "queued", "processing", "stopped", "done"}]
        /\ \A r \in Runs : runs[r] # "admitting"
    BY <1>1, NobodyIsAdmitted DEF CleanupParts, UseInv, TypeInv, TypeOK, StorageTypeOK
  <2>1. CASE UNCHANGED runs
    BY <2>1
  <2>2. ASSUME NEW r \in Runs, BeginAdmission(r) \/ EndAdmission(r) \/ Dispatch(r) \/ FinishRun(r)
                               \/ CancelQueued(r) \/ StopRun(r)
        PROVE  \A q \in Runs : runs'[q] = "queued" => runs[q] = "queued"
    BY <2>0, <2>2 DEF BeginAdmission, EndAdmission, Dispatch, FinishRun,
       CancelQueued, StopRun, SetRun
  <2>3. CASE StartServer \/ MemoryLost
    BY <2>0, <2>3 DEF StartServer, MemoryLost
  <2>4. \/ UNCHANGED runs \/ StartServer \/ MemoryLost
        \/ \E r \in Runs : \/ BeginAdmission(r) \/ EndAdmission(r) \/ Dispatch(r)
                           \/ FinishRun(r) \/ CancelQueued(r) \/ StopRun(r)
    BY RunSteps
  <2> QED BY <2>1, <2>2, <2>3, <2>4
<1>4. /\ \/ request[Collector].version = files[request[Collector].model]
         \/ Unwatched(request[Collector].model)
      /\ ~Awaited(request[Collector].model) /\ CachedOnly \subseteq Runs
  BY StorageAssumption DEF CleanupParts, CheckedIsAgreed
<1>6. ~Awaited(request[Collector].model)'
  BY <1>3, <1>4 DEF Awaited
<1> QED BY <1>2, <1>4, <1>5, <1>6 DEF CheckedIsAgreed

\* Readers of the barrier come and go with admissions alone.
LEMMA AdmissionsStay ==
  ASSUME UseInv, AdmissionsRead, Next
  PROVE  AdmissionsRead'
<1>0. /\ runs \in [Runs -> {"none", "admitting", "queued", "processing", "stopped", "done"}]
      /\ barrier \in Barriers
  BY DEF UseInv, TypeInv, TypeOK, StorageTypeOK, Barriers
<1>q. ASSUME UNCHANGED runs, barrier'.readers = barrier.readers PROVE AdmissionsRead'
  BY <1>q DEF AdmissionsRead
<1>1. CASE RemovalStep
  <2>1. UNCHANGED runs
    BY <1>1 DEF RemovalStep, EnterBarrier, CheckRemoval, RefuseRequest, RenameFiles, PurgeFiles,
       SaveKeep, OwnerAsks, PreviewCleanup, ShowPlan, BeginCleanup, PlanCleanup, CollectTarget,
       EndCleanup, others, disk
  <2>2. barrier'.readers = barrier.readers
    BY <1>0, <1>1 DEF RemovalStep, EnterBarrier, CheckRemoval, RefuseRequest, RenameFiles, PurgeFiles,
       SaveKeep, OwnerAsks, PreviewCleanup, ShowPlan, BeginCleanup, PlanCleanup, CollectTarget,
       EndCleanup, LeaveBarrier, Ask, gate, Barriers
  <2> QED BY <1>q, <2>1, <2>2
<1>2. ASSUME NEW r \in Runs, BeginAdmission(r) \/ EndAdmission(r) PROVE AdmissionsRead'
  BY <1>0, <1>2 DEF BeginAdmission, EndAdmission, AdmissionsRead, Barriers
<1>3. ASSUME NEW r \in Runs, \/ Dispatch(r) \/ BeginStage(r) \/ FetchFiles(r) \/ EndStage(r)
                             \/ FinishRun(r) \/ CancelQueued(r) \/ StopRun(r)
      PROVE  AdmissionsRead'
  BY <1>0, <1>3 DEF Dispatch, BeginStage, FetchFiles, EndStage, FinishRun,
     CancelQueued, StopRun, SetRun, BeginUse, EndUse, gate,
     disk, AdmissionsRead
<1>4. CASE ViewInventory \/ EndScan
  BY <1>4, <1>q DEF ViewInventory, EndScan, disk
<1>5. CASE \/ \E f \in Fetches : Enqueue(f) \/ CancelDownload(f) \/ DownloadFiles(f)
           \/ Wake \/ ClaimDownload \/ BeginDownload \/ EndDownload \/ ReadKeep \/ FindEntries
           \/ KeepNext \/ KeepAnswered \/ FinishDownload
  <2>1. UNCHANGED runs
    BY <1>5 DEF Enqueue, CancelDownload, DownloadFiles, Wake, ClaimDownload, BeginDownload,
       EndDownload, ReadKeep, FindEntries, KeepNext, KeepAnswered, FinishDownload, elsewhere, around
  <2>2. barrier'.readers = barrier.readers
    BY <1>0, <1>5 DEF Enqueue, CancelDownload, DownloadFiles, Wake, ClaimDownload, BeginDownload,
       EndDownload, ReadKeep, FindEntries, KeepNext, KeepAnswered, FinishDownload, BeginUse, EndUse,
       Ask, gate, Barriers
  <2> QED BY <1>q, <2>1, <2>2
<1>6. CASE StartServer
  BY <1>0, <1>6 DEF StartServer, AdmissionsRead, gate
<1>7. CASE Exit \/ Crash \/ Reboot
  BY <1>0, <1>7 DEF Exit, Crash, Reboot, MemoryLost, AdmissionsRead
<1>8. CASE AcquireLease \/ Shutdown \/ MarkDrained \/ \E u \in Users : OrphanExits(u)
  BY <1>8, <1>q DEF AcquireLease, Shutdown, MarkDrained, OrphanExits, disk, gate
<1> QED BY <1>1, <1>2, <1>3, <1>4, <1>5, <1>6, <1>7, <1>8 DEF Next

\* What holds of a cleanup outlasts the steps of everybody else.
LEMMA CleanupStays ==
  ASSUME UseInv, FetchIsUse, CleanupParts, Next, request'[Collector] = request[Collector],
         UNCHANGED <<plan, confirmed>>,
         scan'.by = Collector => scan.by = Collector, PreviewIsAlone'
  PROVE  CleanupParts'
<1>1. AdmissionsRead'
  BY AdmissionsStay DEF CleanupParts
<1>2. CheckedIsAgreed'
  BY CheckedStaysAgreed DEF CheckedIsAgreed
<1>3. CleanupIsUp'
  <2>0. CleanupIsUp /\ Collector \in Writers
    BY DEF CleanupParts, Writers
  <2>1. CASE UNCHANGED leaseState \/ \E u \in Users : OrphanExits(u)
    BY <2>0, <2>1 DEF CleanupIsUp, leaseState, leaseVars, OrphanExits
  <2>2. CASE StartServer \/ AcquireLease
    BY <2>0, <2>2 DEF CleanupIsUp, StartServer, Truncate, AcquireLease, Acquire
  <2>3. CASE MarkDrained
    BY <2>0, <2>3 DEF CleanupIsUp, MarkDrained, Idle, NoRequest
  <2>4. CASE Exit \/ Crash \/ Reboot
    BY <2>0, <2>4 DEF CleanupIsUp, Exit, Crash, Reboot, MemoryLost, NoRequest
  <2> QED BY <2>1, <2>2, <2>3, <2>4, LeaseSteps
<1> QED BY <1>1, <1>2, <1>3 DEF CleanupParts, CleanupIsNamed, ClearsWhatWasShown, CleanupIsUp

\* The steps of removals, preferences and cleanups.
LEMMA RemovalStepCleanup ==
  ASSUME UseInv, FetchIsUse, CleanupParts, RemovalStep, UNCHANGED serviceVars
  PROVE  CleanupParts'
<1> DEFINE c == request[Collector]
<1>0. /\ request \in Requests /\ files \in [Models -> FileRow] /\ scan \in Scans
      /\ Client \in Writers /\ Collector \in Writers /\ Client # Collector /\ Service # Collector
      /\ Collector \notin {"view", "preview", None} /\ None # "preview" /\ TypeInv /\ Next
  BY StorageAssumption DEF UseInv, TypeInv, TypeOK, StorageTypeOK, Requests, Writers, Scans, Next
<1>1. /\ AdmissionsRead' /\ CleanupIsNamed /\ PreviewIsAlone /\ ClearsWhatWasShown /\ CheckedIsAgreed
      /\ CleanupIsUp /\ UNCHANGED <<leaseVars, runs>>
  BY <1>0, AdmissionsStay DEF CleanupParts, RemovalStep, EnterBarrier, CheckRemoval, RefuseRequest,
     RenameFiles, PurgeFiles, SaveKeep, OwnerAsks, PreviewCleanup, ShowPlan, BeginCleanup, PlanCleanup,
     CollectTarget, EndCleanup, others, disk
\* A step of a writer other than the cleanup.
<1>o. ASSUME NEW w \in Writers, w # Collector, \A v \in Writers : v # w => request'[v] = request[v],
             UNCHANGED <<plan, confirmed, scan>>
      PROVE  CleanupParts'
  BY <1>0, <1>1, <1>o, CleanupStays DEF PreviewIsAlone
\* A step of the cleanup's request that ends no cleanup and keeps its target.
<1>c. ASSUME request'[Collector].op = c.op, request'[Collector].model = c.model,
             request'[Collector].version = c.version, c.pc # "idle", CheckedIsAgreed',
             c.pc \in {"waiting", "inside", "checked"}, UNCHANGED <<plan, confirmed, scan>>
      PROVE  CleanupParts'
  BY <1>1, <1>c DEF CleanupParts, CleanupIsNamed, PreviewIsAlone, ClearsWhatWasShown,
     CleanupIsUp, leaseVars, Unwatched, Stopped
\* The end of the cleanup's request.
<1>l. ASSUME NEW op, LeaveBarrier(Collector, op), c.pc # "idle", UNCHANGED <<plan, confirmed, scan>>
      PROVE  CleanupParts'
  <2>1. request'[Collector].pc = "idle" /\ request'[Collector].op = c.op
    <3>1. request' = [request EXCEPT ![Collector] = [NoRequest EXCEPT !.op = request[Collector].op]]
      BY <1>0, <1>l DEF LeaveBarrier
    <3> QED BY <1>0, <3>1 DEF NoRequest, Requests
  <2> QED BY <1>1, <1>l, <2>1 DEF CleanupParts, CleanupIsNamed, PreviewIsAlone, ClearsWhatWasShown,
          CheckedIsAgreed, CleanupIsUp, leaseVars, Unwatched, Stopped
<1>2. ASSUME NEW w \in Writers, EnterBarrier(w) PROVE CleanupParts'
  <2>1. /\ \A v \in Writers : v # w => request'[v] = request[v]
        /\ request[w].pc = "waiting" /\ request'[w] = [request[w] EXCEPT !.pc = "inside"]
        /\ UNCHANGED <<plan, confirmed, scan>>
    BY <1>0, <1>2 DEF EnterBarrier, Requests, others
  <2>2. CASE w = Collector
    <3>1. /\ request'[Collector].op = c.op /\ request'[Collector].model = c.model
          /\ request'[Collector].version = c.version /\ request'[Collector].pc = "inside"
      BY <1>0, <2>1, <2>2 DEF Requests
    <3> QED BY <1>c, <2>1, <2>2, <3>1 DEF CheckedIsAgreed
  <2> QED BY <1>o, <2>1, <2>2
<1>3. ASSUME NEW w \in Writers, CheckRemoval(w) PROVE CleanupParts'
  <2>1. /\ \A v \in Writers : v # w => request'[v] = request[v]
        /\ request[w].pc = "inside" /\ request'[w] = [request[w] EXCEPT !.pc = "checked"]
        /\ UNCHANGED <<plan, confirmed, scan, files, runs>>
    BY <1>0, <1>3 DEF CheckRemoval, Requests, others
  <2>2. CASE w = Collector
    <3>1. /\ request'[Collector].op = c.op /\ request'[Collector].model = c.model
          /\ request'[Collector].version = c.version /\ request'[Collector].pc = "checked"
      BY <1>0, <2>1, <2>2 DEF Requests
    <3>2. c.op \in {"clear", "expire"}
      BY <1>1, <2>1, <2>2 DEF CleanupIsNamed
    <3>3. files[c.model] = c.version /\ ~Awaited(c.model)
      BY <1>3, <2>2, <3>2 DEF CheckRemoval, Removable, StillAgreed, Eligible
    <3>4. CheckedIsAgreed'
      BY <2>1, <3>1, <3>3 DEF CheckedIsAgreed, Awaited
    <3> QED BY <1>c, <2>1, <2>2, <3>1, <3>4
  <2> QED BY <1>o, <2>1, <2>2
<1>4. ASSUME NEW w \in Writers, NEW op, LeaveBarrier(w, op), request[w].pc # "idle",
             UNCHANGED <<plan, confirmed, scan>>
      PROVE  CleanupParts'
  <2>1. \A v \in Writers : v # w => request'[v] = request[v]
    BY <1>0, <1>4, RequestLeaves
  <2> QED BY <1>4, <1>l, <1>o, <2>1
<1>5. ASSUME NEW w \in Writers, RefuseRequest(w) \/ SaveKeep(w) \/ PurgeFiles(w) PROVE CleanupParts'
  BY <1>4, <1>5 DEF RefuseRequest, SaveKeep, PurgeFiles, others
<1>6. ASSUME NEW w \in Writers, RenameFiles(w) PROVE CleanupParts'
  <2>0. request[w].pc = "checked" /\ UNCHANGED <<plan, confirmed, scan>>
    BY <1>6 DEF RenameFiles, others
  <2>1. CASE LeaveBarrier(w, "none")
    BY <1>4, <2>0, <2>1
  <2>2. CASE request' = [request EXCEPT ![w].pc = "renamed"]
    <3>1. /\ \A v \in Writers : v # w => request'[v] = request[v]
          /\ request'[w] = [request[w] EXCEPT !.pc = "renamed"]
      BY <1>0, <2>2 DEF Requests
    <3>2. CASE w = Collector
      <4>1. /\ request'[Collector].op = c.op /\ request'[Collector].model = c.model
            /\ request'[Collector].version = c.version /\ request'[Collector].pc = "renamed"
        BY <1>0, <3>1, <3>2 DEF Requests
      <4> QED BY <1>c, <2>0, <3>2, <4>1 DEF CheckedIsAgreed
    <3> QED BY <1>o, <2>0, <3>1, <3>2
  <2> QED BY <1>6, <2>1, <2>2 DEF RenameFiles
<1>7. ASSUME NEW op \in {"remove", "keep", "unkeep"}, OwnerAsks(op) PROVE CleanupParts'
  <2>1. \A v \in Writers : v # Client => request'[v] = request[v]
    BY <1>0, <1>7 DEF OwnerAsks, Ask
  <2> QED BY <1>0, <1>7, <1>o, <2>1 DEF OwnerAsks, others
<1>8. CASE PreviewCleanup
  <2>1. /\ request'[Collector] = c /\ UNCHANGED <<plan, confirmed>> /\ c.op = "none"
        /\ scan'.by = "preview" /\ scan'.step = "read"
    BY <1>8 DEF PreviewCleanup, BeginScan, Idle, NoRequest
  <2>2. PreviewIsAlone'
    BY <2>1 DEF PreviewIsAlone
  <2> QED BY <1>0, <2>1, <2>2, CleanupStays
<1>9. CASE ShowPlan
  <2>1. /\ request'[Collector] = c /\ UNCHANGED plan /\ c.op = "none"
        /\ scan'.by = None /\ scan'.step = "none"
    BY <1>1, <1>9 DEF ShowPlan, NoScan, PreviewIsAlone
  <2>2. c.pc = "idle"
    BY <1>1, <2>1 DEF CleanupIsNamed
  <2> QED BY <1>0, <1>1, <2>1, <2>2 DEF CleanupParts, CleanupIsNamed, PreviewIsAlone, ClearsWhatWasShown,
          CheckedIsAgreed, CleanupIsUp, leaseVars, Unwatched, Stopped
<1>10. ASSUME NEW op \in {"clear", "expire"}, BeginCleanup(op) PROVE CleanupParts'
  <2>1. /\ UNCHANGED <<plan, confirmed>> /\ scan'.by = Collector /\ scan'.step = "read"
        /\ c = NoRequest
    BY <1>10 DEF BeginCleanup, BeginScan, Idle
  <2>2. request'[Collector].op = op /\ request'[Collector].pc = "idle"
    BY <1>0, <1>10, <2>1 DEF BeginCleanup, Requests, NoRequest
  <2>4. lease = "held"
    BY <1>10 DEF BeginCleanup, Serving, Up
  <2>3. plan = {}
    BY <1>1, <2>1 DEF CleanupIsNamed, NoRequest
  <2> QED BY <1>0, <1>1, <2>1, <2>2, <2>3, <2>4 DEF CleanupParts, CleanupIsNamed, PreviewIsAlone,
          ClearsWhatWasShown, CheckedIsAgreed, CleanupIsUp, leaseVars, Unwatched, Stopped
<1>11. CASE PlanCleanup
  <2>1. /\ request'[Collector] = c /\ UNCHANGED <<confirmed, files, runs>>
        /\ scan'.by = None /\ scan'.step = "none" /\ scan.by = Collector
        /\ c.op = "clear" => plan' \subseteq confirmed
    BY <1>11 DEF PlanCleanup, NoScan, disk
  <2>2. c.op # "none"
    BY <1>1, <2>1 DEF CleanupIsNamed
  <2> QED BY <1>0, <1>1, <2>1, <2>2 DEF CleanupParts, CleanupIsNamed, PreviewIsAlone,
          ClearsWhatWasShown, CheckedIsAgreed, Awaited, CleanupIsUp, leaseVars, Unwatched, Stopped
<1>12. CASE CollectTarget
  <2>1. PICK t \in plan : Ask(Collector, c.op, t) /\ plan' = plan \ {t}
    BY <1>12 DEF CollectTarget
  <2>2. /\ request'[Collector].op = c.op /\ request'[Collector].pc = "waiting"
        /\ request'[Collector].model = t.model /\ request'[Collector].version = t.version
    BY <1>0, <2>1 DEF Ask, Requests
  <2>3. c.op # "none" /\ UNCHANGED <<confirmed, scan>>
    BY <1>1, <1>12, <2>1 DEF CleanupIsNamed, CollectTarget, others
  <2>4. t = [model |-> t.model, version |-> t.version]
    BY <2>1 DEF UseInv, TypeInv, TypeOK, StorageTypeOK, Target
  <2> QED BY <1>1, <2>1, <2>2, <2>3, <2>4 DEF CleanupParts, CleanupIsNamed, PreviewIsAlone,
          ClearsWhatWasShown, CheckedIsAgreed, CleanupIsUp, leaseVars, Unwatched, Stopped
<1>13. CASE EndCleanup
  <2>1. /\ request'[Collector].op = "none" /\ request'[Collector].pc = "idle"
        /\ plan' = {} /\ UNCHANGED <<confirmed, scan>> /\ scan.by # Collector
    BY <1>0, <1>13 DEF EndCleanup, NoRequest, Requests, others
  <2> QED BY <1>1, <2>1 DEF CleanupParts, CleanupIsNamed, PreviewIsAlone, ClearsWhatWasShown,
          CheckedIsAgreed, CleanupIsUp, leaseVars, Unwatched, Stopped
<1> QED BY <1>2, <1>3, <1>5, <1>6, <1>7, <1>8, <1>9, <1>10, <1>11, <1>12, <1>13 DEF RemovalStep

\* The steps of everybody else.
LEMMA OtherStepsCleanup ==
  ASSUME UseInv, FetchIsUse, CleanupParts, Next, ~(RemovalStep /\ UNCHANGED serviceVars)
  PROVE  CleanupParts'
<1>0. /\ request \in Requests /\ scan \in Scans /\ Collector \in Writers /\ Service \in Writers
      /\ Service # Collector /\ Collector \notin {"view", "preview", None} /\ PreviewIsAlone
      /\ Service \notin {"preview", None} /\ None # "preview"
  BY StorageAssumption DEF UseInv, TypeInv, TypeOK, StorageTypeOK, Requests, Writers, Scans, CleanupParts
<1>q. ASSUME UNCHANGED <<request, plan, confirmed, scan>> PROVE CleanupParts'
  BY <1>0, <1>q, CleanupStays DEF PreviewIsAlone
\* A scan of somebody else begins or ends.
<1>s. ASSUME request'[Collector] = request[Collector], UNCHANGED <<plan, confirmed>>,
             \/ scan' = scan \/ scan' = NoScan \/ (scan.step # "none" /\ scan' = [scan EXCEPT !.step = "done"])
             \/ scan'.by \in {"view", Service} /\ scan'.step = "read"
      PROVE  CleanupParts'
  <2>1. PreviewIsAlone' /\ (scan'.by = Collector => scan.by = Collector)
    <3>1. CASE scan' = scan
      BY <1>0, <1>s, <3>1 DEF PreviewIsAlone
    <3>2. CASE scan' = NoScan
      BY <1>0, <3>2 DEF PreviewIsAlone, NoScan
    <3>3. CASE scan' = [scan EXCEPT !.step = "done"]
      <4>1. scan'.by = scan.by /\ scan'.step = "done"
        BY <1>0, <3>3 DEF Scans
      <4> QED BY <1>0, <1>s, <4>1 DEF PreviewIsAlone
    <3>4. CASE scan'.by \in {"view", Service} /\ scan'.step = "read"
      BY <1>0, <3>4 DEF PreviewIsAlone
    <3> QED BY <1>s, <3>1, <3>2, <3>3, <3>4
  <2> QED BY <1>s, <2>1, CleanupStays
<1>1. CASE \E r \in Runs : \/ BeginAdmission(r) \/ EndAdmission(r) \/ Dispatch(r)
                           \/ BeginStage(r) \/ FetchFiles(r) \/ EndStage(r) \/ FinishRun(r)
                           \/ CancelQueued(r) \/ StopRun(r)
  BY <1>1, <1>q DEF BeginAdmission, EndAdmission, Dispatch, BeginStage, FetchFiles, EndStage,
     FinishRun, CancelQueued, StopRun, SetRun, manager
<1>2. CASE ViewInventory
  BY <1>2, <1>s DEF ViewInventory, BeginScan
<1>3. CASE EndScan
  BY <1>3, <1>s DEF EndScan
<1>4. CASE \/ \E f \in Fetches : Enqueue(f) \/ CancelDownload(f) \/ DownloadFiles(f)
           \/ Wake \/ ClaimDownload \/ BeginDownload \/ EndDownload \/ FinishDownload
  BY <1>4, <1>s DEF Enqueue, CancelDownload, DownloadFiles, Wake, ClaimDownload, BeginDownload,
     EndDownload, FinishDownload, elsewhere, around
<1>5. CASE ReadKeep
  BY <1>5, <1>s DEF ReadKeep, BeginScan, elsewhere, around
<1>6. CASE FindEntries
  BY <1>6, <1>s DEF FindEntries, elsewhere, around
<1>7. CASE KeepNext \/ KeepAnswered
  <2>1. request'[Collector] = request[Collector]
    BY <1>0, <1>7 DEF KeepNext, KeepAnswered, Ask, Requests
  <2> QED BY <1>7, <1>s, <2>1 DEF KeepNext, KeepAnswered, elsewhere, around
<1>8. CASE AcquireLease \/ StartServer \/ Shutdown \/ MarkDrained \/ \E u \in Users : OrphanExits(u)
  BY <1>8, <1>q DEF AcquireLease, StartServer, Shutdown, MarkDrained, OrphanExits, manager
<1>9. CASE Exit \/ Crash \/ Reboot
  <2>1. /\ request'[Collector] = NoRequest /\ scan' = NoScan /\ plan' = {}
    BY <1>0, <1>9 DEF Exit, Crash, Reboot, MemoryLost
  <2>2. AdmissionsRead'
    BY AdmissionsStay DEF CleanupParts
  <2> QED BY <1>0, <2>1, <2>2 DEF CleanupParts, CleanupIsNamed, PreviewIsAlone, ClearsWhatWasShown,
          CheckedIsAgreed, NoRequest, NoScan, CleanupIsUp
<1> QED BY <1>1, <1>2, <1>3, <1>4, <1>5, <1>6, <1>7, <1>8, <1>9 DEF Next

\* Only its own check brings the cleanup's request from the barrier to the removal.
LEMMA CheckedByItself ==
  ASSUME UseInv, Next, request[Collector].pc = "inside", request'[Collector].pc = "checked"
  PROVE  CheckRemoval(Collector)
<1>0. /\ request \in Requests /\ Collector \in Writers /\ Client \in Writers
      /\ Client # Collector /\ Service # Collector
  BY StorageAssumption DEF UseInv, TypeInv, TypeOK, StorageTypeOK, Requests, Writers
<1>1. ASSUME NEW w \in Writers, \/ EnterBarrier(w) \/ CheckRemoval(w) \/ RefuseRequest(w)
                                \/ RenameFiles(w) \/ PurgeFiles(w) \/ SaveKeep(w)
      PROVE  CheckRemoval(Collector)
  <2>1. CASE w = Collector
    <3>1. ASSUME NEW op, LeaveBarrier(Collector, op) PROVE FALSE
      BY <1>0, <3>1 DEF LeaveBarrier, NoRequest
    <3> QED BY <1>1, <2>1, <3>1 DEF EnterBarrier, RefuseRequest, RenameFiles, PurgeFiles, SaveKeep
  <2>2. CASE w # Collector
    <3>1. request'[Collector] = request[Collector]
      <4>1. ASSUME NEW op, LeaveBarrier(w, op) PROVE request'[Collector] = request[Collector]
        BY <1>0, <2>2, <4>1, RequestLeaves DEF UseInv
      <4>2. CASE \E pc : request' = [request EXCEPT ![w].pc = pc]
        BY <1>0, <2>2, <4>2 DEF Requests
      <4> QED BY <1>1, <4>1, <4>2 DEF EnterBarrier, CheckRemoval, RefuseRequest, RenameFiles,
              PurgeFiles, SaveKeep
    <3> QED BY <3>1
  <2> QED BY <2>1, <2>2
<1>2. CASE RemovalStep
  <2>1. ASSUME NEW op, OwnerAsks(op) PROVE FALSE
    BY <1>0, <2>1 DEF OwnerAsks, Ask
  <2>2. ASSUME NEW op, BeginCleanup(op) PROVE FALSE
    BY <2>2 DEF BeginCleanup, Idle, NoRequest
  <2>3. CASE PreviewCleanup \/ ShowPlan \/ PlanCleanup \/ CollectTarget \/ EndCleanup
    BY <2>3 DEF PreviewCleanup, ShowPlan, PlanCleanup, CollectTarget, EndCleanup
  <2> QED BY <1>1, <1>2, <2>1, <2>2, <2>3 DEF RemovalStep
<1>3. CASE ~RemovalStep
  <2>1. CASE UNCHANGED request
    BY <2>1
  <2>2. CASE KeepNext \/ KeepAnswered
    <3>1. request'[Collector] = request[Collector]
      BY <1>0, <2>2 DEF KeepNext, KeepAnswered, Ask, Requests
    <3> QED BY <3>1
  <2>3. CASE MemoryLost
    BY <1>0, <2>3 DEF MemoryLost, NoRequest
  <2>4. UNCHANGED request \/ KeepNext \/ KeepAnswered \/ MemoryLost
    <3>1. CASE \/ \E r \in Runs : \/ BeginAdmission(r) \/ EndAdmission(r) \/ Dispatch(r)
                                  \/ BeginStage(r) \/ FetchFiles(r) \/ EndStage(r) \/ FinishRun(r)
                                  \/ CancelQueued(r) \/ StopRun(r)
               \/ ViewInventory \/ EndScan
      BY <3>1 DEF BeginAdmission, EndAdmission, Dispatch, BeginStage, FetchFiles, EndStage,
         FinishRun, CancelQueued, StopRun, SetRun, ViewInventory, EndScan, manager
    <3>2. CASE \/ \E f \in Fetches : Enqueue(f) \/ CancelDownload(f) \/ DownloadFiles(f)
               \/ Wake \/ ClaimDownload \/ BeginDownload \/ EndDownload \/ ReadKeep \/ FindEntries
               \/ FinishDownload
      BY <3>2 DEF Enqueue, CancelDownload, DownloadFiles, Wake, ClaimDownload, BeginDownload,
         EndDownload, ReadKeep, FindEntries, FinishDownload
    <3>3. CASE \/ AcquireLease \/ StartServer \/ Shutdown \/ MarkDrained \/ Exit \/ Crash \/ Reboot
               \/ \E u \in Users : OrphanExits(u)
      BY <3>3 DEF AcquireLease, StartServer, Shutdown, MarkDrained, Exit, Crash, Reboot,
         OrphanExits, manager
    <3> QED BY <1>3, <3>1, <3>2, <3>3 DEF Next
  <2> QED BY <2>1, <2>2, <2>3, <2>4
<1> QED BY <1>2, <1>3

\* A cleanup removes what the owner has confirmed, in the version checked last, or what
\* has expired when it is checked behind the barrier, and nothing that a cached-only run
\* waits for (internal/modelstorage, Retainer.Collect).
THEOREM CleanupsAreAgreed == Spec => CleanupAsAgreed
<1> DEFINE c == request[Collector]
           m == c.model
           agreed == /\ c.pc = "checked" /\ Lost(m) =>
                          /\ ~Awaited(m)
                          /\ c.op = "clear" =>
                               /\ [model |-> m, version |-> c.version] \in confirmed
                               /\ files[m] = c.version \/ Unwatched(m)
                     /\ c.pc = "inside" /\ request'[Collector].pc = "checked" /\ c.op = "expire" =>
                          m \in expired \/ files[m].left
           inv == CacheInv /\ CleanupInv
<1>1. Init => inv
  <2> SUFFICES ASSUME Init PROVE inv
    OBVIOUS
  <2>1. CacheInv
    BY CacheInvStart
  <2>2. /\ request[Collector] = NoRequest /\ plan = {} /\ scan = NoScan
        /\ \A r \in Runs : runs[r] = "none"
    BY DEF Init, StorageInit, Writers
  <2> QED BY <2>1, <2>2, StorageAssumption DEF CacheInv, CacheParts, CleanupInv, CleanupParts, AdmissionsRead,
          CleanupIsNamed, PreviewIsAlone, ClearsWhatWasShown, CheckedIsAgreed, NoRequest, NoScan, Writers,
          CleanupIsUp
<1>2. inv /\ [Next]_vars => inv'
  <2> SUFFICES ASSUME inv, [Next]_vars PROVE inv'
    OBVIOUS
  <2>1. CacheInv' /\ UseInv /\ FetchIsUse /\ UseInv' /\ FetchIsUse'
    BY CacheInvStep DEF CacheInv, CacheParts
  <2>2. CASE UNCHANGED vars
    BY <2>1, <2>2 DEF CleanupInv, CleanupParts, AdmissionsRead, CleanupIsNamed, PreviewIsAlone,
       ClearsWhatWasShown, CheckedIsAgreed, Awaited, vars, storageVars, disk, gate, manager,
       CleanupIsUp, leaseVars, Unwatched, Stopped
  <2>3. CASE Next
    BY <2>1, <2>3, RemovalStepCleanup, OtherStepsCleanup DEF CleanupInv
  <2> QED BY <2>1, <2>2, <2>3
<1>3. inv /\ [Next]_vars => [agreed]_vars
  <2> SUFFICES ASSUME inv, Next PROVE agreed
    OBVIOUS
  <2>0. request \in Requests /\ Collector \in Writers /\ UseInv /\ CleanupParts
    BY DEF CleanupInv, UseInv, TypeInv, TypeOK, StorageTypeOK, Requests, Writers
  <2>1. ASSUME c.pc = "checked"
        PROVE  /\ ~Awaited(m)
               /\ c.op = "clear" => /\ [model |-> m, version |-> c.version] \in confirmed
                                    /\ files[m] = c.version \/ Unwatched(m)
    BY <2>0, <2>1 DEF CleanupParts, CheckedIsAgreed, ClearsWhatWasShown
  <2>2. ASSUME c.pc = "inside", request'[Collector].pc = "checked", c.op = "expire"
        PROVE  m \in expired \/ files[m].left
    <3>1. CheckRemoval(Collector)
      BY <2>0, <2>2, CheckedByItself
    <3> QED BY <2>2, <3>1 DEF CheckRemoval, Removable, StillAgreed, Eligible
  <2> QED BY <2>1, <2>2
<1> QED BY <1>1, <1>2, <1>3, PTL DEF Spec, CleanupAsAgreed
=============================================================================
