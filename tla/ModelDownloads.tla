--------------------------- MODULE ModelDownloads ----------------------------
(***************************************************************************)
(* Manual model downloads (internal/modeldownloads and                     *)
(* internal/repository/model_downloads.go): durable rows, one worker, and  *)
(* the life of the server around the model files - start, orderly          *)
(* shutdown, crash, restart of the machine.                                *)
(***************************************************************************)
EXTENDS ModelRemoval

CONSTANTS
  MaxCrashes     \* bound: crashes and restarts of the machine

ASSUME DownloadAssumption == MaxCrashes \in Nat

VARIABLES
  worker,     \* the goroutine of Service.run, and the download it executes
  wake,       \* Service.wake holds a token
  crashes     \* counts against MaxCrashes

serviceVars == <<worker, wake, crashes>>
storageVars == <<leaseVars, disk, orphans, gate, manager, stopping, requests>>
vars == <<storageVars, serviceVars>>

NoWorker == [pc |-> "off", fetch |-> None, live |-> TRUE, outcome |-> "none",
             todo |-> {}]

TypeOK ==
  /\ StorageTypeOK
  /\ worker \in [pc : {"off", "idle", "looking", "claimed", "fetching", "fetched",
                       "scanning", "keeping", "finishing"},
                 fetch : Fetches \cup {None}, live : BOOLEAN,
                 outcome : {"none", "completed", "failed", "canceled"},
                 todo : SUBSET Target]   \* models it has yet to keep
  /\ wake \in BOOLEAN /\ crashes \in Nat

Init ==
  /\ StorageInit
  /\ worker = NoWorker /\ wake = FALSE /\ crashes = 0

Active(f) == rows[f].state \in {"queued", "downloading", "canceling"}
Available == Serving /\ worker.pc # "off"
SetRow(f, state) == rows' = [rows EXCEPT ![f].state = state]

\* What the steps of requests and of the worker leave alone.
around == <<leaseVars, kept, expired, runs, orphans, snapshot, plan, confirmed,
            stopping, crashes>>
elsewhere == <<around, files, requests>>

-----------------------------------------------------------------------------
(* Requests, under Service.mu.                                             *)

\* A repeated request returns the active row and may only strengthen it.
Enqueue(f) ==
  /\ Available /\ Requested
  /\ \E keep \in BOOLEAN :
       rows' = [rows EXCEPT ![f] =
         IF Active(f) THEN [@ EXCEPT !.keep = @ \/ keep]
         ELSE [state |-> "queued", keep |-> keep]]
  /\ wake' = TRUE
  /\ UNCHANGED <<around, files, gate, scan, request, worker>>

CancelDownload(f) ==
  /\ Available /\ rows[f].state \in {"queued", "downloading"}
  /\ SetRow(f, IF rows[f].state = "queued" THEN "canceled" ELSE "canceling")
  /\ worker' = IF worker.fetch = f THEN [worker EXCEPT !.live = FALSE] ELSE worker
  /\ UNCHANGED <<elsewhere, gate, scan, request, wake>>

-----------------------------------------------------------------------------
(* The worker.  Its context ends with a cancellation or with the service.  *)

Done == ~worker.live \/ stopping
At(pc) == worker.pc = pc
Goto(pc) == worker' = [worker EXCEPT !.pc = pc]
FinishAs(outcome) ==
  worker' = [worker EXCEPT !.pc = "finishing", !.outcome = outcome, !.todo = {}]

Wake ==
  /\ At("idle")
  /\ \/ ~stopping /\ wake /\ wake' = FALSE /\ Goto("looking")
     \/ stopping /\ worker' = NoWorker /\ UNCHANGED wake
  /\ UNCHANGED <<elsewhere, rows, gate, scan, request>>

\* Next, and the registration of the cancel function, under one lock.
ClaimDownload ==
  /\ At("looking")
  /\ \/ /\ stopping \/ \A f \in Fetches : rows[f].state # "queued"
        /\ worker' = IF stopping THEN NoWorker ELSE [NoWorker EXCEPT !.pc = "idle"]
        /\ UNCHANGED rows
     \/ \E f \in Fetches :
          /\ ~stopping /\ rows[f].state = "queued" /\ SetRow(f, "downloading")
          /\ worker' = [NoWorker EXCEPT !.pc = "claimed", !.fetch = f]
  /\ UNCHANGED <<elsewhere, gate, scan, request, wake>>

\* The use is registered before the child starts, unless the catalog has changed.
BeginDownload ==
  /\ At("claimed")
  /\ \/ BeginUse(worker.fetch) /\ Goto("fetching")
     \/ FinishAs("failed") /\ UNCHANGED gate
  /\ UNCHANGED <<elsewhere, rows, scan, request, wake>>

\* The child of this server, or one that outlived its server.
DownloadFiles(f) ==
  /\ (At("fetching") /\ worker.fetch = f) \/ f \in orphans
  /\ Fetch(f)
  /\ UNCHANGED <<around, requests, rows, gate, scan, request, worker, wake>>

\* Fetcher.Download returns.  Shutdown leaves the row for the next start.
EndDownload ==
  /\ At("fetching")
  /\ \/ stopping /\ worker' = NoWorker /\ EndUse(worker.fetch)
     \/ Done /\ ~stopping /\ FinishAs("canceled") /\ UNCHANGED gate
     \/ ~Done /\ FinishAs("failed") /\ UNCHANGED gate
     \/ /\ ~Done /\ \A m \in Needs[worker.fetch] : files[m].there
        /\ Goto("fetched") /\ FilesChanged(Needs[worker.fetch])
        /\ UNCHANGED <<uses, barrier>>
  /\ UNCHANGED <<elsewhere, rows, scan, request, wake>>

\* The row is read again for a keep request made meanwhile; then the inventory.
ReadKeep ==
  /\ At("fetched")
  /\ \/ ~Done /\ ~rows[worker.fetch].keep /\ FinishAs("completed") /\ UNCHANGED <<marks, scan>>
     \/ /\ ~Done /\ rows[worker.fetch].keep
        /\ BeginScan(Service, FALSE) /\ Goto("scanning")
     \/ FinishAs("failed") /\ UNCHANGED <<marks, scan>>
  /\ UNCHANGED <<elsewhere, rows, uses, barrier, request, wake>>

\* The entries of its sources, in the inventory it got.
FindEntries ==
  /\ At("scanning")
  /\ \/ /\ scan.by = Service /\ scan.step = "done" /\ scan' = NoScan
        /\ IF \A m \in Needs[worker.fetch] : Present(scan.seen[m])
           THEN worker' = [worker EXCEPT !.pc = "keeping", !.todo =
                  {[model |-> m, version |-> scan.seen[m]] : m \in Needs[worker.fetch] \ kept}]
           ELSE FinishAs("failed")
     \/ scan.by # Service /\ FinishAs("failed") /\ UNCHANGED scan
  /\ UNCHANGED <<elsewhere, rows, gate, request, wake>>

\* SetKeepDownloaded for each, which is a request of its own at the barrier.
KeepNext ==
  /\ At("keeping") /\ Idle(Service)
  /\ \/ /\ worker.todo = {} /\ FinishAs("completed") /\ UNCHANGED <<request, barrier>>
     \/ \E t \in worker.todo : Ask(Service, "keep", t) /\ UNCHANGED worker
  /\ UNCHANGED <<elsewhere, rows, uses, marks, scan, wake>>

KeepAnswered ==
  LET r == request[Service]
  IN  /\ At("keeping") /\ r.pc = "answered"
      /\ request' = [request EXCEPT ![Service] = NoRequest]
      /\ IF r.op = "keep"
         THEN worker' = [worker EXCEPT !.todo = {t \in @ : t.model # r.model}]
         ELSE FinishAs("failed")
      /\ UNCHANGED <<elsewhere, rows, gate, scan, wake>>

FinishOverCancel(f) == worker.outcome                          \* mutant

\* A cancellation that was recorded first wins over every outcome.
Outcome(f) == IF rows[f].state = "canceling" THEN "canceled" ELSE worker.outcome

\* Finish is retried until it succeeds; shutdown leaves the row as it is.  Then
\* the use is released.
FinishDownload ==
  /\ At("finishing")
  /\ \/ SetRow(worker.fetch, Outcome(worker.fetch))
     \/ stopping /\ UNCHANGED rows
  /\ IF worker.fetch \in uses THEN EndUse(worker.fetch) ELSE UNCHANGED gate
  /\ worker' = [NoWorker EXCEPT !.pc = "looking"]
  /\ UNCHANGED <<elsewhere, scan, request, wake>>

-----------------------------------------------------------------------------
(* The server.                                                             *)

\* Startup, with RecoverExecutions and Service.Start when the workers of earlier
\* servers are known to have stopped; otherwise both leave the rows as they are.
StartServer ==
  /\ Truncate
  /\ IF proven
     THEN /\ runs' = [r \in Runs |-> IF runs[r] = "processing" THEN "done" ELSE runs[r]]
          /\ rows' = [f \in Fetches |-> [rows[f] EXCEPT !.state =
               CASE @ = "canceling" -> "canceled" [] @ = "downloading" -> "queued"
                 [] OTHER -> @]]
          /\ worker' = [NoWorker EXCEPT !.pc = "idle"] /\ wake' = TRUE
     ELSE UNCHANGED <<runs, rows, worker, wake>>
  /\ UNCHANGED <<files, kept, expired, orphans, gate, manager, stopping, requests,
                 crashes>>

AcquireLease == Acquire /\ UNCHANGED <<disk, orphans, gate, manager, stopping, requests,
                                       serviceVars>>

Ends == crashes < MaxCrashes /\ crashes' = crashes + 1

Shutdown ==
  /\ Serving /\ stopping' = TRUE
  /\ UNCHANGED <<leaseVars, disk, orphans, gate, manager, requests, serviceVars>>

\* Requests, maintenance, downloads and queue have been drained.
MarkDrained ==
  /\ stopping /\ At("off") /\ uses = {} /\ scan = NoScan /\ plan = {}
  /\ \A w \in Writers : Idle(w)
  /\ \A r \in Runs : runs[r] # "admitting" /\ (proven => runs[r] # "processing")
  /\ MarkWorkersStopped
  /\ UNCHANGED <<disk, orphans, gate, manager, stopping, requests, serviceVars>>

\* The memory of a server that is gone.
MemoryLost ==
  /\ uses' = {} /\ barrier' = [readers |-> {}, writer |-> None, waiting |-> {}]
  /\ marks' = [m \in Models |-> "clean"] /\ snapshot' = [m \in Models |-> None]
  /\ scan' = NoScan /\ request' = [w \in Writers |-> NoRequest] /\ plan' = {}
  /\ runs' = [r \in Runs |-> IF runs[r] = "admitting" THEN "none" ELSE runs[r]]
  /\ worker' = NoWorker /\ wake' = FALSE /\ stopping' = FALSE
  /\ UNCHANGED <<files, kept, expired, rows, confirmed, requests>>

Exit == Leave /\ MemoryLost /\ UNCHANGED <<orphans, crashes>>

\* The children of a server that dies may go on.
Children == (uses \cap Runs) \cup {f \in Fetches : At("fetching") /\ worker.fetch = f}

Crash ==
  /\ LoseLease /\ Ends /\ MemoryLost
  /\ \E left \in SUBSET Children : orphans' = orphans \cup left

OrphanExits(u) ==
  /\ u \in orphans /\ orphans' = orphans \ {u}
  /\ UNCHANGED <<leaseVars, disk, gate, manager, stopping, requests, serviceVars>>

Reboot == NextBoundary /\ Ends /\ MemoryLost /\ orphans' = {}

Next ==
  \/ RemovalStep /\ UNCHANGED serviceVars
  \/ /\ \/ \E r \in Runs : \/ BeginAdmission(r) \/ EndAdmission(r) \/ Dispatch(r)
                           \/ BeginStage(r) \/ FetchFiles(r) \/ EndStage(r) \/ FinishRun(r)
                           \/ CancelQueued(r) \/ StopRun(r)
        \/ ViewInventory \/ EndScan
     /\ UNCHANGED serviceVars
  \/ \E f \in Fetches : Enqueue(f) \/ CancelDownload(f) \/ DownloadFiles(f)
  \/ Wake \/ ClaimDownload \/ BeginDownload \/ EndDownload \/ ReadKeep \/ FindEntries
  \/ KeepNext \/ KeepAnswered \/ FinishDownload
  \/ AcquireLease \/ StartServer \/ Shutdown \/ MarkDrained \/ Exit \/ Crash \/ Reboot
  \/ \E u \in Users : OrphanExits(u)

Spec == Init /\ [][Next]_vars
=============================================================================
