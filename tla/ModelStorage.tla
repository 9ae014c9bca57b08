---------------------------- MODULE ModelStorage -----------------------------
(***************************************************************************)
(* The downloaded model files and everything that may remove them          *)
(* (internal/modelstorage): the gate that orders removals, stages and      *)
(* queue admissions, the manager with its cached inventory, and the        *)
(* retainer with its keep preferences and cleanups.                        *)
(*                                                                         *)
(* A model's files are one value: whether any are in place, whether a      *)
(* removal left some under a removal name, and which content they have.    *)
(* Its equality is what the version of an inventory entry compares.        *)
(* ModelRemoval adds the removals, preferences and cleanups, and           *)
(* ModelDownloads the download service and the life of the server.         *)
(***************************************************************************)
EXTENDS ServerLease

CONSTANTS
  Models,      \* cached models
  Runs,        \* runs, each with one stage at a time
  Fetches,     \* catalog entries that can be downloaded
  Needs,       \* the models a run or download uses
  CachedOnly,  \* runs that must find their models cached
  Client,      \* a signed-in owner's request
  Collector,   \* the retainer's cleanup
  Service,     \* the download worker, saving a keep preference
  None,        \* nobody, or nothing read yet
  MaxContent,  \* bound: how often files of a model may be fetched
  MaxRequests  \* bound: requests of the owner, and daily cleanups

Users   == Runs \cup Fetches
Writers == {Client, Collector, Service}

ASSUME StorageAssumption ==
  /\ Needs \in [Users -> SUBSET Models] /\ CachedOnly \subseteq Runs
  /\ Runs \cap Fetches = {} /\ None \notin Writers
  /\ Client # Collector /\ Client # Service /\ Collector # Service
  /\ (Writers \cup {None}) \cap {"view", "preview"} = {}
  /\ MaxContent \in Nat /\ MaxRequests \in Nat

VARIABLES
  files,      \* the model directories on disk
  kept,       \* models whose cache record says keep_downloaded
  expired,    \* models last used longer ago than the retention policy allows
  runs,       \* durable state of each run
  rows,       \* model_downloads, the latest row of each catalog entry
  orphans,    \* children of a server that has died, still at work
  uses,       \* Gate.uses
  barrier,    \* Gate.barrier
  marks,      \* Gate.filesChanged against Manager.filesRevision
  snapshot,   \* Manager.cached
  scan,       \* the inventory being taken, under Manager.scanMu
  request,    \* the removal or preference each writer is executing
  plan,       \* the targets of the cleanup in progress
  confirmed,  \* the plan the owner has been shown
  stopping,   \* the server is shutting down
  requests    \* counts against MaxRequests

disk    == <<files, kept, expired, runs, rows>>
gate    == <<uses, barrier, marks>>
manager == <<snapshot, scan, request, plan, confirmed>>

FileRow == [there : BOOLEAN, left : BOOLEAN, content : Nat]
Target  == [model : Models, version : FileRow]
NoScan  == [by |-> None, step |-> "none", seen |-> [m \in Models |-> None]]
NoRequest == [pc |-> "idle", op |-> "none", model |-> None, version |-> None]

StorageTypeOK ==
  /\ LeaseTypeOK
  /\ files \in [Models -> FileRow]
  /\ kept \subseteq Models /\ expired \subseteq Models
  /\ runs \in [Runs -> {"none", "admitting", "queued", "processing", "stopped", "done"}]
  /\ rows \in [Fetches -> [state : {"none", "queued", "downloading", "canceling",
                                    "completed", "failed", "canceled"}, keep : BOOLEAN]]
  /\ orphans \subseteq Users /\ uses \subseteq Users
  /\ barrier \in [readers : SUBSET Runs, writer : Writers \cup {None},
                  waiting : SUBSET Writers]
  /\ barrier.writer # None => barrier.readers = {}
  /\ marks \in [Models -> {"clean", "seen", "changed"}]
  /\ snapshot \in [Models -> FileRow \cup {None}]
  /\ scan \in [by : {None, "view", "preview", Collector, Service},
               step : {"none", "read", "done"},
               seen : [Models -> FileRow \cup {None}]]
  /\ request \in [Writers -> [pc : {"idle", "waiting", "inside", "checked", "renamed",
                                    "answered"},
                              op : {"none", "remove", "expire", "clear", "keep", "unkeep"},
                              model : Models \cup {None}, version : FileRow \cup {None}]]
  /\ plan \subseteq Target /\ confirmed \subseteq Target
  /\ stopping \in BOOLEAN /\ requests \in Nat

StorageInit ==
  /\ LeaseInit
  /\ files = [m \in Models |-> [there |-> TRUE, left |-> FALSE, content |-> 0]]
  /\ kept = {} /\ expired = Models /\ runs = [r \in Runs |-> "none"]
  /\ rows = [f \in Fetches |-> [state |-> "none", keep |-> FALSE]]
  /\ orphans = {} /\ uses = {}
  /\ barrier = [readers |-> {}, writer |-> None, waiting |-> {}]
  /\ marks = [m \in Models |-> "clean"] /\ snapshot = [m \in Models |-> None]
  /\ scan = NoScan /\ request = [w \in Writers |-> NoRequest]
  /\ plan = {} /\ confirmed = {} /\ stopping = FALSE /\ requests = 0

Up == lease = "held"
Serving == Up /\ ~stopping

-----------------------------------------------------------------------------
(* The gate: Gate.barrier is a sync.RWMutex, whose waiting writers hold     *)
(* back new readers.                                                        *)

MayReadPastRemovals == TRUE                                    \* mutant

MayRead == barrier.writer = None /\ barrier.waiting = {}

Marked(S) == [m \in Models |-> IF m \in S THEN "changed" ELSE marks[m]]
FilesChanged(S) == marks' = Marked(S)

\* The rows that the server's Uses callback reads: what is active, not queued.
DurableUses ==
  {r \in Runs : runs[r] = "processing"}
    \cup {f \in Fetches : rows[f].state \in {"downloading", "canceling"}}

InUse(m) == \E u \in uses \cup DurableUses : m \in Needs[u]

\* A queued run of a cached-only profile needs its files to stay.
Awaited(m) == \E r \in CachedOnly : runs[r] = "queued" /\ m \in Needs[r]

-----------------------------------------------------------------------------
(* Runs: queue admission, dispatch and stages.                             *)

\* Admission is a read lock, held until the queue row is written.
BeginAdmission(r) ==
  /\ Serving /\ proven /\ runs[r] = "none" /\ MayRead
  /\ barrier' = [barrier EXCEPT !.readers = @ \cup {r}]
  /\ runs' = [runs EXCEPT ![r] = "admitting"]
  /\ UNCHANGED <<leaseVars, files, kept, expired, rows, orphans, uses, marks, manager,
                 stopping, requests>>

EndAdmission(r) ==
  /\ Up /\ runs[r] = "admitting"
  /\ barrier' = [barrier EXCEPT !.readers = @ \ {r}]
  /\ runs' = [runs EXCEPT ![r] = "queued"]
  /\ UNCHANGED <<leaseVars, files, kept, expired, rows, orphans, uses, marks, manager,
                 stopping, requests>>

\* A queue worker claims the run, outside the gate; its start counts as a use.
Dispatch(r) ==
  /\ Serving /\ proven /\ runs[r] = "queued"
  /\ runs' = [runs EXCEPT ![r] = "processing"]
  /\ expired' = expired \ Needs[r]
  /\ UNCHANGED <<leaseVars, files, kept, rows, orphans, gate, manager, stopping, requests>>

\* A stage registers its use; BeginUse returns once no removal is at work.
BeginUse(u) ==
  /\ MayRead /\ uses' = uses \cup {u}
  /\ UNCHANGED <<barrier, marks>>

BeginStage(r) ==
  /\ Up /\ proven /\ runs[r] = "processing" /\ r \notin uses \cup orphans
  /\ BeginUse(r)
  /\ UNCHANGED <<leaseVars, disk, orphans, manager, stopping, requests>>

\* A child fetches what is missing or newer, with its server or as an orphan.
Fetch(u) ==
  \E m \in Needs[u] :
    /\ files[m].content < MaxContent
    /\ files' = [files EXCEPT ![m].there = TRUE, ![m].content = @ + 1]

FetchFiles(r) ==
  /\ r \in uses \cup orphans /\ Fetch(r)
  /\ UNCHANGED <<leaseVars, kept, expired, runs, rows, orphans, gate, manager, stopping,
                 requests>>

\* The release that BeginUse returned: the use and its marks.
EndUse(u) == uses' = uses \ {u} /\ marks' = Marked(Needs[u]) /\ UNCHANGED barrier

EndStage(r) ==
  /\ r \in uses /\ EndUse(r)
  /\ UNCHANGED <<leaseVars, disk, orphans, manager, stopping, requests>>

SetRun(r, state) ==
  /\ runs' = [runs EXCEPT ![r] = state]
  /\ UNCHANGED <<leaseVars, files, kept, expired, rows, orphans, gate, manager, stopping,
                 requests>>

\* The worker settles the run's rows.
FinishRun(r) ==
  /\ Up /\ proven /\ runs[r] = "processing" /\ r \notin uses \cup orphans
  /\ SetRun(r, "done")

\* A stop takes a waiting run out of the queue.
CancelQueued(r) == Serving /\ runs[r] = "queued" /\ SetRun(r, "done")

\* A stop writes the end of a run at once when nobody owns it, in a server whose startup
\* was refused as well, and when it has no queue item; whoever is at work on it does not
\* matter.  Of other runs the worker writes the end: FinishRun.
StopRun(r) == Serving /\ runs[r] = "processing" /\ SetRun(r, "stopped")

\* The runs that a stop has ended, whoever may still be at work on them.
Stopped == {r \in Runs : runs[r] = "stopped"}

-----------------------------------------------------------------------------
(* Inventory, under scanMu.                                                *)

Scanned == snapshot # [m \in Models |-> None]
\* A removal holds scanMu from its own scan to its end.
ScanFree == /\ scan.step # "read"
            /\ \A w \in Writers : request[w].pc \notin {"checked", "renamed"}

\* fileChangesSince, then a look at everything or at what is marked.
BeginScan(by, refresh) ==
  /\ scan.step = "none" /\ ScanFree
  /\ LET look == IF refresh \/ ~Scanned THEN Models
                 ELSE {m \in Models : marks[m] = "changed"}
     IN  scan' = [by |-> by, step |-> "read",
                  seen |-> [m \in Models |-> IF m \in look THEN files[m] ELSE snapshot[m]]]
  /\ marks' = [m \in Models |-> IF marks[m] = "changed" THEN "seen" ELSE marks[m]]

ViewInventory ==
  /\ Serving /\ BeginScan("view", FALSE)
  /\ UNCHANGED <<leaseVars, disk, orphans, uses, barrier, snapshot, request, plan,
                 confirmed, stopping, requests>>

AllMarksCleared == [m \in Models |-> "clean"]                  \* mutant

\* filesRevision becomes the revision read before the scan: what was marked since
\* stays marked.
MarksSince == [m \in Models |-> IF marks[m] = "seen" THEN "clean" ELSE marks[m]]
MarksKept  == [m \in Models |-> IF marks[m] = "seen" THEN "changed" ELSE marks[m]]

\* The scan is merged into the cached inventory, or fails and changes nothing.
EndScan ==
  /\ scan.step = "read"
  /\ \/ /\ snapshot' = scan.seen /\ marks' = MarksSince
        /\ scan' = IF scan.by = "view" THEN NoScan ELSE [scan EXCEPT !.step = "done"]
     \/ /\ marks' = MarksKept /\ scan' = NoScan
        /\ UNCHANGED snapshot
  /\ UNCHANGED <<leaseVars, disk, orphans, uses, barrier, request, plan, confirmed,
                 stopping, requests>>
=============================================================================
