---------------------------- MODULE ModelRemoval -----------------------------
(***************************************************************************)
(* What may change or remove model files on request: Manager.Remove,       *)
(* Retainer.SetKeepDownloaded and the cleanups of Retainer.Collect.  All   *)
(* run inside the removal barrier, and decide there on a fresh scan.       *)
(***************************************************************************)
EXTENDS ModelStorage

Removals == {"remove", "clear", "expire"}
Present(f) == f.there \/ f.left

\* What every request of a writer leaves alone.
others == <<leaseVars, runs, rows, orphans, uses, stopping, snapshot, scan>>

Ask(w, op, t) ==
  /\ request' = [request EXCEPT ![w] =
       [pc |-> "waiting", op |-> op, model |-> t.model, version |-> t.version]]
  /\ barrier' = [barrier EXCEPT !.waiting = @ \cup {w}]

\* Gate.removing: no reader and no other writer.
EnterBarrier(w) ==
  /\ request[w].pc = "waiting" /\ barrier.writer = None /\ barrier.readers = {}
  /\ request' = [request EXCEPT ![w].pc = "inside"]
  /\ barrier' = [barrier EXCEPT !.writer = w, !.waiting = @ \ {w}]
  /\ UNCHANGED <<others, files, kept, expired, marks, plan, confirmed, requests>>

\* The request is over.  A cleanup goes on with its purpose; the download worker
\* waits for its answer, which is op.
LeaveBarrier(w, op) ==
  /\ request' = [request EXCEPT ![w] =
       CASE w = Client    -> NoRequest
         [] w = Collector -> [NoRequest EXCEPT !.op = request[w].op]
         [] w = Service   -> [@ EXCEPT !.pc = "answered", !.op = op]]
  /\ barrier' = [barrier EXCEPT !.writer = None]

\* What a cleanup may take; a single removal is not so restricted.
Eligible(op, m) ==
  /\ op \in {"clear", "expire"} => ~Awaited(m)
  /\ op = "expire" => m \in expired \/ files[m].left

StillAgreedAsPlanned(op, m) == TRUE                            \* mutant

\* The plan was made outside the barrier: its condition is checked again inside.
StillAgreed(op, m) == Eligible(op, m)

RemovableThoughKept(w) ==                                      \* mutant
  LET r == request[w]
  IN  Present(files[r.model]) /\ files[r.model] = r.version /\ ~InUse(r.model)

\* The checks of remove: what the owner saw is what is there, nobody uses it, and
\* it is not to be kept.
Removable(w) ==
  LET r == request[w]
  IN  /\ Present(files[r.model]) /\ files[r.model] = r.version
      /\ ~InUse(r.model) /\ r.model \notin kept
      /\ StillAgreed(r.op, r.model)

CheckRemoval(w) ==
  /\ request[w].pc = "inside" /\ request[w].op \in Removals /\ ScanFree
  /\ Removable(w)
  /\ request' = [request EXCEPT ![w].pc = "checked"]
  /\ UNCHANGED <<others, files, kept, expired, barrier, marks, plan, confirmed, requests>>

\* The request is refused: by Removable, or because it has timed out, the files
\* cannot be inspected or are locked, or rows cannot be read.
RefuseRequest(w) ==
  /\ request[w].pc = "inside" /\ ScanFree
  /\ LeaveBarrier(w, "none")
  /\ \/ UNCHANGED marks
     \/ request[w].op \in Removals /\ FilesChanged({request[w].model})
  /\ UNCHANGED <<others, files, kept, expired, plan, confirmed, requests>>

\* All locations get a removal name, or those that did are given back their own,
\* which may fail too.
RenameFiles(w) ==
  LET m == request[w].model
  IN  /\ request[w].pc = "checked"
      /\ \/ /\ files' = [files EXCEPT ![m].there = FALSE, ![m].left = TRUE]
            /\ request' = [request EXCEPT ![w].pc = "renamed"]
            /\ UNCHANGED <<barrier, marks>>
         \/ /\ files' \in {files, [files EXCEPT ![m].left = TRUE]}
            /\ LeaveBarrier(w, "none") /\ FilesChanged({m})
      /\ UNCHANGED <<others, kept, expired, plan, confirmed, requests>>

PurgeFiles(w) ==
  LET m == request[w].model
  IN  /\ request[w].pc = "renamed"
      /\ files' \in {files, [files EXCEPT ![m].left = FALSE]}
      /\ LeaveBarrier(w, "none") /\ FilesChanged({m})
      /\ UNCHANGED <<others, kept, expired, plan, confirmed, requests>>

\* SetKeepDownloaded: files that are there, unchanged, and not being removed.
SaveKeep(w) ==
  LET r == request[w]
  IN  /\ r.pc = "inside" /\ r.op \in {"keep", "unkeep"} /\ ScanFree
      /\ Present(files[r.model]) /\ files[r.model] = r.version
      /\ r.op = "keep" => ~files[r.model].left
      /\ kept' = IF r.op = "keep" THEN kept \cup {r.model} ELSE kept \ {r.model}
      /\ LeaveBarrier(w, "keep")
      /\ UNCHANGED <<others, files, expired, marks, plan, confirmed, requests>>

-----------------------------------------------------------------------------
(* The owner's requests.                                                   *)

Requested == requests < MaxRequests /\ requests' = requests + 1

\* DELETE of a model, or PUT of its preference, in the version last shown.
OwnerAsks(op) ==
  /\ Serving /\ Requested /\ request[Client].pc = "idle" /\ Scanned
  /\ \E m \in Models :
       /\ Present(snapshot[m])
       /\ Ask(Client, op, [model |-> m, version |-> snapshot[m]])
  /\ UNCHANGED <<others, files, kept, expired, marks, plan, confirmed>>

Idle(w) == request[w] = NoRequest

\* The owner looks at what a cleanup would remove; not while one is running, so
\* that confirmed is what the running cleanup was started with.
PreviewCleanup ==
  /\ Serving /\ Requested /\ Idle(Collector) /\ BeginScan("preview", TRUE)
  /\ UNCHANGED <<leaseVars, disk, orphans, uses, barrier, snapshot, request, plan,
                 confirmed, stopping>>

Targets(op) ==
  {[model |-> m, version |-> scan.seen[m]] :
     m \in {m \in Models : /\ Present(scan.seen[m]) /\ m \notin kept /\ ~InUse(m)
                           /\ Eligible(op, m)}}

ShowPlan ==
  /\ scan.by = "preview" /\ scan.step = "done"
  /\ confirmed' = Targets("clear") /\ scan' = NoScan
  /\ UNCHANGED <<leaseVars, disk, orphans, gate, snapshot, request, plan, stopping,
                 requests>>

-----------------------------------------------------------------------------
(* Retainer.Collect, one at a time under its mutex.                        *)

\* The owner clears what was confirmed, or the daily check finds a policy.
BeginCleanup(op) ==
  /\ Serving /\ Requested /\ Idle(Collector) /\ BeginScan(Collector, FALSE)
  /\ request' = [request EXCEPT ![Collector].op = op]
  /\ UNCHANGED <<leaseVars, disk, orphans, uses, barrier, snapshot, plan, confirmed,
                 stopping>>

\* A plan other than the confirmed one is not carried out.
PlanCleanup ==
  LET op == request[Collector].op
  IN  /\ scan.by = Collector /\ scan.step = "done" /\ scan' = NoScan
      /\ plan' = IF op = "clear" /\ Targets(op) # confirmed THEN {} ELSE Targets(op)
      /\ UNCHANGED <<leaseVars, disk, orphans, gate, snapshot, request, confirmed,
                     stopping, requests>>

CollectTarget ==
  /\ request[Collector].pc = "idle"
  /\ \E t \in plan : /\ Ask(Collector, request[Collector].op, t)
                     /\ plan' = plan \ {t}
  /\ UNCHANGED <<others, files, kept, expired, marks, confirmed, requests>>

\* The batch is done, has failed, or ends with the server.
EndCleanup ==
  /\ request[Collector].op # "none" /\ request[Collector].pc = "idle"
  /\ scan.by # Collector /\ (plan = {} \/ stopping)
  /\ request' = [request EXCEPT ![Collector] = NoRequest] /\ plan' = {}
  /\ UNCHANGED <<others, files, kept, expired, barrier, marks, confirmed, requests>>

RemovalStep ==
  \/ \E w \in Writers : \/ EnterBarrier(w) \/ CheckRemoval(w) \/ RefuseRequest(w)
                        \/ RenameFiles(w) \/ PurgeFiles(w) \/ SaveKeep(w)
  \/ \E op \in {"remove", "keep", "unkeep"} : OwnerAsks(op)
  \/ PreviewCleanup \/ ShowPlan
  \/ \E op \in {"clear", "expire"} : BeginCleanup(op)
  \/ PlanCleanup \/ CollectTarget \/ EndCleanup
=============================================================================
