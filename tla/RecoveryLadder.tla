---------------------------- MODULE RecoveryLadder ----------------------------
(***************************************************************************)
(* Which settings one recoverable stage is tried with: the ladder of       *)
(* internal/transcription/adaptive_candidates.go, climbed down by the loop *)
(* of runRecoverableStage (recoverable_stage.go) over failures, retries    *)
(* inside the worker, crashes and resumes.                                 *)
(*                                                                         *)
(* plan is what admission saved, attempts the rows of recovery_attempts,   *)
(* run the variables of the running loop.  Checkpoints has the rows, the   *)
(* owners and the results around the attempts; here they keep what the     *)
(* ladder reads: settings, reason, failure and retry counts.  A window is  *)
(* shortened together with its overlap and stitching, so one field stands  *)
(* for both.  Runs without a recovery mode, which have one fallback of     *)
(* their own, are left out.                                                *)
(***************************************************************************)
EXTENDS Naturals, Sequences, FiniteSets

CONSTANTS
  Plans,        \* stage plans an execution may be admitted with
  None,         \* no saved rule, no candidate
  MaxAttempts,  \* attempts of one stage, 7 in the code
  MaxGen,       \* bound: owners of the execution, one more than its resumes
  MaxInner,     \* bound: retries one worker makes on its own
  MaxUnread     \* bound: how often a worker's evidence cannot be read

Modes == {"fixed", "stage_management", "batch_management", "cpu_fallback",
          "shorter_windows", "standard", "strong", "aggressive"}
Strengths == {"standard", "strong", "aggressive"}

Precisions == {"float16", "float32", "auto"}

\* models.AdaptiveStageSettings.  Window 0 is the adapter's native context.
SettingsRow == [device : {"cuda", "cpu"}, precision : Precisions, batch : Nat \ {0},
                window : Nat, stitched : BOOLEAN]

\* models.AdaptiveStagePolicy
RuleRow == [locked : BOOLEAN, cpu : BOOLEAN, cpuPrecision : Precisions,
            minBatch : Nat, shorter : BOOLEAN, windows : SUBSET Nat,
            minWindow : Nat, overlap : Nat]

\* interfaces.StageDescriptor.  Without a stitching version, or with windows that
\* are no seconds, the adapter has no usable window policy.
DescRow == [kind : {"recognition", "alignment"}, batches : SUBSET Nat,
            cpu : SUBSET Precisions, cuda : SUBSET Precisions,
            stitches : BOOLEAN, windows : SUBSET Nat, minOverlap : Nat]

\* models.ExecutionPolicy; older plans were saved without one.
RetryRow == [saved : BOOLEAN, strength : BOOLEAN, max : Nat, smaller : BOOLEAN]

PlanRow == [mode : Modes, saved : RuleRow \cup {None}, desc : DescRow,
            original : SettingsRow, learned : SettingsRow \cup {None}, retry : RetryRow]

GpuFailures == {"cuda_out_of_memory", "cuda_runtime_error"}
Capacity    == {"cuda_out_of_memory", "host_out_of_memory"}
Codes == GpuFailures \cup Capacity \cup {"runtime_alignment_error", "adapter_failed"}

Rungs == {"cleanup_retry", "smaller_batch", "cpu_fallback", "shorter_window",
          "exact_alignment_retry"}
Reasons == Rungs \cup {"initial", "learned_start", "resume_same_settings"}

ASSUME LadderAssumption ==
  /\ Plans \subseteq PlanRow /\ \A p \in Plans : IsFiniteSet(p.desc.windows)
  /\ MaxAttempts \in Nat \ {0}
  /\ MaxGen \in Nat \ {0} /\ MaxInner \in Nat /\ MaxUnread \in Nat

VARIABLES
  plan,      \* the admitted plan of the stage
  attempts,  \* recovery_attempts of the stage
  run,       \* the loop of the owner, if one runs
  unread     \* counts against MaxUnread

vars == <<plan, attempts, run, unread>>

Attempt == [settings : SettingsRow, reason : Reasons, gen : Nat,
            state : {"waiting", "running", "retryable", "failed", "blocked",
                     "cancelled", "interrupted", "succeeded"},
            code : Codes \cup {"none", "resource_wait_expired",
                               "worker_recovery_evidence_unavailable"},
            contended : BOOLEAN,
            inner : Nat,           \* retries the worker has made
            counted : Nat,         \* those its saved measurements show
            measured : BOOLEAN]    \* measurements were saved

Run == [pc : {"idle", "ready", "waiting", "running", "failed", "over", "down", "done"},
        gen : Nat, current : SettingsRow, reason : Reasons,
        used : Nat,                \* automaticRetries
        blind : BOOLEAN,           \* recoveryEvidenceUnavailable
        stopped : BOOLEAN]         \* the execution was cancelled or is late

TypeOK ==
  /\ plan \in Plans /\ attempts \in Seq(Attempt) /\ run \in Run /\ unread \in Nat

Init ==
  /\ plan \in Plans /\ attempts = << >> /\ unread = 0
  /\ run = [pc |-> "idle", gen |-> 1, current |-> plan.original, reason |-> "initial",
            used |-> 0, blind |-> FALSE, stopped |-> FALSE]

-----------------------------------------------------------------------------
(* What a plan permits.                                                    *)

Level(mode) ==
  CASE mode = "fixed" -> 0
    [] mode = "stage_management" -> 1
    [] mode \in {"batch_management", "standard"} -> 2
    [] mode = "cpu_fallback" -> 3
    [] OTHER -> 4

PermitsCpu(mode)     == mode \in {"cpu_fallback", "shorter_windows", "aggressive"}
PermitsWindows(mode) == mode \in {"shorter_windows", "strong", "aggressive"}

NoRule == [locked |-> FALSE, cpu |-> FALSE, cpuPrecision |-> "float32", minBatch |-> 0,
           shorter |-> FALSE, windows |-> {}, minWindow |-> 0, overlap |-> 0]

Largest(S, n) == {x \in S : Cardinality({y \in S : y > x}) < n}
Least(S) == CHOOSE x \in S : \A y \in S : x <= y

\* The windows a recovery strength grants: the two largest its adapter stitches.
GrantedWindows(mode, desc) ==
  IF PermitsWindows(mode) /\ desc.stitches
  THEN Largest({w \in desc.windows : w > 2 * desc.minOverlap}, 2)
  ELSE {}

\* A strength without a saved rule of its stage grants what the adapter declares.
EffectiveRule(p) ==
  LET windows == GrantedWindows(p.mode, p.desc)
  IN  IF p.saved # None THEN p.saved
      ELSE IF p.mode \notin Strengths THEN NoRule
      ELSE [locked |-> ~PermitsCpu(p.mode),
            cpu |-> PermitsCpu(p.mode) /\ "float32" \in p.desc.cpu,
            cpuPrecision |-> "float32", minBatch |-> 1,
            shorter |-> windows # {}, windows |-> windows,
            minWindow |-> IF windows = {} THEN 0 ELSE Least(windows),
            overlap |-> IF PermitsWindows(p.mode) /\ p.desc.stitches
                        THEN p.desc.minOverlap ELSE 0]

Rules   == [p \in Plans |-> EffectiveRule(p)]
Rule(p) == Rules[p]

CpuGranted(p) ==
  /\ PermitsCpu(p.mode) /\ ~Rule(p).locked /\ Rule(p).cpu
  /\ Rule(p).cpuPrecision \in p.desc.cpu

WindowGranted(p, w) ==
  /\ PermitsWindows(p.mode) /\ Rule(p).shorter /\ p.desc.stitches
  /\ Rule(p).overlap >= p.desc.minOverlap
  /\ w \in Rule(p).windows \cap p.desc.windows
  /\ w >= Rule(p).minWindow /\ w > 2 * Rule(p).overlap

\* candidateAllowed: the check a learned starting plan has to pass.
CandidateAllowed(p, s) ==
  \/ s = p.original
  \/ /\ Level(p.mode) > 0 /\ s.precision # "auto"
     /\ s.batch >= 1 /\ s.batch >= Rule(p).minBatch /\ s.batch <= p.original.batch
     /\ s.batch # p.original.batch => Level(p.mode) >= 2 /\ s.batch \in p.desc.batches
     /\ IF s.device = p.original.device
        THEN s.precision = p.original.precision
        ELSE CpuGranted(p) /\ s.device = "cpu" /\ s.precision = Rule(p).cpuPrecision
     /\ \/ s.window = p.original.window /\ s.stitched = p.original.stitched
        \/ /\ s.stitched /\ WindowGranted(p, s.window)
           /\ p.original.window > 0 => s.window < p.original.window

\* A stage starts with the learned plan of its admission if that is permitted now.
Start(p) ==
  IF p.learned # None /\ Level(p.mode) > 0 /\ CandidateAllowed(p, p.learned)
  THEN p.learned ELSE p.original

-----------------------------------------------------------------------------
(* The ladder.                                                             *)

UsesBefore(history, reason) ==   \* mutant
  Cardinality({k \in DOMAIN history : k < Len(history) /\ history[k].reason = reason})

Uses(history, reason) == Cardinality({k \in DOMAIN history : history[k].reason = reason})
Tried(history, s)     == \E k \in DOMAIN history : history[k].settings = s

\* Smaller qualified batches, at the full window only.
BatchRung(p, batches, code, current, history) ==
  IF /\ Level(p.mode) >= 2 /\ code = "cuda_out_of_memory"
     /\ current.window = p.original.window /\ Uses(history, "smaller_batch") < 2
  THEN {[current EXCEPT !.batch = b] :
          b \in {b \in batches : b < current.batch /\ b >= 1 /\ b >= Rule(p).minBatch}}
  ELSE {}

CpuRungLocked(p, code, current, history) ==   \* mutant
  IF PermitsCpu(p.mode) /\ code \in GpuFailures /\ current.device = "cuda"
  THEN {[current EXCEPT !.device = "cpu", !.precision = Rule(p).cpuPrecision]}
  ELSE {}

CpuRung(p, code, current, history) ==
  IF CpuGranted(p) /\ code \in GpuFailures /\ current.device = "cuda"
     /\ Uses(history, "cpu_fallback") = 0
  THEN {[current EXCEPT !.device = "cpu", !.precision = Rule(p).cpuPrecision]}
  ELSE {}

\* A shorter window returns to the configured GPU, where the adapter supports it.
Shortened(p, current, w) ==
  LET cut == [current EXCEPT !.window = w, !.stitched = TRUE]
  IN  IF p.original.device = "cuda" /\ p.original.precision \in p.desc.cuda
      THEN [cut EXCEPT !.device = "cuda", !.precision = p.original.precision]
      ELSE cut

WindowRung(p, code, current, history) ==
  IF code # "cuda_runtime_error" /\ Uses(history, "shorter_window") < 2
  THEN {Shortened(p, current, w) :
          w \in {w \in Rule(p).windows : WindowGranted(p, w)
                   /\ (current.window > 0 => w < current.window)}}
  ELSE {}

\* Historical plans turn to the CPU before they shorten a window.
Order(p, batches, code, current, history) ==
  LET B == <<"smaller_batch", BatchRung(p, batches, code, current, history)>>
      C == <<"cpu_fallback", CpuRung(p, code, current, history)>>
      W == <<"shorter_window", WindowRung(p, code, current, history)>>
  IN  IF p.mode = "aggressive" THEN <<B, W, C>> ELSE <<B, C, W>>

\* nextAdaptiveCandidate: the first rung with untried settings, and of these the
\* largest batch and window.
NextCandidate(p, batches, code, current, history, contended) ==
  LET order    == Order(p, batches, code, current, history)
      fresh(k) == {s \in order[k][2] : ~Tried(history, s)}
      open     == {k \in 1..3 : fresh(k) # {}}
      best(S)  == CHOOSE s \in S : \A t \in S : t.batch <= s.batch /\ t.window <= s.window
  IN  IF Level(p.mode) = 0 \/ Len(history) >= MaxAttempts THEN None
      ELSE IF p.desc.kind = "alignment" /\ code = "runtime_alignment_error"
      THEN IF Uses(history, "exact_alignment_retry") > 0 THEN None
           ELSE [settings |-> current, reason |-> "exact_alignment_retry"]
      ELSE IF code \notin GpuFailures \cup Capacity THEN None
      ELSE IF code \in GpuFailures /\ current.device = "cuda"
              /\ Uses(history, "cleanup_retry") = 0
      THEN [settings |-> current, reason |-> "cleanup_retry"]
      ELSE IF contended \/ open = {} THEN None
      ELSE LET k == Least(open)
           IN  [settings |-> best(fresh(k)), reason |-> order[k][1]]

FullWindowBatches(p) ==   \* mutant
  {[p.original EXCEPT !.batch = b] :
     b \in {p.original.batch}
             \cup {b \in p.desc.batches : b < p.original.batch /\ b >= Rule(p).minBatch}}

\* An attempt of a run that only runs out of memory, and what follows it.
Exhausting(p, settings, reason, before) ==
  LET history == Append(before, [settings |-> settings, reason |-> reason])
      code    == IF settings.device = "cpu" THEN "host_out_of_memory"
                 ELSE "cuda_out_of_memory"
  IN  [settings |-> settings, history |-> history,
       next |-> NextCandidate(p, p.desc.batches, code, settings, history, FALSE)]

\* permittedFullWindowCandidates: the settings a stage must have exhausted before
\* a shorter window may become its learned start.
FullWindowCandidates(p) ==
  LET further(W) == {w \in W : w.next # None /\ w.next.settings.window = p.original.window}
      nth[n \in 1..MaxAttempts] ==
        IF n = 1 THEN {Exhausting(p, p.original, "initial", << >>)}
        ELSE {Exhausting(p, w.next.settings, w.next.reason, w.history) :
                w \in further(nth[n - 1])}
  IN  {w.settings : w \in UNION {nth[n] : n \in 1..MaxAttempts}}

-----------------------------------------------------------------------------
(* The retry budget.                                                       *)

Total(f, n) == LET upto[k \in 0..n] == IF k = 0 THEN 0 ELSE upto[k - 1] + f[k] IN upto[n]

SavedUsage(history) ==
  Cardinality({k \in DOMAIN history : history[k].reason \in Rungs})
    + Total([k \in DOMAIN history |->
             IF history[k].measured THEN history[k].counted ELSE 0], Len(history))

UsageAsSaved(history) == SavedUsage(history)   \* mutant

\* An attempt without saved measurements may have spent everything.
StageRetryUsage(history) ==
  LET saved == SavedUsage(history)
  IN  IF /\ plan.retry.saved /\ plan.retry.strength /\ plan.retry.max > saved
         /\ \E k \in DOMAIN history : ~history[k].measured
      THEN plan.retry.max ELSE saved

RetryAllowed(used) == ~plan.retry.saved \/ used < plan.retry.max

\* The retries a worker is told it may still make; older workers make none.
Remaining(used) ==
  IF ~plan.retry.saved \/ ~plan.retry.strength \/ used >= plan.retry.max THEN 0
  ELSE plan.retry.max - used

\* Without permission for smaller batches the adapter's are not eligible.
Eligible == IF plan.retry.saved /\ ~plan.retry.smaller THEN {} ELSE plan.desc.batches

NextRung(code, contended, used, blind, history) ==
  IF blind \/ ~RetryAllowed(used) THEN None
  ELSE NextCandidate(plan, Eligible, code, run.current, history, contended)

-----------------------------------------------------------------------------
(* The loop around one attempt after another.                              *)

Latest == attempts[Len(attempts)]

With(row) == [attempts EXCEPT ![Len(attempts)] = row]

BeginAfresh ==   \* mutant
  /\ run.pc = "idle"
  /\ run' = [run EXCEPT !.pc = "ready", !.blind = FALSE, !.used = StageRetryUsage(attempts),
                        !.current = Start(plan), !.reason = "resume_same_settings"]
  /\ UNCHANGED <<plan, attempts, unread>>

\* The owner reads what was saved: a first attempt takes the admitted or learned
\* start, a resume the settings of the last attempt, whatever may have changed.
Begin ==
  /\ run.pc = "idle"
  /\ run' = [run EXCEPT
       !.pc = "ready", !.blind = FALSE, !.used = StageRetryUsage(attempts),
       !.current = IF attempts = << >> THEN Start(plan) ELSE Latest.settings,
       !.reason = IF attempts # << >> THEN "resume_same_settings"
                  ELSE IF Start(plan) # plan.original THEN "learned_start" ELSE "initial"]
  /\ UNCHANGED <<plan, attempts, unread>>

Claim ==
  /\ run.pc = "ready" /\ ~run.stopped /\ Len(attempts) < MaxAttempts
  /\ attempts' = Append(attempts,
       [settings |-> run.current, reason |-> run.reason, gen |-> run.gen,
        state |-> "waiting", code |-> "none", contended |-> FALSE, inner |-> 0,
        counted |-> 0, measured |-> FALSE])
  /\ run' = [run EXCEPT !.pc = "waiting"]
  /\ UNCHANGED <<plan, unread>>

\* The backoff, the wait for the GPU slot or the wait for free memory ends.
Admit ==
  /\ run.pc = "waiting" /\ ~run.stopped
  /\ attempts' = With([Latest EXCEPT !.state = "running"])
  /\ run' = [run EXCEPT !.pc = "running"]
  /\ UNCHANGED <<plan, unread>>

WaitExpires ==
  /\ run.pc = "waiting" /\ ~run.stopped
  /\ attempts' = With([Latest EXCEPT !.state = "blocked", !.code = "resource_wait_expired"])
  /\ run' = [run EXCEPT !.pc = "over"]
  /\ UNCHANGED <<plan, unread>>

\* What can go wrong with a worker that runs these settings.
Failures(s) ==
  (IF s.device = "cuda" THEN GpuFailures ELSE {"host_out_of_memory"})
    \cup {"adapter_failed"}
    \cup (IF plan.desc.kind = "alignment" THEN {"runtime_alignment_error"} ELSE {})

InnerRetries == {n \in 0..Remaining(run.used) : n <= MaxInner}

\* The adapter returns an error: its measurements are saved, the failure is
\* classified, and the attempt is retryable when the ladder goes on.
RunFails ==
  /\ run.pc = "running" /\ ~run.stopped
  /\ \E failure \in Failures(run.current), inner \in InnerRetries :
     \E contended \in (IF failure \in GpuFailures THEN BOOLEAN ELSE {FALSE}) :
       LET row  == [Latest EXCEPT !.code = failure, !.contended = contended,
                      !.inner = inner, !.counted = inner, !.measured = TRUE]
           used == run.used + inner
           next == NextRung(failure, contended, used, FALSE, With(row))
       IN  /\ attempts' = With([row EXCEPT
                !.state = IF next = None THEN "failed" ELSE "retryable"])
           /\ run' = [run EXCEPT !.pc = "failed", !.used = used]
  /\ UNCHANGED <<plan, unread>>

\* The log with the worker's own retries cannot be read: no retry of theirs is
\* counted, and the ladder of this owner ends.
EvidenceUnread ==
  /\ run.pc = "running" /\ ~run.stopped /\ unread < MaxUnread
  /\ \E inner \in InnerRetries :
       attempts' = With([Latest EXCEPT !.state = "failed", !.inner = inner,
                           !.code = "worker_recovery_evidence_unavailable",
                           !.measured = TRUE])
  /\ run' = [run EXCEPT !.pc = "failed", !.blind = TRUE]
  /\ unread' = unread + 1
  /\ UNCHANGED plan

\* The measurements cannot be saved: the attempt is blocked without them.
EvidenceUnsaved ==
  /\ run.pc = "running" /\ ~run.stopped /\ plan.retry.saved /\ plan.retry.strength
  /\ \E inner \in InnerRetries :
       attempts' = With([Latest EXCEPT !.state = "blocked", !.inner = inner])
  /\ run' = [run EXCEPT !.pc = "over", !.blind = TRUE]
  /\ UNCHANGED <<plan, unread>>

\* The attempt of a stopped execution ends.  Its owner may write no outcome after a
\* stop or the deadline, and the attempt is interrupted; at shutdown it still may.
StoppedEnds ==
  /\ run.pc \in {"waiting", "running"} /\ run.stopped
  /\ \E inner \in IF run.pc = "running" THEN InnerRetries ELSE {0},
        state \in {"interrupted", "cancelled", "blocked"} :
       attempts' = With([Latest EXCEPT !.state = state, !.inner = inner])
  /\ run' = [run EXCEPT !.pc = "over"]
  /\ UNCHANGED <<plan, unread>>

\* The adapter succeeds; a result that cannot be saved blocks the attempt.
RunSucceeds ==
  /\ run.pc = "running" /\ ~run.stopped
  /\ \E inner \in InnerRetries, committed \in BOOLEAN :
       /\ attempts' = With([Latest EXCEPT
            !.state = IF committed THEN "succeeded" ELSE "blocked",
            !.inner = inner, !.counted = inner, !.measured = TRUE])
       /\ run' = [run EXCEPT !.pc = IF committed THEN "done" ELSE "over"]
  /\ UNCHANGED <<plan, unread>>

\* The loop asks for the next candidate, with what the failure has left.
Following == NextRung(Latest.code, Latest.contended, run.used, run.blind, attempts)

Descend ==
  /\ run.pc = "failed" /\ ~run.stopped
  /\ \E next \in {Following} \ {None} :
       run' = [run EXCEPT !.pc = "ready", !.current = next.settings,
                          !.reason = next.reason, !.used = @ + 1]
  /\ UNCHANGED <<plan, attempts, unread>>

\* No candidate is left, or the execution was cancelled.
GiveUp ==
  /\ \/ run.pc = "failed" /\ (run.stopped \/ Following = None)
     \/ run.pc \in {"idle", "ready"} /\ run.stopped
  /\ run' = [run EXCEPT !.pc = "over"]
  /\ UNCHANGED <<plan, attempts, unread>>

\* A client stops the execution, its deadline passes, or the server shuts down.
Stop ==
  /\ run.pc \in {"idle", "ready", "waiting", "running", "failed"} /\ ~run.stopped
  /\ run' = [run EXCEPT !.stopped = TRUE]
  /\ UNCHANGED <<plan, attempts, unread>>

\* The server dies under the loop; recovery at startup interrupts an attempt that
\* was active.  What the worker did on its own is not known to anyone.
Crash ==
  /\ run.pc \in {"ready", "waiting", "running", "failed"}
  /\ attempts' \in
       IF run.pc \in {"waiting", "running"}
       THEN {With([Latest EXCEPT !.state = "interrupted", !.inner = n]) :
               n \in IF run.pc = "running" THEN InnerRetries ELSE {0}}
       ELSE {attempts}
  /\ run' = [run EXCEPT !.pc = "down"]
  /\ UNCHANGED <<plan, unread>>

\* A client resumes the execution with the saved plan and a new owner.
Resume ==
  /\ run.pc \in {"over", "down"} /\ ~run.stopped /\ run.gen < MaxGen
  /\ Len(attempts) < MaxAttempts
  /\ run' = [run EXCEPT !.pc = "idle", !.gen = @ + 1]
  /\ UNCHANGED <<plan, attempts, unread>>

Loop == Begin \/ Claim \/ Admit \/ WaitExpires \/ RunFails \/ EvidenceUnread
          \/ EvidenceUnsaved \/ StoppedEnds \/ RunSucceeds \/ Descend \/ GiveUp

Next == Loop \/ Stop \/ Crash \/ Resume

Spec == Init /\ [][Next]_vars
=============================================================================
