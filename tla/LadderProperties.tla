--------------------------- MODULE LadderProperties ---------------------------
(***************************************************************************)
(* What must hold of the attempts of a stage, whatever failures, inner     *)
(* retries, contention, cancellations, crashes and resumes produce them.   *)
(***************************************************************************)
EXTENDS RecoveryLadder

Settings(k) == attempts[k].settings
Later == 2..Len(attempts)

\* Settings that differ from the configured ones only where the plan permits it.
Permitted(p, s) ==
  \/ s = p.original
  \/ /\ Level(p.mode) > 0
     /\ s.batch # p.original.batch =>
          /\ Level(p.mode) >= 2 /\ s.batch \in p.desc.batches
          /\ s.batch < p.original.batch /\ s.batch >= Rule(p).minBatch
     /\ IF s.device = p.original.device THEN s.precision = p.original.precision
        ELSE CpuGranted(p) /\ s.device = "cpu" /\ s.precision = Rule(p).cpuPrecision
     /\ \/ s.window = p.original.window /\ s.stitched = p.original.stitched
        \/ /\ s.stitched /\ WindowGranted(p, s.window)
           /\ p.original.window > 0 => s.window < p.original.window

\* A plan whose own batch is not below its minimum, and that names its precisions.
Learnable(p) ==
  /\ Rule(p).minBatch <= p.original.batch
  /\ p.original.precision # "auto" /\ "auto" \notin p.desc.cpu

\* "Every candidate changes only a capability-qualified value explicitly permitted by
\* the saved stage policy" (adaptive_candidates.go), over all failures and resumes;
\* and whatever was run may be learned: it passes the check that guards learned
\* starts, unless the plan's own settings would not.
OnlyPermittedSettings ==
  /\ TypeOK
  /\ \A k \in DOMAIN attempts :
       Permitted(plan, Settings(k)) /\ (Learnable(plan) => CandidateAllowed(plan, Settings(k)))

ShorterThan(w) == {v \in Rule(plan).windows : WindowGranted(plan, v) /\ (w > 0 => v < w)}

\* The ladder only leads down, over all failures and resumes, and step by step in
\* the order of its plan.  Windows and batches never grow, and the GPU comes back
\* only with a shorter window and the precision the plan was admitted with.  What
\* another program did to the GPU costs an owner no setting.  A plan saved as
\* aggressive goes to the CPU for lack of memory only when it may shorten its window
\* no further, any other goes to the CPU before it gives up context.
LadderDescends ==
  \A k \in Later :
    LET a == Settings(k - 1)
        b == Settings(k)
        last   == attempts[k - 1]
        before == SubSeq(attempts, 1, k - 1)
        sameOwner == attempts[k].gen = last.gen
    IN  /\ b.batch <= a.batch
        /\ a.window > 0 => b.window > 0 /\ b.window <= a.window
        /\ a.device = "cpu" /\ b.device = "cuda" =>
             b.window # a.window /\ b.precision = plan.original.precision
        /\ last.contended /\ sameOwner => b = a
        /\ attempts[k].reason = "cpu_fallback" /\ plan.mode = "aggressive"
             /\ last.code = "cuda_out_of_memory" /\ sameOwner
             => Uses(before, "shorter_window") = 2 \/ ShorterThan(a.window) = {}
        /\ attempts[k].reason = "shorter_window" /\ plan.mode # "aggressive"
             /\ a.device = "cuda" /\ CpuGranted(plan) /\ sameOwner
             => \E j \in 1..(k - 1) : Settings(j).device = "cpu"

\* The retries of the coordinator and those the worker makes on its own share one
\* budget, over failures, stops, crashes and resumes: not even retries that a crash
\* kept from being counted are made again.  "Manual resume may run once, but must not
\* grant a fresh budget" (worker_recovery.go).
NoFreshBudget ==
  plan.retry.saved =>
    Cardinality({k \in DOMAIN attempts : attempts[k].reason \in Rungs})
      + Total([k \in DOMAIN attempts |-> attempts[k].inner], Len(attempts))
      <= plan.retry.max

\* What holds of it: the budget is shared as long as every worker's log can be read.
RetriesWithinBudget == unread = 0 => NoFreshBudget

\* The same settings are not tried again in the hope of better luck: an owner
\* repeats them only as the one cleanup retry or the one exact retry of an aligner
\* that the stage has in all its resumes.
NothingRepeatedInVain ==
  /\ \A j, k \in DOMAIN attempts :
       j < k /\ Settings(j) = Settings(k) /\ attempts[j].gen = attempts[k].gen
         => \E i \in (j + 1)..k :
              attempts[i].reason \in {"cleanup_retry", "exact_alignment_retry"}
  /\ \A reason \in {"cleanup_retry", "exact_alignment_retry", "cpu_fallback"} :
       Uses(attempts, reason) <= 1

\* Failures that count as evidence: for lack of memory, on their own device, with
\* nobody else on the GPU.
Evidence(k) ==
  /\ attempts[k].code = IF Settings(k).device = "cpu" THEN "host_out_of_memory"
                        ELSE "cuda_out_of_memory"
  /\ ~attempts[k].contended

\* What a learned shorter window of each plan must have exhausted.
FullWindow == [p \in Plans |-> FullWindowCandidates(p)]

\* The plan may reduce its batch.
MayShrink == plan.retry.saved => plan.retry.smaller

\* How the settings that a shorter window must have exhausted and those tried at the
\* full window relate.
Agree(full, tried) ==
  /\ full \ tried = {s \in full : ~MayShrink /\ s.batch < plan.original.batch}
  /\ MayShrink => tried \subseteq full
  /\ CpuGranted(plan) /\ plan.original.device = "cuda" =>
       ((\E s \in full : s.device = "cpu") <=> plan.mode # "aggressive")

\* permittedFullWindowCandidates and the loop agree as far as the code keeps them
\* together: when nothing but clean lack of memory drives one owner down, the settings
\* it has tried before it shortens the window are those a learned start must have
\* exhausted, no fewer and no more.  They part when the plan may not reduce its
\* batches: the loop then drops the adapter's qualified batches, the enumeration does
\* not, and demands the smaller ones that are never tried.  "The complete permitted
\* full-window ladder" it is only where the CPU comes before shorter windows: the
\* enumeration has a granted CPU unless the plan is aggressive.
EnumerationIsTheLadder ==
  \A k \in Later :
    /\ Start(plan) = plan.original
    /\ attempts[k].reason = "shorter_window" /\ attempts[k].gen = 1
    /\ \A j \in 1..(k - 1) : Evidence(j) /\ Settings(j).window = plan.original.window
    => Agree(FullWindow[plan], {Settings(j) : j \in 1..(k - 1)})
=============================================================================
