------------------------------- MODULE MCLadder -------------------------------
(***************************************************************************)
(* RecoveryLadder on plans chosen so that every rung, every missing rung   *)
(* and every order of the rungs occurs.                                    *)
(***************************************************************************)
EXTENDS LadderProperties

Desc == [kind |-> "recognition", batches |-> {1, 2, 8}, cpu |-> {"float32"},
         cuda |-> {"float16", "float32"}, stitches |-> TRUE, windows |-> {6, 10, 20},
         minOverlap |-> 2]
Aligner == [Desc EXCEPT !.kind = "alignment", !.batches = {1}, !.stitches = FALSE]

Gpu == [device |-> "cuda", precision |-> "float16", batch |-> 4, window |-> 30,
        stitched |-> FALSE]
Native == [Gpu EXCEPT !.window = 0, !.precision = "float32"]
Host == [Gpu EXCEPT !.device = "cpu", !.precision = "float32"]
Learned == [Gpu EXCEPT !.batch = 2, !.window = 10, !.stitched = TRUE]

Saved == [locked |-> FALSE, cpu |-> TRUE, cpuPrecision |-> "float32", minBatch |-> 2,
          shorter |-> TRUE, windows |-> {10, 20}, minWindow |-> 10, overlap |-> 2]

Older == [saved |-> FALSE, strength |-> FALSE, max |-> 0, smaller |-> FALSE]
Budget(n, smaller) == [saved |-> TRUE, strength |-> TRUE, max |-> n, smaller |-> smaller]

Plan(mode, saved, desc, original, learned, retry) ==
  [mode |-> mode, saved |-> saved, desc |-> desc, original |-> original,
   learned |-> learned, retry |-> retry]

Historical ==
  {Plan(m, Saved, Desc, Gpu, None, Older) : m \in Modes \ Strengths}
  \cup {Plan("shorter_windows", Saved, Desc, Host, None, Older),
        Plan("shorter_windows", Saved, Desc, Native, None, Older),
        Plan("shorter_windows", [Saved EXCEPT !.locked = TRUE], Desc, Gpu, None, Older),
        Plan("shorter_windows", Saved, [Desc EXCEPT !.cuda = {}], Gpu, Learned, Older),
        Plan("cpu_fallback", Saved, Desc, Gpu, Learned, Older),
        Plan("cpu_fallback", [Saved EXCEPT !.minBatch = 8], Desc, Gpu, None, Older)}

Current ==
  {Plan("standard", None, Desc, Gpu, None, Budget(3, TRUE)),
   Plan("strong", None, Desc, Gpu, None, Budget(3, TRUE)),
   Plan("aggressive", None, Desc, Gpu, None, Budget(3, TRUE))}
  \cup {Plan("aggressive", None, Desc, Native, None, Budget(2, TRUE)),
        Plan("strong", None, Desc, Gpu, Learned, Budget(2, FALSE)),
        Plan("aggressive", None, Desc, Gpu, Learned, Budget(3, TRUE)),
        Plan("aggressive", None, Desc, Host, None, Budget(3, FALSE)),
        Plan("strong", None, Desc, Gpu, None, Budget(3, FALSE)),
        Plan("shorter_windows", Saved, Desc, Gpu, None,
             [Budget(4, FALSE) EXCEPT !.strength = FALSE]),
        Plan("aggressive", Saved, Desc, Gpu, None, Budget(2, TRUE)),
        Plan("standard", None, Aligner, Gpu, None, Budget(2, TRUE)),
        Plan("strong", None, Aligner, Gpu, None, Budget(1, TRUE))}

EveryPlan == Historical \cup Current

StrongPlans == {Plan("strong", None, Desc, Gpu, None, Budget(3, TRUE))}
=============================================================================
