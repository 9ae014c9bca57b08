----------------------------- MODULE MCTaskQueue -----------------------------
(***************************************************************************)
(* TaskQueue on small instances: which recording each queued run and each  *)
(* execution belongs to, for the constant sets the configurations choose.  *)
(***************************************************************************)
EXTENDS QueueProperties, QueueRefinement, TLC

CONSTANTS j1, j2, i1, i2, i3, e1, e2

\* One recording: every run and every execution is its own.
OneRecording == [x \in Items \cup Execs |-> j1]

\* Two recordings: the first run and execution belong to j1, the rest to j2.
TwoRecordings == [x \in Items \cup Execs |-> IF x \in {i1, e1} THEN j1 ELSE j2]

\* The runs of one recording are interchangeable: wherever the model chooses one,
\* OneActiveRun and dense positions leave a single candidate.
Interchangeable == Permutations(Items)
=============================================================================
