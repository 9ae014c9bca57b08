------------------------ MODULE CheckpointProperties -------------------------
(***************************************************************************)
(* What must hold of Checkpoints whatever workers, stops, deadlines,       *)
(* deletions, failed writes, crashes and restarts interleave.              *)
(***************************************************************************)
EXTENDS Checkpoints

CONSTANT Recording   \* the recording whose runs StageResults describes

ASSUME RecordingAssumption == Recording \in Recs

Holds(e, n) == stage[e][n].ckpt # None

\* A checkpoint a run relies on can always be read: whatever collection, failed
\* commits and crashes did, its row and its files are there, and those of every
\* checkpoint it was computed from, until the recording is to be deleted.
SelectedIsReadable ==
  \A e \in Execs, n \in Nodes :
    Holds(e, n) /\ tomb[RecOf[e]] = "none"
      => Lineage(stage[e][n].ckpt) \subseteq rows \cap dirs

\* A run never mixes results: the checkpoint of each stage, its own or one taken
\* over from an earlier run, was computed from the checkpoint that this very run
\* holds for the stage before.
LineageIsOwnChain ==
  \A e \in Execs, n \in Nodes :
    Holds(e, n) => /\ stage[e][n].ckpt.node = n
                   /\ UpOf(stage[e][n].ckpt) =
                        IF n = 1 THEN None ELSE stage[e][n - 1].ckpt

\* A completed deletion leaves no stage, attempt, row or directory behind, and a
\* late worker or a new run of the retained recording brings none back.
DeletionIsComplete ==
  \A r \in Recs : tomb[r] = "completed" =>
    /\ Of(r, rows) = {} /\ Of(r, dirs) = {}
    /\ \A e \in Execs : RecOf[e] = r =>
         \A n \in Nodes : stage[e][n] = NoStage /\ attempts[e][n] = << >>

Busy == {"claimed", "waiting", "admitted", "running", "returned", "renamed",
         "invoking", "closing"}

\* An active stage has one active attempt, its last, in the same state and of the
\* same owner, and while the server runs a worker of that generation is on it.  Only
\* when a write failed may a stage of a run that has ended stay active.
NoOrphanedStage ==
  \A e \in Execs, n \in Nodes :
    LET s == stage[e][n]
        A == attempts[e][n]
    IN  /\ \A k \in DOMAIN A : A[k].state \in ActiveState =>
             k = Len(A) /\ s.state = A[k].state /\ s.gen = A[k].gen
        /\ s.state \in ActiveState =>
             /\ A # << >> /\ A[Len(A)].state = s.state
             /\ \/ /\ worker[e].pc \in Busy /\ worker[e].node = n
                   /\ worker[e].gen = s.gen
                \/ phase \notin {"up", "draining"}
                \/ faults > 0 /\ exec[e].status \in {"failed", "cancelled"}

\* The saved budget holds over failures, crashes and resumes, and a result that
\* was persisted ends its stage: no attempt follows it.
BudgetHolds ==
  \A e \in Execs, n \in Nodes :
    /\ Len(attempts[e][n]) <= MaxAttempts
    /\ \A k \in DOMAIN attempts[e][n] :
         attempts[e][n][k].state = "succeeded" => k = Len(attempts[e][n])

\* Whoever holds the GPU slot is between its admission and the return of its
\* adapter: no refusal, expired wait, stop or failed write keeps the slot.
SlotIsReturned ==
  slot \in Execs => worker[slot].pc \in {"admitted", "running"}

\* Attempts, stages, owners and the slot account for one another.
AttemptsAddUp == NoOrphanedStage /\ BudgetHolds /\ SlotIsReturned

-----------------------------------------------------------------------------
RunsOfRecording == {e \in Execs : RecOf[e] = Recording}

Results(e) == [n \in 1..Cardinality({m \in Nodes : Holds(e, m)}) |-> stage[e][n].ckpt]

RunResults ==
  INSTANCE StageResults WITH
    Runs <- RunsOfRecording, Outputs <- Id, Length <- Stages,
    results <- [e \in RunsOfRecording |-> Results(e)],
    admitted <- {e \in RunsOfRecording : Fence(e, exec[e].gen)},
    doomed <- tomb[Recording] # "none",
    erased <- tomb[Recording] = "completed"

\* A run's results grow in the order of its stages, one at a time, and only while
\* it is running, undeleted and within its deadline: a commit that was checked
\* before a stop, a deadline or a deletion and reaches the database after it adds
\* nothing.
ResultsImplemented == RunResults!Spec
=============================================================================
