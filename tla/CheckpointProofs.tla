-------------------------- MODULE CheckpointProofs ---------------------------
(***************************************************************************)
(* Theorems about Checkpoints, for any number of recordings, executions,   *)
(* stages, saved attempts, tries, owners, restarts and failed writes.      *)
(*                                                                         *)
(* The inductive invariant IInv has six parts.  ChainInv says that the     *)
(* stages of a run are done in order, each from the result of the one      *)
(* before; StoreInv ties rows, directories and selections together;        *)
(* WorkerInv says where a worker is and whose it is; AccountInv makes      *)
(* attempts, stages, owners and the slot account for one another; and      *)
(* DeletionInv says how far a deletion has come.  A step is looked at by   *)
(* what it does to the results: it keeps them, begins a stage, adds one    *)
(* result, or erases those of a recording (ChainSteps).                    *)
(***************************************************************************)
EXTENDS CheckpointProperties, WellFoundedInduction, FiniteSetTheorems, TLAPS

-----------------------------------------------------------------------------
(* Induction over the natural numbers, said of sets.                       *)

\* A set of natural numbers has a least element.
LEMMA NatMinimum ==
  ASSUME NEW T \in SUBSET Nat, T # {}
  PROVE  \E n \in T : \A m \in T : n <= m
<1> DEFINE R == {p \in Nat \X Nat : p[1] < p[2]}
<1>1. IsWellFoundedOn(R, Nat)
  <2>1. OpToRel(<, Nat) = R
    BY DEF OpToRel
  <2> QED BY <2>1, NatLessThanWellFounded
<1>2. PICK n \in T : \A m \in T : <<m, n>> \notin R
  <2> HIDE DEF R
  <2> QED BY <1>1, WFMin
<1>3. ASSUME NEW m \in T PROVE n <= m
  <2>1. n \in Nat /\ m \in Nat
    OBVIOUS
  <2>2. m < n => <<m, n>> \in R
    BY <2>1
  <2>3. <<m, n>> \notin R
    BY <1>2
  <2> HIDE DEF R
  <2> QED BY <2>1, <2>2, <2>3
<1> QED BY <1>3

\* A set that has zero, and with a number the next, has them all.
LEMMA SetInduct ==
  ASSUME NEW S \in SUBSET Nat, 0 \in S, \A n \in S : n + 1 \in S
  PROVE  S = Nat
<1> SUFFICES ASSUME Nat \ S # {} PROVE FALSE
  OBVIOUS
<1>1. PICK n \in Nat \ S : \A m \in Nat \ S : n <= m
  BY NatMinimum
<1>2. n - 1 \in Nat /\ n - 1 \notin Nat \ S
  BY <1>1
<1> QED BY <1>1, <1>2

-----------------------------------------------------------------------------
(* Workers.                                                                *)

WorkerType == worker \in [Execs -> WorkerRow]

LEMMA RowTyped ==
  ASSUME NEW row \in WorkerRow
  PROVE  /\ \A pc \in Pc : [row EXCEPT !.pc = pc] \in WorkerRow
         /\ \A n \in Nodes : [row EXCEPT !.node = n] \in WorkerRow
         /\ \A k \in Nat : [row EXCEPT !.count = k] \in WorkerRow
         /\ \A try \in 1..MaxTries : [row EXCEPT !.try = try] \in WorkerRow
         /\ \A c \in Id \cup {None} : [row EXCEPT !.up = c] \in WorkerRow
         /\ \A s \in Settings : [row EXCEPT !.settings = s] \in WorkerRow
         /\ \A r \in {"ok", "error"} : [row EXCEPT !.result = r] \in WorkerRow
         /\ [row EXCEPT !.live = FALSE] \in WorkerRow
BY DEF WorkerRow

\* What becomes of a worker is a worker.
LEMMA WorkerTyped ==
  ASSUME WorkerType, NEW e \in Execs
  PROVE  /\ \A pc \in Pc : Goto(e, pc) => WorkerType'
         /\ GiveUp(e) => WorkerType'
         /\ \A c \in Id \cup {None} : Advance(e, c) => WorkerType'
         /\ \A pc \in Pc, k \in Nat, s \in Settings :
              worker' = [worker EXCEPT ![e].count = k, ![e].settings = s, ![e].pc = pc]
                => WorkerType'
         /\ \A pc \in Pc, k \in Nat :
              worker' = [worker EXCEPT ![e].pc = pc, ![e].count = k] => WorkerType'
         /\ \A pc \in Pc, s \in Settings :
              worker' = [worker EXCEPT ![e].pc = pc, ![e].settings = s] => WorkerType'
         /\ \A pc \in Pc, r \in {"ok", "error"} :
              worker' = [worker EXCEPT ![e].pc = pc, ![e].try = 1, ![e].result = r]
                => WorkerType'
         /\ \A pc \in Pc :
              worker[e].try < MaxTries /\ worker' = [worker EXCEPT ![e].pc = pc, ![e].try = @ + 1]
                => WorkerType'
         /\ worker' = [worker EXCEPT ![e].live = FALSE] => WorkerType'
<1> USE CheckpointAssumption DEF WorkerType, CheckpointAssumption
<1>1. worker[e] \in WorkerRow
  OBVIOUS
<1>0. ASSUME NEW row \in WorkerRow, worker' = [worker EXCEPT ![e] = row] PROVE WorkerType'
  BY <1>0
<1>2. ASSUME NEW pc \in Pc, Goto(e, pc) PROVE WorkerType'
  BY <1>2, SMTT(30) DEF Goto, WorkerRow
<1>3. ASSUME GiveUp(e) PROVE WorkerType'
  <2> DEFINE r1 == [worker[e] EXCEPT !.pc = "closing"]
             r2 == [r1 EXCEPT !.result = "error"]
  <2>1. worker' = [worker EXCEPT ![e] = r2]
    BY <1>3 DEF GiveUp
  <2>2. r1 \in WorkerRow
    BY <1>1, RowTyped DEF Pc
  <2> HIDE DEF r1
  <2>3. r2 \in WorkerRow
    BY <2>2, RowTyped
  <2> HIDE DEF r2
  <2> QED BY <2>1, <2>3, <1>0
<1>4. ASSUME NEW c \in Id \cup {None}, Advance(e, c) PROVE WorkerType'
  <2> DEFINE last == worker[e].node = Stages
             pc == IF last THEN "closing" ELSE "ready"
             n == IF last THEN worker[e].node ELSE worker[e].node + 1
             r1 == [worker[e] EXCEPT !.up = c]
             r2 == [r1 EXCEPT !.try = 1]
             r3 == [r2 EXCEPT !.pc = pc]
             r4 == [r3 EXCEPT !.node = n]
  <2>1. worker' = [worker EXCEPT ![e] = r4]
    BY <1>4 DEF Advance
  <2>2. pc \in Pc /\ n \in Nodes /\ 1 \in 1..MaxTries
    BY <1>1 DEF Pc, Nodes, WorkerRow
  <2> HIDE DEF pc, n, last
  <2>3. r1 \in WorkerRow
    BY <1>1, RowTyped
  <2> HIDE DEF r1
  <2>4. r2 \in WorkerRow
    BY <2>2, <2>3, RowTyped
  <2> HIDE DEF r2
  <2>5. r3 \in WorkerRow
    BY <2>2, <2>4, RowTyped
  <2> HIDE DEF r3
  <2>6. r4 \in WorkerRow
    BY <2>2, <2>5, RowTyped
  <2> HIDE DEF r4
  <2> QED BY <2>1, <2>6, <1>0
<1>5. ASSUME NEW pc \in Pc, NEW k \in Nat, NEW s \in Settings,
             worker' = [worker EXCEPT ![e].count = k, ![e].settings = s, ![e].pc = pc]
      PROVE  WorkerType'
  <2> DEFINE r1 == [worker[e] EXCEPT !.count = k]
             r2 == [r1 EXCEPT !.settings = s]
             r3 == [r2 EXCEPT !.pc = pc]
  <2>1. worker' = [worker EXCEPT ![e] = r3]
    BY <1>5
  <2>2. r1 \in WorkerRow
    BY <1>1, RowTyped
  <2> HIDE DEF r1
  <2>3. r2 \in WorkerRow
    BY <2>2, RowTyped
  <2> HIDE DEF r2
  <2>4. r3 \in WorkerRow
    BY <2>3, RowTyped
  <2> HIDE DEF r3
  <2> QED BY <2>1, <2>4, <1>0
<1>6. ASSUME NEW pc \in Pc, NEW k \in Nat,
             worker' = [worker EXCEPT ![e].pc = pc, ![e].count = k]
      PROVE  WorkerType'
  <2> DEFINE r1 == [worker[e] EXCEPT !.pc = pc]
             r2 == [r1 EXCEPT !.count = k]
  <2>1. worker' = [worker EXCEPT ![e] = r2]
    BY <1>6
  <2>2. r1 \in WorkerRow
    BY <1>1, RowTyped
  <2> HIDE DEF r1
  <2>3. r2 \in WorkerRow
    BY <2>2, RowTyped
  <2> HIDE DEF r2
  <2> QED BY <2>1, <2>3, <1>0
<1>7. ASSUME NEW pc \in Pc, NEW s \in Settings,
             worker' = [worker EXCEPT ![e].pc = pc, ![e].settings = s]
      PROVE  WorkerType'
  <2> DEFINE r1 == [worker[e] EXCEPT !.pc = pc]
             r2 == [r1 EXCEPT !.settings = s]
  <2>1. worker' = [worker EXCEPT ![e] = r2]
    BY <1>7
  <2>2. r1 \in WorkerRow
    BY <1>1, RowTyped
  <2> HIDE DEF r1
  <2>3. r2 \in WorkerRow
    BY <2>2, RowTyped
  <2> HIDE DEF r2
  <2> QED BY <2>1, <2>3, <1>0
<1>8. ASSUME NEW pc \in Pc, NEW r \in {"ok", "error"},
             worker' = [worker EXCEPT ![e].pc = pc, ![e].try = 1, ![e].result = r]
      PROVE  WorkerType'
  <2> DEFINE r1 == [worker[e] EXCEPT !.pc = pc]
             r2 == [r1 EXCEPT !.try = 1]
             r3 == [r2 EXCEPT !.result = r]
  <2>1. worker' = [worker EXCEPT ![e] = r3]
    BY <1>8
  <2>0. 1 \in 1..MaxTries
    OBVIOUS
  <2>2. r1 \in WorkerRow
    BY <1>1, RowTyped
  <2> HIDE DEF r1
  <2>3. r2 \in WorkerRow
    BY <2>0, <2>2, RowTyped
  <2> HIDE DEF r2
  <2>4. r3 \in WorkerRow
    BY <2>3, RowTyped
  <2> HIDE DEF r3
  <2> QED BY <2>1, <2>4, <1>0
<1>9. ASSUME NEW pc \in Pc, worker[e].try < MaxTries,
             worker' = [worker EXCEPT ![e].pc = pc, ![e].try = @ + 1]
      PROVE  WorkerType'
  BY <1>9 DEF WorkerRow
<1>10. ASSUME worker' = [worker EXCEPT ![e].live = FALSE] PROVE WorkerType'
  BY <1>10, ZenonT(60) DEF WorkerRow
<1> QED BY <1>2, <1>3, <1>4, <1>5, <1>6, <1>7, <1>8, <1>9, <1>10

-----------------------------------------------------------------------------
(* What the transactions do to stages and attempts.                        *)

Tables ==
  /\ stage \in [Execs -> [Nodes -> StageRow]]
  /\ attempts \in [Execs -> [Nodes -> Seq(AttemptRow)]]

OtherStages(e, n) ==
  \A f \in Execs, m \in Nodes : f # e \/ m # n => stage'[f][m] = stage[f][m]
OtherAttempts(e, n) ==
  \A f \in Execs, m \in Nodes : f # e \/ m # n => attempts'[f][m] = attempts[f][m]

LEMMA StageSet ==
  ASSUME Tables, NEW e \in Execs, NEW n \in Nodes, NEW row \in StageRow,
         stage' = [stage EXCEPT ![e][n] = row]
  PROVE  /\ stage' \in [Execs -> [Nodes -> StageRow]]
         /\ stage'[e][n] = row /\ OtherStages(e, n)
BY DEF Tables, OtherStages

LEMMA AttemptsSet ==
  ASSUME Tables, NEW e \in Execs, NEW n \in Nodes, NEW A \in Seq(AttemptRow),
         attempts' = [attempts EXCEPT ![e][n] = A]
  PROVE  /\ attempts' \in [Execs -> [Nodes -> Seq(AttemptRow)]]
         /\ attempts'[e][n] = A /\ OtherAttempts(e, n)
BY DEF Tables, OtherAttempts

\* An attempt changes its state and nothing else, and no other does.
LEMMA AttemptMarked ==
  ASSUME NEW A \in Seq(AttemptRow), NEW k \in 1..Len(A), NEW s \in AttemptState
  PROVE  LET B == [A EXCEPT ![k].state = s]
         IN  /\ B \in Seq(AttemptRow) /\ Len(B) = Len(A) /\ DOMAIN B = DOMAIN A
             /\ B[k].state = s /\ B[k].gen = A[k].gen
             /\ \A j \in 1..Len(A) : j # k => B[j] = A[j]
<1> DEFINE B == [A EXCEPT ![k].state = s]
<1>1. A \in [1..Len(A) -> AttemptRow] /\ Len(A) \in Nat
  OBVIOUS
<1>2. B \in [1..Len(A) -> AttemptRow]
  BY <1>1 DEF AttemptRow
<1>3. B \in Seq(AttemptRow) /\ Len(B) = Len(A)
  BY <1>1, <1>2
<1>4. A[k] \in AttemptRow
  BY <1>1
<1>5. B[k].state = s /\ B[k].gen = A[k].gen
  BY <1>1, <1>4 DEF AttemptRow
<1> QED BY <1>1, <1>2, <1>3, <1>5

LEMMA MarkEffect ==
  ASSUME Tables, WorkerType, NEW e \in Execs, NEW s \in AttemptState, Mark(e, s),
         worker[e].count \in 1..Len(Attempts(e))
  PROVE  LET n == worker[e].node
         IN  /\ Tables' /\ OtherStages(e, n) /\ OtherAttempts(e, n)
             /\ stage'[e][n] = [stage[e][n] EXCEPT !.state = s]
             /\ attempts'[e][n] = [attempts[e][n] EXCEPT ![worker[e].count].state = s]
<1> DEFINE n == worker[e].node
           row == [stage[e][n] EXCEPT !.state = s]
           A == [attempts[e][n] EXCEPT ![worker[e].count].state = s]
<1>1. n \in Nodes
  BY DEF WorkerType, WorkerRow
<1>2. stage' = [stage EXCEPT ![e][n] = row] /\ attempts' = [attempts EXCEPT ![e][n] = A]
  BY DEF Mark
<1>3. row \in StageRow
  <2>1. stage[e][n] \in StageRow
    BY <1>1 DEF Tables
  <2> QED BY <2>1 DEF StageRow, StageState, AttemptState
<1>4. A \in Seq(AttemptRow)
  <2>1. attempts[e][n] \in Seq(AttemptRow)
    BY <1>1 DEF Tables
  <2> QED BY <2>1, AttemptMarked DEF Attempts
<1> HIDE DEF n, row, A
<1>5. Tables' /\ OtherStages(e, n) /\ OtherAttempts(e, n) /\ stage'[e][n] = row /\ attempts'[e][n] = A
  BY <1>1, <1>2, <1>3, <1>4, StageSet, AttemptsSet DEF Tables
<1> QED BY <1>5 DEF n, row, A

\* Stages and attempts of the generations G of e end; nothing else changes.
LEMMA EndedEffect ==
  ASSUME Tables, NEW e \in Execs, NEW G
  PROVE  /\ EndedStages(e, G) \in [Nodes -> StageRow]
         /\ EndedAttempts(e, G) \in [Nodes -> Seq(AttemptRow)]
         /\ \A n \in Nodes :
              /\ EndedStages(e, G)[n] = Ended(stage[e][n], G)
              /\ Len(EndedAttempts(e, G)[n]) = Len(attempts[e][n])
              /\ DOMAIN EndedAttempts(e, G)[n] = DOMAIN attempts[e][n]
              /\ \A k \in DOMAIN attempts[e][n] :
                   EndedAttempts(e, G)[n][k] = Ended(attempts[e][n][k], G)
<1>1. ASSUME NEW row \in StageRow PROVE Ended(row, G) \in StageRow
  BY DEF Ended, StageRow, StageState
<1>2. ASSUME NEW row \in AttemptRow PROVE Ended(row, G) \in AttemptRow
  BY DEF Ended, AttemptRow, AttemptState
<1>3. EndedStages(e, G) \in [Nodes -> StageRow]
  BY <1>1 DEF EndedStages, Tables
<1>4. ASSUME NEW n \in Nodes
      PROVE  /\ EndedAttempts(e, G)[n] \in Seq(AttemptRow)
             /\ Len(EndedAttempts(e, G)[n]) = Len(attempts[e][n])
             /\ DOMAIN EndedAttempts(e, G)[n] = DOMAIN attempts[e][n]
             /\ \A k \in DOMAIN attempts[e][n] :
                  EndedAttempts(e, G)[n][k] = Ended(attempts[e][n][k], G)
  <2> DEFINE A == attempts[e][n]
             B == [k \in DOMAIN A |-> Ended(A[k], G)]
  <2>1. A \in Seq(AttemptRow) /\ EndedAttempts(e, G)[n] = B
    BY DEF Tables, EndedAttempts
  <2>2. A \in [1..Len(A) -> AttemptRow] /\ Len(A) \in Nat /\ DOMAIN A = 1..Len(A)
    BY <2>1
  <2> HIDE DEF A
  <2>3. B \in [1..Len(A) -> AttemptRow]
    BY <2>2, <1>2
  <2>4. B \in Seq(AttemptRow) /\ Len(B) = Len(A)
    BY <2>2, <2>3
  <2> QED BY <2>1, <2>2, <2>3, <2>4 DEF A
<1> QED BY <1>3, <1>4 DEF EndedStages, EndedAttempts

-----------------------------------------------------------------------------
(* The inductive invariant.                                                *)

\* The checkpoint of the stage before.
Before(e, n) == IF n = 1 THEN None ELSE stage[e][n - 1].ckpt

\* The stages of a run are done in order,
Prefix(e) == \E k \in 0..Stages : \A m \in Nodes : Holds(e, m) <=> m <= k

\* each from the result of the one before, which its checkpoint, wherever it was
\* made, was computed from.
ChainAt(e, n) ==
  /\ Holds(e, n) <=> stage[e][n].state = "succeeded"
  /\ stage[e][n].state # "none" => /\ stage[e][n].up = Before(e, n)
                                   /\ n > 1 => Holds(e, n - 1)
  /\ Holds(e, n) => LET c == stage[e][n].ckpt
                    IN  /\ c.node = n /\ Rec(c) = RecOf[e]
                        /\ stage[c.exec][n].state # "none" /\ UpOf(c) = Before(e, n)

ChainInv == \A e \in Execs : Prefix(e) /\ \A n \in Nodes : ChainAt(e, n)

StoreInv ==
  /\ \A c \in rows : stage[c.exec][c.node].ckpt = c
  /\ \A e \in Execs, n \in Nodes :
       Holds(e, n) /\ tomb[RecOf[e]] = "none" => stage[e][n].ckpt \in rows \cap dirs
  /\ \A e \in Execs : worker[e].pc = "renamed" => Produced(e) \in dirs

\* A worker of an execution is its owner, or the execution was cancelled meanwhile;
\* nothing deletes under it.
OwnerAt(e) ==
  worker[e].pc # "none" =>
    /\ phase \in {"up", "draining"}
    /\ deletion.step # "none" => deletion.rec # RecOf[e]
    /\ \/ exec[e].status = "running" /\ exec[e].gen = worker[e].gen
       \/ exec[e].status = "cancelled"

\* Where a worker is, and what it has read or written on the way there.
PlaceAt(e) ==
  LET w == worker[e]
      n == w.node
  IN  /\ w.pc \notin {"none", "closing"} => /\ w.up = Before(e, n)
                                            /\ n > 1 => Holds(e, n - 1)
      /\ w.pc \notin {"none", "ready", "closing"} =>
           /\ stage[e][n].state # "none" /\ w.count = Len(attempts[e][n])
      /\ w.pc = "ensured" => ~Holds(e, n)
      /\ w.pc \notin {"none", "ready", "ensured", "invoking", "closing"} => w.count > 0
      /\ w.pc = "closing" /\ w.result = "ok" => stage[e][n].state \notin ActiveState

WorkerInv == \A e \in Execs : OwnerAt(e) /\ PlaceAt(e)

AccountInv ==
  /\ AttemptsAddUp
  /\ \A e \in Execs, n \in Nodes : \A k \in DOMAIN attempts[e][n] :
       attempts[e][n][k].state = "succeeded" => stage[e][n].state = "succeeded"
  /\ \A e \in Execs : exec[e].status \in {"none", "deleted"} =>
       \A n \in Nodes : stage[e][n].state = "none"
  /\ phase = "recovering" => \A e \in Execs, n \in Nodes : stage[e][n].state \notin ActiveState

DeletionInv ==
  /\ DeletionIsComplete
  /\ deletion.step # "none" =>
       /\ deletion.rec \in Recs /\ tomb[deletion.rec] # "none"
       /\ deletion.step = "rows" => Of(deletion.rec, dirs) = {}
       /\ deletion.step = "job" => tomb[deletion.rec] = "completed"
       /\ \A e \in Execs : RecOf[e] = deletion.rec => worker[e].pc = "none"

IInv == TypeOK /\ ChainInv /\ StoreInv /\ WorkerInv /\ AccountInv /\ DeletionInv

-----------------------------------------------------------------------------
(* What a step does to the stages.                                         *)

MarkStates == {"waiting", "running", "ended", "cancelled"}
Claimed == {"claimed", "waiting", "admitted", "running", "returned", "renamed"}

\* The worker's attempt goes on or ends without a result.
Marks(e) ==
  /\ worker[e].pc \in Claimed /\ Owned(e) /\ BothIn(e, ActiveState)
  /\ \E s \in MarkStates : Mark(e, s)
  /\ UNCHANGED rows

Commits(e) == At(e, "renamed") /\ StillOwned(e) /\ Selected(e)

\* What the step of a worker does to the tables.
LEMMA StepEffect ==
  ASSUME NEW e \in Execs, Step(e)
  PROVE  \/ UNCHANGED <<stage, attempts, rows>>
         \/ Marks(e) \/ Publish(e) \/ EnsureStage(e)
         \/ ReuseCheckpoint(e) \/ ClaimStage(e) \/ Commits(e)
<1>1. CASE \/ BeginExecution(e) \/ ResumeExecution(e) \/ CancelExecution(e)
           \/ PassDeadline(e) \/ CancelContext(e)
  BY <1>1 DEF BeginExecution, ResumeExecution, CancelExecution, PassDeadline, CancelContext,
     Start, environment
<1>2. CASE AcquireGPUStage(e) \/ AdapterReturns(e) \/ RenameCheckpoint(e) \/ CommittedBefore(e)
  BY <1>2 DEF AcquireGPUStage, AdapterReturns, RenameCheckpoint, CommittedBefore, outside, database
<1>3. CASE AwaitCapacity(e) \/ StartAttempt(e)
  BY <1>3 DEF AwaitCapacity, StartAttempt, outside, Marks, At, Claimed, MarkStates
<1>4. CASE StopWaiting(e) \/ AttemptFailed(e) \/ QuotaReached(e)
  BY <1>4 DEF StopWaiting, AttemptFailed, QuotaReached, Persisting, FailAttempt, EndAttempt,
     outside, Marks, At, Claimed, MarkStates
<1>5. CASE RefuseCheckpoint(e)
  BY <1>5 DEF RefuseCheckpoint, Persisting, PersistFailed, EndAttempt, outside, Marks, At, Claimed,
     MarkStates
<1>6. CASE CommitCheckpoint(e)
  BY <1>6 DEF CommitCheckpoint, PersistFailed, EndAttempt, Marks, Commits, At, Claimed, MarkStates
<1> QED BY <1>1, <1>2, <1>3, <1>4, <1>5, <1>6 DEF Step

LEMMA TableSteps ==
  ASSUME Next
  PROVE  \/ UNCHANGED <<stage, attempts>> /\ (UNCHANGED rows \/ Collect)
         \/ \E e \in Execs : \/ Marks(e) \/ Publish(e) \/ EnsureStage(e)
                             \/ ReuseCheckpoint(e) \/ ClaimStage(e) \/ Commits(e)
         \/ DeleteRows \/ RecoverExecutions
<1> DEFINE Kept == UNCHANGED <<stage, attempts, rows>>
<1>2. ASSUME NEW r \in Recs, RequestDeletion(r) \/ RetryDeletion(r) PROVE Kept
  BY <1>2 DEF RequestDeletion, RetryDeletion, StartDeletion
<1>3. CASE RemoveFiles \/ DeleteJob \/ Crash \/ Shutdown \/ ShutdownEnds
  BY <1>3 DEF RemoveFiles, DeleteJob, Crash, Shutdown, ShutdownEnds, ProcessGone, database
<1>4. CASE Collect
  BY <1>4 DEF Collect
<1> QED BY <1>2, <1>3, <1>4, StepEffect DEF Next

\* As far as its results are concerned a stage is as it was.
Alike(e, n) ==
  /\ stage'[e][n].up = stage[e][n].up /\ stage'[e][n].ckpt = stage[e][n].ckpt
  /\ stage'[e][n].state = "none" <=> stage[e][n].state = "none"
  /\ stage'[e][n].state = "succeeded" <=> stage[e][n].state = "succeeded"

StagesKept == (\A e \in Execs, n \in Nodes : Alike(e, n)) /\ rows' \subseteq rows

\* A worker's stage begins.
Begins(e) ==
  LET n == worker[e].node
  IN  /\ stage[e][n].state = "none" /\ stage[e][n].ckpt = None
      /\ stage'[e][n].state = "pending" /\ stage'[e][n].ckpt = None
      /\ stage'[e][n].up = worker[e].up
      /\ At(e, "ready") /\ Fence(e, worker[e].gen)
      /\ OtherStages(e, n) /\ UNCHANGED rows

\* A worker's stage gains the checkpoint c.
Gains(e, c) ==
  LET n == worker[e].node
  IN  /\ ~Holds(e, n) /\ stage[e][n].state # "none" /\ stage'[e][n].state = "succeeded"
      /\ stage'[e][n].ckpt = c /\ stage'[e][n].up = stage[e][n].up
      /\ At(e, "ensured") \/ At(e, "renamed")
      /\ Fence(e, worker[e].gen)
      /\ c.node = n /\ Rec(c) = RecOf[e] /\ stage[c.exec][n].state # "none"
      /\ UpOf(c) = worker[e].up
      /\ \/ c \in rows /\ Readable(c)
         \/ c = Produced(e) /\ c \in dirs
      /\ OtherStages(e, n) /\ rows' = rows \cup {c}

\* The stages of a recording are deleted.
Erases(r) ==
  /\ deletion.step = "rows" /\ deletion.rec = r /\ tomb' = [tomb EXCEPT ![r] = "completed"]
  /\ rows' = rows \ Of(r, rows)
  /\ \A e \in Execs : stage'[e] = IF RecOf[e] = r THEN [n \in Nodes |-> NoStage] ELSE stage[e]

LEMMA NoStageTyped == NoStage \in StageRow
BY DEF NoStage, StageRow, StageState

LEMMA CountInRange ==
  ASSUME Tables, WorkerType, WorkerInv, NEW e \in Execs, worker[e].pc \in Claimed
  PROVE  worker[e].count \in 1..Len(Attempts(e)) /\ worker[e].node \in Nodes
<1>1. /\ worker[e].count = Len(attempts[e][worker[e].node]) /\ worker[e].count > 0
      /\ worker[e].node \in Nodes /\ worker[e].count \in Nat
  BY DEF WorkerInv, OwnerAt, PlaceAt, WorkerType, WorkerRow, Claimed
<1> QED BY <1>1 DEF Attempts

\* A state that is neither the first nor the last leaves the results alone.
LEMMA MarksKeepsResults ==
  ASSUME Tables, WorkerType, WorkerInv, NEW e \in Execs, Marks(e)
  PROVE  Tables' /\ StagesKept
<1>1. PICK s \in MarkStates : Mark(e, s)
  BY DEF Marks
<1>2. worker[e].count \in 1..Len(Attempts(e)) /\ worker[e].node \in Nodes
  BY CountInRange DEF Marks
<1>3. s \in AttemptState /\ s # "none" /\ s # "succeeded"
  BY DEF MarkStates, AttemptState, ActiveState
<1> DEFINE n == worker[e].node
<1>4. /\ Tables' /\ OtherStages(e, n)
      /\ stage'[e][n] = [stage[e][n] EXCEPT !.state = s]
  BY <1>1, <1>2, <1>3, MarkEffect
<1>5. stage[e][n] \in StageRow /\ stage[e][n].state \notin {"none", "succeeded"}
  BY <1>2 DEF Tables, Marks, BothIn, Current, ActiveState
<1>6. Alike(e, n)
  BY <1>3, <1>4, <1>5 DEF Alike, StageRow
<1>7. \A f \in Execs, m \in Nodes : Alike(f, m)
  BY <1>4, <1>6 DEF Alike, OtherStages
<1> QED BY <1>4, <1>7 DEF StagesKept, Marks

LEMMA EndingKeepsResults ==
  ASSUME Tables, NEW e \in Execs, NEW G, stage'[e] = EndedStages(e, G), NEW n \in Nodes
  PROVE  Alike(e, n)
<1>1. stage'[e][n] = Ended(stage[e][n], G) /\ stage[e][n] \in StageRow
  BY EndedEffect DEF Tables
<1> QED BY <1>1 DEF Alike, Ended, StageRow, ActiveState

LEMMA PublishKeepsResults ==
  ASSUME Tables, NEW e \in Execs, Publish(e)
  PROVE  Tables' /\ StagesKept
<1>1. rows' = rows
  BY DEF Publish
<1>2. CASE UNCHANGED <<stage, attempts>>
  BY <1>1, <1>2 DEF Tables, StagesKept, Alike
<1>3. ASSUME NEW G, stage' = [stage EXCEPT ![e] = EndedStages(e, G)],
             attempts' = [attempts EXCEPT ![e] = EndedAttempts(e, G)]
      PROVE  Tables' /\ StagesKept
  <2>1. stage'[e] = EndedStages(e, G) /\ \A f \in Execs : f # e => stage'[f] = stage[f]
    BY <1>3 DEF Tables
  <2>2. Tables'
    BY <1>3, EndedEffect DEF Tables
  <2>3. \A n \in Nodes : Alike(e, n)
    BY <2>1, EndingKeepsResults
  <2>4. \A f \in Execs, n \in Nodes : Alike(f, n)
    BY <2>1, <2>3 DEF Alike
  <2> QED BY <1>1, <2>2, <2>4 DEF StagesKept
<1> QED BY <1>2, <1>3 DEF Publish

LEMMA RecoveryKeepsResults ==
  ASSUME Tables, RecoverExecutions
  PROVE  Tables' /\ StagesKept
<1>1. \A e \in Execs : stage'[e] = EndedStages(e, Abandoned(e))
  BY DEF RecoverExecutions
<1>2. \A e \in Execs, n \in Nodes : Alike(e, n)
  BY <1>1, EndingKeepsResults
<1>3. Tables'
  BY EndedEffect DEF RecoverExecutions, Tables
<1> QED BY <1>2, <1>3 DEF RecoverExecutions, StagesKept

LEMMA EnsureStep ==
  ASSUME Tables, WorkerType, ChainInv, NEW e \in Execs, EnsureStage(e)
  PROVE  Tables' /\ (StagesKept \/ Begins(e))
<1> DEFINE n == worker[e].node
           row == [[[NoStage EXCEPT !.state = "pending"] EXCEPT !.gen = worker[e].gen]
                     EXCEPT !.up = worker[e].up]
<1>1. UNCHANGED <<attempts, rows>> /\ At(e, "ready") /\ n \in Nodes
  BY DEF EnsureStage, outside, WorkerType, WorkerRow
<1>2. CASE UNCHANGED stage
  BY <1>1, <1>2 DEF Tables, StagesKept, Alike
<1>3. CASE /\ stage' # stage
  <2>1. /\ Fence(e, worker[e].gen) /\ Current(e).ckpt = None /\ Current(e).state = "none"
        /\ stage' = [stage EXCEPT ![e][n] =
             [NoStage EXCEPT !.state = "pending", !.gen = worker[e].gen, !.up = worker[e].up]]
    BY <1>3 DEF EnsureStage
  <2>2. stage' = [stage EXCEPT ![e][n] = row]
    BY <2>1
  <2>3. /\ row \in StageRow /\ row.state = "pending" /\ row.ckpt = None
        /\ row.up = worker[e].up
    <3>1. worker[e].gen \in Nat /\ worker[e].up \in Id \cup {None}
      BY DEF WorkerType, WorkerRow
    <3>2. NoStage \in StageRow /\ NoStage.ckpt = None
      BY NoStageTyped DEF NoStage
    <3> QED BY <3>1, <3>2 DEF StageRow, StageState
  <2>4. stage[e][n].state = "none" /\ stage[e][n].ckpt = None
    BY <2>1 DEF Current
  <2>5. Tables' /\ OtherStages(e, n) /\ stage'[e][n] = row
    <3> HIDE DEF n, row
    <3> QED BY <1>1, <2>2, <2>3, StageSet DEF Tables
  <2>6. /\ stage'[e][n].state = "pending" /\ stage'[e][n].ckpt = None
        /\ stage'[e][n].up = worker[e].up
    BY <2>3, <2>5
  <2> HIDE DEF row
  <2>7. Begins(e)
    BY <1>1, <2>1, <2>4, <2>5, <2>6 DEF Begins
  <2> QED BY <2>5, <2>7
<1> QED BY <1>2, <1>3

LEMMA ClaimStep ==
  ASSUME Tables, WorkerType, WorkerInv, ChainInv, NEW e \in Execs, ClaimStage(e)
  PROVE  Tables' /\ StagesKept
<1> DEFINE w == worker[e]
           n == w.node
           row == [[stage[e][n] EXCEPT !.state = "running"] EXCEPT !.gen = w.gen]
           A == Append(attempts[e][n], [state |-> "running", gen |-> w.gen, settings |-> w.settings])
<1>1. UNCHANGED rows /\ n \in Nodes /\ w.gen \in Nat /\ w.settings \in Settings
  BY DEF ClaimStage, outside, WorkerType, WorkerRow
<1>2. CASE UNCHANGED <<stage, attempts>>
  BY <1>1, <1>2 DEF Tables, StagesKept, Alike
<1>3. CASE /\ Claimable(e)
           /\ attempts' = [attempts EXCEPT ![e][n] = Append(@,
                   [state |-> "running", gen |-> w.gen, settings |-> w.settings])]
           /\ stage' = [stage EXCEPT ![e][n].state = "running", ![e][n].gen = w.gen]
  <2>1. stage[e][n] \in StageRow /\ attempts[e][n] \in Seq(AttemptRow)
    BY <1>1 DEF Tables
  <2>2. row \in StageRow /\ row.state = "running" /\ row.up = stage[e][n].up /\ row.ckpt = stage[e][n].ckpt
    BY <1>1, <2>1 DEF StageRow, StageState, ActiveState
  <2>3. A \in Seq(AttemptRow)
    BY <1>1, <2>1 DEF AttemptRow, AttemptState, ActiveState
  <2>4. stage' = [stage EXCEPT ![e][n] = row] /\ attempts' = [attempts EXCEPT ![e][n] = A]
    BY <1>3
  <2>5. stage[e][n].state # "none" /\ stage[e][n].state # "succeeded"
    BY <1>3 DEF WorkerInv, OwnerAt, PlaceAt, ClaimStage, At, Claimable, Current
  <2> HIDE DEF row, A, n, w
  <2>6. Tables' /\ OtherStages(e, n) /\ stage'[e][n] = row
    BY <1>1, <2>2, <2>3, <2>4, StageSet, AttemptsSet DEF Tables
  <2>7. \A f \in Execs, m \in Nodes : Alike(f, m)
    BY <2>2, <2>5, <2>6 DEF Alike, OtherStages
  <2> QED BY <1>1, <2>6, <2>7 DEF StagesKept
<1> QED BY <1>2, <1>3 DEF ClaimStage

LEMMA ReuseStep ==
  ASSUME Tables, TypeOK, WorkerInv, ChainInv, StoreInv, NEW e \in Execs, ReuseCheckpoint(e)
  PROVE  Tables' /\ (StagesKept \/ \E c \in Id : Gains(e, c))
<1> DEFINE w == worker[e]
           n == w.node
<1>1. UNCHANGED <<attempts, rows>> /\ n \in Nodes /\ w.gen \in Nat /\ At(e, "ensured")
  BY DEF ReuseCheckpoint, outside, TypeOK, WorkerRow
<1>2. CASE UNCHANGED stage
  BY <1>1, <1>2 DEF Tables, StagesKept, Alike
<1>3. ASSUME NEW c \in Reusable(e), Fence(e, w.gen),
             stage' = [stage EXCEPT ![e][n] =
                   [@ EXCEPT !.state = "succeeded", !.gen = w.gen, !.ckpt = c]]
      PROVE  Tables' /\ c \in Id /\ Gains(e, c)
  <2> DEFINE row == [[[stage[e][n] EXCEPT !.state = "succeeded"] EXCEPT !.gen = w.gen] EXCEPT !.ckpt = c]
  <2>1. stage[e][n] \in StageRow
    BY <1>1 DEF Tables
  <2>2. c \in rows /\ Rec(c) = RecOf[e] /\ c.node = n /\ UpOf(c) = w.up /\ Readable(c) /\ c \in Id
    BY <1>3 DEF Reusable, TypeOK
  <2>3. row \in StageRow /\ row.state = "succeeded" /\ row.up = stage[e][n].up /\ row.ckpt = c
    BY <1>1, <2>1, <2>2 DEF StageRow, StageState
  <2>4. stage' = [stage EXCEPT ![e][n] = row]
    BY <1>3
  <2>5. stage[e][n].state # "none" /\ ~Holds(e, n)
    BY <1>1 DEF WorkerInv, OwnerAt, PlaceAt, At
  <2>6. stage[c.exec][n].state # "none"
    <3>1. stage[c.exec][n].ckpt = c /\ c.exec \in Execs
      BY <2>2 DEF StoreInv, Id
    <3>2. Holds(c.exec, n)
      BY <2>2, <3>1, IdAssumption DEF Holds
    <3> QED BY <1>1, <3>1, <3>2 DEF ChainInv, ChainAt
  <2> HIDE DEF row
  <2>7. Tables' /\ OtherStages(e, n) /\ stage'[e][n] = row
    <3> HIDE DEF n, w
    <3> QED BY <1>1, <2>3, <2>4, StageSet DEF Tables
  <2>8. rows' = rows \cup {c}
    BY <1>1, <2>2
  <2>9. Gains(e, c)
    BY <1>1, <1>3, <2>2, <2>3, <2>5, <2>6, <2>7, <2>8 DEF Gains
  <2> QED BY <2>2, <2>7, <2>9
<1> QED BY <1>2, <1>3 DEF ReuseCheckpoint

LEMMA CommitStep ==
  ASSUME Tables, TypeOK, WorkerInv, ChainInv, StoreInv, AccountInv, NEW e \in Execs, Commits(e)
  PROVE  Tables' /\ \E c \in Id : Gains(e, c)
<1> DEFINE w == worker[e]
           n == w.node
           c == Produced(e)
           row == [[stage[e][n] EXCEPT !.state = "succeeded"] EXCEPT !.ckpt = c]
           A == [attempts[e][n] EXCEPT ![w.count].state = "succeeded"]
<1>1. n \in Nodes /\ w.count \in 1..Len(Attempts(e)) /\ w.pc = "renamed" /\ w.try \in 1..MaxTries
  BY CountInRange DEF Commits, At, Claimed, TypeOK, WorkerType, WorkerRow
<1>2. c \in Id /\ c.exec = e /\ c.node = n
  <2>1. Len(Attempts(e)) \in Nat /\ Len(Attempts(e)) <= MaxAttempts
    BY <1>1 DEF AccountInv, AttemptsAddUp, BudgetHolds, Attempts, Tables
  <2>2. w.count \in 1..MaxAttempts
    BY <1>1, <2>1, CheckpointAssumption DEF CheckpointAssumption
  <2> QED BY <1>1, <2>2 DEF Produced, Id
<1>3. /\ stage' = [stage EXCEPT ![e][n] = row] /\ attempts' = [attempts EXCEPT ![e][n] = A]
      /\ rows' = rows \cup {c}
  BY DEF Commits, Selected
<1>4. stage[e][n] \in StageRow /\ attempts[e][n] \in Seq(AttemptRow)
  BY <1>1 DEF Tables
<1>5. row \in StageRow /\ row.state = "succeeded" /\ row.up = stage[e][n].up /\ row.ckpt = c
  BY <1>2, <1>4 DEF StageRow, StageState
<1>6. A \in Seq(AttemptRow)
  BY <1>1, <1>4, AttemptMarked DEF Attempts, AttemptState
<1>7. stage[e][n].state # "none" /\ ~Holds(e, n) /\ Fence(e, w.gen)
  BY DEF Commits, StillOwned, BothIn, Current, Owned, Holds
<1>8. UpOf(c) = w.up /\ Rec(c) = RecOf[e] /\ stage[c.exec][n].state # "none"
  <2>1. stage[e][n].up = Before(e, n) /\ w.up = Before(e, n)
    BY <1>1, <1>7 DEF ChainInv, ChainAt, WorkerInv, PlaceAt
  <2> QED BY <1>2, <1>7, <2>1 DEF UpOf, Rec
<1>9. c \in dirs
  BY <1>1 DEF StoreInv
<1>10. Tables' /\ OtherStages(e, n) /\ stage'[e][n] = row
  <2> HIDE DEF row, A, n, w, c
  <2> QED BY <1>1, <1>3, <1>5, <1>6, StageSet, AttemptsSet, ZenonT(60) DEF Tables
<1> HIDE DEF row, A
<1>11. Gains(e, c)
  BY <1>1, <1>2, <1>3, <1>5, <1>7, <1>8, <1>9, <1>10 DEF Gains, At
<1> QED BY <1>2, <1>10, <1>11

LEMMA DeleteRowsStep ==
  ASSUME Tables, DeletionInv, DeleteRows
  PROVE  Tables' /\ \E r \in Recs : Erases(r)
<1>1. deletion.rec \in Recs
  BY DEF DeleteRows, DeletionInv
<1>2. Tables'
  BY NoStageTyped DEF Tables, DeleteRows
<1>3. Erases(deletion.rec)
  BY DEF DeleteRows, Erases
<1> QED BY <1>1, <1>2, <1>3

\* Every step keeps the results, begins a stage, adds one result, or erases a
\* recording's.
LEMMA ChainSteps ==
  ASSUME IInv, [Next]_vars
  PROVE  /\ Tables'
         /\ \/ StagesKept
            \/ \E e \in Execs : Begins(e) \/ \E c \in Id : Gains(e, c)
            \/ \E r \in Recs : Erases(r)
<1> USE DEF IInv
<1>1. Tables /\ WorkerType
  BY DEF TypeOK, Tables, WorkerType
<1>2. CASE UNCHANGED <<stage, attempts>> /\ (UNCHANGED rows \/ Collect)
  <2>1. rows' \subseteq rows
    BY <1>2 DEF Collect
  <2> QED BY <1>1, <1>2, <2>1 DEF StagesKept, Alike, Tables
<1>3. CASE UNCHANGED vars
  BY <1>1, <1>3 DEF vars, database, StagesKept, Alike, Tables
<1>4. ASSUME NEW e \in Execs, \/ Marks(e) \/ Publish(e) \/ EnsureStage(e)
                              \/ ReuseCheckpoint(e) \/ ClaimStage(e) \/ Commits(e)
      PROVE  Tables' /\ (StagesKept \/ Begins(e) \/ \E c \in Id : Gains(e, c))
  BY <1>1, <1>4, MarksKeepsResults, PublishKeepsResults, EnsureStep, ReuseStep, ClaimStep, CommitStep
<1>5. CASE DeleteRows \/ RecoverExecutions
  BY <1>1, <1>5, DeleteRowsStep, RecoveryKeepsResults
<1> QED BY <1>2, <1>3, <1>4, <1>5, TableSteps

-----------------------------------------------------------------------------
(* Runs keep their own chains.                                             *)

LEMMA HeldIsCheckpoint ==
  ASSUME Tables, NEW e \in Execs, NEW n \in Nodes, Holds(e, n)
  PROVE  stage[e][n].ckpt \in Id /\ stage[e][n].ckpt.exec \in Execs /\ stage[e][n].ckpt.node \in Nodes
<1>1. stage[e][n] \in StageRow
  BY DEF Tables
<1> QED BY <1>1 DEF StageRow, Holds, Id

LEMMA NodesNat == Nodes \subseteq Nat \ {0} /\ \A n \in Nodes : n > 1 => n - 1 \in Nodes
BY CheckpointAssumption DEF CheckpointAssumption, Nodes

LEMMA KeptKeepsChain ==
  ASSUME Tables, ChainInv, StagesKept
  PROVE  ChainInv'
<1>1. \A f \in Execs, m \in Nodes : Alike(f, m)
  BY DEF StagesKept
<1>2. ASSUME NEW e \in Execs PROVE Prefix(e)'
  <2>1. \A m \in Nodes : Holds(e, m)' <=> Holds(e, m)
    BY <1>1 DEF Alike, Holds
  <2> QED BY <2>1 DEF ChainInv, Prefix
<1>3. ASSUME NEW e \in Execs, NEW n \in Nodes PROVE ChainAt(e, n)'
  <2>1. ChainAt(e, n) /\ Alike(e, n) /\ (Holds(e, n)' <=> Holds(e, n))
    BY <1>1 DEF ChainInv, Alike, Holds
  <2>2. /\ Before(e, n)' = Before(e, n)
        /\ n > 1 => (Holds(e, n - 1)' <=> Holds(e, n - 1))
    BY <1>1, NodesNat DEF Before, Alike, Holds
  <2>3. ASSUME Holds(e, n)
        PROVE  LET c == stage'[e][n].ckpt
               IN  /\ c.node = n /\ Rec(c) = RecOf[e]
                   /\ stage'[c.exec][n].state # "none" /\ stage'[c.exec][c.node].up = Before(e, n)'
    <3> DEFINE c == stage[e][n].ckpt
    <3>1. c.exec \in Execs /\ stage'[e][n].ckpt = c
      BY <2>1, <2>3, HeldIsCheckpoint DEF Alike
    <3>2. Alike(c.exec, n) /\ c.node = n
      BY <1>1, <2>1, <2>3, <3>1 DEF ChainAt
    <3> QED BY <2>1, <2>2, <2>3, <3>1, <3>2 DEF ChainAt, Alike, UpOf
  <2> QED BY <2>1, <2>2, <2>3 DEF ChainAt, Alike, UpOf
<1> QED BY <1>2, <1>3 DEF ChainInv

LEMMA BeginKeepsChain ==
  ASSUME Tables, WorkerType, WorkerInv, ChainInv, NEW e \in Execs, Begins(e)
  PROVE  ChainInv'
<1>0. PICK n \in Nodes : n = worker[e].node
  BY DEF WorkerType, WorkerRow
<1>1. /\ n \in Nodes /\ stage[e][n].state = "none" /\ stage[e][n].ckpt = None
      /\ stage'[e][n].state = "pending" /\ stage'[e][n].ckpt = None
      /\ stage'[e][n].up = Before(e, n) /\ (n > 1 => Holds(e, n - 1))
  BY <1>0 DEF Begins, WorkerInv, PlaceAt, At
<1>2. \A f \in Execs, m \in Nodes : f # e \/ m # n => stage'[f][m] = stage[f][m]
  BY <1>0 DEF Begins, OtherStages
<1>3. \A f \in Execs, m \in Nodes : stage'[f][m].ckpt = stage[f][m].ckpt
  BY <1>1, <1>2
<1>4. \A f \in Execs, m \in Nodes : /\ Holds(f, m)' <=> Holds(f, m)
                                    /\ Before(f, m)' = Before(f, m)
  <2> SUFFICES ASSUME NEW f \in Execs, NEW m \in Nodes
               PROVE  (Holds(f, m)' <=> Holds(f, m)) /\ Before(f, m)' = Before(f, m)
    OBVIOUS
  <2>1. m # 1 => m - 1 \in Nodes
    BY NodesNat
  <2> QED BY <1>3, <2>1 DEF Holds, Before
<1>5. ASSUME NEW f \in Execs PROVE Prefix(f)'
  BY <1>4 DEF ChainInv, Prefix
<1>6. ASSUME NEW f \in Execs, NEW m \in Nodes PROVE ChainAt(f, m)'
  <2>1. ChainAt(f, m)
    BY DEF ChainInv
  <2>2. m > 1 => (Holds(f, m - 1)' <=> Holds(f, m - 1))
    BY <1>4, NodesNat
  <2>3. ASSUME Holds(f, m)
        PROVE  LET c == stage'[f][m].ckpt
               IN  /\ c.node = m /\ Rec(c) = RecOf[f]
                   /\ stage'[c.exec][m].state # "none" /\ stage'[c.exec][c.node].up = Before(f, m)'
    <3> DEFINE c == stage[f][m].ckpt
    <3>1. c.exec \in Execs /\ stage'[f][m].ckpt = c
      BY <1>3, <2>3, HeldIsCheckpoint
    <3>2. c.node = m /\ stage[c.exec][m].state # "none"
      BY <2>1, <2>3 DEF ChainAt
    <3>3. stage'[c.exec][m] = stage[c.exec][m]
      BY <1>1, <1>2, <3>1, <3>2
    <3> QED BY <1>4, <2>1, <2>3, <3>1, <3>2, <3>3 DEF ChainAt, UpOf
  <2>4. CASE f = e /\ m = n
    BY <1>1, <1>4, <2>1, <2>2, <2>4 DEF ChainAt, Holds
  <2>5. CASE f # e \/ m # n
    BY <1>2, <1>4, <2>1, <2>2, <2>3, <2>5 DEF ChainAt, UpOf
  <2> QED BY <2>4, <2>5
<1> QED BY <1>5, <1>6 DEF ChainInv

LEMMA GainKeepsChain ==
  ASSUME Tables, WorkerType, WorkerInv, ChainInv, NEW e \in Execs, NEW c \in Id, Gains(e, c)
  PROVE  ChainInv'
<1>0. PICK n \in Nodes : n = worker[e].node
  BY DEF WorkerType, WorkerRow
<1>1. /\ n \in Nodes /\ stage[e][n].state # "none" /\ ~Holds(e, n)
      /\ stage'[e][n].state = "succeeded" /\ stage'[e][n].ckpt = c
      /\ stage'[e][n].up = stage[e][n].up
      /\ worker[e].up = Before(e, n) /\ (n > 1 => Holds(e, n - 1))
      /\ c.node = n /\ Rec(c) = RecOf[e] /\ stage[c.exec][n].state # "none"
      /\ UpOf(c) = worker[e].up
  BY <1>0 DEF Gains, WorkerInv, PlaceAt, At
<1>2. \A f \in Execs, m \in Nodes : f # e \/ m # n => stage'[f][m] = stage[f][m]
  BY <1>0 DEF Gains, OtherStages
<1>3. c # None /\ c.exec \in Execs
  BY IdAssumption DEF Id
<1>4. Holds(e, n)' /\ \A f \in Execs, m \in Nodes : f # e \/ m # n => (Holds(f, m)' <=> Holds(f, m))
  BY <1>1, <1>2, <1>3 DEF Holds
<1>5. \A f \in Execs, m \in Nodes :
        /\ stage'[f][m].up = stage[f][m].up
        /\ stage'[f][m].state # "none" <=> stage[f][m].state # "none"
  BY <1>1, <1>2
<1>6. \A f \in Execs, m \in Nodes : stage[f][m].state # "none" => Before(f, m)' = Before(f, m)
  <2> SUFFICES ASSUME NEW f \in Execs, NEW m \in Nodes, stage[f][m].state # "none"
               PROVE  Before(f, m)' = Before(f, m)
    OBVIOUS
  <2>1. m > 1 => Holds(f, m - 1)
    BY DEF ChainInv, ChainAt
  <2>2. CASE m = 1
    BY <2>2 DEF Before
  <2>3. CASE m # 1
    <3>1. m - 1 \in Nodes /\ (f # e \/ m - 1 # n)
      BY <1>1, <2>1, <2>3, NodesNat
    <3> QED BY <1>2, <3>1 DEF Before
  <2> QED BY <2>2, <2>3
<1>7. ASSUME NEW f \in Execs PROVE Prefix(f)'
  <2>1. PICK k \in 0..Stages : \A m \in Nodes : Holds(f, m) <=> m <= k
    BY DEF ChainInv, Prefix
  <2>2. CASE f # e
    BY <1>4, <2>1, <2>2 DEF Prefix
  <2>3. CASE f = e
    <3>1. n \in 0..Stages /\ n > k /\ n <= k + 1
      BY <1>1, <2>1, <2>3, NodesNat, CheckpointAssumption DEF CheckpointAssumption, Nodes
    <3>2. \A m \in Nodes : Holds(e, m)' <=> m <= n
      BY <1>1, <1>4, <2>1, <2>3, <3>1, NodesNat
    <3> QED BY <2>3, <3>1, <3>2 DEF Prefix
  <2> QED BY <2>2, <2>3
<1>8. ASSUME NEW f \in Execs, NEW m \in Nodes PROVE ChainAt(f, m)'
  <2>1. ChainAt(f, m)
    BY DEF ChainInv
  <2>2. m > 1 /\ Holds(f, m - 1) => Holds(f, m - 1)'
    BY <1>4, NodesNat
  <2>3. CASE f = e /\ m = n
    <3>1. stage'[c.exec][n].state # "none" /\ stage'[c.exec][n].up = Before(e, n)
      BY <1>1, <1>3, <1>5 DEF UpOf
    <3>2. Before(e, n)' = Before(e, n)
      BY <1>1, <1>6
    <3> QED BY <1>1, <1>4, <2>1, <2>2, <2>3, <3>1, <3>2 DEF ChainAt, UpOf
  <2>4. CASE (f # e \/ m # n) /\ Holds(f, m)
    <3> DEFINE d == stage[f][m].ckpt
    <3>1. d.exec \in Execs /\ stage'[f][m] = stage[f][m]
      BY <1>2, <2>4, HeldIsCheckpoint
    <3>2. d.node = m /\ stage[d.exec][m].state # "none" /\ stage[f][m].state # "none"
      BY <2>1, <2>4 DEF ChainAt
    <3>3. stage'[d.exec][m].state # "none" /\ stage'[d.exec][m].up = stage[d.exec][m].up
      BY <1>5, <3>1, <3>2
    <3>4. Before(f, m)' = Before(f, m)
      BY <1>6, <3>2
    <3> QED BY <1>4, <2>1, <2>2, <2>4, <3>1, <3>2, <3>3, <3>4 DEF ChainAt, UpOf
  <2>5. CASE (f # e \/ m # n) /\ ~Holds(f, m)
    <3>1. stage'[f][m] = stage[f][m] /\ ~Holds(f, m)'
      BY <1>2, <1>4, <2>5
    <3>2. stage[f][m].state # "none" => Before(f, m)' = Before(f, m)
      BY <1>6
    <3> QED BY <2>1, <2>2, <2>5, <3>1, <3>2 DEF ChainAt
  <2> QED BY <2>3, <2>4, <2>5
<1> QED BY <1>7, <1>8 DEF ChainInv

LEMMA ErasureKeepsChain ==
  ASSUME Tables, ChainInv, NEW r \in Recs, Erases(r)
  PROVE  ChainInv'
<1>1. \A e \in Execs : stage'[e] = IF RecOf[e] = r THEN [n \in Nodes |-> NoStage] ELSE stage[e]
  BY DEF Erases
<1>2. ASSUME NEW e \in Execs, RecOf[e] = r PROVE Prefix(e)' /\ \A n \in Nodes : ChainAt(e, n)'
  <2>1. \A n \in Nodes : stage'[e][n].state = "none" /\ stage'[e][n].ckpt = None /\ ~Holds(e, n)'
    BY <1>1, <1>2 DEF NoStage, Holds
  <2>2. Prefix(e)'
    <3>1. 0 \in 0..Stages /\ \A n \in Nodes : ~(n <= 0)
      BY NodesNat, CheckpointAssumption DEF CheckpointAssumption
    <3> QED BY <2>1, <3>1 DEF Prefix
  <2> QED BY <2>1, <2>2 DEF ChainAt
<1>3. ASSUME NEW e \in Execs, RecOf[e] # r PROVE Prefix(e)' /\ \A n \in Nodes : ChainAt(e, n)'
  <2>1. stage'[e] = stage[e] /\ \A n \in Nodes : Before(e, n)' = Before(e, n) /\ (Holds(e, n)' <=> Holds(e, n))
    BY <1>1, <1>3 DEF Before, Holds
  <2>2. Prefix(e)'
    BY <2>1 DEF ChainInv, Prefix
  <2>3. ASSUME NEW n \in Nodes PROVE ChainAt(e, n)'
    <3>1. ChainAt(e, n) /\ (n > 1 => (Holds(e, n - 1)' <=> Holds(e, n - 1)))
      BY <2>1, NodesNat DEF ChainInv
    <3>2. ASSUME Holds(e, n) PROVE stage'[stage[e][n].ckpt.exec] = stage[stage[e][n].ckpt.exec]
      <4>1. Rec(stage[e][n].ckpt) = RecOf[e] /\ stage[e][n].ckpt.exec \in Execs
        BY <3>1, <3>2, HeldIsCheckpoint DEF ChainAt
      <4> QED BY <1>1, <1>3, <4>1 DEF Rec
    <3> QED BY <2>1, <3>1, <3>2 DEF ChainAt, UpOf
  <2> QED BY <2>2, <2>3
<1> QED BY <1>2, <1>3 DEF ChainInv

LEMMA ChainInductive ==
  ASSUME IInv, [Next]_vars
  PROVE  ChainInv'
<1>1. Tables /\ WorkerType /\ WorkerInv /\ ChainInv
  BY DEF IInv, TypeOK, Tables, WorkerType
<1> QED BY <1>1, ChainSteps, KeptKeepsChain, BeginKeepsChain, GainKeepsChain, ErasureKeepsChain

-----------------------------------------------------------------------------
(* Lineages.                                                               *)

\* The recursive function Lineage follows a chain of checkpoints, each computed from
\* the one before.
LEMMA LineageOfChain ==
  ASSUME NEW c, c.node \in Nodes, NEW chain, chain[c.node] = c,
         \A m \in Nodes : m < c.node => chain[m] = UpOf(chain[m + 1])
  PROVE  Lineage(c) = {chain[m] : m \in 1..c.node}
<1> DEFINE Follows(f) ==
             f = [n \in Nodes |-> IF n >= c.node THEN c ELSE UpOf(f[n + 1])]
           path == [n \in Nodes |-> IF n >= c.node THEN c ELSE chain[n]]
           at == CHOOSE f : Follows(f)
<1>1. c.node \in Nat \ {0} /\ c.node <= Stages /\ Stages \in Nat
  BY CheckpointAssumption DEF CheckpointAssumption, Nodes
<1>2. Follows(path)
  <2>1. ASSUME NEW n \in Nodes, ~(n >= c.node) PROVE UpOf(path[n + 1]) = chain[n]
    <3>1. n \in Nat /\ n + 1 \in Nodes /\ n + 1 <= c.node
      BY <1>1, <2>1 DEF Nodes
    <3>2. path[n + 1] = chain[n + 1]
      BY <1>1, <3>1
    <3>3. n < c.node
      BY <1>1, <2>1, <3>1
    <3> QED BY <3>2, <3>3
  <2> QED BY <2>1
<1>3. Follows(at)
  <2> HIDE DEF Follows, path
  <2> QED BY <1>2
<1>4. Lineage(c) = {at[n] : n \in 1..c.node}
  BY DEF Lineage
<1> HIDE DEF at, path
<1> DEFINE S == {k \in Nat : k < c.node => at[c.node - k] = chain[c.node - k]}
<1>5. 0 \in S
  BY <1>1, <1>3
<1>6. ASSUME NEW k \in S PROVE k + 1 \in S
  <2> SUFFICES ASSUME k + 1 < c.node PROVE at[c.node - (k + 1)] = chain[c.node - (k + 1)]
    OBVIOUS
  <2> DEFINE n == c.node - (k + 1)
  <2>1. n \in Nodes /\ ~(n >= c.node) /\ n + 1 = c.node - k /\ n < c.node /\ k < c.node
    BY <1>1 DEF Nodes
  <2> HIDE DEF n
  <2>2. at[n] = UpOf(at[n + 1])
    BY <1>3, <2>1
  <2>3. at[n + 1] = chain[n + 1]
    BY <2>1
  <2>4. chain[n] = UpOf(chain[n + 1])
    BY <2>1
  <2> QED BY <2>2, <2>3, <2>4 DEF n
<1>7. S = Nat
  <2> HIDE DEF S
  <2> QED BY <1>5, <1>6, SetInduct DEF S
<1>8. ASSUME NEW n \in 1..c.node PROVE at[n] = chain[n]
  <2> DEFINE k == c.node - n
  <2>1. k \in Nat /\ k < c.node /\ c.node - k = n
    BY <1>1
  <2>2. k \in S
    BY <1>7, <2>1
  <2> QED BY <2>1, <2>2
<1> QED BY <1>4, <1>8

\* What a run's checkpoint was computed from is what the run holds below it.
LEMMA HeldLineage ==
  ASSUME Tables, ChainInv, NEW e \in Execs, NEW n \in Nodes, Holds(e, n)
  PROVE  /\ Lineage(stage[e][n].ckpt) = {stage[e][m].ckpt : m \in 1..n}
         /\ \A m \in 1..n : m \in Nodes /\ Holds(e, m)
<1> DEFINE c == stage[e][n].ckpt
           chain == [m \in Nodes |-> stage[e][m].ckpt]
<1>1. n \in Nat \ {0} /\ n <= Stages /\ Stages \in Nat /\ c.node = n
  BY CheckpointAssumption DEF CheckpointAssumption, Nodes, ChainInv, ChainAt
<1>2. \A m \in 1..n : m \in Nodes /\ Holds(e, m)
  <2>1. PICK k \in 0..Stages : \A m \in Nodes : Holds(e, m) <=> m <= k
    BY DEF ChainInv, Prefix
  <2>2. n <= k /\ k \in Nat
    BY <2>1
  <2>3. \A m \in 1..n : m \in Nodes /\ m <= k
    BY <1>1, <2>2 DEF Nodes
  <2> QED BY <2>1, <2>3
<1>3. \A m \in Nodes : m < n => chain[m] = UpOf(chain[m + 1])
  <2> SUFFICES ASSUME NEW m \in Nodes, m < n PROVE chain[m] = UpOf(chain[m + 1])
    OBVIOUS
  <2>1. m \in Nat /\ m + 1 \in Nodes /\ m + 1 \in 1..n /\ m + 1 # 1 /\ (m + 1) - 1 = m
    BY <1>1 DEF Nodes
  <2>2. UpOf(stage[e][m + 1].ckpt) = Before(e, m + 1)
    BY <1>2, <2>1 DEF ChainInv, ChainAt
  <2> QED BY <2>1, <2>2 DEF Before
<1>4. Lineage(c) = {chain[m] : m \in 1..c.node}
  <2> HIDE DEF c, chain
  <2>1. c.node \in Nodes /\ chain[c.node] = c
    BY <1>1 DEF c, chain
  <2> QED BY <1>1, <1>3, <2>1, LineageOfChain
<1> QED BY <1>1, <1>2, <1>4

\* A candidate for reuse is among the checkpoints that were looked at.
LEMMA CandidateLineage ==
  ASSUME Tables, ChainInv, NEW e \in Execs, NEW n \in Nodes, n > 1 => Holds(e, n - 1),
         NEW c, c.node = n, UpOf(c) = Before(e, n)
  PROVE  c \in Lineage(c)
<1> DEFINE chain == [m \in Nodes |-> IF m = n THEN c ELSE stage[e][m].ckpt]
<1>1. n \in Nat \ {0} /\ n <= Stages /\ Stages \in Nat
  BY CheckpointAssumption DEF CheckpointAssumption, Nodes
<1>2. \A m \in Nodes : m < n => chain[m] = UpOf(chain[m + 1])
  <2> SUFFICES ASSUME NEW m \in Nodes, m < n PROVE chain[m] = UpOf(chain[m + 1])
    OBVIOUS
  <2>1. m \in Nat /\ m + 1 \in Nodes /\ m + 1 # 1 /\ (m + 1) - 1 = m /\ m # n
    BY <1>1 DEF Nodes
  <2>2. CASE m + 1 = n
    BY <2>1, <2>2 DEF Before
  <2>3. CASE m + 1 # n
    <3>1. n - 1 \in Nodes /\ Holds(e, n - 1) /\ m + 1 \in 1..(n - 1)
      BY <1>1, <2>1, <2>3 DEF Nodes
    <3>2. Holds(e, m + 1)
      BY <3>1, HeldLineage
    <3>3. UpOf(stage[e][m + 1].ckpt) = Before(e, m + 1)
      BY <2>1, <3>2 DEF ChainInv, ChainAt
    <3> QED BY <2>1, <2>3, <3>3 DEF Before
  <2> QED BY <2>2, <2>3
<1>3. Lineage(c) = {chain[m] : m \in 1..c.node}
  <2> HIDE DEF chain
  <2>1. c.node \in Nodes /\ chain[c.node] = c
    BY DEF chain
  <2> QED BY <1>2, <2>1, LineageOfChain
<1>4. n \in 1..n /\ chain[n] = c
  BY <1>1
<1> QED BY <1>3, <1>4

-----------------------------------------------------------------------------
(* What is held is in the store.                                           *)

\* A recording that is to be deleted stays so.
LEMMA TombStays ==
  ASSUME TypeOK, [Next]_vars, NEW r \in Recs, tomb'[r] = "none"
  PROVE  tomb[r] = "none"
<1>1. CASE UNCHANGED tomb
  BY <1>1
<1>2. ASSUME NEW q \in Recs, StartDeletion(q) PROVE tomb[r] = "none"
  BY <1>2 DEF StartDeletion, TypeOK
<1>3. CASE DeleteRows
  BY <1>3 DEF DeleteRows, TypeOK
<1>4. ASSUME NEW e \in Execs, Step(e) PROVE UNCHANGED tomb
  BY <1>4 DEF Step, BeginExecution, ResumeExecution, CancelExecution, PassDeadline, CancelContext,
     Publish, EnsureStage, ReuseCheckpoint, ClaimStage, AwaitCapacity, AcquireGPUStage, StopWaiting,
     StartAttempt, AdapterReturns, AttemptFailed, RenameCheckpoint, CommittedBefore,
     RefuseCheckpoint, QuotaReached, CommitCheckpoint, Start, environment, outside, database
<1>5. CASE RemoveFiles \/ DeleteJob \/ Crash \/ Shutdown \/ ShutdownEnds \/ RecoverExecutions \/ Collect
  BY <1>5 DEF RemoveFiles, DeleteJob, Crash, Shutdown, ShutdownEnds, ProcessGone, database,
     RecoverExecutions, Collect
<1> QED BY <1>1, <1>2, <1>3, <1>4, <1>5 DEF Next, RequestDeletion, RetryDeletion, vars, database

LEMMA FileSteps ==
  ASSUME [Next]_vars
  PROVE  \/ UNCHANGED dirs
         \/ \E e \in Execs : RenameCheckpoint(e)
         \/ RemoveFiles \/ Collect
<1>1. ASSUME NEW e \in Execs, Step(e) PROVE UNCHANGED dirs \/ RenameCheckpoint(e)
  BY <1>1 DEF Step, BeginExecution, ResumeExecution, CancelExecution, PassDeadline, CancelContext,
     Publish, EnsureStage, ReuseCheckpoint, ClaimStage, AwaitCapacity, AcquireGPUStage, StopWaiting,
     StartAttempt, AdapterReturns, AttemptFailed, CommittedBefore,
     RefuseCheckpoint, QuotaReached, CommitCheckpoint, Start, environment, outside, database
<1>2. CASE DeleteRows \/ DeleteJob \/ Crash \/ Shutdown \/ ShutdownEnds \/ RecoverExecutions
  BY <1>2 DEF DeleteRows, DeleteJob, Crash, Shutdown, ShutdownEnds, ProcessGone, RecoverExecutions
<1> QED BY <1>1, <1>2 DEF Next, RequestDeletion, RetryDeletion, StartDeletion, vars

\* Every row is the checkpoint that its own stage selected.
LEMMA RowsStaySelected ==
  ASSUME IInv, [Next]_vars, NEW d \in rows'
  PROVE  stage'[d.exec][d.node].ckpt = d
<1>1. TypeOK /\ Tables /\ StoreInv
  BY DEF IInv, TypeOK, Tables
<1>2. ASSUME d \in rows
      PROVE  /\ d \in Id /\ d.exec \in Execs /\ d.node \in Nodes /\ d # None
             /\ stage[d.exec][d.node].ckpt = d
  <2>1. d \in Id
    BY <1>1, <1>2 DEF TypeOK
  <2> QED BY <1>1, <1>2, <2>1, IdAssumption DEF StoreInv, Id
<1>3. CASE StagesKept
  BY <1>2, <1>3 DEF StagesKept, Alike
<1>4. ASSUME NEW e \in Execs, Begins(e) PROVE stage'[d.exec][d.node].ckpt = d
  BY <1>2, <1>4 DEF Begins, OtherStages
<1>5. ASSUME NEW e \in Execs, NEW c \in Id, Gains(e, c) PROVE stage'[d.exec][d.node].ckpt = d
  <2>1. CASE d \in rows
    <3>1. d.exec # e \/ d.node # worker[e].node
      BY <1>2, <1>5, <2>1 DEF Gains, Holds
    <3> QED BY <1>2, <1>5, <2>1, <3>1 DEF Gains, OtherStages
  <2>2. CASE d \notin rows
    <3>1. d = c /\ d = Produced(e)
      BY <1>5, <2>2 DEF Gains
    <3> QED BY <1>5, <3>1 DEF Gains, Produced
  <2> QED BY <2>1, <2>2
<1>6. ASSUME NEW r \in Recs, Erases(r) PROVE stage'[d.exec][d.node].ckpt = d
  <2>1. d \in rows /\ Rec(d) # r
    BY <1>6 DEF Erases, Of
  <2> QED BY <1>2, <1>6, <2>1 DEF Erases, Rec
<1> QED BY <1>3, <1>4, <1>5, <1>6, ChainSteps

\* Collection takes nothing that a run holds.
LEMMA CollectSparesHeld ==
  ASSUME IInv, Collect, NEW e \in Execs, NEW n \in Nodes, Holds(e, n),
         stage[e][n].ckpt \in rows \cap dirs
  PROVE  stage[e][n].ckpt \in rows' \cap dirs'
<1> DEFINE c == stage[e][n].ckpt
<1>1. Tables /\ ChainInv /\ AccountInv /\ TypeOK
  BY DEF IInv, TypeOK, Tables
<1>2. exec[e].status \notin {"none", "deleted"}
  <2>1. stage[e][n].state = "succeeded"
    BY <1>1 DEF ChainInv, ChainAt
  <2> QED BY <1>1, <2>1 DEF AccountInv
<1>3. c \in Lineage(c)
  <2>1. n \in 1..n
    BY NodesNat
  <2> QED BY <1>1, <2>1, HeldLineage, SMTT(30)
<1>4. c \in Protected
  <2>1. c \in {stage[f][m].ckpt : f \in {x \in Execs : exec[x].status \notin {"none", "deleted"}},
                                  m \in Nodes} \ {None}
    BY <1>2 DEF Holds
  <2> QED BY <1>3, <2>1 DEF Protected
<1>5. c \notin Collectable
  BY <1>4 DEF Collectable
<1> QED BY <1>5 DEF Collect

LEMMA HeldStaysReadable ==
  ASSUME IInv, [Next]_vars, NEW e \in Execs, NEW n \in Nodes,
         Holds(e, n)', tomb'[RecOf[e]] = "none"
  PROVE  stage'[e][n].ckpt \in rows' \cap dirs'
<1>1. TypeOK /\ Tables /\ WorkerType /\ StoreInv /\ ChainInv /\ WorkerInv /\ DeletionInv
  BY DEF IInv, TypeOK, Tables, WorkerType
<1>2. RecOf[e] \in Recs /\ tomb[RecOf[e]] = "none"
  BY <1>1, TombStays, CheckpointAssumption DEF CheckpointAssumption
<1>3. ASSUME Holds(e, n) PROVE stage[e][n].ckpt \in rows \cap dirs /\ Rec(stage[e][n].ckpt) = RecOf[e]
  BY <1>1, <1>2, <1>3 DEF StoreInv, ChainInv, ChainAt
<1>4. CASE Collect
  <2>1. stage' = stage
    BY <1>4 DEF Collect
  <2> QED BY <1>3, <1>4, <2>1, CollectSparesHeld DEF Holds
<1>5. CASE RemoveFiles
  <2>1. UNCHANGED <<stage, rows>>
    BY <1>5 DEF RemoveFiles, database
  <2>2. tomb[deletion.rec] # "none"
    BY <1>1, <1>5 DEF RemoveFiles, DeletionInv
  <2>3. \A c \in dirs : Rec(c) # deletion.rec => c \in dirs'
    BY <1>5 DEF RemoveFiles, Of
  <2> QED BY <1>2, <1>3, <2>1, <2>2, <2>3 DEF Holds
<1>6. CASE dirs \subseteq dirs' /\ ~Collect
  <2>1. CASE StagesKept
    <3>1. rows \subseteq rows' \/ \E r \in Recs : Erases(r)
      <4>1. CASE UNCHANGED rows
        BY <4>1
      <4>2. ASSUME NEW f \in Execs, Commits(f) PROVE rows \subseteq rows'
        BY <4>2 DEF Commits, Selected
      <4>3. CASE DeleteRows
        BY <1>1, <4>3, DeleteRowsStep
      <4> QED BY <1>6, <4>1, <4>2, <4>3, TableSteps DEF Marks, Publish, EnsureStage,
                 ReuseCheckpoint, ClaimStage, RecoverExecutions, outside, vars, database
    <3>2. CASE rows \subseteq rows'
      BY <1>3, <1>6, <2>1, <3>2 DEF StagesKept, Alike, Holds
    <3>3. ASSUME NEW r \in Recs, Erases(r) PROVE stage'[e][n].ckpt \in rows' \cap dirs'
      <4>1. RecOf[e] # r
        BY <1>1, <1>2, <3>3 DEF Erases, TypeOK
      <4> QED BY <1>3, <1>6, <3>3, <4>1 DEF Erases, Of, Holds
    <3> QED BY <3>1, <3>2, <3>3
  <2>2. ASSUME NEW f \in Execs, Begins(f) PROVE stage'[e][n].ckpt \in rows' \cap dirs'
    <3>1. stage'[e][n].ckpt = stage[e][n].ckpt
      BY <2>2 DEF Begins, OtherStages
    <3> QED BY <1>3, <1>6, <2>2, <3>1 DEF Begins, Holds
  <2>3. ASSUME NEW f \in Execs, NEW c \in Id, Gains(f, c) PROVE stage'[e][n].ckpt \in rows' \cap dirs'
    <3>1. CASE f # e \/ n # worker[f].node
      BY <1>3, <1>6, <2>3, <3>1 DEF Gains, OtherStages, Holds
    <3>2. CASE f = e /\ n = worker[f].node
      <4>1. stage'[e][n].ckpt = c /\ c \in rows'
        BY <2>3, <3>2 DEF Gains
      <4>2. CASE Readable(c)
        <5>1. /\ n > 1 => Holds(e, n - 1)
              /\ c.node = n /\ UpOf(c) = Before(e, n)
          BY <1>1, <2>3, <3>2 DEF Gains, WorkerInv, PlaceAt, At
        <5>2. c \in Lineage(c)
          BY <1>1, <5>1, CandidateLineage
        <5> QED BY <1>6, <4>1, <4>2, <5>2 DEF Readable
      <4> QED BY <1>6, <2>3, <4>1, <4>2 DEF Gains
    <3> QED BY <3>1, <3>2
  <2>4. ASSUME NEW r \in Recs, Erases(r) PROVE stage'[e][n].ckpt \in rows' \cap dirs'
    <3>1. RecOf[e] # r
      BY <1>1, <1>2, <2>4 DEF Erases, TypeOK
    <3> QED BY <1>3, <1>6, <2>4, <3>1 DEF Erases, Of, Holds
  <2> QED BY <2>1, <2>2, <2>3, <2>4, ChainSteps
<1>7. ASSUME NEW f \in Execs, RenameCheckpoint(f) PROVE dirs \subseteq dirs'
  BY <1>7 DEF RenameCheckpoint
<1> QED BY <1>4, <1>5, <1>6, <1>7, FileSteps

-----------------------------------------------------------------------------
(* Where workers are.                                                      *)

\* The step of one worker leaves what the others stand on alone.
LEMMA StepFrame ==
  ASSUME Tables, WorkerType, TypeOK, WorkerInv, NEW e \in Execs, Step(e), NEW f \in Execs, f # e
  PROVE  /\ worker'[f] = worker[f] /\ exec'[f] = exec[f]
         /\ stage'[f] = stage[f] /\ attempts'[f] = attempts[f]
<1>1. worker'[f] = worker[f]
  BY DEF WorkerType, Step, BeginExecution, ResumeExecution, CancelExecution, PassDeadline,
     CancelContext, Publish, EnsureStage, ReuseCheckpoint, ClaimStage, AwaitCapacity,
     AcquireGPUStage, StopWaiting, StartAttempt, AdapterReturns, AttemptFailed, RenameCheckpoint,
     CommittedBefore, RefuseCheckpoint, QuotaReached, CommitCheckpoint, Start, PersistFailed,
     Goto, GiveUp, Advance
<1>2. exec'[f] = exec[f]
  BY DEF TypeOK, Step, BeginExecution, ResumeExecution, CancelExecution, PassDeadline,
     CancelContext, Publish, EnsureStage, ReuseCheckpoint, ClaimStage, AwaitCapacity,
     AcquireGPUStage, StopWaiting, StartAttempt, AdapterReturns, AttemptFailed, RenameCheckpoint,
     CommittedBefore, RefuseCheckpoint, QuotaReached, CommitCheckpoint, Start, environment, outside,
     database
<1>3. stage'[f] = stage[f] /\ attempts'[f] = attempts[f]
  <2>1. CASE UNCHANGED <<stage, attempts>>
    BY <2>1
  <2>2. CASE Publish(e) \/ EnsureStage(e) \/ ReuseCheckpoint(e) \/ ClaimStage(e)
    BY <2>2 DEF Publish, EnsureStage, ReuseCheckpoint, ClaimStage, outside, Tables
  <2>3. CASE \/ AwaitCapacity(e) \/ StopWaiting(e) \/ StartAttempt(e) \/ AttemptFailed(e)
             \/ RefuseCheckpoint(e) \/ QuotaReached(e) \/ CommitCheckpoint(e)
    BY <2>3 DEF AwaitCapacity, StopWaiting, StartAttempt, AttemptFailed, RefuseCheckpoint,
       QuotaReached, CommitCheckpoint, PersistFailed, FailAttempt, EndAttempt, Mark, Selected, Tables
  <2> QED BY <2>1, <2>2, <2>3 DEF Step, BeginExecution, ResumeExecution, CancelExecution,
             PassDeadline, CancelContext, AcquireGPUStage, AdapterReturns, RenameCheckpoint,
             CommittedBefore, Start, environment, outside, database
<1> QED BY <1>1, <1>2, <1>3

LEMMA StepSurroundings ==
  ASSUME NEW e \in Execs, Step(e)
  PROVE  UNCHANGED <<phase, deletion, exists, tomb>>
BY DEF Step, BeginExecution, ResumeExecution, CancelExecution, PassDeadline,
   CancelContext, Publish, EnsureStage, ReuseCheckpoint, ClaimStage, AwaitCapacity,
   AcquireGPUStage, StopWaiting, StartAttempt, AdapterReturns, AttemptFailed, RenameCheckpoint,
   CommittedBefore, RefuseCheckpoint, QuotaReached, CommitCheckpoint, Start, environment, outside,
   database

\* A deletion is completed by the transaction that removes its rows, for good.
LEMMA CompletedSteps ==
  ASSUME TypeOK, [Next]_vars, NEW r \in Recs, tomb'[r] = "completed"
  PROVE  tomb[r] = "completed" \/ (DeleteRows /\ r = deletion.rec)
<1>1. ASSUME NEW q \in Recs, RequestDeletion(q) \/ RetryDeletion(q) PROVE tomb[r] = "completed"
  BY <1>1 DEF RequestDeletion, RetryDeletion, StartDeletion, TypeOK
<1>2. CASE DeleteRows
  BY <1>2 DEF DeleteRows, TypeOK
<1>3. CASE tomb' = tomb
  BY <1>3
<1> QED BY <1>1, <1>2, <1>3, StepSurroundings DEF Next, RemoveFiles, DeleteJob, Crash, Shutdown,
           ShutdownEnds, ProcessGone, RecoverExecutions, Collect, vars, database

LEMMA CompletedStays ==
  ASSUME TypeOK, [Next]_vars, NEW r \in Recs, tomb[r] = "completed"
  PROVE  tomb'[r] = "completed"
<1>1. ASSUME NEW q \in Recs, RequestDeletion(q) \/ RetryDeletion(q) PROVE tomb'[r] = "completed"
  BY <1>1 DEF RequestDeletion, RetryDeletion, StartDeletion, TypeOK
<1>2. CASE DeleteRows
  BY <1>2 DEF DeleteRows, TypeOK
<1>3. CASE tomb' = tomb
  BY <1>3
<1> QED BY <1>1, <1>2, <1>3, StepSurroundings DEF Next, RemoveFiles, DeleteJob, Crash, Shutdown,
           ShutdownEnds, ProcessGone, RecoverExecutions, Collect, vars, database

\* Nothing about a run's stages changes that its worker relies on.
Calm(e) ==
  \A m \in Nodes :
    /\ Alike(e, m) /\ Len(attempts'[e][m]) = Len(attempts[e][m])
    /\ stage'[e][m].state \in ActiveState => stage[e][m].state \in ActiveState

LEMMA UnchangedIsCalm ==
  ASSUME NEW e \in Execs, stage'[e] = stage[e], attempts'[e] = attempts[e]
  PROVE  Calm(e)
BY DEF Calm, Alike

LEMMA MarkIsCalm ==
  ASSUME Tables, WorkerType, WorkerInv, NEW e \in Execs, Marks(e)
  PROVE  Calm(e)
<1>1. PICK s \in MarkStates : Mark(e, s)
  BY DEF Marks
<1>2. worker[e].count \in 1..Len(Attempts(e)) /\ worker[e].node \in Nodes
  BY CountInRange DEF Marks
<1>3. s \in AttemptState
  BY DEF MarkStates, AttemptState, ActiveState
<1> DEFINE n == worker[e].node
<1>4. /\ OtherStages(e, n) /\ OtherAttempts(e, n)
      /\ attempts'[e][n] = [attempts[e][n] EXCEPT ![worker[e].count].state = s]
  BY <1>1, <1>2, <1>3, MarkEffect
<1>5. Len(attempts'[e][n]) = Len(attempts[e][n])
  <2>1. attempts[e][n] \in Seq(AttemptRow)
    BY <1>2 DEF Tables
  <2> QED BY <1>2, <1>3, <1>4, <2>1, AttemptMarked DEF Attempts
<1>6. stage[e][n].state \in ActiveState
  BY DEF Marks, BothIn, Current
<1>7. \A m \in Nodes : Alike(e, m)
  BY MarksKeepsResults DEF StagesKept
<1> QED BY <1>4, <1>5, <1>6, <1>7 DEF Calm, OtherStages, OtherAttempts

\* A worker that stays where it is, or goes on without having finished its stage.
LEMMA CalmPlace ==
  ASSUME WorkerType, NEW e \in Execs, PlaceAt(e), Calm(e),
         worker'[e].node = worker[e].node, worker'[e].up = worker[e].up,
         worker'[e].count = worker[e].count,
         \/ worker'[e].pc = worker[e].pc /\ worker'[e].result = worker[e].result
         \/ /\ worker'[e].pc \in {"waiting", "admitted", "running", "returned", "renamed", "invoking"}
            /\ worker[e].pc \in Claimed
         \/ worker'[e].pc = "invoking" /\ worker[e].pc = "ensured"
         \/ worker'[e].pc = "closing" /\ worker'[e].result = "error"
  PROVE  PlaceAt(e)'
<1>1. PICK n \in Nodes : n = worker[e].node /\ n = worker'[e].node
  BY DEF WorkerType, WorkerRow
<1>2. \A m \in Nodes : /\ Holds(e, m)' <=> Holds(e, m)
                       /\ stage'[e][m].ckpt = stage[e][m].ckpt
  BY DEF Calm, Alike, Holds
<1>3. Before(e, n)' = Before(e, n) /\ (n > 1 => (Holds(e, n - 1)' <=> Holds(e, n - 1)))
  BY <1>2, NodesNat DEF Before
<1>4. /\ stage'[e][n].state = "none" <=> stage[e][n].state = "none"
      /\ Len(attempts'[e][n]) = Len(attempts[e][n])
      /\ stage'[e][n].state \in ActiveState => stage[e][n].state \in ActiveState
  BY DEF Calm, Alike
<1> QED BY <1>1, <1>2, <1>3, <1>4 DEF PlaceAt, Claimed

\* The steps that leave a stage as it is, or go on with its attempt, or end it.
Quiet(e) ==
  \/ CancelExecution(e) \/ PassDeadline(e) \/ CancelContext(e)
  \/ AwaitCapacity(e) \/ AcquireGPUStage(e) \/ StopWaiting(e) \/ StartAttempt(e)
  \/ AdapterReturns(e) \/ AttemptFailed(e) \/ RenameCheckpoint(e) \/ RefuseCheckpoint(e)
  \/ QuotaReached(e)
  \/ CommitCheckpoint(e) /\ ~Commits(e)

LEMMA QuietIsCalm ==
  ASSUME Tables, WorkerType, WorkerInv, NEW e \in Execs, Quiet(e)
  PROVE  Calm(e)
<1>1. UNCHANGED <<stage, attempts>> \/ Marks(e)
  <2>1. CASE CancelExecution(e) \/ PassDeadline(e) \/ CancelContext(e)
    BY <2>1 DEF CancelExecution, PassDeadline, CancelContext, environment
  <2>2. CASE AcquireGPUStage(e) \/ AdapterReturns(e) \/ RenameCheckpoint(e)
    BY <2>2 DEF AcquireGPUStage, AdapterReturns, RenameCheckpoint, database
  <2>3. CASE AwaitCapacity(e) \/ StartAttempt(e)
    BY <2>3 DEF AwaitCapacity, StartAttempt, outside, Marks, At, Claimed, MarkStates
  <2>4. CASE StopWaiting(e) \/ AttemptFailed(e) \/ QuotaReached(e)
    BY <2>4 DEF StopWaiting, AttemptFailed, QuotaReached, Persisting, FailAttempt, EndAttempt,
       outside, Marks, At, Claimed, MarkStates
  <2>5. CASE RefuseCheckpoint(e)
    BY <2>5 DEF RefuseCheckpoint, Persisting, PersistFailed, EndAttempt, outside, Marks, At, Claimed,
       MarkStates
  <2>6. CASE CommitCheckpoint(e) /\ ~Commits(e)
    BY <2>6 DEF CommitCheckpoint, Commits, PersistFailed, EndAttempt, Marks, At, Claimed, MarkStates
  <2> QED BY <2>1, <2>2, <2>3, <2>4, <2>5, <2>6 DEF Quiet
<1> QED BY <1>1, UnchangedIsCalm, MarkIsCalm

LEMMA QuietPlace ==
  ASSUME Tables, WorkerType, WorkerInv, NEW e \in Execs, Quiet(e)
  PROVE  PlaceAt(e)'
<1>1. Calm(e) /\ PlaceAt(e) /\ worker[e] \in WorkerRow
  BY QuietIsCalm DEF WorkerInv, WorkerType
<1>2. ASSUME GiveUp(e) PROVE PlaceAt(e)'
  <2>1. /\ worker'[e].node = worker[e].node /\ worker'[e].up = worker[e].up
        /\ worker'[e].count = worker[e].count /\ worker'[e].pc = "closing" /\ worker'[e].result = "error"
    BY <1>2 DEF GiveUp, WorkerType, WorkerRow
  <2> QED BY <1>1, <2>1, CalmPlace
<1>3. ASSUME NEW pc \in {"waiting", "admitted", "running", "returned", "renamed", "invoking"},
             worker[e].pc \in Claimed,
             \/ Goto(e, pc)
             \/ worker' = [worker EXCEPT ![e].pc = pc, ![e].try = @ + 1]
             \/ \E s : worker' = [worker EXCEPT ![e].pc = pc, ![e].settings = s]
             \/ \E r : worker' = [worker EXCEPT ![e].pc = pc, ![e].try = 1, ![e].result = r]
      PROVE  PlaceAt(e)'
  <2>1. /\ worker'[e].node = worker[e].node /\ worker'[e].up = worker[e].up
        /\ worker'[e].count = worker[e].count /\ worker'[e].pc = pc
    BY <1>3 DEF Goto, WorkerType, WorkerRow
  <2> QED BY <1>1, <1>3, <2>1, CalmPlace
<1>4. CASE CancelExecution(e) \/ PassDeadline(e) \/ CancelContext(e)
  <2>1. /\ worker'[e].node = worker[e].node /\ worker'[e].up = worker[e].up
        /\ worker'[e].count = worker[e].count /\ worker'[e].pc = worker[e].pc
        /\ worker'[e].result = worker[e].result
    BY <1>4 DEF CancelExecution, PassDeadline, CancelContext, WorkerType, WorkerRow
  <2> QED BY <1>1, <2>1, CalmPlace
<1>5. CASE AwaitCapacity(e) \/ StartAttempt(e) \/ AcquireGPUStage(e) \/ AdapterReturns(e)
  BY <1>2, <1>3, <1>5 DEF AwaitCapacity, StartAttempt, AcquireGPUStage, AdapterReturns, At, Claimed
<1>6. CASE StopWaiting(e) \/ AttemptFailed(e) \/ QuotaReached(e)
  BY <1>2, <1>3, <1>6 DEF StopWaiting, AttemptFailed, QuotaReached, At, Claimed
<1>7. CASE RenameCheckpoint(e) \/ RefuseCheckpoint(e)
  BY <1>2, <1>3, <1>7 DEF RenameCheckpoint, RefuseCheckpoint, Persisting, PersistFailed, At, Claimed
<1>8. CASE CommitCheckpoint(e) /\ ~Commits(e)
  BY <1>2, <1>3, <1>8 DEF CommitCheckpoint, Commits, PersistFailed, At, Claimed
<1> QED BY <1>4, <1>5, <1>6, <1>7, <1>8 DEF Quiet

\* After its stage has succeeded a worker turns to the next, or ends.
LEMMA AdvancePlace ==
  ASSUME Tables, WorkerType, NEW e \in Execs, NEW c \in Id, NEW n \in Nodes, n = worker[e].node,
         Advance(e, c), stage'[e][n].ckpt = c, stage'[e][n].state = "succeeded"
  PROVE  PlaceAt(e)'
<1>1. worker[e] \in WorkerRow
  BY DEF WorkerType
<1>2. CASE n = Stages
  <2>1. worker'[e].pc = "closing" /\ worker'[e].node = n
    BY <1>1, <1>2 DEF Advance, WorkerType, WorkerRow
  <2> QED BY <2>1 DEF PlaceAt, ActiveState
<1>3. CASE n # Stages
  <2>1. worker'[e].pc = "ready" /\ worker'[e].node = n + 1 /\ worker'[e].up = c
    BY <1>1, <1>3 DEF Advance, WorkerType, WorkerRow
  <2>2. n + 1 # 1 /\ (n + 1) - 1 = n
    BY NodesNat
  <2>3. Holds(e, n)' /\ Before(e, n + 1)' = c
    BY <2>2, IdAssumption DEF Holds, Before
  <2> QED BY <2>1, <2>2, <2>3 DEF PlaceAt
<1> QED BY <1>2, <1>3

LEMMA StartPlace ==
  ASSUME WorkerType, NEW e \in Execs, NEW gen, Start(e, gen)
  PROVE  PlaceAt(e)'
<1>1. worker'[e] = [NoWorker EXCEPT !.pc = "ready", !.gen = gen]
  BY DEF Start, WorkerType
<1>2. worker'[e].pc = "ready" /\ worker'[e].node = 1 /\ worker'[e].up = None
  BY <1>1 DEF NoWorker
<1> QED BY <1>2 DEF PlaceAt, Before

LEMMA EnsurePlace ==
  ASSUME Tables, WorkerType, WorkerInv, ChainInv, NEW e \in Execs, EnsureStage(e)
  PROVE  PlaceAt(e)'
<1>0. PICK n \in Nodes : n = worker[e].node
  BY DEF WorkerType, WorkerRow
<1>1. attempts' = attempts /\ worker[e] \in WorkerRow
  BY DEF EnsureStage, WorkerType
<1>2. CASE GiveUp(e)
  <2>1. worker'[e].pc = "closing" /\ worker'[e].result = "error"
    BY <1>1, <1>2 DEF GiveUp, WorkerType, WorkerRow
  <2> QED BY <2>1 DEF PlaceAt
<1>3. CASE /\ Current(e).ckpt = None
           /\ stage' = IF Current(e).state # "none" THEN stage
                       ELSE [stage EXCEPT ![e][worker[e].node] =
                          [NoStage EXCEPT !.state = "pending", !.gen = worker[e].gen,
                                          !.up = worker[e].up]]
           /\ worker' = [worker EXCEPT ![e].count = Len(Attempts(e)),
                ![e].settings = FirstSettings(e),
                ![e].pc = IF e \in Reusing THEN "ensured" ELSE "invoking"]
  <2>1. /\ worker'[e].pc \in {"ensured", "invoking"} /\ worker'[e].node = n
        /\ worker'[e].up = worker[e].up /\ worker'[e].count = Len(attempts[e][n])
    BY <1>0, <1>1, <1>3 DEF WorkerType, WorkerRow, Attempts
  <2>2. worker[e].up = Before(e, n) /\ (n > 1 => Holds(e, n - 1))
    BY <1>0 DEF WorkerInv, PlaceAt, EnsureStage, At
  <2>3. stage'[e][n].state # "none" /\ stage'[e][n].ckpt = None
    <3>1. CASE Current(e).state # "none"
      BY <1>0, <1>3, <3>1 DEF Current
    <3>2. CASE Current(e).state = "none"
      <4> DEFINE row == [NoStage EXCEPT !.state = "pending", !.gen = worker[e].gen,
                                        !.up = worker[e].up]
      <4>1. row.state = "pending" /\ row.ckpt = None
        BY DEF NoStage
      <4>2. stage' = [stage EXCEPT ![e][n] = row]
        BY <1>0, <1>3, <3>2
      <4> HIDE DEF row
      <4>3. stage'[e][n] = row
        BY <4>2 DEF Tables
      <4> QED BY <4>1, <4>3
    <3> QED BY <3>1, <3>2
  <2>4. n > 1 => n - 1 \in Nodes /\ stage'[e][n - 1] = stage[e][n - 1]
    BY <1>0, <1>3, NodesNat DEF Tables
  <2>5. Before(e, n)' = Before(e, n) /\ (n > 1 => Holds(e, n - 1)')
    BY <2>2, <2>4, NodesNat DEF Before, Holds
  <2> QED BY <1>1, <2>1, <2>2, <2>3, <2>5 DEF PlaceAt, Holds
<1>4. CASE /\ Current(e).ckpt # None /\ Advance(e, Current(e).ckpt) /\ UNCHANGED stage
  <2> DEFINE c == stage[e][n].ckpt
  <2>1. c # None /\ Advance(e, c) /\ Holds(e, n)
    BY <1>0, <1>4 DEF Current, Holds
  <2>2. c \in Id /\ stage[e][n].state = "succeeded"
    BY <2>1, HeldIsCheckpoint DEF ChainInv, ChainAt
  <2> QED BY <1>0, <1>4, <2>1, <2>2, AdvancePlace
<1> QED BY <1>2, <1>3, <1>4 DEF EnsureStage

LEMMA ReusePlace ==
  ASSUME Tables, TypeOK, WorkerType, WorkerInv, ChainInv, NEW e \in Execs, ReuseCheckpoint(e)
  PROVE  PlaceAt(e)'
<1>0. PICK n \in Nodes : n = worker[e].node
  BY DEF WorkerType, WorkerRow
<1>1. attempts' = attempts /\ worker[e] \in WorkerRow /\ worker[e].pc = "ensured" /\ PlaceAt(e)
  BY DEF ReuseCheckpoint, WorkerType, At, WorkerInv
<1>2. CASE GiveUp(e)
  <2>1. worker'[e].pc = "closing" /\ worker'[e].result = "error"
    BY <1>1, <1>2 DEF GiveUp, WorkerType, WorkerRow
  <2> QED BY <2>1 DEF PlaceAt
<1>3. CASE Goto(e, "invoking") /\ UNCHANGED stage
  <2>1. Calm(e)
    BY <1>1, <1>3, UnchangedIsCalm
  <2>2. /\ worker'[e].node = worker[e].node /\ worker'[e].up = worker[e].up
        /\ worker'[e].count = worker[e].count /\ worker'[e].pc = "invoking"
    BY <1>1, <1>3 DEF Goto, WorkerType, WorkerRow
  <2> QED BY <1>1, <2>1, <2>2, CalmPlace
<1>4. ASSUME NEW c \in Reusable(e), Advance(e, c),
             stage' = [stage EXCEPT ![e][worker[e].node] =
               [@ EXCEPT !.state = "succeeded", !.gen = worker[e].gen, !.ckpt = c]]
      PROVE  PlaceAt(e)'
  <2>1. c \in Id
    BY DEF Reusable, TypeOK
  <2>2. stage[e][n] \in StageRow
    BY DEF Tables
  <2>3. stage'[e][n].ckpt = c /\ stage'[e][n].state = "succeeded"
    BY <1>0, <1>4, <2>2 DEF Tables, StageRow
  <2> QED BY <1>0, <1>4, <2>1, <2>3, AdvancePlace
<1> QED BY <1>2, <1>3, <1>4 DEF ReuseCheckpoint

LEMMA ClaimPlace ==
  ASSUME Tables, WorkerType, WorkerInv, ChainInv, NEW e \in Execs, ClaimStage(e)
  PROVE  PlaceAt(e)'
<1>0. PICK n \in Nodes : n = worker[e].node
  BY DEF WorkerType, WorkerRow
<1>1. worker[e] \in WorkerRow /\ worker[e].pc = "invoking" /\ PlaceAt(e)
  BY DEF ClaimStage, WorkerType, At, WorkerInv
<1>2. CASE GiveUp(e)
  <2>1. worker'[e].pc = "closing" /\ worker'[e].result = "error"
    BY <1>1, <1>2 DEF GiveUp, WorkerType, WorkerRow
  <2> QED BY <2>1 DEF PlaceAt
<1>3. CASE ~GiveUp(e)
  <2>1. /\ attempts' = [attempts EXCEPT ![e][n] = Append(@,
             [state |-> "running", gen |-> worker[e].gen, settings |-> worker[e].settings])]
        /\ worker' = [worker EXCEPT ![e].pc = "claimed", ![e].count = Len(Attempts(e)) + 1]
    BY <1>0, <1>3 DEF ClaimStage
  <2>2. /\ worker'[e].node = n /\ worker'[e].up = worker[e].up
        /\ worker'[e].count = Len(attempts[e][n]) + 1 /\ worker'[e].pc = "claimed"
    BY <1>0, <1>1, <2>1 DEF WorkerType, WorkerRow, Attempts
  <2>3. Len(attempts'[e][n]) = Len(attempts[e][n]) + 1 /\ Len(attempts[e][n]) \in Nat
    <3>1. attempts[e][n] \in Seq(AttemptRow)
      BY DEF Tables
    <3>2. attempts'[e][n] = Append(attempts[e][n],
             [state |-> "running", gen |-> worker[e].gen, settings |-> worker[e].settings])
      BY <2>1 DEF Tables
    <3> QED BY <3>1, <3>2
  <2>4. \A m \in Nodes : Alike(e, m)
    BY ClaimStep DEF StagesKept
  <2>5. \A m \in Nodes : Holds(e, m)' <=> Holds(e, m)
    BY <2>4 DEF Alike, Holds
  <2>6. Before(e, n)' = Before(e, n) /\ (n > 1 => (Holds(e, n - 1)' <=> Holds(e, n - 1)))
    BY <2>4, <2>5, NodesNat DEF Alike, Before
  <2> QED BY <1>0, <1>1, <2>2, <2>3, <2>4, <2>5, <2>6, SMTT(30) DEF PlaceAt, Alike
<1> QED BY <1>2, <1>3

LEMMA CommitPlace ==
  ASSUME IInv, NEW e \in Execs, CommitCheckpoint(e), Commits(e)
  PROVE  PlaceAt(e)'
<1>0. PICK n \in Nodes : n = worker[e].node
  BY DEF IInv, TypeOK, WorkerRow
<1>1. /\ Tables /\ WorkerType /\ WorkerInv /\ ChainInv /\ StoreInv /\ AccountInv /\ TypeOK
      /\ worker[e] \in WorkerRow /\ worker[e].pc = "renamed" /\ PlaceAt(e)
  BY DEF IInv, TypeOK, Tables, WorkerType, Commits, At, WorkerInv
<1>2. PICK c \in Id : Gains(e, c)
  BY <1>1, CommitStep
<1>3. c = Produced(e) /\ stage'[e][n].ckpt = c /\ stage'[e][n].state = "succeeded"
  <2>1. stage'[e][n].ckpt = Produced(e)
    BY <1>0, <1>1 DEF Commits, Selected, Tables, StageRow
  <2> QED BY <1>0, <1>2, <2>1 DEF Gains
<1>4. CASE Advance(e, Produced(e))
  BY <1>0, <1>1, <1>3, <1>4, AdvancePlace
<1>5. CASE worker' = [worker EXCEPT ![e].pc = "returned", ![e].try = @ + 1]
  <2>1. /\ worker'[e].node = n /\ worker'[e].up = worker[e].up
        /\ worker'[e].count = worker[e].count /\ worker'[e].pc = "returned"
    BY <1>0, <1>1, <1>5 DEF WorkerType, WorkerRow
  <2>2. Len(attempts'[e][n]) = Len(attempts[e][n])
    <3>1. worker[e].count \in 1..Len(Attempts(e)) /\ attempts[e][n] \in Seq(AttemptRow)
      BY <1>1, CountInRange DEF Claimed, Tables
    <3>2. attempts'[e][n] = [attempts[e][n] EXCEPT ![worker[e].count].state = "succeeded"]
      BY <1>0, <1>1 DEF Commits, Selected, Tables
    <3> QED BY <1>0, <3>1, <3>2, AttemptMarked DEF Attempts, AttemptState
  <2>3. n > 1 => n - 1 \in Nodes /\ n - 1 # n /\ stage'[e][n - 1] = stage[e][n - 1]
    <3>1. n > 1 => n - 1 \in Nodes /\ n - 1 # n
      BY NodesNat
    <3> QED BY <1>0, <1>2, <3>1 DEF Gains, OtherStages
  <2>4. Before(e, n)' = Before(e, n) /\ (n > 1 => (Holds(e, n - 1)' <=> Holds(e, n - 1)))
    BY <2>3, NodesNat DEF Before, Holds
  <2> QED BY <1>0, <1>1, <1>3, <2>1, <2>2, <2>4 DEF PlaceAt
<1>6. CASE GiveUp(e)
  <2>1. worker'[e].pc = "closing" /\ worker'[e].result = "error"
    BY <1>1, <1>6 DEF GiveUp, WorkerType, WorkerRow
  <2> QED BY <2>1 DEF PlaceAt
<1> QED BY <1>4, <1>5, <1>6 DEF CommitCheckpoint, PersistFailed

LEMMA CommittedPlace ==
  ASSUME IInv, NEW e \in Execs, CommittedBefore(e)
  PROVE  PlaceAt(e)'
<1>0. PICK n \in Nodes : n = worker[e].node
  BY DEF IInv, TypeOK, WorkerRow
<1>1. Tables /\ WorkerType /\ StoreInv /\ ChainInv /\ TypeOK /\ stage' = stage
  BY DEF IInv, TypeOK, Tables, WorkerType, CommittedBefore, database
<1>2. PICK c \in Existing(e) : Advance(e, c)
  BY DEF CommittedBefore
<1>3. c \in Id /\ c # None /\ stage[e][n].ckpt = c
  BY <1>0, <1>1, <1>2, IdAssumption DEF Existing, StoreInv, TypeOK
<1>4. stage[e][n].state = "succeeded"
  BY <1>1, <1>3 DEF ChainInv, ChainAt, Holds
<1> QED BY <1>0, <1>1, <1>2, <1>3, <1>4, AdvancePlace

LEMMA StepPlace ==
  ASSUME IInv, NEW e \in Execs, Step(e)
  PROVE  PlaceAt(e)'
<1>1. Tables /\ WorkerType /\ WorkerInv /\ ChainInv /\ TypeOK
  BY DEF IInv, TypeOK, Tables, WorkerType
<1>2. CASE BeginExecution(e) \/ ResumeExecution(e)
  BY <1>1, <1>2, StartPlace DEF BeginExecution, ResumeExecution
<1>3. CASE Publish(e)
  <2>1. worker'[e].pc = "none"
    BY <1>1, <1>3 DEF Publish, NoWorker, WorkerType
  <2> QED BY <2>1 DEF PlaceAt
<1>4. CASE CommitCheckpoint(e)
  <2>1. CASE Commits(e)
    BY <1>4, <2>1, CommitPlace
  <2>2. CASE ~Commits(e)
    BY <1>1, <1>4, <2>2, QuietPlace DEF Quiet
  <2> QED BY <2>1, <2>2
<1> QED BY <1>1, <1>2, <1>3, <1>4, EnsurePlace, ReusePlace, ClaimPlace, CommittedPlace, QuietPlace
        DEF Step, Quiet

\* A worker goes on under its own generation, and comes to hold renamed files only
\* by having renamed them.
LEMMA WorkerMoves ==
  ASSUME WorkerType, NEW e \in Execs,
         \/ EnsureStage(e) \/ ReuseCheckpoint(e) \/ ClaimStage(e)
         \/ AwaitCapacity(e) \/ AcquireGPUStage(e) \/ StopWaiting(e) \/ StartAttempt(e)
         \/ AdapterReturns(e) \/ AttemptFailed(e) \/ RenameCheckpoint(e) \/ CommittedBefore(e)
         \/ RefuseCheckpoint(e) \/ QuotaReached(e) \/ CommitCheckpoint(e)
  PROVE  /\ worker'[e].gen = worker[e].gen
         /\ worker'[e].pc = "renamed" => RenameCheckpoint(e)
<1> DEFINE Moved(pcs) == worker'[e].gen = worker[e].gen /\ worker'[e].pc \in pcs
<1>0. worker[e] \in WorkerRow
  BY DEF WorkerType
<1>1. ASSUME NEW pc, Goto(e, pc) PROVE Moved({pc})
  BY <1>0, <1>1 DEF Goto, WorkerType, WorkerRow
<1>2. ASSUME GiveUp(e) PROVE Moved({"closing"})
  BY <1>0, <1>2 DEF GiveUp, WorkerType, WorkerRow
<1>3. ASSUME NEW c, Advance(e, c) PROVE Moved({"closing", "ready"})
  BY <1>0, <1>3 DEF Advance, WorkerType, WorkerRow
<1>4. ASSUME NEW pc, NEW k, NEW s, NEW r,
             \/ worker' = [worker EXCEPT ![e].count = k, ![e].settings = s, ![e].pc = pc]
             \/ worker' = [worker EXCEPT ![e].pc = pc, ![e].count = k]
             \/ worker' = [worker EXCEPT ![e].pc = pc, ![e].settings = s]
             \/ worker' = [worker EXCEPT ![e].pc = pc, ![e].try = 1, ![e].result = r]
             \/ worker' = [worker EXCEPT ![e].pc = pc, ![e].try = @ + 1]
      PROVE  Moved({pc})
  BY <1>0, <1>4 DEF WorkerType, WorkerRow
<1> HIDE DEF Moved
<1>5. CASE EnsureStage(e) \/ ReuseCheckpoint(e)
  <2>1. \/ GiveUp(e) \/ Goto(e, "invoking") \/ \E c : Advance(e, c)
        \/ worker' = [worker EXCEPT ![e].count = Len(Attempts(e)),
                        ![e].settings = FirstSettings(e),
                        ![e].pc = IF e \in Reusing THEN "ensured" ELSE "invoking"]
    BY <1>5 DEF EnsureStage, ReuseCheckpoint
  <2>2. \/ Moved({"closing"}) \/ Moved({"closing", "ready"}) \/ Moved({"invoking"})
        \/ Moved({IF e \in Reusing THEN "ensured" ELSE "invoking"})
    BY <1>1, <1>2, <1>3, <1>4, <2>1
  <2> QED BY <2>2 DEF Moved
<1>6. CASE ClaimStage(e) \/ AwaitCapacity(e) \/ AcquireGPUStage(e) \/ StopWaiting(e)
  <2>1. \/ Moved({"closing"}) \/ Moved({"claimed"}) \/ Moved({"waiting"})
        \/ Moved({"admitted"})
    BY <1>1, <1>2, <1>4, <1>6 DEF ClaimStage, AwaitCapacity, AcquireGPUStage, StopWaiting
  <2> QED BY <2>1 DEF Moved
<1>7. CASE StartAttempt(e) \/ AdapterReturns(e) \/ AttemptFailed(e) \/ QuotaReached(e)
  <2>1. \/ Moved({"closing"}) \/ Moved({"running"}) \/ Moved({"returned"})
        \/ Moved({"invoking"})
    BY <1>1, <1>2, <1>4, <1>7 DEF StartAttempt, AdapterReturns, AttemptFailed, QuotaReached
  <2> QED BY <2>1 DEF Moved
<1>8. CASE CommittedBefore(e) \/ RefuseCheckpoint(e) \/ CommitCheckpoint(e)
  <2>1. \/ Moved({"closing"}) \/ Moved({"closing", "ready"}) \/ Moved({"returned"})
    BY <1>2, <1>3, <1>4, <1>8 DEF CommittedBefore, RefuseCheckpoint, CommitCheckpoint,
       PersistFailed
  <2> QED BY <2>1 DEF Moved
<1>9. CASE RenameCheckpoint(e)
  BY <1>1, <1>9 DEF RenameCheckpoint, Moved
<1> QED BY <1>5, <1>6, <1>7, <1>8, <1>9

LEMMA StepOwner ==
  ASSUME IInv, NEW e \in Execs, Step(e)
  PROVE  OwnerAt(e)'
<1>1. WorkerType /\ TypeOK /\ OwnerAt(e) /\ worker[e] \in WorkerRow /\ exec[e] \in ExecRow
  BY DEF IInv, TypeOK, WorkerType, WorkerInv
<1>2. UNCHANGED <<phase, deletion>>
  BY StepSurroundings
<1>3. CASE \E gen : Start(e, gen) /\ phase = "up" /\ deletion.rec # RecOf[e]
  <2>1. PICK gen : Start(e, gen)
    BY <1>3
  <2>2. worker'[e].gen = gen
    BY <1>1, <2>1 DEF Start, WorkerType, NoWorker
  <2>3. exec'[e].status = "running" /\ exec'[e].gen = gen
    BY <1>1, <2>1 DEF Start, TypeOK, ExecRow
  <2> QED BY <1>2, <1>3, <2>2, <2>3 DEF OwnerAt
<1>4. CASE CancelExecution(e)
  <2>1. exec'[e].status = "cancelled" /\ worker' = worker
    BY <1>1, <1>4 DEF CancelExecution, TypeOK, ExecRow
  <2> QED BY <1>1, <1>2, <2>1 DEF OwnerAt
<1>5. CASE PassDeadline(e)
  <2>1. exec'[e].status = exec[e].status /\ exec'[e].gen = exec[e].gen /\ worker' = worker
    BY <1>1, <1>5 DEF PassDeadline, TypeOK, ExecRow
  <2> QED BY <1>1, <1>2, <2>1 DEF OwnerAt
<1>6. CASE Publish(e)
  <2>1. worker'[e].pc = "none"
    BY <1>1, <1>6 DEF Publish, NoWorker, WorkerType
  <2> QED BY <2>1 DEF OwnerAt
<1>7. CASE exec' = exec /\ worker'[e].gen = worker[e].gen /\ worker[e].pc # "none"
  BY <1>1, <1>2, <1>7 DEF OwnerAt
<1>8. CASE \/ CancelContext(e) \/ EnsureStage(e) \/ ReuseCheckpoint(e) \/ ClaimStage(e)
           \/ AwaitCapacity(e) \/ AcquireGPUStage(e) \/ StopWaiting(e) \/ StartAttempt(e)
           \/ AdapterReturns(e) \/ AttemptFailed(e) \/ RenameCheckpoint(e) \/ CommittedBefore(e)
           \/ RefuseCheckpoint(e) \/ QuotaReached(e) \/ CommitCheckpoint(e)
  <2>1. exec' = exec /\ worker[e].pc # "none"
    BY <1>8 DEF CancelContext, EnsureStage, ReuseCheckpoint, ClaimStage, AwaitCapacity,
       AcquireGPUStage, StopWaiting, StartAttempt, AdapterReturns, AttemptFailed, RenameCheckpoint,
       CommittedBefore, RefuseCheckpoint, QuotaReached, CommitCheckpoint, Persisting, At, outside,
       database
  <2>2. worker'[e].gen = worker[e].gen
    <3>1. CASE CancelContext(e)
      BY <1>1, <3>1 DEF CancelContext, WorkerType, WorkerRow
    <3> QED BY <1>1, <1>8, <3>1, WorkerMoves
  <2> QED BY <1>7, <2>1, <2>2
<1> QED BY <1>3, <1>4, <1>5, <1>6, <1>8 DEF Step, BeginExecution, ResumeExecution, Startable

\* What nobody's worker does.
LEMMA OtherSteps ==
  ASSUME IInv, Next, ~ \E e \in Execs : Step(e), NEW f \in Execs, worker'[f].pc # "none"
  PROVE  /\ worker'[f] = worker[f] /\ exec'[f] = exec[f]
         /\ stage'[f] = stage[f] /\ attempts'[f] = attempts[f]
         /\ OwnerAt(f)'
<1>1. TypeOK /\ Tables /\ WorkerType /\ OwnerAt(f) /\ DeletionInv
  BY DEF IInv, TypeOK, Tables, WorkerType, WorkerInv
<1>2. ASSUME NEW r \in Recs, RequestDeletion(r) \/ RetryDeletion(r)
      PROVE  /\ UNCHANGED <<worker, exec, stage, attempts>>
             /\ OwnerAt(f)'
  <2>1. UNCHANGED <<worker, exec, stage, attempts, phase>> /\ deletion'.rec = r
    BY <1>2 DEF RequestDeletion, RetryDeletion, StartDeletion
  <2>2. worker[f].pc # "none" /\ phase # "recovering"
    BY <1>1, <2>1 DEF OwnerAt
  <2>3. RecOf[f] # r
    BY <1>2, <2>2 DEF RequestDeletion, RetryDeletion, Workerless, At
  <2> QED BY <1>1, <2>1, <2>3 DEF OwnerAt
<1>3. CASE RemoveFiles \/ DeleteRows \/ DeleteJob
  <2>1. deletion.step # "none" /\ worker' = worker
    BY <1>3 DEF RemoveFiles, DeleteRows, DeleteJob
  <2>2. RecOf[f] # deletion.rec /\ phase # "recovering"
    BY <1>1, <2>1 DEF DeletionInv, OwnerAt
  <2>3. exec'[f] = exec[f] /\ stage'[f] = stage[f] /\ attempts'[f] = attempts[f] /\ phase' = phase
    BY <1>1, <1>3, <2>2 DEF RemoveFiles, DeleteRows, DeleteJob, TypeOK, database
  <2>4. deletion'.step # "none" => deletion'.rec = deletion.rec
    BY <1>1, <1>3 DEF RemoveFiles, DeleteRows, DeleteJob, NoDeletion, TypeOK
  <2> QED BY <1>1, <2>1, <2>2, <2>3, <2>4 DEF OwnerAt
<1>4. CASE Crash \/ ShutdownEnds
  BY <1>1, <1>4 DEF Crash, ShutdownEnds, ProcessGone, NoWorker
<1>5. CASE Shutdown
  BY <1>1, <1>5 DEF Shutdown, OwnerAt, database
<1>6. CASE RecoverExecutions \/ Collect
  BY <1>1, <1>6 DEF RecoverExecutions, Collect, OwnerAt
<1> QED BY <1>2, <1>3, <1>4, <1>5, <1>6 DEF Next

LEMMA WorkerInductive ==
  ASSUME IInv, [Next]_vars
  PROVE  WorkerInv'
<1> SUFFICES ASSUME NEW f \in Execs PROVE (OwnerAt(f) /\ PlaceAt(f))'
  BY DEF WorkerInv
<1>1. TypeOK /\ Tables /\ WorkerType /\ WorkerInv
  BY DEF IInv, TypeOK, Tables, WorkerType
<1>2. CASE worker'[f].pc = "none"
  BY <1>2 DEF OwnerAt, PlaceAt
<1>3. ASSUME worker'[f] = worker[f], stage'[f] = stage[f], attempts'[f] = attempts[f]
      PROVE  PlaceAt(f)'
  BY <1>1, <1>3, UnchangedIsCalm, CalmPlace DEF WorkerInv
<1>4. ASSUME NEW e \in Execs, Step(e) PROVE (OwnerAt(f) /\ PlaceAt(f))'
  <2>1. CASE f = e
    BY <1>4, <2>1, StepOwner, StepPlace
  <2>2. CASE f # e
    BY <1>1, <1>3, <1>4, <2>2, StepFrame, StepSurroundings DEF WorkerInv, OwnerAt
  <2> QED BY <2>1, <2>2
<1>5. CASE Next /\ ~ (\E e \in Execs : Step(e)) /\ worker'[f].pc # "none"
  BY <1>3, <1>5, OtherSteps
<1>6. CASE UNCHANGED vars
  BY <1>1, <1>3, <1>6 DEF vars, database, WorkerInv, OwnerAt
<1> QED BY <1>2, <1>4, <1>5, <1>6

\* A checkpoint that is about to be committed has its files.
LEMMA RenamedHasFiles ==
  ASSUME IInv, [Next]_vars, NEW e \in Execs, worker'[e].pc = "renamed"
  PROVE  Produced(e)' \in dirs'
<1>1. TypeOK /\ Tables /\ WorkerType /\ WorkerInv /\ StoreInv /\ worker[e] \in WorkerRow /\ DeletionInv
  BY DEF IInv, TypeOK, Tables, WorkerType
<1>2. CASE RenameCheckpoint(e)
  BY <1>1, <1>2 DEF RenameCheckpoint, Goto, WorkerType, WorkerRow, Produced
<1>3. ASSUME ~RenameCheckpoint(e)
      PROVE  worker[e].pc = "renamed" /\ Produced(e)' = Produced(e)
  <2>1. CASE UNCHANGED worker
    BY <2>1 DEF Produced
  <2>2. ASSUME NEW f \in Execs, Step(f), f # e
        PROVE  worker[e].pc = "renamed" /\ Produced(e)' = Produced(e)
    BY <1>1, <2>2, StepFrame DEF Produced
  <2>3. CASE Step(e)
    <3>1. CASE CancelContext(e)
      BY <1>1, <3>1 DEF CancelContext, WorkerType, WorkerRow, Produced
    <3>2. CASE CancelExecution(e) \/ PassDeadline(e)
      BY <2>1, <3>2 DEF CancelExecution, PassDeadline
    <3>3. CASE ~(CancelContext(e) \/ CancelExecution(e) \/ PassDeadline(e))
      <4>1. worker'[e].pc # "renamed"
        <5>1. CASE BeginExecution(e) \/ ResumeExecution(e)
          BY <1>1, <5>1 DEF BeginExecution, ResumeExecution, Start, WorkerType, NoWorker
        <5>2. CASE Publish(e)
          BY <1>1, <5>2 DEF Publish, WorkerType, NoWorker
        <5> QED BY <1>1, <1>3, <2>3, <3>3, <5>1, <5>2, WorkerMoves DEF Step
      <4> QED BY <4>1
    <3> QED BY <3>1, <3>2, <3>3
  <2>4. ASSUME Next, ~ \E f \in Execs : Step(f)
        PROVE  worker[e].pc = "renamed" /\ Produced(e)' = Produced(e)
    BY <2>4, OtherSteps DEF Produced
  <2> QED BY <2>1, <2>2, <2>3, <2>4 DEF vars
<1>4. ASSUME ~RenameCheckpoint(e), Produced(e) \in dirs PROVE Produced(e) \in dirs'
  <2>1. CASE RemoveFiles
    <3>1. RecOf[e] # deletion.rec
      BY <1>1, <1>3, <1>4, <2>1 DEF RemoveFiles, DeletionInv
    <3> QED BY <1>4, <2>1, <3>1 DEF RemoveFiles, Of, Rec, Produced
  <2>2. CASE Collect
    BY <1>1, <1>3, <1>4, <2>2 DEF Collect, WorkerInv, OwnerAt
  <2>3. ASSUME NEW f \in Execs, RenameCheckpoint(f) PROVE Produced(e) \in dirs'
    BY <1>4, <2>3 DEF RenameCheckpoint
  <2> QED BY <1>4, <2>1, <2>2, <2>3, FileSteps
<1>5. ~RenameCheckpoint(e) => Produced(e) \in dirs
  BY <1>1, <1>3 DEF StoreInv
<1> QED BY <1>2, <1>3, <1>4, <1>5

LEMMA StoreInductive ==
  ASSUME IInv, [Next]_vars
  PROVE  StoreInv'
<1>1. \A c \in rows' : stage'[c.exec][c.node].ckpt = c
  BY RowsStaySelected
<1>2. ASSUME NEW e \in Execs, NEW n \in Nodes, Holds(e, n)', tomb'[RecOf[e]] = "none"
      PROVE  stage'[e][n].ckpt \in rows' \cap dirs'
  BY <1>2, HeldStaysReadable
<1>3. \A e \in Execs : worker'[e].pc = "renamed" => Produced(e)' \in dirs'
  BY RenamedHasFiles
<1> QED BY <1>1, <1>2, <1>3 DEF StoreInv

-----------------------------------------------------------------------------
(* Attempts, stages and owners account for one another.                    *)

\* The attempts of a stage agree with it: only the last can be active, and is if
\* the stage is; only the last can have succeeded, and the stage then has.
Accounted(e, n) ==
  LET s == stage[e][n]
      A == attempts[e][n]
  IN  /\ \A k \in DOMAIN A : A[k].state \in ActiveState =>
           k = Len(A) /\ s.state = A[k].state /\ s.gen = A[k].gen
      /\ s.state \in ActiveState => A # << >> /\ A[Len(A)].state = s.state
      /\ Len(A) <= MaxAttempts
      /\ \A k \in DOMAIN A : A[k].state = "succeeded" => k = Len(A) /\ s.state = "succeeded"

\* A worker is on an active stage, unless a write failed or the server is not up.
Attended(e, n) ==
  stage[e][n].state \in ActiveState =>
    \/ /\ worker[e].pc \in Busy /\ worker[e].node = n
       /\ worker[e].gen = stage[e][n].gen
    \/ phase \notin {"up", "draining"}
    \/ faults > 0 /\ exec[e].status \in {"failed", "cancelled"}

LEMMA MarkAccounts ==
  ASSUME Tables, WorkerType, WorkerInv, NEW e \in Execs, NEW n \in Nodes, n = worker[e].node,
         Accounted(e, n), Marks(e)
  PROVE  Accounted(e, n)'
<1>1. PICK s \in MarkStates : Mark(e, s)
  BY DEF Marks
<1>2. worker[e].count \in 1..Len(Attempts(e)) /\ worker[e].count = Len(attempts[e][n])
  BY CountInRange DEF Marks, WorkerInv, PlaceAt, Claimed
<1>3. s \in AttemptState /\ s # "succeeded"
  BY DEF MarkStates, AttemptState, ActiveState
<1> DEFINE A == attempts[e][n]
           B == [A EXCEPT ![worker[e].count].state = s]
<1>4. /\ stage'[e][n] = [stage[e][n] EXCEPT !.state = s]
      /\ attempts'[e][n] = B
  BY <1>1, <1>2, <1>3, MarkEffect
<1>5. A \in Seq(AttemptRow) /\ stage[e][n] \in StageRow
  BY DEF Tables
<1>6. stage'[e][n].state = s /\ stage'[e][n].gen = stage[e][n].gen
  BY <1>4, <1>5 DEF StageRow
<1>7. /\ Len(B) = Len(A) /\ DOMAIN B = 1..Len(A) /\ B # << >>
      /\ B[Len(A)].state = s /\ B[Len(A)].gen = A[Len(A)].gen
      /\ \A j \in 1..Len(A) : j # Len(A) => B[j] = A[j]
  <2>1. worker[e].count \in 1..Len(A)
    BY <1>2 DEF Attempts
  <2> QED BY <1>2, <1>3, <1>5, <2>1, AttemptMarked
<1>8. A[Len(A)].gen = stage[e][n].gen
  BY <1>2 DEF Marks, Owned, Attempts, Current
<1>9. DOMAIN A = 1..Len(A)
  BY <1>5
<1> HIDE DEF A, B
<1>10. /\ \A k \in DOMAIN A : k # Len(A) => A[k].state \notin ActiveState /\ A[k].state # "succeeded"
       /\ Len(A) <= MaxAttempts
  BY DEF Accounted, A
<1> QED BY <1>3, <1>4, <1>6, <1>7, <1>8, <1>9, <1>10 DEF Accounted

LEMMA EndingAccounts ==
  ASSUME Tables, NEW e \in Execs, NEW n \in Nodes, NEW G, Accounted(e, n),
         stage'[e] = EndedStages(e, G), attempts'[e] = EndedAttempts(e, G)
  PROVE  /\ Accounted(e, n)'
         /\ stage[e][n].gen \in G => stage'[e][n].state \notin ActiveState
         /\ stage'[e][n].state \in ActiveState =>
              stage[e][n].state \in ActiveState /\ stage'[e][n].gen = stage[e][n].gen
<1> DEFINE s == stage[e][n]
           A == attempts[e][n]
           B == attempts'[e][n]
<1>1. /\ stage'[e][n] = Ended(s, G) /\ Len(B) = Len(A) /\ DOMAIN B = DOMAIN A
      /\ \A k \in DOMAIN A : B[k] = Ended(A[k], G)
  BY EndedEffect
<1>2. s \in StageRow /\ A \in Seq(AttemptRow)
  BY DEF Tables
<1>3. /\ s.gen \in G /\ s.state \in ActiveState => stage'[e][n].state = "ended"
      /\ ~(s.gen \in G /\ s.state \in ActiveState) => stage'[e][n] = s
  BY <1>1, <1>2 DEF Ended, StageRow
<1>4. ASSUME NEW k \in DOMAIN A
      PROVE  /\ A[k].gen \in G /\ A[k].state \in ActiveState => B[k].state = "ended"
             /\ ~(A[k].gen \in G /\ A[k].state \in ActiveState) => B[k] = A[k]
  <2>1. A[k] \in AttemptRow
    BY <1>2
  <2> QED BY <1>1, <2>1 DEF Ended, AttemptRow
<1>5. DOMAIN A = 1..Len(A) /\ Len(A) \in Nat /\ (A # << >> => Len(A) \in DOMAIN A) /\ (A # << >> => B # << >>)
  <2>1. DOMAIN A = 1..Len(A) /\ Len(A) \in Nat /\ (A # << >> => Len(A) \in DOMAIN A)
    BY <1>2
  <2>2. DOMAIN << >> = {}
    OBVIOUS
  <2> HIDE DEF A, B
  <2> QED BY <1>1, <2>1, <2>2
<1>6. "ended" \notin ActiveState /\ "ended" # "succeeded" /\ "succeeded" \notin ActiveState
  BY DEF ActiveState
<1>7. /\ \A k \in DOMAIN A : A[k].state \in ActiveState =>
           k = Len(A) /\ s.state = A[k].state /\ s.gen = A[k].gen
      /\ s.state \in ActiveState => A # << >> /\ A[Len(A)].state = s.state
      /\ Len(A) <= MaxAttempts
      /\ \A k \in DOMAIN A : A[k].state = "succeeded" => k = Len(A) /\ s.state = "succeeded"
  BY DEF Accounted
<1>8. stage'[e][n].state \in ActiveState => stage'[e][n] = s /\ s.gen \notin G
  BY <1>3, <1>6
<1> HIDE DEF A, B, s
<1>9. ASSUME NEW k \in DOMAIN A, B[k].state \in ActiveState
      PROVE  k = Len(A) /\ stage'[e][n].state = B[k].state /\ stage'[e][n].gen = B[k].gen
  BY <1>3, <1>4, <1>6, <1>7, <1>9
<1>10. ASSUME NEW k \in DOMAIN A, B[k].state = "succeeded"
       PROVE  k = Len(A) /\ stage'[e][n].state = "succeeded"
  BY <1>3, <1>4, <1>6, <1>7, <1>10
<1>11. stage'[e][n].state \in ActiveState => B # << >> /\ B[Len(A)].state = stage'[e][n].state
  BY <1>3, <1>4, <1>5, <1>6, <1>7, <1>8
<1>12. Accounted(e, n)'
  BY <1>1, <1>7, <1>9, <1>10, <1>11 DEF Accounted, B
<1> QED BY <1>3, <1>6, <1>8, <1>12 DEF s

LEMMA ClaimAccounts ==
  ASSUME Tables, WorkerType, WorkerInv, NEW e \in Execs, NEW n \in Nodes, n = worker[e].node,
         Accounted(e, n), ClaimStage(e)
  PROVE  /\ Accounted(e, n)'
         /\ stage'[e][n].state \in ActiveState =>
              \/ stage'[e][n] = stage[e][n]
              \/ /\ worker'[e].pc \in Busy /\ worker'[e].node = n
                 /\ worker'[e].gen = stage'[e][n].gen
<1>1. worker[e] \in WorkerRow /\ worker[e].count = Len(attempts[e][n])
  BY DEF WorkerType, WorkerInv, PlaceAt, ClaimStage, At
<1>2. CASE UNCHANGED <<stage, attempts>>
  BY <1>2 DEF Accounted
<1>3. CASE /\ ~Exhausted(worker[e].count) /\ Claimable(e)
           /\ attempts' = [attempts EXCEPT ![e][n] = Append(@,
                   [state |-> "running", gen |-> worker[e].gen, settings |-> worker[e].settings])]
           /\ stage' = [stage EXCEPT ![e][n].state = "running", ![e][n].gen = worker[e].gen]
           /\ worker' = [worker EXCEPT ![e].pc = "claimed", ![e].count = Len(Attempts(e)) + 1]
  <2> DEFINE row == [state |-> "running", gen |-> worker[e].gen, settings |-> worker[e].settings]
             A == attempts[e][n]
             B == Append(A, row)
  <2>1. A \in Seq(AttemptRow) /\ stage[e][n] \in StageRow
    BY DEF Tables
  <2>2. attempts'[e][n] = B
    BY <1>3 DEF Tables
  <2>3. stage'[e][n].state = "running" /\ stage'[e][n].gen = worker[e].gen
    BY <1>3, <2>1 DEF Tables, StageRow
  <2>4. row \in AttemptRow /\ row.state = "running" /\ row.gen = worker[e].gen
    BY <1>1 DEF AttemptRow, AttemptState, ActiveState, WorkerRow
  <2> HIDE DEF row
  <2>5. /\ Len(B) = Len(A) + 1 /\ DOMAIN B = 1..(Len(A) + 1) /\ B[Len(A) + 1] = row
        /\ \A k \in 1..Len(A) : B[k] = A[k]
        /\ B # << >> /\ DOMAIN A = 1..Len(A) /\ Len(A) \in Nat
    <3> HIDE DEF A
    <3>1. Len(A) \in Nat /\ DOMAIN A = 1..Len(A)
      BY <2>1
    <3>2. B \in Seq(AttemptRow) /\ Len(B) = Len(A) + 1
      BY <2>1, <2>4
    <3>3. B[Len(A) + 1] = row /\ \A k \in 1..Len(A) : B[k] = A[k]
      BY <2>1, <2>4
    <3>4. DOMAIN B = 1..(Len(A) + 1)
      BY <3>2
    <3>5. B # << >>
      BY <3>1, <3>2
    <3> QED BY <3>1, <3>2, <3>3, <3>4, <3>5
  <2>6. Len(A) + 1 <= MaxAttempts
    <3>1. ~(Len(A) >= MaxAttempts)
      BY <1>1, <1>3 DEF Exhausted
    <3> QED BY <2>5, <3>1, CheckpointAssumption DEF CheckpointAssumption
  <2>7. stage[e][n].state \notin ActiveState /\ stage[e][n].state # "succeeded"
    BY <1>3 DEF Claimable, Current
  <2>8. \A k \in 1..Len(A) : A[k].state \notin ActiveState /\ A[k].state # "succeeded"
    BY <2>5, <2>7 DEF Accounted
  <2>9. \A k \in DOMAIN B : k # Len(B) => B[k].state \notin ActiveState /\ B[k].state # "succeeded"
    BY <2>5, <2>8, SMTT(30)
  <2> HIDE DEF A, B
  <2>10. Accounted(e, n)'
    BY <2>2, <2>3, <2>4, <2>5, <2>6, <2>9 DEF Accounted
  <2>11. worker'[e].pc = "claimed" /\ worker'[e].node = n /\ worker'[e].gen = worker[e].gen
    BY <1>1, <1>3 DEF WorkerType, WorkerRow
  <2> QED BY <2>3, <2>10, <2>11 DEF Busy
<1> QED BY <1>2, <1>3 DEF ClaimStage

LEMMA EnsureAccounts ==
  ASSUME Tables, WorkerType, NEW e \in Execs, NEW n \in Nodes, n = worker[e].node,
         Accounted(e, n), EnsureStage(e)
  PROVE  Accounted(e, n)' /\ (stage'[e][n].state \in ActiveState => stage' = stage)
<1>1. attempts' = attempts
  BY DEF EnsureStage
<1>2. CASE UNCHANGED stage
  BY <1>1, <1>2 DEF Accounted
<1>3. CASE stage' # stage
  <2> DEFINE row == [NoStage EXCEPT !.state = "pending", !.gen = worker[e].gen, !.up = worker[e].up]
  <2>1. stage' = [stage EXCEPT ![e][n] = row] /\ stage[e][n].state = "none"
    BY <1>3 DEF EnsureStage, Current
  <2>2. row.state = "pending"
    BY DEF NoStage
  <2> HIDE DEF row
  <2>3. stage'[e][n].state = "pending"
    BY <2>1, <2>2 DEF Tables
  <2> QED BY <1>1, <2>1, <2>3 DEF Accounted, ActiveState
<1> QED BY <1>2, <1>3

LEMMA ReuseAccounts ==
  ASSUME Tables, WorkerType, NEW e \in Execs, NEW n \in Nodes, n = worker[e].node,
         Accounted(e, n), ReuseCheckpoint(e)
  PROVE  Accounted(e, n)' /\ (stage'[e][n].state \in ActiveState => stage' = stage)
<1>1. attempts' = attempts
  BY DEF ReuseCheckpoint
<1>2. CASE UNCHANGED stage
  BY <1>1, <1>2 DEF Accounted
<1>3. ASSUME NEW c, Current(e).state \notin ActiveState,
             stage' = [stage EXCEPT ![e][worker[e].node] =
               [@ EXCEPT !.state = "succeeded", !.gen = worker[e].gen, !.ckpt = c]]
      PROVE  Accounted(e, n)' /\ stage'[e][n].state = "succeeded"
  <2>1. stage[e][n] \in StageRow
    BY DEF Tables
  <2>2. stage'[e][n].state = "succeeded" /\ stage[e][n].state \notin ActiveState
    BY <1>3, <2>1 DEF Tables, StageRow, Current
  <2> QED BY <1>1, <2>2 DEF Accounted, ActiveState
<1> QED BY <1>2, <1>3 DEF ReuseCheckpoint, ActiveState

LEMMA CommitAccounts ==
  ASSUME Tables, WorkerType, WorkerInv, NEW e \in Execs, NEW n \in Nodes, n = worker[e].node,
         Accounted(e, n), Commits(e)
  PROVE  Accounted(e, n)' /\ stage'[e][n].state = "succeeded"
<1>1. worker[e].count \in 1..Len(Attempts(e)) /\ worker[e].count = Len(attempts[e][n])
  BY CountInRange DEF Commits, At, WorkerInv, PlaceAt, Claimed
<1> DEFINE A == attempts[e][n]
           B == [A EXCEPT ![worker[e].count].state = "succeeded"]
<1>2. A \in Seq(AttemptRow) /\ stage[e][n] \in StageRow
  BY DEF Tables
<1>3. attempts'[e][n] = B
  BY DEF Commits, Selected, Tables
<1>4. stage'[e][n].state = "succeeded"
  BY <1>2 DEF Commits, Selected, Tables, StageRow
<1>5. /\ Len(B) = Len(A) /\ DOMAIN B = 1..Len(A)
      /\ B[Len(A)].state = "succeeded"
      /\ \A j \in 1..Len(A) : j # Len(A) => B[j] = A[j]
  <2>1. worker[e].count \in 1..Len(A) /\ "succeeded" \in AttemptState
    BY <1>1 DEF Attempts, AttemptState
  <2> QED BY <1>1, <1>2, <2>1, AttemptMarked
<1>6. DOMAIN A = 1..Len(A)
  BY <1>2
<1> HIDE DEF A, B
<1>7. /\ \A k \in DOMAIN A : k # Len(A) => A[k].state \notin ActiveState /\ A[k].state # "succeeded"
      /\ Len(A) <= MaxAttempts
  BY DEF Accounted, A
<1> QED BY <1>3, <1>4, <1>5, <1>6, <1>7, ZenonT(60) DEF Accounted, ActiveState

LEMMA AccountParts ==
  AttemptsAddUp /\ (\A e \in Execs, n \in Nodes : \A k \in DOMAIN attempts[e][n] :
                      attempts[e][n][k].state = "succeeded" => stage[e][n].state = "succeeded")
    <=> SlotIsReturned /\ \A e \in Execs, n \in Nodes : Accounted(e, n) /\ Attended(e, n)
BY DEF AttemptsAddUp, NoOrphanedStage, BudgetHolds, Accounted, Attended

\* What a step does to the stage its worker is on, it does to no other.
LEMMA StepTouches ==
  ASSUME Tables, WorkerType, NEW e \in Execs, NEW n \in Nodes, n # worker[e].node,
         \/ Marks(e) \/ EnsureStage(e) \/ ReuseCheckpoint(e) \/ ClaimStage(e) \/ Commits(e)
  PROVE  stage'[e][n] = stage[e][n] /\ attempts'[e][n] = attempts[e][n]
<1>1. CASE UNCHANGED <<stage, attempts>>
  BY <1>1
<1>2. CASE Marks(e)
  <2>1. PICK s \in MarkStates :
          /\ stage' = [stage EXCEPT ![e][worker[e].node].state = s]
          /\ attempts' = [attempts EXCEPT ![e][worker[e].node][worker[e].count].state = s]
    BY <1>2 DEF Marks, Mark
  <2> QED BY <2>1 DEF Tables
<1>3. CASE EnsureStage(e) \/ ReuseCheckpoint(e)
  <2>1. attempts' = attempts
    BY <1>3 DEF EnsureStage, ReuseCheckpoint
  <2>2. stage' = stage \/ \E row : stage' = [stage EXCEPT ![e][worker[e].node] = row]
    <3>1. CASE EnsureStage(e)
      BY <3>1 DEF EnsureStage
    <3>2. CASE ReuseCheckpoint(e)
      BY <3>2 DEF ReuseCheckpoint
    <3> QED BY <1>3, <3>1, <3>2
  <2>3. ASSUME NEW row, stage' = [stage EXCEPT ![e][worker[e].node] = row]
        PROVE  stage'[e][n] = stage[e][n]
    BY <2>3 DEF Tables
  <2> QED BY <2>1, <2>2, <2>3
<1>4. CASE ClaimStage(e)
  BY <1>4 DEF ClaimStage, Tables
<1>5. CASE Commits(e)
  BY <1>5 DEF Commits, Selected, Tables
<1> QED BY <1>2, <1>3, <1>4, <1>5

\* A step takes the tables of at most one execution further.
LEMMA OthersKept ==
  ASSUME Tables, NEW e \in Execs, NEW f \in Execs, f # e,
         \/ Marks(e) \/ Publish(e) \/ EnsureStage(e) \/ ReuseCheckpoint(e) \/ ClaimStage(e)
         \/ Commits(e)
  PROVE  stage'[f] = stage[f] /\ attempts'[f] = attempts[f]
<1>1. CASE UNCHANGED <<stage, attempts>>
  BY <1>1
<1>2. CASE Marks(e) \/ Commits(e)
  BY <1>2 DEF Marks, Mark, Commits, Selected, Tables
<1>3. CASE EnsureStage(e) \/ ReuseCheckpoint(e)
  BY <1>3 DEF EnsureStage, ReuseCheckpoint, Tables
<1>4. CASE Publish(e) \/ ClaimStage(e)
  BY <1>4 DEF Publish, ClaimStage, Tables
<1> QED BY <1>2, <1>3, <1>4

LEMMA AccountedInductive ==
  ASSUME IInv, [Next]_vars, NEW f \in Execs, NEW n \in Nodes
  PROVE  Accounted(f, n)'
<1>1. TypeOK /\ Tables /\ WorkerType /\ WorkerInv /\ Accounted(f, n)
  BY AccountParts DEF IInv, TypeOK, Tables, WorkerType, AccountInv
<1>2. CASE stage'[f][n] = stage[f][n] /\ attempts'[f][n] = attempts[f][n]
  BY <1>1, <1>2 DEF Accounted
<1>3. CASE UNCHANGED vars
  BY <1>2, <1>3 DEF vars, database
<1>4. CASE RecoverExecutions
  <2>1. stage'[f] = EndedStages(f, Abandoned(f)) /\ attempts'[f] = EndedAttempts(f, Abandoned(f))
    BY <1>4 DEF RecoverExecutions
  <2> QED BY <1>1, <2>1, EndingAccounts
<1>5. CASE DeleteRows
  <2>1. CASE RecOf[f] = deletion.rec
    <3>1. stage'[f][n] = NoStage /\ attempts'[f][n] = << >>
      BY <1>5, <2>1 DEF DeleteRows
    <3>2. NoStage.state = "none" /\ Len(<< >>) = 0 /\ DOMAIN << >> = {} /\ 0 <= MaxAttempts
      BY CheckpointAssumption DEF CheckpointAssumption, NoStage
    <3> QED BY <3>1, <3>2 DEF Accounted, ActiveState
  <2> QED BY <1>2, <1>5, <2>1 DEF DeleteRows
<1>6. ASSUME NEW e \in Execs,
             \/ Marks(e) \/ Publish(e) \/ EnsureStage(e)
             \/ ReuseCheckpoint(e) \/ ClaimStage(e) \/ Commits(e)
      PROVE  Accounted(f, n)'
  <2>1. CASE f # e
    BY <1>1, <1>2, <1>6, <2>1, OthersKept
  <2>2. CASE f = e /\ Publish(e)
    <3>1. \/ UNCHANGED <<stage, attempts>>
          \/ /\ stage' = [stage EXCEPT ![e] = EndedStages(e, {worker[e].gen})]
             /\ attempts' = [attempts EXCEPT ![e] = EndedAttempts(e, {worker[e].gen})]
      BY <2>2 DEF Publish
    <3>2. \/ UNCHANGED <<stage, attempts>>
          \/ /\ stage'[e] = EndedStages(e, {worker[e].gen})
             /\ attempts'[e] = EndedAttempts(e, {worker[e].gen})
      BY <1>1, <3>1 DEF Tables
    <3> QED BY <1>1, <1>2, <2>2, <3>2, EndingAccounts
  <2>3. CASE f = e /\ n # worker[e].node /\ ~Publish(e)
    BY <1>1, <1>2, <1>6, <2>3, StepTouches
  <2>4. CASE f = e /\ n = worker[e].node
    BY <1>1, <1>6, <2>2, <2>4, MarkAccounts, EnsureAccounts, ReuseAccounts, ClaimAccounts,
       CommitAccounts
  <2> QED BY <2>1, <2>2, <2>3, <2>4
<1> QED BY <1>2, <1>3, <1>4, <1>5, <1>6, TableSteps

\* Failures are counted and never forgotten, and a lifecycle that has ended in
\* failure goes on only through a resume.
LEMMA FaultsGrow ==
  ASSUME TypeOK, [Next]_vars
  PROVE  faults' \in Nat /\ faults <= faults'
<1>1. faults \in Nat /\ (WriteFails => faults' \in Nat /\ faults <= faults')
  BY DEF TypeOK, WriteFails
<1>2. ASSUME NEW e \in Execs, Step(e) PROVE UNCHANGED faults \/ WriteFails
  <2>1. CASE BeginExecution(e) \/ ResumeExecution(e) \/ CancelExecution(e) \/ PassDeadline(e)
             \/ CancelContext(e)
    BY <2>1 DEF BeginExecution, ResumeExecution, CancelExecution, PassDeadline, CancelContext,
       Start, environment
  <2>2. CASE Publish(e) \/ EnsureStage(e) \/ ReuseCheckpoint(e) \/ ClaimStage(e) \/ AwaitCapacity(e)
             \/ AcquireGPUStage(e) \/ AdapterReturns(e) \/ StartAttempt(e)
    BY <2>2 DEF Publish, EnsureStage, ReuseCheckpoint, ClaimStage, AwaitCapacity, AcquireGPUStage,
       AdapterReturns, StartAttempt
  <2>3. CASE StopWaiting(e) \/ AttemptFailed(e) \/ RenameCheckpoint(e) \/ CommittedBefore(e)
             \/ RefuseCheckpoint(e) \/ QuotaReached(e) \/ CommitCheckpoint(e)
    BY <2>3 DEF StopWaiting, AttemptFailed, RenameCheckpoint, CommittedBefore, RefuseCheckpoint,
       QuotaReached, CommitCheckpoint, FailAttempt, database
  <2> QED BY <1>2, <2>1, <2>2, <2>3 DEF Step
<1>3. ASSUME NEW r \in Recs, RequestDeletion(r) \/ RetryDeletion(r) PROVE UNCHANGED faults
  BY <1>3 DEF RequestDeletion, RetryDeletion, StartDeletion
<1>4. CASE RemoveFiles \/ DeleteRows \/ DeleteJob \/ Crash \/ Shutdown \/ ShutdownEnds
           \/ RecoverExecutions \/ Collect
  <2>1. UNCHANGED faults \/ WriteFails
    BY <1>4 DEF RemoveFiles, DeleteRows, DeleteJob, Crash, Shutdown, ShutdownEnds, ProcessGone,
       RecoverExecutions, Collect
  <2> QED BY <1>1, <2>1
<1>5. CASE UNCHANGED vars
  BY <1>1, <1>5 DEF vars
<1> QED BY <1>1, <1>2, <1>3, <1>4, <1>5 DEF Next

\* An active stage was active before, or has just been claimed.
LEMMA ActiveBefore ==
  ASSUME IInv, NEW e \in Execs, Step(e), NEW n \in Nodes, stage'[e][n].state \in ActiveState
  PROVE  \/ stage[e][n].state \in ActiveState /\ stage'[e][n].gen = stage[e][n].gen
         \/ ClaimStage(e) /\ n = worker[e].node
<1>1. Tables /\ WorkerType /\ WorkerInv /\ Accounted(e, n)
  BY AccountParts DEF IInv, TypeOK, Tables, WorkerType, AccountInv
<1>2. CASE stage'[e][n] = stage[e][n]
  BY <1>2
<1>3. CASE Publish(e)
  <2>1. \/ UNCHANGED <<stage, attempts>>
        \/ /\ stage' = [stage EXCEPT ![e] = EndedStages(e, {worker[e].gen})]
           /\ attempts' = [attempts EXCEPT ![e] = EndedAttempts(e, {worker[e].gen})]
    BY <1>3 DEF Publish
  <2>2. \/ UNCHANGED <<stage, attempts>>
        \/ /\ stage'[e] = EndedStages(e, {worker[e].gen})
           /\ attempts'[e] = EndedAttempts(e, {worker[e].gen})
    BY <1>1, <2>1 DEF Tables
  <2> QED BY <1>1, <2>2, EndingAccounts
<1>4. CASE n # worker[e].node /\ (\/ Marks(e) \/ EnsureStage(e) \/ ReuseCheckpoint(e)
                                  \/ ClaimStage(e) \/ Commits(e))
  BY <1>1, <1>2, <1>4, StepTouches
<1>5. CASE n = worker[e].node /\ Marks(e)
  <2>1. PICK s \in MarkStates : Mark(e, s)
    BY <1>5 DEF Marks
  <2>2. worker[e].count \in 1..Len(Attempts(e)) /\ s \in AttemptState
    BY <1>1, <1>5, CountInRange DEF Marks, MarkStates, AttemptState, ActiveState
  <2>3. stage[e][n] \in StageRow /\ n = worker[e].node
    BY <1>1, <1>5 DEF Tables
  <2>4. stage'[e][worker[e].node] = [stage[e][worker[e].node] EXCEPT !.state = s]
    BY <1>1, <2>1, <2>2, MarkEffect
  <2>5. stage'[e][n].gen = stage[e][n].gen
    BY <2>3, <2>4 DEF StageRow
  <2> QED BY <1>5, <2>5 DEF Marks, BothIn, Current
<1>6. CASE n = worker[e].node /\ (EnsureStage(e) \/ ReuseCheckpoint(e) \/ Commits(e))
  BY <1>1, <1>2, <1>6, EnsureAccounts, ReuseAccounts, CommitAccounts DEF ActiveState
<1>7. \/ UNCHANGED <<stage, attempts>>
      \/ Marks(e) \/ Publish(e) \/ EnsureStage(e) \/ ReuseCheckpoint(e) \/ ClaimStage(e) \/ Commits(e)
  BY StepEffect
<1> QED BY <1>2, <1>3, <1>4, <1>5, <1>6, <1>7

\* A worker on its stage either stays on it or its stage has ended.
LEMMA StaysOnIt ==
  ASSUME IInv, NEW e \in Execs, Step(e), NEW n \in Nodes, worker[e].node = n,
         worker[e].pc \in Busy, worker[e].gen = stage[e][n].gen, phase \in {"up", "draining"},
         stage[e][n].state \in ActiveState, stage'[e][n].state \in ActiveState
  PROVE  \/ /\ worker'[e].pc \in Busy /\ worker'[e].node = n
            /\ worker'[e].gen = worker[e].gen
         \/ faults' > 0 /\ exec'[e].status \in {"failed", "cancelled"}
<1>1. /\ TypeOK /\ Tables /\ WorkerType /\ WorkerInv /\ Accounted(e, n) /\ StoreInv /\ ChainInv
      /\ worker[e] \in WorkerRow /\ OwnerAt(e) /\ PlaceAt(e) /\ exec[e] \in ExecRow
  BY AccountParts DEF IInv, TypeOK, Tables, WorkerType, AccountInv, WorkerInv
<1> DEFINE On == worker'[e].pc \in Busy /\ worker'[e].node = n /\ worker'[e].gen = worker[e].gen
<1>2. CASE CancelExecution(e) \/ PassDeadline(e) \/ CancelContext(e)
  BY <1>1, <1>2 DEF CancelExecution, PassDeadline, CancelContext, WorkerType, WorkerRow
<1>3. ~(BeginExecution(e) \/ ResumeExecution(e) \/ EnsureStage(e) \/ ReuseCheckpoint(e))
  BY DEF BeginExecution, ResumeExecution, Startable, Workerless, At, EnsureStage, ReuseCheckpoint,
     Busy
<1>4. CASE Publish(e)
  <2>1. stage' # [stage EXCEPT ![e] = EndedStages(e, {worker[e].gen})]
    <3> SUFFICES ASSUME stage' = [stage EXCEPT ![e] = EndedStages(e, {worker[e].gen})] PROVE FALSE
      OBVIOUS
    <3>1. stage'[e][n] = Ended(stage[e][n], {worker[e].gen}) /\ stage[e][n] \in StageRow
      BY <1>1, EndedEffect DEF Tables
    <3>2. stage'[e][n].state = "ended"
      BY <3>1 DEF Ended, StageRow
    <3> QED BY <3>2 DEF ActiveState
  <2>2. worker[e].pc = "closing" => worker[e].result # "ok"
    BY <1>1 DEF PlaceAt
  <2>3. WriteFails /\ worker[e].result = "error"
    BY <1>1, <1>4, <2>1, <2>2 DEF Publish, At, WorkerRow
  <2>4. faults' > 0
    BY <1>1, <2>3 DEF WriteFails, TypeOK
  <2>5. exec'[e].status \in {"failed", "cancelled"}
    <3>1. CASE exec' = [exec EXCEPT ![e].status = "cancelled", ![e].gen = @ + 1]
      BY <1>1, <3>1 DEF TypeOK, ExecRow
    <3>2. CASE exec' = exec /\ exec[e].status = "cancelled"
      BY <3>2
    <3>3. CASE exec' = IF ~(exec[e].gen = worker[e].gen /\ exec[e].status = "running") THEN exec
                       ELSE [exec EXCEPT ![e].status = "failed"]
      BY <1>1, <1>4, <3>3 DEF OwnerAt, TypeOK, ExecRow, Publish, At
    <3> QED BY <1>4, <2>3, <3>1, <3>2, <3>3 DEF Publish
  <2> QED BY <2>4, <2>5
<1>5. ASSUME NEW pc \in Busy, Goto(e, pc) PROVE On
  BY <1>1, <1>5 DEF Goto, WorkerType, WorkerRow
<1>6. ASSUME GiveUp(e) PROVE On
  <2>1. worker'[e].pc = "closing" /\ worker'[e].node = n /\ worker'[e].gen = worker[e].gen
    BY <1>1, <1>6 DEF GiveUp, WorkerType, WorkerRow
  <2> QED BY <2>1 DEF Busy
<1>7. ASSUME NEW pc \in Busy, NEW k, NEW s, NEW r,
             \/ worker' = [worker EXCEPT ![e].pc = pc, ![e].count = k]
             \/ worker' = [worker EXCEPT ![e].pc = pc, ![e].settings = s]
             \/ worker' = [worker EXCEPT ![e].pc = pc, ![e].try = 1, ![e].result = r]
             \/ worker' = [worker EXCEPT ![e].pc = pc, ![e].try = @ + 1]
      PROVE  On
  BY <1>1, <1>7 DEF WorkerType, WorkerRow
<1>8. /\ "claimed" \in Busy /\ "waiting" \in Busy /\ "admitted" \in Busy /\ "running" \in Busy
      /\ "returned" \in Busy /\ "renamed" \in Busy /\ "invoking" \in Busy
  BY DEF Busy
<1> HIDE DEF On
<1>9. CASE ClaimStage(e) \/ AwaitCapacity(e) \/ AcquireGPUStage(e)
  BY <1>5, <1>6, <1>7, <1>8, <1>9 DEF ClaimStage, AwaitCapacity, AcquireGPUStage, On
<1>10. CASE StopWaiting(e) \/ StartAttempt(e) \/ AdapterReturns(e) \/ AttemptFailed(e)
  BY <1>5, <1>6, <1>7, <1>8, <1>10 DEF StopWaiting, StartAttempt, AdapterReturns, AttemptFailed, On
<1>11. CASE RenameCheckpoint(e) \/ RefuseCheckpoint(e) \/ QuotaReached(e)
  BY <1>5, <1>6, <1>7, <1>8, <1>11 DEF RenameCheckpoint, RefuseCheckpoint, QuotaReached,
     PersistFailed, On
<1>12. ~CommittedBefore(e)
  <2> SUFFICES ASSUME CommittedBefore(e) PROVE FALSE
    OBVIOUS
  <2>1. PICK c \in rows : c.exec = e /\ c.node = n
    BY DEF CommittedBefore, Existing
  <2>2. stage[e][n].ckpt = c /\ c # None
    BY <1>1, <2>1, IdAssumption DEF StoreInv, TypeOK
  <2>3. stage[e][n].state = "succeeded"
    BY <1>1, <2>2 DEF ChainInv, ChainAt, Holds
  <2> QED BY <2>3 DEF ActiveState
<1>13. CASE CommitCheckpoint(e)
  <2>1. ~(StillOwned(e) /\ Selected(e))
    BY <1>1, <1>13, CommitAccounts DEF CommitCheckpoint, Commits, ActiveState
  <2> QED BY <1>5, <1>6, <1>7, <1>8, <1>13, <2>1 DEF CommitCheckpoint, PersistFailed, On
<1> QED BY <1>2, <1>3, <1>4, <1>9, <1>10, <1>11, <1>12, <1>13 DEF Step, On

\* A run that was attended to only by the record of a failed write stays so.
LEMMA StaysRecorded ==
  ASSUME IInv, NEW e \in Execs, Step(e), NEW n \in Nodes, stage[e][n].state \in ActiveState,
         exec[e].status \in {"failed", "cancelled"}
  PROVE  exec'[e].status \in {"failed", "cancelled"}
<1>1. TypeOK /\ exec[e] \in ExecRow
  BY DEF IInv, TypeOK
<1>2. ~(BeginExecution(e) \/ ResumeExecution(e) \/ CancelExecution(e))
  BY DEF BeginExecution, ResumeExecution, CancelExecution, ResumableStages
<1>3. CASE PassDeadline(e)
  BY <1>1, <1>3 DEF PassDeadline, TypeOK, ExecRow
<1>4. CASE Publish(e)
  <2>1. exec' = exec \/ exec' = [exec EXCEPT ![e].status = "cancelled", ![e].gen = @ + 1]
    BY <1>4 DEF Publish
  <2> QED BY <1>1, <2>1 DEF TypeOK, ExecRow
<1>5. CASE exec' = exec
  BY <1>5
<1> QED BY <1>2, <1>3, <1>4, <1>5 DEF Step, CancelContext, EnsureStage, ReuseCheckpoint, ClaimStage,
       AwaitCapacity, AcquireGPUStage, StopWaiting, StartAttempt, AdapterReturns, AttemptFailed,
       RenameCheckpoint, CommittedBefore, RefuseCheckpoint, QuotaReached, CommitCheckpoint, outside,
       database

LEMMA AttendedInductive ==
  ASSUME IInv, [Next]_vars, NEW f \in Execs, NEW n \in Nodes
  PROVE  Attended(f, n)'
<1>1. /\ TypeOK /\ Tables /\ WorkerType /\ WorkerInv /\ Accounted(f, n) /\ Attended(f, n)
      /\ faults \in Nat /\ faults' \in Nat /\ faults <= faults' /\ DeletionInv
  BY AccountParts, FaultsGrow DEF IInv, TypeOK, Tables, WorkerType, AccountInv
<1> SUFFICES ASSUME stage'[f][n].state \in ActiveState, phase' \in {"up", "draining"}
             PROVE  \/ /\ worker'[f].pc \in Busy /\ worker'[f].node = n
                       /\ worker'[f].gen = stage'[f][n].gen
                    \/ faults' > 0 /\ exec'[f].status \in {"failed", "cancelled"}
  BY DEF Attended
<1>2. ASSUME stage'[f][n] = stage[f][n], worker'[f] = worker[f], exec'[f] = exec[f],
             phase \in {"up", "draining"}
      PROVE  \/ /\ worker'[f].pc \in Busy /\ worker'[f].node = n
                /\ worker'[f].gen = stage'[f][n].gen
             \/ faults' > 0 /\ exec'[f].status \in {"failed", "cancelled"}
  BY <1>1, <1>2 DEF Attended
<1>3. ASSUME NEW e \in Execs, Step(e)
      PROVE  \/ /\ worker'[f].pc \in Busy /\ worker'[f].node = n
                /\ worker'[f].gen = stage'[f][n].gen
             \/ faults' > 0 /\ exec'[f].status \in {"failed", "cancelled"}
  <2>0. phase \in {"up", "draining"}
    BY <1>3, StepSurroundings
  <2>1. CASE f # e
    BY <1>1, <1>2, <1>3, <2>0, <2>1, StepFrame
  <2>2. CASE f = e /\ ClaimStage(e) /\ n = worker[e].node
    <3>1. \/ stage'[e][n] = stage[e][n]
          \/ worker'[e].pc \in Busy /\ worker'[e].node = n /\ worker'[e].gen = stage'[e][n].gen
      BY <1>1, <2>2, ClaimAccounts
    <3>2. stage'[e][n] = stage[e][n] => stage[e][n].state \in ActiveState
      BY <2>2
    <3>3. CASE /\ worker[e].pc \in Busy /\ worker[e].gen = stage[e][n].gen
               /\ stage'[e][n] = stage[e][n]
      <4>1. worker[e].node = n /\ stage[e][n].state \in ActiveState /\ stage'[e][n].state \in ActiveState
        BY <2>2, <3>3
      <4>2. \/ worker'[e].pc \in Busy /\ worker'[e].node = n /\ worker'[e].gen = worker[e].gen
            \/ faults' > 0 /\ exec'[e].status \in {"failed", "cancelled"}
        BY <1>3, <2>0, <3>3, <4>1, StaysOnIt
      <4> QED BY <2>2, <3>3, <4>2
    <3>4. CASE /\ faults > 0 /\ exec[e].status \in {"failed", "cancelled"}
               /\ stage'[e][n] = stage[e][n]
      BY <1>1, <1>3, <2>2, <3>2, <3>4, StaysRecorded
    <3> QED BY <1>1, <2>0, <2>2, <3>1, <3>2, <3>3, <3>4 DEF Attended
  <2>3. CASE f = e /\ stage[e][n].state \in ActiveState /\ stage'[e][n].gen = stage[e][n].gen
    <3>1. CASE worker[e].pc \in Busy /\ worker[e].node = n /\ worker[e].gen = stage[e][n].gen
      BY <1>3, <2>0, <2>3, <3>1, StaysOnIt
    <3>2. CASE faults > 0 /\ exec[e].status \in {"failed", "cancelled"}
      BY <1>1, <1>3, <2>3, <3>2, StaysRecorded
    <3> QED BY <1>1, <2>0, <2>3, <3>1, <3>2 DEF Attended
  <2> QED BY <1>3, <2>1, <2>2, <2>3, ActiveBefore
<1>4. ASSUME NEW r \in Recs, RequestDeletion(r) \/ RetryDeletion(r)
      PROVE  UNCHANGED <<stage, worker, exec, phase>>
  BY <1>4 DEF RequestDeletion, RetryDeletion, StartDeletion
<1>5. CASE RemoveFiles
  <2>1. phase = phase' /\ UNCHANGED <<stage, worker, exec>>
    BY <1>5 DEF RemoveFiles, database
  <2> QED BY <1>2, <2>1
<1>6. CASE DeleteRows
  <2>1. UNCHANGED <<worker, exec, phase>>
    BY <1>6 DEF DeleteRows
  <2>2. stage'[f][n] = stage[f][n]
    BY <1>6 DEF DeleteRows, NoStage, ActiveState
  <2> QED BY <1>2, <2>1, <2>2
<1>7. CASE DeleteJob
  <2>1. UNCHANGED <<worker, stage, phase>>
    BY <1>7 DEF DeleteJob
  <2>2. RecOf[f] # deletion.rec
    <3> SUFFICES ASSUME RecOf[f] = deletion.rec PROVE FALSE
      OBVIOUS
    <3>1. tomb[deletion.rec] = "completed" /\ deletion.rec \in Recs
      BY <1>1, <1>7 DEF DeleteJob, DeletionInv
    <3>2. stage[f][n] = NoStage
      BY <1>1, <3>1 DEF DeletionInv, DeletionIsComplete
    <3> QED BY <2>1, <3>2 DEF NoStage, ActiveState
  <2>3. exec'[f] = exec[f]
    BY <1>7, <2>2 DEF DeleteJob
  <2> QED BY <1>2, <2>1, <2>3
<1>8. ~(Crash \/ ShutdownEnds \/ RecoverExecutions)
  BY DEF Crash, ShutdownEnds, ProcessGone, RecoverExecutions
<1>9. CASE Shutdown
  BY <1>2, <1>9 DEF Shutdown, database
<1>10. ~Collect
  BY DEF Collect, IInv, AccountInv
<1>11. CASE UNCHANGED vars
  BY <1>2, <1>11 DEF vars, database
<1> QED BY <1>2, <1>3, <1>4, <1>5, <1>6, <1>7, <1>8, <1>9, <1>10, <1>11 DEF Next

\* The slot changes hands only where it is asked for or returned.
LEMMA SlotInductive ==
  ASSUME IInv, [Next]_vars
  PROVE  SlotIsReturned'
<1> DEFINE Holding(e) == worker[e].pc \in {"admitted", "running"}
<1>1. /\ TypeOK /\ Tables /\ WorkerType /\ WorkerInv /\ Free \notin Execs
      /\ slot \in Execs => Holding(slot)
  BY AccountParts, CheckpointAssumption DEF IInv, TypeOK, Tables, WorkerType, AccountInv,
     SlotIsReturned, AttemptsAddUp, CheckpointAssumption
<1> SUFFICES ASSUME slot' \in Execs PROVE worker'[slot'].pc \in {"admitted", "running"}
  BY DEF SlotIsReturned
<1>2. CASE UNCHANGED <<worker, slot>>
  BY <1>1, <1>2
<1>3. ASSUME NEW e \in Execs, Step(e) PROVE worker'[slot'].pc \in {"admitted", "running"}
  <2>1. CASE slot' # e
    <3>1. slot' = slot
      <4>1. CASE \/ AcquireGPUStage(e) \/ StopWaiting(e) \/ StartAttempt(e) \/ AdapterReturns(e)
        BY <1>1, <2>1, <4>1 DEF AcquireGPUStage, StopWaiting, StartAttempt, AdapterReturns, Release,
           ReleaseRefused
      <4> QED BY <1>3, <4>1 DEF Step, BeginExecution, ResumeExecution, CancelExecution,
                 PassDeadline, CancelContext, Start, environment, Publish, EnsureStage,
                 ReuseCheckpoint, ClaimStage, AwaitCapacity, AttemptFailed, RenameCheckpoint,
                 CommittedBefore, RefuseCheckpoint, QuotaReached, CommitCheckpoint
    <3> QED BY <1>1, <1>3, <2>1, <3>1, StepFrame
  <2>2. CASE slot' = e
    <3>1. CASE AcquireGPUStage(e)
      BY <1>1, <2>2, <3>1 DEF AcquireGPUStage, Goto, WorkerType, WorkerRow
    <3>2. CASE ~AcquireGPUStage(e)
      <4>1. slot = e /\ ~StopWaiting(e) /\ ~AdapterReturns(e)
        BY <1>1, <1>3, <2>2, <3>2 DEF Step, BeginExecution, ResumeExecution, CancelExecution,
           PassDeadline, CancelContext, Start, environment, Publish, EnsureStage, ReuseCheckpoint,
           ClaimStage, AwaitCapacity, StopWaiting, StartAttempt, AdapterReturns, AttemptFailed,
           RenameCheckpoint, CommittedBefore, RefuseCheckpoint, QuotaReached, CommitCheckpoint,
           Release, ReleaseRefused
      <4>2. worker[e].pc \in {"admitted", "running"}
        BY <1>1, <4>1
      <4>3. CASE CancelExecution(e) \/ PassDeadline(e) \/ CancelContext(e)
        BY <1>1, <2>2, <4>2, <4>3 DEF CancelExecution, PassDeadline, CancelContext, WorkerType,
           WorkerRow
      <4>4. CASE StartAttempt(e)
        <5>1. Goto(e, "running")
          BY <1>1, <2>2, <4>4 DEF StartAttempt, ReleaseRefused, Release
        <5> QED BY <1>1, <2>2, <5>1 DEF Goto, WorkerType, WorkerRow
      <4> QED BY <1>3, <3>2, <4>1, <4>2, <4>3, <4>4 DEF Step, BeginExecution, ResumeExecution,
                 Startable, Workerless, Publish, EnsureStage, ReuseCheckpoint, ClaimStage,
                 AwaitCapacity, AttemptFailed, RenameCheckpoint, CommittedBefore, RefuseCheckpoint,
                 QuotaReached, CommitCheckpoint, Persisting, At
    <3> QED BY <3>1, <3>2
  <2> QED BY <2>1, <2>2
<1>4. ASSUME NEW r \in Recs, RequestDeletion(r) \/ RetryDeletion(r) PROVE UNCHANGED <<worker, slot>>
  BY <1>4 DEF RequestDeletion, RetryDeletion, StartDeletion
<1>5. CASE RemoveFiles \/ DeleteRows \/ DeleteJob \/ Shutdown \/ RecoverExecutions \/ Collect
  BY <1>2, <1>5 DEF RemoveFiles, DeleteRows, DeleteJob, Shutdown, RecoverExecutions, Collect
<1>6. ~(Crash \/ ShutdownEnds)
  BY <1>1 DEF Crash, ShutdownEnds, ProcessGone
<1> QED BY <1>2, <1>3, <1>4, <1>5, <1>6 DEF Next, vars

\* Only the deletion of its recording makes an execution one that never was.
LEMMA StatusSteps ==
  ASSUME TypeOK, [Next]_vars, NEW e \in Execs, exec'[e].status \in {"none", "deleted"}
  PROVE  exec[e].status \in {"none", "deleted"} \/ (DeleteJob /\ RecOf[e] = deletion.rec)
<1>1. exec[e] \in ExecRow
  BY DEF TypeOK
<1>2. CASE exec'[e] = exec[e]
  BY <1>2
<1>3. ASSUME NEW f \in Execs, Step(f) PROVE exec'[e] = exec[e] \/ exec[e].status \in {"none", "deleted"}
  <2>1. ASSUME NEW s \in {"running", "cancelled", "failed", "completed"}, NEW gen,
               \/ exec' = [exec EXCEPT ![f].status = s, ![f].gen = gen]
               \/ exec' = [exec EXCEPT ![f].status = s]
               \/ exec' = [exec EXCEPT ![f].late = TRUE]
        PROVE  exec'[e] = exec[e] \/ exec'[e].status = s \/ exec'[e].status = exec[e].status
    BY <1>1, <2>1 DEF TypeOK, ExecRow
  <2>2. CASE BeginExecution(f) \/ ResumeExecution(f)
    BY <2>1, <2>2 DEF BeginExecution, ResumeExecution, Start
  <2>3. CASE CancelExecution(f) \/ PassDeadline(f)
    BY <2>1, <2>3 DEF CancelExecution, PassDeadline
  <2>4. CASE Publish(f)
    BY <2>1, <2>4 DEF Publish
  <2> QED BY <1>3, <2>2, <2>3, <2>4 DEF Step, CancelContext, EnsureStage, ReuseCheckpoint,
       ClaimStage, AwaitCapacity, AcquireGPUStage, StopWaiting, StartAttempt, AdapterReturns,
       AttemptFailed, RenameCheckpoint, CommittedBefore, RefuseCheckpoint, QuotaReached,
       CommitCheckpoint, outside, database
<1>4. ASSUME NEW r \in Recs, RequestDeletion(r) \/ RetryDeletion(r) PROVE exec' = exec
  BY <1>4 DEF RequestDeletion, RetryDeletion, StartDeletion
<1>5. CASE RemoveFiles \/ DeleteRows \/ Crash \/ Shutdown \/ ShutdownEnds \/ Collect \/ UNCHANGED vars
  BY <1>2, <1>5 DEF RemoveFiles, DeleteRows, Crash, Shutdown, ShutdownEnds, ProcessGone, Collect, vars,
     database
<1>6. CASE RecoverExecutions
  <2>1. exec[e].status # "running"
    BY <1>1, <1>6 DEF RecoverExecutions, ExecRow
  <2> QED BY <1>2, <1>6, <2>1 DEF RecoverExecutions
<1>7. CASE DeleteJob /\ RecOf[e] # deletion.rec
  BY <1>2, <1>7 DEF DeleteJob
<1> QED BY <1>2, <1>3, <1>4, <1>5, <1>6, <1>7 DEF Next

LEMMA UndoneInductive ==
  ASSUME IInv, [Next]_vars, NEW e \in Execs, NEW n \in Nodes,
         exec'[e].status \in {"none", "deleted"}
  PROVE  stage'[e][n].state = "none"
<1>1. TypeOK /\ DeletionInv /\ (exec[e].status \in {"none", "deleted"} => stage[e][n].state = "none")
  BY DEF IInv, AccountInv
<1>2. CASE DeleteJob /\ RecOf[e] = deletion.rec
  <2>1. tomb[RecOf[e]] = "completed" /\ RecOf[e] \in Recs
    BY <1>1, <1>2 DEF DeleteJob, DeletionInv
  <2>2. stage[e][n] = NoStage
    BY <1>1, <2>1 DEF DeletionInv, DeletionIsComplete
  <2> QED BY <1>2, <2>2 DEF DeleteJob, NoStage
<1>3. CASE exec[e].status \in {"none", "deleted"}
  <2>1. stage[e][n].state = "none"
    BY <1>1, <1>3
  <2>2. CASE StagesKept
    BY <2>1, <2>2 DEF StagesKept, Alike
  <2>3. ASSUME NEW f \in Execs, NEW c \in Id, Begins(f) \/ Gains(f, c) PROVE stage'[e][n] = stage[e][n]
    BY <1>3, <2>3 DEF Begins, Gains, Fence, OtherStages
  <2>4. ASSUME NEW r \in Recs, Erases(r) PROVE stage'[e][n].state = "none"
    BY <2>1, <2>4 DEF Erases, NoStage
  <2>5. \A f \in Execs : Begins(f) => stage'[e][n] = stage[e][n]
    BY <1>3 DEF Begins, Fence, OtherStages
  <2> QED BY <2>1, <2>2, <2>3, <2>4, <2>5, ChainSteps
<1> QED BY <1>1, <1>2, <1>3, StatusSteps

\* Nothing is active while startup recovers, and nothing becomes so.
LEMMA RecoveringInductive ==
  ASSUME IInv, [Next]_vars, phase' = "recovering", NEW e \in Execs, NEW n \in Nodes
  PROVE  stage'[e][n].state \notin ActiveState
<1>1. /\ TypeOK /\ Tables /\ WorkerType /\ WorkerInv /\ Accounted(e, n)
      /\ phase = "recovering" => stage[e][n].state \notin ActiveState
  BY AccountParts DEF IInv, AccountInv, TypeOK, Tables, WorkerType
<1>2. CASE RecoverExecutions
  <2>1. stage'[e] = EndedStages(e, Abandoned(e)) /\ attempts'[e] = EndedAttempts(e, Abandoned(e))
    BY <1>2 DEF RecoverExecutions
  <2>2. stage[e][n].state \in ActiveState => stage[e][n].gen \in Abandoned(e)
    BY DEF Abandoned
  <2> QED BY <1>1, <2>1, <2>2, EndingAccounts
<1>3. CASE phase = "recovering" /\ stage'[e][n] = stage[e][n]
  BY <1>1, <1>3
<1>4. ASSUME NEW f \in Execs, Step(f) PROVE phase = "recovering" /\ stage' = stage
  <2>1. phase = "recovering"
    BY <1>4, StepSurroundings
  <2>2. worker[f].pc = "none"
    BY <1>1, <2>1 DEF WorkerInv, OwnerAt
  <2> QED BY <1>4, <2>1, <2>2 DEF Step, BeginExecution, ResumeExecution, Start, CancelExecution,
       PassDeadline, CancelContext, environment, Publish, EnsureStage, ReuseCheckpoint, ClaimStage,
       AwaitCapacity, AcquireGPUStage, StopWaiting, StartAttempt, AdapterReturns, AttemptFailed,
       RenameCheckpoint, CommittedBefore, RefuseCheckpoint, QuotaReached, CommitCheckpoint,
       Persisting, At, database
<1>5. ASSUME NEW r \in Recs, RequestDeletion(r) \/ RetryDeletion(r) PROVE UNCHANGED <<phase, stage>>
  BY <1>5 DEF RequestDeletion, RetryDeletion, StartDeletion
<1>6. CASE DeleteRows
  <2>1. phase = "recovering" /\ (stage'[e][n] = stage[e][n] \/ stage'[e][n] = NoStage)
    BY <1>6 DEF DeleteRows
  <2> QED BY <1>1, <2>1 DEF NoStage, ActiveState
<1>7. CASE RemoveFiles \/ DeleteJob
  <2>1. phase = "recovering" /\ stage' = stage
    BY <1>7 DEF RemoveFiles, DeleteJob, database
  <2> QED BY <1>3, <2>1
<1>8. ~(Crash \/ Shutdown \/ ShutdownEnds \/ Collect)
  BY DEF Crash, Shutdown, ShutdownEnds, ProcessGone, Collect
<1> QED BY <1>2, <1>3, <1>4, <1>5, <1>6, <1>7, <1>8 DEF Next, vars, database

LEMMA AccountInductive ==
  ASSUME IInv, [Next]_vars
  PROVE  AccountInv'
<1>1. \A e \in Execs, n \in Nodes : Accounted(e, n)' /\ Attended(e, n)'
  BY AccountedInductive, AttendedInductive
<1>2. SlotIsReturned'
  BY SlotInductive
<1>3. (AttemptsAddUp /\ \A e \in Execs, n \in Nodes : \A k \in DOMAIN attempts[e][n] :
         attempts[e][n][k].state = "succeeded" => stage[e][n].state = "succeeded")'
  BY <1>1, <1>2 DEF AttemptsAddUp, NoOrphanedStage, BudgetHolds, Accounted, Attended
<1>4. \A e \in Execs : exec'[e].status \in {"none", "deleted"} =>
        \A n \in Nodes : stage'[e][n].state = "none"
  BY UndoneInductive
<1>5. phase' = "recovering" => \A e \in Execs, n \in Nodes : stage'[e][n].state \notin ActiveState
  BY RecoveringInductive
<1> QED BY <1>3, <1>4, <1>5 DEF AccountInv

-----------------------------------------------------------------------------
(* A completed deletion.                                                   *)

\* What is fenced by the tombstone stays away from a deleted recording: an ending
\* worker may touch its stages, but there are none.
LEMMA NothingComesBack ==
  ASSUME IInv, [Next]_vars, NEW e \in Execs, tomb[RecOf[e]] = "completed", NEW n \in Nodes,
         stage[e][n] = NoStage, attempts[e][n] = << >>
  PROVE  stage'[e][n] = NoStage /\ attempts'[e][n] = << >>
<1>1. Tables /\ WorkerType /\ WorkerInv
  BY DEF IInv, TypeOK, Tables, WorkerType
<1>2. CASE UNCHANGED <<stage, attempts>>
  BY <1>2
<1>3. ASSUME NEW G, stage'[e] = EndedStages(e, G), attempts'[e] = EndedAttempts(e, G)
      PROVE  stage'[e][n] = NoStage /\ attempts'[e][n] = << >>
  <2>1. stage'[e][n] = Ended(NoStage, G)
    BY <1>1, <1>3, EndedEffect
  <2>2. Ended(NoStage, G) = NoStage
    BY DEF Ended, NoStage, ActiveState
  <2>3. attempts'[e][n] \in Seq(AttemptRow) /\ Len(attempts'[e][n]) = Len(<< >>)
    BY <1>1, <1>3, EndedEffect
  <2>4. Len(attempts'[e][n]) = 0
    BY <2>3
  <2> QED BY <2>1, <2>2, <2>3, <2>4
<1>4. ASSUME NEW f \in Execs, f # e,
             \/ Marks(f) \/ Publish(f) \/ EnsureStage(f)
             \/ ReuseCheckpoint(f) \/ ClaimStage(f) \/ Commits(f)
      PROVE  stage'[e] = stage[e] /\ attempts'[e] = attempts[e]
  BY <1>1, <1>4, OthersKept
<1>5. ASSUME \/ Marks(e) \/ EnsureStage(e) \/ ReuseCheckpoint(e) \/ ClaimStage(e) \/ Commits(e)
      PROVE  UNCHANGED <<stage, attempts>>
  <2>1. ~Fence(e, worker[e].gen)
    BY DEF Fence
  <2>2. ~Marks(e) /\ ~Commits(e)
    BY <2>1 DEF Marks, Commits, StillOwned, Owned
  <2> QED BY <1>5, <2>1, <2>2 DEF EnsureStage, ReuseCheckpoint, ClaimStage, Claimable
<1>6. CASE Publish(e)
  <2>1. \/ UNCHANGED <<stage, attempts>>
        \/ /\ stage' = [stage EXCEPT ![e] = EndedStages(e, {worker[e].gen})]
           /\ attempts' = [attempts EXCEPT ![e] = EndedAttempts(e, {worker[e].gen})]
    BY <1>6 DEF Publish
  <2>2. \/ UNCHANGED <<stage, attempts>>
        \/ /\ stage'[e] = EndedStages(e, {worker[e].gen})
           /\ attempts'[e] = EndedAttempts(e, {worker[e].gen})
    BY <1>1, <2>1 DEF Tables
  <2> QED BY <1>2, <1>3, <2>2
<1>7. CASE RecoverExecutions
  BY <1>3, <1>7 DEF RecoverExecutions
<1>8. CASE DeleteRows
  BY <1>8 DEF DeleteRows
<1>9. CASE UNCHANGED vars
  BY <1>2, <1>9 DEF vars, database
<1> QED BY <1>2, <1>4, <1>5, <1>6, <1>7, <1>8, <1>9, TableSteps

\* No row and no directory appears for a recording that is to be deleted.
LEMMA NothingAppears ==
  ASSUME IInv, [Next]_vars, NEW r \in Recs, tomb[r] # "none"
  PROVE  Of(r, rows') \subseteq rows /\ Of(r, dirs') \subseteq dirs
<1>1. Of(r, rows') \subseteq rows
  <2>1. ASSUME NEW f \in Execs, NEW c \in Id, Gains(f, c) PROVE Of(r, rows') \subseteq rows
    BY <2>1 DEF Gains, Fence, Of
  <2> QED BY <2>1, ChainSteps DEF StagesKept, Begins, Erases, Of
<1>2. Of(r, dirs') \subseteq dirs
  <2>1. ASSUME NEW f \in Execs, RenameCheckpoint(f) PROVE Of(r, dirs') \subseteq dirs
    BY <2>1 DEF RenameCheckpoint, Owned, Fence, Of, Rec, Produced
  <2>2. CASE RemoveFiles \/ Collect
    BY <2>2 DEF RemoveFiles, Collect, Of
  <2>3. CASE dirs' = dirs
    BY <2>3 DEF Of
  <2> QED BY <2>1, <2>2, <2>3, FileSteps
<1> QED BY <1>1, <1>2

LEMMA CompleteInductive ==
  ASSUME IInv, [Next]_vars
  PROVE  DeletionIsComplete'
<1> SUFFICES ASSUME NEW r \in Recs, tomb'[r] = "completed"
             PROVE  /\ Of(r, rows') = {} /\ Of(r, dirs') = {}
                    /\ \A e \in Execs : RecOf[e] = r =>
                         \A n \in Nodes : stage'[e][n] = NoStage /\ attempts'[e][n] = << >>
  BY DEF DeletionIsComplete, Of, Rec
<1>1. TypeOK /\ DeletionInv /\ DeletionIsComplete
  BY DEF IInv, DeletionInv
<1>2. CASE tomb[r] = "completed"
  <2>1. Of(r, rows) = {} /\ Of(r, dirs) = {}
    BY <1>1, <1>2 DEF DeletionIsComplete
  <2>2. Of(r, rows') \subseteq rows /\ Of(r, dirs') \subseteq dirs
    BY <1>2, NothingAppears
  <2>3. Of(r, rows') = {} /\ Of(r, dirs') = {}
    BY <2>1, <2>2 DEF Of
  <2> QED BY <1>1, <1>2, <2>3, NothingComesBack DEF DeletionIsComplete
<1>3. CASE DeleteRows /\ r = deletion.rec
  <2>1. Of(r, dirs) = {} /\ dirs' = dirs
    BY <1>1, <1>3 DEF DeleteRows, DeletionInv
  <2>2. Of(r, rows') = {}
    BY <1>3 DEF DeleteRows, Of
  <2>3. \A e \in Execs : RecOf[e] = r =>
          \A n \in Nodes : stage'[e][n] = NoStage /\ attempts'[e][n] = << >>
    BY <1>3 DEF DeleteRows
  <2> QED BY <2>1, <2>2, <2>3
<1>4. tomb[r] = "completed" \/ (DeleteRows /\ r = deletion.rec)
  BY <1>1, CompletedSteps
<1> QED BY <1>2, <1>3, <1>4

LEMMA DeletionInductive ==
  ASSUME IInv, [Next]_vars
  PROVE  DeletionInv'
<1>1. TypeOK /\ DeletionInv /\ WorkerInv'
  BY WorkerInductive DEF IInv
<1>2. ASSUME deletion'.step # "none", NEW e \in Execs, RecOf[e] = deletion'.rec
      PROVE  worker'[e].pc = "none"
  BY <1>1, <1>2 DEF WorkerInv, OwnerAt
<1>3. ASSUME deletion'.step # "none"
      PROVE  /\ deletion'.rec \in Recs /\ tomb'[deletion'.rec] # "none"
             /\ deletion'.step = "rows" => Of(deletion'.rec, dirs') = {}
             /\ deletion'.step = "job" => tomb'[deletion'.rec] = "completed"
  <2>1. CASE deletion' = deletion
    <3>1. deletion.rec \in Recs /\ tomb[deletion.rec] # "none"
      BY <1>1, <1>3, <2>1 DEF DeletionInv
    <3>2. tomb'[deletion.rec] # "none"
      BY <1>1, <3>1, TombStays
    <3>3. deletion.step = "rows" => Of(deletion.rec, dirs') = {}
      <4>1. Of(deletion.rec, dirs') \subseteq dirs
        BY <3>1, NothingAppears
      <4> QED BY <1>1, <1>3, <2>1, <4>1 DEF DeletionInv, Of
    <3>4. deletion.step = "job" => tomb'[deletion.rec] = "completed"
      <4>1. deletion.step = "job" => tomb[deletion.rec] = "completed"
        BY <1>1, <1>3, <2>1 DEF DeletionInv
      <4> QED BY <1>1, <3>1, <4>1, CompletedStays
    <3> QED BY <2>1, <3>1, <3>2, <3>3, <3>4
  <2>2. ASSUME NEW r \in Recs, RequestDeletion(r) \/ RetryDeletion(r)
        PROVE  /\ deletion' = [step |-> "files", rec |-> r] /\ tomb'[r] # "none"
    BY <1>1, <2>2 DEF RequestDeletion, RetryDeletion, StartDeletion, TypeOK
  <2>3. CASE RemoveFiles /\ deletion' # NoDeletion
    <3>1. /\ deletion' = [deletion EXCEPT !.step = "rows"] /\ dirs' = dirs \ Of(deletion.rec, dirs)
          /\ tomb' = tomb /\ deletion.step # "none"
      BY <2>3 DEF RemoveFiles, database
    <3>2. deletion'.step = "rows" /\ deletion'.rec = deletion.rec
      BY <1>1, <3>1 DEF TypeOK, NoDeletion
    <3> QED BY <1>1, <3>1, <3>2 DEF DeletionInv, Of
  <2>4. CASE DeleteRows /\ deletion' # NoDeletion
    <3>1. /\ deletion' = [deletion EXCEPT !.step = "job"]
          /\ tomb' = [tomb EXCEPT ![deletion.rec] = "completed"] /\ deletion.step # "none"
      BY <2>4 DEF DeleteRows
    <3>2. deletion'.step = "job" /\ deletion'.rec = deletion.rec /\ deletion.rec \in Recs
      BY <1>1, <3>1 DEF TypeOK, NoDeletion, DeletionInv
    <3> QED BY <1>1, <3>1, <3>2 DEF TypeOK
  <2>5. deletion' # NoDeletion
    BY <1>3 DEF NoDeletion
  <2>6. CASE DeleteJob \/ Crash \/ ShutdownEnds
    BY <2>5, <2>6 DEF DeleteJob, Crash, ShutdownEnds, ProcessGone
  <2>7. CASE Shutdown \/ RecoverExecutions \/ Collect \/ UNCHANGED vars
    BY <2>1, <2>7 DEF Shutdown, RecoverExecutions, Collect, vars
  <2> QED BY <2>1, <2>2, <2>3, <2>4, <2>5, <2>6, <2>7, StepSurroundings DEF Next
<1> QED BY <1>2, <1>3, CompleteInductive DEF DeletionInv, Of, Rec

-----------------------------------------------------------------------------
(* Types.                                                                  *)

LEMMA StartTyped ==
  ASSUME TypeOK, NEW e \in Execs, NEW gen \in Nat, Start(e, gen)
  PROVE  WorkerType' /\ exec' \in [Execs -> ExecRow]
<1>1. WorkerType /\ exec[e] \in ExecRow
  BY DEF TypeOK, WorkerType
<1> DEFINE r1 == [NoWorker EXCEPT !.pc = "ready"]
           r2 == [r1 EXCEPT !.gen = gen]
<1>2. NoWorker \in WorkerRow
  <2>1. 1 \in Nodes /\ 1 \in 1..MaxTries
    BY CheckpointAssumption DEF CheckpointAssumption, Nodes
  <2> QED BY <2>1 DEF NoWorker, WorkerRow, Pc, Settings
<1>3. r1 \in WorkerRow
  BY <1>2, RowTyped DEF Pc
<1> HIDE DEF r1
<1>4. r2 \in WorkerRow
  BY <1>3 DEF WorkerRow
<1>5. worker' = [worker EXCEPT ![e] = r2]
  BY DEF Start, r1
<1> HIDE DEF r2
<1>6. WorkerType'
  BY <1>1, <1>4, <1>5 DEF WorkerType
<1>7. exec' \in [Execs -> ExecRow]
  BY ZenonT(60) DEF Start, TypeOK, ExecRow
<1> QED BY <1>6, <1>7

LEMMA NoWorkerTyped == NoWorker \in WorkerRow
<1>1. 1 \in Nodes /\ 1 \in 1..MaxTries
  BY CheckpointAssumption DEF CheckpointAssumption, Nodes
<1> QED BY <1>1 DEF NoWorker, WorkerRow, Pc, Settings

LEMMA ProducedTyped ==
  ASSUME IInv, NEW e \in Execs, worker[e].pc \in Claimed
  PROVE  Produced(e) \in Id
<1>1. /\ Tables /\ WorkerType /\ WorkerInv /\ AccountInv /\ worker[e] \in WorkerRow
  BY DEF IInv, TypeOK, Tables, WorkerType
<1>2. worker[e].count \in 1..Len(Attempts(e)) /\ worker[e].node \in Nodes
  BY <1>1, CountInRange
<1>3. Len(Attempts(e)) \in Nat /\ Len(Attempts(e)) <= MaxAttempts
  BY <1>1, <1>2 DEF AccountInv, AttemptsAddUp, BudgetHolds, Attempts, Tables
<1>4. worker[e].count \in 1..MaxAttempts /\ worker[e].try \in 1..MaxTries
  BY <1>1, <1>2, <1>3, CheckpointAssumption DEF CheckpointAssumption, WorkerRow
<1> QED BY <1>2, <1>4 DEF Produced, Id

LEMMA ExecTyped ==
  ASSUME TypeOK, NEW e \in Execs
  PROVE  /\ \A s \in {"running", "interrupted", "failed", "completed", "cancelled", "deleted"} :
              [exec[e] EXCEPT !.status = s] \in ExecRow
         /\ \A s \in {"failed", "completed"} :
              exec' = [exec EXCEPT ![e].status = s] => exec' \in [Execs -> ExecRow]
         /\ exec' = [exec EXCEPT ![e].status = "cancelled", ![e].gen = @ + 1]
              => exec' \in [Execs -> ExecRow]
         /\ exec' = [exec EXCEPT ![e].late = TRUE] => exec' \in [Execs -> ExecRow]
<1>1. exec[e] \in ExecRow
  BY DEF TypeOK
<1>2. \A s \in {"running", "interrupted", "failed", "completed", "cancelled", "deleted"} :
        [exec[e] EXCEPT !.status = s] \in ExecRow
  BY <1>1 DEF ExecRow
<1>3. ASSUME NEW row \in ExecRow, exec' = [exec EXCEPT ![e] = row] PROVE exec' \in [Execs -> ExecRow]
  BY <1>3 DEF TypeOK
<1>4. ASSUME NEW s \in {"failed", "completed"}, exec' = [exec EXCEPT ![e].status = s]
      PROVE  exec' \in [Execs -> ExecRow]
  BY <1>2, <1>3, <1>4
<1>5. ASSUME exec' = [exec EXCEPT ![e].status = "cancelled", ![e].gen = @ + 1]
      PROVE  exec' \in [Execs -> ExecRow]
  <2> DEFINE r1 == [exec[e] EXCEPT !.status = "cancelled"]
             r2 == [r1 EXCEPT !.gen = exec[e].gen + 1]
  <2>1. exec' = [exec EXCEPT ![e] = r2]
    BY <1>5
  <2>2. r1 \in ExecRow /\ exec[e].gen + 1 \in Nat
    BY <1>1, <1>2 DEF ExecRow
  <2> HIDE DEF r1
  <2>3. r2 \in ExecRow
    BY <2>2 DEF ExecRow
  <2> HIDE DEF r2
  <2> QED BY <1>3, <2>1, <2>3
<1>6. ASSUME exec' = [exec EXCEPT ![e].late = TRUE] PROVE exec' \in [Execs -> ExecRow]
  <2>1. [exec[e] EXCEPT !.late = TRUE] \in ExecRow
    BY <1>1 DEF ExecRow
  <2> QED BY <1>3, <1>6, <2>1
<1> QED BY <1>2, <1>4, <1>5, <1>6

LEMMA StepTypes ==
  ASSUME IInv, NEW e \in Execs, Step(e)
  PROVE  WorkerType' /\ exec' \in [Execs -> ExecRow]
<1>1. /\ TypeOK /\ Tables /\ WorkerType /\ worker[e] \in WorkerRow /\ exec[e] \in ExecRow
      /\ worker[e].node \in Nodes
  BY DEF IInv, TypeOK, Tables, WorkerType, WorkerRow
<1>2. CASE BeginExecution(e) \/ ResumeExecution(e)
  <2>1. exec[e].gen + 1 \in Nat
    BY <1>1 DEF ExecRow
  <2> QED BY <1>1, <1>2, <2>1, StartTyped DEF BeginExecution, ResumeExecution
<1>3. CASE CancelExecution(e) \/ PassDeadline(e)
  <2>1. worker' = worker /\ exec' \in [Execs -> ExecRow]
    BY <1>1, <1>3, ExecTyped DEF CancelExecution, PassDeadline
  <2> QED BY <1>1, <2>1 DEF WorkerType
<1>4. CASE Publish(e)
  <2>1. WorkerType'
    BY <1>1, <1>4, NoWorkerTyped DEF Publish, WorkerType
  <2>2. exec' \in [Execs -> ExecRow]
    <3>1. \/ exec' = exec
          \/ exec' = [exec EXCEPT ![e].status = "cancelled", ![e].gen = @ + 1]
          \/ exec' = [exec EXCEPT ![e].status = "failed"]
          \/ exec' = [exec EXCEPT ![e].status = "completed"]
      BY <1>4 DEF Publish
    <3>2. exec' = exec => exec' \in [Execs -> ExecRow]
      BY <1>1 DEF TypeOK
    <3> QED BY <1>1, <3>1, <3>2, ExecTyped
  <2> QED BY <2>1, <2>2
<1>5. /\ "closing" \in Pc /\ "ensured" \in Pc /\ "invoking" \in Pc /\ "claimed" \in Pc
      /\ "waiting" \in Pc /\ "admitted" \in Pc /\ "running" \in Pc /\ "returned" \in Pc
      /\ "renamed" \in Pc
  BY DEF Pc
<1>6. CASE CancelContext(e)
  BY <1>1, <1>6, WorkerTyped DEF CancelContext, TypeOK
<1>7. CASE EnsureStage(e)
  <2>1. Len(Attempts(e)) \in Nat /\ FirstSettings(e) \in Settings
    <3>1. Attempts(e) \in Seq(AttemptRow)
      BY <1>1 DEF Attempts, Tables
    <3>2. Len(Attempts(e)) \in Nat
      BY <3>1
    <3>3. Attempts(e) # << >> => Attempts(e)[Len(Attempts(e))] \in AttemptRow
      BY <3>1
    <3> QED BY <3>2, <3>3 DEF FirstSettings, Settings, AttemptRow
  <2>2. Current(e).ckpt \in Id \cup {None}
    <3>1. stage[e][worker[e].node] \in StageRow
      BY <1>1 DEF Tables
    <3> QED BY <3>1 DEF Current, StageRow
  <2>3. (IF e \in Reusing THEN "ensured" ELSE "invoking") \in Pc
    BY <1>5
  <2>4. \/ GiveUp(e) \/ Advance(e, Current(e).ckpt)
        \/ worker' = [worker EXCEPT ![e].count = Len(Attempts(e)),
                        ![e].settings = FirstSettings(e),
                        ![e].pc = IF e \in Reusing THEN "ensured" ELSE "invoking"]
    BY <1>7 DEF EnsureStage
  <2>5. exec' \in [Execs -> ExecRow]
    BY <1>1, <1>7 DEF EnsureStage, outside, TypeOK
  <2> DEFINE pc == IF e \in Reusing THEN "ensured" ELSE "invoking"
             k == Len(Attempts(e))
             first == FirstSettings(e)
  <2>6. /\ pc \in Pc /\ k \in Nat /\ first \in Settings
        /\ \/ GiveUp(e) \/ Advance(e, Current(e).ckpt)
           \/ worker' = [worker EXCEPT ![e].count = k, ![e].settings = first, ![e].pc = pc]
    BY <2>1, <2>3, <2>4
  <2> HIDE DEF pc, k, first
  <2>7. WorkerType'
    BY <1>1, <2>2, <2>6, WorkerTyped
  <2> QED BY <2>5, <2>7
<1>8. CASE ReuseCheckpoint(e)
  <2>1. Reusable(e) \subseteq Id
    BY <1>1 DEF Reusable, TypeOK
  <2>2. GiveUp(e) \/ Goto(e, "invoking") \/ \E c \in Reusable(e) : Advance(e, c)
    BY <1>8 DEF ReuseCheckpoint
  <2> QED BY <1>1, <1>5, <1>8, <2>1, <2>2, WorkerTyped DEF ReuseCheckpoint, outside, TypeOK
<1>9. CASE ClaimStage(e)
  <2>1. Len(Attempts(e)) + 1 \in Nat
    <3>1. Attempts(e) \in Seq(AttemptRow)
      BY <1>1 DEF Attempts, Tables
    <3> QED BY <3>1
  <2>2. GiveUp(e) \/ worker' = [worker EXCEPT ![e].pc = "claimed", ![e].count = Len(Attempts(e)) + 1]
    BY <1>9 DEF ClaimStage
  <2>3. exec' \in [Execs -> ExecRow]
    BY <1>1, <1>9 DEF ClaimStage, outside, TypeOK
  <2>4. WorkerType'
    BY <1>1, <1>5, <2>1, <2>2, WorkerTyped
  <2> QED BY <2>3, <2>4
<1>10. CASE AwaitCapacity(e) \/ AcquireGPUStage(e) \/ StopWaiting(e) \/ StartAttempt(e)
  <2>1. GiveUp(e) \/ Goto(e, "waiting") \/ Goto(e, "admitted") \/ Goto(e, "running")
    BY <1>10 DEF AwaitCapacity, AcquireGPUStage, StopWaiting, StartAttempt
  <2>2. exec' = exec
    BY <1>10 DEF AwaitCapacity, AcquireGPUStage, StopWaiting, StartAttempt, outside
  <2> QED BY <1>1, <1>5, <2>1, <2>2, WorkerTyped DEF TypeOK
<1>11. CASE AdapterReturns(e)
  <2>1. \E r \in {"ok", "error"} :
          worker' = [worker EXCEPT ![e].pc = "returned", ![e].try = 1, ![e].result = r]
    <3>1. PICK r \in {"ok", "error"} :
            worker' = [worker EXCEPT ![e].pc = "returned", ![e].try = 1,
                         ![e].result = IF Done(e) THEN "error" ELSE r]
      BY <1>11 DEF AdapterReturns
    <3>2. (IF Done(e) THEN "error" ELSE r) \in {"ok", "error"}
      OBVIOUS
    <3> QED BY <3>1, <3>2
  <2> QED BY <1>1, <1>5, <1>11, <2>1, WorkerTyped DEF AdapterReturns, outside, TypeOK
<1>12. CASE AttemptFailed(e)
  <2>1. \/ GiveUp(e)
        \/ \E s \in Settings : worker' = [worker EXCEPT ![e].pc = "invoking", ![e].settings = s]
    BY <1>12 DEF AttemptFailed
  <2> QED BY <1>1, <1>5, <1>12, <2>1, WorkerTyped DEF AttemptFailed, outside, TypeOK
<1>13. CASE RenameCheckpoint(e) \/ QuotaReached(e)
  <2>1. GiveUp(e) \/ Goto(e, "renamed")
    BY <1>13 DEF RenameCheckpoint, QuotaReached
  <2> QED BY <1>1, <1>5, <1>13, <2>1, WorkerTyped DEF RenameCheckpoint, QuotaReached, outside,
         database, TypeOK
<1>14. ASSUME PersistFailed(e) PROVE WorkerType'
  <2>1. \/ GiveUp(e)
        \/ /\ worker[e].try < MaxTries
           /\ worker' = [worker EXCEPT ![e].pc = "returned", ![e].try = @ + 1]
    BY <1>14 DEF PersistFailed, TryAgain
  <2> QED BY <1>1, <1>5, <2>1, WorkerTyped
<1>15. CASE CommittedBefore(e)
  <2>1. \E c \in Id : Advance(e, c)
    BY <1>1, <1>15 DEF CommittedBefore, Existing, TypeOK
  <2> QED BY <1>1, <1>15, <2>1, WorkerTyped DEF CommittedBefore, database, TypeOK
<1>16. CASE RefuseCheckpoint(e)
  BY <1>1, <1>14, <1>16 DEF RefuseCheckpoint, outside, TypeOK
<1>17. CASE CommitCheckpoint(e)
  <2>1. Produced(e) \in Id
    BY <1>17, ProducedTyped DEF CommitCheckpoint, At, Claimed
  <2>2. \/ PersistFailed(e) \/ Advance(e, Produced(e))
        \/ /\ worker[e].try < MaxTries
           /\ worker' = [worker EXCEPT ![e].pc = "returned", ![e].try = @ + 1]
    BY <1>17 DEF CommitCheckpoint
  <2> QED BY <1>1, <1>5, <1>14, <1>17, <2>1, <2>2, WorkerTyped DEF CommitCheckpoint, TypeOK
<1> QED BY <1>2, <1>3, <1>4, <1>6, <1>7, <1>8, <1>9, <1>10, <1>11, <1>12, <1>13, <1>15, <1>16, <1>17
        DEF Step

\* The variables that a worker's step leaves alone or handles simply.
LEMMA SimpleTypes ==
  ASSUME IInv, [Next]_vars
  PROVE  /\ exists' \in SUBSET Recs
         /\ tomb' \in [Recs -> {"none", "requested", "completed"}]
         /\ mutex' \in Execs \cup {Free, Deleter} /\ slot' \in Execs \cup {Free}
         /\ deletion' \in [step : {"files", "rows", "job"}, rec : Recs] \cup {NoDeletion}
         /\ phase' \in {"down", "recovering", "up", "draining", "blocked"}
         /\ restarts' \in Nat
<1>1. TypeOK
  BY DEF IInv
<1>2. ASSUME NEW e \in Execs, Step(e)
      PROVE  /\ mutex' \in Execs \cup {Free, Deleter} /\ slot' \in Execs \cup {Free}
             /\ restarts' = restarts
  <2>1. restarts' = restarts
    BY <1>2 DEF Step, BeginExecution, ResumeExecution, CancelExecution, PassDeadline,
       CancelContext, Publish, EnsureStage, ReuseCheckpoint, ClaimStage, AwaitCapacity,
       AcquireGPUStage, StopWaiting, StartAttempt, AdapterReturns, AttemptFailed, RenameCheckpoint,
       CommittedBefore, RefuseCheckpoint, QuotaReached, CommitCheckpoint, Start, environment, outside,
       database
  <2>2. mutex' = mutex \/ mutex' \in {e, Free}
    BY <1>2 DEF Step, BeginExecution, ResumeExecution, CancelExecution, PassDeadline,
       CancelContext, Publish, EnsureStage, ReuseCheckpoint, ClaimStage, AwaitCapacity,
       AcquireGPUStage, StopWaiting, StartAttempt, AdapterReturns, AttemptFailed, RenameCheckpoint,
       CommittedBefore, RefuseCheckpoint, QuotaReached, CommitCheckpoint, Start, environment, outside,
       database
  <2>3. slot' = slot \/ slot' \in {e, Free}
    <3>1. CASE AcquireGPUStage(e) \/ StopWaiting(e) \/ StartAttempt(e) \/ AdapterReturns(e)
      BY <3>1 DEF AcquireGPUStage, StopWaiting, StartAttempt, AdapterReturns, ReleaseRefused, Release
    <3> QED BY <1>2, <3>1 DEF Step, BeginExecution, ResumeExecution, CancelExecution, PassDeadline,
       CancelContext, Publish, EnsureStage, ReuseCheckpoint, ClaimStage, AwaitCapacity,
       AttemptFailed, RenameCheckpoint,
       CommittedBefore, RefuseCheckpoint, QuotaReached, CommitCheckpoint, Start, environment, outside,
       database
  <2> QED BY <1>1, <2>1, <2>2, <2>3 DEF TypeOK
<1>3. CASE \E e \in Execs : Step(e)
  BY <1>1, <1>2, <1>3, StepSurroundings DEF TypeOK
<1>4. ASSUME NEW r \in Recs, RequestDeletion(r) \/ RetryDeletion(r)
      PROVE  /\ tomb' \in [Recs -> {"none", "requested", "completed"}]
             /\ mutex' = Deleter /\ deletion' \in [step : {"files", "rows", "job"}, rec : Recs]
             /\ UNCHANGED <<exists, slot, phase, restarts>>
  <2>1. /\ tomb' = [tomb EXCEPT ![r] = IF @ = "none" THEN "requested" ELSE @]
        /\ mutex' = Deleter /\ deletion' = [step |-> "files", rec |-> r]
        /\ UNCHANGED <<exists, slot, phase, restarts>>
    BY <1>4 DEF RequestDeletion, RetryDeletion, StartDeletion
  <2>2. tomb' \in [Recs -> {"none", "requested", "completed"}]
    BY <1>1, <2>1 DEF TypeOK
  <2> QED BY <2>1, <2>2
<1>5. CASE RemoveFiles
  <2>1. deletion' = NoDeletion \/ deletion' = [deletion EXCEPT !.step = "rows"]
    BY <1>5 DEF RemoveFiles
  <2>2. deletion \in [step : {"files", "rows", "job"}, rec : Recs]
    BY <1>1, <1>5 DEF RemoveFiles, TypeOK, NoDeletion
  <2>3. deletion' \in [step : {"files", "rows", "job"}, rec : Recs] \cup {NoDeletion}
    BY <2>1, <2>2
  <2>4. mutex' \in {mutex, Free} /\ phase' \in {phase, "blocked"} /\ UNCHANGED <<exists, tomb, slot, restarts>>
    BY <1>5 DEF RemoveFiles, database
  <2> QED BY <1>1, <2>3, <2>4 DEF TypeOK
<1>6. CASE DeleteRows
  <2>1. deletion' = NoDeletion \/ deletion' = [deletion EXCEPT !.step = "job"]
    BY <1>6 DEF DeleteRows
  <2>2. deletion \in [step : {"files", "rows", "job"}, rec : Recs]
    BY <1>1, <1>6 DEF DeleteRows, TypeOK, NoDeletion
  <2>3. deletion' \in [step : {"files", "rows", "job"}, rec : Recs] \cup {NoDeletion}
    BY <2>1, <2>2
  <2> QED BY <1>1, <1>6, <2>3 DEF DeleteRows, TypeOK
<1>7. CASE DeleteJob
  BY <1>1, <1>7 DEF DeleteJob, TypeOK
<1>8. CASE Crash \/ Shutdown \/ ShutdownEnds
  BY <1>1, <1>8 DEF Crash, Shutdown, ShutdownEnds, ProcessGone, TypeOK, database
<1>9. CASE RecoverExecutions \/ Collect
  BY <1>1, <1>9 DEF RecoverExecutions, Collect, TypeOK
<1>10. CASE UNCHANGED vars
  BY <1>1, <1>10 DEF vars, database, TypeOK
<1> QED BY <1>1, <1>3, <1>4, <1>5, <1>6, <1>7, <1>8, <1>9, <1>10 DEF Next, TypeOK

LEMMA TypeInductive ==
  ASSUME IInv, [Next]_vars
  PROVE  TypeOK'
<1>1. TypeOK /\ WorkerType
  BY DEF IInv, TypeOK, WorkerType
<1>2. Tables'
  BY ChainSteps
<1>3. rows' \in SUBSET Id
  BY <1>1, ChainSteps DEF TypeOK, StagesKept, Begins, Gains, Erases
<1>4. dirs' \in SUBSET Id
  <2>1. ASSUME NEW e \in Execs, RenameCheckpoint(e) PROVE Produced(e) \in Id
    BY <2>1, ProducedTyped DEF RenameCheckpoint, Persisting, At, Claimed
  <2> QED BY <1>1, <2>1, FileSteps DEF TypeOK, RenameCheckpoint, RemoveFiles, Collect
<1>5. faults' \in Nat
  BY <1>1, FaultsGrow
<1>6. WorkerType' /\ exec' \in [Execs -> ExecRow]
  <2>1. CASE \E e \in Execs : Step(e)
    BY <2>1, StepTypes
  <2>2. CASE worker' = worker /\ exec' = exec
    BY <1>1, <2>2 DEF TypeOK, WorkerType
  <2>3. ASSUME NEW r \in Recs, RequestDeletion(r) \/ RetryDeletion(r) PROVE UNCHANGED <<worker, exec>>
    BY <2>3 DEF RequestDeletion, RetryDeletion, StartDeletion
  <2>4. CASE DeleteJob \/ RecoverExecutions
    <3>1. worker' = worker
      BY <2>4 DEF DeleteJob, RecoverExecutions
    <3>2. exec' \in [Execs -> ExecRow]
      BY <1>1, <2>4, ExecTyped DEF DeleteJob, RecoverExecutions, TypeOK
    <3> QED BY <1>1, <3>1, <3>2 DEF WorkerType
  <2>5. CASE Crash \/ ShutdownEnds
    BY <1>1, <2>5, NoWorkerTyped DEF Crash, ShutdownEnds, ProcessGone, database, TypeOK, WorkerType
  <2>6. CASE RemoveFiles \/ DeleteRows \/ Shutdown \/ Collect \/ UNCHANGED vars
    BY <2>2, <2>6 DEF RemoveFiles, DeleteRows, Shutdown, Collect, vars, database
  <2> QED BY <2>1, <2>2, <2>3, <2>4, <2>5, <2>6 DEF Next
<1> QED BY <1>2, <1>3, <1>4, <1>5, <1>6, SimpleTypes DEF TypeOK, Tables, WorkerType

-----------------------------------------------------------------------------
(* The invariant and what follows from it.                                 *)

LEMMA Initially == Init => IInv
<1> SUFFICES ASSUME Init PROVE IInv
  OBVIOUS
<1>0. Stages \in Nat \ {0} /\ MaxAttempts \in Nat /\ Free \notin Execs
  BY CheckpointAssumption DEF CheckpointAssumption
<1>1. /\ \A e \in Execs : worker[e].pc = "none" /\ exec[e].status = "none"
      /\ \A e \in Execs, n \in Nodes : stage[e][n] = NoStage /\ attempts[e][n] = << >>
      /\ deletion.step = "none" /\ phase = "up" /\ rows = {} /\ dirs = {} /\ slot = Free
      /\ \A r \in Recs : tomb[r] = "none"
  BY DEF Init, NoWorker, NoDeletion
<1>2. /\ NoStage.state = "none" /\ NoStage.ckpt = None
      /\ "none" \notin ActiveState
  BY DEF NoStage, ActiveState
<1>3. TypeOK
  <2>1. exec \in [Execs -> ExecRow] /\ worker \in [Execs -> WorkerRow]
    BY NoWorkerTyped DEF Init, ExecRow
  <2>2. stage \in [Execs -> [Nodes -> StageRow]] /\ attempts \in [Execs -> [Nodes -> Seq(AttemptRow)]]
    BY NoStageTyped DEF Init
  <2> QED BY <2>1, <2>2 DEF Init, TypeOK
<1>4. ChainInv
  <2>1. \A e \in Execs, n \in Nodes : ~Holds(e, n) /\ ChainAt(e, n)
    BY <1>1, <1>2 DEF Holds, ChainAt
  <2>2. \A m \in Nodes : ~(m <= 0)
    BY <1>0 DEF Nodes
  <2>3. 0 \in 0..Stages
    BY <1>0
  <2> QED BY <2>1, <2>2, <2>3 DEF ChainInv, Prefix
<1>5. StoreInv /\ WorkerInv
  BY <1>1, <1>2 DEF StoreInv, WorkerInv, OwnerAt, PlaceAt, Holds
<1>6. AccountInv
  <2>1. Len(<< >>) = 0 /\ DOMAIN << >> = {}
    OBVIOUS
  <2>2. NoOrphanedStage /\ BudgetHolds /\ SlotIsReturned
    BY <1>0, <1>1, <1>2, <2>1 DEF NoOrphanedStage, BudgetHolds, SlotIsReturned
  <2> QED BY <1>1, <1>2, <2>1, <2>2 DEF AccountInv, AttemptsAddUp
<1>7. DeletionInv
  BY <1>1 DEF DeletionInv, DeletionIsComplete
<1> QED BY <1>3, <1>4, <1>5, <1>6, <1>7 DEF IInv

LEMMA Inductive ==
  ASSUME IInv, [Next]_vars
  PROVE  IInv'
BY TypeInductive, ChainInductive, StoreInductive, WorkerInductive, AccountInductive,
   DeletionInductive DEF IInv

LEMMA Invariance == Spec => []IInv
<1>1. IInv /\ [Next]_vars => IInv'
  BY Inductive
<1> QED BY Initially, <1>1, PTL DEF Spec

\* Every variable keeps its type.
THEOREM CheckpointTypes == Spec => []TypeOK
<1>1. IInv => TypeOK
  BY DEF IInv
<1> QED BY <1>1, Invariance, PTL

\* SelectedIsReadable: what collection removes, what a failed commit leaves behind
\* and what a crash interrupts never takes away a checkpoint that a run selected,
\* or any that it was computed from, before its recording is to be deleted.
THEOREM SelectionsStayReadable == Spec => []SelectedIsReadable
<1>1. ASSUME IInv PROVE SelectedIsReadable
  <2> SUFFICES ASSUME NEW e \in Execs, NEW n \in Nodes, Holds(e, n), tomb[RecOf[e]] = "none"
               PROVE  Lineage(stage[e][n].ckpt) \subseteq rows \cap dirs
    BY DEF SelectedIsReadable
  <2>1. Tables /\ ChainInv /\ StoreInv
    BY <1>1 DEF IInv, TypeOK, Tables
  <2>2. Lineage(stage[e][n].ckpt) = {stage[e][m].ckpt : m \in 1..n}
    BY <2>1, HeldLineage
  <2>3. \A m \in 1..n : m \in Nodes /\ Holds(e, m)
    <3>1. \A m \in 1..n : m \in Nodes /\ m <= n
      BY CheckpointAssumption DEF CheckpointAssumption, Nodes
    <3>2. PICK k \in 0..Stages : \A m \in Nodes : Holds(e, m) <=> m <= k
      BY <2>1 DEF ChainInv, Prefix
    <3>3. n <= k
      BY <3>2
    <3> QED BY <3>1, <3>2, <3>3, NodesNat
  <2> QED BY <2>1, <2>2, <2>3 DEF StoreInv
<1>2. IInv => SelectedIsReadable
  BY <1>1
<1> QED BY <1>2, Invariance, PTL

\* LineageIsOwnChain: a run never mixes results of two chains, whether it computes
\* or takes over, resumes or runs beside others.
THEOREM RunsKeepTheirChains == Spec => []LineageIsOwnChain
<1>1. IInv => LineageIsOwnChain
  BY DEF IInv, ChainInv, ChainAt, LineageIsOwnChain, Before
<1> QED BY <1>1, Invariance, PTL

\* AttemptsAddUp: no stage is left active without its worker, the saved budget
\* holds over every resume, and the GPU slot comes back.
THEOREM AttemptsAreAccountedFor == Spec => []AttemptsAddUp
<1>1. IInv => AttemptsAddUp
  BY DEF IInv, AccountInv
<1> QED BY <1>1, Invariance, PTL

\* DeletionIsComplete: a completed deletion leaves nothing, and nothing comes back.
THEOREM DeletionsAreComplete == Spec => []DeletionIsComplete
<1>1. IInv => DeletionIsComplete
  BY DEF IInv, DeletionInv
<1> QED BY <1>1, Invariance, PTL

-----------------------------------------------------------------------------
(* Refinement: the checkpoint store keeps the promise of StageResults.     *)

LEMMA RecordingTyped == Recording \in Recs
BY RecordingAssumption

\* The results of a run are as many as its stages that hold one.
LEMMA ResultCount ==
  ASSUME NEW e \in Execs, NEW k \in 0..Stages, \A m \in Nodes : Holds(e, m) <=> m <= k
  PROVE  /\ Cardinality({m \in Nodes : Holds(e, m)}) = k
         /\ Results(e) = [m \in 1..k |-> stage[e][m].ckpt]
<1>1. k \in Nat /\ Stages \in Nat /\ k <= Stages
  BY CheckpointAssumption DEF CheckpointAssumption
<1>2. {m \in Nodes : Holds(e, m)} = 1..k
  BY <1>1 DEF Nodes
<1>3. Cardinality(1..k) = k
  BY <1>1, FS_Interval
<1> QED BY <1>2, <1>3 DEF Results

\* A run whose stages hold what they held has the results it had.
LEMMA SameResults ==
  ASSUME NEW e \in Execs, \A m \in Nodes : stage'[e][m].ckpt = stage[e][m].ckpt,
         ChainInv, ChainInv'
  PROVE  Results(e)' = Results(e)
<1>1. \A m \in Nodes : Holds(e, m)' <=> Holds(e, m)
  BY DEF Holds
<1>2. PICK k \in 0..Stages : \A m \in Nodes : Holds(e, m) <=> m <= k
  BY DEF ChainInv, Prefix
<1>3. \A m \in Nodes : Holds(e, m)' <=> m <= k
  BY <1>1, <1>2
<1>4. \A m \in 1..k : m \in Nodes
  BY CheckpointAssumption DEF CheckpointAssumption, Nodes
<1>5. {m \in Nodes : Holds(e, m)}' = {m \in Nodes : Holds(e, m)}
  BY <1>1
<1>6. Cardinality({m \in Nodes : Holds(e, m)}) = k
  BY <1>2, ResultCount
<1>7. Results(e) = [m \in 1..k |-> stage[e][m].ckpt] /\ Results(e)' = [m \in 1..k |-> stage'[e][m].ckpt]
  BY <1>5, <1>6 DEF Results
<1> QED BY <1>4, <1>7

\* A run that gains a checkpoint has it as its next result.
LEMMA NextResult ==
  ASSUME Tables, WorkerType, NEW e \in Execs, NEW c \in Id, Gains(e, c), ChainInv, ChainInv'
  PROVE  Results(e)' = Append(Results(e), c) /\ Len(Results(e)) < Stages
<1>0. PICK n \in Nodes : n = worker[e].node
  BY DEF WorkerType, WorkerRow
<1>1. ~Holds(e, n) /\ stage'[e][n].ckpt = c /\ Holds(e, n)'
  BY <1>0, IdAssumption DEF Gains, Holds
<1>2. \A m \in Nodes : m # n => stage'[e][m] = stage[e][m] /\ (Holds(e, m)' <=> Holds(e, m))
  BY <1>0 DEF Gains, OtherStages, Holds
<1>3. PICK k \in 0..Stages : \A m \in Nodes : Holds(e, m) <=> m <= k
  BY DEF ChainInv, Prefix
<1>4. PICK j \in 0..Stages : \A m \in Nodes : Holds(e, m)' <=> m <= j
  BY DEF ChainInv, Prefix
<1>5. k \in Nat /\ j \in Nat /\ Stages \in Nat /\ k <= Stages /\ j <= Stages /\ n \in 1..Stages
  BY CheckpointAssumption DEF CheckpointAssumption, Nodes
<1>6. k < n /\ n <= j
  BY <1>1, <1>3, <1>4, <1>5
<1>7. n = k + 1 /\ j = k + 1
  <2>1. k + 1 \in Nodes
    BY <1>5, <1>6 DEF Nodes
  <2>2. k + 1 <= j /\ ~(k + 1 <= k)
    BY <1>5, <1>6
  <2>3. n = k + 1
    BY <1>2, <1>3, <1>4, <2>1, <2>2
  <2>4. ASSUME j > k + 1 PROVE FALSE
    <3>1. j \in Nodes /\ j # n /\ ~(j <= k)
      BY <1>5, <2>3, <2>4 DEF Nodes
    <3> QED BY <1>2, <1>3, <1>4, <1>5, <3>1
  <2> QED BY <1>5, <1>6, <2>3, <2>4
<1>8. Results(e) = [m \in 1..k |-> stage[e][m].ckpt]
  BY <1>3, ResultCount
<1>9. Results(e)' = [m \in 1..(k + 1) |-> stage'[e][m].ckpt]
  <2>1. {m \in Nodes : Holds(e, m)}' = 1..(k + 1)
    BY <1>4, <1>5, <1>7 DEF Nodes
  <2>2. Cardinality(1..(k + 1)) = k + 1
    BY <1>5, FS_Interval
  <2> QED BY <2>1, <2>2 DEF Results
<1>10. \A m \in 1..k : m \in Nodes /\ m # n
  BY <1>5, <1>7 DEF Nodes
<1>11. \A m \in 1..k : stage'[e][m].ckpt = stage[e][m].ckpt
  BY <1>2, <1>10
<1> DEFINE S == [m \in 1..k |-> stage[e][m].ckpt]
           T == [m \in 1..(k + 1) |-> stage'[e][m].ckpt]
<1>12. \A m \in 1..k : stage[e][m].ckpt \in Id
  BY <1>3, <1>5, <1>10, HeldIsCheckpoint
<1>13. S \in Seq(Id) /\ Len(S) = k
  BY <1>5, <1>12
<1>14. T = Append(S, c)
  <2> DEFINE A == Append(S, c)
  <2>1. \A m \in 1..k : S[m] = stage[e][m].ckpt
    OBVIOUS
  <2>2. \A m \in 1..(k + 1) : T[m] = stage'[e][m].ckpt
    OBVIOUS
  <2>3. A \in Seq(Id) /\ Len(A) = k + 1 /\ A[k + 1] = c /\ \A m \in 1..k : A[m] = S[m]
    <3> HIDE DEF S
    <3> QED BY <1>5, <1>13
  <2>4. A = [m \in 1..(k + 1) |-> A[m]]
    <3> HIDE DEF A
    <3> QED BY <2>3
  <2>5. T = [m \in 1..(k + 1) |-> T[m]]
    OBVIOUS
  <2>6. T[k + 1] = c
    BY <1>1, <1>5, <1>7
  <2>7. \A m \in 1..(k + 1) : m = k + 1 \/ m \in 1..k
    BY <1>5
  <2>8. \A m \in 1..k : m \in 1..(k + 1)
    BY <1>5
  <2> HIDE DEF A, S, T
  <2>9. \A m \in 1..(k + 1) : A[m] = T[m]
    BY <1>11, <2>1, <2>2, <2>3, <2>6, <2>7, <2>8
  <2>10. [m \in 1..(k + 1) |-> A[m]] = [m \in 1..(k + 1) |-> T[m]]
    BY <2>9
  <2> QED BY <2>4, <2>5, <2>10 DEF A
<1>15. Results(e) = S /\ Results(e)' = T
  BY <1>8, <1>9
<1>16. k < Stages
  BY <1>5, <1>7
<1> HIDE DEF S, T
<1> QED BY <1>13, <1>14, <1>15, <1>16

\* While a run gains a result nothing else of the recording changes.
LEMMA GainSurroundings ==
  ASSUME IInv, [Next]_vars, NEW e \in Execs, NEW c \in Id, Gains(e, c)
  PROVE  UNCHANGED <<exec, exists, tomb>>
<1>0. PICK n \in Nodes : n = worker[e].node
  BY DEF IInv, TypeOK, WorkerRow
<1>1. Tables /\ stage[e][n].ckpt = None /\ stage'[e][n].ckpt # None
  BY <1>0, IdAssumption DEF Gains, Holds, IInv, TypeOK, Tables
<1>2. ~StagesKept
  BY <1>1 DEF StagesKept, Alike
<1>3. ASSUME NEW f \in Execs, Step(f) PROVE UNCHANGED <<exec, exists, tomb>>
  <2>1. ~Publish(f)
    BY <1>1, <1>2, PublishKeepsResults
  <2>2. ~(BeginExecution(f) \/ ResumeExecution(f) \/ CancelExecution(f) \/ PassDeadline(f))
    BY <1>1 DEF BeginExecution, ResumeExecution, CancelExecution, PassDeadline, Start, environment
  <2>3. exec' = exec
    BY <1>3, <2>1, <2>2 DEF Step, CancelContext, EnsureStage, ReuseCheckpoint, ClaimStage,
       AwaitCapacity, AcquireGPUStage, StopWaiting, StartAttempt, AdapterReturns, AttemptFailed,
       RenameCheckpoint, CommittedBefore, RefuseCheckpoint, QuotaReached, CommitCheckpoint, outside,
       database
  <2> QED BY <1>3, <2>3, StepSurroundings
<1>4. ~RecoverExecutions
  BY <1>1, <1>2, RecoveryKeepsResults
<1>5. ~DeleteRows
  BY <1>1 DEF DeleteRows, NoStage
<1>6. stage' # stage
  BY <1>1
<1> QED BY <1>3, <1>4, <1>5, <1>6 DEF Next, RequestDeletion, RetryDeletion, StartDeletion, RemoveFiles,
           DeleteJob, Crash, Shutdown, ShutdownEnds, ProcessGone, Collect, vars, database

Mapped == [e \in RunsOfRecording |-> Results(e)]
Admitted == {e \in RunsOfRecording : Fence(e, exec[e].gen)}

LEMMA InitImplemented == Init => RunResults!Init
<1> SUFFICES ASSUME Init PROVE RunResults!Init
  OBVIOUS
<1>1. ASSUME NEW e \in RunsOfRecording PROVE Results(e) = << >>
  <2>1. e \in Execs /\ \A m \in Nodes : ~Holds(e, m)
    BY <1>1 DEF Init, NoStage, Holds, RunsOfRecording
  <2>2. {m \in Nodes : Holds(e, m)} = {}
    BY <2>1
  <2>3. Cardinality({}) = 0
    BY FS_EmptySet
  <2>4. 1..0 = {}
    OBVIOUS
  <2>5. Results(e) = [n \in {} |-> stage[e][n].ckpt]
    BY <2>2, <2>3, <2>4 DEF Results
  <2> QED BY <2>5
<1>2. \A e \in RunsOfRecording : ~Fence(e, exec[e].gen)
  BY DEF Init, RunsOfRecording, Fence
<1>3. tomb[Recording] = "none"
  BY RecordingTyped DEF Init
<1> QED BY <1>1, <1>2, <1>3 DEF RunResults!Init

LEMMA StepImplemented ==
  ASSUME IInv, IInv', [Next]_vars
  PROVE  [RunResults!Next]_(RunResults!vars)
<1>1. /\ TypeOK /\ Tables /\ WorkerType /\ ChainInv /\ ChainInv' /\ DeletionInv /\ DeletionInv'
      /\ Recording \in Recs
  BY RecordingTyped DEF IInv, TypeOK, Tables, WorkerType
<1>2. tomb[Recording] # "none" => Admitted = {}
  BY DEF Admitted, Fence, RunsOfRecording
<1>3. tomb'[Recording] # "none" => Admitted' = {}
  BY DEF Admitted, Fence, RunsOfRecording
<1>4. RunsOfRecording \subseteq Execs
  BY DEF RunsOfRecording
<1>5. ASSUME \A e \in RunsOfRecording : Results(e)' = Results(e) PROVE Mapped' = Mapped
  BY <1>5 DEF Mapped, RunsOfRecording
<1>6. CASE tomb'[Recording] = "completed" /\ tomb[Recording] # "completed"
  <2>1. DeleteRows /\ deletion.rec = Recording
    BY <1>1, <1>6, CompletedSteps
  <2>2. tomb[Recording] # "none"
    BY <1>1, <2>1 DEF DeletionInv, DeleteRows
  <2>3. ASSUME NEW e \in RunsOfRecording PROVE Results(e)' = << >>
    <3>1. \A m \in Nodes : ~Holds(e, m)'
      BY <1>1, <1>6, <2>3 DEF DeletionInv, DeletionIsComplete, Holds, NoStage, RunsOfRecording
    <3>2. {m \in Nodes : Holds(e, m)}' = {}
      BY <3>1
    <3>3. Cardinality({}) = 0 /\ 1..0 = {}
      BY FS_EmptySet
    <3>4. Results(e)' = [n \in {} |-> stage'[e][n].ckpt]
      BY <3>2, <3>3 DEF Results
    <3> QED BY <3>4
  <2>4. Mapped' = [e \in RunsOfRecording |-> << >>]
    BY <2>3 DEF Mapped, RunsOfRecording
  <2>5. Admitted' = Admitted
    BY <1>2, <1>3, <1>6, <2>2
  <2>6. RunResults!Erase
    BY <1>6, <2>2, <2>4, <2>5 DEF RunResults!Erase, Mapped, Admitted
  <2> QED BY <2>6 DEF RunResults!Next
<1>7. CASE tomb'[Recording] # "none" /\ tomb[Recording] = "none"
  <2>1. stage' = stage
    <3>1. ~DeleteRows
      BY <1>1, <1>7 DEF DeleteRows, DeletionInv, TypeOK
    <3> QED BY <1>7, <3>1, StepSurroundings DEF Next, RequestDeletion, RetryDeletion, StartDeletion,
               RemoveFiles, DeleteJob, Crash, Shutdown, ShutdownEnds, ProcessGone,
               RecoverExecutions, Collect, vars, database
  <2>2. Mapped' = Mapped
    BY <1>1, <1>4, <1>5, <2>1, SameResults
  <2>3. tomb'[Recording] # "completed"
    <3>1. ~(DeleteRows /\ Recording = deletion.rec)
      BY <1>1, <1>7 DEF DeleteRows, DeletionInv
    <3> QED BY <1>1, <1>7, <3>1, CompletedSteps
  <2>4. RunResults!Doom
    BY <1>3, <1>7, <2>2, <2>3 DEF RunResults!Doom, Mapped, Admitted
  <2> QED BY <2>4 DEF RunResults!Next
<1>8. CASE /\ (tomb'[Recording] # "none") = (tomb[Recording] # "none")
           /\ (tomb'[Recording] = "completed") = (tomb[Recording] = "completed")
  <2>1. CASE Mapped' = Mapped
    <3>1. Admitted' \in SUBSET RunsOfRecording
      BY DEF Admitted, RunsOfRecording
    <3>2. RunResults!Admit
      BY <1>3, <1>8, <2>1, <3>1 DEF RunResults!Admit, Mapped, Admitted
    <3> QED BY <3>2 DEF RunResults!Next
  <2>2. ASSUME \A e \in RunsOfRecording, m \in Nodes : stage'[e][m].ckpt = stage[e][m].ckpt
        PROVE  Mapped' = Mapped
    BY <1>1, <1>4, <1>5, <2>2, SameResults
  <2>3. CASE StagesKept
    BY <1>4, <2>1, <2>2, <2>3 DEF StagesKept, Alike
  <2>4. ASSUME NEW f \in Execs, Begins(f) PROVE [RunResults!Next]_(RunResults!vars)
    <3>1. \A e \in Execs, m \in Nodes : stage'[e][m].ckpt = stage[e][m].ckpt
      BY <2>4 DEF Begins, OtherStages
    <3> QED BY <1>4, <2>1, <2>2, <3>1
  <2>5. ASSUME NEW f \in Execs, NEW c \in Id, Gains(f, c) PROVE [RunResults!Next]_(RunResults!vars)
    <3>1. CASE RecOf[f] # Recording
      <4>1. \A e \in RunsOfRecording, m \in Nodes : stage'[e][m] = stage[e][m]
        BY <2>5, <3>1 DEF Gains, OtherStages, RunsOfRecording
      <4> QED BY <2>1, <2>2, <4>1
    <3>2. CASE RecOf[f] = Recording
      <4>1. UNCHANGED <<exec, exists, tomb>>
        BY <2>5, GainSurroundings
      <4>2. f \in Admitted
        BY <2>5, <3>2 DEF Admitted, RunsOfRecording, Gains, Fence
      <4>3. Admitted' = Admitted
        BY <4>1 DEF Admitted, Fence, RunsOfRecording
      <4>4. Results(f)' = Append(Results(f), c) /\ Len(Results(f)) < Stages
        BY <1>1, <2>5, NextResult
      <4>5. \A e \in RunsOfRecording : e # f => Results(e)' = Results(e)
        <5>1. \A e \in Execs, m \in Nodes : e # f => stage'[e][m] = stage[e][m]
          BY <2>5 DEF Gains, OtherStages
        <5> QED BY <1>1, <1>4, <5>1, SameResults
      <4>6. f \in RunsOfRecording
        BY <3>2 DEF RunsOfRecording
      <4>7. Mapped' = [Mapped EXCEPT ![f] = Append(Mapped[f], c)] /\ Mapped[f] = Results(f)
        BY <4>4, <4>5, <4>6 DEF Mapped, RunsOfRecording
      <4>8. RunResults!Gain
        BY <4>1, <4>2, <4>3, <4>4, <4>7 DEF RunResults!Gain, Mapped, Admitted
      <4> QED BY <4>8 DEF RunResults!Next
    <3> QED BY <3>1, <3>2
  <2>6. ASSUME NEW r \in Recs, Erases(r) PROVE [RunResults!Next]_(RunResults!vars)
    <3>1. \A e \in RunsOfRecording, m \in Nodes : stage'[e][m].ckpt = stage[e][m].ckpt
      <4>1. CASE r # Recording
        BY <2>6, <4>1 DEF Erases, RunsOfRecording
      <4>2. CASE r = Recording
        <5>1. tomb'[Recording] = "completed"
          BY <1>1, <2>6, <4>2 DEF Erases, TypeOK
        <5>2. tomb[Recording] = "completed"
          BY <1>8, <5>1
        <5>3. \A e \in RunsOfRecording, m \in Nodes : stage[e][m] = NoStage
          BY <1>1, <5>2 DEF DeletionInv, DeletionIsComplete, RunsOfRecording
        <5>4. \A e \in RunsOfRecording, m \in Nodes : stage'[e][m] = NoStage
          BY <2>6, <4>2 DEF Erases, RunsOfRecording
        <5> QED BY <5>3, <5>4
      <4> QED BY <4>1, <4>2
    <3> QED BY <2>1, <2>2, <3>1
  <2> QED BY <2>3, <2>4, <2>5, <2>6, ChainSteps
<1>9. tomb'[Recording] = "none" => tomb[Recording] = "none"
  BY <1>1, TombStays
<1>10. tomb[Recording] = "completed" => tomb'[Recording] = "completed"
  BY <1>1, CompletedStays
<1> QED BY <1>6, <1>7, <1>8, <1>9, <1>10

\* ResultsImplemented: the stages, attempts, rows and directories implement the
\* promise of StageResults, for every number of runs, stages, attempts and faults.
THEOREM StoreKeepsItsPromise == Spec => ResultsImplemented
<1>1. IInv /\ IInv' /\ [Next]_vars => [RunResults!Next]_(RunResults!vars)
  BY StepImplemented
<1> QED BY <1>1, InitImplemented, Invariance, PTL DEF Spec, ResultsImplemented, RunResults!Spec
=============================================================================
