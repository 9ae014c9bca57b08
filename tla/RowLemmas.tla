------------------------------ MODULE RowLemmas ------------------------------
(***************************************************************************)
(* What the transactions of QueueRows and ExecutionRows preserve, whatever *)
(* the number of recordings, runs and executions: the shape of the rows,   *)
(* which of them can give a recording another waiting or active run, that  *)
(* none changes what is over or reaches into another recording, and what   *)
(* each does to the line of waiting runs.                                  *)
(***************************************************************************)
EXTENDS ExecutionRows, Sequences, FiniteSetTheorems, WellFoundedInduction, TLAPS

Live == ActiveStatus \cup {"queued"}

\* From d to c no run enters the statuses S that was not in them.
NoneEnters(d, c, S) ==
  \A i \in Items : c.item[i].status \in S => d.item[i].status \in S

\* From d to c a recording gets no new active and no new unfinished run.
NoNewRun(d, c) == NoneEnters(d, c, ActiveStatus) /\ NoneEnters(d, c, Live)

\* At most one active run per recording.
SingleActive(d) ==
  \A j \in Jobs : \A i, k \in ActiveItems(d, j) : i = k

-----------------------------------------------------------------------------
(* Positions.                                                              *)

\* A set of natural numbers has a least element.
LEMMA NatMinimum ==
  ASSUME NEW T \in SUBSET Nat, T # {}
  PROVE  \E n \in T : \A m \in T : n <= m
<1> DEFINE R == {p \in Nat \X Nat : p[1] < p[2]}
<1>1. IsWellFoundedOn(R, Nat)
  <2>1. OpToRel(<, Nat) = R
    BY DEF OpToRel
  <2> QED BY <2>1, NatLessThanWellFounded
<1>2. PICK n \in T : \A m \in T : <<m, n>> \notin R
  <2> HIDE DEF R
  <2> QED BY <1>1, WFMin
<1>3. ASSUME NEW m \in T PROVE n <= m
  <2>1. n \in Nat /\ m \in Nat
    OBVIOUS
  <2>2. m < n => <<m, n>> \in R
    BY <2>1
  <2>3. <<m, n>> \notin R
    BY <1>2
  <2> HIDE DEF R
  <2> QED BY <2>1, <2>2, <2>3
<1> QED BY <1>3

-----------------------------------------------------------------------------
(* A first and a last waiting run exist.                                   *)

\* The run that PromoteNext takes exists: positions have a least one.
LEMMA FirstQueuedLemma ==
  ASSUME NEW d \in Rows, NEW j \in Jobs, Queued(d, j) # {}
  PROVE  FirstQueued(d, j) \in Queued(d, j)
<1> DEFINE T == {d.item[i].pos : i \in Queued(d, j)}
<1>1. T \in SUBSET Nat /\ T # {}
  BY DEF Queued, ItemsIn, Rows, ItemRow
<1>2. PICK n \in T : \A m \in T : n <= m
  <2> HIDE DEF T
  <2> QED BY <1>1, NatMinimum
<1>3. PICK i \in Queued(d, j) : d.item[i].pos = n
  OBVIOUS
<1>4. \A k \in Queued(d, j) : d.item[i].pos <= d.item[k].pos
  BY <1>2, <1>3
<1> QED BY <1>4 DEF FirstQueued

\* Append counts on from the last position: finitely many runs have a last one,
\* the one with the fewest behind it.
LEMMA LastPositionType ==
  ASSUME NEW d \in Rows, NEW j \in Jobs
  PROVE  LastPosition(d, j) \in Nat
<1> DEFINE Q == Queued(d, j)
           After(i) == {k \in Q : d.item[i].pos < d.item[k].pos}
           T == {Cardinality(After(i)) : i \in Q}
<1>1. CASE Q = {}
  BY <1>1 DEF LastPosition
<1>2. CASE Q # {}
  <2>1. Q \in SUBSET Items /\ IsFiniteSet(Q)
    <3>1. Q \in SUBSET Items
      BY DEF Queued, ItemsIn
    <3> QED BY <3>1, FS_Subset, IdAssumption
  <2>2. \A i \in Q : d.item[i].pos \in Nat
    BY <2>1 DEF Rows, ItemRow
  <2>3. \A i \in Q : IsFiniteSet(After(i)) /\ Cardinality(After(i)) \in Nat
    <3> SUFFICES ASSUME NEW i \in Q
                 PROVE  IsFiniteSet(After(i)) /\ Cardinality(After(i)) \in Nat
      OBVIOUS
    <3>1. After(i) \in SUBSET Q
      OBVIOUS
    <3> QED BY <3>1, <2>1, FS_Subset, FS_CardinalityType
  <2>4. PICK i \in Q : \A k \in Q : Cardinality(After(i)) <= Cardinality(After(k))
    <3>1. T \in SUBSET Nat /\ T # {}
      BY <1>2, <2>3
    <3>2. PICK n \in T : \A m \in T : n <= m
      <4> HIDE DEF T
      <4> QED BY <3>1, NatMinimum
    <3>3. PICK i \in Q : Cardinality(After(i)) = n
      OBVIOUS
    <3>4. \A k \in Q : Cardinality(After(k)) \in T
      OBVIOUS
    <3> HIDE DEF T, After
    <3> QED BY <3>2, <3>3, <3>4
  <2>5. ASSUME NEW k \in Q PROVE d.item[k].pos <= d.item[i].pos
    <3> SUFFICES ASSUME d.item[i].pos < d.item[k].pos PROVE FALSE
      BY <2>2
    <3>1. After(k) \in SUBSET After(i) /\ k \in After(i) /\ k \notin After(k)
      BY <2>2
    <3>2. Cardinality(After(k)) < Cardinality(After(i))
      <4> HIDE DEF After
      <4>1. /\ Cardinality(After(k)) <= Cardinality(After(i))
            /\ Cardinality(After(i)) = Cardinality(After(k)) => After(i) = After(k)
        BY <3>1, <2>3, FS_Subset
      <4> QED BY <4>1, <3>1, <2>3
    <3> HIDE DEF After
    <3> QED BY <3>2, <2>3, <2>4
  <2>6. (CHOOSE x \in Q : \A k \in Q : d.item[k].pos <= d.item[x].pos) \in Q
    BY <2>5
  <2> QED BY <1>2, <2>2, <2>6 DEF LastPosition
<1> QED BY <1>1, <1>2

-----------------------------------------------------------------------------
(* The two comparisons.                                                    *)

\* Transactions compose: what none of two adds, both together do not add.
LEMMA NoNewRunTransitive ==
  ASSUME NEW b, NEW c, NEW d, NoNewRun(b, c), NoNewRun(c, d)
  PROVE  NoNewRun(b, d)
BY DEF NoNewRun, NoneEnters

\* A transaction that leaves the items alone adds no run.
LEMMA SameItems ==
  ASSUME NEW c, NEW d, c.item = d.item
  PROVE  NoNewRun(d, c)
BY DEF NoNewRun, NoneEnters

\* Without a new active run a recording keeps having at most one.
LEMMA SingleActiveKept ==
  ASSUME NEW c, NEW d, SingleActive(d), NoneEnters(d, c, ActiveStatus)
  PROVE  SingleActive(c)
BY DEF SingleActive, NoneEnters, ActiveItems, ItemsIn

\* Without a new unfinished run a recording that had none still has none.
LEMMA NonTerminalKept ==
  ASSUME NEW c, NEW d, NEW j, NoneEnters(d, c, Live), NonTerminal(d, j) = {}
  PROVE  NonTerminal(c, j) = {}
BY DEF NonTerminal, ItemsIn, NoneEnters, Live

-----------------------------------------------------------------------------
(* The writes shared by the transactions.                                  *)

\* jobRepo.UpdateStatus writes one status.
LEMMA SetJobLemma ==
  ASSUME NEW d \in Rows, NEW j \in Jobs, NEW s \in JobStatus
  PROVE  SetJob(d, j, s) \in Rows /\ SetJob(d, j, s).item = d.item
BY DEF SetJob, Rows

\* A transition of an item keeps its row an item row.
LEMMA SetItemType ==
  ASSUME NEW d \in Rows, NEW i \in Items, NEW s \in ItemStatus
  PROVE  SetItem(d, i, s) \in Rows
<1> DEFINE r == [d.item[i] EXCEPT !.status = s, !.pos = 0]
<1>1. r \in ItemRow
  BY DEF Rows, ItemRow
<1>2. SetItem(d, i, s) = [d EXCEPT !.item[i] = r]
  BY DEF SetItem, Rows, ItemRow
<1> HIDE DEF r
<1> QED BY <1>1, <1>2 DEF Rows

\* Writing the status alone leaves the other items as they are.
LEMMA ItemStatusLemma ==
  ASSUME NEW d \in Rows, NEW i \in Items, NEW s \in ItemStatus
  PROVE  LET c == [d EXCEPT !.item[i].status = s]
         IN  c \in Rows /\ \A k \in Items : k # i => c.item[k] = d.item[k]
BY DEF Rows, ItemRow

\* An item that ends is no longer among the unfinished ones.
LEMMA SetItemEnds ==
  ASSUME NEW d \in Rows, NEW i \in Items, NEW s \in ItemStatus \ Live
  PROVE  NoNewRun(d, SetItem(d, i, s))
BY DEF SetItem, Rows, ItemRow, NoNewRun, NoneEnters, Live, ActiveStatus

\* normalizeQueuedPositions numbers with natural numbers, because the waiting
\* items are finitely many, and changes no status.
LEMMA NormalizedLemma ==
  ASSUME NEW d \in Rows, NEW j \in Jobs
  PROVE  Normalized(d, j) \in Rows /\ NoNewRun(d, Normalized(d, j))
<1>1. ASSUME NEW i \in Items
      PROVE  Cardinality({k \in Queued(d, j) : d.item[k].pos <= d.item[i].pos}) \in Nat
  <2>1. {k \in Queued(d, j) : d.item[k].pos <= d.item[i].pos} \in SUBSET Items
    BY DEF Queued, ItemsIn
  <2> QED BY <2>1, FS_Subset, FS_CardinalityType, IdAssumption
<1>2. Normalized(d, j) \in Rows
  BY <1>1 DEF Normalized, Rows, ItemRow
<1>3. \A i \in Items : Normalized(d, j).item[i].status = d.item[i].status
  BY DEF Normalized, Rows, ItemRow
<1> QED BY <1>2, <1>3 DEF NoNewRun, NoneEnters

\* A recording ends completed or failed.
LEMMA JobOutcomeType ==
  ASSUME NEW s
  PROVE  JobOutcome(s) \in JobStatus
BY DEF JobOutcome, JobStatus

-----------------------------------------------------------------------------
(* The transactions of the run queue.                                      *)

\* Append gives a recording a waiting run and no active one.
LEMMA AppendRunLemma ==
  ASSUME NEW d \in Rows, NEW j \in Jobs, NEW i \in Items
  PROVE  /\ AppendRun(d, j, i) \in Rows
         /\ NoneEnters(d, AppendRun(d, j, i), ActiveStatus)
         /\ \A k \in Items \ {i} : AppendRun(d, j, i).item[k] = d.item[k]
<1>1. LastPosition(d, j) \in Nat
  BY LastPositionType
<1> QED
  BY <1>1, SMTT(30) DEF AppendRun, Rows, ItemRow, ItemStatus, NoneEnters, ActiveStatus

\* ReorderQueued moves positions only.
LEMMA ReorderQueuedLemma ==
  ASSUME NEW d \in Rows, NEW j \in Jobs, NEW place \in Orders(d, j)
  PROVE  ReorderQueued(d, place) \in Rows /\ NoNewRun(d, ReorderQueued(d, place))
<1>1. \A i \in DOMAIN place : place[i] \in Nat
  BY DEF Orders
<1> QED BY <1>1 DEF ReorderQueued, Rows, ItemRow, NoNewRun, NoneEnters

\* CancelQueued ends one waiting run and renumbers the others.
LEMMA CancelQueuedLemma ==
  ASSUME NEW d \in Rows, NEW i \in Items
  PROVE  CancelQueued(d, i) \in Rows /\ NoNewRun(d, CancelQueued(d, i))
<1> DEFINE c == SetItem(d, i, "cancelled")
<1>1. c \in Rows /\ NoNewRun(d, c)
  BY SetItemType, SetItemEnds DEF ItemStatus, Live, ActiveStatus
<1>2. JobOf[i] \in Jobs
  BY IdAssumption
<1>3. Normalized(c, JobOf[i]) \in Rows /\ NoNewRun(c, Normalized(c, JobOf[i]))
  BY <1>1, <1>2, NormalizedLemma
<1> QED BY <1>1, <1>3, NoNewRunTransitive DEF CancelQueued

\* ClearQueued ends the waiting runs.
LEMMA ClearQueuedLemma ==
  ASSUME NEW d \in Rows, NEW j \in Jobs
  PROVE  ClearQueued(d, j) \in Rows /\ NoNewRun(d, ClearQueued(d, j))
<1> DEFINE r(i) == [d.item[i] EXCEPT !.status = "cancelled", !.pos = 0]
           x == [i \in Items |-> IF i \in Queued(d, j) THEN r(i) ELSE d.item[i]]
<1>1. \A i \in Items : r(i) \in ItemRow /\ r(i).status = "cancelled"
  BY DEF Rows, ItemRow, ItemStatus
<1>2. ClearQueued(d, j) = [d EXCEPT !.item = x]
  BY DEF ClearQueued
<1> HIDE DEF r
<1>3. x \in [Items -> ItemRow]
  BY <1>1 DEF Rows
<1>4. \A i \in Items : x[i].status \in {"cancelled", d.item[i].status}
  BY <1>1
<1> HIDE DEF x
<1>5. ClearQueued(d, j) \in Rows /\ ClearQueued(d, j).item = x
  BY <1>2, <1>3 DEF Rows
<1> QED BY <1>4, <1>5 DEF NoNewRun, NoneEnters, Live, ActiveStatus

\* PromoteNext takes a waiting run; the recording's only active run is new.
LEMMA PromoteNextLemma ==
  ASSUME NEW d \in Rows, NEW j \in Jobs, Promotable(d, j)
  PROVE  /\ PromoteNext(d, j) \in Rows
         /\ NoneEnters(d, PromoteNext(d, j), Live)
         /\ \A i \in Items : /\ PromoteNext(d, j).item[i].status \in ActiveStatus
                             /\ d.item[i].status \notin ActiveStatus
                             => i = FirstQueued(d, j)
<1> DEFINE i == FirstQueued(d, j)
           c == SetItem(d, i, "pending")
           n == Normalized(c, j)
<1>1. i \in Items /\ d.item[i].status = "queued" /\ JobOf[i] = j
  BY FirstQueuedLemma DEF Promotable, Queued, ItemsIn
<1>2. c \in Rows
  BY <1>1, SetItemType DEF ItemStatus
<1>3. \A k \in Items \ {i} : c.item[k] = d.item[k]
  BY <1>1 DEF SetItem, Rows
<1>4. n \in Rows /\ NoNewRun(c, n)
  BY <1>2, NormalizedLemma
<1>5. PromoteNext(d, j) \in Rows /\ PromoteNext(d, j).item = n.item
  <2> HIDE DEF n
  <2>1. SetJob(n, j, "pending") \in Rows /\ SetJob(n, j, "pending").item = n.item
    BY <1>4, SetJobLemma DEF JobStatus
  <2> QED BY <2>1 DEF PromoteNext, n
<1> HIDE DEF i, c, n
<1>6. NoneEnters(d, PromoteNext(d, j), Live)
  BY <1>1, <1>3, <1>4, <1>5 DEF NoNewRun, NoneEnters, Live
<1>7. \A k \in Items : /\ PromoteNext(d, j).item[k].status \in ActiveStatus
                        /\ d.item[k].status \notin ActiveStatus
                        => k = i
  BY <1>3, <1>4, <1>5 DEF NoNewRun, NoneEnters
<1> QED BY <1>5, <1>6, <1>7 DEF i

\* So promotion keeps the active run of a recording single: it only happens
\* when there is none.
LEMMA PromoteNextSingle ==
  ASSUME NEW d \in Rows, NEW j \in Jobs, Promotable(d, j), SingleActive(d)
  PROVE  SingleActive(PromoteNext(d, j))
<1> SUFFICES ASSUME NEW k \in Jobs,
                    NEW x \in ActiveItems(PromoteNext(d, j), k),
                    NEW y \in ActiveItems(PromoteNext(d, j), k)
             PROVE  x = y
  BY DEF SingleActive
<1>1. x \in Items /\ y \in Items /\ JobOf[x] = k /\ JobOf[y] = k
  BY DEF ActiveItems, ItemsIn
<1>2. JobOf[FirstQueued(d, j)] = j
  BY FirstQueuedLemma DEF Promotable, Queued, ItemsIn
<1>3. \A z \in {x, y} : z \in ActiveItems(d, k) \/ z = FirstQueued(d, j)
  BY <1>1, PromoteNextLemma DEF ActiveItems, ItemsIn
<1>4. k = j => ActiveItems(d, k) = {}
  BY DEF Promotable
<1> QED BY <1>1, <1>2, <1>3, <1>4 DEF SingleActive

\* ClaimItem moves an admitted run to processing.
LEMMA ClaimItemLemma ==
  ASSUME NEW d \in Rows, NEW j \in Jobs, NEW i \in Items, CanClaimItem(d, j, i)
  PROVE  ClaimItem(d, j, i) \in Rows /\ NoNewRun(d, ClaimItem(d, j, i))
<1> DEFINE c == [d EXCEPT !.item[i].status = "processing"]
           r == [d.item[i] EXCEPT !.status = "processing"]
<1>1. r \in ItemRow /\ r.status = "processing"
  BY DEF Rows, ItemRow, ItemStatus
<1>2. c = [d EXCEPT !.item[i] = r]
  BY DEF Rows, ItemRow
<1> HIDE DEF r
<1>3. c \in Rows /\ c.item = [d.item EXCEPT ![i] = r]
  BY <1>1, <1>2 DEF Rows
<1> HIDE DEF c
<1>4. \A k \in Items : k # i => c.item[k] = d.item[k]
  BY <1>3 DEF Rows
<1>5. c.item[i].status = "processing" /\ d.item[i].status = "pending"
  BY <1>1, <1>3 DEF Rows, CanClaimItem
<1>6. NoNewRun(d, c)
  BY <1>4, <1>5 DEF NoNewRun, NoneEnters, Live, ActiveStatus
<1>7. SetJob(c, j, "processing") \in Rows /\ SetJob(c, j, "processing").item = c.item
  BY <1>3, SetJobLemma DEF JobStatus
<1> QED BY <1>6, <1>7 DEF ClaimItem, c, NoNewRun, NoneEnters

\* BindExecution records an execution in the item and changes no status.
LEMMA BindExecutionLemma ==
  ASSUME NEW d \in Rows, NEW i \in Items, NEW e \in Execs \cup {NoExec}
  PROVE  BindExecution(d, i, e) \in Rows /\ NoNewRun(d, BindExecution(d, i, e))
BY DEF BindExecution, Rows, ItemRow, NoNewRun, NoneEnters

\* Finalize ends the active run, or does nothing to a run that has ended.
LEMMA FinalizeLemma ==
  ASSUME NEW d \in Rows, NEW j \in Jobs, NEW i \in Items \cup {NoItem},
         NEW s \in ItemStatus \ Live, NEW e \in Execs \cup {NoExec}
  PROVE  Finalize(d, j, i, s, e) \in Rows /\ NoNewRun(d, Finalize(d, j, i, s, e))
<1>1. CASE i = NoItem \/ d.item[i].status \notin ActiveStatus
  BY <1>1 DEF Finalize, NoNewRun, NoneEnters
<1>2. CASE i \in Items /\ ~(i = NoItem \/ d.item[i].status \notin ActiveStatus)
  <2> DEFINE b == SetItem(d, i, s)
             x == IF e = NoExec THEN b.item[i].exec ELSE e
             c == BindExecution(b, i, x)
  <2>1. b \in Rows /\ NoNewRun(d, b)
    BY <1>2, SetItemType, SetItemEnds
  <2>2. c \in Rows /\ NoNewRun(b, c)
    <3> HIDE DEF b
    <3>1. x \in Execs \cup {NoExec}
      BY <1>2, <2>1 DEF Rows, ItemRow
    <3> HIDE DEF x
    <3> QED BY <1>2, <2>1, <3>1, BindExecutionLemma
  <2>3. Finalize(d, j, i, s, e) = SetJob(c, j, JobOutcome(s))
    BY <1>2 DEF Finalize, BindExecution
  <2> HIDE DEF b, c, x
  <2>4. /\ SetJob(c, j, JobOutcome(s)) \in Rows
        /\ SetJob(c, j, JobOutcome(s)).item = c.item
    BY <2>2, SetJobLemma, JobOutcomeType
  <2> QED BY <2>1, <2>2, <2>3, <2>4 DEF NoNewRun, NoneEnters
<1> QED BY <1>1, <1>2

\* MarkActiveCancelled ends the active run the same way.
LEMMA MarkActiveCancelledLemma ==
  ASSUME NEW d \in Rows, NEW j \in Jobs, NEW i \in Items \cup {NoItem}
  PROVE  /\ MarkActiveCancelled(d, j, i) \in Rows
         /\ NoNewRun(d, MarkActiveCancelled(d, j, i))
<1>1. CASE i = NoItem \/ d.item[i].status \notin ActiveStatus
  BY <1>1 DEF MarkActiveCancelled, NoNewRun, NoneEnters
<1>2. CASE i \in Items /\ ~(i = NoItem \/ d.item[i].status \notin ActiveStatus)
  <2> DEFINE c == SetItem(d, i, "cancelled")
  <2>1. c \in Rows /\ NoNewRun(d, c)
    BY <1>2, SetItemType, SetItemEnds DEF ItemStatus, Live, ActiveStatus
  <2>2. MarkActiveCancelled(d, j, i) = SetJob(c, j, "failed")
    BY <1>2 DEF MarkActiveCancelled
  <2> HIDE DEF c
  <2>3. SetJob(c, j, "failed") \in Rows /\ SetJob(c, j, "failed").item = c.item
    BY <2>1, SetJobLemma DEF JobStatus
  <2> QED BY <2>1, <2>2, <2>3 DEF NoNewRun, NoneEnters
<1> QED BY <1>1, <1>2

\* FailInterruptedExcept ends runs.
LEMMA FailInterruptedExceptLemma ==
  ASSUME NEW d \in Rows, NEW S
  PROVE  /\ FailInterruptedExcept(d, S) \in Rows
         /\ NoNewRun(d, FailInterruptedExcept(d, S))
<1> DEFINE r(i) == [d.item[i] EXCEPT !.status = "failed", !.pos = 0]
           ends(i) == d.item[i].status = "processing" /\ JobOf[i] \notin S
           x == [i \in Items |-> IF ends(i) THEN r(i) ELSE d.item[i]]
<1>1. \A i \in Items : r(i) \in ItemRow /\ r(i).status = "failed"
  BY DEF Rows, ItemRow, ItemStatus
<1>2. FailInterruptedExcept(d, S) = [d EXCEPT !.item = x]
  BY DEF FailInterruptedExcept
<1> HIDE DEF r, ends
<1>3. x \in [Items -> ItemRow]
  BY <1>1 DEF Rows
<1>4. \A i \in Items : x[i].status \in {"failed", d.item[i].status}
  BY <1>1
<1> HIDE DEF x
<1>5. /\ FailInterruptedExcept(d, S) \in Rows
      /\ FailInterruptedExcept(d, S).item = x
  BY <1>2, <1>3 DEF Rows
<1> QED BY <1>4, <1>5 DEF NoNewRun, NoneEnters, Live, ActiveStatus

-----------------------------------------------------------------------------
(* The transactions of the execution lifecycle.                            *)

\* A transition keeps an execution row an execution row.
LEMMA ExecRowLemma ==
  ASSUME NEW r \in ExecRow, NEW x \in ExecState, NEW s \in ExecStatus
  PROVE  [r EXCEPT !.state = x, !.status = s] \in ExecRow
BY DEF ExecRow

\* A transition of an execution leaves items and recordings alone.
LEMMA SetExecLemma ==
  ASSUME NEW d \in Rows, NEW e \in Execs, NEW x \in ExecState, NEW s \in ExecStatus
  PROVE  SetExec(d, e, x, s) \in Rows /\ SetExec(d, e, x, s).item = d.item
<1> DEFINE r == [d.exec[e] EXCEPT !.state = x, !.status = s]
<1>1. r \in ExecRow
  BY ExecRowLemma DEF Rows
<1>2. SetExec(d, e, x, s) = [d EXCEPT !.exec[e] = r]
  BY DEF SetExec, Rows, ExecRow
<1> HIDE DEF r
<1> QED BY <1>1, <1>2 DEF Rows

\* A fence is a new owner generation.
LEMMA FenceLemma ==
  ASSUME NEW d \in Rows, NEW e \in Execs
  PROVE  LET c == [d EXCEPT !.exec[e].gen = @ + 1]
         IN  c \in Rows /\ c.item = d.item
<1> DEFINE r == [d.exec[e] EXCEPT !.gen = @ + 1]
<1>1. r \in ExecRow
  BY DEF Rows, ExecRow
<1>2. [d EXCEPT !.exec[e].gen = @ + 1] = [d EXCEPT !.exec[e] = r]
  BY DEF Rows, ExecRow
<1> HIDE DEF r
<1> QED BY <1>1, <1>2 DEF Rows

\* Begin creates an execution and binds the item it was begun for.
LEMMA BeginLemma ==
  ASSUME NEW d \in Rows, NEW i \in Items \cup {NoItem}, NEW e \in Execs,
         NEW x \in Deadline
  PROVE  Begin(d, i, e, x) \in Rows /\ NoNewRun(d, Begin(d, i, e, x))
<1> DEFINE b == [d EXCEPT !.exec[e] =
                   [item |-> i, gen |-> 1, state |-> "running",
                    status |-> "processing", deadline |-> x, budget |-> "left"]]
<1>1. b \in Rows /\ b.item = d.item
  BY DEF Rows, ExecRow, ExecState, ExecStatus, Budget
<1>2. Begin(d, i, e, x) = IF i = NoItem THEN b ELSE BindExecution(b, i, e)
  BY DEF Begin
<1> HIDE DEF b
<1>3. CASE i = NoItem
  BY <1>1, <1>2, <1>3, SameItems
<1>4. CASE i \in Items
  <2>1. BindExecution(b, i, e) \in Rows /\ NoNewRun(b, BindExecution(b, i, e))
    BY <1>1, <1>4, BindExecutionLemma
  <2> QED BY <1>1, <1>2, <1>4, <2>1, IdAssumption DEF NoNewRun, NoneEnters
<1> QED BY <1>3, <1>4

\* ClaimResume touches the execution alone.
LEMMA ClaimResumeLemma ==
  ASSUME NEW d \in Rows, NEW e \in Execs
  PROVE  ClaimResume(d, e) \in Rows /\ ClaimResume(d, e).item = d.item
BY SetExecLemma DEF ClaimResume, ExecState, ExecStatus

\* RequestResume readmits the run of the execution and no other.
LEMMA RequestResumeLemma ==
  ASSUME NEW d \in Rows, NEW j \in Jobs, NEW e \in Execs
  PROVE  /\ RequestResume(d, j, e) \in Rows
         /\ \A i \in Items : i # d.exec[e].item =>
              RequestResume(d, j, e).item[i] = d.item[i]
<1> DEFINE i == d.exec[e].item
           a == SetExec(d, e, "pending", "pending")
           b == [a EXCEPT !.exec[e].gen = @ + 1]
           c == IF i = NoItem THEN b ELSE [b EXCEPT !.item[i].status = "pending"]
<1>1. a \in Rows /\ a.item = d.item
  BY SetExecLemma DEF ExecState, ExecStatus
<1>2. b \in Rows /\ b.item = a.item
  <2> HIDE DEF a
  <2> QED BY <1>1, FenceLemma
<1>3. i \in Items \cup {NoItem}
  BY DEF Rows, ExecRow
<1>4. c \in Rows /\ \A k \in Items : k # i => c.item[k] = b.item[k]
  <2> HIDE DEF b, i
  <2>1. CASE i = NoItem
    BY <1>2, <2>1
  <2>2. CASE i \in Items
    <3>1. c = [b EXCEPT !.item[i].status = "pending"]
      BY <2>2, IdAssumption
    <3>2. "pending" \in ItemStatus
      BY DEF ItemStatus
    <3> HIDE DEF c
    <3> QED BY <1>2, <2>2, <3>1, <3>2, ItemStatusLemma
  <2> QED BY <1>3, <2>1, <2>2
<1>5. RequestResume(d, j, e) = SetJob(c, j, "pending")
  BY DEF RequestResume
<1> HIDE DEF a, b, c
<1>6. SetJob(c, j, "pending") \in Rows /\ SetJob(c, j, "pending").item = c.item
  BY <1>4, SetJobLemma DEF JobStatus
<1> QED BY <1>1, <1>2, <1>4, <1>5, <1>6

\* A resume is only admitted when the recording's active run, if any, is the
\* run of the resumed execution: the active run stays single.
LEMMA RequestResumeSingle ==
  ASSUME NEW d \in Rows, NEW j \in Jobs, NEW e \in Execs, JobOf[e] = j,
         Resumable(d, j, e), SingleActive(d)
  PROVE  SingleActive(RequestResume(d, j, e))
<1> DEFINE i == d.exec[e].item
<1> SUFFICES ASSUME NEW k \in Jobs,
                    NEW x \in ActiveItems(RequestResume(d, j, e), k),
                    NEW y \in ActiveItems(RequestResume(d, j, e), k)
             PROVE  x = y
  BY DEF SingleActive
<1>1. x \in Items /\ y \in Items /\ JobOf[x] = k /\ JobOf[y] = k
  BY DEF ActiveItems, ItemsIn
<1>2. \A z \in {x, y} : z \in ActiveItems(d, k) \/ z = i
  BY <1>1, RequestResumeLemma DEF ActiveItems, ItemsIn
<1>3. i # NoItem => JobOf[i] = j
  BY DEF Resumable, HoldsItem
<1>4. ActiveItems(d, j) \subseteq {i}
  BY DEF Resumable
<1>5. i \in {x, y} => k = j
  BY <1>1, <1>3, IdAssumption
<1> HIDE DEF i
<1> QED BY <1>1, <1>2, <1>4, <1>5 DEF SingleActive

\* Cancel touches the execution and the recording's status.
LEMMA CancelLemma ==
  ASSUME NEW d \in Rows, NEW j \in Jobs, NEW e \in Execs
  PROVE  Cancel(d, j, e) \in Rows /\ Cancel(d, j, e).item = d.item
<1> DEFINE a == SetExec(d, e, "cancelled", "failed")
           b == [a EXCEPT !.exec[e].gen = @ + 1]
<1>1. a \in Rows /\ a.item = d.item
  BY SetExecLemma DEF ExecState, ExecStatus
<1>2. b \in Rows /\ b.item = a.item
  <2> HIDE DEF a
  <2> QED BY <1>1, FenceLemma
<1>3. Cancel(d, j, e) = IF d.exec[e].state = "cancelled" THEN d ELSE SetJob(b, j, "failed")
  BY DEF Cancel
<1> HIDE DEF a, b
<1>4. SetJob(b, j, "failed") \in Rows /\ SetJob(b, j, "failed").item = b.item
  BY <1>2, SetJobLemma DEF JobStatus
<1> QED BY <1>1, <1>2, <1>3, <1>4

\* ExpirePending and Finish end the execution, its recording's run and its item
\* in one transaction.
LEMMA EndExecutionLemma ==
  ASSUME NEW d \in Rows, NEW j \in Jobs, NEW e \in Execs,
         NEW s \in {"completed", "failed"}
  PROVE  LET i == d.exec[e].item
             c == SetJob(SetExec(d, e, s, s), j, s)
             f == IF i = NoItem THEN c ELSE SetItem(c, i, s)
         IN  f \in Rows /\ NoNewRun(d, f)
<1> DEFINE i == d.exec[e].item
           b == SetExec(d, e, s, s)
           c == SetJob(b, j, s)
<1>1. b \in Rows /\ b.item = d.item
  <2>1. s \in ExecState /\ s \in ExecStatus
    BY DEF ExecState, ExecStatus
  <2> QED BY <2>1, SetExecLemma
<1>2. c \in Rows /\ c.item = d.item
  <2>1. s \in JobStatus
    BY DEF JobStatus
  <2> HIDE DEF b
  <2> QED BY <1>1, <2>1, SetJobLemma
<1>3. i \in Items \cup {NoItem}
  BY DEF Rows, ExecRow
<1> HIDE DEF c, i
<1>4. CASE i = NoItem
  BY <1>2, <1>4, SameItems DEF c, i
<1>5. CASE i \in Items
  <2>1. SetItem(c, i, s) \in Rows /\ NoNewRun(c, SetItem(c, i, s))
    BY <1>2, <1>5, SetItemType, SetItemEnds DEF ItemStatus, Live, ActiveStatus
  <2>2. i # NoItem
    BY <1>5, IdAssumption
  <2> QED BY <1>2, <2>1, <2>2 DEF c, i, NoNewRun, NoneEnters
<1> QED BY <1>3, <1>4, <1>5

\* An admitted resume whose deadline passes unclaimed ends this way.
LEMMA ExpirePendingLemma ==
  ASSUME NEW d \in Rows, NEW j \in Jobs, NEW e \in Execs
  PROVE  ExpirePending(d, j, e) \in Rows /\ NoNewRun(d, ExpirePending(d, j, e))
BY EndExecutionLemma DEF ExpirePending

\* A published outcome ends the execution and its run this way.
LEMMA FinishLemma ==
  ASSUME NEW d \in Rows, NEW j \in Jobs, NEW e \in Execs,
         NEW s \in {"completed", "failed"}
  PROVE  Finish(d, j, e, s) \in Rows /\ NoNewRun(d, Finish(d, j, e, s))
BY EndExecutionLemma DEF Finish

\* The startup interruption writes executions and recordings.
LEMMA InterruptAllLemma ==
  ASSUME NEW d \in Rows
  PROVE  InterruptAll(d) \in Rows /\ InterruptAll(d).item = d.item
<1> DEFINE S == {e \in Execs : d.exec[e].state \in {"pending", "running"}}
           r(e) == [d.exec[e] EXCEPT !.state = "interrupted", !.status = "failed"]
           x == [e \in Execs |-> IF e \in S THEN r(e) ELSE d.exec[e]]
           y == [j \in Jobs |-> IF d.job[j] # "deleted" /\ \E e \in S : JobOf[e] = j
                                 THEN "failed" ELSE d.job[j]]
<1>1. \A e \in Execs : r(e) \in ExecRow
  BY ExecRowLemma DEF Rows, ExecState, ExecStatus
<1>2. x \in [Execs -> ExecRow]
  <2> HIDE DEF r, S
  <2> QED BY <1>1 DEF Rows
<1>3. y \in [Jobs -> JobStatus]
  <2> HIDE DEF S
  <2> QED BY DEF Rows, JobStatus
<1>4. InterruptAll(d) = [d EXCEPT !.exec = x, !.job = y]
  BY DEF InterruptAll
<1> HIDE DEF x, y
<1> QED BY <1>2, <1>3, <1>4 DEF Rows

\* FailProcessingExecutions writes executions.
LEMMA FailProcessingLemma ==
  ASSUME NEW d \in Rows, NEW j \in Jobs
  PROVE  FailProcessing(d, j) \in Rows /\ FailProcessing(d, j).item = d.item
<1> DEFINE r(e) == [d.exec[e] EXCEPT !.status = "failed"]
           ends(e) == JobOf[e] = j /\ d.exec[e].status = "processing"
           x == [e \in Execs |-> IF ends(e) THEN r(e) ELSE d.exec[e]]
<1>1. \A e \in Execs : r(e) \in ExecRow
  BY DEF Rows, ExecRow, ExecStatus
<1>2. FailProcessing(d, j) = [d EXCEPT !.exec = x]
  BY DEF FailProcessing
<1> HIDE DEF r, ends
<1>3. x \in [Execs -> ExecRow]
  BY <1>1 DEF Rows
<1> HIDE DEF x
<1> QED BY <1>2, <1>3 DEF Rows

\* Deletion leaves the recording no run at all.
LEMMA DeleteLemma ==
  ASSUME NEW d \in Rows, NEW j \in Jobs
  PROVE  /\ DeleteWithAssociations(d, j) \in Rows
         /\ NoNewRun(d, DeleteWithAssociations(d, j))
<1> DEFINE c == DeleteWithAssociations(d, j)
<1>1. c.job \in [Jobs -> JobStatus]
  BY DEF DeleteWithAssociations, Rows, JobStatus
<1>2. c.item \in [Items -> ItemRow]
  BY DEF DeleteWithAssociations, Rows, ItemRow, ItemStatus
<1>3. c.exec \in [Execs -> ExecRow]
  <2> DEFINE r(e) == [d.exec[e] EXCEPT !.state = "gone", !.status = "none"]
  <2>1. \A e \in Execs : r(e) \in ExecRow
    BY ExecRowLemma DEF Rows, ExecState, ExecStatus
  <2>2. c.exec = [e \in Execs |->
                    IF JobOf[e] = j /\ d.exec[e].state # "none"
                    THEN r(e) ELSE d.exec[e]]
    BY DEF DeleteWithAssociations
  <2> HIDE DEF c, r
  <2> QED BY <2>1, <2>2 DEF Rows
<1>4. c \in Rows
  BY <1>1, <1>2, <1>3 DEF DeleteWithAssociations, Rows
<1>5. NoNewRun(d, c)
  BY DEF DeleteWithAssociations, NoNewRun, NoneEnters, Live, ActiveStatus
<1> QED BY <1>4, <1>5

-----------------------------------------------------------------------------
(* What a transaction leaves alone, and what it may not undo.              *)

\* From d to c only runs and executions of recording j change.
Within(d, c, j) ==
  /\ \A i \in Items : JobOf[i] # j => c.item[i] = d.item[i]
  /\ \A e \in Execs : JobOf[e] # j => c.exec[e] = d.exec[e]

\* A completed execution says so in both of its columns, and a run is bound to
\* an execution of its own recording.
Sound(d) ==
  /\ \A e \in Execs : d.exec[e].state = "completed" => d.exec[e].status = "completed"
  /\ \A i \in Items : d.item[i].exec # NoExec => JobOf[d.item[i].exec] = JobOf[i]

Over   == {"completed", "failed", "cancelled", "gone"}
Fenced == {"cancelled", "gone"}

\* From d to c a run that is over and an execution that is fenced or completed stay
\* so, unless they are deleted.
RunsFinal(d, c) ==
  \A i \in Items :
    d.item[i].status \in Over => c.item[i].status \in {d.item[i].status, "gone"}
ExecsFinal(d, c) ==
  \A e \in Execs :
    /\ d.exec[e].state = "completed" => c.exec[e].state \in {"completed", "gone"}
    /\ d.exec[e].state = "cancelled" => c.exec[e].state \in Fenced
    /\ d.exec[e].state = "gone" => c.exec[e].state \in Fenced
Final(d, c) == Sound(d) => Sound(c) /\ RunsFinal(d, c) /\ ExecsFinal(d, c)

\* From d to c no execution is published as completed.
Unpublished(d, c) ==
  \A e \in Execs : c.exec[e].state = "completed" => d.exec[e].state = "completed"

Keeps(d, c, j) == Within(d, c, j) /\ Final(d, c) /\ Unpublished(d, c)

\* From d to c executions stay as they are, and of the runs only some of recording
\* j that are not over change.
Moves(d, c, j) ==
  /\ c.exec = d.exec
  /\ \A i \in Items :
       \/ c.item[i] = d.item[i]
       \/ /\ JobOf[i] = j /\ d.item[i].status \notin Over
          /\ \/ c.item[i].exec \in {d.item[i].exec, NoExec}
             \/ JobOf[c.item[i].exec] = j

\* Such changes compose, and keep what is final.
LEMMA MovesCompose ==
  ASSUME NEW b, NEW c, NEW d, NEW j, Moves(d, b, j), Moves(b, c, j)
  PROVE  Moves(d, c, j)
BY DEF Moves

\* Such changes are kept within one recording and keep what is final.
LEMMA MovesKeep ==
  ASSUME NEW c, NEW d, NEW j, Moves(d, c, j)
  PROVE  Keeps(d, c, j)
<1>1. Within(d, c, j) /\ Unpublished(d, c)
  BY DEF Moves, Within, Unpublished
<1>2. ASSUME Sound(d) PROVE Sound(c)
  BY <1>2 DEF Moves, Sound
<1>3. RunsFinal(d, c) /\ ExecsFinal(d, c)
  BY DEF Moves, RunsFinal, ExecsFinal, Fenced
<1> QED BY <1>1, <1>2, <1>3 DEF Keeps, Final

\* An execution changes first and runs after it.
LEMMA KeepThenMove ==
  ASSUME NEW b, NEW c, NEW d, NEW j, Moves(b, c, j)
  PROVE  /\ Within(d, b, j) => Within(d, c, j)
         /\ Final(d, b) => Final(d, c)
         /\ Keeps(d, b, j) => Keeps(d, c, j)
<1>1. Keeps(b, c, j) /\ c.exec = b.exec
  BY MovesKeep DEF Moves
<1>2. Within(d, b, j) => Within(d, c, j)
  BY <1>1 DEF Keeps, Within
<1>3. ASSUME Final(d, b), Sound(d) PROVE Sound(c) /\ RunsFinal(d, c) /\ ExecsFinal(d, c)
  <2>1. Sound(b) /\ RunsFinal(d, b) /\ ExecsFinal(d, b)
    BY <1>3 DEF Final
  <2>2. Sound(c) /\ RunsFinal(b, c)
    BY <1>1, <2>1 DEF Keeps, Final
  <2>3. RunsFinal(d, c)
    BY <2>1, <2>2 DEF RunsFinal, Over
  <2>4. ExecsFinal(d, c)
    BY <1>1, <2>1 DEF ExecsFinal
  <2> QED BY <2>2, <2>3, <2>4
<1>4. Final(d, b) => Final(d, c)
  BY <1>3 DEF Final
<1>5. Unpublished(d, b) => Unpublished(d, c)
  BY <1>1 DEF Unpublished
<1> QED BY <1>2, <1>4, <1>5 DEF Keeps

\* What leaves runs and executions alone.
LEMMA StillMoves ==
  ASSUME NEW c, NEW d, NEW j, c.item = d.item, c.exec = d.exec
  PROVE  Moves(d, c, j)
BY DEF Moves

\* The status of a recording is neither a run nor an execution.
LEMMA SetJobMoves ==
  ASSUME NEW d \in Rows, NEW k \in Jobs, NEW j \in Jobs, NEW s
  PROVE  /\ SetJob(d, k, s).item = d.item /\ SetJob(d, k, s).exec = d.exec
         /\ Moves(d, SetJob(d, k, s), j)
<1>1. SetJob(d, k, s).item = d.item /\ SetJob(d, k, s).exec = d.exec
  BY DEF SetJob, Rows
<1> QED BY <1>1, StillMoves

\* One run changes its row.
LEMMA RunRow ==
  ASSUME NEW d \in Rows, NEW i \in Items, NEW r
  PROVE  LET c == [d EXCEPT !.item[i] = r]
         IN  /\ c.item[i] = r /\ \A k \in Items : k # i => c.item[k] = d.item[k]
             /\ c.exec = d.exec /\ c.job = d.job
             /\ r \in ItemRow => c \in Rows
BY DEF Rows

\* A run ends or moves on.
LEMMA SetItemRow ==
  ASSUME NEW d \in Rows, NEW i \in Items, NEW s
  PROVE  LET c == SetItem(d, i, s)
         IN  /\ c.item[i].status = s /\ c.item[i].exec = d.item[i].exec
             /\ \A k \in Items : k # i => c.item[k] = d.item[k]
             /\ c.exec = d.exec /\ c.job = d.job
<1> DEFINE r == [d.item[i] EXCEPT !.status = s, !.pos = 0]
<1>1. SetItem(d, i, s) = [d EXCEPT !.item[i] = r]
  BY DEF SetItem, Rows, ItemRow
<1>2. r.status = s /\ r.exec = d.item[i].exec
  BY DEF Rows, ItemRow
<1> HIDE DEF r
<1> QED BY <1>1, <1>2, RunRow

\* A run that is not over may take any status.
LEMMA SetItemMoves ==
  ASSUME NEW d \in Rows, NEW i \in Items, NEW s, d.item[i].status \notin Over
  PROVE  Moves(d, SetItem(d, i, s), JobOf[i])
<1> DEFINE c == SetItem(d, i, s)
<1>1. /\ c.item[i].exec = d.item[i].exec /\ c.exec = d.exec
      /\ \A k \in Items : k # i => c.item[k] = d.item[k]
  BY SetItemRow
<1> HIDE DEF c
<1>2. \A k \in Items : k = i \/ c.item[k] = d.item[k]
  BY <1>1
<1> QED BY <1>1, <1>2 DEF Moves, c

\* Renumbering the waiting runs.
LEMMA NormalizedRow ==
  ASSUME NEW d \in Rows, NEW j \in Jobs
  PROVE  LET c == Normalized(d, j)
         IN  /\ c.exec = d.exec /\ c.job = d.job
             /\ \A i \in Items :
                  /\ c.item[i].status = d.item[i].status /\ c.item[i].exec = d.item[i].exec
                  /\ i \notin Queued(d, j) => c.item[i] = d.item[i]
BY DEF Normalized, Rows, ItemRow

\* Renumbering is such a change.
LEMMA NormalizedMoves ==
  ASSUME NEW d \in Rows, NEW j \in Jobs
  PROVE  Moves(d, Normalized(d, j), j)
<1>1. \A i \in Queued(d, j) : JobOf[i] = j /\ d.item[i].status \notin Over
  BY DEF Queued, ItemsIn, Over
<1> DEFINE c == Normalized(d, j)
<1>2. /\ c.exec = d.exec
      /\ \A i \in Items : c.item[i].exec = d.item[i].exec
                          /\ (i \notin Queued(d, j) => c.item[i] = d.item[i])
  BY NormalizedRow
<1> HIDE DEF c
<1> QED BY <1>1, <1>2 DEF Moves, c

\* A new run waits, and nothing else changes.
LEMMA AppendRunMoves ==
  ASSUME NEW d \in Rows, NEW j \in Jobs, NEW i \in Items, CanAppend(d, j, i)
  PROVE  /\ Moves(d, AppendRun(d, j, i), j)
         /\ AppendRun(d, j, i).item[i].status = "queued"
<1> DEFINE r == [status |-> "queued", pos |-> LastPosition(d, j) + 1, exec |-> NoExec]
           c == [d EXCEPT !.item[i] = r]
<1>1. r.status = "queued" /\ r.exec = NoExec
  OBVIOUS
<1>2. AppendRun(d, j, i) = c
  BY DEF AppendRun
<1> HIDE DEF r
<1>3. /\ c.item[i] = r /\ \A k \in Items : k # i => c.item[k] = d.item[k]
      /\ c.exec = d.exec
  BY DEF Rows
<1>4. JobOf[i] = j /\ d.item[i].status \notin Over
  BY DEF CanAppend, Over
<1> HIDE DEF c
<1>5. \A k \in Items : k = i \/ c.item[k] = d.item[k]
  BY <1>3
<1> QED BY <1>1, <1>2, <1>3, <1>4, <1>5 DEF Moves

\* Reordering renumbers waiting runs.
LEMMA ReorderMoves ==
  ASSUME NEW d \in Rows, NEW j \in Jobs, NEW place \in Orders(d, j)
  PROVE  LET c == ReorderQueued(d, place)
         IN  /\ Moves(d, c, j)
             /\ \A i \in Items : c.item[i] # d.item[i] => c.item[i].status = "queued"
<1> DEFINE c == ReorderQueued(d, place)
           r(i) == [d.item[i] EXCEPT !.pos = place[i]]
<1>1. /\ c.exec = d.exec
      /\ \A i \in Items : c.item[i] = IF i \in DOMAIN place THEN r(i) ELSE d.item[i]
  BY DEF ReorderQueued, Rows
<1>2. DOMAIN place = Queued(d, j)
  BY DEF Orders
<1>3. \A i \in Items : r(i).status = d.item[i].status /\ r(i).exec = d.item[i].exec
  BY DEF Rows, ItemRow
<1> HIDE DEF r, c
<1>4. \A i \in Queued(d, j) : JobOf[i] = j /\ d.item[i].status = "queued"
  BY DEF Queued, ItemsIn
<1>5. "queued" \notin Over
  BY DEF Over
<1>6. \A i \in Items : \/ c.item[i] = d.item[i]
                       \/ /\ i \in Queued(d, j) /\ c.item[i].status = d.item[i].status
                          /\ c.item[i].exec = d.item[i].exec
  BY <1>1, <1>2, <1>3
<1>7. Moves(d, c, j)
  BY <1>1, <1>4, <1>5, <1>6 DEF Moves
<1>8. \A i \in Items : c.item[i] # d.item[i] => c.item[i].status = "queued"
  BY <1>4, <1>6
<1> QED BY <1>7, <1>8 DEF c

\* The positions of a waiting line change, not its statuses.
LEMMA NormalizedStatus ==
  ASSUME NEW d \in Rows, NEW j \in Jobs, NEW i \in Items
  PROVE  LET c == Normalized(d, j)
         IN  /\ c.item[i].status = d.item[i].status
             /\ c.item[i] # d.item[i] => c.item[i].status = "queued"
<1>1. i \in Queued(d, j) => d.item[i].status = "queued"
  BY DEF Queued, ItemsIn
<1> QED BY <1>1, NormalizedRow

\* A waiting run is cancelled and the others close up.
LEMMA CancelQueuedMoves ==
  ASSUME NEW d \in Rows, NEW i \in Items, d.item[i].status = "queued"
  PROVE  LET c == CancelQueued(d, i)
         IN  /\ Moves(d, c, JobOf[i])
             /\ \A k \in Items : c.item[k] # d.item[k] =>
                  c.item[k].status \in {"queued", "cancelled"}
<1> DEFINE b == SetItem(d, i, "cancelled")
           c == Normalized(b, JobOf[i])
<1>1. JobOf[i] \in Jobs
  BY IdAssumption
<1>2. b \in Rows
  BY SetItemType DEF ItemStatus
<1>3. Moves(d, b, JobOf[i])
  BY SetItemMoves DEF Over
<1>4. b.item[i].status = "cancelled" /\ \A k \in Items : k # i => b.item[k] = d.item[k]
  BY SetItemRow
<1> HIDE DEF b
<1>5. Moves(b, c, JobOf[i])
  BY <1>1, <1>2, NormalizedMoves
<1>6. \A k \in Items : /\ c.item[k].status = b.item[k].status
                       /\ c.item[k] # b.item[k] => c.item[k].status = "queued"
  BY <1>1, <1>2, NormalizedStatus
<1> HIDE DEF c
<1>7. Moves(d, c, JobOf[i])
  BY <1>3, <1>5, MovesCompose
<1>8. \A k \in Items : c.item[k] # d.item[k] => c.item[k].status \in {"queued", "cancelled"}
  BY <1>4, <1>6
<1> QED BY <1>7, <1>8 DEF CancelQueued, b, c

\* The waiting line is cancelled.
LEMMA ClearQueuedMoves ==
  ASSUME NEW d \in Rows, NEW j \in Jobs
  PROVE  LET c == ClearQueued(d, j)
         IN  /\ Moves(d, c, j)
             /\ \A i \in Items : c.item[i] # d.item[i] => c.item[i].status = "cancelled"
<1> DEFINE c == ClearQueued(d, j)
           r(i) == [d.item[i] EXCEPT !.status = "cancelled", !.pos = 0]
<1>1. /\ c.exec = d.exec
      /\ \A i \in Items : c.item[i] = IF i \in Queued(d, j) THEN r(i) ELSE d.item[i]
  BY DEF ClearQueued, Rows
<1>2. \A i \in Items : r(i).status = "cancelled" /\ r(i).exec = d.item[i].exec
  BY DEF Rows, ItemRow
<1> HIDE DEF r, c
<1>3. \A i \in Queued(d, j) : JobOf[i] = j /\ d.item[i].status \notin Over
  BY DEF Queued, ItemsIn, Over
<1>4. \A i \in Items : \/ c.item[i] = d.item[i]
                       \/ /\ i \in Queued(d, j) /\ c.item[i].status = "cancelled"
                          /\ c.item[i].exec = d.item[i].exec
  BY <1>1, <1>2
<1>5. Moves(d, c, j)
  BY <1>1, <1>3, <1>4 DEF Moves
<1>6. \A i \in Items : c.item[i] # d.item[i] => c.item[i].status = "cancelled"
  BY <1>4
<1> QED BY <1>5, <1>6 DEF c

\* Promotion moves the first waiting run and renumbers the others.
LEMMA PromoteNextMoves ==
  ASSUME NEW d \in Rows, NEW j \in Jobs, Promotable(d, j)
  PROVE  LET c == PromoteNext(d, j)
         IN  /\ Moves(d, c, j)
             /\ \A i \in Items : \/ c.item[i].status = d.item[i].status
                                 \/ i = FirstQueued(d, j) /\ c.item[i].status = "pending"
<1> DEFINE f == FirstQueued(d, j)
           b == SetItem(d, f, "pending")
           n == Normalized(b, j)
           c == SetJob(n, j, "pending")
<1>1. f \in Items /\ d.item[f].status = "queued" /\ JobOf[f] = j
  BY FirstQueuedLemma DEF Promotable, Queued, ItemsIn
<1> HIDE DEF f
<1>2. b \in Rows
  BY <1>1, SetItemType DEF ItemStatus
<1>3. Moves(d, b, j)
  BY <1>1, SetItemMoves DEF Over
<1>4. b.item[f].status = "pending" /\ \A k \in Items : k # f => b.item[k] = d.item[k]
  BY <1>1, SetItemRow
<1> HIDE DEF b
<1>5. Moves(b, n, j) /\ n \in Rows
  BY <1>2, NormalizedMoves, NormalizedLemma
<1>6. \A k \in Items : n.item[k].status = b.item[k].status
  BY <1>2, NormalizedStatus
<1> HIDE DEF n
<1>7. Moves(n, c, j) /\ c.item = n.item
  BY <1>5, SetJobMoves
<1> HIDE DEF c
<1>8. Moves(d, c, j)
  BY <1>3, <1>5, <1>7, MovesCompose
<1>9. \A i \in Items : \/ c.item[i].status = d.item[i].status
                       \/ i = f /\ c.item[i].status = "pending"
  BY <1>4, <1>6, <1>7
<1> QED BY <1>8, <1>9 DEF PromoteNext, b, c, n, f

\* A claim moves the admitted run.
LEMMA ClaimItemMoves ==
  ASSUME NEW d \in Rows, NEW j \in Jobs, NEW i \in Items, CanClaimItem(d, j, i)
  PROVE  Moves(d, ClaimItem(d, j, i), j)
<1> DEFINE r == [d.item[i] EXCEPT !.status = "processing"]
           b == [d EXCEPT !.item[i] = r]
           c == SetJob(b, j, "processing")
<1>1. r \in ItemRow /\ r.exec = d.item[i].exec
  BY DEF Rows, ItemRow, ItemStatus
<1>2. ClaimItem(d, j, i) = c
  BY DEF ClaimItem, Rows, ItemRow
<1> HIDE DEF r
<1>3. /\ b \in Rows /\ b.exec = d.exec /\ b.item[i] = r
      /\ \A k \in Items : k # i => b.item[k] = d.item[k]
  BY <1>1, RunRow
<1> HIDE DEF b
<1>4. JobOf[i] = j /\ d.item[i].status \notin Over
  BY DEF CanClaimItem, Over
<1>5. \A k \in Items : k = i \/ b.item[k] = d.item[k]
  BY <1>3
<1>6. Moves(d, b, j)
  BY <1>1, <1>3, <1>4, <1>5 DEF Moves
<1>7. Moves(b, c, j)
  BY <1>3, SetJobMoves
<1> QED BY <1>2, <1>6, <1>7, MovesCompose

\* A run is bound to an execution of its recording.
LEMMA BindMoves ==
  ASSUME NEW d \in Rows, NEW i \in Items, NEW e, d.item[i].status \notin Over,
         e \in {d.item[i].exec, NoExec} \/ JobOf[e] = JobOf[i]
  PROVE  /\ Moves(d, BindExecution(d, i, e), JobOf[i])
         /\ BindExecution(d, i, e).item[i].status = d.item[i].status
         /\ \A k \in Items : k # i => BindExecution(d, i, e).item[k] = d.item[k]
<1> DEFINE r == [d.item[i] EXCEPT !.exec = e]
           c == [d EXCEPT !.item[i] = r]
<1>1. r.exec = e /\ r.status = d.item[i].status
  BY DEF Rows, ItemRow
<1>2. BindExecution(d, i, e) = c
  BY DEF BindExecution, Rows, ItemRow
<1> HIDE DEF r
<1>3. /\ c.exec = d.exec /\ c.item[i] = r
      /\ \A k \in Items : k # i => c.item[k] = d.item[k]
  BY DEF Rows
<1> HIDE DEF c
<1>4. \A k \in Items : k = i \/ c.item[k] = d.item[k]
  BY <1>3
<1> QED BY <1>1, <1>2, <1>3, <1>4 DEF Moves

\* A run that is still active ends, whoever ends it.
LEMMA FinalizeMoves ==
  ASSUME NEW d \in Rows, NEW j \in Jobs, NEW i \in Items \cup {NoItem}, NEW s \in ItemStatus,
         NEW e, e # NoExec => JobOf[e] = j /\ e \in Execs, i # NoItem => JobOf[i] = j
  PROVE  LET c == Finalize(d, j, i, s, e)
         IN  /\ Moves(d, c, j)
             /\ \A k \in Items : c.item[k] # d.item[k] =>
                  /\ k = i /\ d.item[i].status \in ActiveStatus /\ c.item[k].status = s
                  /\ c.item[k].exec = IF e = NoExec THEN d.item[i].exec ELSE e
<1>1. CASE i = NoItem \/ d.item[i].status \notin ActiveStatus
  BY <1>1 DEF Finalize, Moves
<1>2. CASE i \in Items /\ i # NoItem /\ d.item[i].status \in ActiveStatus
  <2> DEFINE b == SetItem(d, i, s)
             x == IF e = NoExec THEN b.item[i].exec ELSE e
             c == BindExecution(b, i, x)
             f == SetJob(c, j, JobOutcome(s))
  <2>1. b \in Rows
    BY <1>2, SetItemType
  <2>2. /\ b.item[i].status = s /\ b.item[i].exec = d.item[i].exec /\ b.exec = d.exec
        /\ \A k \in Items : k # i => b.item[k] = d.item[k]
    BY <1>2, SetItemRow
  <2>3. Finalize(d, j, i, s, e) = f
    BY <1>2 DEF Finalize, BindExecution
  <2> HIDE DEF b
  <2>4. /\ x \in {d.item[i].exec} \/ JobOf[x] = j
        /\ x = IF e = NoExec THEN d.item[i].exec ELSE e
    BY <2>2
  <2>5. x \in Execs \cup {NoExec}
    BY <1>2, <2>1 DEF Rows, ItemRow
  <2> HIDE DEF x
  <2>6. c \in Rows /\ c.exec = b.exec /\ c.item[i].status = s /\ c.item[i].exec = x
        /\ \A k \in Items : k # i => c.item[k] = b.item[k]
    <3> DEFINE r == [b.item[i] EXCEPT !.exec = x]
               y == [b EXCEPT !.item[i] = r]
    <3>1. r \in ItemRow /\ r.exec = x /\ r.status = b.item[i].status
      BY <1>2, <2>1, <2>5 DEF Rows, ItemRow
    <3>2. c = y
      BY <1>2, <2>1 DEF BindExecution, Rows, ItemRow
    <3> HIDE DEF r
    <3>3. /\ y \in Rows /\ y.exec = b.exec /\ y.item[i] = r
          /\ \A k \in Items : k # i => y.item[k] = b.item[k]
      BY <1>2, <2>1, <3>1, RunRow
    <3> HIDE DEF y, c
    <3> QED BY <2>2, <3>1, <3>2, <3>3
  <2> HIDE DEF c
  <2>7. f.item = c.item /\ f.exec = c.exec
    BY <2>6, SetJobMoves
  <2> HIDE DEF f
  <2>8. d.item[i].status \notin Over
    BY <1>2 DEF Over, ActiveStatus
  <2>9. \A k \in Items : k = i \/ f.item[k] = d.item[k]
    BY <2>2, <2>6, <2>7
  <2>10. Moves(d, f, j)
    BY <1>2, <2>2, <2>4, <2>6, <2>7, <2>8, <2>9 DEF Moves
  <2>11. \A k \in Items : f.item[k] # d.item[k] =>
           k = i /\ f.item[k].status = s /\ f.item[k].exec = x
    BY <2>6, <2>7, <2>9
  <2> QED BY <1>2, <2>3, <2>4, <2>10, <2>11
<1> QED BY <1>1, <1>2

\* A stop without an owner ends the active run the same way.
LEMMA MarkActiveCancelledMoves ==
  ASSUME NEW d \in Rows, NEW j \in Jobs, NEW i \in Items \cup {NoItem},
         i # NoItem => JobOf[i] = j
  PROVE  LET c == MarkActiveCancelled(d, j, i)
         IN  /\ Moves(d, c, j)
             /\ \A k \in Items : c.item[k] # d.item[k] =>
                  /\ k = i /\ d.item[i].status \in ActiveStatus
                  /\ c.item[k].status = "cancelled" /\ c.item[k].exec = d.item[i].exec
<1>1. CASE i = NoItem \/ d.item[i].status \notin ActiveStatus
  BY <1>1 DEF MarkActiveCancelled, Moves
<1>2. CASE i \in Items /\ i # NoItem /\ d.item[i].status \in ActiveStatus
  <2> DEFINE b == SetItem(d, i, "cancelled")
             f == SetJob(b, j, "failed")
  <2>1. b \in Rows
    BY <1>2, SetItemType DEF ItemStatus
  <2>2. Moves(d, b, j)
    BY <1>2, SetItemMoves DEF Over, ActiveStatus
  <2>3. /\ b.item[i].status = "cancelled" /\ b.item[i].exec = d.item[i].exec
        /\ \A k \in Items : k # i => b.item[k] = d.item[k]
    BY <1>2, SetItemRow
  <2>4. MarkActiveCancelled(d, j, i) = f
    BY <1>2 DEF MarkActiveCancelled
  <2> HIDE DEF b
  <2>5. Moves(b, f, j) /\ f.item = b.item
    BY <2>1, SetJobMoves
  <2> HIDE DEF f
  <2>6. Moves(d, f, j)
    BY <2>2, <2>5, MovesCompose
  <2>7. \A k \in Items : f.item[k] # d.item[k] =>
          /\ k = i /\ f.item[k].status = "cancelled" /\ f.item[k].exec = d.item[i].exec
    BY <2>3, <2>5
  <2> QED BY <1>2, <2>4, <2>6, <2>7
<1> QED BY <1>1, <1>2

\* One execution changes its row.
LEMMA ExecutionRow ==
  ASSUME NEW d \in Rows, NEW e \in Execs, NEW r
  PROVE  LET c == [d EXCEPT !.exec[e] = r]
         IN  /\ c.exec[e] = r /\ \A k \in Execs : k # e => c.exec[k] = d.exec[k]
             /\ c.item = d.item /\ c.job = d.job
BY DEF Rows

\* An execution that has not completed changes its state, and does not leave its
\* cancellation or its deletion behind.
LEMMA ExecutionFinal ==
  ASSUME NEW c, NEW d, NEW e \in Execs, c.item = d.item,
         \A k \in Execs : k # e => c.exec[k] = d.exec[k],
         Sound(d) /\ d.exec[e].state = "completed" => c.exec[e] = d.exec[e],
         d.exec[e].state \in Fenced => c.exec[e].state \in Fenced,
         c.exec[e].state = "completed" => c.exec[e].status = "completed"
  PROVE  /\ Within(d, c, JobOf[e]) /\ Final(d, c)
         /\ c.exec[e].state # "completed" => Keeps(d, c, JobOf[e])
<1>1. Within(d, c, JobOf[e])
  BY DEF Within
<1>2. c.exec[e].state # "completed" => Unpublished(d, c)
  BY DEF Unpublished
<1>3. ASSUME Sound(d) PROVE Sound(c) /\ RunsFinal(d, c) /\ ExecsFinal(d, c)
  <2>1. Sound(c)
    <3>1. \A k \in Execs : c.exec[k].state = "completed" => c.exec[k].status = "completed"
      BY <1>3 DEF Sound
    <3> QED BY <1>3, <3>1 DEF Sound
  <2>2. RunsFinal(d, c)
    BY DEF RunsFinal
  <2>3. ExecsFinal(d, c)
    BY <1>3 DEF ExecsFinal, Fenced
  <2> QED BY <2>1, <2>2, <2>3
<1> QED BY <1>1, <1>2, <1>3 DEF Final, Keeps

\* The two columns of an execution are written together.
LEMMA SetExecRow ==
  ASSUME NEW d \in Rows, NEW e \in Execs, NEW state \in ExecState, NEW status \in ExecStatus
  PROVE  LET c == SetExec(d, e, state, status)
         IN  /\ c.exec[e].state = state /\ c.exec[e].status = status
             /\ c.exec[e].item = d.exec[e].item /\ c.exec[e].gen = d.exec[e].gen
             /\ \A k \in Execs : k # e => c.exec[k] = d.exec[k]
             /\ c.item = d.item /\ c.job = d.job /\ c \in Rows
<1> DEFINE r == [d.exec[e] EXCEPT !.state = state, !.status = status]
           c == [d EXCEPT !.exec[e] = r]
<1>1. /\ r.state = state /\ r.status = status
      /\ r.item = d.exec[e].item /\ r.gen = d.exec[e].gen
  BY DEF Rows, ExecRow
<1>2. SetExec(d, e, state, status) = c
  BY DEF SetExec, Rows, ExecRow
<1>3. SetExec(d, e, state, status) \in Rows
  BY SetExecLemma
<1> HIDE DEF r
<1>4. /\ c.exec[e] = r /\ \A k \in Execs : k # e => c.exec[k] = d.exec[k]
      /\ c.item = d.item /\ c.job = d.job
  BY DEF Rows
<1> HIDE DEF c
<1> QED BY <1>1, <1>2, <1>3, <1>4

\* The owner generation moves on and nothing else does.
LEMMA GenRow ==
  ASSUME NEW d \in Rows, NEW e \in Execs
  PROVE  LET c == [d EXCEPT !.exec[e].gen = @ + 1]
         IN  /\ c.exec[e].state = d.exec[e].state /\ c.exec[e].status = d.exec[e].status
             /\ c.exec[e].item = d.exec[e].item
             /\ \A k \in Execs : k # e => c.exec[k] = d.exec[k]
             /\ c.item = d.item /\ c.job = d.job /\ c \in Rows
<1> DEFINE r == [d.exec[e] EXCEPT !.gen = @ + 1]
           c == [d EXCEPT !.exec[e] = r]
<1>1. /\ r.state = d.exec[e].state /\ r.status = d.exec[e].status
      /\ r.item = d.exec[e].item
  BY DEF Rows, ExecRow
<1>2. [d EXCEPT !.exec[e].gen = @ + 1] = c
  BY DEF Rows, ExecRow
<1>3. [d EXCEPT !.exec[e].gen = @ + 1] \in Rows
  BY FenceLemma
<1> HIDE DEF r
<1>4. /\ c.exec[e] = r /\ \A k \in Execs : k # e => c.exec[k] = d.exec[k]
      /\ c.item = d.item /\ c.job = d.job
  BY DEF Rows
<1> HIDE DEF c
<1> QED BY <1>1, <1>2, <1>3, <1>4

\* A cancellation fences an execution that has not completed, and no run.
LEMMA CancelKeepsFinal ==
  ASSUME NEW d \in Rows, NEW j \in Jobs, NEW e \in Execs, CanCancel(d, e), JobOf[e] = j
  PROVE  LET c == Cancel(d, j, e)
         IN  /\ Keeps(d, c, j) /\ c.item = d.item /\ c.exec[e].state = "cancelled"
<1>1. CASE d.exec[e].state = "cancelled"
  BY <1>1, StillMoves, MovesKeep DEF Cancel
<1>2. CASE d.exec[e].state # "cancelled"
  <2> DEFINE a == SetExec(d, e, "cancelled", "failed")
             b == [a EXCEPT !.exec[e].gen = @ + 1]
             c == SetJob(b, j, "failed")
  <2>1. /\ a.exec[e].state = "cancelled" /\ \A k \in Execs : k # e => a.exec[k] = d.exec[k]
        /\ a.item = d.item /\ a \in Rows
    BY SetExecRow, SMTT(30) DEF ExecState, ExecStatus
  <2>2. Cancel(d, j, e) = c
    BY <1>2 DEF Cancel
  <2> HIDE DEF a
  <2>3. /\ b.exec[e].state = "cancelled" /\ \A k \in Execs : k # e => b.exec[k] = d.exec[k]
        /\ b.item = d.item /\ b \in Rows
    BY <2>1, GenRow
  <2> HIDE DEF b
  <2>4. c.item = b.item /\ c.exec = b.exec
    BY <2>3, SetJobMoves
  <2> HIDE DEF c
  <2>5. Sound(d) => d.exec[e].state # "completed"
    BY DEF Sound, CanCancel
  <2>6. /\ \A k \in Execs : k # e => c.exec[k] = d.exec[k]
        /\ c.exec[e].state = "cancelled" /\ c.item = d.item
    BY <2>3, <2>4
  <2>7. Keeps(d, c, j)
    BY <2>5, <2>6, ExecutionFinal DEF Fenced
  <2> QED BY <2>2, <2>6, <2>7
<1> QED BY <1>1, <1>2

\* A new execution is bound to the run it was begun for.
LEMMA BeginKeepsFinal ==
  ASSUME NEW d \in Rows, NEW i \in Items \cup {NoItem}, NEW e \in Execs, NEW x \in Deadline,
         d.exec[e].state = "none",
         i # NoItem => CanBind(d, i, e) /\ JobOf[i] = JobOf[e]
  PROVE  LET c == Begin(d, i, e, x)
         IN  /\ Keeps(d, c, JobOf[e])
             /\ \A k \in Items : k # i => c.item[k] = d.item[k]
<1> DEFINE r == [item |-> i, gen |-> 1, state |-> "running",
                 status |-> "processing", deadline |-> x, budget |-> "left"]
           b == [d EXCEPT !.exec[e] = r]
           c == BindExecution(b, i, e)
<1>1. r.state = "running"
  OBVIOUS
<1>2. Begin(d, i, e, x) = IF i = NoItem THEN b ELSE c
  BY DEF Begin
<1>3. b \in Rows
  BY DEF Rows, ExecRow, ExecState, ExecStatus, Budget
<1> HIDE DEF r
<1>4. /\ b.exec[e] = r /\ \A k \in Execs : k # e => b.exec[k] = d.exec[k]
      /\ b.item = d.item
  BY DEF Rows
<1> HIDE DEF b
<1>5. Keeps(d, b, JobOf[e])
  BY <1>1, <1>4, ExecutionFinal DEF Fenced
<1>6. CASE i = NoItem
  BY <1>2, <1>4, <1>5, <1>6
<1>7. CASE i # NoItem
  <2>1. i \in Items /\ b.item[i].status \notin Over /\ JobOf[i] = JobOf[e]
    BY <1>4, <1>7 DEF CanBind, Over
  <2>2. Moves(b, c, JobOf[e]) /\ \A k \in Items : k # i => c.item[k] = b.item[k]
    BY <1>3, <2>1, BindMoves
  <2> HIDE DEF c
  <2>3. Keeps(d, c, JobOf[e])
    BY <1>5, <2>2, KeepThenMove
  <2> QED BY <1>2, <1>4, <1>7, <2>2, <2>3
<1> QED BY <1>6, <1>7

\* An admitted resume starts to run.
LEMMA ClaimResumeKeepsFinal ==
  ASSUME NEW d \in Rows, NEW e \in Execs, CanClaimResume(d, e)
  PROVE  Keeps(d, ClaimResume(d, e), JobOf[e]) /\ ClaimResume(d, e).item = d.item
<1> DEFINE c == SetExec(d, e, "running", "processing")
<1>1. /\ c.exec[e].state = "running" /\ c.item = d.item
      /\ \A k \in Execs : k # e => c.exec[k] = d.exec[k]
  BY SetExecRow, SMTT(30) DEF ExecState, ExecStatus
<1>2. ClaimResume(d, e) = c
  BY DEF ClaimResume
<1> HIDE DEF c
<1>3. d.exec[e].state = "pending"
  BY DEF CanClaimResume
<1>4. Keeps(d, c, JobOf[e])
  BY <1>1, <1>3, ExecutionFinal DEF Fenced
<1> QED BY <1>1, <1>2, <1>4

\* An outcome ends an execution that is not over, with its run if that one is not.
LEMMA OutcomeFinal ==
  ASSUME NEW d \in Rows, NEW j \in Jobs, NEW e \in Execs, NEW s \in {"completed", "failed"},
         JobOf[e] = j, d.exec[e].state \in {"pending", "running"},
         HoldsItem(d, e, ActiveStatus)
  PROVE  LET i == d.exec[e].item
             c == SetJob(SetExec(d, e, s, s), j, s)
             f == IF i = NoItem THEN c ELSE SetItem(c, i, s)
         IN  /\ Within(d, f, j) /\ Final(d, f)
             /\ s = "failed" => Keeps(d, f, j)
             /\ \A k \in Execs : k # e => f.exec[k] = d.exec[k]
             /\ f.exec[e].state = s /\ f.exec[e].gen = d.exec[e].gen
<1> DEFINE i == d.exec[e].item
           b == SetExec(d, e, s, s)
           c == SetJob(b, j, s)
           f == IF i = NoItem THEN c ELSE SetItem(c, i, s)
<1>1. /\ b.exec[e].state = s /\ b.exec[e].status = s /\ b.exec[e].gen = d.exec[e].gen
      /\ \A k \in Execs : k # e => b.exec[k] = d.exec[k]
      /\ b.item = d.item /\ b \in Rows
  <2>1. s \in ExecState /\ s \in ExecStatus
    BY DEF ExecState, ExecStatus
  <2> QED BY <2>1, SetExecRow
<1>2. i \in Items \cup {NoItem}
  BY DEF Rows, ExecRow
<1>3. i # NoItem => JobOf[i] = j /\ d.item[i].status \notin Over
  BY DEF HoldsItem, ActiveStatus, Over
<1> HIDE DEF b, i
<1>4. c \in Rows /\ c.item = b.item /\ c.exec = b.exec
  <2>1. s \in JobStatus
    BY DEF JobStatus
  <2> QED BY <1>1, <2>1, SetJobLemma, SetJobMoves
<1> HIDE DEF c
<1>5. Within(d, c, j) /\ Final(d, c) /\ (s = "failed" => Keeps(d, c, j))
  <2>1. d.exec[e].state \notin Fenced /\ d.exec[e].state # "completed"
    BY DEF Fenced
  <2>2. /\ c.item = d.item /\ \A k \in Execs : k # e => c.exec[k] = d.exec[k]
        /\ c.exec[e].state = s /\ c.exec[e].status = s
    BY <1>1, <1>4
  <2> QED BY <2>1, <2>2, ExecutionFinal
<1>6. Moves(c, f, j)
  <2>1. CASE i = NoItem
    BY <2>1, StillMoves
  <2>2. CASE i # NoItem
    <3>1. i \in Items /\ c.item[i].status \notin Over /\ JobOf[i] = j
      BY <1>1, <1>2, <1>3, <1>4, <2>2
    <3> QED BY <1>4, <2>2, <3>1, SetItemMoves
  <2> QED BY <2>1, <2>2
<1>7. f.exec = c.exec
  BY <1>6 DEF Moves
<1> HIDE DEF f
<1>8. Within(d, f, j) /\ Final(d, f) /\ (s = "failed" => Keeps(d, f, j))
  BY <1>5, <1>6, KeepThenMove
<1> QED BY <1>1, <1>4, <1>7, <1>8 DEF f, c, b, i

\* An expired resume ends failed.
LEMMA ExpirePendingKeepsFinal ==
  ASSUME NEW d \in Rows, NEW j \in Jobs, NEW e \in Execs, JobOf[e] = j, CanExpire(d, j, e)
  PROVE  Keeps(d, ExpirePending(d, j, e), j)
<1>1. d.exec[e].state \in {"pending", "running"} /\ HoldsItem(d, e, ActiveStatus)
  BY DEF CanExpire
<1> QED BY <1>1, OutcomeFinal DEF ExpirePending

\* A publication ends the execution it is fenced by.
LEMMA FinishFinal ==
  ASSUME NEW d \in Rows, NEW j \in Jobs, NEW e \in Execs, NEW s \in {"completed", "failed"},
         NEW g, JobOf[e] = j, CanFinish(d, e, g, s)
  PROVE  LET c == Finish(d, j, e, s)
         IN  /\ Within(d, c, j) /\ Final(d, c)
             /\ s = "failed" => Keeps(d, c, j)
             /\ \A k \in Execs : k # e => c.exec[k] = d.exec[k]
             /\ c.exec[e].state = s /\ c.exec[e].gen = g
<1>1. d.exec[e].state \in {"pending", "running"} /\ d.exec[e].gen = g
  BY DEF CanFinish
<1>2. HoldsItem(d, e, ActiveStatus)
  BY DEF CanFinish, HoldsItem, ActiveStatus
<1> QED BY <1>1, <1>2, OutcomeFinal DEF Finish

\* From d to c a run that is over stays so, or is a failed one whose own execution
\* is readmitted.
RunsResumed(d, c) ==
  \A i \in Items : d.item[i].status \in Over =>
    \/ c.item[i].status \in {d.item[i].status, "gone"}
    \/ /\ d.item[i].status = "failed" /\ c.item[i].status = "pending"
       /\ d.item[i].exec # NoExec /\ c.exec[d.item[i].exec].state = "pending"

\* A resume readmits an execution and the run it is bound to.
LEMMA RequestResumeFinal ==
  ASSUME NEW d \in Rows, NEW j \in Jobs, NEW e \in Execs, JobOf[e] = j, Resumable(d, j, e)
  PROVE  LET c == RequestResume(d, j, e)
             i == d.exec[e].item
         IN  /\ Unpublished(d, c) /\ RunsResumed(d, c)
             /\ Sound(d) => Sound(c) /\ ExecsFinal(d, c)
             /\ \A k \in Items : c.item[k] # d.item[k] =>
                  /\ k = i /\ i # NoItem /\ JobOf[i] = j
                  /\ c.item[i].status = "pending" /\ c.item[i].exec = e
             /\ i # NoItem => c.item[i].status = "pending" /\ c.item[i].exec = e
             /\ c.exec[e].state = "pending" /\ c.exec[e].status = "pending"
             /\ c.exec[e].item = i /\ \A k \in Execs : k # e => c.exec[k] = d.exec[k]
<1> DEFINE i == d.exec[e].item
           a == SetExec(d, e, "pending", "pending")
           b == [a EXCEPT !.exec[e].gen = @ + 1]
           r == [b.item[i] EXCEPT !.status = "pending"]
           x == [b EXCEPT !.item[i].status = "pending"]
           y == [b EXCEPT !.item[i] = r]
           z == IF i = NoItem THEN b ELSE x
           c == SetJob(z, j, "pending")
<1>1. i \in Items \cup {NoItem}
  BY DEF Rows, ExecRow
<1>2. /\ d.exec[e].state \in {"failed", "interrupted"}
      /\ i # NoItem => /\ JobOf[i] = j /\ d.item[i].exec = e
                       /\ d.item[i].status \in {"failed", "processing"}
  BY DEF Resumable, HoldsItem
<1>3. RequestResume(d, j, e) = c
  BY DEF RequestResume
<1> HIDE DEF i
<1>4. /\ a.exec[e].state = "pending" /\ a.exec[e].status = "pending"
      /\ a.exec[e].item = d.exec[e].item
      /\ \A k \in Execs : k # e => a.exec[k] = d.exec[k]
      /\ a.item = d.item /\ a \in Rows
  <2>1. "pending" \in ExecState /\ "pending" \in ExecStatus
    BY DEF ExecState, ExecStatus
  <2> QED BY <2>1, SetExecRow
<1> HIDE DEF a
<1>5. /\ b.exec[e].state = "pending" /\ b.exec[e].status = "pending"
      /\ b.exec[e].item = d.exec[e].item
      /\ \A k \in Execs : k # e => b.exec[k] = d.exec[k]
      /\ b.item = d.item /\ b \in Rows
  BY <1>4, GenRow
<1> HIDE DEF b
<1>6. /\ z.exec = b.exec /\ z \in Rows
      /\ \A k \in Items : z.item[k] # d.item[k] =>
           k = i /\ i # NoItem /\ z.item[i].status = "pending" /\ z.item[i].exec = e
      /\ i # NoItem => z.item[i].status = "pending" /\ z.item[i].exec = e
  <2>1. CASE i = NoItem
    BY <1>5, <2>1
  <2>2. CASE i # NoItem /\ i \in Items
    <3>1. r \in ItemRow /\ r.status = "pending" /\ r.exec = e
      BY <1>2, <1>5, <2>2 DEF Rows, ItemRow, ItemStatus
    <3>2. x = y
      BY <1>5, <2>2 DEF Rows, ItemRow
    <3> HIDE DEF r, x
    <3>3. /\ y \in Rows /\ y.exec = b.exec /\ y.item[i] = r
          /\ \A k \in Items : k # i => y.item[k] = b.item[k]
      BY <1>5, <2>2, <3>1, RunRow
    <3> HIDE DEF y
    <3>4. z = y
      BY <2>2, <3>2
    <3> HIDE DEF z
    <3> QED BY <1>5, <2>2, <3>1, <3>3, <3>4
  <2> QED BY <1>1, <2>1, <2>2
<1> HIDE DEF z
<1>7. c.item = z.item /\ c.exec = z.exec
  BY <1>6, SetJobMoves
<1> HIDE DEF c
<1>8. \A k \in Items : c.item[k] # d.item[k] =>
        /\ k = i /\ i # NoItem /\ JobOf[i] = j
        /\ c.item[i].status = "pending" /\ c.item[i].exec = e
  BY <1>2, <1>6, <1>7
<1>9. /\ \A k \in Execs : k # e => c.exec[k] = d.exec[k]
      /\ c.exec[e].state = "pending" /\ c.exec[e].status = "pending"
      /\ c.exec[e].item = d.exec[e].item
  BY <1>5, <1>6, <1>7
<1>10. Unpublished(d, c)
  BY <1>9 DEF Unpublished
<1>11. RunsResumed(d, c)
  <2> SUFFICES ASSUME NEW k \in Items, d.item[k].status \in Over, c.item[k] # d.item[k]
               PROVE  /\ d.item[k].status = "failed" /\ c.item[k].status = "pending"
                      /\ d.item[k].exec # NoExec /\ c.exec[d.item[k].exec].state = "pending"
    BY DEF RunsResumed
  <2>1. k = i /\ i # NoItem /\ c.item[i].status = "pending"
    BY <1>8
  <2>2. d.item[k].exec = e /\ d.item[k].status = "failed"
    BY <1>2, <2>1 DEF Over
  <2> QED BY <1>9, <2>1, <2>2, IdAssumption
<1>12. ASSUME Sound(d) PROVE Sound(c) /\ ExecsFinal(d, c)
  <2>1. \A k \in Execs : c.exec[k].state = "completed" => c.exec[k].status = "completed"
    BY <1>9, <1>12 DEF Sound
  <2>2. \A k \in Items : c.item[k].exec # NoExec => JobOf[c.item[k].exec] = JobOf[k]
    BY <1>8, <1>12 DEF Sound
  <2>3. ExecsFinal(d, c)
    BY <1>2, <1>9 DEF ExecsFinal, Fenced
  <2> QED BY <2>1, <2>2, <2>3 DEF Sound
<1> QED BY <1>3, <1>6, <1>7, <1>8, <1>9, <1>10, <1>11, <1>12 DEF i

\* Executions whose status alone changes, and not from completed.
LEMMA StatusFinal ==
  ASSUME NEW c, NEW d, NEW j, c.item = d.item,
         \A e \in Execs : \/ c.exec[e] = d.exec[e]
                          \/ /\ JobOf[e] = j /\ c.exec[e].state = d.exec[e].state
                             /\ d.exec[e].status # "completed"
  PROVE  Keeps(d, c, j)
<1>1. Within(d, c, j) /\ Unpublished(d, c)
  BY DEF Within, Unpublished
<1>2. ASSUME Sound(d) PROVE Sound(c) /\ RunsFinal(d, c) /\ ExecsFinal(d, c)
  <2>1. \A e \in Execs : c.exec[e].state = "completed" => c.exec[e].status = "completed"
    BY <1>2 DEF Sound
  <2>2. Sound(c)
    BY <1>2, <2>1 DEF Sound
  <2>3. RunsFinal(d, c) /\ ExecsFinal(d, c)
    BY DEF RunsFinal, ExecsFinal, Fenced
  <2> QED BY <2>2, <2>3
<1> QED BY <1>1, <1>2 DEF Keeps, Final

\* Executions whose state does not change, whatever recordings they belong to.
LEMMA StatesFinal ==
  ASSUME NEW c, NEW d, c.item = d.item,
         \A e \in Execs :
           \/ c.exec[e] = d.exec[e]
           \/ c.exec[e].state = d.exec[e].state /\ d.exec[e].status # "completed"
           \/ d.exec[e].state \in {"pending", "running"} /\ c.exec[e].state = "interrupted"
           \/ c.exec[e].state = d.exec[e].state /\ c.exec[e].status = d.exec[e].status
  PROVE  Final(d, c) /\ Unpublished(d, c)
<1>1. Unpublished(d, c)
  BY DEF Unpublished
<1>2. ASSUME Sound(d) PROVE Sound(c) /\ RunsFinal(d, c) /\ ExecsFinal(d, c)
  <2>1. \A e \in Execs : c.exec[e].state = "completed" => c.exec[e].status = "completed"
    BY <1>2 DEF Sound
  <2>2. Sound(c)
    BY <1>2, <2>1 DEF Sound
  <2>3. RunsFinal(d, c)
    BY DEF RunsFinal
  <2>4. ExecsFinal(d, c)
    BY DEF ExecsFinal, Fenced
  <2> QED BY <2>2, <2>3, <2>4
<1> QED BY <1>1, <1>2 DEF Final

\* A repair writes the status of executions that have not completed.
LEMMA FailProcessingKeepsFinal ==
  ASSUME NEW d \in Rows, NEW j \in Jobs
  PROVE  Keeps(d, FailProcessing(d, j), j)
<1> DEFINE r(e) == [d.exec[e] EXCEPT !.status = "failed"]
           c == FailProcessing(d, j)
<1>1. \A e \in Execs : r(e).state = d.exec[e].state
  BY DEF Rows, ExecRow
<1>2. c.item = d.item
  BY FailProcessingLemma
<1>3. \A e \in Execs : c.exec[e] = IF JobOf[e] = j /\ d.exec[e].status = "processing"
                                   THEN r(e) ELSE d.exec[e]
  BY DEF FailProcessing, Rows
<1> HIDE DEF r, c
<1>4. \A e \in Execs : \/ c.exec[e] = d.exec[e]
                       \/ /\ JobOf[e] = j /\ c.exec[e].state = d.exec[e].state
                          /\ d.exec[e].status # "completed"
  BY <1>1, <1>3
<1> QED BY <1>2, <1>4, StatusFinal DEF c

\* Startup interrupts what was running or admitted.
LEMMA InterruptAllFinal ==
  ASSUME NEW d \in Rows
  PROVE  Final(d, InterruptAll(d)) /\ Unpublished(d, InterruptAll(d))
<1> DEFINE r(e) == [d.exec[e] EXCEPT !.state = "interrupted", !.status = "failed"]
           c == InterruptAll(d)
<1>1. \A e \in Execs : r(e).state = "interrupted"
  BY DEF Rows, ExecRow
<1>2. c.item = d.item
  BY InterruptAllLemma
<1>3. \A e \in Execs : c.exec[e] = IF d.exec[e].state \in {"pending", "running"}
                                   THEN r(e) ELSE d.exec[e]
  BY DEF InterruptAll, Rows
<1> HIDE DEF r, c
<1>4. \A e \in Execs : \/ c.exec[e] = d.exec[e]
                       \/ d.exec[e].state \in {"pending", "running"}
                          /\ c.exec[e].state = "interrupted"
  BY <1>1, <1>3
<1> QED BY <1>2, <1>4, StatesFinal DEF c

\* A deleted recording's runs and executions are gone.
LEMMA DeleteKeepsFinal ==
  ASSUME NEW d \in Rows, NEW j \in Jobs
  PROVE  Keeps(d, DeleteWithAssociations(d, j), j)
<1> DEFINE c == DeleteWithAssociations(d, j)
           r(e) == [d.exec[e] EXCEPT !.state = "gone", !.status = "none"]
<1>1. \A e \in Execs : r(e).state = "gone"
  BY DEF Rows, ExecRow
<1>2. \A e \in Execs : c.exec[e] = IF JobOf[e] = j /\ d.exec[e].state # "none"
                                   THEN r(e) ELSE d.exec[e]
  BY DEF DeleteWithAssociations
<1>3. \A i \in Items : \/ c.item[i] = d.item[i]
                       \/ /\ JobOf[i] = j /\ c.item[i].status = "gone"
                          /\ c.item[i].exec = NoExec
  BY DEF DeleteWithAssociations
<1> HIDE DEF c, r
<1>4. \A e \in Execs : c.exec[e] = d.exec[e] \/ (JobOf[e] = j /\ c.exec[e].state = "gone")
  BY <1>1, <1>2
<1>5. Within(d, c, j) /\ Unpublished(d, c)
  BY <1>3, <1>4 DEF Within, Unpublished
<1>6. ASSUME Sound(d) PROVE Sound(c) /\ RunsFinal(d, c) /\ ExecsFinal(d, c)
  <2>1. Sound(c)
    BY <1>3, <1>4, <1>6 DEF Sound
  <2>2. RunsFinal(d, c) /\ ExecsFinal(d, c)
    BY <1>3, <1>4 DEF RunsFinal, ExecsFinal, Fenced
  <2> QED BY <2>1, <2>2
<1> QED BY <1>5, <1>6 DEF Keeps, Final, c

\* Startup fails the runs whose execution was not kept, and leaves those of the
\* protected recordings alone.
LEMMA FailInterruptedFinal ==
  ASSUME NEW d \in Rows, NEW P
  PROVE  LET c == FailInterruptedExcept(d, P)
         IN  /\ c.exec = d.exec /\ Final(d, c)
             /\ \A i \in Items : JobOf[i] \in P => c.item[i] = d.item[i]
<1> DEFINE c == FailInterruptedExcept(d, P)
           r(i) == [d.item[i] EXCEPT !.status = "failed", !.pos = 0]
<1>1. /\ c.exec = d.exec
      /\ \A i \in Items : c.item[i] = IF d.item[i].status = "processing" /\ JobOf[i] \notin P
                                      THEN r(i) ELSE d.item[i]
  BY DEF FailInterruptedExcept, Rows
<1>2. \A i \in Items : r(i).exec = d.item[i].exec
  BY DEF Rows, ItemRow
<1> HIDE DEF c, r
<1>3. \A i \in Items : \/ c.item[i] = d.item[i]
                       \/ /\ JobOf[i] \notin P /\ d.item[i].status = "processing"
                          /\ c.item[i].exec = d.item[i].exec
  BY <1>1, <1>2
<1>4. ASSUME Sound(d) PROVE Sound(c) /\ RunsFinal(d, c) /\ ExecsFinal(d, c)
  <2>1. Sound(c)
    BY <1>1, <1>3, <1>4 DEF Sound
  <2>2. RunsFinal(d, c) /\ ExecsFinal(d, c)
    BY <1>1, <1>3 DEF RunsFinal, ExecsFinal, Fenced, Over
  <2> QED BY <2>1, <2>2
<1> QED BY <1>1, <1>3, <1>4 DEF Final, c

-----------------------------------------------------------------------------
(* Runs and executions tell one story.                                     *)

\* An execution that does not exist yet is blank, and completion is written in both
\* columns at once.
Columns(d) ==
  \A e \in Execs :
    /\ d.exec[e].state = "none" => d.exec[e].status = "none" /\ d.exec[e].item = NoItem
    /\ d.exec[e].state = "completed" <=> d.exec[e].status = "completed"

\* At most one execution of a recording counts as its owner.
SingleCompeting(d) ==
  \A e, f \in Execs :
    /\ JobOf[e] = JobOf[f]
    /\ d.exec[e].status \in ActiveStatus /\ d.exec[f].status \in ActiveStatus
    => e = f

\* A run i with this status may name this execution: that one was begun for it, and
\* they agree about how it ended.
Agrees(d, i, status, exec) ==
  exec # NoExec =>
    /\ d.exec[exec].item = i /\ status \notin {"none", "queued", "gone"}
    /\ status = "completed" <=> d.exec[exec].state = "completed"
    /\ status = "cancelled" => d.exec[exec].state = "cancelled"

RunsAgree(d) == \A i \in Items : Agrees(d, i, d.item[i].status, d.item[i].exec)

Tidy(d) == Columns(d) /\ SingleCompeting(d) /\ RunsAgree(d)

\* A run that has left the waiting line, whose execution has not begun and is not
\* about to; and one whose execution has begun.
Unbound(d, i) ==
  d.item[i].exec = NoExec /\ d.item[i].status \notin {"none", "queued", "processing"}
Bound(d, i) == d.item[i].exec # NoExec \/ d.item[i].status = "gone"

\* From d to c executions remember their runs, and runs stay unbound or bound.
Ages(d, c) ==
  /\ \A e \in Execs : d.exec[e].item # NoItem => c.exec[e].item = d.exec[e].item
  /\ \A i \in Items : /\ Unbound(d, i) => Unbound(c, i)
                      /\ Bound(d, i) => Bound(c, i)

\* A transaction from d to c keeps the story straight.
Proper(d, c) == Tidy(d) => Tidy(c) /\ Ages(d, c)

\* Transactions compose.
LEMMA ProperCompose ==
  ASSUME NEW b, NEW c, NEW d, Proper(d, b), Proper(b, c)
  PROVE  Proper(d, c)
<1> SUFFICES ASSUME Tidy(d) PROVE Tidy(c) /\ Ages(d, c)
  BY DEF Proper
<1>1. Tidy(b) /\ Ages(d, b) /\ Tidy(c) /\ Ages(b, c)
  BY DEF Proper
<1>2. \A e \in Execs : d.exec[e].item # NoItem => c.exec[e].item = d.exec[e].item
  BY <1>1 DEF Ages
<1>3. \A i \in Items : (Unbound(d, i) => Unbound(c, i)) /\ (Bound(d, i) => Bound(c, i))
  BY <1>1 DEF Ages
<1> QED BY <1>1, <1>2, <1>3 DEF Ages

\* A transaction on runs: each stays as it was or moves to a row that may be.
LEMMA RunsProper ==
  ASSUME NEW c, NEW d, c.exec = d.exec,
         Tidy(d) => \A i \in Items :
           \/ c.item[i].status = d.item[i].status /\ c.item[i].exec = d.item[i].exec
           \/ /\ Agrees(d, i, c.item[i].status, c.item[i].exec)
              /\ Unbound(d, i) => Unbound(c, i)
              /\ Bound(d, i) => Bound(c, i)
  PROVE  Proper(d, c)
<1> SUFFICES ASSUME Tidy(d) PROVE Tidy(c) /\ Ages(d, c)
  BY DEF Proper
<1>1. Columns(c) /\ SingleCompeting(c)
  BY DEF Tidy, Columns, SingleCompeting
<1>2. RunsAgree(c)
  BY DEF Tidy, RunsAgree, Agrees
<1>3. Ages(d, c)
  BY DEF Ages, Unbound, Bound
<1> QED BY <1>1, <1>2, <1>3 DEF Tidy

\* A transaction on recordings alone.
LEMMA StillProper ==
  ASSUME NEW c, NEW d, c.item = d.item, c.exec = d.exec
  PROVE  Proper(d, c)
BY RunsProper

\* A transaction on executions: none begins, completes, or counts as an owner that
\* did not, and a completed or cancelled one stays so.
LEMMA ExecsProper ==
  ASSUME NEW c, NEW d, c.item = d.item, d \in Rows,
         Columns(d) => \A e \in Execs :
           /\ c.exec[e].item = d.exec[e].item
           /\ c.exec[e].state = "none" => d.exec[e].state = "none"
           /\ c.exec[e].state = "none" => c.exec[e].status = "none"
           /\ c.exec[e].state = "completed" <=> d.exec[e].state = "completed"
           /\ c.exec[e].status = "completed" <=> d.exec[e].status = "completed"
           /\ d.exec[e].state = "cancelled" => c.exec[e].state = "cancelled"
           /\ c.exec[e].status \in ActiveStatus => d.exec[e].status \in ActiveStatus
  PROVE  Proper(d, c)
<1> SUFFICES ASSUME Tidy(d) PROVE Tidy(c) /\ Ages(d, c)
  BY DEF Proper
<1>1. Columns(c)
  BY DEF Tidy, Columns
<1>2. SingleCompeting(c)
  BY DEF Tidy, SingleCompeting
<1>3. \A i \in Items : d.item[i].exec \in Execs \cup {NoExec}
  BY DEF Rows, ItemRow
<1>4. RunsAgree(c)
  BY <1>3 DEF Tidy, RunsAgree, Agrees
<1>5. Ages(d, c)
  BY DEF Tidy, Ages, Unbound, Bound
<1> QED BY <1>1, <1>2, <1>4, <1>5 DEF Tidy

\* A transaction on one execution and the run it was begun for.
LEMMA PairProper ==
  ASSUME NEW c, NEW d \in Rows, NEW e \in Execs, NEW i \in Items \cup {NoItem},
         \A f \in Execs : f # e => c.exec[f] = d.exec[f],
         \A k \in Items : k # i => c.item[k] = d.item[k],
         c.exec[e].item = i, d.exec[e].item = i \/ d.exec[e].state = "none",
         c.exec[e].state # "none",
         c.exec[e].state = "completed" <=> c.exec[e].status = "completed",
         c.exec[e].status \in ActiveStatus =>
           Competing(d, JobOf[e]) \subseteq {e},
         i # NoItem => /\ c.item[i].exec = e
                       /\ c.item[i].status \notin {"none", "queued", "gone"}
                       /\ c.item[i].status = "completed" <=> c.exec[e].state = "completed"
                       /\ c.item[i].status = "cancelled" => c.exec[e].state = "cancelled"
                       /\ ~Unbound(d, i)
  PROVE  Proper(d, c)
<1> SUFFICES ASSUME Tidy(d) PROVE Tidy(c) /\ Ages(d, c)
  BY DEF Proper
<1>1. Columns(c)
  BY DEF Tidy, Columns
<1>2. SingleCompeting(c)
  BY DEF Tidy, SingleCompeting, Competing, ExecsOf
<1>3. \A k \in Items : d.item[k].exec \in Execs \cup {NoExec}
  BY DEF Rows, ItemRow
<1>4. \A k \in Items : k # i => d.item[k].exec # e
  <2> SUFFICES ASSUME NEW k \in Items, k # i, d.item[k].exec = e PROVE FALSE
    OBVIOUS
  <2>1. d.exec[e].item = k
    BY IdAssumption DEF Tidy, RunsAgree, Agrees
  <2> QED BY <2>1, IdAssumption DEF Tidy, Columns
<1>5. RunsAgree(c)
  <2> SUFFICES ASSUME NEW k \in Items PROVE Agrees(c, k, c.item[k].status, c.item[k].exec)
    BY DEF RunsAgree
  <2>1. CASE k = i
    BY <2>1, IdAssumption DEF Agrees
  <2>2. CASE k # i
    <3>1. /\ c.item[k] = d.item[k] /\ d.item[k].exec # e
          /\ d.item[k].exec \in Execs \cup {NoExec}
          /\ Agrees(d, k, d.item[k].status, d.item[k].exec)
      BY <1>3, <1>4, <2>2 DEF Tidy, RunsAgree
    <3> QED BY <3>1 DEF Agrees
  <2> QED BY <2>1, <2>2
<1>6. Ages(d, c)
  <2>1. \A f \in Execs : d.exec[f].item # NoItem => c.exec[f].item = d.exec[f].item
    BY DEF Tidy, Columns
  <2>2. \A k \in Items : k # i => /\ Unbound(d, k) => Unbound(c, k)
                                  /\ Bound(d, k) => Bound(c, k)
    BY DEF Unbound, Bound
  <2>3. i # NoItem => Bound(c, i)
    BY IdAssumption DEF Bound
  <2> QED BY <2>1, <2>2, <2>3, IdAssumption DEF Ages
<1> QED BY <1>1, <1>2, <1>5, <1>6 DEF Tidy

\* What a transaction leaves of recording j: its executions, and its runs in hand or
\* over.
Rests(d, c, j) ==
  /\ \A e \in Execs : JobOf[e] = j =>
       /\ c.exec[e].state = d.exec[e].state /\ c.exec[e].gen = d.exec[e].gen
       /\ c.exec[e].item = d.exec[e].item
  /\ \A i \in Items : JobOf[i] = j /\ d.item[i].status \in Over \cup {"processing"} =>
       c.item[i].status = d.item[i].status /\ c.item[i].exec = d.item[i].exec

\* A transaction on another recording.
LEMMA RestsWithin ==
  ASSUME NEW c, NEW d, NEW j, NEW k, Within(d, c, k), j # k
  PROVE  Rests(d, c, j)
BY DEF Within, Rests

\* A transaction on recordings alone.
LEMMA RestsStill ==
  ASSUME NEW c, NEW d, NEW j, c.item = d.item, c.exec = d.exec
  PROVE  Rests(d, c, j)
BY DEF Rests

\* Transactions that leave the same things compose.
LEMMA RestsCompose ==
  ASSUME NEW b, NEW c, NEW d, NEW j, Rests(d, b, j), Rests(b, c, j)
  PROVE  Rests(d, c, j)
<1>1. \A e \in Execs : JobOf[e] = j =>
        /\ c.exec[e].state = d.exec[e].state /\ c.exec[e].gen = d.exec[e].gen
        /\ c.exec[e].item = d.exec[e].item
  BY DEF Rests
<1>2. \A i \in Items : JobOf[i] = j /\ d.item[i].status \in Over \cup {"processing"} =>
        c.item[i].status = d.item[i].status /\ c.item[i].exec = d.item[i].exec
  BY DEF Rests
<1> QED BY <1>1, <1>2 DEF Rests

\* A change of the waiting line: runs enter it, move up in it and leave it, either as
\* admitted or as cancelled.
LineChange(d, c) ==
  /\ c.exec = d.exec
  /\ \A i \in Items :
       \/ c.item[i].status = d.item[i].status /\ c.item[i].exec = d.item[i].exec
       \/ /\ d.item[i].status = "none"
          /\ c.item[i].status = "queued" /\ c.item[i].exec = NoExec
       \/ /\ d.item[i].status = "queued" /\ c.item[i].exec = d.item[i].exec
          /\ c.item[i].status \in {"pending", "cancelled"}

\* It leaves what is in hand or over, and the story straight.
LEMMA LineProper ==
  ASSUME NEW c, NEW d, LineChange(d, c)
  PROVE  Proper(d, c) /\ \A j : Rests(d, c, j)
<1>1. \A j : Rests(d, c, j)
  BY DEF LineChange, Rests, Over
<1>2. ASSUME Tidy(d), NEW i \in Items
      PROVE  \/ c.item[i].status = d.item[i].status /\ c.item[i].exec = d.item[i].exec
             \/ /\ Agrees(d, i, c.item[i].status, c.item[i].exec)
                /\ Unbound(d, i) => Unbound(c, i)
                /\ Bound(d, i) => Bound(c, i)
  <2>1. d.item[i].status \in {"none", "queued"} => d.item[i].exec = NoExec
    BY <1>2 DEF Tidy, RunsAgree, Agrees
  <2> QED BY <2>1 DEF LineChange, Agrees, Unbound, Bound
<1>3. Proper(d, c)
  BY <1>2, RunsProper DEF LineChange
<1> QED BY <1>1, <1>3

\* Such changes follow each other.
LEMMA SameThenLine ==
  ASSUME NEW b, NEW c, NEW d, LineChange(d, b), c.exec = b.exec,
         \A i \in Items : c.item[i].status = b.item[i].status /\ c.item[i].exec = b.item[i].exec
  PROVE  LineChange(d, c)
BY DEF LineChange

\* A new run waits.
LEMMA AppendRunLine ==
  ASSUME NEW d \in Rows, NEW j \in Jobs, NEW i \in Items, CanAppend(d, j, i)
  PROVE  LineChange(d, AppendRun(d, j, i))
<1> DEFINE r == [status |-> "queued", pos |-> LastPosition(d, j) + 1, exec |-> NoExec]
           c == [d EXCEPT !.item[i] = r]
<1>1. r.status = "queued" /\ r.exec = NoExec
  OBVIOUS
<1>2. AppendRun(d, j, i) = c
  BY DEF AppendRun
<1> HIDE DEF r
<1>3. /\ c.item[i] = r /\ \A k \in Items : k # i => c.item[k] = d.item[k]
      /\ c.exec = d.exec
  BY DEF Rows
<1>4. d.item[i].status = "none"
  BY DEF CanAppend
<1> HIDE DEF c
<1>5. \A k \in Items : k = i \/ c.item[k] = d.item[k]
  BY <1>3
<1> QED BY <1>1, <1>2, <1>3, <1>4, <1>5 DEF LineChange

\* Reordering changes positions only.
LEMMA ReorderLine ==
  ASSUME NEW d \in Rows, NEW j \in Jobs, NEW place \in Orders(d, j)
  PROVE  LineChange(d, ReorderQueued(d, place))
<1> DEFINE c == ReorderQueued(d, place)
           r(i) == [d.item[i] EXCEPT !.pos = place[i]]
<1>1. /\ c.exec = d.exec
      /\ \A i \in Items : c.item[i] = IF i \in DOMAIN place THEN r(i) ELSE d.item[i]
  BY DEF ReorderQueued, Rows
<1>2. \A i \in Items : r(i).status = d.item[i].status /\ r(i).exec = d.item[i].exec
  BY DEF Rows, ItemRow
<1> HIDE DEF r, c
<1>3. LineChange(d, c)
  BY <1>1, <1>2 DEF LineChange
<1> QED BY <1>3 DEF c

\* A waiting run is withdrawn or admitted.
LEMMA SetItemLine ==
  ASSUME NEW d \in Rows, NEW i \in Items, NEW s \in {"pending", "cancelled"},
         d.item[i].status = "queued"
  PROVE  SetItem(d, i, s) \in Rows /\ LineChange(d, SetItem(d, i, s))
<1> DEFINE c == SetItem(d, i, s)
<1>1. c \in Rows
  BY SetItemType DEF ItemStatus
<1>2. /\ c.item[i].status = s /\ c.item[i].exec = d.item[i].exec
      /\ \A k \in Items : k # i => c.item[k] = d.item[k]
      /\ c.exec = d.exec
  BY SetItemRow
<1> HIDE DEF c
<1>3. \A k \in Items : k = i \/ c.item[k] = d.item[k]
  BY <1>2
<1>4. LineChange(d, c)
  BY <1>2, <1>3 DEF LineChange
<1> QED BY <1>1, <1>4 DEF c

\* A waiting run is cancelled.
LEMMA CancelQueuedLine ==
  ASSUME NEW d \in Rows, NEW i \in Items, d.item[i].status = "queued"
  PROVE  LineChange(d, CancelQueued(d, i))
<1> DEFINE b == SetItem(d, i, "cancelled")
           c == Normalized(b, JobOf[i])
<1>1. b \in Rows /\ LineChange(d, b) /\ JobOf[i] \in Jobs
  BY SetItemLine, IdAssumption
<1> HIDE DEF b
<1>2. c.exec = b.exec /\ \A k \in Items : /\ c.item[k].status = b.item[k].status
                                          /\ c.item[k].exec = b.item[k].exec
  BY <1>1, NormalizedRow
<1> HIDE DEF c
<1>3. LineChange(d, c)
  BY <1>1, <1>2, SameThenLine
<1> QED BY <1>3 DEF CancelQueued, b, c

\* All of them are.
LEMMA ClearQueuedLine ==
  ASSUME NEW d \in Rows, NEW j \in Jobs
  PROVE  LineChange(d, ClearQueued(d, j))
<1> DEFINE c == ClearQueued(d, j)
           r(i) == [d.item[i] EXCEPT !.status = "cancelled", !.pos = 0]
<1>1. /\ c.exec = d.exec
      /\ \A i \in Items : c.item[i] = IF i \in Queued(d, j) THEN r(i) ELSE d.item[i]
  BY DEF ClearQueued, Rows
<1>2. \A i \in Items : r(i).status = "cancelled" /\ r(i).exec = d.item[i].exec
  BY DEF Rows, ItemRow
<1> HIDE DEF r, c
<1>3. \A i \in Queued(d, j) : d.item[i].status = "queued"
  BY DEF Queued, ItemsIn
<1>4. LineChange(d, c)
  BY <1>1, <1>2, <1>3 DEF LineChange
<1> QED BY <1>4 DEF c

\* Promotion admits the first waiting run.
LEMMA PromoteNextLine ==
  ASSUME NEW d \in Rows, NEW j \in Jobs, Promotable(d, j)
  PROVE  LET f == FirstQueued(d, j)
             c == PromoteNext(d, j)
         IN  /\ LineChange(d, c) /\ f \in Items /\ d.item[f].status = "queued"
             /\ c.item[f].status = "pending" /\ c.item[f].exec = d.item[f].exec
<1> DEFINE f == FirstQueued(d, j)
           b == SetItem(d, f, "pending")
           n == Normalized(b, j)
           c == SetJob(n, j, "pending")
<1>1. f \in Items /\ d.item[f].status = "queued"
  BY FirstQueuedLemma DEF Promotable, Queued, ItemsIn
<1> HIDE DEF f
<1>2. b \in Rows /\ LineChange(d, b)
  BY <1>1, SetItemLine
<1>3. b.item[f].status = "pending" /\ b.item[f].exec = d.item[f].exec
  BY <1>1, SetItemRow
<1> HIDE DEF b
<1>4. n \in Rows /\ n.exec = b.exec
      /\ \A k \in Items : /\ n.item[k].status = b.item[k].status
                          /\ n.item[k].exec = b.item[k].exec
  BY <1>2, NormalizedLemma, NormalizedRow
<1> HIDE DEF n
<1>5. c.item = n.item /\ c.exec = n.exec
  BY <1>4, SetJobMoves
<1> HIDE DEF c
<1>6. LineChange(d, c)
  BY <1>2, <1>4, <1>5, SameThenLine
<1> QED BY <1>1, <1>3, <1>4, <1>5, <1>6 DEF PromoteNext, b, c, n, f

\* A claim takes an admitted run in hand; what is bound to it has not completed.
LEMMA ClaimItemTidy ==
  ASSUME NEW d \in Rows, NEW j \in Jobs, NEW i \in Items, CanClaimItem(d, j, i), Tidy(d)
  PROVE  LET c == ClaimItem(d, j, i)
         IN  /\ Tidy(c) /\ c.exec = d.exec
             /\ c.item[i].status = "processing" /\ c.item[i].exec = d.item[i].exec
             /\ \A k \in Items : k # i => c.item[k] = d.item[k]
<1> DEFINE r == [d.item[i] EXCEPT !.status = "processing"]
           b == [d EXCEPT !.item[i] = r]
           c == SetJob(b, j, "processing")
<1>1. r \in ItemRow /\ r.status = "processing" /\ r.exec = d.item[i].exec
  BY DEF Rows, ItemRow, ItemStatus
<1>2. ClaimItem(d, j, i) = c
  BY DEF ClaimItem
<1> HIDE DEF r
<1>3. /\ b.item[i] = r /\ \A k \in Items : k # i => b.item[k] = d.item[k]
      /\ b.exec = d.exec /\ b \in Rows
  BY <1>1, RunRow
<1> HIDE DEF b
<1>4. c.item = b.item /\ c.exec = b.exec
  BY <1>3, SetJobMoves
<1> HIDE DEF c
<1>5. Columns(c) /\ SingleCompeting(c)
  BY <1>3, <1>4 DEF Tidy, Columns, SingleCompeting
<1>6. Agrees(d, i, "pending", d.item[i].exec)
  BY DEF CanClaimItem, Tidy, RunsAgree
<1>7. RunsAgree(c)
  <2> SUFFICES ASSUME NEW k \in Items PROVE Agrees(c, k, c.item[k].status, c.item[k].exec)
    BY DEF RunsAgree
  <2>1. CASE k = i
    BY <1>1, <1>3, <1>4, <1>6, <2>1 DEF Agrees
  <2>2. CASE k # i
    BY <1>3, <1>4, <2>2 DEF Agrees, Tidy, RunsAgree
  <2> QED BY <2>1, <2>2
<1> QED BY <1>1, <1>2, <1>3, <1>4, <1>5, <1>7 DEF Tidy

\* A new execution is bound to the run it is begun for.
LEMMA BeginProper ==
  ASSUME NEW d \in Rows, NEW j \in Jobs, NEW i \in Items \cup {NoItem}, NEW e \in Execs,
         NEW x \in Deadline, JobOf[e] = j, d.exec[e].state = "none", CanBegin(d, j, i, e)
  PROVE  LET c == Begin(d, i, e, x)
         IN  /\ Proper(d, c)
             /\ c.exec[e].state = "running" /\ c.exec[e].gen = 1 /\ c.exec[e].item = i
             /\ \A k \in Items : c.item[k].status = d.item[k].status
             /\ i # NoItem => c.item[i].exec = e
<1> DEFINE r == [item |-> i, gen |-> 1, state |-> "running", status |-> "processing",
                 deadline |-> x, budget |-> "left"]
           b == [d EXCEPT !.exec[e] = r]
           c == Begin(d, i, e, x)
<1>1. /\ r.item = i /\ r.gen = 1 /\ r.state = "running" /\ r.status = "processing"
      /\ r \in ExecRow
  BY DEF ExecRow, ExecState, ExecStatus, Budget
<1>2. c = IF i = NoItem THEN b ELSE BindExecution(b, i, e)
  BY DEF Begin
<1> HIDE DEF r, c
<1>3. /\ b.exec[e] = r /\ \A f \in Execs : f # e => b.exec[f] = d.exec[f]
      /\ b.item = d.item
  BY ExecutionRow
<1>4. b \in Rows
  BY <1>1 DEF Rows
<1> HIDE DEF b
<1>5. /\ c.exec = b.exec /\ \A k \in Items : k # i => c.item[k] = d.item[k]
      /\ \A k \in Items : c.item[k].status = d.item[k].status
      /\ i # NoItem => c.item[i].exec = e
  <2>1. CASE i = NoItem
    BY <1>2, <1>3, <2>1
  <2>2. CASE i # NoItem
    <3> DEFINE q == [b.item[i] EXCEPT !.exec = e]
    <3>1. c = [b EXCEPT !.item[i] = q]
      BY <1>2, <2>2 DEF BindExecution
    <3>2. q.status = b.item[i].status /\ q.exec = e
      BY <1>4, <2>2 DEF Rows, ItemRow
    <3> HIDE DEF q
    <3>3. /\ c.item[i] = q /\ \A k \in Items : k # i => c.item[k] = b.item[k]
          /\ c.exec = b.exec
      <4>1. i \in Items
        BY <2>2
      <4> QED BY <1>4, <3>1, <4>1, RunRow, SMTT(30)
    <3> QED BY <1>3, <2>2, <3>2, <3>3
  <2> QED BY <2>1, <2>2
<1>6. Competing(d, JobOf[e]) \subseteq {e}
  BY DEF CanBegin
<1>7. i # NoItem => d.item[i].status = "processing"
  BY DEF CanBegin, CanBind
<1>8. Proper(d, c)
  <2>1. \A f \in Execs : f # e => c.exec[f] = d.exec[f]
    BY <1>3, <1>5
  <2>2. c.exec[e] = r
    BY <1>3, <1>5
  <2>3. i # NoItem => /\ c.item[i].exec = e
                      /\ c.item[i].status = "processing"
                      /\ ~Unbound(d, i)
    BY <1>5, <1>7, IdAssumption DEF Unbound
  <2> QED BY <1>1, <1>5, <1>6, <2>1, <2>2, <2>3, PairProper
<1> QED BY <1>1, <1>3, <1>5, <1>8 DEF c

\* The worker takes over a resume.
LEMMA ClaimResumeProper ==
  ASSUME NEW d \in Rows, NEW e \in Execs, CanClaimResume(d, e)
  PROVE  LET c == ClaimResume(d, e)
         IN  /\ Proper(d, c) /\ c.item = d.item
             /\ c.exec[e].state = "running" /\ c.exec[e].gen = d.exec[e].gen
             /\ c.exec[e].item = d.exec[e].item
<1> DEFINE c == ClaimResume(d, e)
<1>1. c = SetExec(d, e, "running", "processing")
  BY DEF ClaimResume
<1>2. "running" \in ExecState /\ "processing" \in ExecStatus
  BY DEF ExecState, ExecStatus
<1> HIDE DEF c
<1>3. /\ c.exec[e].state = "running" /\ c.exec[e].status = "processing"
      /\ c.exec[e].item = d.exec[e].item /\ c.exec[e].gen = d.exec[e].gen
      /\ \A k \in Execs : k # e => c.exec[k] = d.exec[k]
      /\ c.item = d.item
  BY <1>1, <1>2, SetExecRow
<1>4. d.exec[e].state = "pending" /\ d.exec[e].status = "pending"
  BY DEF CanClaimResume
<1>5. Proper(d, c)
  <2>1. ASSUME Columns(d), NEW f \in Execs
        PROVE  /\ c.exec[f].item = d.exec[f].item
               /\ c.exec[f].state = "none" => d.exec[f].state = "none"
               /\ c.exec[f].state = "none" => c.exec[f].status = "none"
               /\ c.exec[f].state = "completed" <=> d.exec[f].state = "completed"
               /\ c.exec[f].status = "completed" <=> d.exec[f].status = "completed"
               /\ d.exec[f].state = "cancelled" => c.exec[f].state = "cancelled"
               /\ c.exec[f].status \in ActiveStatus => d.exec[f].status \in ActiveStatus
    <3>1. CASE f = e
      BY <1>3, <1>4, <3>1 DEF ActiveStatus
    <3>2. CASE f # e
      BY <1>3, <2>1, <3>2 DEF Columns
    <3> QED BY <3>1, <3>2
  <2> QED BY <1>3, <2>1, ExecsProper
<1> QED BY <1>3, <1>5 DEF c

\* A cancellation, of what is not completed.
LEMMA CancelProper ==
  ASSUME NEW d \in Rows, NEW j \in Jobs, NEW e \in Execs, CanCancel(d, e)
  PROVE  LET c == Cancel(d, j, e)
         IN  /\ Proper(d, c) /\ c.item = d.item
             /\ c.exec[e].state = "cancelled" /\ c.exec[e].item = d.exec[e].item
             /\ \A f \in Execs : f # e => c.exec[f] = d.exec[f]
<1> DEFINE b == SetExec(d, e, "cancelled", "failed")
           g == [b EXCEPT !.exec[e].gen = @ + 1]
           c == Cancel(d, j, e)
<1>1. c = IF d.exec[e].state = "cancelled" THEN d ELSE SetJob(g, j, "failed")
  BY DEF Cancel
<1>2. "cancelled" \in ExecState /\ "failed" \in ExecStatus
  BY DEF ExecState, ExecStatus
<1> HIDE DEF c
<1>3. CASE d.exec[e].state = "cancelled"
  <2>1. Proper(d, d)
    BY StillProper
  <2> QED BY <1>1, <1>3, <2>1 DEF c
<1>4. CASE d.exec[e].state # "cancelled"
  <2>1. /\ b.exec[e].state = "cancelled" /\ b.exec[e].status = "failed"
        /\ b.exec[e].item = d.exec[e].item
        /\ \A k \in Execs : k # e => b.exec[k] = d.exec[k]
        /\ b.item = d.item /\ b \in Rows
    BY <1>2, SetExecRow
  <2> HIDE DEF b
  <2>2. /\ g.exec[e].state = "cancelled" /\ g.exec[e].status = "failed"
        /\ g.exec[e].item = d.exec[e].item
        /\ \A k \in Execs : k # e => g.exec[k] = d.exec[k]
        /\ g.item = d.item /\ g \in Rows
    BY <2>1, GenRow
  <2> HIDE DEF g
  <2>3. c.item = g.item /\ c.exec = g.exec
    BY <1>1, <1>4, <2>2, SetJobMoves
  <2>4. Proper(d, c)
    <3>1. ASSUME Columns(d), NEW f \in Execs
          PROVE  /\ c.exec[f].item = d.exec[f].item
                 /\ c.exec[f].state = "none" => d.exec[f].state = "none"
                 /\ c.exec[f].state = "none" => c.exec[f].status = "none"
                 /\ c.exec[f].state = "completed" <=> d.exec[f].state = "completed"
                 /\ c.exec[f].status = "completed" <=> d.exec[f].status = "completed"
                 /\ d.exec[f].state = "cancelled" => c.exec[f].state = "cancelled"
                 /\ c.exec[f].status \in ActiveStatus => d.exec[f].status \in ActiveStatus
      <4>1. CASE f = e
        BY <2>2, <2>3, <3>1, <4>1 DEF ActiveStatus, CanCancel, Columns
      <4>2. CASE f # e
        BY <2>2, <2>3, <3>1, <4>2 DEF Columns
      <4> QED BY <4>1, <4>2
    <3> QED BY <2>2, <2>3, <3>1, ExecsProper
  <2> QED BY <2>2, <2>3, <2>4 DEF c
<1> QED BY <1>3, <1>4

\* An execution ends, and its run with it.
LEMMA OutcomeProper ==
  ASSUME NEW d \in Rows, NEW j \in Jobs, NEW e \in Execs, NEW s \in {"completed", "failed"},
         d.exec[e].state \in {"pending", "running"}, HoldsItem(d, e, ActiveStatus)
  PROVE  LET i == d.exec[e].item
             c == SetJob(SetExec(d, e, s, s), j, s)
             f == IF i = NoItem THEN c ELSE SetItem(c, i, s)
         IN  /\ Proper(d, f)
             /\ f.exec[e].state = s /\ f.exec[e].item = i
             /\ \A k \in Execs : k # e => f.exec[k] = d.exec[k]
             /\ \A k \in Items : IF k = i THEN f.item[k].status = s ELSE f.item[k] = d.item[k]
<1> DEFINE i == d.exec[e].item
           b == SetExec(d, e, s, s)
           c == SetJob(b, j, s)
           f == IF i = NoItem THEN c ELSE SetItem(c, i, s)
<1>1. s \in ExecState /\ s \in ExecStatus /\ s \in JobStatus /\ i \in Items \cup {NoItem}
  BY DEF ExecState, ExecStatus, JobStatus, Rows, ExecRow
<1>2. i # NoItem => d.item[i].exec = e
  BY DEF HoldsItem
<1>3. /\ b.exec[e].state = s /\ b.exec[e].status = s /\ b.exec[e].item = i
      /\ \A k \in Execs : k # e => b.exec[k] = d.exec[k]
      /\ b.item = d.item /\ b \in Rows
  BY <1>1, SetExecRow
<1> HIDE DEF b, i
<1>4. c \in Rows /\ c.item = d.item /\ c.exec = b.exec
  BY <1>1, <1>3, SetJobLemma, SetJobMoves
<1> HIDE DEF c
<1>5. /\ f.exec = b.exec
      /\ \A k \in Items : k # i => f.item[k] = d.item[k]
      /\ i # NoItem => f.item[i].status = s /\ f.item[i].exec = e
  <2>1. CASE i = NoItem
    BY <1>4, <2>1
  <2>2. CASE i # NoItem
    <3>1. i \in Items /\ f = SetItem(c, i, s)
      BY <1>1, <2>2
    <3> HIDE DEF f
    <3>2. /\ f.item[i].status = s /\ f.item[i].exec = c.item[i].exec
          /\ \A k \in Items : k # i => f.item[k] = c.item[k]
          /\ f.exec = c.exec
      BY <1>4, <3>1, SetItemRow
    <3> QED BY <1>2, <1>4, <2>2, <3>2
  <2> QED BY <2>1, <2>2
<1> HIDE DEF f
<1>6. Proper(d, f)
  <2>1. i # NoItem => ~Unbound(d, i)
    BY <1>2, IdAssumption DEF Unbound
  <2>2. \A k \in Execs : k # e => f.exec[k] = d.exec[k]
    BY <1>3, <1>5
  <2>3. /\ f.exec[e].item = i /\ f.exec[e].state = s /\ f.exec[e].status = s
    BY <1>3, <1>5
  <2>4. s \notin ActiveStatus
    BY DEF ActiveStatus
  <2>5. d.exec[e].item = i
    BY DEF i
  <2> QED BY <1>1, <1>5, <2>1, <2>2, <2>3, <2>4, <2>5, PairProper
<1>7. \A k \in Items : k = i => i # NoItem
  BY IdAssumption
<1> QED BY <1>3, <1>5, <1>6, <1>7 DEF f, c, b, i

\* The two transactions that do: an expired resume is closed, an outcome published.
LEMMA ExpireProper ==
  ASSUME NEW d \in Rows, NEW j \in Jobs, NEW e \in Execs, CanExpire(d, j, e)
  PROVE  LET c == ExpirePending(d, j, e)
         IN  /\ Proper(d, c)
             /\ c.exec[e].state = "failed" /\ c.exec[e].item = d.exec[e].item
             /\ \A k \in Execs : k # e => c.exec[k] = d.exec[k]
             /\ \A k \in Items : IF k = d.exec[e].item THEN c.item[k].status = "failed"
                                 ELSE c.item[k] = d.item[k]
BY OutcomeProper DEF CanExpire, ExpirePending

\* See above.
LEMMA FinishProper ==
  ASSUME NEW d \in Rows, NEW j \in Jobs, NEW e \in Execs, NEW s \in {"completed", "failed"},
         NEW g, CanFinish(d, e, g, s)
  PROVE  LET c == Finish(d, j, e, s)
         IN  /\ Proper(d, c)
             /\ c.exec[e].state = s /\ c.exec[e].item = d.exec[e].item
             /\ \A k \in Execs : k # e => c.exec[k] = d.exec[k]
             /\ \A k \in Items : IF k = d.exec[e].item THEN c.item[k].status = s
                                 ELSE c.item[k] = d.item[k]
<1>1. HoldsItem(d, e, ActiveStatus) /\ d.exec[e].state \in {"pending", "running"}
  BY DEF CanFinish, HoldsItem, ActiveStatus
<1> QED BY <1>1, OutcomeProper DEF Finish

\* A resume readmits a failed or interrupted execution and its run.
LEMMA RequestResumeProper ==
  ASSUME NEW d \in Rows, NEW j \in Jobs, NEW e \in Execs, JobOf[e] = j, Resumable(d, j, e)
  PROVE  Proper(d, RequestResume(d, j, e))
<1> DEFINE c == RequestResume(d, j, e)
           i == d.exec[e].item
<1>1. i \in Items \cup {NoItem}
  BY DEF Rows, ExecRow
<1>2. /\ \A k \in Items : k # i => c.item[k] = d.item[k]
      /\ i # NoItem => c.item[i].status = "pending" /\ c.item[i].exec = e
      /\ c.exec[e].state = "pending" /\ c.exec[e].status = "pending"
      /\ c.exec[e].item = i /\ \A k \in Execs : k # e => c.exec[k] = d.exec[k]
  BY RequestResumeFinal
<1> HIDE DEF c
<1>3. Competing(d, JobOf[e]) \subseteq {e}
  BY DEF Resumable
<1>4. i # NoItem => ~Unbound(d, i)
  BY IdAssumption DEF Resumable, HoldsItem, Unbound
<1> HIDE DEF i
<1>5. d.exec[e].item = i
  BY DEF i
<1>6. Proper(d, c)
  BY <1>1, <1>2, <1>3, <1>4, <1>5, PairProper
<1> QED BY <1>6 DEF c

\* The worker's own execution is bound to its run.
LEMMA BindProper ==
  ASSUME NEW d \in Rows, NEW i \in Items, NEW e \in Execs, CanBind(d, i, e),
         d.exec[e].item = i, d.exec[e].state # "completed"
  PROVE  LET c == BindExecution(d, i, e)
         IN  /\ Proper(d, c) /\ c.exec = d.exec
             /\ c.item[i].status = "processing" /\ c.item[i].exec = e
             /\ \A k \in Items : k # i => c.item[k] = d.item[k]
<1> DEFINE r == [d.item[i] EXCEPT !.exec = e]
           c == [d EXCEPT !.item[i] = r]
<1>1. r.exec = e /\ r.status = "processing"
  BY DEF CanBind, Rows, ItemRow
<1>2. BindExecution(d, i, e) = c
  BY DEF BindExecution
<1> HIDE DEF r
<1>3. /\ c.exec = d.exec /\ c.item[i] = r
      /\ \A k \in Items : k # i => c.item[k] = d.item[k]
  BY DEF Rows
<1> HIDE DEF c
<1>4. Agrees(d, i, "processing", e)
  BY DEF Agrees
<1>5. ~Unbound(d, i) /\ Bound(c, i)
  BY <1>1, <1>3, IdAssumption DEF CanBind, Unbound, Bound
<1>6. \A k \in Items :
        \/ c.item[k].status = d.item[k].status /\ c.item[k].exec = d.item[k].exec
        \/ /\ Agrees(d, k, c.item[k].status, c.item[k].exec)
           /\ Unbound(d, k) => Unbound(c, k)
           /\ Bound(d, k) => Bound(c, k)
  <2> SUFFICES ASSUME NEW k \in Items, k = i
               PROVE  /\ Agrees(d, k, c.item[k].status, c.item[k].exec)
                      /\ Unbound(d, k) => Unbound(c, k)
                      /\ Bound(d, k) => Bound(c, k)
    BY <1>3
  <2> QED BY <1>1, <1>3, <1>4, <1>5
<1>7. Proper(d, c)
  BY <1>3, <1>6, RunsProper
<1> QED BY <1>1, <1>2, <1>3, <1>7

\* A run in hand ends as its execution did.
LEMMA FinalizeProper ==
  ASSUME NEW d \in Rows, NEW j \in Jobs, NEW i \in Items \cup {NoItem},
         NEW s \in {"completed", "failed", "cancelled"}, NEW e \in Execs \cup {NoExec},
         e # NoExec => JobOf[e] = j, i # NoItem => JobOf[i] = j,
         i # NoItem => d.item[i].status # "pending",
         i # NoItem /\ d.item[i].status = "processing" =>
           Agrees(d, i, s, IF e = NoExec THEN d.item[i].exec ELSE e)
  PROVE  Proper(d, Finalize(d, j, i, s, e))
<1> DEFINE c == Finalize(d, j, i, s, e)
           x == IF e = NoExec THEN d.item[i].exec ELSE e
<1>1. s \in ItemStatus
  BY DEF ItemStatus
<1>2. /\ c.exec = d.exec
      /\ \A k \in Items : c.item[k] # d.item[k] =>
           /\ k = i /\ d.item[i].status \in ActiveStatus
           /\ c.item[k].status = s /\ c.item[k].exec = x
  BY <1>1, FinalizeMoves DEF Moves
<1> HIDE DEF c, x
<1>3. \A k \in Items :
        \/ c.item[k].status = d.item[k].status /\ c.item[k].exec = d.item[k].exec
        \/ /\ Agrees(d, k, c.item[k].status, c.item[k].exec)
           /\ Unbound(d, k) => Unbound(c, k)
           /\ Bound(d, k) => Bound(c, k)
  <2> SUFFICES ASSUME NEW k \in Items, c.item[k] # d.item[k]
               PROVE  /\ Agrees(d, k, c.item[k].status, c.item[k].exec)
                      /\ Unbound(d, k) => Unbound(c, k)
                      /\ Bound(d, k) => Bound(c, k)
    OBVIOUS
  <2>1. /\ k = i /\ i # NoItem /\ d.item[i].status = "processing"
        /\ c.item[k].status = s /\ c.item[k].exec = x
    BY <1>2, IdAssumption DEF ActiveStatus
  <2>2. Agrees(d, i, s, x)
    BY <2>1 DEF x
  <2>3. Bound(d, i) => Bound(c, i)
    BY <2>1, IdAssumption DEF Bound, x
  <2> QED BY <2>1, <2>2, <2>3 DEF Unbound
<1>4. Proper(d, c)
  BY <1>2, <1>3, RunsProper
<1> QED BY <1>4 DEF c

\* The active run is cancelled once its execution is.
LEMMA MarkActiveCancelledProper ==
  ASSUME NEW d \in Rows, NEW j \in Jobs, NEW i \in Items \cup {NoItem},
         i # NoItem => JobOf[i] = j,
         i # NoItem /\ d.item[i].exec # NoExec => d.exec[d.item[i].exec].state = "cancelled"
  PROVE  Proper(d, MarkActiveCancelled(d, j, i))
<1> DEFINE c == MarkActiveCancelled(d, j, i)
<1>1. /\ c.exec = d.exec
      /\ \A k \in Items : c.item[k] # d.item[k] =>
           /\ k = i /\ d.item[i].status \in ActiveStatus
           /\ c.item[k].status = "cancelled" /\ c.item[k].exec = d.item[i].exec
  BY MarkActiveCancelledMoves DEF Moves
<1> HIDE DEF c
<1>2. ASSUME Tidy(d), NEW k \in Items, c.item[k] # d.item[k]
      PROVE  /\ Agrees(d, k, c.item[k].status, c.item[k].exec)
             /\ Unbound(d, k) => Unbound(c, k)
             /\ Bound(d, k) => Bound(c, k)
  <2>1. /\ k = i /\ i # NoItem /\ d.item[i].status \in ActiveStatus
        /\ c.item[k].status = "cancelled" /\ c.item[k].exec = d.item[i].exec
    BY <1>1, <1>2, IdAssumption
  <2>2. Agrees(d, i, "cancelled", d.item[i].exec)
    BY <1>2, <2>1 DEF Agrees, Tidy, RunsAgree
  <2> QED BY <2>1, <2>2 DEF Unbound, Bound, ActiveStatus
<1>3. Proper(d, c)
  BY <1>1, <1>2, RunsProper
<1> QED BY <1>3 DEF c

\* Startup fails the runs it finds in hand; none of them has a completed execution.
LEMMA FailInterruptedProper ==
  ASSUME NEW d \in Rows, NEW P
  PROVE  Proper(d, FailInterruptedExcept(d, P))
<1> DEFINE c == FailInterruptedExcept(d, P)
           r(i) == [d.item[i] EXCEPT !.status = "failed", !.pos = 0]
<1>1. /\ c.exec = d.exec
      /\ \A i \in Items : c.item[i] = IF d.item[i].status = "processing" /\ JobOf[i] \notin P
                                      THEN r(i) ELSE d.item[i]
  BY DEF FailInterruptedExcept, Rows
<1>2. \A i \in Items : r(i).exec = d.item[i].exec /\ r(i).status = "failed"
  BY DEF Rows, ItemRow
<1> HIDE DEF c, r
<1>3. ASSUME Tidy(d), NEW i \in Items
      PROVE  \/ c.item[i].status = d.item[i].status /\ c.item[i].exec = d.item[i].exec
             \/ /\ Agrees(d, i, c.item[i].status, c.item[i].exec)
                /\ Unbound(d, i) => Unbound(c, i)
                /\ Bound(d, i) => Bound(c, i)
  <2>1. CASE c.item[i] = d.item[i]
    BY <2>1
  <2>2. CASE /\ d.item[i].status = "processing" /\ c.item[i].status = "failed"
             /\ c.item[i].exec = d.item[i].exec
    <3>1. Agrees(d, i, "processing", d.item[i].exec)
      BY <1>3, <2>2 DEF Tidy, RunsAgree
    <3> QED BY <2>2, <3>1 DEF Agrees, Unbound, Bound
  <2> QED BY <1>1, <1>2, <2>1, <2>2
<1>4. Proper(d, c)
  BY <1>1, <1>3, RunsProper
<1> QED BY <1>4 DEF c

\* Executions whose status alone fails, or that are interrupted.
LEMMA FailuresProper ==
  ASSUME NEW c, NEW d \in Rows, c.item = d.item,
         \A e \in Execs :
           \/ c.exec[e] = d.exec[e]
           \/ /\ c.exec[e].item = d.exec[e].item
              /\ \/ d.exec[e].status = "processing" /\ c.exec[e].state = d.exec[e].state
                 \/ /\ d.exec[e].state \in {"pending", "running"}
                    /\ c.exec[e].state = "interrupted"
              /\ c.exec[e].status = "failed"
           \/ /\ c.exec[e].item = d.exec[e].item /\ c.exec[e].state = d.exec[e].state
              /\ c.exec[e].status = d.exec[e].status
  PROVE  Proper(d, c)
<1>1. ASSUME Columns(d), NEW e \in Execs
      PROVE  /\ c.exec[e].item = d.exec[e].item
             /\ c.exec[e].state = "none" => d.exec[e].state = "none"
             /\ c.exec[e].state = "none" => c.exec[e].status = "none"
             /\ c.exec[e].state = "completed" <=> d.exec[e].state = "completed"
             /\ c.exec[e].status = "completed" <=> d.exec[e].status = "completed"
             /\ d.exec[e].state = "cancelled" => c.exec[e].state = "cancelled"
             /\ c.exec[e].status \in ActiveStatus => d.exec[e].status \in ActiveStatus
  <2>1. CASE c.exec[e] = d.exec[e]
    BY <1>1, <2>1 DEF Columns
  <2>2. CASE /\ d.exec[e].status = "processing" /\ c.exec[e].state = d.exec[e].state
             /\ c.exec[e].item = d.exec[e].item /\ c.exec[e].status = "failed"
    BY <1>1, <2>2 DEF Columns, ActiveStatus
  <2>3. CASE /\ d.exec[e].state \in {"pending", "running"} /\ c.exec[e].state = "interrupted"
             /\ c.exec[e].item = d.exec[e].item /\ c.exec[e].status = "failed"
    BY <1>1, <2>3 DEF Columns, ActiveStatus
  <2>4. CASE /\ c.exec[e].item = d.exec[e].item /\ c.exec[e].state = d.exec[e].state
             /\ c.exec[e].status = d.exec[e].status
    BY <1>1, <2>4 DEF Columns
  <2> QED BY <2>1, <2>2, <2>3, <2>4
<1> QED BY <1>1, ExecsProper

\* The repair of an unclaimed recording.
LEMMA FailProcessingProper ==
  ASSUME NEW d \in Rows, NEW j \in Jobs
  PROVE  Proper(d, FailProcessing(d, j))
         /\ \A e \in Execs : FailProcessing(d, j).exec[e].state = d.exec[e].state
<1> DEFINE r(e) == [d.exec[e] EXCEPT !.status = "failed"]
           c == FailProcessing(d, j)
<1>1. \A e \in Execs : /\ r(e).state = d.exec[e].state /\ r(e).item = d.exec[e].item
                       /\ r(e).status = "failed"
  BY DEF Rows, ExecRow
<1>2. c.item = d.item
  BY FailProcessingLemma
<1>3. \A e \in Execs : c.exec[e] = IF JobOf[e] = j /\ d.exec[e].status = "processing"
                                   THEN r(e) ELSE d.exec[e]
  BY DEF FailProcessing, Rows
<1> HIDE DEF r, c
<1>4. \A e \in Execs : c.exec[e].state = d.exec[e].state
  BY <1>1, <1>3
<1>5. Proper(d, c)
  BY <1>1, <1>2, <1>3, FailuresProper
<1> QED BY <1>4, <1>5 DEF c

\* The repair of an interrupted process.
LEMMA InterruptAllProper ==
  ASSUME NEW d \in Rows
  PROVE  Proper(d, InterruptAll(d))
<1> DEFINE r(e) == [d.exec[e] EXCEPT !.state = "interrupted", !.status = "failed"]
           c == InterruptAll(d)
<1>1. \A e \in Execs : /\ r(e).state = "interrupted" /\ r(e).item = d.exec[e].item
                       /\ r(e).status = "failed"
  BY DEF Rows, ExecRow
<1>2. c.item = d.item
  BY InterruptAllLemma
<1>3. \A e \in Execs : c.exec[e] = IF d.exec[e].state \in {"pending", "running"}
                                   THEN r(e) ELSE d.exec[e]
  BY DEF InterruptAll, Rows
<1> HIDE DEF r, c
<1>4. Proper(d, c)
  BY <1>1, <1>2, <1>3, FailuresProper
<1> QED BY <1>4 DEF c

\* A deletion takes runs and executions together.
LEMMA DeleteProper ==
  ASSUME NEW d \in Rows, NEW j \in Jobs, Sound(d)
  PROVE  Proper(d, DeleteWithAssociations(d, j))
<1> DEFINE c == DeleteWithAssociations(d, j)
           r(e) == [d.exec[e] EXCEPT !.state = "gone", !.status = "none"]
<1> SUFFICES ASSUME Tidy(d) PROVE Tidy(c) /\ Ages(d, c)
  BY DEF Proper
<1>1. \A e \in Execs : /\ r(e).state = "gone" /\ r(e).status = "none"
                       /\ r(e).item = d.exec[e].item
  BY DEF Rows, ExecRow
<1>2. \A e \in Execs : c.exec[e] = IF JobOf[e] = j /\ d.exec[e].state # "none"
                                   THEN r(e) ELSE d.exec[e]
  BY DEF DeleteWithAssociations
<1>3. \A i \in Items : \/ /\ c.item[i] = d.item[i]
                          /\ JobOf[i] # j \/ d.item[i].status = "none"
                       \/ c.item[i].status = "gone" /\ c.item[i].exec = NoExec
  BY DEF DeleteWithAssociations
<1> HIDE DEF c, r
<1>4. \A e \in Execs : \/ c.exec[e] = d.exec[e]
                       \/ /\ JobOf[e] = j /\ c.exec[e].state = "gone"
                          /\ c.exec[e].status = "none" /\ c.exec[e].item = d.exec[e].item
  BY <1>1, <1>2
<1>5. Columns(c)
  BY <1>4 DEF Tidy, Columns
<1>6. SingleCompeting(c)
  <2>1. \A e \in Execs : c.exec[e].status \in ActiveStatus => c.exec[e] = d.exec[e]
    BY <1>4 DEF ActiveStatus
  <2> QED BY <2>1 DEF Tidy, SingleCompeting
<1>7. RunsAgree(c)
  <2> SUFFICES ASSUME NEW i \in Items, c.item[i].exec # NoExec
               PROVE  Agrees(c, i, c.item[i].status, c.item[i].exec)
    BY DEF RunsAgree, Agrees
  <2>1. /\ c.item[i] = d.item[i] /\ Agrees(d, i, d.item[i].status, d.item[i].exec)
        /\ JobOf[i] # j \/ d.item[i].status = "none"
    BY <1>3 DEF Tidy, RunsAgree
  <2>2. JobOf[d.item[i].exec] = JobOf[i] /\ JobOf[i] # j
    BY <2>1 DEF Sound, Agrees
  <2>3. d.item[i].exec \in Execs
    BY <2>1 DEF Rows, ItemRow
  <2>4. c.exec[d.item[i].exec] = d.exec[d.item[i].exec]
    BY <1>2, <2>2, <2>3
  <2> QED BY <2>1, <2>4 DEF Agrees
<1>8. Ages(d, c)
  <2>1. \A e \in Execs : c.exec[e].item = d.exec[e].item
    BY <1>4
  <2>2. \A i \in Items : (Unbound(d, i) => Unbound(c, i)) /\ (Bound(d, i) => Bound(c, i))
    BY <1>3 DEF Unbound, Bound
  <2> QED BY <2>1, <2>2 DEF Ages
<1> QED BY <1>5, <1>6, <1>7, <1>8 DEF Tidy

-----------------------------------------------------------------------------
(* The recording's own status.                                             *)

\* From d to c only the status of recording j changes, if any.
OnlyJob(d, c, j) == \A k \in Jobs : k # j => c.job[k] = d.job[k]

\* Recording j is given status s, unless it has been deleted.
JobSet(d, c, j, s) ==
  OnlyJob(d, c, j) /\ c.job[j] = IF d.job[j] = "deleted" THEN "deleted" ELSE s

\* The status is given to one recording.
LEMMA SetJobRow ==
  ASSUME NEW d \in Rows, NEW j \in Jobs, NEW s
  PROVE  JobSet(d, SetJob(d, j, s), j, s)
BY DEF SetJob, JobSet, OnlyJob, Rows

\* Additions to and edits of the waiting line, claims of a resume and bindings leave
\* the status alone.
LEMMA LineJobs ==
  ASSUME NEW d \in Rows, NEW j \in Jobs
  PROVE  /\ \A i \in Items : /\ AppendRun(d, j, i).job = d.job
                             /\ CancelQueued(d, i).job = d.job
                             /\ \A e : BindExecution(d, i, e).job = d.job
         /\ \A place : ReorderQueued(d, place).job = d.job
         /\ ClearQueued(d, j).job = d.job
         /\ \A e \in Execs : ClaimResume(d, e).job = d.job
         /\ FailProcessing(d, j).job = d.job
<1>1. ASSUME NEW i \in Items
      PROVE  /\ AppendRun(d, j, i).job = d.job
             /\ CancelQueued(d, i).job = d.job
             /\ \A e : BindExecution(d, i, e).job = d.job
  <2>1. AppendRun(d, j, i).job = d.job
    BY DEF AppendRun, Rows
  <2>2. SetItem(d, i, "cancelled").job = d.job
    BY DEF SetItem, Rows
  <2> DEFINE c == SetItem(d, i, "cancelled")
  <2>3. c \in Rows /\ JobOf[i] \in Jobs
    BY SetItemType, IdAssumption DEF ItemStatus
  <2>4. CancelQueued(d, i) = Normalized(c, JobOf[i])
    BY DEF CancelQueued
  <2> HIDE DEF c
  <2>5. Normalized(c, JobOf[i]).job = c.job
    BY <2>3, NormalizedRow
  <2> QED BY <2>1, <2>2, <2>4, <2>5 DEF BindExecution, Rows, c
<1>2. \A place : ReorderQueued(d, place).job = d.job
  BY DEF ReorderQueued, Rows
<1>3. ClearQueued(d, j).job = d.job /\ FailProcessing(d, j).job = d.job
  BY DEF ClearQueued, FailProcessing, Rows
<1>4. \A e \in Execs : ClaimResume(d, e).job = d.job
  BY DEF ClaimResume, SetExec, Rows
<1> QED BY <1>1, <1>2, <1>3, <1>4

\* A beginning leaves the status alone.
LEMMA BeginJobs ==
  ASSUME NEW d \in Rows, NEW i \in Items \cup {NoItem}, NEW e \in Execs, NEW deadline
  PROVE  Begin(d, i, e, deadline).job = d.job
BY DEF Begin, BindExecution, Rows

\* Promotion and the claim of a run.
LEMMA PromoteNextJobs ==
  ASSUME NEW d \in Rows, NEW j \in Jobs, Promotable(d, j)
  PROVE  JobSet(d, PromoteNext(d, j), j, "pending")
<1> DEFINE b == SetItem(d, FirstQueued(d, j), "pending")
           c == Normalized(b, j)
<1>1. FirstQueued(d, j) \in Items
  BY FirstQueuedLemma DEF Promotable, Queued, ItemsIn
<1>2. b \in Rows /\ b.job = d.job
  BY <1>1, SetItemType, SetItemRow DEF ItemStatus
<1>3. c \in Rows /\ c.job = b.job
  <2> HIDE DEF b
  <2> QED BY <1>2, NormalizedLemma, NormalizedRow
<1>4. JobSet(c, SetJob(c, j, "pending"), j, "pending")
  <2> HIDE DEF c
  <2> QED BY <1>3, SetJobRow
<1>5. PromoteNext(d, j) = SetJob(c, j, "pending")
  BY DEF PromoteNext
<1> HIDE DEF b, c
<1> QED BY <1>2, <1>3, <1>4, <1>5 DEF JobSet, OnlyJob

\* The claim of a run makes its recording a processing one.
LEMMA ClaimItemJobs ==
  ASSUME NEW d \in Rows, NEW j \in Jobs, NEW i \in Items
  PROVE  JobSet(d, ClaimItem(d, j, i), j, "processing")
<1> DEFINE c == [d EXCEPT !.item[i].status = "processing"]
<1>1. c \in Rows /\ c.job = d.job
  BY ItemStatusLemma DEF ItemStatus, Rows
<1>2. ClaimItem(d, j, i) = SetJob(c, j, "processing")
  BY DEF ClaimItem
<1> HIDE DEF c
<1> QED BY <1>1, <1>2, SetJobRow DEF JobSet, OnlyJob

\* A run that is stopped or ends takes its recording with it.
LEMMA MarkActiveCancelledJobs ==
  ASSUME NEW d \in Rows, NEW j \in Jobs, NEW i \in Items \cup {NoItem}
  PROVE  \/ MarkActiveCancelled(d, j, i) = d
         \/ JobSet(d, MarkActiveCancelled(d, j, i), j, "failed")
<1>1. CASE MarkActiveCancelled(d, j, i) = d
  BY <1>1
<1>2. CASE i # NoItem /\ MarkActiveCancelled(d, j, i) = SetJob(SetItem(d, i, "cancelled"), j, "failed")
  <2> DEFINE c == SetItem(d, i, "cancelled")
  <2>1. c \in Rows /\ c.job = d.job
    BY <1>2, SetItemType, SetItemRow DEF ItemStatus
  <2> HIDE DEF c
  <2> QED BY <1>2, <2>1, SetJobRow DEF JobSet, OnlyJob, c
<1> QED BY <1>1, <1>2 DEF MarkActiveCancelled

\* The end of a run ends its recording the same way, or changes nothing.
LEMMA FinalizeJobs ==
  ASSUME NEW d \in Rows, NEW j \in Jobs, NEW i \in Items \cup {NoItem},
         NEW s \in ItemStatus, NEW e \in Execs \cup {NoExec}
  PROVE  \/ Finalize(d, j, i, s, e) = d
         \/ JobSet(d, Finalize(d, j, i, s, e), j, JobOutcome(s))
<1> DEFINE b == SetItem(d, i, s)
           x == IF e = NoExec THEN b.item[i].exec ELSE e
           c == [b EXCEPT !.item[i].exec = IF e = NoExec THEN @ ELSE e]
<1>1. CASE Finalize(d, j, i, s, e) = d
  BY <1>1
<1>2. CASE i # NoItem /\ Finalize(d, j, i, s, e) = SetJob(c, j, JobOutcome(s))
  <2>1. b \in Rows /\ b.job = d.job
    BY <1>2, SetItemType, SetItemRow
  <2>2. c \in Rows /\ c.job = b.job
    <3> HIDE DEF b
    <3> DEFINE r == [b.item[i] EXCEPT !.exec = x]
    <3>1. b.item \in [Items -> ItemRow] /\ b.item[i] \in ItemRow
      BY <1>2, <2>1 DEF Rows
    <3>2. x \in Execs \cup {NoExec}
      BY <3>1 DEF ItemRow
    <3>3. r \in ItemRow
      BY <3>1, <3>2 DEF ItemRow
    <3>4. c = [b EXCEPT !.item = [b.item EXCEPT ![i] = r]]
      BY <1>2, <2>1, <3>1 DEF Rows, ItemRow
    <3> HIDE DEF c, r, x
    <3>5. [b.item EXCEPT ![i] = r] \in [Items -> ItemRow]
      BY <1>2, <3>1, <3>3
    <3> QED BY <2>1, <3>4, <3>5 DEF Rows
  <2> HIDE DEF b, c
  <2> QED BY <1>2, <2>1, <2>2, SetJobRow DEF JobSet, OnlyJob
<1> QED BY <1>1, <1>2 DEF Finalize

\* The outcomes and admissions of executions.
LEMMA SetExecJobs ==
  ASSUME NEW d \in Rows, NEW j \in Jobs, NEW e \in Execs, NEW s \in ExecState,
         NEW t \in ExecStatus, NEW v \in JobStatus
  PROVE  /\ SetJob(SetExec(d, e, s, t), j, v) \in Rows
         /\ JobSet(d, SetJob(SetExec(d, e, s, t), j, v), j, v)
<1> DEFINE c == SetExec(d, e, s, t)
<1>1. c \in Rows /\ c.job = d.job
  BY SetExecLemma, ZenonT(60) DEF SetExec, Rows
<1> HIDE DEF c
<1>2. SetJob(c, j, v) \in Rows /\ JobSet(c, SetJob(c, j, v), j, v)
  BY <1>1, SetJobLemma, SetJobRow
<1> QED BY <1>1, <1>2 DEF JobSet, OnlyJob, c

\* Cancelling an execution fails its recording, the first time.
LEMMA CancelJobs ==
  ASSUME NEW d \in Rows, NEW j \in Jobs, NEW e \in Execs
  PROVE  \/ d.exec[e].state = "cancelled" /\ Cancel(d, j, e) = d
         \/ JobSet(d, Cancel(d, j, e), j, "failed")
<1> DEFINE b == SetExec(d, e, "cancelled", "failed")
           c == [b EXCEPT !.exec[e].gen = @ + 1]
<1>1. b \in Rows /\ b.job = d.job
  <2>1. b \in Rows
    BY SetExecLemma DEF ExecState, ExecStatus
  <2> QED BY <2>1 DEF SetExec, Rows
<1>2. c \in Rows /\ c.job = b.job
  <2> HIDE DEF b
  <2> QED BY <1>1, FenceLemma DEF Rows
<1>3. d.exec[e].state # "cancelled" => Cancel(d, j, e) = SetJob(c, j, "failed")
  BY DEF Cancel
<1>4. d.exec[e].state = "cancelled" => Cancel(d, j, e) = d
  BY DEF Cancel
<1> HIDE DEF b, c
<1> QED BY <1>1, <1>2, <1>3, <1>4, SetJobRow DEF JobSet, OnlyJob

\* A resume readmits the recording.
LEMMA RequestResumeJobs ==
  ASSUME NEW d \in Rows, NEW j \in Jobs, NEW e \in Execs
  PROVE  JobSet(d, RequestResume(d, j, e), j, "pending")
<1> DEFINE i == d.exec[e].item
           b == SetExec(d, e, "pending", "pending")
           c == [b EXCEPT !.exec[e].gen = @ + 1]
           x == IF i = NoItem THEN c ELSE [c EXCEPT !.item[i].status = "pending"]
<1>1. b \in Rows /\ b.job = d.job /\ i \in Items \cup {NoItem}
  <2>1. b \in Rows
    BY SetExecLemma DEF ExecState, ExecStatus
  <2>2. i \in Items \cup {NoItem}
    BY DEF Rows, ExecRow
  <2> QED BY <2>1, <2>2 DEF SetExec, Rows
<1>2. c \in Rows /\ c.job = b.job
  <2> HIDE DEF b
  <2> QED BY <1>1, FenceLemma DEF Rows
<1>3. x \in Rows /\ x.job = c.job
  <2> HIDE DEF c, i
  <2> QED BY <1>1, <1>2, ItemStatusLemma DEF ItemStatus, Rows
<1>4. RequestResume(d, j, e) = SetJob(x, j, "pending")
  BY DEF RequestResume
<1> HIDE DEF b, c, x
<1> QED BY <1>1, <1>2, <1>3, <1>4, SetJobRow DEF JobSet, OnlyJob

\* An admitted resume that expires fails its recording.
LEMMA ExpirePendingJobs ==
  ASSUME NEW d \in Rows, NEW j \in Jobs, NEW e \in Execs
  PROVE  JobSet(d, ExpirePending(d, j, e), j, "failed")
<1> DEFINE i == d.exec[e].item
           c == SetJob(SetExec(d, e, "failed", "failed"), j, "failed")
<1>1. c \in Rows /\ JobSet(d, c, j, "failed") /\ i \in Items \cup {NoItem}
  <2>1. i \in Items \cup {NoItem}
    BY DEF Rows, ExecRow
  <2>2. c \in Rows /\ JobSet(d, c, j, "failed")
    BY SetExecJobs DEF ExecState, ExecStatus, JobStatus
  <2> QED BY <2>1, <2>2
<1>2. ExpirePending(d, j, e) = IF i = NoItem THEN c ELSE SetItem(c, i, "failed")
  BY DEF ExpirePending
<1> HIDE DEF c, i
<1>3. i # NoItem => SetItem(c, i, "failed").job = c.job
  BY <1>1, SetItemRow
<1> QED BY <1>1, <1>2, <1>3 DEF JobSet, OnlyJob

\* Publication writes its outcome on the recording.
LEMMA FinishJobs ==
  ASSUME NEW d \in Rows, NEW j \in Jobs, NEW e \in Execs, NEW s \in {"completed", "failed"}
  PROVE  JobSet(d, Finish(d, j, e, s), j, s)
<1> DEFINE i == d.exec[e].item
           c == SetJob(SetExec(d, e, s, s), j, s)
<1>1. c \in Rows /\ JobSet(d, c, j, s) /\ i \in Items \cup {NoItem}
  <2>1. i \in Items \cup {NoItem}
    BY DEF Rows, ExecRow
  <2>2. c \in Rows /\ JobSet(d, c, j, s)
    <3>1. s \in ExecState /\ s \in ExecStatus /\ s \in JobStatus
      BY DEF ExecState, ExecStatus, JobStatus
    <3> QED BY <3>1, SetExecJobs
  <2> QED BY <2>1, <2>2
<1>2. Finish(d, j, e, s) = IF i = NoItem THEN c ELSE SetItem(c, i, s)
  BY DEF Finish
<1> HIDE DEF c, i
<1>3. i # NoItem => SetItem(c, i, s).job = c.job
  BY <1>1, SetItemRow
<1> QED BY <1>1, <1>2, <1>3 DEF JobSet, OnlyJob

\* A deletion buries one recording.
LEMMA DeleteJobs ==
  ASSUME NEW d \in Rows, NEW j \in Jobs
  PROVE  JobSet(d, DeleteWithAssociations(d, j), j, "deleted")
BY DEF DeleteWithAssociations, JobSet, OnlyJob, Rows

-----------------------------------------------------------------------------
(* The line of a recording's waiting runs.                                 *)

\* The waiting runs of recording j, each at the place its position names.
IsLine(d, j, l) ==
  /\ l \in Seq(Items)
  /\ \A p \in 1..Len(l) : l[p] \in Queued(d, j) /\ d.item[l[p]].pos = p
  /\ \A i \in Queued(d, j) : \E p \in 1..Len(l) : l[p] = i

\* How a client sees a run that is over.
Result(s) ==
  CASE s \in {"completed", "failed", "cancelled"} -> s
    [] s = "gone" -> "deleted"
    [] OTHER -> "no"

\* A client sees run i in c as it did in d.
SameView(d, c, i) ==
  /\ c.item[i].status = "queued" <=> d.item[i].status = "queued"
  /\ d.item[i].status = "queued" => c.item[i].pos = d.item[i].pos
  /\ c.item[i].status \in ActiveStatus <=> d.item[i].status \in ActiveStatus
  /\ Result(c.item[i].status) = Result(d.item[i].status)

\* From d to c run i alone changes its status, to s, in the eyes of a client.
Turns(d, c, j, i, s) ==
  /\ c.item[i].status = s
  /\ \A k \in Items : JobOf[k] = j /\ k # i => SameView(d, c, k)

Still(d, c, j) == \A i \in Items : JobOf[i] = j => SameView(d, c, i)

\* A run stands in line once, at its position.
LEMMA LinePlace ==
  ASSUME NEW d, NEW j, NEW l, IsLine(d, j, l)
  PROVE  /\ Len(l) \in Nat
         /\ \A p \in 1..Len(l) : l[p] \in Items
         /\ \A p, q \in 1..Len(l) : l[p] = l[q] => p = q
         /\ \A i \in Queued(d, j) :
              d.item[i].pos \in 1..Len(l) /\ l[d.item[i].pos] = i
  BY DEF IsLine

\* The number of waiting runs is the length of the line.
LEMMA LineSize ==
  ASSUME NEW d, NEW j, NEW l, IsLine(d, j, l)
  PROVE  IsFiniteSet(Queued(d, j)) /\ Cardinality(Queued(d, j)) = Len(l)
<1>1. Len(l) \in Nat /\ \A p, q \in 1..Len(l) : l[p] = l[q] => p = q
  BY LinePlace
<1>2. l \in [1..Len(l) -> Queued(d, j)]
  <2>1. l \in Seq(Items) /\ \A p \in 1..Len(l) : l[p] \in Queued(d, j)
    BY DEF IsLine
  <2> QED BY <2>1
<1>3. l \in Bijection(1..Len(l), Queued(d, j))
  BY <1>1, <1>2 DEF IsLine, Bijection, Injection, Surjection, IsInjective
<1>4. IsFiniteSet(1..Len(l)) /\ Cardinality(1..Len(l)) = Len(l)
  <2> DEFINE n == Len(l)
  <2>1. 1 \in Int /\ n \in Int /\ n \in Nat
    BY <1>1
  <2> HIDE DEF n
  <2>2. IsFiniteSet(1..n) /\ Cardinality(1..n) = IF 1 > n THEN 0 ELSE n - 1 + 1
    BY <2>1, FS_Interval
  <2>3. IsFiniteSet(1..n) /\ Cardinality(1..n) = n
    BY <2>1, <2>2
  <2> QED BY <2>3 DEF n
<1> QED BY <1>3, <1>4, FS_Bijection DEF ExistsBijection

\* The line is what the rows say it is.
LEMMA LineIsUnique ==
  ASSUME NEW d, NEW j, NEW l, IsLine(d, j, l)
  PROVE  l = [p \in 1..Cardinality(Queued(d, j)) |->
                CHOOSE i \in Queued(d, j) : d.item[i].pos = p]
<1>1. l \in Seq(Items) /\ Cardinality(Queued(d, j)) = Len(l)
  BY LineSize DEF IsLine
<1>2. ASSUME NEW p \in 1..Len(l)
      PROVE  l[p] = CHOOSE i \in Queued(d, j) : d.item[i].pos = p
  <2>1. l[p] \in Queued(d, j) /\ d.item[l[p]].pos = p
    BY DEF IsLine
  <2>2. \A i \in Queued(d, j) : d.item[i].pos = p => i = l[p]
    BY LinePlace
  <2> QED BY <2>1, <2>2
<1> QED BY <1>1, <1>2

\* Who stands before whom in a line is a matter of positions.
LEMMA LineOrder ==
  ASSUME NEW d, NEW j, NEW l, IsLine(d, j, l), NEW r \in Queued(d, j), NEW s \in Queued(d, j)
  PROVE  (\E p, q \in 1..Len(l) : p < q /\ l[p] = r /\ l[q] = s)
           <=> d.item[r].pos < d.item[s].pos
  BY LinePlace DEF IsLine

\* A line a client sees unchanged is unchanged.
LEMMA StillLine ==
  ASSUME NEW c, NEW d, NEW j, NEW l, IsLine(d, j, l), Still(d, c, j)
  PROVE  /\ IsLine(c, j, l) /\ Queued(c, j) = Queued(d, j)
         /\ ActiveItems(c, j) = ActiveItems(d, j)
<1>1. Queued(c, j) = Queued(d, j) /\ ActiveItems(c, j) = ActiveItems(d, j)
  BY DEF Still, SameView, Queued, ActiveItems, ItemsIn
<1>2. \A i \in Queued(d, j) : c.item[i].pos = d.item[i].pos
  BY DEF Still, SameView, Queued, ItemsIn
<1> QED BY <1>1, <1>2 DEF IsLine

\* A run that ends or comes back leaves the line alone.
LEMMA TurnsLine ==
  ASSUME NEW c, NEW d, NEW j, NEW l, IsLine(d, j, l), NEW i \in Items, JobOf[i] = j,
         NEW s, Turns(d, c, j, i, s), d.item[i].status # "queued", s # "queued"
  PROVE  /\ IsLine(c, j, l)
         /\ ActiveItems(c, j) = IF s \in ActiveStatus THEN ActiveItems(d, j) \cup {i}
                                ELSE ActiveItems(d, j) \ {i}
<1>1. Queued(c, j) = Queued(d, j)
  BY DEF Turns, SameView, Queued, ItemsIn
<1>2. \A k \in Queued(d, j) : c.item[k].pos = d.item[k].pos
  BY DEF Turns, SameView, Queued, ItemsIn
<1>3. ActiveItems(c, j) = IF s \in ActiveStatus THEN ActiveItems(d, j) \cup {i}
                          ELSE ActiveItems(d, j) \ {i}
  BY DEF Turns, SameView, ActiveItems, ItemsIn
<1> QED BY <1>1, <1>2, <1>3 DEF IsLine

-----------------------------------------------------------------------------
(* What the edits and the promotion make of the line.                      *)

\* AppendRun puts the new run at the end of the line.
LEMMA AppendLine ==
  ASSUME NEW d \in Rows, NEW j \in Jobs, NEW i \in Items, NEW l, IsLine(d, j, l),
         CanAppend(d, j, i)
  PROVE  LET c == AppendRun(d, j, i)
         IN  /\ IsLine(c, j, Append(l, i)) /\ ActiveItems(c, j) = ActiveItems(d, j)
             /\ \A k \in Items : Result(c.item[k].status) = Result(d.item[k].status)
<1> DEFINE c == AppendRun(d, j, i)
           n == Len(l)
           m == Append(l, i)
<1>1. l \in Seq(Items) /\ n \in Nat
  BY DEF IsLine
<1>2. m \in Seq(Items) /\ Len(m) = n + 1 /\ m[n + 1] = i /\ \A p \in 1..n : m[p] = l[p]
  BY <1>1
<1>3. LastPosition(d, j) = n
  <2>1. CASE Queued(d, j) = {}
    <3>1. n = 0
      <4>1. \A p \in 1..n : FALSE
        BY <2>1 DEF IsLine
      <4> QED BY <1>1, <4>1
    <3> QED BY <2>1, <3>1 DEF LastPosition
  <2>2. CASE Queued(d, j) # {}
    <3>1. n \in 1..n
      <4>1. PICK k \in Queued(d, j) : TRUE
        BY <2>2
      <4>2. d.item[k].pos \in 1..n
        BY <4>1, LinePlace
      <4> QED BY <1>1, <4>2
    <3>2. l[n] \in Queued(d, j) /\ d.item[l[n]].pos = n
      BY <3>1 DEF IsLine
    <3>3. \A k \in Queued(d, j) : d.item[k].pos \in 1..n
      BY LinePlace
    <3>4. \A k \in Queued(d, j) : d.item[k].pos <= d.item[l[n]].pos
      BY <1>1, <3>2, <3>3
    <3> DEFINE last == CHOOSE k \in Queued(d, j) :
                         \A x \in Queued(d, j) : d.item[x].pos <= d.item[k].pos
    <3>5. last \in Queued(d, j) /\ \A x \in Queued(d, j) : d.item[x].pos <= d.item[last].pos
      BY <3>2, <3>4
    <3>6. d.item[last].pos \in 1..n /\ n <= d.item[last].pos
      BY <3>2, <3>3, <3>5
    <3>7. d.item[last].pos = n
      BY <1>1, <3>6
    <3> QED BY <2>2, <3>7 DEF LastPosition
  <2> QED BY <2>1, <2>2
<1>4. c.item[i] = [status |-> "queued", pos |-> n + 1, exec |-> NoExec]
      /\ \A k \in Items : k # i => c.item[k] = d.item[k]
  BY <1>3 DEF AppendRun, Rows
<1>5. d.item[i].status = "none" /\ JobOf[i] = j
  BY DEF CanAppend
<1>6. Queued(c, j) = Queued(d, j) \cup {i} /\ i \notin Queued(d, j)
  <2> HIDE DEF c
  <2> QED BY <1>4, <1>5 DEF Queued, ItemsIn
<1>7. ActiveItems(c, j) = ActiveItems(d, j)
  <2> HIDE DEF c
  <2> QED BY <1>4, <1>5 DEF ActiveItems, ItemsIn, ActiveStatus
<1>8. \A k \in Items : Result(c.item[k].status) = Result(d.item[k].status)
  <2> HIDE DEF c
  <2> QED BY <1>4, <1>5 DEF Result
<1>9. IsLine(c, j, m)
  <2>1. \A p \in 1..n : l[p] \in Queued(d, j) /\ d.item[l[p]].pos = p /\ l[p] \in Items
    BY LinePlace DEF IsLine
  <2>2. \A k \in Queued(d, j) : \E p \in 1..n : l[p] = k
    BY DEF IsLine
  <2> HIDE DEF c, m, n
  <2>3. ASSUME NEW p \in 1..Len(m) PROVE m[p] \in Queued(c, j) /\ c.item[m[p]].pos = p
    <3>1. CASE p = n + 1
      BY <1>2, <1>4, <1>6, <3>1
    <3>2. CASE p # n + 1
      <4>1. p \in 1..n
        BY <1>1, <1>2, <3>2
      <4>2. m[p] = l[p] /\ l[p] # i
        BY <1>2, <1>6, <2>1, <4>1
      <4> QED BY <1>4, <1>6, <2>1, <4>1, <4>2
    <3> QED BY <3>1, <3>2
  <2>4. ASSUME NEW k \in Queued(c, j) PROVE \E p \in 1..Len(m) : m[p] = k
    <3>1. CASE k = i
      <4>1. n + 1 \in 1..Len(m)
        BY <1>1, <1>2
      <4> QED BY <1>2, <3>1, <4>1
    <3>2. CASE k # i
      <4>1. PICK p \in 1..n : l[p] = k
        BY <1>6, <2>2, <3>2
      <4>2. p \in 1..Len(m)
        BY <1>1, <1>2, <4>1
      <4> QED BY <1>2, <4>1, <4>2
    <3> QED BY <3>1, <3>2
  <2> QED BY <1>2, <2>3, <2>4 DEF IsLine
<1> QED BY <1>7, <1>8, <1>9 DEF c, m

\* Once the run at place p is gone, the rank of another is its place, or one less.
LEMMA Rank ==
  ASSUME NEW d, NEW j, NEW l, IsLine(d, j, l), NEW p \in 1..Len(l), NEW q \in 1..Len(l), q # p
  PROVE  Cardinality({x \in Queued(d, j) \ {l[p]} : d.item[x].pos <= q})
           = IF q < p THEN q ELSE q - 1
<1> DEFINE S == (1..q) \ {p}
           T == {x \in Queued(d, j) \ {l[p]} : d.item[x].pos <= q}
           f == [x \in S |-> l[x]]
<1>1. Len(l) \in Nat /\ p \in Int /\ q \in Int /\ 1 <= p /\ 1 <= q
  BY LinePlace
<1>2. \A x \in S : x \in 1..Len(l) /\ x <= q /\ x # p
  BY <1>1
<1>3. \A x \in S : f[x] \in T
  <2>1. \A x \in S : l[x] \in Queued(d, j) /\ d.item[l[x]].pos = x /\ l[x] # l[p]
    BY <1>2, LinePlace DEF IsLine
  <2> QED BY <1>2, <2>1
<1>4. \A x, y \in S : f[x] = f[y] => x = y
  BY <1>2, LinePlace
<1>5. \A t \in T : \E x \in S : f[x] = t
  <2> SUFFICES ASSUME NEW t \in T PROVE d.item[t].pos \in S /\ f[d.item[t].pos] = t
    OBVIOUS
  <2>1. d.item[t].pos \in 1..Len(l) /\ l[d.item[t].pos] = t
    BY LinePlace
  <2>2. d.item[t].pos # p /\ d.item[t].pos <= q
    BY <2>1
  <2>3. d.item[t].pos \in S
    BY <1>1, <2>1, <2>2
  <2> QED BY <2>1, <2>3
<1>6. f \in Bijection(S, T)
  <2>1. f \in [S -> T]
    <3>1. f = [x \in S |-> f[x]]
      OBVIOUS
    <3> HIDE DEF f, T, S
    <3> QED BY <1>3, <3>1
  <2> HIDE DEF f, T, S
  <2> QED BY <1>4, <1>5, <2>1 DEF Bijection, Injection, Surjection, IsInjective
<1>7. IsFiniteSet(1..q) /\ Cardinality(1..q) = q
  <2>1. 1 \in Int /\ q \in Int
    BY <1>1
  <2>2. IsFiniteSet(1..q) /\ Cardinality(1..q) = IF 1 > q THEN 0 ELSE q - 1 + 1
    BY <2>1, FS_Interval
  <2> QED BY <1>1, <2>2
<1>8. IsFiniteSet(S) /\ Cardinality(S) = IF p \in 1..q THEN Cardinality(1..q) - 1
                                         ELSE Cardinality(1..q)
  BY <1>7, FS_RemoveElement
<1>9. Cardinality(T) = Cardinality(S)
  <2> HIDE DEF f, T, S
  <2> QED BY <1>6, <1>8, FS_Bijection DEF ExistsBijection
<1> HIDE DEF S, T
<1>10. Cardinality(T) = IF q < p THEN q ELSE q - 1
  BY <1>1, <1>7, <1>8, <1>9
<1> QED BY <1>10 DEF T

\* The line l without the run at place p.
Without(l, p) == [q \in 1..(Len(l) - 1) |-> IF q < p THEN l[q] ELSE l[q + 1]]

\* A run that leaves the line lets those behind it close up, in their order
\* (normalizeQueuedPositions after CancelQueued and PromoteNext).
LEMMA LeaveLine ==
  ASSUME NEW d \in Rows, NEW j \in Jobs, NEW l, IsLine(d, j, l), NEW p \in 1..Len(l),
         NEW s \in ItemStatus, s # "queued"
  PROVE  LET i == l[p]
             c == Normalized(SetItem(d, i, s), j)
         IN  /\ i \in Items /\ JobOf[i] = j /\ IsLine(c, j, Without(l, p))
             /\ Queued(c, j) = Queued(d, j) \ {i}
             /\ c.item[i].status = s
             /\ \A k \in Items : k # i => c.item[k].status = d.item[k].status
             /\ \A r, t \in Queued(c, j) :
                  c.item[r].pos < c.item[t].pos <=> d.item[r].pos < d.item[t].pos
<1> DEFINE i == l[p]
           b == SetItem(d, i, s)
           c == Normalized(b, j)
           n == Len(l)
           m == Without(l, p)
           New(q) == IF q < p THEN q ELSE q - 1
<1>1. i \in Queued(d, j) /\ i \in Items /\ JobOf[i] = j
  BY DEF IsLine, Queued, ItemsIn
<1>2. n \in Nat /\ p \in Nat /\ p <= n /\ 1 <= p
  BY LinePlace
<1>3. b \in Rows
  BY <1>1, SetItemType
<1>4. b.item[i].status = s /\ \A k \in Items : k # i => b.item[k] = d.item[k]
  <2> HIDE DEF i
  <2> QED BY <1>1, SetItemRow
<1> HIDE DEF b
<1>5. \A k \in Items : /\ c.item[k].status = b.item[k].status
                       /\ k \in Queued(b, j) =>
                            c.item[k].pos = Cardinality({x \in Queued(b, j) :
                                                          b.item[x].pos <= b.item[k].pos})
  <2>1. \A k \in Items : c.item[k].status = b.item[k].status
    BY <1>3, NormalizedRow
  <2>2. ASSUME NEW k \in Queued(b, j)
        PROVE  c.item[k].pos = Cardinality({x \in Queued(b, j) :
                                              b.item[x].pos <= b.item[k].pos})
    <3>1. k \in Items /\ b.item[k] \in ItemRow
      BY <1>3, <2>2 DEF Queued, ItemsIn, Rows
    <3> QED BY <1>3, <3>1 DEF Normalized, Rows, ItemRow
  <2> QED BY <2>1, <2>2
<1> HIDE DEF c
<1>6. Queued(b, j) = Queued(d, j) \ {i} /\ Queued(c, j) = Queued(d, j) \ {i}
  <2> HIDE DEF i
  <2>1. Queued(b, j) = Queued(d, j) \ {i}
    BY <1>4 DEF Queued, ItemsIn
  <2> QED BY <1>5, <2>1 DEF Queued, ItemsIn
<1>7. ASSUME NEW q \in 1..n, q # p PROVE l[q] \in Queued(c, j) /\ c.item[l[q]].pos = New(q)
  <2>1. l[q] \in Queued(d, j) /\ d.item[l[q]].pos = q /\ l[q] # i /\ l[q] \in Items
    BY <1>7, LinePlace DEF IsLine
  <2>2. l[q] \in Queued(b, j) /\ l[q] \in Queued(c, j)
    BY <1>6, <2>1
  <2>3. c.item[l[q]].pos = Cardinality({x \in Queued(b, j) : b.item[x].pos <= b.item[l[q]].pos})
    BY <1>5, <2>1, <2>2
  <2>4. b.item[l[q]].pos = q
    BY <1>4, <2>1
  <2>5. \A x \in Queued(b, j) : b.item[x].pos = d.item[x].pos
    BY <1>4, <1>6 DEF Queued, ItemsIn
  <2>6. {x \in Queued(b, j) : b.item[x].pos <= b.item[l[q]].pos}
          = {x \in Queued(d, j) \ {l[p]} : d.item[x].pos <= q}
    BY <1>6, <2>4, <2>5
  <2>7. Cardinality({x \in Queued(d, j) \ {l[p]} : d.item[x].pos <= q}) = New(q)
    BY <1>7, Rank
  <2> QED BY <2>2, <2>3, <2>6, <2>7
<1>8. IsLine(c, j, m)
  <2>1. Len(m) = n - 1 /\ m \in Seq(Items)
        /\ \A q \in 1..(n - 1) : m[q] = IF q < p THEN l[q] ELSE l[q + 1]
    <3>1. n - 1 \in Nat
      BY <1>2
    <3>2. \A q \in 1..(n - 1) : (IF q < p THEN l[q] ELSE l[q + 1]) \in Items
      BY <1>2, LinePlace
    <3> QED BY <3>1, <3>2 DEF Without
  <2> HIDE DEF m
  <2>2. ASSUME NEW q \in 1..Len(m) PROVE m[q] \in Queued(c, j) /\ c.item[m[q]].pos = q
    <3>1. CASE q < p
      <4>1. q \in 1..n /\ q # p /\ New(q) = q /\ m[q] = l[q]
        BY <1>2, <2>1, <3>1
      <4> QED BY <1>7, <4>1
    <3>2. CASE ~(q < p)
      <4>1. q + 1 \in 1..n /\ q + 1 # p /\ New(q + 1) = q /\ m[q] = l[q + 1]
        BY <1>2, <2>1, <3>2
      <4> QED BY <1>7, <4>1
    <3> QED BY <3>1, <3>2
  <2>3. ASSUME NEW k \in Queued(c, j) PROVE \E q \in 1..Len(m) : m[q] = k
    <3>1. PICK q \in 1..n : l[q] = k
      BY <1>6 DEF IsLine
    <3>2. q # p
      BY <1>6, <3>1
    <3>3. CASE q < p
      <4>1. q \in 1..Len(m) /\ m[q] = l[q]
        BY <1>2, <2>1, <3>3
      <4> QED BY <3>1, <4>1
    <3>4. CASE q > p
      <4>1. q - 1 \in 1..Len(m) /\ m[q - 1] = l[q - 1 + 1] /\ q - 1 + 1 = q
        BY <1>2, <2>1, <3>4
      <4> QED BY <3>1, <4>1
    <3> QED BY <1>2, <3>2, <3>3, <3>4
  <2> QED BY <2>1, <2>2, <2>3 DEF IsLine
<1>9. ASSUME NEW r \in Queued(c, j), NEW t \in Queued(c, j)
      PROVE  c.item[r].pos < c.item[t].pos <=> d.item[r].pos < d.item[t].pos
  <2> DEFINE x == d.item[r].pos
             y == d.item[t].pos
  <2>1. x \in 1..n /\ l[x] = r /\ y \in 1..n /\ l[y] = t
    BY <1>6, LinePlace
  <2>2. x # p /\ y # p
    BY <1>6, <2>1
  <2>3. c.item[r].pos = New(x) /\ c.item[t].pos = New(y)
    BY <1>7, <2>1, <2>2
  <2> HIDE DEF x, y
  <2>4. New(x) < New(y) <=> x < y
    BY <1>2, <2>1, <2>2
  <2> QED BY <2>3, <2>4 DEF x, y
<1>10. c.item[i].status = s /\ \A k \in Items : k # i => c.item[k].status = d.item[k].status
  <2> HIDE DEF i
  <2> QED BY <1>1, <1>4, <1>5
<1> QED BY <1>1, <1>6, <1>8, <1>9, <1>10 DEF b, c

\* PromoteNext takes the first of the line, which must not be empty.
LEMMA PromoteLine ==
  ASSUME NEW d \in Rows, NEW j \in Jobs, NEW l, IsLine(d, j, l), Promotable(d, j)
  PROVE  LET c == PromoteNext(d, j)
         IN  /\ l # << >> /\ IsLine(c, j, Tail(l))
             /\ ActiveItems(d, j) = {} /\ ActiveItems(c, j) = {Head(l)}
             /\ \A k \in Items : Result(c.item[k].status) = Result(d.item[k].status)
<1> DEFINE c == PromoteNext(d, j)
           f == FirstQueued(d, j)
           b == Normalized(SetItem(d, f, "pending"), j)
           n == Len(l)
<1>1. l \in Seq(Items) /\ n \in Nat
  BY DEF IsLine
<1>2. f \in Queued(d, j)
  BY FirstQueuedLemma DEF Promotable
<1>3. 1 \in 1..n
  <2>1. d.item[f].pos \in 1..n
    BY <1>2, LinePlace
  <2> QED BY <1>1, <2>1
<1>4. f = l[1]
  <2>1. l[1] \in Queued(d, j) /\ d.item[l[1]].pos = 1
    BY <1>3 DEF IsLine
  <2>2. \A k \in Queued(d, j) : d.item[k].pos \in 1..n /\ l[d.item[k].pos] = k
    BY LinePlace
  <2>3. \A k \in Queued(d, j) : d.item[l[1]].pos <= d.item[k].pos
    BY <1>1, <2>1, <2>2
  <2>4. \A k \in Queued(d, j) : d.item[f].pos <= d.item[k].pos
    <3>1. \E i \in Queued(d, j) : \A k \in Queued(d, j) : d.item[i].pos <= d.item[k].pos
      BY <2>1, <2>3
    <3> QED BY <3>1 DEF FirstQueued
  <2>5. d.item[f].pos = 1
    BY <1>1, <1>2, <2>1, <2>2, <2>4
  <2> QED BY <1>2, <2>2, <2>5
<1>5. /\ f \in Items /\ IsLine(b, j, Without(l, 1)) /\ JobOf[f] = j
      /\ Queued(b, j) = Queued(d, j) \ {f}
      /\ b.item[f].status = "pending"
      /\ \A k \in Items : k # f => b.item[k].status = d.item[k].status
  <2>1. "pending" \in ItemStatus /\ "pending" # "queued"
    BY DEF ItemStatus
  <2> QED BY <1>3, <1>4, <2>1, LeaveLine
<1>6. Tail(l) = Without(l, 1)
  <2>1. l # << >>
    BY <1>1, <1>3
  <2>2. Tail(l) \in Seq(Items) /\ Len(Tail(l)) = n - 1
        /\ \A q \in 1..(n - 1) : Tail(l)[q] = l[q + 1]
    BY <1>1, <2>1
  <2>3. Tail(l) = [q \in 1..(n - 1) |-> l[q + 1]]
    <3> DEFINE t == Tail(l)
    <3>1. t \in Seq(Items) /\ Len(t) = n - 1 /\ \A q \in 1..(n - 1) : t[q] = l[q + 1]
      BY <2>2
    <3> HIDE DEF t
    <3>2. t = [q \in 1..Len(t) |-> t[q]]
      BY <3>1
    <3> HIDE DEF n
    <3>3. t = [q \in 1..(n - 1) |-> l[q + 1]]
      BY <3>1, <3>2
    <3> QED BY <3>3 DEF t
  <2> QED BY <1>1, <2>3 DEF Without
<1>7. c.item = b.item
  BY DEF PromoteNext, SetJob
<1>8. l # << >> /\ Head(l) = f
  BY <1>1, <1>3, <1>4
<1> HIDE DEF b, c, f
<1>9. IsLine(c, j, Tail(l))
  <2>1. Queued(c, j) = Queued(b, j)
    BY <1>7 DEF Queued, ItemsIn
  <2>2. IsLine(b, j, Tail(l))
    BY <1>5, <1>6
  <2> QED BY <1>7, <2>1, <2>2 DEF IsLine
<1>10. ActiveItems(d, j) = {}
  BY DEF Promotable
<1>11. ActiveItems(c, j) = {f}
  BY <1>5, <1>7, <1>10 DEF ActiveItems, ItemsIn, ActiveStatus
<1>12. d.item[f].status = "queued"
  BY <1>2 DEF Queued, ItemsIn
<1>13. \A k \in Items : Result(c.item[k].status) = Result(d.item[k].status)
  BY <1>5, <1>7, <1>12 DEF Result
<1> QED BY <1>8, <1>9, <1>10, <1>11, <1>13 DEF c

\* CancelQueued takes one run out of the line.
LEMMA CancelLine ==
  ASSUME NEW d \in Rows, NEW j \in Jobs, NEW l, IsLine(d, j, l),
         NEW i \in Items, JobOf[i] = j, d.item[i].status = "queued"
  PROVE  LET c == CancelQueued(d, i)
         IN  \E m : /\ IsLine(c, j, m) /\ Queued(c, j) = Queued(d, j) \ {i}
                    /\ c.item[i].status = "cancelled"
                    /\ \A k \in Items : k # i => c.item[k].status = d.item[k].status
                    /\ \A r, t \in Queued(c, j) :
                         c.item[r].pos < c.item[t].pos <=> d.item[r].pos < d.item[t].pos
<1>1. PICK p \in 1..Len(l) : l[p] = i
  BY DEF IsLine, Queued, ItemsIn
<1>2. "cancelled" \in ItemStatus /\ "cancelled" # "queued"
  BY DEF ItemStatus
<1> QED BY <1>1, <1>2, LeaveLine, SMTT(30) DEF CancelQueued

\* ClearQueued leaves nobody in the line.
LEMMA ClearLine ==
  ASSUME NEW d \in Rows, NEW j \in Jobs
  PROVE  LET c == ClearQueued(d, j)
         IN  /\ Queued(c, j) = {}
             /\ \A k \in Items : c.item[k].status = IF k \in Queued(d, j) THEN "cancelled"
                                                    ELSE d.item[k].status
<1> DEFINE c == ClearQueued(d, j)
<1>1. \A k \in Items : c.item[k].status = IF k \in Queued(d, j) THEN "cancelled"
                                          ELSE d.item[k].status
  <2> SUFFICES ASSUME NEW k \in Items
               PROVE  c.item[k].status = IF k \in Queued(d, j) THEN "cancelled"
                                         ELSE d.item[k].status
    OBVIOUS
  <2>1. d.item[k] \in ItemRow
    BY DEF Rows
  <2> QED BY <2>1 DEF ClearQueued, Rows, ItemRow
<1> HIDE DEF c
<1>2. Queued(c, j) = {}
  BY <1>1 DEF Queued, ItemsIn
<1> QED BY <1>1, <1>2 DEF c

\* A line nobody stands in is empty.
LEMMA EmptyLine ==
  ASSUME NEW d, NEW j, Queued(d, j) = {}
  PROVE  IsLine(d, j, << >>) /\ \A l : IsLine(d, j, l) => l = << >>
<1>1. IsLine(d, j, << >>)
  BY DEF IsLine
<1>2. ASSUME NEW l, IsLine(d, j, l) PROVE l = << >>
  <2>1. l \in Seq(Items) /\ \A p \in 1..Len(l) : FALSE
    BY <1>2 DEF IsLine
  <2> QED BY <2>1
<1> QED BY <1>1, <1>2

\* ReorderQueued puts the same runs in the order it was given.
LEMMA ReorderedLine ==
  ASSUME NEW d \in Rows, NEW j \in Jobs, NEW l, IsLine(d, j, l), NEW place \in Orders(d, j)
  PROVE  LET c == ReorderQueued(d, place)
         IN  /\ \E m \in [1..Len(l) -> Queued(d, j)] : IsLine(c, j, m)
             /\ \A k \in Items : c.item[k].status = d.item[k].status
<1> DEFINE c == ReorderQueued(d, place)
           Q == Queued(d, j)
           n == Len(l)
           m == [p \in 1..n |-> CHOOSE i \in Q : place[i] = p]
<1>1. n \in Nat /\ IsFiniteSet(Q) /\ Cardinality(Q) = n
  BY LinePlace, LineSize
<1>2. place \in [Q -> 1..n] /\ \A i, k \in Q : place[i] = place[k] => i = k
  BY <1>1 DEF Orders
<1>3. \A p \in 1..n : \E i \in Q : place[i] = p
  <2>1. place \in Injection(Q, 1..n)
    BY <1>2 DEF Injection, IsInjective
  <2>2. IsFiniteSet(1..n) /\ Cardinality(1..n) = n
    <3>1. 1 \in Int /\ n \in Int
      BY <1>1
    <3> HIDE DEF n
    <3>2. IsFiniteSet(1..n) /\ Cardinality(1..n) = IF 1 > n THEN 0 ELSE n - 1 + 1
      BY <3>1, FS_Interval
    <3> QED BY <1>1, <3>1, <3>2
  <2> HIDE DEF n, Q
  <2>3. place \in Surjection(Q, 1..n)
    BY <1>1, <2>1, <2>2, FS_Injection
  <2> QED BY <2>3 DEF Surjection
<1>4. \A p \in 1..n : m[p] \in Q /\ place[m[p]] = p
  BY <1>3
<1>5. \A k \in Items : /\ c.item[k].status = d.item[k].status
                       /\ k \in Q => c.item[k].pos = place[k]
  <2> SUFFICES ASSUME NEW k \in Items
               PROVE  /\ c.item[k].status = d.item[k].status
                      /\ k \in Q => c.item[k].pos = place[k]
    OBVIOUS
  <2>1. d.item[k] \in ItemRow
    BY DEF Rows
  <2>2. DOMAIN place = Q
    BY <1>2
  <2> QED BY <2>1, <2>2 DEF ReorderQueued, Rows, ItemRow
<1> HIDE DEF c
<1>6. Queued(c, j) = Q
  BY <1>5 DEF Queued, ItemsIn
<1>7. m \in [1..n -> Q] /\ Q \subseteq Items
  BY <1>4 DEF Queued, ItemsIn
<1>8. m \in Seq(Items) /\ Len(m) = n
  <2> HIDE DEF m, Q, n
  <2> QED BY <1>1, <1>7
<1>9. IsLine(c, j, m)
  <2>1. \A p \in 1..n : m[p] \in Q /\ c.item[m[p]].pos = p
    BY <1>4, <1>5, <1>7
  <2>2. \A k \in Q : \E p \in 1..n : m[p] = k
    BY <1>2, <1>4
  <2> HIDE DEF m, Q, n
  <2> QED BY <1>6, <1>8, <2>1, <2>2 DEF IsLine
<1> QED BY <1>5, <1>7, <1>9 DEF c

\* The runs of a deleted recording that ever existed are gone.
LEMMA DeletedLine ==
  ASSUME NEW d \in Rows, NEW j \in Jobs, NonTerminal(d, j) = {}
  PROVE  LET c == DeleteWithAssociations(d, j)
         IN  /\ Queued(d, j) = {} /\ ActiveItems(d, j) = {}
             /\ Queued(c, j) = {} /\ ActiveItems(c, j) = {}
             /\ \A k \in Items : JobOf[k] = j =>
                  Result(c.item[k].status) = IF Result(d.item[k].status) = "no" THEN "no"
                                             ELSE "deleted"
<1> DEFINE c == DeleteWithAssociations(d, j)
<1>1. \A k \in Items : JobOf[k] = j =>
        c.item[k].status = IF d.item[k].status = "none" THEN "none" ELSE "gone"
  BY DEF DeleteWithAssociations
<1>2. \A k \in Items : JobOf[k] = j =>
        d.item[k].status \in {"none", "completed", "failed", "cancelled", "gone"}
  BY DEF NonTerminal, ItemsIn, ActiveStatus, Rows, ItemRow, ItemStatus
<1> HIDE DEF c
<1>3. Queued(d, j) = {} /\ ActiveItems(d, j) = {}
  BY <1>2 DEF Queued, ActiveItems, ItemsIn, ActiveStatus
<1>4. Queued(c, j) = {} /\ ActiveItems(c, j) = {}
  BY <1>1 DEF Queued, ActiveItems, ItemsIn, ActiveStatus
<1>5. \A k \in Items : JobOf[k] = j =>
        Result(c.item[k].status) = IF Result(d.item[k].status) = "no" THEN "no"
                                   ELSE "deleted"
  BY <1>1, <1>2 DEF Result
<1> QED BY <1>3, <1>4, <1>5 DEF c

-----------------------------------------------------------------------------
(* Transactions that leave the line alone: at most one active run ends.    *)

EndedAs == {"completed", "failed", "cancelled"}

\* From d to c, recording j at most sees one of its active runs end.
AtMostEnds(d, c, j) ==
  \/ Still(d, c, j)
  \/ \E i \in ActiveItems(d, j), s \in EndedAs : Turns(d, c, j, i, s)

\* A transaction that writes one item, which was active and is so or has ended.
OneRun(d, c) ==
  \E i : \A k \in Items :
    c.item[k] = d.item[k] \/ /\ k = i /\ d.item[k].status \in ActiveStatus
                             /\ c.item[k].status \in ActiveStatus \cup EndedAs

\* One row written is at most one end.
LEMMA OneRunEnds ==
  ASSUME NEW c, NEW d, OneRun(d, c), NEW j
  PROVE  AtMostEnds(d, c, j)
<1>1. PICK i : \A k \in Items :
        c.item[k] = d.item[k] \/ /\ k = i /\ d.item[k].status \in ActiveStatus
                                 /\ c.item[k].status \in ActiveStatus \cup EndedAs
  BY DEF OneRun
<1>2. \A k \in Items : c.item[k] = d.item[k] => SameView(d, c, k)
  BY DEF SameView
<1>3. CASE i \in Items /\ JobOf[i] = j /\ d.item[i].status \in ActiveStatus
           /\ c.item[i].status \in EndedAs
  <2>1. i \in ActiveItems(d, j)
    BY <1>3 DEF ActiveItems, ItemsIn
  <2>2. Turns(d, c, j, i, c.item[i].status)
    BY <1>1, <1>2 DEF Turns
  <2> QED BY <1>3, <2>1, <2>2 DEF AtMostEnds
<1>4. CASE i \in Items /\ d.item[i].status \in ActiveStatus
           /\ c.item[i].status \in ActiveStatus
  <2>1. SameView(d, c, i)
    BY <1>4 DEF SameView, Result, ActiveStatus
  <2> QED BY <1>1, <1>2, <2>1 DEF Still, AtMostEnds
<1>5. CASE \A k \in Items : JobOf[k] = j => c.item[k] = d.item[k]
  BY <1>2, <1>5 DEF Still, AtMostEnds
<1> QED BY <1>1, <1>3, <1>4, <1>5

\* Rows that agree on their items look the same.
LEMMA SameItemsStill ==
  ASSUME NEW c, NEW d, NEW j, \A k \in Items : JobOf[k] = j => c.item[k] = d.item[k]
  PROVE  Still(d, c, j) /\ AtMostEnds(d, c, j)
  BY DEF Still, SameView, AtMostEnds

\* What looks the same may be looked at twice.
LEMMA EndsStill ==
  ASSUME NEW b, NEW c, NEW d, NEW j
  PROVE  /\ Still(d, b, j) /\ Still(b, c, j) => Still(d, c, j)
         /\ b.item = d.item /\ AtMostEnds(b, c, j) => AtMostEnds(d, c, j)
<1>1. Still(d, b, j) /\ Still(b, c, j) => Still(d, c, j)
  BY DEF Still, SameView
<1>2. ASSUME b.item = d.item, AtMostEnds(b, c, j) PROVE AtMostEnds(d, c, j)
  BY <1>2 DEF AtMostEnds, Still, Turns, SameView, ActiveItems, ItemsIn
<1> QED BY <1>1, <1>2

\* ClaimItem: the run was active before it was claimed.
LEMMA ClaimOneRun ==
  ASSUME NEW d \in Rows, NEW j \in Jobs, NEW i \in Items, CanClaimItem(d, j, i)
  PROVE  OneRun(d, ClaimItem(d, j, i))
<1> DEFINE c == ClaimItem(d, j, i)
<1>1. c.item = [d.item EXCEPT ![i].status = "processing"]
  BY DEF ClaimItem, SetJob, Rows
<1>2. \A k \in Items : k # i => c.item[k] = d.item[k]
  BY <1>1 DEF Rows
<1>3. c.item[i].status = "processing"
  BY <1>1 DEF Rows, ItemRow
<1>4. d.item[i].status \in ActiveStatus
  BY DEF CanClaimItem, ActiveStatus
<1> HIDE DEF c
<1>5. OneRun(d, c)
  BY <1>2, <1>3, <1>4 DEF OneRun, ActiveStatus
<1> QED BY <1>5 DEF c

\* BindExecution: a run that can be bound is processing, and stays so.
LEMMA BindOneRun ==
  ASSUME NEW d \in Rows, NEW i \in Items, NEW e, CanBind(d, i, e)
  PROVE  OneRun(d, BindExecution(d, i, e))
<1> DEFINE c == BindExecution(d, i, e)
<1>1. d.item[i] \in ItemRow /\ d.item[i].status = "processing"
  BY DEF CanBind, Rows
<1>2. c.item[i].status = "processing" /\ \A k \in Items : k # i => c.item[k] = d.item[k]
  BY <1>1 DEF BindExecution, Rows, ItemRow
<1> HIDE DEF c
<1>3. OneRun(d, c)
  BY <1>1, <1>2 DEF OneRun, ActiveStatus
<1> QED BY <1>3 DEF c

\* Begin binds the run it begins.
LEMMA BeginOneRun ==
  ASSUME NEW d \in Rows, NEW i \in Items \cup {NoItem}, NEW e \in Execs, NEW x \in Deadline,
         i # NoItem => CanBind(d, i, e)
  PROVE  OneRun(d, Begin(d, i, e, x))
<1> DEFINE r == [item |-> i, gen |-> 1, state |-> "running", status |-> "processing",
                 deadline |-> x, budget |-> "left"]
           b == [d EXCEPT !.exec[e] = r]
<1>1. b.item = d.item
  BY DEF Rows
<1>2. b \in Rows
  <2>1. r \in ExecRow
    BY DEF ExecRow, ExecState, ExecStatus, Budget
  <2> HIDE DEF r
  <2> QED BY <2>1 DEF Rows
<1>3. Begin(d, i, e, x) = IF i = NoItem THEN b ELSE BindExecution(b, i, e)
  BY DEF Begin
<1> HIDE DEF b
<1>4. CASE i = NoItem
  BY <1>1, <1>3, <1>4 DEF OneRun
<1>5. CASE i # NoItem
  <2>1. CanBind(b, i, e) /\ i \in Items
    BY <1>1, <1>5 DEF CanBind
  <2>2. OneRun(b, BindExecution(b, i, e))
    BY <1>2, <2>1, BindOneRun
  <2> QED BY <1>1, <1>3, <1>5, <2>2 DEF OneRun
<1> QED BY <1>4, <1>5

\* Finalize ends a run that is still active.
LEMMA FinalizeOneRun ==
  ASSUME NEW d \in Rows, NEW j \in Jobs, NEW i \in Items \cup {NoItem}, NEW s \in EndedAs, NEW e
  PROVE  OneRun(d, Finalize(d, j, i, s, e))
<1>1. CASE i = NoItem \/ d.item[i].status \notin ActiveStatus
  BY <1>1 DEF Finalize, OneRun
<1>2. CASE ~(i = NoItem \/ d.item[i].status \notin ActiveStatus)
  <2> DEFINE b == SetItem(d, i, s)
             x == IF e = NoExec THEN b.item[i].exec ELSE e
             c == [b EXCEPT !.item[i].exec = x]
  <2>1. i \in Items /\ b \in Rows
    BY <1>2, SetItemType DEF EndedAs, ItemStatus
  <2>2. b.item[i].status = s /\ \A k \in Items : k # i => b.item[k] = d.item[k]
    BY <2>1, SetItemRow
  <2>3. Finalize(d, j, i, s, e).item = c.item
    BY <1>2, <2>1 DEF Finalize, SetJob, Rows
  <2> HIDE DEF b, x
  <2>4. c.item[i].status = s /\ \A k \in Items : k # i => c.item[k] = d.item[k]
    BY <2>1, <2>2 DEF Rows, ItemRow
  <2> HIDE DEF c
  <2> QED BY <1>2, <2>1, <2>3, <2>4 DEF OneRun
<1> QED BY <1>1, <1>2

\* MarkActiveCancelled, likewise.
LEMMA MarkOneRun ==
  ASSUME NEW d \in Rows, NEW j \in Jobs, NEW i \in Items \cup {NoItem}
  PROVE  OneRun(d, MarkActiveCancelled(d, j, i))
<1>1. CASE i = NoItem \/ d.item[i].status \notin ActiveStatus
  BY <1>1 DEF MarkActiveCancelled, OneRun
<1>2. CASE ~(i = NoItem \/ d.item[i].status \notin ActiveStatus)
  <2> DEFINE b == SetItem(d, i, "cancelled")
  <2>1. i \in Items
    BY <1>2
  <2>2. b.item[i].status = "cancelled" /\ \A k \in Items : k # i => b.item[k] = d.item[k]
    BY <2>1, SetItemRow
  <2>3. MarkActiveCancelled(d, j, i).item = b.item
    BY <1>2 DEF MarkActiveCancelled, SetJob
  <2> HIDE DEF b
  <2> QED BY <1>2, <2>1, <2>2, <2>3 DEF OneRun, EndedAs
<1> QED BY <1>1, <1>2

\* The end of an execution ends the run it was begun for, if that is active.
LEMMA OutcomeOneRun ==
  ASSUME NEW d \in Rows, NEW j \in Jobs, NEW e \in Execs, NEW s \in {"completed", "failed"},
         HoldsItem(d, e, ActiveStatus)
  PROVE  LET i == d.exec[e].item
             c == SetJob(SetExec(d, e, s, s), j, s)
             f == IF i = NoItem THEN c ELSE SetItem(c, i, s)
         IN  OneRun(d, f)
<1> DEFINE i == d.exec[e].item
           c == SetJob(SetExec(d, e, s, s), j, s)
           f == IF i = NoItem THEN c ELSE SetItem(c, i, s)
<1>1. i \in Items \cup {NoItem}
  BY DEF Rows, ExecRow
<1>2. c \in Rows /\ c.item = d.item
  <2>1. s \in ExecState /\ s \in ExecStatus /\ s \in JobStatus
    BY DEF ExecState, ExecStatus, JobStatus
  <2>2. SetExec(d, e, s, s) \in Rows /\ SetExec(d, e, s, s).item = d.item
    BY <2>1, SetExecLemma
  <2> QED BY <2>1, <2>2, SetJobLemma
<1> HIDE DEF c
<1>3. ASSUME i = NoItem PROVE OneRun(d, f)
  BY <1>2, <1>3 DEF OneRun
<1>4. ASSUME i # NoItem PROVE OneRun(d, f)
  <2>1. i \in Items /\ d.item[i].status \in ActiveStatus
    BY <1>1, <1>4 DEF HoldsItem
  <2> HIDE DEF i
  <2>2. f = SetItem(c, i, s)
    BY <1>4
  <2>3. f.item[i].status = s /\ \A k \in Items : k # i => f.item[k] = c.item[k]
    BY <1>2, <2>1, <2>2, SetItemRow
  <2> HIDE DEF f
  <2> QED BY <1>2, <2>1, <2>3 DEF OneRun, EndedAs
<1> QED BY <1>3, <1>4 DEF c

\* ExpirePending and Finish.
LEMMA ExecutionEndOneRun ==
  ASSUME NEW d \in Rows, NEW j \in Jobs, NEW e \in Execs
  PROVE  /\ CanExpire(d, j, e) => OneRun(d, ExpirePending(d, j, e))
         /\ \A s \in {"completed", "failed"} : \A g :
              CanFinish(d, e, g, s) => OneRun(d, Finish(d, j, e, s))
<1>1. ASSUME CanExpire(d, j, e) PROVE OneRun(d, ExpirePending(d, j, e))
  <2>1. HoldsItem(d, e, ActiveStatus)
    BY <1>1 DEF CanExpire
  <2> QED BY <2>1, OutcomeOneRun DEF ExpirePending
<1>2. ASSUME NEW s \in {"completed", "failed"}, NEW g, CanFinish(d, e, g, s)
      PROVE  OneRun(d, Finish(d, j, e, s))
  <2>1. HoldsItem(d, e, ActiveStatus)
    BY <1>2 DEF CanFinish, HoldsItem, ActiveStatus
  <2> QED BY <2>1, OutcomeOneRun DEF Finish
<1> QED BY <1>1, <1>2

\* FailInterruptedExcept ends one run of a recording: no two are active.
LEMMA FailInterruptedEnds ==
  ASSUME NEW d \in Rows, SingleActive(d), NEW j \in Jobs, NEW P
  PROVE  AtMostEnds(d, FailInterruptedExcept(d, P), j)
<1> DEFINE c == FailInterruptedExcept(d, P)
           Fails(k) == d.item[k].status = "processing" /\ JobOf[k] \notin P
<1>1. \A k \in Items : IF Fails(k) THEN c.item[k].status = "failed"
                       ELSE c.item[k] = d.item[k]
  <2> SUFFICES ASSUME NEW k \in Items
               PROVE  IF Fails(k) THEN c.item[k].status = "failed"
                      ELSE c.item[k] = d.item[k]
    OBVIOUS
  <2>1. d.item[k] \in ItemRow
    BY DEF Rows
  <2> QED BY <2>1 DEF FailInterruptedExcept, Rows, ItemRow
<1> HIDE DEF c
<1>2. CASE \E i \in Items : JobOf[i] = j /\ Fails(i)
  <2>1. PICK i \in Items : JobOf[i] = j /\ Fails(i)
    BY <1>2
  <2>2. i \in ActiveItems(d, j)
    BY <2>1 DEF ActiveItems, ItemsIn, ActiveStatus
  <2>3. \A k \in Items : JobOf[k] = j /\ k # i => c.item[k] = d.item[k]
    <3>1. \A k \in Items : JobOf[k] = j /\ Fails(k) => k \in ActiveItems(d, j)
      BY DEF ActiveItems, ItemsIn, ActiveStatus
    <3> QED BY <1>1, <2>2, <3>1 DEF SingleActive
  <2>4. Turns(d, c, j, i, "failed")
    BY <1>1, <2>1, <2>3 DEF Turns, SameView
  <2> QED BY <2>2, <2>4 DEF AtMostEnds, EndedAs, c
<1>3. CASE \A i \in Items : JobOf[i] = j => ~Fails(i)
  <2>1. \A k \in Items : JobOf[k] = j => c.item[k] = d.item[k]
    BY <1>1, <1>3
  <2> QED BY <2>1, SameItemsStill DEF c
<1> QED BY <1>2, <1>3

\* RequestResume readmits a run that failed when no other is active, or one that an
\* interruption left processing.
LEMMA RequestResumeTurns ==
  ASSUME NEW d \in Rows, NEW j \in Jobs, NEW e \in Execs, JobOf[e] = j, Resumable(d, j, e)
  PROVE  LET c == RequestResume(d, j, e)
         IN  \/ Still(d, c, j)
             \/ /\ ActiveItems(d, j) = {}
                /\ \E i \in Items : /\ JobOf[i] = j /\ d.item[i].status = "failed"
                                    /\ Turns(d, c, j, i, "pending")
<1> DEFINE c == RequestResume(d, j, e)
           i == d.exec[e].item
           b == [SetExec(d, e, "pending", "pending") EXCEPT !.exec[e].gen = @ + 1]
<1>1. i \in Items \cup {NoItem}
  BY DEF Rows, ExecRow
<1>2. b.item = d.item /\ b \in Rows
  <2>1. "pending" \in ExecState /\ "pending" \in ExecStatus
    BY DEF ExecState, ExecStatus
  <2>2. SetExec(d, e, "pending", "pending") \in Rows
        /\ SetExec(d, e, "pending", "pending").item = d.item
    BY <2>1, SetExecLemma
  <2> QED BY <2>2, FenceLemma
<1>3. c.item = IF i = NoItem THEN b.item ELSE [b EXCEPT !.item[i].status = "pending"].item
  BY DEF RequestResume, SetJob
<1> HIDE DEF b, c
<1>4. ASSUME i = NoItem PROVE Still(d, c, j)
  BY <1>2, <1>3, <1>4, SameItemsStill
<1>5. ASSUME i # NoItem
      PROVE  \/ Still(d, c, j)
             \/ /\ ActiveItems(d, j) = {}
                /\ \E k \in Items : /\ JobOf[k] = j /\ d.item[k].status = "failed"
                                    /\ Turns(d, c, j, k, "pending")
  <2>1. i \in Items /\ JobOf[i] = j /\ d.item[i].status \in {"failed", "processing"}
        /\ ActiveItems(d, j) \subseteq {i}
    BY <1>1, <1>5 DEF Resumable, HoldsItem
  <2> HIDE DEF i
  <2>2. c.item[i].status = "pending" /\ \A k \in Items : k # i => c.item[k] = d.item[k]
    <3>1. [b EXCEPT !.item[i].status = "pending"].item[i].status = "pending"
          /\ \A k \in Items : k # i => [b EXCEPT !.item[i].status = "pending"].item[k] = b.item[k]
      BY <1>2, <2>1 DEF Rows, ItemRow
    <3> QED BY <1>2, <1>3, <1>5, <3>1
  <2>3. CASE d.item[i].status = "processing"
    <3>1. SameView(d, c, i)
      BY <2>2, <2>3 DEF SameView, Result, ActiveStatus
    <3>2. \A k \in Items : SameView(d, c, k)
      BY <2>2, <3>1 DEF SameView
    <3> QED BY <3>2 DEF Still
  <2>4. CASE d.item[i].status = "failed"
    <3>1. ActiveItems(d, j) = {}
      BY <2>1, <2>4 DEF ActiveItems, ItemsIn, ActiveStatus
    <3>2. Turns(d, c, j, i, "pending")
      BY <2>2 DEF Turns, SameView
    <3> QED BY <2>1, <2>4, <3>1, <3>2
  <2> QED BY <2>1, <2>3, <2>4
<1> QED BY <1>4, <1>5 DEF c
=============================================================================
