---------------------------- MODULE LadderProofs ----------------------------
(***************************************************************************)
(* Proofs for RecoveryLadder: for every plan, every history of failures,   *)
(* stops, crashes and resumes, and every number of attempts, only          *)
(* permitted settings run, the ladder leads down in the order of its plan, *)
(* nothing is repeated in vain, and the retries stay within their budget.  *)
(***************************************************************************)
EXTENDS LadderProperties, FiniteSetTheorems, WellFoundedInduction, TLAPS

-----------------------------------------------------------------------------
(* Induction over the natural numbers, said of sets.                       *)

\* A set of natural numbers has a least element.
LEMMA NatMinimum ==
  ASSUME NEW T \in SUBSET Nat, T # {}
  PROVE  \E n \in T : \A m \in T : n <= m
<1> DEFINE R == {p \in Nat \X Nat : p[1] < p[2]}
<1>1. IsWellFoundedOn(R, Nat)
  <2>1. OpToRel(<, Nat) = R
    BY DEF OpToRel
  <2> QED BY <2>1, NatLessThanWellFounded
<1>2. PICK n \in T : \A m \in T : <<m, n>> \notin R
  <2> HIDE DEF R
  <2> QED BY <1>1, WFMin
<1>3. ASSUME NEW m \in T PROVE n <= m
  <2>1. n \in Nat /\ m \in Nat
    OBVIOUS
  <2>2. m < n => <<m, n>> \in R
    BY <2>1
  <2>3. <<m, n>> \notin R
    BY <1>2
  <2> HIDE DEF R
  <2> QED BY <2>1, <2>2, <2>3
<1> QED BY <1>3

\* A set that has zero, and with a number the next, has them all.
LEMMA SetInduct ==
  ASSUME NEW S \in SUBSET Nat, 0 \in S, \A n \in S : n + 1 \in S
  PROVE  S = Nat
<1> SUFFICES ASSUME Nat \ S # {} PROVE FALSE
  OBVIOUS
<1>1. PICK n \in Nat \ S : \A m \in Nat \ S : n <= m
  BY NatMinimum
<1>2. n - 1 \in Nat /\ n - 1 \notin Nat \ S
  BY <1>1
<1> QED BY <1>1, <1>2

-----------------------------------------------------------------------------
(* Sets of numbers and sums.                                               *)

\* Numbers below a bound have a largest one.
LEMMA NatMaximum ==
  ASSUME NEW S \in SUBSET Nat, S # {}, NEW b \in Nat, \A x \in S : x <= b
  PROVE  \E x \in S : \A y \in S : y <= x
<1> DEFINE T == {b - x : x \in S}
<1>1. T \in SUBSET Nat /\ T # {}
  <2>1. \A x \in S : b - x \in Nat
    OBVIOUS
  <2> QED BY <2>1
<1>2. PICK n \in T : \A m \in T : n <= m
  <2> HIDE DEF T
  <2> QED BY <1>1, NatMinimum
<1>3. PICK x \in S : n = b - x
  OBVIOUS
<1>4. ASSUME NEW y \in S PROVE y <= x
  <2>1. b - y \in T
    OBVIOUS
  <2>2. n <= b - y
    BY <1>2, <2>1
  <2> QED BY <1>3, <2>2
<1> QED BY <1>4

\* The windows an adapter declares are finitely many, so they have a bound.
LEMMA FiniteIsBounded ==
  ASSUME NEW W \in SUBSET Nat, IsFiniteSet(W)
  PROVE  \E b \in Nat : \A x \in W : x <= b
<1> DEFINE T == {n \in Nat : \A S \in SUBSET Nat :
                   IsFiniteSet(S) /\ Cardinality(S) = n
                     => \E b \in Nat : \A x \in S : x <= b}
<1>1. 0 \in T
  <2>1. ASSUME NEW S \in SUBSET Nat, IsFiniteSet(S), Cardinality(S) = 0
        PROVE  \E b \in Nat : \A x \in S : x <= b
    <3>1. S = {}
      BY <2>1, FS_EmptySet
    <3> QED BY <3>1
  <2> QED BY <2>1
<1>2. ASSUME NEW n \in T PROVE n + 1 \in T
  <2>1. ASSUME NEW S \in SUBSET Nat, IsFiniteSet(S), Cardinality(S) = n + 1
        PROVE  \E b \in Nat : \A x \in S : x <= b
    <3>1. n \in Nat
      OBVIOUS
    <3>2. S # {}
      BY <2>1, <3>1, FS_EmptySet
    <3>3. PICK s \in S : TRUE
      BY <3>2
    <3>4. S \ {s} \in SUBSET Nat /\ IsFiniteSet(S \ {s}) /\ Cardinality(S \ {s}) = n
      <4>1. IsFiniteSet(S \ {s})
            /\ Cardinality(S \ {s}) = IF s \in S THEN Cardinality(S) - 1 ELSE Cardinality(S)
        BY <2>1, FS_RemoveElement
      <4> QED BY <4>1, <2>1, <3>1, <3>3
    <3>5. PICK b \in Nat : \A x \in S \ {s} : x <= b
      BY <3>4
    <3>6. b + s \in Nat
      BY <3>3
    <3>7. \A x \in S : x <= b + s
      BY <3>5, <3>3
    <3> QED BY <3>6, <3>7
  <2> QED BY <2>1
<1>3. T = Nat
  <2>1. T \in SUBSET Nat
    OBVIOUS
  <2> HIDE DEF T
  <2> QED BY <1>1, <1>2, <2>1, SetInduct
<1>4. Cardinality(W) \in Nat
  BY FS_CardinalityType
<1> QED BY <1>3, <1>4

\* The running sums of f up to n, of which Total takes the last.
Sums(g, f, n) == g = [k \in 0..n |-> IF k = 0 THEN 0 ELSE g[k - 1] + f[k]]

\* They exist.
LEMMA SumsExist ==
  ASSUME NEW f, NEW n \in Nat
  PROVE  \E g : Sums(g, f, n)
<1> DEFINE T == {m \in Nat : \E g : Sums(g, f, m)}
<1>1. 0 \in T
  <2> DEFINE g == [k \in 0..0 |-> 0]
  <2>1. Sums(g, f, 0)
    BY DEF Sums
  <2> QED BY <2>1
<1>2. ASSUME NEW m \in T PROVE m + 1 \in T
  <2>1. PICK g : Sums(g, f, m)
    OBVIOUS
  <2> DEFINE h == [k \in 0..(m + 1) |-> IF k = m + 1 THEN g[m] + f[m + 1] ELSE g[k]]
             e == [k \in 0..(m + 1) |-> IF k = 0 THEN 0 ELSE h[k - 1] + f[k]]
  <2>2. ASSUME NEW k \in 0..(m + 1) PROVE h[k] = e[k]
    <3>1. CASE k = 0
      BY <2>1, <3>1 DEF Sums
    <3>2. CASE k = m + 1
      BY <3>2
    <3>3. CASE k \in 1..m
      <4>1. g[k] = g[k - 1] + f[k]
        BY <2>1, <3>3 DEF Sums
      <4>2. h[k] = g[k] /\ h[k - 1] = g[k - 1] /\ e[k] = h[k - 1] + f[k]
        BY <3>3
      <4> QED BY <4>1, <4>2
    <3> QED BY <3>1, <3>2, <3>3
  <2>3. h = e
    <3>1. h = [k \in 0..(m + 1) |-> h[k]] /\ e = [k \in 0..(m + 1) |-> e[k]]
      OBVIOUS
    <3> HIDE DEF h, e
    <3> QED BY <2>2, <3>1
  <2>4. Sums(h, f, m + 1)
    <3> HIDE DEF h
    <3> QED BY <2>3 DEF Sums
  <2> QED BY <2>4
<1>3. T = Nat
  <2>1. T \in SUBSET Nat
    OBVIOUS
  <2> HIDE DEF T
  <2> QED BY <1>1, <1>2, <2>1, SetInduct
<1> QED BY <1>3

\* And depend on nothing but the values of f.
LEMMA SumsAgree ==
  ASSUME NEW f, NEW e, NEW g, NEW h, NEW m \in Nat, NEW n \in Nat, m <= n,
         Sums(g, f, m), Sums(h, e, n), \A k \in 1..m : f[k] = e[k]
  PROVE  \A k \in 0..m : g[k] = h[k]
<1> DEFINE T == {k \in Nat : k <= m => g[k] = h[k]}
<1>1. 0 \in T
  BY DEF Sums
<1>2. ASSUME NEW k \in T PROVE k + 1 \in T
  <2>1. CASE k + 1 <= m
    <3>1. g[k + 1] = g[k] + f[k + 1]
      BY <2>1 DEF Sums
    <3>2. h[k + 1] = h[k] + e[k + 1]
      BY <2>1 DEF Sums
    <3> QED BY <3>1, <3>2, <2>1
  <2> QED BY <2>1
<1>3. T = Nat
  <2>1. T \in SUBSET Nat
    OBVIOUS
  <2> HIDE DEF T
  <2> QED BY <1>1, <1>2, <2>1, SetInduct
<1> QED BY <1>3

LEMMA TotalIsLast ==
  ASSUME NEW f, NEW n \in Nat
  PROVE  \E g : Sums(g, f, n) /\ Total(f, n) = g[n]
<1>1. PICK g : Sums(g, f, n)
  BY SumsExist
<1> DEFINE c == CHOOSE x : x = [k \in 0..n |-> IF k = 0 THEN 0 ELSE x[k - 1] + f[k]]
<1>2. Total(f, n) = c[n]
  BY DEF Total
<1>3. Sums(c, f, n)
  BY <1>1 DEF Sums
<1> HIDE DEF c
<1> QED BY <1>2, <1>3

\* Equal values have equal totals.
LEMMA TotalAgrees ==
  ASSUME NEW f, NEW e, NEW n \in Nat, \A k \in 1..n : f[k] = e[k]
  PROVE  Total(f, n) = Total(e, n)
<1>1. PICK g : Sums(g, f, n) /\ Total(f, n) = g[n]
  BY TotalIsLast
<1>2. PICK h : Sums(h, e, n) /\ Total(e, n) = h[n]
  BY TotalIsLast
<1>3. \A k \in 0..n : g[k] = h[k]
  BY <1>1, <1>2, SumsAgree
<1> QED BY <1>1, <1>2, <1>3

LEMMA TotalZero == ASSUME NEW f PROVE Total(f, 0) = 0
<1>1. PICK g : Sums(g, f, 0) /\ Total(f, 0) = g[0]
  BY TotalIsLast
<1> QED BY <1>1 DEF Sums

LEMMA TotalStep ==
  ASSUME NEW f, NEW n \in Nat
  PROVE  Total(f, n + 1) = Total(f, n) + f[n + 1]
<1>1. PICK g : Sums(g, f, n) /\ Total(f, n) = g[n]
  BY TotalIsLast
<1>2. PICK h : Sums(h, f, n + 1) /\ Total(f, n + 1) = h[n + 1]
  BY TotalIsLast
<1>3. \A k \in 0..n : g[k] = h[k]
  BY <1>1, <1>2, SumsAgree
<1>4. h[n + 1] = h[n] + f[n + 1]
  BY <1>2 DEF Sums
<1> QED BY <1>1, <1>2, <1>3, <1>4

LEMMA TotalType ==
  ASSUME NEW f, NEW n \in Nat, \A k \in 1..n : f[k] \in Nat
  PROVE  Total(f, n) \in Nat
<1> DEFINE T == {m \in Nat : m <= n => Total(f, m) \in Nat}
<1>1. 0 \in T
  BY TotalZero
<1>2. ASSUME NEW m \in T PROVE m + 1 \in T
  <2>1. Total(f, m + 1) = Total(f, m) + f[m + 1]
    BY TotalStep
  <2> QED BY <2>1
<1>3. T = Nat
  <2>1. T \in SUBSET Nat
    OBVIOUS
  <2> HIDE DEF T
  <2> QED BY <1>1, <1>2, <2>1, SetInduct
<1> QED BY <1>3

-----------------------------------------------------------------------------
(* The inductive invariant.                                                *)

\* Windows never grow, and native context is not given up for a while.
Narrower(a, b) == a.window > 0 => b.window > 0 /\ b.window <= a.window

\* The loop works on the last row.
Busy == run.pc \in {"waiting", "running", "failed"}

\* What the loop keeps of the last attempt, and whose attempts there are.
LoopInv ==
  /\ \A k \in DOMAIN attempts : attempts[k].gen <= run.gen
  /\ run.pc = "idle" => \A k \in DOMAIN attempts : attempts[k].gen < run.gen
  /\ Busy => /\ attempts # << >>
             /\ Latest.settings = run.current /\ Latest.gen = run.gen
  /\ run.pc \in {"waiting", "running"} =>
       Latest.inner = 0 /\ Latest.counted = 0 /\ ~Latest.measured
  /\ run.pc = "failed" /\ ~run.blind => Latest.code \in Failures(run.current)

\* Settings stay permitted from one candidate to the next.
PermittedInv ==
  /\ Permitted(plan, run.current)
  /\ \A k \in DOMAIN attempts : Permitted(plan, Settings(k))

\* ShorterThan, of any plan.
ShorterOf(p, w) == {v \in Rule(p).windows : WindowGranted(p, v) /\ (w > 0 => v < w)}

\* What an attempt may follow: LadderDescends, of the attempts before it.
Descent(p, history, settings, reason, gen) ==
  LET last == history[Len(history)]
      a == last.settings
  IN  /\ settings.batch <= a.batch
      /\ Narrower(a, settings)
      /\ a.device = "cpu" /\ settings.device = "cuda" =>
           settings.window # a.window /\ settings.precision = p.original.precision
      /\ last.contended /\ gen = last.gen => settings = a
      /\ reason = "cpu_fallback" /\ p.mode = "aggressive"
           /\ last.code = "cuda_out_of_memory" /\ gen = last.gen
           => Uses(history, "shorter_window") = 2 \/ ShorterOf(p, a.window) = {}
      /\ reason = "shorter_window" /\ p.mode # "aggressive"
           /\ a.device = "cuda" /\ CpuGranted(p) /\ gen = last.gen
           => \E j \in DOMAIN history : history[j].settings.device = "cpu"

\* Every attempt, and the candidate the loop is about to claim, leads down; a window
\* once given up stays given up, over any number of attempts.
DescentInv ==
  /\ \A k \in Later : Descent(plan, SubSeq(attempts, 1, k - 1), attempts[k].settings,
                              attempts[k].reason, attempts[k].gen)
  /\ \A j, k \in DOMAIN attempts : j < k => Narrower(Settings(j), Settings(k))
  /\ run.pc = "ready" =>
       /\ attempts # << >> => Descent(plan, attempts, run.current, run.reason, run.gen)
       /\ \A j \in DOMAIN attempts : Narrower(Settings(j), run.current)

\* Reasons a stage has once in all its resumes.
Single == {"cleanup_retry", "exact_alignment_retry", "cpu_fallback"}

\* A candidate is chosen for a reason that is still left, and the CPU rung led there.
ReasonInv ==
  /\ \A j, k \in DOMAIN attempts :
       attempts[j].reason = attempts[k].reason /\ attempts[j].reason \in Single => j = k
  /\ run.pc = "ready" /\ run.reason \in Single =>
       \A k \in DOMAIN attempts : attempts[k].reason # run.reason
  /\ Uses(attempts, "shorter_window") <= 2
  /\ run.pc = "ready" /\ run.reason = "shorter_window" => Uses(attempts, "shorter_window") < 2
  /\ \A k \in DOMAIN attempts :
       attempts[k].reason = "cpu_fallback" => Settings(k).device = "cpu"
  /\ run.pc = "ready" /\ run.reason = "cpu_fallback" => run.current.device = "cpu"

\* An owner's candidate is new to it unless it repeats the last attempt as allowed.
RepeatInv ==
  /\ \A j, k \in DOMAIN attempts :
       j < k /\ Settings(j) = Settings(k) /\ attempts[j].gen = attempts[k].gen
         => \E i \in (j + 1)..k :
              attempts[i].reason \in {"cleanup_retry", "exact_alignment_retry"}
  /\ run.pc = "ready" /\ run.reason \notin {"cleanup_retry", "exact_alignment_retry"} =>
       \A j \in DOMAIN attempts : attempts[j].gen = run.gen => Settings(j) # run.current

\* The attempts made for one of these reasons.
Count(history, R) == Cardinality({k \in DOMAIN history : history[k].reason \in R})

\* What the attempts of a stage have spent of its budget.
SpentOf(history) ==
  Count(history, Rungs) + Total([k \in DOMAIN history |-> history[k].inner], Len(history))

Spent == SpentOf(attempts)

\* While every log can be read, the owner's count is what the rows have spent, or it
\* is full; and a worker without permission for retries has made none.
BudgetInv ==
  plan.retry.saved /\ unread = 0 =>
    /\ Spent <= plan.retry.max
    /\ ~plan.retry.strength => \A k \in DOMAIN attempts : attempts[k].inner = 0
    /\ \A k \in DOMAIN attempts : attempts[k].measured => attempts[k].counted = attempts[k].inner
    /\ run.pc = "ready" /\ run.reason \in Rungs =>
         Spent + 1 <= plan.retry.max /\ (run.used >= plan.retry.max \/ run.used = Spent + 1)
    /\ Busy \/ (run.pc = "ready" /\ run.reason \notin Rungs) =>
         run.used >= plan.retry.max \/ run.used = Spent

\* The inductive invariant.
IInv == /\ TypeOK /\ LoopInv /\ PermittedInv /\ DescentInv /\ ReasonInv
        /\ RepeatInv /\ BudgetInv

-----------------------------------------------------------------------------
(* Rules, settings and rungs.                                              *)

\* Largest keeps some of the set, and all of it is never thrown away.
LEMMA LargestKept ==
  ASSUME NEW S \in SUBSET Nat
  PROVE  Largest(S, 2) \in SUBSET S
BY DEF Largest

LEMMA LeastType ==
  ASSUME NEW S \in SUBSET Nat, S # {}
  PROVE  Least(S) \in S /\ \A x \in S : Least(S) <= x
<1>1. \E x \in S : \A y \in S : x <= y
  BY NatMinimum
<1> QED BY <1>1 DEF Least

LEMMA RuleType ==
  ASSUME NEW p \in Plans
  PROVE  Rule(p) \in RuleRow
<1>1. p \in PlanRow
  BY LadderAssumption DEF LadderAssumption
<1>2. Rule(p) = EffectiveRule(p)
  BY DEF Rule, Rules
<1> DEFINE windows == GrantedWindows(p.mode, p.desc)
<1>3. windows \in SUBSET Nat
  <2>1. p.desc.windows \in SUBSET Nat
    BY <1>1 DEF PlanRow, DescRow
  <2> DEFINE S == {w \in p.desc.windows : w > 2 * p.desc.minOverlap}
  <2>2. S \in SUBSET Nat
    BY <2>1
  <2>3. Largest(S, 2) \in SUBSET S
    <3> HIDE DEF S
    <3> QED BY <2>2, LargestKept
  <2> QED BY <2>2, <2>3 DEF GrantedWindows
<1>4. windows # {} => Least(windows) \in Nat
  <2> HIDE DEF windows
  <2> QED BY <1>3, LeastType
<1>5. p.desc.minOverlap \in Nat /\ (p.saved # None => p.saved \in RuleRow)
  BY <1>1 DEF PlanRow, DescRow
<1>6. NoRule \in RuleRow
  BY DEF NoRule, RuleRow, Precisions
<1> DEFINE granted ==
      [locked |-> ~PermitsCpu(p.mode),
       cpu |-> PermitsCpu(p.mode) /\ "float32" \in p.desc.cpu,
       cpuPrecision |-> "float32", minBatch |-> 1,
       shorter |-> windows # {}, windows |-> windows,
       minWindow |-> IF windows = {} THEN 0 ELSE Least(windows),
       overlap |-> IF PermitsWindows(p.mode) /\ p.desc.stitches
                   THEN p.desc.minOverlap ELSE 0]
<1>7. granted \in RuleRow
  <2>1. (IF windows = {} THEN 0 ELSE Least(windows)) \in Nat
    BY <1>4
  <2>2. (IF PermitsWindows(p.mode) /\ p.desc.stitches THEN p.desc.minOverlap ELSE 0) \in Nat
    BY <1>5
  <2>3. (~PermitsCpu(p.mode)) \in BOOLEAN /\ (windows # {}) \in BOOLEAN
        /\ (PermitsCpu(p.mode) /\ "float32" \in p.desc.cpu) \in BOOLEAN
    <3>1. \A x : (x # {}) \in BOOLEAN
      OBVIOUS
    <3>2. (~PermitsCpu(p.mode)) \in BOOLEAN
          /\ (PermitsCpu(p.mode) /\ "float32" \in p.desc.cpu) \in BOOLEAN
      BY DEF PermitsCpu
    <3> HIDE DEF windows
    <3> QED BY <3>1, <3>2
  <2> HIDE DEF windows
  <2> QED BY <1>3, <2>1, <2>2, <2>3 DEF RuleRow, Precisions
<1>8. EffectiveRule(p) \in {p.saved, NoRule, granted} 
      /\ (EffectiveRule(p) = p.saved => p.saved # None \/ EffectiveRule(p) \in {NoRule, granted})
  BY DEF EffectiveRule
<1> HIDE DEF granted
<1> QED BY <1>2, <1>5, <1>6, <1>7, <1>8

\* A granted window is a number of seconds.
LEMMA WindowType ==
  ASSUME NEW p \in Plans, NEW w \in Rule(p).windows, WindowGranted(p, w)
  PROVE  w \in Nat /\ w > 0 /\ w \in p.desc.windows
<1>1. Rule(p).windows \in SUBSET Nat /\ Rule(p).overlap \in Nat
  BY RuleType DEF RuleRow
<1> QED BY <1>1 DEF WindowGranted

LEMMA PlanTypes ==
  ASSUME NEW p \in Plans
  PROVE  /\ p.original \in SettingsRow /\ p.mode \in Modes
         /\ p.desc \in DescRow /\ IsFiniteSet(p.desc.windows)
         /\ (p.learned # None => p.learned \in SettingsRow)
         /\ p.retry \in RetryRow
BY LadderAssumption DEF LadderAssumption, PlanRow

LEMMA StartPermitted ==
  ASSUME NEW p \in Plans
  PROVE  Start(p) \in SettingsRow /\ Permitted(p, Start(p))
<1>1. CASE Start(p) = p.original
  BY <1>1, PlanTypes DEF Permitted
<1>2. CASE Start(p) # p.original
  <2>1. /\ p.learned # None /\ CandidateAllowed(p, p.learned)
        /\ Start(p) = p.learned /\ p.learned \in SettingsRow /\ p.original \in SettingsRow
    BY <1>2, PlanTypes DEF Start
  <2>2. p.learned.batch \in Nat /\ p.original.batch \in Nat
    BY <2>1 DEF SettingsRow
  <2> QED BY <2>1, <2>2 DEF Permitted, CandidateAllowed
<1> QED BY <1>1, <1>2

\* Whatever the plan permits may be learned, by a plan that could learn its own.
LEMMA PermittedIsLearnable ==
  ASSUME NEW p \in Plans, NEW s \in SettingsRow, Permitted(p, s), Learnable(p)
  PROVE  CandidateAllowed(p, s)
<1>1. p.original.batch \in Nat /\ s.batch \in Nat /\ s.batch >= 1 /\ Rule(p).minBatch \in Nat
  BY PlanTypes, RuleType DEF SettingsRow, RuleRow
<1>2. s.precision # "auto" \/ s = p.original
  BY DEF Permitted, Learnable, CpuGranted
<1> QED BY <1>1, <1>2 DEF Permitted, Learnable, CandidateAllowed

\* Permitted settings keep within the configured batch and window.
LEMMA PermittedBounds ==
  ASSUME NEW p \in Plans, NEW s \in SettingsRow, Permitted(p, s)
  PROVE  /\ s.batch <= p.original.batch
         /\ p.original.window > 0 => s.window > 0 /\ s.window <= p.original.window
<1>1. /\ s.batch \in Nat /\ p.original.batch \in Nat
      /\ s.window \in Nat /\ p.original.window \in Nat
  BY PlanTypes DEF SettingsRow
<1>2. WindowGranted(p, s.window) => s.window > 0
  BY WindowType DEF WindowGranted
<1> QED BY <1>1, <1>2 DEF Permitted

\* A smaller batch: nothing else changes.
LEMMA BatchRungLemma ==
  ASSUME NEW p \in Plans, NEW batches \in SUBSET p.desc.batches, NEW code, NEW history,
         NEW current \in SettingsRow, Permitted(p, current),
         NEW s \in BatchRung(p, batches, code, current, history)
  PROVE  /\ s \in SettingsRow /\ Permitted(p, s)
         /\ s.batch < current.batch /\ s.window = current.window
         /\ s.device = current.device /\ s.precision = current.precision
         /\ Uses(history, "smaller_batch") < 2
<1>1. PICK b \in batches : /\ s = [current EXCEPT !.batch = b]
                           /\ b < current.batch /\ b >= 1 /\ b >= Rule(p).minBatch
  BY DEF BatchRung
<1>2. Level(p.mode) >= 2 /\ Uses(history, "smaller_batch") < 2
  BY DEF BatchRung
<1>3. b \in Nat \ {0} /\ b \in p.desc.batches
  BY <1>1, PlanTypes DEF DescRow
<1>4. /\ s \in SettingsRow /\ s.batch = b /\ s.window = current.window
      /\ s.device = current.device /\ s.precision = current.precision
      /\ s.stitched = current.stitched
  BY <1>1, <1>3 DEF SettingsRow
<1>5. current.batch \in Nat /\ p.original.batch \in Nat /\ Level(p.mode) \in Nat
  BY PlanTypes DEF SettingsRow, Level
<1>6. b < p.original.batch
  BY <1>1, <1>3, <1>5, PermittedBounds
<1>7. Permitted(p, s)
  BY <1>1, <1>2, <1>3, <1>4, <1>5, <1>6 DEF Permitted
<1> QED BY <1>1, <1>2, <1>4, <1>7

\* The CPU: only from the GPU, with the precision of the rule.
LEMMA CpuRungLemma ==
  ASSUME NEW p \in Plans, NEW code, NEW history, Level(p.mode) > 0,
         NEW current \in SettingsRow, Permitted(p, current),
         NEW s \in CpuRung(p, code, current, history)
  PROVE  /\ s \in SettingsRow /\ Permitted(p, s)
         /\ s.batch = current.batch /\ s.window = current.window
         /\ s.device = "cpu" /\ current.device = "cuda"
         /\ Uses(history, "cpu_fallback") = 0
<1>1. /\ s = [current EXCEPT !.device = "cpu", !.precision = Rule(p).cpuPrecision]
      /\ CpuGranted(p) /\ current.device = "cuda" /\ Uses(history, "cpu_fallback") = 0
  BY DEF CpuRung
<1>2. Rule(p).cpuPrecision \in Precisions
  BY RuleType DEF RuleRow
<1>3. /\ s \in SettingsRow /\ s.batch = current.batch /\ s.window = current.window
      /\ s.device = "cpu" /\ s.precision = Rule(p).cpuPrecision
      /\ s.stitched = current.stitched
  BY <1>1, <1>2 DEF SettingsRow
<1>4. p.original.device # "cpu"
  BY <1>1 DEF Permitted
<1>5. Permitted(p, s)
  BY <1>1, <1>3, <1>4 DEF Permitted
<1> QED BY <1>1, <1>3, <1>5

\* A shorter window, on the configured GPU where the adapter supports it.
LEMMA WindowRungLemma ==
  ASSUME NEW p \in Plans, NEW code, NEW history, Level(p.mode) > 0,
         NEW current \in SettingsRow, Permitted(p, current),
         NEW s \in WindowRung(p, code, current, history)
  PROVE  /\ s \in SettingsRow /\ Permitted(p, s)
         /\ s.batch = current.batch /\ s.window \in p.desc.windows
         /\ s.window > 0 /\ (current.window > 0 => s.window < current.window)
         /\ s.device # current.device =>
              s.device = "cuda" /\ s.precision = p.original.precision
         /\ Uses(history, "shorter_window") < 2 /\ code # "cuda_runtime_error"
<1>1. PICK w \in Rule(p).windows :
        /\ s = Shortened(p, current, w) /\ WindowGranted(p, w)
        /\ current.window > 0 => w < current.window
  BY DEF WindowRung
<1>2. Uses(history, "shorter_window") < 2 /\ code # "cuda_runtime_error"
  BY DEF WindowRung
<1>3. w \in Nat /\ w > 0 /\ w \in p.desc.windows
  BY <1>1, WindowType
<1> DEFINE cut == [current EXCEPT !.window = w, !.stitched = TRUE]
<1>4. /\ cut \in SettingsRow /\ cut.batch = current.batch /\ cut.window = w /\ cut.stitched
      /\ cut.device = current.device /\ cut.precision = current.precision
  BY <1>3 DEF SettingsRow
<1>5. p.original.precision \in Precisions
  BY PlanTypes DEF SettingsRow
<1>6. /\ s \in SettingsRow /\ s.batch = current.batch /\ s.window = w /\ s.stitched
      /\ \/ s.device = current.device /\ s.precision = current.precision
         \/ /\ s.device = "cuda" /\ p.original.device = "cuda"
            /\ s.precision = p.original.precision
  <2>1. CASE p.original.device = "cuda" /\ p.original.precision \in p.desc.cuda
    <3>1. s = [cut EXCEPT !.device = "cuda", !.precision = p.original.precision]
      BY <1>1, <2>1 DEF Shortened
    <3> HIDE DEF cut
    <3> QED BY <3>1, <2>1, <1>4, <1>5 DEF SettingsRow
  <2>2. CASE ~(p.original.device = "cuda" /\ p.original.precision \in p.desc.cuda)
    <3>1. s = cut
      BY <1>1, <2>2 DEF Shortened
    <3> HIDE DEF cut
    <3> QED BY <3>1, <1>4
  <2> QED BY <2>1, <2>2
<1>7. p.original.window > 0 => w < p.original.window
  <2>1. current.window \in Nat /\ p.original.window \in Nat
    BY PlanTypes DEF SettingsRow
  <2> QED BY <2>1, <1>1, <1>3, PermittedBounds
<1>8. Permitted(p, s)
  <2>1. \/ current.batch = p.original.batch
        \/ /\ Level(p.mode) >= 2 /\ current.batch \in p.desc.batches
           /\ current.batch < p.original.batch /\ current.batch >= Rule(p).minBatch
    BY DEF Permitted
  <2>2. IF current.device = p.original.device THEN current.precision = p.original.precision
        ELSE CpuGranted(p) /\ current.device = "cpu"
             /\ current.precision = Rule(p).cpuPrecision
    BY DEF Permitted
  <2>3. IF s.device = p.original.device THEN s.precision = p.original.precision
        ELSE CpuGranted(p) /\ s.device = "cpu" /\ s.precision = Rule(p).cpuPrecision
    BY <1>6, <2>2
  <2> QED BY <1>1, <1>6, <1>7, <2>1, <2>3 DEF Permitted
<1> QED BY <1>1, <1>2, <1>3, <1>6, <1>8

-----------------------------------------------------------------------------
(* The next candidate.                                                     *)

Best(S) == CHOOSE s \in S : \A t \in S : t.batch <= s.batch /\ t.window <= s.window

\* The untried settings of a rung have a best one.
LEMMA BestOfBatches ==
  ASSUME NEW p \in Plans, NEW batches \in SUBSET p.desc.batches, NEW code, NEW history,
         NEW current \in SettingsRow, Permitted(p, current),
         NEW S \in SUBSET BatchRung(p, batches, code, current, history), S # {}
  PROVE  Best(S) \in S
<1> DEFINE B == {s.batch : s \in S}
<1>1. \A s \in S : /\ s.batch \in Nat /\ s.window \in Nat
                   /\ s.batch <= current.batch /\ s.window = current.window
  <2>1. \A s \in S : s \in SettingsRow /\ s.batch < current.batch /\ s.window = current.window
    BY BatchRungLemma
  <2> QED BY <2>1 DEF SettingsRow
<1>2. current.batch \in Nat
  BY DEF SettingsRow
<1>3. PICK b \in B : \A c \in B : c <= b
  <2>1. B \in SUBSET Nat /\ B # {} /\ \A c \in B : c <= current.batch
    BY <1>1
  <2> HIDE DEF B
  <2> QED BY <2>1, <1>2, NatMaximum
<1>4. PICK s \in S : s.batch = b
  OBVIOUS
<1>5. \A t \in S : t.batch <= s.batch /\ t.window <= s.window
  <2>1. \A t \in S : t.batch \in B
    OBVIOUS
  <2> HIDE DEF B
  <2> QED BY <1>1, <1>3, <1>4, <2>1
<1> QED BY <1>5 DEF Best

LEMMA BestOfWindows ==
  ASSUME NEW p \in Plans, NEW code, NEW history, Level(p.mode) > 0,
         NEW current \in SettingsRow, Permitted(p, current),
         NEW S \in SUBSET WindowRung(p, code, current, history), S # {}
  PROVE  Best(S) \in S
<1> DEFINE W == {s.window : s \in S}
<1>1. \A s \in S : /\ s.batch \in Nat /\ s.window \in Nat
                   /\ s.batch = current.batch /\ s.window \in p.desc.windows
  <2>1. \A s \in S : /\ s \in SettingsRow /\ s.batch = current.batch
                     /\ s.window \in p.desc.windows
    BY WindowRungLemma
  <2> QED BY <2>1 DEF SettingsRow
<1>2. PICK n \in Nat : \A x \in p.desc.windows : x <= n
  <2>1. p.desc.windows \in SUBSET Nat /\ IsFiniteSet(p.desc.windows)
    BY PlanTypes DEF DescRow
  <2> QED BY <2>1, FiniteIsBounded
<1>3. PICK w \in W : \A x \in W : x <= w
  <2>1. W \in SUBSET Nat /\ W # {} /\ \A x \in W : x <= n
    BY <1>1, <1>2
  <2> HIDE DEF W
  <2> QED BY <2>1, NatMaximum
<1>4. PICK s \in S : s.window = w
  OBVIOUS
<1>5. \A t \in S : t.batch <= s.batch /\ t.window <= s.window
  <2>1. \A t \in S : t.window \in W
    OBVIOUS
  <2> HIDE DEF W
  <2> QED BY <1>1, <1>3, <1>4, <2>1
<1> QED BY <1>5 DEF Best

LEMMA BestOfCpu ==
  ASSUME NEW p \in Plans, NEW code, NEW history, Level(p.mode) > 0,
         NEW current \in SettingsRow, Permitted(p, current),
         NEW S \in SUBSET CpuRung(p, code, current, history), S # {}
  PROVE  Best(S) \in S
<1>1. \A s \in S : s.batch \in Nat /\ s.window \in Nat
  <2>1. \A s \in S : s \in SettingsRow
    BY CpuRungLemma
  <2> QED BY <2>1 DEF SettingsRow
<1>2. \A s, t \in S : s = t
  BY DEF CpuRung
<1>3. PICK s \in S : TRUE
  OBVIOUS
<1>4. \A t \in S : t.batch <= s.batch /\ t.window <= s.window
  <2>1. \A t \in S : t.batch = s.batch /\ t.window = s.window
    BY <1>2, <1>3
  <2> QED BY <2>1, <1>1
<1> QED BY <1>4 DEF Best

\* What the ladder may answer.
Follows(p, batches, code, current, history, contended, next) ==
  /\ next.settings \in SettingsRow /\ Permitted(p, next.settings)
  /\ \/ /\ next.reason \in {"cleanup_retry", "exact_alignment_retry"}
        /\ next.settings = current /\ Uses(history, next.reason) = 0
     \/ /\ next.reason \in {"smaller_batch", "cpu_fallback", "shorter_window"}
        /\ ~contended /\ ~Tried(history, next.settings)
        /\ code \in GpuFailures \cup Capacity
        /\ \/ /\ next.reason = "smaller_batch"
              /\ next.settings \in BatchRung(p, batches, code, current, history)
           \/ /\ next.reason = "cpu_fallback"
              /\ next.settings \in CpuRung(p, code, current, history)
              /\ p.mode = "aggressive" =>
                   \A s \in WindowRung(p, code, current, history) : Tried(history, s)
           \/ /\ next.reason = "shorter_window"
              /\ next.settings \in WindowRung(p, code, current, history)
              /\ p.mode # "aggressive" =>
                   \A s \in CpuRung(p, code, current, history) : Tried(history, s)

\* The first rung with untried settings, and one of them: no rung before it has any.
LEMMA NextCandidateLemma ==
  ASSUME NEW p \in Plans, NEW batches \in SUBSET p.desc.batches, NEW code, NEW history,
         NEW current \in SettingsRow, Permitted(p, current), NEW contended,
         NextCandidate(p, batches, code, current, history, contended) # None,
         Cardinality(DOMAIN history) \in Nat, IsFiniteSet(DOMAIN history)
  PROVE  /\ Level(p.mode) > 0
         /\ Follows(p, batches, code, current, history, contended,
                    NextCandidate(p, batches, code, current, history, contended))
<1> DEFINE next == NextCandidate(p, batches, code, current, history, contended)
           B == BatchRung(p, batches, code, current, history)
           C == CpuRung(p, code, current, history)
           W == WindowRung(p, code, current, history)
           order == Order(p, batches, code, current, history)
           fresh(k) == {s \in order[k][2] : ~Tried(history, s)}
           open == {k \in 1..3 : fresh(k) # {}}
<1>1. Level(p.mode) > 0
  <2>1. Level(p.mode) # 0
    BY DEF NextCandidate
  <2>2. Level(p.mode) \in Nat
    BY DEF Level
  <2> QED BY <2>1, <2>2
<1>2. \/ /\ next = [settings |-> current, reason |-> "exact_alignment_retry"]
         /\ ~(Uses(history, "exact_alignment_retry") > 0)
      \/ /\ next = [settings |-> current, reason |-> "cleanup_retry"]
         /\ Uses(history, "cleanup_retry") = 0
      \/ /\ next = [settings |-> Best(fresh(Least(open))), reason |-> order[Least(open)][1]]
         /\ code \in GpuFailures \cup Capacity /\ ~contended /\ open # {}
  BY DEF NextCandidate, Best
<1>3. CASE /\ next = [settings |-> current, reason |-> "exact_alignment_retry"]
           /\ ~(Uses(history, "exact_alignment_retry") > 0)
  <2>1. Uses(history, "exact_alignment_retry") \in Nat
    <3> DEFINE U == {k \in DOMAIN history : history[k].reason = "exact_alignment_retry"}
    <3>1. IsFiniteSet(U)
      <4>1. U \in SUBSET DOMAIN history
        OBVIOUS
      <4> QED BY <4>1, FS_Subset
    <3> QED BY <3>1, FS_CardinalityType DEF Uses
  <2>2. Uses(history, "exact_alignment_retry") = 0
    BY <1>3, <2>1
  <2>3. next.settings = current /\ next.reason = "exact_alignment_retry"
    BY <1>3
  <2> QED BY <1>1, <2>2, <2>3 DEF Follows
<1>4. CASE /\ next = [settings |-> current, reason |-> "cleanup_retry"]
           /\ Uses(history, "cleanup_retry") = 0
  <2>1. next.settings = current /\ next.reason = "cleanup_retry"
    BY <1>4
  <2> QED BY <1>1, <1>4, <2>1 DEF Follows
<1>5. CASE /\ next = [settings |-> Best(fresh(Least(open))), reason |-> order[Least(open)][1]]
           /\ code \in GpuFailures \cup Capacity /\ ~contended /\ open # {}
  <2>1. /\ Least(open) \in 1..3 /\ fresh(Least(open)) # {}
        /\ \A j \in 1..3 : j < Least(open) => fresh(j) = {}
    <3>1. open \in SUBSET Nat /\ \A x \in open : x \in 1..3
      OBVIOUS
    <3>2. Least(open) \in open /\ \A x \in open : Least(open) <= x
      <4> HIDE DEF open
      <4> QED BY <3>1, <1>5, LeastType
    <3>3. \A j \in 1..3 : j < Least(open) => j \notin open
      <4> HIDE DEF open
      <4>1. Least(open) \in 1..3
        BY <3>1, <3>2
      <4> QED BY <3>1, <3>2, <4>1
    <3>4. \A j \in 1..3 : j \in open <=> fresh(j) # {}
      <4> HIDE DEF fresh
      <4> QED OBVIOUS
    <3>5. Least(open) \in 1..3
      BY <3>1, <3>2
    <3> HIDE DEF fresh, open
    <3> QED BY <3>2, <3>3, <3>4, <3>5
  <2> DEFINE k == Least(open)
             s == Best(fresh(k))
  <2>2. next.settings = s /\ next.reason = order[k][1]
    BY <1>5
  <2>3. /\ order[1] = <<"smaller_batch", B>>
        /\ p.mode = "aggressive" =>
             order[2] = <<"shorter_window", W>> /\ order[3] = <<"cpu_fallback", C>>
        /\ p.mode # "aggressive" =>
             order[2] = <<"cpu_fallback", C>> /\ order[3] = <<"shorter_window", W>>
    <3> HIDE DEF B, C, W
    <3> QED BY DEF Order, B, C, W
  <2>4. \/ order[k] = <<"smaller_batch", B>>
        \/ /\ order[k] = <<"cpu_fallback", C>>
           /\ p.mode = "aggressive" => k = 3 /\ order[2] = <<"shorter_window", W>>
        \/ /\ order[k] = <<"shorter_window", W>>
           /\ p.mode # "aggressive" => k = 3 /\ order[2] = <<"cpu_fallback", C>>
    <3> HIDE DEF order, B, C, W, k
    <3>1. k \in 1..3
      BY <2>1 DEF k
    <3> QED BY <3>1, <2>3
  <2>5. fresh(k) # {} /\ (k = 3 => fresh(2) = {})
    <3> HIDE DEF fresh, open
    <3> QED BY <2>1
  <2>6. fresh(2) = {} => \A t \in order[2][2] : Tried(history, t)
    OBVIOUS
  <2>7. ASSUME NEW D, order[k][2] = D
        PROVE  fresh(k) \in SUBSET D /\ \A t \in fresh(k) : ~Tried(history, t)
    BY <2>7
  <2>8. \E r \in {"smaller_batch", "cpu_fallback", "shorter_window"} :
          next.reason = r
    BY <2>2, <2>4
  <2>9. CASE order[k] = <<"smaller_batch", B>>
    <3>1. fresh(k) \in SUBSET B /\ next.reason = "smaller_batch"
      BY <2>9, <2>7, <2>2
    <3>2. s \in fresh(k)
      <4> HIDE DEF fresh, k
      <4> QED BY <3>1, <2>5, BestOfBatches
    <3>3. s \in B /\ ~Tried(history, s)
      BY <3>1, <3>2
    <3>4. s \in SettingsRow /\ Permitted(p, s)
      <4> HIDE DEF s
      <4> QED BY <3>3, BatchRungLemma
    <3> HIDE DEF s, k
    <3> QED BY <1>1, <1>5, <2>2, <3>1, <3>3, <3>4 DEF Follows
  <2>10. CASE /\ order[k] = <<"cpu_fallback", C>>
              /\ p.mode = "aggressive" => k = 3 /\ order[2] = <<"shorter_window", W>>
    <3>1. fresh(k) \in SUBSET C /\ next.reason = "cpu_fallback"
      BY <2>10, <2>7, <2>2
    <3>2. s \in fresh(k)
      <4> HIDE DEF fresh, k
      <4> QED BY <1>1, <3>1, <2>5, BestOfCpu
    <3>3. s \in C /\ ~Tried(history, s)
      BY <3>1, <3>2
    <3>4. s \in SettingsRow /\ Permitted(p, s)
      <4> HIDE DEF s
      <4> QED BY <1>1, <3>3, CpuRungLemma
    <3>5. p.mode = "aggressive" => \A t \in W : Tried(history, t)
      BY <2>5, <2>6, <2>10
    <3> HIDE DEF s, k
    <3> QED BY <1>1, <1>5, <2>2, <3>1, <3>3, <3>4, <3>5 DEF Follows
  <2>11. CASE /\ order[k] = <<"shorter_window", W>>
              /\ p.mode # "aggressive" => k = 3 /\ order[2] = <<"cpu_fallback", C>>
    <3>1. fresh(k) \in SUBSET W /\ next.reason = "shorter_window"
      BY <2>11, <2>7, <2>2
    <3>2. s \in fresh(k)
      <4> HIDE DEF fresh, k
      <4> QED BY <1>1, <3>1, <2>5, BestOfWindows
    <3>3. s \in W /\ ~Tried(history, s)
      BY <3>1, <3>2
    <3>4. s \in SettingsRow /\ Permitted(p, s)
      <4> HIDE DEF s
      <4> QED BY <1>1, <3>3, WindowRungLemma
    <3>5. p.mode # "aggressive" => \A t \in C : Tried(history, t)
      BY <2>5, <2>6, <2>11
    <3> HIDE DEF s, k
    <3> QED BY <1>1, <1>5, <2>2, <3>1, <3>3, <3>4, <3>5 DEF Follows
  <2> QED BY <2>4, <2>9, <2>10, <2>11
<1> QED BY <1>2, <1>3, <1>4, <1>5

-----------------------------------------------------------------------------
(* Counting the reasons of attempts.                                       *)

LEMMA UsesIsCount ==
  ASSUME NEW history, NEW reason
  PROVE  Uses(history, reason) = Count(history, {reason})
<1>1. {k \in DOMAIN history : history[k].reason = reason}
        = {k \in DOMAIN history : history[k].reason \in {reason}}
  OBVIOUS
<1> QED BY <1>1 DEF Uses, Count

LEMMA CountFinite ==
  ASSUME NEW history \in Seq(Attempt), NEW R
  PROVE  /\ IsFiniteSet({k \in DOMAIN history : history[k].reason \in R})
         /\ Count(history, R) \in Nat
         /\ DOMAIN history = 1..Len(history) /\ Len(history) \in Nat
         /\ IsFiniteSet(DOMAIN history) /\ Cardinality(DOMAIN history) \in Nat
<1> DEFINE U == {k \in DOMAIN history : history[k].reason \in R}
<1>1. DOMAIN history = 1..Len(history) /\ Len(history) \in Nat
  OBVIOUS
<1>2. IsFiniteSet(1..Len(history))
  BY <1>1, FS_Interval
<1>3. U \in SUBSET DOMAIN history
  OBVIOUS
<1>4. IsFiniteSet(U) /\ Cardinality(U) \in Nat
  <2> HIDE DEF U
  <2> QED BY <1>1, <1>2, <1>3, FS_Subset, FS_CardinalityType
<1>5. Cardinality(DOMAIN history) \in Nat
  BY <1>1, <1>2, FS_CardinalityType
<1> QED BY <1>1, <1>2, <1>4, <1>5 DEF Count

LEMMA CountZero ==
  ASSUME NEW history \in Seq(Attempt), NEW R, Count(history, R) = 0
  PROVE  \A k \in DOMAIN history : history[k].reason \notin R
<1> DEFINE U == {k \in DOMAIN history : history[k].reason \in R}
<1>1. IsFiniteSet(U) /\ Cardinality(U) = 0
  BY CountFinite DEF Count
<1>2. U = {}
  <2> HIDE DEF U
  <2> QED BY <1>1, FS_EmptySet
<1> QED BY <1>2

LEMMA CountOne ==
  ASSUME NEW history \in Seq(Attempt), NEW R,
         \A j, k \in DOMAIN history :
           history[j].reason \in R /\ history[k].reason \in R => j = k
  PROVE  Count(history, R) <= 1
<1> DEFINE U == {k \in DOMAIN history : history[k].reason \in R}
<1>1. CASE U = {}
  <2>1. Cardinality(U) = 0
    BY <1>1, FS_EmptySet
  <2> QED BY <2>1 DEF Count
<1>2. CASE U # {}
  <2>1. PICK u \in U : TRUE
    BY <1>2
  <2>2. U = {u}
    BY <2>1
  <2>3. Cardinality(U) = 1
    <3> HIDE DEF U
    <3> QED BY <2>2, FS_Singleton
  <2> QED BY <2>3 DEF Count
<1> QED BY <1>1, <1>2

LEMMA CountAgrees ==
  ASSUME NEW h \in Seq(Attempt), NEW g \in Seq(Attempt), NEW R, Len(h) = Len(g),
         \A k \in DOMAIN h : h[k].reason = g[k].reason
  PROVE  Count(h, R) = Count(g, R)
<1>1. DOMAIN h = DOMAIN g
  BY CountFinite
<1>2. {k \in DOMAIN h : h[k].reason \in R} = {k \in DOMAIN g : g[k].reason \in R}
  BY <1>1
<1> QED BY <1>2 DEF Count

LEMMA CountAppend ==
  ASSUME NEW h \in Seq(Attempt), NEW row \in Attempt, NEW R
  PROVE  Count(Append(h, row), R)
           = Count(h, R) + (IF row.reason \in R THEN 1 ELSE 0)
<1> DEFINE n == Len(h) + 1
           g == Append(h, row)
           U == {k \in DOMAIN h : h[k].reason \in R}
           V == {k \in DOMAIN g : g[k].reason \in R}
<1>1. /\ DOMAIN g = 1..n /\ DOMAIN h = 1..Len(h) /\ Len(h) \in Nat /\ g[n] = row
      /\ \A k \in 1..Len(h) : g[k] = h[k]
  OBVIOUS
<1>2. n \notin U /\ IsFiniteSet(U) /\ Cardinality(U) \in Nat
  <2>1. IsFiniteSet(U) /\ Cardinality(U) \in Nat
    BY CountFinite DEF Count
  <2>2. n \notin DOMAIN h
    BY <1>1
  <2> QED BY <2>1, <2>2
<1>5. Count(h, R) = Cardinality(U) /\ Count(g, R) = Cardinality(V)
  BY DEF Count
<1>3. CASE row.reason \in R
  <2>1. \A k : k \in V <=> k \in U \/ k = n
    <3> HIDE DEF g
    <3>1. \A k \in 1..n : k \in 1..Len(h) \/ k = n
      BY <1>1
    <3> QED BY <1>1, <1>3, <3>1
  <2>2. V = U \cup {n}
    <3> HIDE DEF U, V
    <3> QED BY <2>1
  <2>3. Cardinality(U \cup {n}) = Cardinality(U) + 1
    <3> HIDE DEF U
    <3> QED BY <1>2, FS_AddElement
  <2> HIDE DEF U, V
  <2> QED BY <1>3, <1>5, <2>2, <2>3
<1>4. CASE row.reason \notin R
  <2>1. \A k : k \in V <=> k \in U
    <3> HIDE DEF g
    <3>1. \A k \in 1..n : k \in 1..Len(h) \/ k = n
      BY <1>1
    <3> QED BY <1>1, <1>4, <3>1
  <2>2. V = U
    <3> HIDE DEF U, V
    <3> QED BY <2>1
  <2> HIDE DEF U, V
  <2> QED BY <1>2, <1>4, <1>5, <2>2
<1> QED BY <1>3, <1>4

-----------------------------------------------------------------------------
(* What a step does.                                                       *)

\* Rewriting the last row.
LEMMA WithLemma ==
  ASSUME attempts \in Seq(Attempt), attempts # << >>, NEW row \in Attempt,
         attempts' = With(row)
  PROVE  /\ attempts' \in Seq(Attempt) /\ Len(attempts') = Len(attempts)
         /\ Len(attempts) \in DOMAIN attempts
         /\ DOMAIN attempts' = DOMAIN attempts
         /\ attempts'[Len(attempts)] = row
         /\ \A k \in DOMAIN attempts : k # Len(attempts) => attempts'[k] = attempts[k]
BY DEF With

LEMMA LatestType ==
  ASSUME attempts \in Seq(Attempt), attempts # << >>
  PROVE  /\ Latest \in Attempt /\ Len(attempts) \in DOMAIN attempts
         /\ DOMAIN attempts = 1..Len(attempts) /\ Len(attempts) \in Nat \ {0}
<1>1. Len(attempts) \in 1..Len(attempts) /\ DOMAIN attempts = 1..Len(attempts)
  OBVIOUS
<1> QED BY <1>1 DEF Latest

\* The row, the plan and the loop of an active attempt, rewritten.
Rewrites ==
  \E row \in Attempt :
    /\ attempts # << >> /\ attempts' = With(row) /\ plan' = plan
    /\ row.settings = Latest.settings /\ row.reason = Latest.reason /\ row.gen = Latest.gen
    /\ row.inner \in InnerRetries /\ Latest.inner = 0
    /\ unread' \in Nat /\ (unread' = 0 => unread = 0)
    /\ row.measured /\ unread' = 0 => row.counted = row.inner
    /\ run' \in Run /\ run'.current = run.current
    /\ run'.reason = run.reason /\ run'.gen = run.gen
    /\ run.pc \in {"waiting", "running"}
    /\ \/ run'.pc \in {"over", "done", "down"}
       \/ /\ run'.pc = "running" /\ run'.used = run.used
          /\ row.inner = 0 /\ row.counted = 0 /\ ~row.measured
       \/ /\ run'.pc = "failed" /\ (unread' = 0 => run'.used = run.used + row.inner)
          /\ run'.blind \/ row.code \in Failures(run.current)

\* No row changes, and the loop takes no candidate.
Quiet ==
  /\ attempts' = attempts /\ plan' = plan /\ unread' = unread
  /\ run' \in Run /\ run'.current = run.current
  /\ run'.reason = run.reason /\ run'.used = run.used
  /\ \/ run'.pc = run.pc /\ run'.gen = run.gen /\ run'.blind = run.blind
     \/ run'.pc \in {"over", "down"} /\ run'.gen = run.gen
     \/ run'.pc = "idle" /\ run'.gen = run.gen + 1

LEMMA PlanState ==
  ASSUME TypeOK
  PROVE  /\ plan \in Plans /\ run.current \in SettingsRow /\ run.used \in Nat
         /\ run.gen \in Nat /\ run.reason \in Reasons /\ run.blind \in BOOLEAN
         /\ plan.retry.max \in Nat /\ plan.retry.saved \in BOOLEAN
         /\ plan.retry.strength \in BOOLEAN /\ attempts \in Seq(Attempt)
         /\ unread \in Nat /\ run \in Run
  BY PlanTypes DEF TypeOK, Run, RetryRow

LEMMA RemainingType ==
  ASSUME TypeOK
  PROVE  /\ Remaining(run.used) \in Nat /\ 0 \in InnerRetries /\ InnerRetries \in SUBSET Nat
         /\ \A n \in InnerRetries : n <= Remaining(run.used)
<1>1. Remaining(run.used) \in Nat
  BY PlanState DEF Remaining
<1>2. MaxInner \in Nat
  BY LadderAssumption DEF LadderAssumption
<1> QED BY <1>1, <1>2 DEF InnerRetries

LEMMA FailureCodes == Failures(run.current) \in SUBSET Codes
BY DEF Failures, Codes, GpuFailures, Capacity

\* The actions of an active attempt rewrite its row.
LEMMA AdmitRewrites == TypeOK /\ LoopInv /\ (Admit \/ WaitExpires) => Rewrites
<1> SUFFICES ASSUME TypeOK, LoopInv, Admit \/ WaitExpires PROVE Rewrites
  OBVIOUS
<1>1. attempts # << >> /\ run.pc = "waiting"
  BY DEF LoopInv, Busy, Admit, WaitExpires
<1>2. /\ Latest \in Attempt /\ Latest.inner = 0 /\ Latest.counted = 0 /\ ~Latest.measured
  BY <1>1, LatestType, PlanState DEF LoopInv
<1>3. plan' = plan /\ unread' = unread /\ unread \in Nat /\ 0 \in InnerRetries /\ run \in Run
  BY PlanState, RemainingType DEF Admit, WaitExpires
<1>4. CASE Admit
  <2> DEFINE row == [Latest EXCEPT !.state = "running"]
  <2>1. /\ row \in Attempt /\ row.settings = Latest.settings /\ row.reason = Latest.reason
        /\ row.gen = Latest.gen /\ row.inner = 0 /\ row.counted = 0 /\ ~row.measured
    BY <1>2 DEF Attempt
  <2>2. attempts' = With(row) /\ run' = [run EXCEPT !.pc = "running"]
    BY <1>4 DEF Admit
  <2>3. /\ run' \in Run /\ run'.current = run.current /\ run'.reason = run.reason
        /\ run'.gen = run.gen /\ run'.used = run.used /\ run'.pc = "running"
    BY <1>3, <2>2 DEF Run
  <2> HIDE DEF row
  <2> QED BY <1>1, <1>2, <1>3, <2>1, <2>2, <2>3 DEF Rewrites
<1>5. CASE WaitExpires
  <2> DEFINE row == [Latest EXCEPT !.state = "blocked", !.code = "resource_wait_expired"]
  <2>1. /\ row \in Attempt /\ row.settings = Latest.settings /\ row.reason = Latest.reason
        /\ row.gen = Latest.gen /\ row.inner = 0 /\ row.counted = 0 /\ ~row.measured
    BY <1>2 DEF Attempt
  <2>2. attempts' = With(row) /\ run' = [run EXCEPT !.pc = "over"]
    BY <1>5 DEF WaitExpires
  <2>3. /\ run' \in Run /\ run'.current = run.current /\ run'.reason = run.reason
        /\ run'.gen = run.gen /\ run'.pc = "over"
    BY <1>3, <2>2 DEF Run
  <2> HIDE DEF row
  <2> QED BY <1>1, <1>2, <1>3, <2>1, <2>2, <2>3 DEF Rewrites
<1> QED BY <1>4, <1>5

\* What the five actions of a running worker know of its row.
LEMMA ActiveRow ==
  ASSUME TypeOK, LoopInv, run.pc \in {"waiting", "running"}
  PROVE  /\ attempts # << >> /\ Latest \in Attempt
         /\ Latest.inner = 0 /\ Latest.counted = 0 /\ ~Latest.measured
         /\ unread \in Nat /\ 0 \in InnerRetries /\ run \in Run /\ InnerRetries \in SUBSET Nat
         /\ run.used \in Nat
<1>1. attempts # << >>
  BY DEF LoopInv, Busy
<1>2. Latest \in Attempt /\ Latest.inner = 0 /\ Latest.counted = 0 /\ ~Latest.measured
  BY <1>1, LatestType, PlanState DEF LoopInv
<1> QED BY <1>1, <1>2, PlanState, RemainingType

LEMMA FailureRewrites == TypeOK /\ LoopInv /\ RunFails => Rewrites
<1> SUFFICES ASSUME TypeOK, LoopInv, RunFails PROVE Rewrites
  OBVIOUS
<1>1. run.pc = "running" /\ plan' = plan /\ unread' = unread
  BY DEF RunFails
<1>2. PICK failure \in Failures(run.current), inner \in InnerRetries :
      \E contended \in (IF failure \in GpuFailures THEN BOOLEAN ELSE {FALSE}) :
       LET row  == [Latest EXCEPT !.code = failure, !.contended = contended,
                      !.inner = inner, !.counted = inner, !.measured = TRUE]
           used == run.used + inner
           next == NextRung(failure, contended, used, FALSE, With(row))
       IN  /\ attempts' = With([row EXCEPT
                !.state = IF next = None THEN "failed" ELSE "retryable"])
           /\ run' = [run EXCEPT !.pc = "failed", !.used = used]
  BY DEF RunFails
<1>3. PICK contended \in BOOLEAN :
       LET row  == [Latest EXCEPT !.code = failure, !.contended = contended,
                      !.inner = inner, !.counted = inner, !.measured = TRUE]
           used == run.used + inner
           next == NextRung(failure, contended, used, FALSE, With(row))
       IN  /\ attempts' = With([row EXCEPT
                !.state = IF next = None THEN "failed" ELSE "retryable"])
           /\ run' = [run EXCEPT !.pc = "failed", !.used = used]
  BY <1>2
<1>4. PICK state \in {"failed", "retryable"} :
       /\ attempts' = With([[Latest EXCEPT !.code = failure, !.contended = contended,
             !.inner = inner, !.counted = inner, !.measured = TRUE] EXCEPT !.state = state])
       /\ run' = [run EXCEPT !.pc = "failed", !.used = run.used + inner]
  BY <1>3
<1> DEFINE base == [Latest EXCEPT !.code = failure, !.contended = contended,
                      !.inner = inner, !.counted = inner, !.measured = TRUE]
           row == [base EXCEPT !.state = state]
<1>5. failure \in Codes /\ inner \in Nat
  BY FailureCodes, <1>1, ActiveRow
<1>6. /\ base \in Attempt /\ base.settings = Latest.settings /\ base.reason = Latest.reason
      /\ base.gen = Latest.gen /\ base.inner = inner /\ base.counted = inner
      /\ base.code = failure
  BY <1>1, <1>5, ActiveRow DEF Attempt
<1>7. /\ row \in Attempt /\ row.settings = Latest.settings /\ row.reason = Latest.reason
      /\ row.gen = Latest.gen /\ row.inner = inner /\ row.counted = inner
      /\ row.code = failure
  <2> HIDE DEF base
  <2> QED BY <1>6 DEF Attempt
<1>8. /\ run' \in Run /\ run'.current = run.current /\ run'.reason = run.reason
      /\ run'.gen = run.gen /\ run'.pc = "failed" /\ run'.used = run.used + inner
  <2>1. run.used + inner \in Nat /\ run \in Run
    BY <1>1, <1>5, ActiveRow
  <2>2. run' = [run EXCEPT !.pc = "failed", !.used = run.used + inner]
    BY <1>4
  <2> QED BY <2>1, <2>2 DEF Run
<1>9. attempts' = With(row)
  BY <1>4
<1> HIDE DEF row
<1> QED BY <1>1, <1>7, <1>8, <1>9, ActiveRow DEF Rewrites

LEMMA EvidenceRewrites ==
  TypeOK /\ LoopInv /\ (EvidenceUnread \/ EvidenceUnsaved) => Rewrites
<1> SUFFICES ASSUME TypeOK, LoopInv, EvidenceUnread \/ EvidenceUnsaved PROVE Rewrites
  OBVIOUS
<1>1. run.pc = "running" /\ plan' = plan
  BY DEF EvidenceUnread, EvidenceUnsaved
<1>2. CASE EvidenceUnread
  <2>1. PICK inner \in InnerRetries :
          attempts' = With([Latest EXCEPT !.state = "failed", !.inner = inner,
                           !.code = "worker_recovery_evidence_unavailable",
                           !.measured = TRUE])
    BY <1>2 DEF EvidenceUnread
  <2> DEFINE row == [Latest EXCEPT !.state = "failed", !.inner = inner,
                       !.code = "worker_recovery_evidence_unavailable", !.measured = TRUE]
  <2>2. inner \in Nat
    BY <1>1, ActiveRow
  <2>3. /\ row \in Attempt /\ row.settings = Latest.settings /\ row.reason = Latest.reason
        /\ row.gen = Latest.gen /\ row.inner = inner
    BY <1>1, <2>2, ActiveRow DEF Attempt
  <2>4. run' = [run EXCEPT !.pc = "failed", !.blind = TRUE] /\ unread' = unread + 1
    BY <1>2 DEF EvidenceUnread
  <2>5. /\ run' \in Run /\ run'.current = run.current /\ run'.reason = run.reason
        /\ run'.gen = run.gen /\ run'.pc = "failed" /\ run'.blind
    BY <1>1, <2>4, ActiveRow DEF Run
  <2>6. unread' \in Nat /\ unread' # 0
    BY <1>1, <2>4, ActiveRow
  <2>7. attempts' = With(row)
    BY <2>1
  <2> HIDE DEF row
  <2> QED BY <1>1, <2>3, <2>5, <2>6, <2>7, ActiveRow DEF Rewrites
<1>3. CASE EvidenceUnsaved
  <2>1. PICK inner \in InnerRetries :
          attempts' = With([Latest EXCEPT !.state = "blocked", !.inner = inner])
    BY <1>3 DEF EvidenceUnsaved
  <2> DEFINE row == [Latest EXCEPT !.state = "blocked", !.inner = inner]
  <2>2. inner \in Nat
    BY <1>1, ActiveRow
  <2>3. /\ row \in Attempt /\ row.settings = Latest.settings /\ row.reason = Latest.reason
        /\ row.gen = Latest.gen /\ row.inner = inner /\ ~row.measured
    BY <1>1, <2>2, ActiveRow DEF Attempt
  <2>4. run' = [run EXCEPT !.pc = "over", !.blind = TRUE] /\ unread' = unread
    BY <1>3 DEF EvidenceUnsaved
  <2>5. /\ run' \in Run /\ run'.current = run.current /\ run'.reason = run.reason
        /\ run'.gen = run.gen /\ run'.pc = "over"
    BY <1>1, <2>4, ActiveRow DEF Run
  <2>7. attempts' = With(row)
    BY <2>1
  <2> HIDE DEF row
  <2> QED BY <1>1, <2>3, <2>4, <2>5, <2>7, ActiveRow DEF Rewrites
<1> QED BY <1>2, <1>3

LEMMA EndRewrites ==
  TypeOK /\ LoopInv /\ (StoppedEnds \/ (Crash /\ run.pc \in {"waiting", "running"}))
    => Rewrites
<1> SUFFICES ASSUME TypeOK, LoopInv,
                    StoppedEnds \/ (Crash /\ run.pc \in {"waiting", "running"})
             PROVE  Rewrites
  OBVIOUS
<1>1. run.pc \in {"waiting", "running"} /\ plan' = plan /\ unread' = unread
  BY DEF StoppedEnds, Crash
<1>2. PICK inner \in InnerRetries, state \in {"interrupted", "cancelled", "blocked"} :
        attempts' = With([Latest EXCEPT !.state = state, !.inner = inner])
  <2>1. CASE StoppedEnds
    <3>1. PICK inner \in (IF run.pc = "running" THEN InnerRetries ELSE {0}),
               state \in {"interrupted", "cancelled", "blocked"} :
          attempts' = With([Latest EXCEPT !.state = state, !.inner = inner])
      BY <2>1 DEF StoppedEnds
    <3> QED BY <1>1, <3>1, ActiveRow
  <2>2. CASE Crash
    <3>1. PICK inner \in (IF run.pc = "running" THEN InnerRetries ELSE {0}) :
          attempts' = With([Latest EXCEPT !.state = "interrupted", !.inner = inner])
      BY <1>1, <2>2 DEF Crash
    <3> QED BY <1>1, <3>1, ActiveRow
  <2> QED BY <2>1, <2>2
<1> DEFINE row == [Latest EXCEPT !.state = state, !.inner = inner]
<1>3. inner \in Nat
  BY <1>1, ActiveRow
<1>4. /\ row \in Attempt /\ row.settings = Latest.settings /\ row.reason = Latest.reason
      /\ row.gen = Latest.gen /\ row.inner = inner /\ ~row.measured
  BY <1>1, <1>3, ActiveRow DEF Attempt
<1>5. /\ run' \in Run /\ run'.current = run.current /\ run'.reason = run.reason
      /\ run'.gen = run.gen /\ run'.pc \in {"over", "down"}
  <2>1. run' = [run EXCEPT !.pc = "over"] \/ run' = [run EXCEPT !.pc = "down"]
    BY DEF StoppedEnds, Crash
  <2> QED BY <1>1, <2>1, ActiveRow DEF Run
<1>6. attempts' = With(row)
  BY <1>2
<1> HIDE DEF row
<1> QED BY <1>1, <1>4, <1>5, <1>6, ActiveRow DEF Rewrites

LEMMA SuccessRewrites == TypeOK /\ LoopInv /\ RunSucceeds => Rewrites
<1> SUFFICES ASSUME TypeOK, LoopInv, RunSucceeds PROVE Rewrites
  OBVIOUS
<1>1. run.pc = "running" /\ plan' = plan /\ unread' = unread
  BY DEF RunSucceeds
<1>2. PICK inner \in InnerRetries, committed \in BOOLEAN :
       /\ attempts' = With([Latest EXCEPT
            !.state = IF committed THEN "succeeded" ELSE "blocked",
            !.inner = inner, !.counted = inner, !.measured = TRUE])
       /\ run' = [run EXCEPT !.pc = IF committed THEN "done" ELSE "over"]
  BY DEF RunSucceeds
<1>3. PICK state \in {"succeeded", "blocked"}, pc \in {"done", "over"} :
       /\ attempts' = With([Latest EXCEPT !.state = state,
            !.inner = inner, !.counted = inner, !.measured = TRUE])
       /\ run' = [run EXCEPT !.pc = pc]
  BY <1>2
<1> DEFINE row == [Latest EXCEPT !.state = state,
            !.inner = inner, !.counted = inner, !.measured = TRUE]
<1>4. inner \in Nat
  BY <1>1, ActiveRow
<1>5. /\ row \in Attempt /\ row.settings = Latest.settings /\ row.reason = Latest.reason
      /\ row.gen = Latest.gen /\ row.inner = inner /\ row.counted = inner
  BY <1>1, <1>4, ActiveRow DEF Attempt
<1>6. /\ run' \in Run /\ run'.current = run.current /\ run'.reason = run.reason
      /\ run'.gen = run.gen /\ run'.pc \in {"done", "over"}
  BY <1>1, <1>3, ActiveRow DEF Run
<1>7. attempts' = With(row)
  BY <1>3
<1> HIDE DEF row
<1> QED BY <1>1, <1>5, <1>6, <1>7, ActiveRow DEF Rewrites

\* Stops, resumes, the end of the ladder, a crash between attempts.
LEMMA RestIsQuiet ==
  ASSUME TypeOK,
         GiveUp \/ Stop \/ Resume \/ UNCHANGED vars
           \/ (Crash /\ run.pc \notin {"waiting", "running"})
  PROVE  Quiet
<1>1. attempts' = attempts /\ plan' = plan /\ unread' = unread
  BY DEF GiveUp, Stop, Resume, vars, Crash
<1>2. \/ run' = [run EXCEPT !.pc = "over"] \/ run' = [run EXCEPT !.pc = "down"]
      \/ run' = [run EXCEPT !.stopped = TRUE] \/ run' = run
      \/ run' = [run EXCEPT !.pc = "idle", !.gen = run.gen + 1]
  BY DEF GiveUp, Stop, Resume, vars, Crash
<1>3. run \in Run
  BY PlanState
<1>4. CASE run' = [run EXCEPT !.pc = "over"] \/ run' = [run EXCEPT !.pc = "down"]
  BY <1>1, <1>3, <1>4 DEF Quiet, Run
<1>5. CASE run' = [run EXCEPT !.stopped = TRUE] \/ run' = run
  BY <1>1, <1>3, <1>5 DEF Quiet, Run
<1>6. CASE run' = [run EXCEPT !.pc = "idle", !.gen = run.gen + 1]
  <2>1. run.gen + 1 \in Nat
    BY PlanState
  <2> QED BY <1>1, <1>3, <1>6, <2>1 DEF Quiet, Run
<1> QED BY <1>2, <1>4, <1>5, <1>6

\* Every step is one of five kinds.
LEMMA StepKinds ==
  ASSUME TypeOK, LoopInv, [Next]_vars
  PROVE  Quiet \/ Rewrites \/ Begin \/ Claim \/ Descend
BY AdmitRewrites, FailureRewrites, EvidenceRewrites, EndRewrites, SuccessRewrites, RestIsQuiet
   DEF Next, Loop

\* The steps that claim no attempt and choose no candidate.
Steady ==
  /\ plan' = plan /\ run'.current = run.current /\ run'.reason = run.reason
  /\ attempts' \in Seq(Attempt) /\ Len(attempts') = Len(attempts)
  /\ DOMAIN attempts' = DOMAIN attempts
  /\ \A k \in DOMAIN attempts :
       /\ attempts'[k].settings = attempts[k].settings
       /\ attempts'[k].reason = attempts[k].reason /\ attempts'[k].gen = attempts[k].gen
       /\ k # Len(attempts) => attempts'[k] = attempts[k]
  /\ run'.pc = "ready" => run.pc = "ready" /\ attempts' = attempts /\ run'.gen = run.gen

LEMMA SteadyLemma ==
  ASSUME TypeOK, LoopInv, Quiet \/ Rewrites
  PROVE  Steady
<1>1. CASE Quiet
  <2>1. run'.pc = "ready" => run.pc = "ready" /\ run'.gen = run.gen
    BY <1>1 DEF Quiet
  <2> QED BY <1>1, <2>1, PlanState DEF Quiet, Steady
<1>2. CASE Rewrites
  <2>1. PICK row \in Attempt :
          /\ attempts # << >> /\ attempts' = With(row) /\ plan' = plan
          /\ row.settings = Latest.settings /\ row.reason = Latest.reason
          /\ row.gen = Latest.gen
          /\ run'.current = run.current /\ run'.reason = run.reason
          /\ run'.pc \in {"over", "done", "down", "running", "failed"}
    BY <1>2 DEF Rewrites
  <2>2. /\ attempts' \in Seq(Attempt) /\ Len(attempts') = Len(attempts)
        /\ DOMAIN attempts' = DOMAIN attempts
        /\ attempts'[Len(attempts)] = row
        /\ \A k \in DOMAIN attempts : k # Len(attempts) => attempts'[k] = attempts[k]
    BY <2>1, WithLemma, PlanState
  <2>3. ASSUME NEW k \in DOMAIN attempts
        PROVE  /\ attempts'[k].settings = attempts[k].settings
               /\ attempts'[k].reason = attempts[k].reason
               /\ attempts'[k].gen = attempts[k].gen
    <3>1. CASE k = Len(attempts)
      BY <2>1, <2>2, <3>1 DEF Latest
    <3>2. CASE k # Len(attempts)
      BY <2>2, <3>2
    <3> QED BY <3>1, <3>2
  <2> QED BY <2>1, <2>2, <2>3 DEF Steady
<1> QED BY <1>1, <1>2

\* A new attempt takes the settings and the reason the loop has chosen.
Claimed ==
  \E row \in Attempt :
    /\ attempts' = Append(attempts, row) /\ plan' = plan /\ run.pc = "ready"
    /\ row.settings = run.current /\ row.reason = run.reason /\ row.gen = run.gen
    /\ row.inner = 0 /\ row.counted = 0 /\ ~row.measured /\ ~row.contended
    /\ attempts' \in Seq(Attempt) /\ Len(attempts') = Len(attempts) + 1
    /\ attempts'[Len(attempts) + 1] = row
    /\ DOMAIN attempts' = 1..(Len(attempts) + 1) /\ DOMAIN attempts = 1..Len(attempts)
    /\ \A k \in DOMAIN attempts : attempts'[k] = attempts[k]
    /\ run' \in Run /\ run'.pc = "waiting" /\ run'.current = run.current
    /\ run'.used = run.used /\ run'.gen = run.gen /\ unread' = unread

LEMMA ClaimLemma ==
  ASSUME TypeOK, Claim
  PROVE  Claimed
<1> DEFINE row ==
       [settings |-> run.current, reason |-> run.reason, gen |-> run.gen,
        state |-> "waiting", code |-> "none", contended |-> FALSE, inner |-> 0,
        counted |-> 0, measured |-> FALSE]
<1>1. /\ attempts' = Append(attempts, row) /\ plan' = plan /\ run.pc = "ready"
      /\ unread' = unread /\ run' = [run EXCEPT !.pc = "waiting"]
  BY DEF Claim
<1>2. /\ row \in Attempt /\ row.settings = run.current /\ row.reason = run.reason
      /\ row.gen = run.gen /\ row.inner = 0 /\ row.counted = 0 /\ ~row.measured
      /\ ~row.contended
  BY PlanState DEF Attempt
<1> HIDE DEF row
<1>3. /\ attempts' \in Seq(Attempt) /\ Len(attempts') = Len(attempts) + 1
      /\ attempts'[Len(attempts) + 1] = row
      /\ DOMAIN attempts' = 1..(Len(attempts) + 1) /\ DOMAIN attempts = 1..Len(attempts)
      /\ \A k \in DOMAIN attempts : attempts'[k] = attempts[k]
  BY <1>1, <1>2, PlanState
<1>4. /\ run' \in Run /\ run'.pc = "waiting" /\ run'.current = run.current
      /\ run'.used = run.used /\ run'.gen = run.gen
  BY <1>1, PlanState DEF Run
<1> QED BY <1>1, <1>2, <1>3, <1>4 DEF Claimed

\* The next candidate, as the loop takes it.
Chosen ==
  \E next :
    /\ Follows(plan, Eligible, Latest.code, run.current, attempts, Latest.contended, next)
    /\ Level(plan.mode) > 0 /\ ~run.blind /\ RetryAllowed(run.used)
    /\ attempts' = attempts /\ plan' = plan /\ unread' = unread /\ run.pc = "failed"
    /\ run' \in Run /\ run'.pc = "ready" /\ run'.current = next.settings
    /\ run'.reason = next.reason /\ run'.used = run.used + 1 /\ run'.gen = run.gen

LEMMA EligibleType == TypeOK => Eligible \in SUBSET plan.desc.batches
BY DEF Eligible

LEMMA DescendLemma ==
  ASSUME TypeOK, Permitted(plan, run.current), Descend
  PROVE  Chosen
<1> DEFINE next == NextCandidate(plan, Eligible, Latest.code, run.current, attempts,
                                 Latest.contended)
<1>1. /\ Following # None /\ run.pc = "failed"
      /\ run' = [run EXCEPT !.pc = "ready", !.current = Following.settings,
                            !.reason = Following.reason, !.used = run.used + 1]
      /\ attempts' = attempts /\ plan' = plan /\ unread' = unread
  BY DEF Descend
<1>2. Following = next /\ ~run.blind /\ RetryAllowed(run.used)
  BY <1>1 DEF Following, NextRung
<1>3. /\ Level(plan.mode) > 0
      /\ Follows(plan, Eligible, Latest.code, run.current, attempts, Latest.contended, next)
  <2>1. IsFiniteSet(DOMAIN attempts) /\ Cardinality(DOMAIN attempts) \in Nat
    BY CountFinite, PlanState
  <2>2. plan \in Plans /\ run.current \in SettingsRow
    BY PlanState
  <2> QED BY <1>1, <1>2, <2>1, <2>2, EligibleType, NextCandidateLemma
<1> HIDE DEF next
<1>4. next.settings \in SettingsRow /\ next.reason \in Reasons
  BY <1>3 DEF Follows, Reasons, Rungs
<1>5. /\ run' \in Run /\ run'.pc = "ready" /\ run'.current = next.settings
      /\ run'.reason = next.reason /\ run'.used = run.used + 1 /\ run'.gen = run.gen
  <2>1. run.used + 1 \in Nat /\ run \in Run
    BY PlanState
  <2> QED BY <1>1, <1>2, <1>4, <2>1 DEF Run
<1> QED BY <1>1, <1>2, <1>3, <1>5 DEF Chosen

\* The owner's first candidate.
LEMMA SavedUsageType ==
  ASSUME NEW history \in Seq(Attempt)
  PROVE  SavedUsage(history) \in Nat
<1> DEFINE f == [k \in DOMAIN history |->
                   IF history[k].measured THEN history[k].counted ELSE 0]
<1>1. Len(history) \in Nat /\ DOMAIN history = 1..Len(history)
  BY CountFinite
<1>2. \A k \in 1..Len(history) : f[k] \in Nat
  <2>1. \A k \in 1..Len(history) : history[k] \in Attempt
    BY <1>1
  <2> QED BY <1>1, <2>1 DEF Attempt
<1>3. Total(f, Len(history)) \in Nat
  <2> HIDE DEF f
  <2> QED BY <1>1, <1>2, TotalType
<1>4. Count(history, Rungs) \in Nat
  BY CountFinite
<1> QED BY <1>3, <1>4 DEF SavedUsage, Count

Begun ==
  /\ attempts' = attempts /\ plan' = plan /\ unread' = unread /\ run.pc = "idle"
  /\ run' \in Run /\ run'.pc = "ready" /\ run'.gen = run.gen
  /\ run'.used = StageRetryUsage(attempts)
  /\ run'.reason \in {"resume_same_settings", "learned_start", "initial"}
  /\ attempts = << >> => run'.current = Start(plan)
  /\ attempts # << >> => run'.current = Latest.settings

LEMMA BeginLemma ==
  ASSUME TypeOK, Begin
  PROVE  Begun
<1>1. StageRetryUsage(attempts) \in Nat
  BY SavedUsageType, PlanState DEF StageRetryUsage
<1>2. (IF attempts = << >> THEN Start(plan) ELSE Latest.settings) \in SettingsRow
  <2>1. attempts # << >> => Latest.settings \in SettingsRow
    BY LatestType, PlanState DEF Attempt
  <2> QED BY <2>1, StartPermitted, PlanState
<1>3. PICK current, reason :
        /\ run' = [run EXCEPT !.pc = "ready", !.blind = FALSE,
                     !.used = StageRetryUsage(attempts), !.current = current,
                     !.reason = reason]
        /\ current = IF attempts = << >> THEN Start(plan) ELSE Latest.settings
        /\ reason \in {"resume_same_settings", "learned_start", "initial"}
  <2> DEFINE reason == IF attempts # << >> THEN "resume_same_settings"
                  ELSE IF Start(plan) # plan.original THEN "learned_start" ELSE "initial"
  <2>1. reason \in {"resume_same_settings", "learned_start", "initial"}
    OBVIOUS
  <2> QED BY <2>1 DEF Begin
<1>4. current \in SettingsRow /\ reason \in Reasons
  BY <1>2, <1>3 DEF Reasons
<1>5. /\ run' \in Run /\ run'.pc = "ready" /\ run'.gen = run.gen
      /\ run'.used = StageRetryUsage(attempts)
      /\ run'.current = current /\ run'.reason = reason
  <2>1. run \in Run
    BY PlanState
  <2> QED BY <1>1, <1>3, <1>4, <2>1 DEF Run
<1>6. attempts' = attempts /\ plan' = plan /\ unread' = unread /\ run.pc = "idle"
  BY DEF Begin
<1> QED BY <1>3, <1>5, <1>6 DEF Begun

LEMMA StepEffects ==
  ASSUME TypeOK, LoopInv, PermittedInv, [Next]_vars
  PROVE  Quiet \/ Rewrites \/ Begun \/ Claimed \/ Chosen
BY StepKinds, BeginLemma, ClaimLemma, DescendLemma DEF PermittedInv

-----------------------------------------------------------------------------
(* Each part of the invariant, step by step.                               *)

LEMMA TypeStep ==
  ASSUME TypeOK, LoopInv, PermittedInv, [Next]_vars
  PROVE  TypeOK'
<1>1. CASE Quiet \/ Rewrites
  <2>1. Steady
    BY <1>1, SteadyLemma
  <2>2. run' \in Run /\ unread' \in Nat
    BY <1>1, PlanState DEF Quiet, Rewrites
  <2> QED BY <2>1, <2>2, PlanState DEF Steady, TypeOK
<1>2. CASE Begun
  BY <1>2, PlanState DEF Begun, TypeOK
<1>3. CASE Claimed
  BY <1>3, PlanState DEF Claimed, TypeOK
<1>4. CASE Chosen
  BY <1>4, PlanState DEF Chosen, TypeOK
<1> QED BY <1>1, <1>2, <1>3, <1>4, StepEffects

\* The loop works on the last row; what it owns, it claimed itself.
LEMMA LoopStep ==
  ASSUME TypeOK, LoopInv, PermittedInv, [Next]_vars
  PROVE  LoopInv'
<1> DEFINE G == \A k \in DOMAIN attempts : attempts[k].gen \in Nat
<1>0. G /\ run.gen \in Nat
  <2>1. ASSUME NEW k \in DOMAIN attempts PROVE attempts[k].gen \in Nat
    <3>1. attempts[k] \in Attempt
      BY PlanState
    <3> QED BY <3>1 DEF Attempt
  <2> QED BY <2>1, PlanState
<1>1. CASE Quiet
  <2>1. run'.pc \in {"waiting", "running", "failed"} =>
          run'.pc = run.pc /\ run'.gen = run.gen /\ run'.blind = run.blind
    BY <1>1 DEF Quiet
  <2>2. attempts' = attempts /\ run'.current = run.current /\ plan' = plan
    BY <1>1 DEF Quiet
  <2>3. Latest' = Latest /\ Failures(run.current)' = Failures(run.current)
    BY <2>2 DEF Latest, Failures
  <2>4. \A k \in DOMAIN attempts' : attempts'[k].gen <= run'.gen
    <3>1. run'.gen = run.gen \/ run'.gen = run.gen + 1
      BY <1>1 DEF Quiet
    <3> QED BY <1>0, <2>2, <3>1 DEF LoopInv
  <2>5. run'.pc = "idle" => \A k \in DOMAIN attempts' : attempts'[k].gen < run'.gen
    <3>1. run'.pc = "idle" =>
            \/ run.pc = "idle" /\ run'.gen = run.gen
            \/ run'.gen = run.gen + 1
      BY <1>1 DEF Quiet
    <3> QED BY <1>0, <2>2, <3>1 DEF LoopInv
  <2> QED BY <2>1, <2>2, <2>3, <2>4, <2>5 DEF LoopInv, Busy
<1>2. CASE Rewrites
  <2>1. PICK row \in Attempt :
          /\ attempts # << >> /\ attempts' = With(row) /\ plan' = plan
          /\ row.settings = Latest.settings /\ row.reason = Latest.reason
          /\ row.gen = Latest.gen
          /\ run'.current = run.current /\ run'.gen = run.gen
          /\ run.pc \in {"waiting", "running"}
          /\ \/ run'.pc \in {"over", "done", "down"}
             \/ /\ run'.pc = "running"
                /\ row.inner = 0 /\ row.counted = 0 /\ ~row.measured
             \/ run'.pc = "failed" /\ (run'.blind \/ row.code \in Failures(run.current))
    BY <1>2 DEF Rewrites
  <2>2. /\ Len(attempts') = Len(attempts) /\ DOMAIN attempts' = DOMAIN attempts
        /\ attempts'[Len(attempts)] = row /\ Len(attempts) \in DOMAIN attempts
    BY <2>1, WithLemma, PlanState
  <2>3. Latest' = row /\ Failures(run.current)' = Failures(run.current)
    BY <2>1, <2>2 DEF Latest, Failures
  <2>4. row.settings = run.current /\ row.gen = run.gen
    BY <2>1 DEF LoopInv, Busy
  <2>5. Steady
    BY <1>2, SteadyLemma
  <2>6. \A k \in DOMAIN attempts' : attempts'[k].gen <= run'.gen
    BY <2>1, <2>5 DEF Steady, LoopInv
  <2>7. attempts' # << >>
    BY <2>2
  <2> QED BY <2>1, <2>3, <2>4, <2>6, <2>7 DEF LoopInv, Busy
<1>3. CASE Begun
  BY <1>3 DEF Begun, LoopInv, Busy
<1>4. CASE Claimed
  <2>1. PICK row \in Attempt :
          /\ row.settings = run.current /\ row.gen = run.gen
          /\ row.inner = 0 /\ row.counted = 0 /\ ~row.measured
          /\ Len(attempts') = Len(attempts) + 1 /\ attempts'[Len(attempts) + 1] = row
          /\ DOMAIN attempts' = 1..(Len(attempts) + 1) /\ DOMAIN attempts = 1..Len(attempts)
          /\ \A k \in DOMAIN attempts : attempts'[k] = attempts[k]
          /\ run'.pc = "waiting" /\ run'.current = run.current /\ run'.gen = run.gen
    BY <1>4 DEF Claimed
  <2>2. Len(attempts) \in Nat
    BY PlanState
  <2>3. Latest' = row
    BY <2>1 DEF Latest
  <2>4. attempts' # << >>
    BY <2>1, <2>2
  <2>5. \A k \in DOMAIN attempts' : k \in DOMAIN attempts \/ k = Len(attempts) + 1
    BY <2>1, <2>2
  <2>6. \A k \in DOMAIN attempts' : attempts'[k].gen <= run'.gen
    BY <1>0, <2>1, <2>5 DEF LoopInv
  <2> QED BY <2>1, <2>3, <2>4, <2>6 DEF LoopInv, Busy
<1>5. CASE Chosen
  BY <1>5 DEF Chosen, LoopInv, Busy
<1> QED BY <1>1, <1>2, <1>3, <1>4, <1>5, StepEffects

LEMMA PermittedStep ==
  ASSUME TypeOK, LoopInv, PermittedInv, [Next]_vars
  PROVE  PermittedInv'
<1>1. CASE Quiet \/ Rewrites
  <2>1. Steady
    BY <1>1, SteadyLemma
  <2> QED BY <2>1 DEF Steady, PermittedInv, Settings
<1>2. CASE Begun
  <2>1. attempts # << >> => Len(attempts) \in DOMAIN attempts
    BY LatestType, PlanState
  <2>2. Permitted(plan, run'.current)
    BY <1>2, <2>1, StartPermitted, PlanState DEF Begun, PermittedInv, Settings, Latest
  <2> QED BY <1>2, <2>2 DEF Begun, PermittedInv, Settings
<1>3. CASE Claimed
  <2>1. PICK row \in Attempt :
          /\ row.settings = run.current /\ attempts'[Len(attempts) + 1] = row
          /\ DOMAIN attempts' = 1..(Len(attempts) + 1) /\ DOMAIN attempts = 1..Len(attempts)
          /\ \A k \in DOMAIN attempts : attempts'[k] = attempts[k]
          /\ run'.current = run.current /\ plan' = plan
    BY <1>3 DEF Claimed
  <2>2. \A k \in DOMAIN attempts' : k \in DOMAIN attempts \/ k = Len(attempts) + 1
    BY <2>1, PlanState
  <2> QED BY <2>1, <2>2 DEF PermittedInv, Settings
<1>4. CASE Chosen
  BY <1>4 DEF Chosen, Follows, PermittedInv, Settings
<1> QED BY <1>1, <1>2, <1>3, <1>4, StepEffects

\* A prefix is its elements.
LEMMA PrefixSame ==
  ASSUME NEW h \in Seq(Attempt), NEW g \in Seq(Attempt), NEW n \in Nat,
         n <= Len(h), n <= Len(g), \A j \in 1..n : h[j] = g[j]
  PROVE  SubSeq(h, 1, n) = SubSeq(g, 1, n)
<1> DEFINE a == SubSeq(h, 1, n)
           b == SubSeq(g, 1, n)
<1>1. /\ a \in Seq(Attempt) /\ Len(a) = n /\ \A j \in 1..n : a[j] = h[j]
      /\ b \in Seq(Attempt) /\ Len(b) = n /\ \A j \in 1..n : b[j] = g[j]
  OBVIOUS
<1> HIDE DEF a, b
<1>2. a = [j \in 1..n |-> a[j]] /\ b = [j \in 1..n |-> b[j]]
  BY <1>1
<1>3. \A j \in 1..n : a[j] = b[j]
  BY <1>1
<1>4. a = b
  BY <1>2, <1>3
<1> QED BY <1>4 DEF a, b

LEMMA PrefixAll ==
  ASSUME NEW h \in Seq(Attempt)
  PROVE  SubSeq(h, 1, Len(h)) = h
<1> DEFINE n == Len(h)
           a == SubSeq(h, 1, n)
<1>1. /\ a \in Seq(Attempt) /\ Len(a) = n /\ n \in Nat /\ \A j \in 1..n : a[j] = h[j]
  OBVIOUS
<1> HIDE DEF a
<1>2. a = [j \in 1..n |-> a[j]] /\ h = [j \in 1..n |-> h[j]]
  BY <1>1
<1>3. a = h
  BY <1>1, <1>2
<1> QED BY <1>3 DEF a

LEMMA WindowNumbers ==
  ASSUME TypeOK
  PROVE  /\ run.current.window \in Nat /\ run.current.batch \in Nat
         /\ \A k \in DOMAIN attempts :
              Settings(k).window \in Nat /\ Settings(k).batch \in Nat
<1>1. ASSUME NEW k \in DOMAIN attempts
      PROVE  Settings(k).window \in Nat /\ Settings(k).batch \in Nat
  <2>1. attempts[k] \in Attempt
    BY PlanState
  <2> QED BY <2>1 DEF Settings, Attempt, SettingsRow
<1>2. run.current \in SettingsRow
  BY PlanState
<1> QED BY <1>1, <1>2 DEF SettingsRow

\* What the loop chooses after a failure leads down from the attempt that failed.
LEMMA ChosenDescends ==
  ASSUME TypeOK, LoopInv, PermittedInv, DescentInv, ReasonInv, Chosen
  PROVE  /\ Descent(plan, attempts, run'.current, run'.reason, run'.gen)
         /\ Narrower(run.current, run'.current)
<1>1. PICK next :
        /\ Follows(plan, Eligible, Latest.code, run.current, attempts, Latest.contended, next)
        /\ Level(plan.mode) > 0 /\ ~run.blind /\ run.pc = "failed"
        /\ run'.current = next.settings /\ run'.reason = next.reason /\ run'.gen = run.gen
  BY DEF Chosen
<1>2. /\ attempts # << >> /\ Latest.settings = run.current /\ Latest.gen = run.gen
      /\ Latest.code \in Failures(run.current)
  BY <1>1 DEF LoopInv, Busy
<1>3. /\ plan \in Plans /\ run.current \in SettingsRow /\ Permitted(plan, run.current)
      /\ attempts \in Seq(Attempt) /\ Eligible \in SUBSET plan.desc.batches
  BY PlanState, EligibleType DEF PermittedInv
<1>4. /\ Len(attempts) \in DOMAIN attempts /\ Latest = attempts[Len(attempts)]
      /\ DOMAIN attempts = 1..Len(attempts) /\ Len(attempts) \in Nat
  BY <1>2, <1>3, LatestType DEF Latest
<1>5. run.current.window \in Nat /\ run.current.batch \in Nat
  BY WindowNumbers
<1> DEFINE s == next.settings
           a == run.current
<1>6. CASE s = a /\ next.reason \in {"cleanup_retry", "exact_alignment_retry"}
  <2> HIDE DEF s, a
  <2>1. Narrower(a, s) /\ s.batch <= a.batch
    BY <1>5, <1>6 DEF Narrower, a
  <2>2. ~(a.device = "cpu" /\ s.device = "cuda")
    BY <1>6
  <2> QED BY <1>1, <1>2, <1>4, <1>6, <2>1, <2>2 DEF Descent, s, a
<1>7. CASE /\ next.reason = "smaller_batch" /\ ~Latest.contended
           /\ s \in BatchRung(plan, Eligible, Latest.code, run.current, attempts)
  <2>1. /\ s \in SettingsRow /\ s.batch < a.batch /\ s.window = a.window
        /\ s.device = a.device
    BY <1>3, <1>7, BatchRungLemma
  <2>2. Narrower(a, s) /\ s.batch <= a.batch
    BY <1>5, <2>1 DEF Narrower, SettingsRow
  <2> QED BY <1>1, <1>2, <1>4, <1>7, <2>1, <2>2 DEF Descent
<1>8. CASE /\ next.reason = "cpu_fallback" /\ ~Latest.contended
           /\ s \in CpuRung(plan, Latest.code, run.current, attempts)
           /\ plan.mode = "aggressive" =>
                \A t \in WindowRung(plan, Latest.code, run.current, attempts) :
                  Tried(attempts, t)
  <2>1. /\ s \in SettingsRow /\ s.batch = a.batch /\ s.window = a.window
        /\ s.device = "cpu"
    BY <1>1, <1>3, <1>8, CpuRungLemma
  <2>2. Narrower(a, s) /\ s.batch <= a.batch
    BY <1>5, <2>1 DEF Narrower, SettingsRow
  <2>3. ASSUME plan.mode = "aggressive", Latest.code = "cuda_out_of_memory",
               Uses(attempts, "shorter_window") # 2,
               NEW w \in ShorterOf(plan, a.window)
        PROVE  FALSE
    <3>1. Uses(attempts, "shorter_window") < 2
      <4>1. Uses(attempts, "shorter_window") \in Nat
        BY <1>3, UsesIsCount, CountFinite
      <4> QED BY <2>3, <4>1 DEF ReasonInv
    <3>2. /\ w \in Rule(plan).windows /\ WindowGranted(plan, w)
          /\ a.window > 0 => w < a.window
      BY <2>3 DEF ShorterOf
    <3>3. Shortened(plan, a, w) \in WindowRung(plan, Latest.code, a, attempts)
      BY <2>3, <3>1, <3>2 DEF WindowRung
    <3>4. PICK j \in DOMAIN attempts : attempts[j].settings = Shortened(plan, a, w)
      BY <1>8, <2>3, <3>3 DEF Tried
    <3>5. w \in Nat /\ w > 0
      BY <1>3, <3>2, WindowType
    <3>6. Shortened(plan, a, w).window = w
      <4> DEFINE cut == [a EXCEPT !.window = w, !.stitched = TRUE]
      <4>1. cut.window = w /\ cut \in SettingsRow
        BY <1>3, <3>5 DEF SettingsRow
      <4> HIDE DEF cut
      <4>2. [cut EXCEPT !.device = "cuda", !.precision = plan.original.precision].window = w
        BY <4>1 DEF SettingsRow
      <4> QED BY <4>1, <4>2 DEF Shortened, cut
    <3>7. Narrower(Settings(j), a)
      <4>1. CASE j = Len(attempts)
        <5>1. Settings(j) = a
          BY <1>2, <1>4, <4>1 DEF Settings
        <5> QED BY <1>5, <5>1 DEF Narrower
      <4>2. CASE j < Len(attempts)
        <5>1. Narrower(Settings(j), Settings(Len(attempts)))
          BY <1>4, <4>2 DEF DescentInv
        <5> QED BY <5>1, <1>2, <1>4 DEF Settings
      <4> QED BY <1>4, <4>1, <4>2
    <3>8. a.window > 0 /\ a.window <= w
      BY <3>4, <3>5, <3>6, <3>7 DEF Narrower, Settings
    <3> QED BY <1>5, <3>2, <3>5, <3>8
  <2> QED BY <1>1, <1>2, <1>4, <1>8, <2>1, <2>2, <2>3 DEF Descent
<1>9. CASE /\ next.reason = "shorter_window" /\ ~Latest.contended
           /\ Latest.code \in GpuFailures \cup Capacity
           /\ s \in WindowRung(plan, Latest.code, run.current, attempts)
           /\ plan.mode # "aggressive" =>
                \A t \in CpuRung(plan, Latest.code, run.current, attempts) :
                  Tried(attempts, t)
  <2>1. /\ s \in SettingsRow /\ s.batch = a.batch /\ s.window \in Nat /\ s.window > 0
        /\ a.window > 0 => s.window < a.window
        /\ s.device # a.device => s.device = "cuda" /\ s.precision = plan.original.precision
        /\ Latest.code # "cuda_runtime_error"
    <3>1. /\ s \in SettingsRow /\ s.batch = a.batch /\ s.window > 0
          /\ a.window > 0 => s.window < a.window
          /\ s.device # a.device => s.device = "cuda" /\ s.precision = plan.original.precision
          /\ Latest.code # "cuda_runtime_error"
      BY <1>1, <1>3, <1>9, WindowRungLemma
    <3> QED BY <3>1 DEF SettingsRow
  <2>2. Narrower(a, s) /\ s.batch <= a.batch /\ s.window # a.window
    BY <1>5, <2>1 DEF Narrower
  <2>3. ASSUME plan.mode # "aggressive", a.device = "cuda", CpuGranted(plan)
        PROVE  \E j \in DOMAIN attempts : attempts[j].settings.device = "cpu"
    <3>1. Latest.code \in GpuFailures
      BY <1>2, <1>9, <2>3 DEF Failures, GpuFailures, Capacity
    <3>2. CASE Uses(attempts, "cpu_fallback") = 0
      <4> DEFINE t == [a EXCEPT !.device = "cpu", !.precision = Rule(plan).cpuPrecision]
      <4>1. t \in CpuRung(plan, Latest.code, run.current, attempts)
        BY <2>3, <3>1, <3>2 DEF CpuRung
      <4>2. t.device = "cpu"
        BY <1>3 DEF SettingsRow
      <4> HIDE DEF t
      <4> QED BY <1>9, <2>3, <4>1, <4>2 DEF Tried
    <3>3. CASE Uses(attempts, "cpu_fallback") # 0
      <4>1. \E k \in DOMAIN attempts : attempts[k].reason = "cpu_fallback"
        <5>1. CASE {k \in DOMAIN attempts : attempts[k].reason = "cpu_fallback"} = {}
          BY <3>3, <5>1, FS_EmptySet DEF Uses
        <5> QED BY <5>1
      <4> QED BY <4>1 DEF ReasonInv, Settings
    <3> QED BY <3>2, <3>3
  <2> QED BY <1>1, <1>2, <1>4, <1>9, <2>1, <2>2, <2>3 DEF Descent
<1>10. Narrower(a, s)
  <2>1. CASE s = a
    BY <1>5, <2>1 DEF Narrower
  <2>2. CASE s # a
    <3>1. Descent(plan, attempts, s, next.reason, run.gen)
      BY <1>1, <1>6, <1>7, <1>8, <1>9, <2>2 DEF Follows
    <3> QED BY <3>1, <1>2, <1>4 DEF Descent
  <2> QED BY <2>1, <2>2
<1> QED BY <1>1, <1>6, <1>7, <1>8, <1>9, <1>10 DEF Follows

LEMMA DescentStep ==
  ASSUME TypeOK, LoopInv, PermittedInv, DescentInv, ReasonInv, [Next]_vars
  PROVE  DescentInv'
<1>0. /\ attempts \in Seq(Attempt) /\ Len(attempts) \in Nat
      /\ DOMAIN attempts = 1..Len(attempts)
  BY PlanState, CountFinite
<1>1. CASE Quiet \/ Rewrites
  <2>1. Steady
    BY <1>1, SteadyLemma
  <2>2. ASSUME NEW k \in 2..Len(attempts')
        PROVE  Descent(plan', SubSeq(attempts', 1, k - 1), attempts'[k].settings,
                       attempts'[k].reason, attempts'[k].gen)
    <3>1. k \in Later /\ k \in DOMAIN attempts /\ k - 1 \in Nat
      BY <1>0, <2>1 DEF Steady, Later
    <3>2. SubSeq(attempts', 1, k - 1) = SubSeq(attempts, 1, k - 1)
      <4>1. \A j \in 1..(k - 1) : attempts'[j] = attempts[j]
        <5>1. k \in 1..Len(attempts)
          BY <1>0, <3>1
        <5>2. ASSUME NEW j \in 1..(k - 1)
              PROVE  j \in 1..Len(attempts) /\ j # Len(attempts)
          <6> DEFINE n == Len(attempts)
          <6>1. n \in Nat /\ k \in 1..n
            BY <1>0, <5>1
          <6> HIDE DEF n
          <6>2. j \in 1..n /\ j # n
            BY <6>1
          <6> QED BY <6>2 DEF n
        <5> QED BY <1>0, <2>1, <5>2 DEF Steady
      <4>2. attempts' \in Seq(Attempt) /\ k - 1 <= Len(attempts) /\ k - 1 <= Len(attempts')
        BY <1>0, <2>1, <3>1 DEF Steady
      <4> QED BY <1>0, <3>1, <4>1, <4>2, PrefixSame
    <3>3. Descent(plan, SubSeq(attempts, 1, k - 1), attempts[k].settings,
                  attempts[k].reason, attempts[k].gen)
      BY <3>1 DEF DescentInv
    <3>4. /\ plan' = plan /\ attempts'[k].settings = attempts[k].settings
          /\ attempts'[k].reason = attempts[k].reason /\ attempts'[k].gen = attempts[k].gen
      BY <2>1, <3>1 DEF Steady
    <3> QED BY <3>2, <3>3, <3>4
  <2>3. \A j, k \in DOMAIN attempts' : j < k => Narrower(Settings(j), Settings(k))'
    BY <2>1 DEF Steady, DescentInv, Settings
  <2>4. run'.pc = "ready" =>
          /\ attempts' # << >> =>
               Descent(plan', attempts', run'.current, run'.reason, run'.gen)
          /\ \A j \in DOMAIN attempts' : Narrower(attempts'[j].settings, run'.current)
    BY <2>1 DEF Steady, DescentInv, Settings
  <2> QED BY <2>2, <2>3, <2>4 DEF DescentInv, Later, Settings
<1>2. CASE Begun \/ Chosen
  <2>1. attempts' = attempts /\ plan' = plan
    BY <1>2 DEF Begun, Chosen
  <2>2. ASSUME attempts # << >>
        PROVE  /\ Descent(plan, attempts, run'.current, run'.reason, run'.gen)
               /\ Narrower(Latest.settings, run'.current)
    <3>1. CASE Chosen
      <4>1. Latest.settings = run.current
        BY <2>2, <3>1 DEF Chosen, LoopInv, Busy
      <4> QED BY <3>1, <4>1, ChosenDescends
    <3>2. CASE Begun
      <4>1. /\ Len(attempts) \in DOMAIN attempts /\ Latest = attempts[Len(attempts)]
            /\ Latest \in Attempt
        BY <1>0, <2>2, LatestType DEF Latest
      <4>2. /\ run'.current = Latest.settings /\ run'.gen # Latest.gen
            /\ run'.reason \in {"resume_same_settings", "learned_start", "initial"}
        <5>1. run.pc = "idle" /\ run'.gen = run.gen /\ run.gen \in Nat
          BY <3>2, PlanState DEF Begun
        <5>2. Latest.gen < run.gen /\ Latest.gen \in Nat
          BY <4>1, <5>1 DEF LoopInv, Attempt
        <5> QED BY <2>2, <3>2, <5>1, <5>2 DEF Begun
      <4>3. Latest.settings.batch \in Nat /\ Latest.settings.window \in Nat
        BY <4>1 DEF Attempt, SettingsRow
      <4>4. Narrower(Latest.settings, run'.current)
        BY <4>2, <4>3 DEF Narrower
      <4>5. ~(Latest.settings.device = "cpu" /\ run'.current.device = "cuda")
        BY <4>2
      <4>6. run'.current.batch <= Latest.settings.batch
        BY <4>2, <4>3
      <4> QED BY <4>1, <4>2, <4>4, <4>5, <4>6 DEF Descent
    <3> QED BY <1>2, <3>1, <3>2
  <2>3. ASSUME NEW j \in DOMAIN attempts PROVE Narrower(Settings(j), run'.current)
    <3>1. attempts # << >> /\ Len(attempts) \in DOMAIN attempts
      BY <1>0
    <3>2. Settings(Len(attempts)) = Latest.settings
      BY DEF Settings, Latest
    <3>3. Narrower(Latest.settings, run'.current)
      BY <2>2, <3>1
    <3>4. CASE j = Len(attempts)
      BY <3>2, <3>3, <3>4
    <3>5. CASE j < Len(attempts)
      <4>1. Narrower(Settings(j), Latest.settings)
        BY <3>1, <3>2, <3>5 DEF DescentInv
      <4>2. /\ Settings(j).window \in Nat /\ Latest.settings.window \in Nat
            /\ run'.current.window \in Nat
        <5>1. run' \in Run
          BY <1>2 DEF Begun, Chosen
        <5>2. run'.current.window \in Nat
          BY <5>1 DEF Run, SettingsRow
        <5> QED BY <3>1, <3>2, <5>2, WindowNumbers
      <4> QED BY <3>3, <4>1, <4>2 DEF Narrower
    <3> QED BY <1>0, <3>4, <3>5
  <2>4. /\ \A k \in 2..Len(attempts') :
             Descent(plan', SubSeq(attempts', 1, k - 1), attempts'[k].settings,
                     attempts'[k].reason, attempts'[k].gen)
        /\ \A j, k \in DOMAIN attempts' :
             j < k => Narrower(attempts'[j].settings, attempts'[k].settings)
    BY <2>1 DEF DescentInv, Later, Settings
  <2>5. /\ attempts' # << >> =>
             Descent(plan', attempts', run'.current, run'.reason, run'.gen)
        /\ \A j \in DOMAIN attempts' : Narrower(attempts'[j].settings, run'.current)
    BY <2>1, <2>2, <2>3 DEF Settings
  <2> QED BY <2>4, <2>5 DEF DescentInv, Later, Settings
<1>3. CASE Claimed
  <2>1. PICK row \in Attempt :
          /\ row.settings = run.current /\ row.reason = run.reason /\ row.gen = run.gen
          /\ attempts' \in Seq(Attempt) /\ Len(attempts') = Len(attempts) + 1
          /\ attempts'[Len(attempts) + 1] = row
          /\ DOMAIN attempts' = 1..(Len(attempts) + 1)
          /\ \A k \in DOMAIN attempts : attempts'[k] = attempts[k]
          /\ run.pc = "ready" /\ run'.pc = "waiting" /\ plan' = plan
    BY <1>3 DEF Claimed
  <2>2. ASSUME NEW k \in 2..Len(attempts')
        PROVE  Descent(plan', SubSeq(attempts', 1, k - 1), attempts'[k].settings,
                       attempts'[k].reason, attempts'[k].gen)
    <3>1. /\ k - 1 \in Nat /\ k - 1 <= Len(attempts) /\ k - 1 <= Len(attempts')
          /\ \A j \in 1..(k - 1) : attempts'[j] = attempts[j]
      BY <1>0, <2>1
    <3>2. SubSeq(attempts', 1, k - 1) = SubSeq(attempts, 1, k - 1)
      BY <1>0, <2>1, <3>1, PrefixSame
    <3>3. CASE k \in DOMAIN attempts
      <4>1. k \in Later
        BY <1>0, <3>3 DEF Later
      <4>2. Descent(plan, SubSeq(attempts, 1, k - 1), attempts[k].settings,
                    attempts[k].reason, attempts[k].gen)
        BY <4>1 DEF DescentInv
      <4> QED BY <2>1, <3>2, <3>3, <4>2
    <3>4. CASE k = Len(attempts) + 1
      <4>1. SubSeq(attempts, 1, k - 1) = attempts /\ attempts # << >>
        <5>1. k - 1 = Len(attempts) /\ Len(attempts) # 0
          BY <1>0, <3>4
        <5> QED BY <1>0, <5>1, PrefixAll
      <4>2. Descent(plan, attempts, run.current, run.reason, run.gen)
        BY <2>1, <4>1 DEF DescentInv
      <4> QED BY <2>1, <3>2, <3>4, <4>1, <4>2
    <3> QED BY <1>0, <2>1, <3>3, <3>4
  <2>3. ASSUME NEW j \in DOMAIN attempts', NEW k \in DOMAIN attempts', j < k
        PROVE  Narrower(attempts'[j].settings, attempts'[k].settings)
    <3>1. j \in DOMAIN attempts
      BY <1>0, <2>1, <2>3
    <3>2. CASE k \in DOMAIN attempts
      BY <2>1, <2>3, <3>1, <3>2 DEF DescentInv, Settings
    <3>3. CASE k = Len(attempts) + 1
      BY <2>1, <3>1, <3>3 DEF DescentInv, Settings
    <3> QED BY <1>0, <2>1, <3>2, <3>3
  <2> QED BY <2>1, <2>2, <2>3 DEF DescentInv, Later, Settings
<1> QED BY <1>1, <1>2, <1>3, StepEffects

\* Retries that come once come once.
LEMMA ReasonStep ==
  ASSUME TypeOK, LoopInv, PermittedInv, ReasonInv, [Next]_vars
  PROVE  ReasonInv'
<1>0. /\ attempts \in Seq(Attempt) /\ Len(attempts) \in Nat
      /\ DOMAIN attempts = 1..Len(attempts)
  BY PlanState, CountFinite
<1>1. CASE Quiet \/ Rewrites
  <2>1. Steady
    BY <1>1, SteadyLemma
  <2>2. Uses(attempts', "shorter_window") = Uses(attempts, "shorter_window")
    <3>1. Count(attempts, {"shorter_window"}) = Count(attempts', {"shorter_window"})
      BY <1>0, <2>1, CountAgrees DEF Steady
    <3> QED BY <3>1, UsesIsCount
  <2>3. \A k \in DOMAIN attempts : /\ attempts'[k].settings = attempts[k].settings
                                   /\ attempts'[k].reason = attempts[k].reason
    BY <2>1 DEF Steady
  <2>4. /\ DOMAIN attempts' = DOMAIN attempts
        /\ run'.current = run.current /\ run'.reason = run.reason
        /\ run'.pc = "ready" => run.pc = "ready" /\ attempts' = attempts
    BY <2>1 DEF Steady
  <2> QED BY <2>2, <2>3, <2>4 DEF ReasonInv, Settings
<1>2. CASE Begun
  <2>1. /\ attempts' = attempts
        /\ run'.reason \in {"resume_same_settings", "learned_start", "initial"}
    BY <1>2 DEF Begun
  <2> QED BY <2>1 DEF ReasonInv, Settings, Single
<1>3. CASE Chosen
  <2>1. PICK next :
          /\ Follows(plan, Eligible, Latest.code, run.current, attempts, Latest.contended, next)
          /\ Level(plan.mode) > 0 /\ attempts' = attempts
          /\ run'.current = next.settings /\ run'.reason = next.reason
    BY <1>3 DEF Chosen
  <2>2. /\ plan \in Plans /\ run.current \in SettingsRow /\ Permitted(plan, run.current)
    BY PlanState DEF PermittedInv
  <2>3. /\ next.reason \in Single => Uses(attempts, next.reason) = 0
        /\ next.reason = "shorter_window" => Uses(attempts, "shorter_window") < 2
        /\ next.reason = "cpu_fallback" => next.settings.device = "cpu"
    <3>1. CASE next.reason \in {"cleanup_retry", "exact_alignment_retry"}
      BY <2>1, <3>1 DEF Follows
    <3>2. CASE next.reason = "smaller_batch"
      BY <3>2 DEF Single
    <3>3. CASE next.reason = "cpu_fallback"
      <4>1. next.settings \in CpuRung(plan, Latest.code, run.current, attempts)
        BY <2>1, <3>3 DEF Follows
      <4> QED BY <2>1, <2>2, <3>3, <4>1, CpuRungLemma
    <3>4. CASE next.reason = "shorter_window"
      <4>1. next.settings \in WindowRung(plan, Latest.code, run.current, attempts)
        BY <2>1, <3>4 DEF Follows
      <4>2. Uses(attempts, "shorter_window") < 2
        BY <2>1, <2>2, <4>1, WindowRungLemma
      <4> QED BY <3>4, <4>2 DEF Single
    <3> QED BY <2>1, <3>1, <3>2, <3>3, <3>4 DEF Follows
  <2>4. next.reason \in Single => \A k \in DOMAIN attempts : attempts[k].reason # next.reason
    <3>1. ASSUME Uses(attempts, next.reason) = 0
          PROVE  \A k \in DOMAIN attempts : attempts[k].reason # next.reason
      <4>1. Count(attempts, {next.reason}) = 0
        BY <3>1, UsesIsCount
      <4> QED BY <1>0, <4>1, CountZero
    <3> QED BY <2>3, <3>1
  <2> QED BY <2>1, <2>3, <2>4 DEF ReasonInv, Settings
<1>4. CASE Claimed
  <2>1. PICK row \in Attempt :
          /\ attempts' = Append(attempts, row) /\ attempts' \in Seq(Attempt)
          /\ row.settings = run.current /\ row.reason = run.reason
          /\ attempts'[Len(attempts) + 1] = row
          /\ DOMAIN attempts' = 1..(Len(attempts) + 1)
          /\ \A k \in DOMAIN attempts : attempts'[k] = attempts[k]
          /\ run.pc = "ready" /\ run'.pc = "waiting"
    BY <1>4 DEF Claimed
  <2>2. \A k \in DOMAIN attempts' : k \in DOMAIN attempts \/ k = Len(attempts) + 1
    BY <1>0, <2>1
  <2>3. ASSUME NEW j \in DOMAIN attempts', NEW k \in DOMAIN attempts',
               attempts'[j].reason = attempts'[k].reason, attempts'[j].reason \in Single
        PROVE  j = k
    <3>1. \A i \in DOMAIN attempts : row.reason \in Single => attempts[i].reason # row.reason
      BY <2>1 DEF ReasonInv
    <3> QED BY <2>1, <2>2, <2>3, <3>1 DEF ReasonInv
  <2>4. Uses(attempts', "shorter_window") <= 2
    <3>1. Uses(attempts', "shorter_window") = Uses(attempts, "shorter_window")
            + (IF row.reason \in {"shorter_window"} THEN 1 ELSE 0)
      BY <1>0, <2>1, UsesIsCount, CountAppend
    <3>2. Uses(attempts, "shorter_window") \in Nat
      BY <1>0, UsesIsCount, CountFinite
    <3>3. row.reason = "shorter_window" => Uses(attempts, "shorter_window") < 2
      BY <2>1 DEF ReasonInv
    <3>4. Uses(attempts, "shorter_window") <= 2
      BY DEF ReasonInv
    <3> QED BY <3>1, <3>2, <3>3, <3>4
  <2>5. \A k \in DOMAIN attempts' :
          attempts'[k].reason = "cpu_fallback" => attempts'[k].settings.device = "cpu"
    BY <2>1, <2>2 DEF ReasonInv, Settings
  <2>6. run'.pc # "ready"
    BY <2>1
  <2> QED BY <2>3, <2>4, <2>5, <2>6 DEF ReasonInv, Settings
<1> QED BY <1>1, <1>2, <1>3, <1>4, StepEffects

LEMMA RepeatStep ==
  ASSUME TypeOK, LoopInv, PermittedInv, RepeatInv, [Next]_vars
  PROVE  RepeatInv'
<1> DEFINE again == {"cleanup_retry", "exact_alignment_retry"}
<1>0. /\ attempts \in Seq(Attempt) /\ Len(attempts) \in Nat
      /\ DOMAIN attempts = 1..Len(attempts)
  BY PlanState, CountFinite
<1>1. CASE Quiet \/ Rewrites
  <2>1. Steady
    BY <1>1, SteadyLemma
  <2>2. \A k \in DOMAIN attempts : /\ attempts'[k].settings = attempts[k].settings
                                   /\ attempts'[k].reason = attempts[k].reason
                                   /\ attempts'[k].gen = attempts[k].gen
    BY <2>1 DEF Steady
  <2>3. /\ DOMAIN attempts' = DOMAIN attempts
        /\ run'.current = run.current /\ run'.reason = run.reason
        /\ run'.pc = "ready" => run.pc = "ready" /\ run'.gen = run.gen /\ attempts' = attempts
    BY <2>1 DEF Steady
  <2>4. ASSUME NEW j \in DOMAIN attempts', NEW k \in DOMAIN attempts', j < k,
               attempts'[j].settings = attempts'[k].settings,
               attempts'[j].gen = attempts'[k].gen
        PROVE  \E i \in (j + 1)..k : attempts'[i].reason \in again
    <3>1. PICK i \in (j + 1)..k : attempts[i].reason \in again
      BY <2>2, <2>3, <2>4 DEF RepeatInv, Settings
    <3>2. i \in DOMAIN attempts
      BY <1>0, <2>3, <2>4
    <3> QED BY <2>2, <3>1, <3>2
  <2> QED BY <2>2, <2>3, <2>4 DEF RepeatInv, Settings
<1>2. CASE Begun
  <2>1. \A j \in DOMAIN attempts : attempts[j].gen # run'.gen
    <3>1. ASSUME NEW j \in DOMAIN attempts PROVE attempts[j].gen # run'.gen
      <4>1. attempts[j].gen < run.gen /\ run'.gen = run.gen
        BY <1>2 DEF Begun, LoopInv
      <4>2. attempts[j] \in Attempt /\ run.gen \in Nat
        BY <1>0, PlanState
      <4>3. attempts[j].gen \in Nat
        BY <4>2 DEF Attempt
      <4> QED BY <4>1, <4>2, <4>3
    <3> QED BY <3>1
  <2> QED BY <1>2, <2>1 DEF Begun, RepeatInv, Settings
<1>3. CASE Chosen
  <2>1. PICK next :
          /\ Follows(plan, Eligible, Latest.code, run.current, attempts, Latest.contended, next)
          /\ attempts' = attempts
          /\ run'.current = next.settings /\ run'.reason = next.reason
    BY <1>3 DEF Chosen
  <2>2. next.reason \notin again => ~Tried(attempts, next.settings)
    BY <2>1 DEF Follows
  <2> QED BY <2>1, <2>2 DEF RepeatInv, Settings, Tried
<1>4. CASE Claimed
  <2>1. PICK row \in Attempt :
          /\ row.settings = run.current /\ row.reason = run.reason /\ row.gen = run.gen
          /\ attempts'[Len(attempts) + 1] = row
          /\ DOMAIN attempts' = 1..(Len(attempts) + 1)
          /\ \A k \in DOMAIN attempts : attempts'[k] = attempts[k]
          /\ run.pc = "ready" /\ run'.pc = "waiting"
    BY <1>4 DEF Claimed
  <2>2. ASSUME NEW j \in DOMAIN attempts', NEW k \in DOMAIN attempts', j < k,
               attempts'[j].settings = attempts'[k].settings,
               attempts'[j].gen = attempts'[k].gen
        PROVE  \E i \in (j + 1)..k : attempts'[i].reason \in again
    <3>1. j \in DOMAIN attempts
      BY <1>0, <2>1, <2>2
    <3>2. CASE k \in DOMAIN attempts
      <4>1. PICK i \in (j + 1)..k : attempts[i].reason \in again
        BY <2>1, <2>2, <3>1, <3>2 DEF RepeatInv, Settings
      <4>2. i \in DOMAIN attempts
        BY <1>0, <3>1, <3>2
      <4> QED BY <2>1, <4>1, <4>2
    <3>3. CASE k = Len(attempts) + 1
      <4>1. attempts[j].settings = run.current /\ attempts[j].gen = run.gen
        BY <2>1, <2>2, <3>1, <3>3
      <4>2. run.reason \in again
        BY <2>1, <3>1, <4>1 DEF RepeatInv, Settings
      <4>3. k \in (j + 1)..k /\ attempts'[k].reason \in again
        BY <1>0, <2>1, <2>2, <3>1, <3>3, <4>2
      <4> QED BY <4>3
    <3> QED BY <1>0, <2>1, <3>2, <3>3
  <2> QED BY <2>1, <2>2 DEF RepeatInv, Settings
<1> QED BY <1>1, <1>2, <1>3, <1>4, StepEffects

-----------------------------------------------------------------------------
(* The retry budget.                                                       *)

LEMMA SpentType ==
  ASSUME NEW h \in Seq(Attempt)
  PROVE  SpentOf(h) \in Nat
<1> DEFINE f == [k \in DOMAIN h |-> h[k].inner]
<1>1. Len(h) \in Nat /\ DOMAIN h = 1..Len(h) /\ Count(h, Rungs) \in Nat
  BY CountFinite
<1>2. \A k \in 1..Len(h) : f[k] \in Nat
  <2>1. \A k \in 1..Len(h) : h[k] \in Attempt
    BY <1>1
  <2> QED BY <1>1, <2>1 DEF Attempt
<1>3. Total(f, Len(h)) \in Nat
  <2> HIDE DEF f
  <2> QED BY <1>1, <1>2, TotalType
<1> QED BY <1>1, <1>3 DEF SpentOf

\* A new attempt spends one retry if a rung has chosen it.
LEMMA SpentAppend ==
  ASSUME NEW h \in Seq(Attempt), NEW row \in Attempt, row.inner = 0
  PROVE  SpentOf(Append(h, row))
           = SpentOf(h) + (IF row.reason \in Rungs THEN 1 ELSE 0)
<1> DEFINE n == Len(h)
           g == Append(h, row)
           f == [k \in DOMAIN h |-> h[k].inner]
           e == [k \in DOMAIN g |-> g[k].inner]
<1>1. /\ DOMAIN g = 1..(n + 1) /\ DOMAIN h = 1..n /\ n \in Nat /\ g[n + 1] = row
      /\ \A k \in 1..n : g[k] = h[k]
      /\ Len(g) = n + 1
  OBVIOUS
<1>2. e[n + 1] = 0 /\ \A k \in 1..n : f[k] = e[k]
  <2> HIDE DEF g, n
  <2>1. n + 1 \in 1..(n + 1) /\ \A k \in 1..n : k \in 1..(n + 1)
    BY <1>1
  <2> QED BY <1>1, <2>1
<1>3. Total(e, n + 1) = Total(f, n)
  <2> HIDE DEF e, f, n
  <2>1. Total(e, n + 1) = Total(e, n) + e[n + 1]
    BY <1>1, TotalStep
  <2>2. Total(f, n) = Total(e, n)
    BY <1>1, <1>2, TotalAgrees
  <2>3. Total(f, n) \in Nat
    <3>1. \A k \in 1..n : f[k] \in Nat
      <4>1. \A k \in 1..n : h[k] \in Attempt
        BY <1>1
      <4> QED BY <1>1, <4>1 DEF Attempt, f
    <3> QED BY <1>1, <3>1, TotalType
  <2> QED BY <1>2, <2>1, <2>2, <2>3
<1>4. Count(g, Rungs) = Count(h, Rungs) + (IF row.reason \in Rungs THEN 1 ELSE 0)
  BY CountAppend
<1>5. SpentOf(g) = Count(g, Rungs) + Total(e, n + 1)
  <2>1. SpentOf(g) = Count(g, Rungs) + Total(e, Len(g))
    BY DEF SpentOf
  <2> QED BY <1>1, <2>1
<1>6. SpentOf(h) = Count(h, Rungs) + Total(f, n)
  BY DEF SpentOf
<1>7. Count(h, Rungs) \in Nat /\ SpentOf(h) \in Nat
  BY CountFinite, SpentType
<1>8. Total(f, n) \in Nat
  <2>1. \A k \in 1..n : f[k] \in Nat
    <3>1. \A k \in 1..n : h[k] \in Attempt
      BY <1>1
    <3> QED BY <1>1, <3>1 DEF Attempt
  <2> HIDE DEF f
  <2> QED BY <1>1, <2>1, TotalType
<1> HIDE DEF e, f, n
<1> QED BY <1>3, <1>4, <1>5, <1>6, <1>7, <1>8

\* The end of an attempt spends what its worker has retried.
LEMMA SpentWith ==
  ASSUME TypeOK, attempts # << >>, NEW row \in Attempt, attempts' = With(row),
         row.reason = Latest.reason, Latest.inner = 0
  PROVE  SpentOf(attempts') = SpentOf(attempts) + row.inner
<1> DEFINE n == Len(attempts)
           f == [k \in DOMAIN attempts |-> attempts[k].inner]
           e == [k \in DOMAIN attempts' |-> attempts'[k].inner]
<1>1. /\ attempts' \in Seq(Attempt) /\ Len(attempts') = n
      /\ n \in DOMAIN attempts /\ DOMAIN attempts' = DOMAIN attempts
      /\ attempts'[n] = row
      /\ \A k \in DOMAIN attempts : k # n => attempts'[k] = attempts[k]
  BY WithLemma, PlanState
<1>2. /\ DOMAIN attempts = 1..n /\ n \in Nat \ {0} /\ attempts[n] = Latest
      /\ attempts \in Seq(Attempt)
  BY LatestType, PlanState DEF Latest
<1>3. /\ f[n] = 0 /\ e[n] = row.inner /\ \A k \in 1..(n - 1) : f[k] = e[k]
  <2>1. \A k \in 1..(n - 1) : k \in 1..n /\ k # n
    <3> HIDE DEF n
    <3> QED BY <1>2
  <2> HIDE DEF n
  <2> QED BY <1>1, <1>2, <2>1
<1>4. \A k \in 1..n : f[k] \in Nat
  <2>1. \A k \in 1..n : attempts[k] \in Attempt
    BY <1>2
  <2> QED BY <1>2, <2>1 DEF Attempt
<1>5. Total(e, n) = Total(f, n) + row.inner /\ Total(f, n) \in Nat
  <2>0. row.inner \in Nat
    BY DEF Attempt
  <2> HIDE DEF e, f, n
  <2> DEFINE m == n - 1
  <2>1. m \in Nat /\ m + 1 = n
    BY <1>2
  <2>2. Total(e, m + 1) = Total(e, m) + e[m + 1] /\ Total(f, m + 1) = Total(f, m) + f[m + 1]
    BY <2>1, TotalStep
  <2>3. Total(f, m) = Total(e, m)
    BY <1>3, <2>1, TotalAgrees
  <2>4. Total(f, m) \in Nat
    <3>1. \A k \in 1..m : f[k] \in Nat
      <4>1. \A k \in 1..m : k \in 1..n
        BY <1>2, <2>1
      <4> QED BY <1>4, <4>1
    <3> QED BY <2>1, <3>1, TotalType
  <2> HIDE DEF m
  <2> QED BY <2>0, <1>3, <2>1, <2>2, <2>3, <2>4
<1>6. Count(attempts', Rungs) = Count(attempts, Rungs)
  <2>1. \A k \in DOMAIN attempts : attempts[k].reason = attempts'[k].reason
    BY <1>1, <1>2
  <2> QED BY <1>1, <1>2, <2>1, CountAgrees
<1>7. SpentOf(attempts') = Count(attempts', Rungs) + Total(e, n)
  <2>1. SpentOf(attempts') = Count(attempts', Rungs) + Total(e, Len(attempts'))
    BY DEF SpentOf
  <2> QED BY <1>1, <2>1
<1>8. SpentOf(attempts) = Count(attempts, Rungs) + Total(f, n)
  BY DEF SpentOf
<1>9. Count(attempts, Rungs) \in Nat /\ row.inner \in Nat
  BY <1>2, CountFinite DEF Attempt
<1> HIDE DEF e, f, n
<1> QED BY <1>5, <1>6, <1>7, <1>8, <1>9

\* What the owner reads of the budget is what is spent, or all of it.
LEMMA UsageRead ==
  ASSUME TypeOK,
         ~plan.retry.strength => \A k \in DOMAIN attempts : attempts[k].inner = 0,
         \A k \in DOMAIN attempts : attempts[k].measured => attempts[k].counted = attempts[k].inner,
         plan.retry.saved
  PROVE  StageRetryUsage(attempts) >= plan.retry.max \/ StageRetryUsage(attempts) = Spent
<1> DEFINE f == [k \in DOMAIN attempts |-> attempts[k].inner]
           e == [k \in DOMAIN attempts |->
                   IF attempts[k].measured THEN attempts[k].counted ELSE 0]
           saved == SavedUsage(attempts)
<1>1. saved \in Nat /\ plan.retry.max \in Nat
  BY SavedUsageType, PlanState
<1>2. CASE plan.retry.strength /\ \E k \in DOMAIN attempts : ~attempts[k].measured
  <2> HIDE DEF saved
  <2>1. StageRetryUsage(attempts) = IF plan.retry.max > saved THEN plan.retry.max ELSE saved
    BY <1>2 DEF StageRetryUsage, saved
  <2> QED BY <1>1, <2>1
<1>3. CASE ~(plan.retry.strength /\ \E k \in DOMAIN attempts : ~attempts[k].measured)
  <2>1. StageRetryUsage(attempts) = saved
    BY <1>3 DEF StageRetryUsage
  <2>2. \A k \in DOMAIN attempts : f[k] = e[k]
    BY <1>3
  <2>3. DOMAIN attempts = 1..Len(attempts) /\ Len(attempts) \in Nat
    BY CountFinite, PlanState
  <2>4. Total(f, Len(attempts)) = Total(e, Len(attempts))
    <3> HIDE DEF e, f
    <3> QED BY <2>2, <2>3, TotalAgrees
  <2>5. saved = Count(attempts, Rungs) + Total(e, Len(attempts))
    BY DEF SavedUsage, Count
  <2>6. Spent = Count(attempts, Rungs) + Total(f, Len(attempts))
    BY DEF Spent, SpentOf
  <2> HIDE DEF e, f, saved
  <2> QED BY <2>1, <2>4, <2>5, <2>6
<1> QED BY <1>2, <1>3

LEMMA BudgetStep ==
  ASSUME TypeOK, LoopInv, PermittedInv, BudgetInv, [Next]_vars
  PROVE  BudgetInv'
<1> SUFFICES ASSUME plan'.retry.saved /\ unread' = 0
             PROVE  /\ Spent' <= plan'.retry.max
                    /\ ~plan'.retry.strength =>
                         \A k \in DOMAIN attempts' : attempts'[k].inner = 0
                    /\ \A k \in DOMAIN attempts' :
                         attempts'[k].measured => attempts'[k].counted = attempts'[k].inner
                    /\ run'.pc = "ready" /\ run'.reason \in Rungs =>
                         Spent' + 1 <= plan'.retry.max
                         /\ (run'.used >= plan'.retry.max \/ run'.used = Spent' + 1)
                    /\ Busy' \/ (run'.pc = "ready" /\ run'.reason \notin Rungs) =>
                         run'.used >= plan'.retry.max \/ run'.used = Spent'
  BY DEF BudgetInv
<1>0. /\ attempts \in Seq(Attempt) /\ Len(attempts) \in Nat
      /\ DOMAIN attempts = 1..Len(attempts)
      /\ plan.retry.max \in Nat /\ Spent \in Nat /\ run.used \in Nat
  BY PlanState, CountFinite, SpentType DEF Spent
<1>1. ASSUME plan.retry.saved, unread = 0
      PROVE  /\ Spent <= plan.retry.max
             /\ ~plan.retry.strength => \A k \in DOMAIN attempts : attempts[k].inner = 0
             /\ \A k \in DOMAIN attempts :
                  attempts[k].measured => attempts[k].counted = attempts[k].inner
             /\ run.pc = "ready" /\ run.reason \in Rungs =>
                  Spent + 1 <= plan.retry.max
                  /\ (run.used >= plan.retry.max \/ run.used = Spent + 1)
             /\ Busy \/ (run.pc = "ready" /\ run.reason \notin Rungs) =>
                  run.used >= plan.retry.max \/ run.used = Spent
  BY <1>1 DEF BudgetInv
<1>2. CASE Quiet
  <2>1. /\ attempts' = attempts /\ plan' = plan /\ unread' = unread
        /\ run'.used = run.used /\ run'.reason = run.reason
        /\ run'.pc \in {"ready", "waiting", "running", "failed"} => run'.pc = run.pc
    BY <1>2 DEF Quiet
  <2>2. Spent' = Spent /\ (Busy' => Busy)
    BY <2>1 DEF Spent, Busy
  <2> QED BY <1>1, <2>1, <2>2
<1>3. CASE Begun
  <2>1. /\ attempts' = attempts /\ plan' = plan /\ unread' = unread /\ run'.pc = "ready"
        /\ run'.used = StageRetryUsage(attempts) /\ run'.reason \notin Rungs
    BY <1>3 DEF Begun, Rungs
  <2>2. Spent' = Spent /\ ~Busy'
    BY <2>1 DEF Spent, Busy
  <2>3. run'.used >= plan.retry.max \/ run'.used = Spent
    BY <1>1, <2>1, UsageRead
  <2> QED BY <1>1, <2>1, <2>2, <2>3
<1>4. CASE Chosen
  <2>1. /\ attempts' = attempts /\ plan' = plan /\ unread' = unread
        /\ run'.pc = "ready" /\ run.pc = "failed"
        /\ run'.used = run.used + 1 /\ run'.reason \in Rungs /\ RetryAllowed(run.used)
    BY <1>4 DEF Chosen, Follows, Rungs
  <2>2. Spent' = Spent /\ ~Busy' /\ Busy
    BY <2>1 DEF Spent, Busy
  <2>3. run.used < plan.retry.max
    BY <2>1 DEF RetryAllowed
  <2>4. run.used = Spent
    BY <1>0, <1>1, <2>1, <2>2, <2>3
  <2> QED BY <1>0, <1>1, <2>1, <2>2, <2>3, <2>4
<1>5. CASE Claimed
  <2>1. PICK row \in Attempt :
          /\ attempts' = Append(attempts, row)
          /\ row.reason = run.reason /\ row.inner = 0 /\ ~row.measured
          /\ attempts'[Len(attempts) + 1] = row
          /\ DOMAIN attempts' = 1..(Len(attempts) + 1)
          /\ \A k \in DOMAIN attempts : attempts'[k] = attempts[k]
          /\ run.pc = "ready" /\ run'.pc = "waiting" /\ plan' = plan /\ unread' = unread
          /\ run'.used = run.used
    BY <1>5 DEF Claimed
  <2>2. Spent' = Spent + (IF run.reason \in Rungs THEN 1 ELSE 0)
    BY <1>0, <2>1, SpentAppend DEF Spent
  <2>3. \A k \in DOMAIN attempts' : k \in DOMAIN attempts \/ k = Len(attempts) + 1
    BY <1>0, <2>1
  <2>4. /\ ~plan.retry.strength => \A k \in DOMAIN attempts' : attempts'[k].inner = 0
        /\ \A k \in DOMAIN attempts' :
             attempts'[k].measured => attempts'[k].counted = attempts'[k].inner
    BY <1>1, <2>1, <2>3
  <2>5. /\ Spent' <= plan.retry.max
        /\ run'.used >= plan.retry.max \/ run'.used = Spent'
    <3>1. CASE run.reason \in Rungs
      BY <1>0, <1>1, <2>1, <2>2, <3>1
    <3>2. CASE run.reason \notin Rungs
      BY <1>0, <1>1, <2>1, <2>2, <3>2
    <3> QED BY <3>1, <3>2
  <2> QED BY <2>1, <2>4, <2>5
<1>6. CASE Rewrites
  <2>1. PICK row \in Attempt :
          /\ attempts # << >> /\ attempts' = With(row) /\ plan' = plan
          /\ row.reason = Latest.reason
          /\ row.inner \in InnerRetries /\ Latest.inner = 0
          /\ unread = 0
          /\ row.measured => row.counted = row.inner
          /\ run.pc \in {"waiting", "running"}
          /\ \/ run'.pc \in {"over", "done", "down"}
             \/ run'.pc = "running" /\ run'.used = run.used /\ row.inner = 0
             \/ run'.pc = "failed" /\ run'.used = run.used + row.inner
    BY <1>6 DEF Rewrites
  <2>2. Spent' = Spent + row.inner
    BY <2>1, SpentWith DEF Spent
  <2>3. row.inner \in Nat /\ row.inner <= Remaining(run.used)
    BY <2>1, RemainingType
  <2>4. /\ ~plan.retry.strength => row.inner = 0
        /\ run.used >= plan.retry.max => row.inner = 0
        /\ run.used < plan.retry.max => row.inner <= plan.retry.max - run.used
    <3>1. \/ Remaining(run.used) = 0
          \/ /\ Remaining(run.used) = plan.retry.max - run.used
             /\ plan.retry.strength /\ ~(run.used >= plan.retry.max)
      BY DEF Remaining
    <3> QED BY <1>0, <2>3, <3>1
  <2>5. run.used >= plan.retry.max \/ run.used = Spent
    <3>1. Busy
      BY <2>1 DEF Busy
    <3> QED BY <1>1, <2>1, <3>1
  <2>6. Spent' <= plan.retry.max
    BY <1>0, <1>1, <2>1, <2>2, <2>3, <2>4, <2>5
  <2>7. /\ attempts'[Len(attempts)] = row /\ DOMAIN attempts' = DOMAIN attempts
        /\ \A k \in DOMAIN attempts : k # Len(attempts) => attempts'[k] = attempts[k]
    BY <1>0, <2>1, WithLemma
  <2>8. /\ ~plan.retry.strength => \A k \in DOMAIN attempts' : attempts'[k].inner = 0
        /\ \A k \in DOMAIN attempts' :
             attempts'[k].measured => attempts'[k].counted = attempts'[k].inner
    BY <1>1, <2>1, <2>4, <2>7
  <2>9. run'.pc \in {"running", "failed"} => run'.used >= plan.retry.max \/ run'.used = Spent'
    BY <1>0, <2>1, <2>2, <2>3, <2>4, <2>5
  <2>10. run'.pc # "ready" /\ (Busy' => run'.pc \in {"running", "failed"})
    BY <2>1 DEF Busy
  <2> QED BY <2>1, <2>6, <2>8, <2>9, <2>10
<1> QED BY <1>2, <1>3, <1>4, <1>5, <1>6, StepEffects

-----------------------------------------------------------------------------
(* The theorems.                                                           *)

LEMMA LadderInit == Init => IInv
<1> SUFFICES ASSUME Init PROVE IInv
  OBVIOUS
<1>1. /\ plan \in Plans /\ attempts = << >> /\ unread = 0
      /\ run = [pc |-> "idle", gen |-> 1, current |-> plan.original, reason |-> "initial",
                used |-> 0, blind |-> FALSE, stopped |-> FALSE]
  BY DEF Init
<1>2. DOMAIN attempts = {} /\ attempts \in Seq(Attempt) /\ Len(attempts) = 0
  BY <1>1
<1>3. TypeOK
  <2>1. plan.original \in SettingsRow
    BY <1>1, PlanTypes
  <2> QED BY <1>1, <1>2, <2>1 DEF TypeOK, Run, Reasons
<1>4. LoopInv
  BY <1>1, <1>2 DEF LoopInv, Busy
<1>5. PermittedInv
  BY <1>1, <1>2 DEF PermittedInv, Permitted
<1>6. DescentInv
  BY <1>1, <1>2 DEF DescentInv, Later
<1>7. ReasonInv
  <2>1. Uses(attempts, "shorter_window") = 0
    <3>1. {k \in DOMAIN attempts : attempts[k].reason = "shorter_window"} = {}
      BY <1>2
    <3> QED BY <3>1, FS_EmptySet DEF Uses
  <2> QED BY <1>1, <1>2, <2>1 DEF ReasonInv
<1>8. RepeatInv
  BY <1>1, <1>2 DEF RepeatInv
<1>9. BudgetInv
  <2>1. Spent = 0
    <3>1. {k \in DOMAIN attempts : attempts[k].reason \in Rungs} = {}
      BY <1>2
    <3>2. Count(attempts, Rungs) = 0
      BY <3>1, FS_EmptySet DEF Count
    <3> QED BY <1>2, <3>2, TotalZero DEF Spent, SpentOf
  <2>2. plan.retry.max \in Nat
    BY <1>3, PlanState
  <2> QED BY <1>1, <1>2, <2>1, <2>2 DEF BudgetInv, Busy
<1> QED BY <1>3, <1>4, <1>5, <1>6, <1>7, <1>8, <1>9 DEF IInv

\* The invariant behind the properties of the ladder: what the loop keeps of the
\* last attempt, what the plan permits, and what the attempts have spent.
THEOREM LadderInvariant == Spec => []IInv
<1>1. IInv /\ [Next]_vars => IInv'
  BY TypeStep, LoopStep, PermittedStep, DescentStep, ReasonStep, RepeatStep, BudgetStep
     DEF IInv
<1> QED BY <1>1, LadderInit, PTL DEF Spec

\* Every attempt of runRecoverableStage runs settings the plan permits, whatever
\* fails, stops or resumes; and settings that were run may be learned.
THEOREM PermittedSettingsOnly == Spec => []OnlyPermittedSettings
<1>1. IInv => OnlyPermittedSettings
  <2> SUFFICES ASSUME IInv PROVE OnlyPermittedSettings
    OBVIOUS
  <2>1. TypeOK
    BY DEF IInv
  <2>2. ASSUME NEW k \in DOMAIN attempts
        PROVE  /\ Permitted(plan, Settings(k))
               /\ Learnable(plan) => CandidateAllowed(plan, Settings(k))
    <3>1. Settings(k) \in SettingsRow /\ plan \in Plans
      <4>1. attempts[k] \in Attempt /\ plan \in Plans
        BY <2>1, PlanState
      <4> QED BY <4>1 DEF Attempt, Settings
    <3>2. Permitted(plan, Settings(k))
      BY DEF IInv, PermittedInv
    <3> QED BY <3>1, <3>2, PermittedIsLearnable
  <2> QED BY <2>1, <2>2 DEF OnlyPermittedSettings
<1> QED BY <1>1, LadderInvariant, PTL

\* The attempts of a stage lead down the ladder in the order of its plan, over all
\* failures and resumes.
THEOREM AttemptsLeadDown == Spec => []LadderDescends
<1>1. IInv => LadderDescends
  <2> SUFFICES ASSUME IInv, NEW k \in Later
               PROVE  LET a == Settings(k - 1)
                          b == Settings(k)
                          last   == attempts[k - 1]
                          before == SubSeq(attempts, 1, k - 1)
                          sameOwner == attempts[k].gen = last.gen
                      IN  /\ b.batch <= a.batch
                          /\ a.window > 0 => b.window > 0 /\ b.window <= a.window
                          /\ a.device = "cpu" /\ b.device = "cuda" =>
                               /\ b.window # a.window
                               /\ b.precision = plan.original.precision
                          /\ last.contended /\ sameOwner => b = a
                          /\ attempts[k].reason = "cpu_fallback" /\ plan.mode = "aggressive"
                               /\ last.code = "cuda_out_of_memory" /\ sameOwner
                               => \/ Uses(before, "shorter_window") = 2
                                  \/ ShorterThan(a.window) = {}
                          /\ attempts[k].reason = "shorter_window"
                               /\ plan.mode # "aggressive"
                               /\ a.device = "cuda" /\ CpuGranted(plan) /\ sameOwner
                               => \E j \in 1..(k - 1) : Settings(j).device = "cpu"
    BY DEF LadderDescends
  <2> DEFINE before == SubSeq(attempts, 1, k - 1)
  <2>1. /\ attempts \in Seq(Attempt) /\ Len(attempts) \in Nat
        /\ DOMAIN attempts = 1..Len(attempts)
    BY PlanState, CountFinite DEF IInv
  <2>2. /\ k - 1 \in Nat \ {0} /\ k - 1 <= Len(attempts)
        /\ Len(before) = k - 1 /\ DOMAIN before = 1..(k - 1)
        /\ \A j \in 1..(k - 1) : before[j] = attempts[j]
    BY <2>1 DEF Later
  <2>3. before[Len(before)] = attempts[k - 1]
    <3> HIDE DEF before
    <3>1. k - 1 \in 1..(k - 1)
      BY <2>1, <2>2 DEF Later
    <3> QED BY <2>2, <3>1
  <2>4. Descent(plan, before, attempts[k].settings, attempts[k].reason, attempts[k].gen)
    BY DEF IInv, DescentInv
  <2>5. ShorterThan(Settings(k - 1).window) = ShorterOf(plan, Settings(k - 1).window)
    BY DEF ShorterThan, ShorterOf
  <2> DEFINE a == Settings(k - 1)
             b == Settings(k)
             last == attempts[k - 1]
             sameOwner == attempts[k].gen = last.gen
  <2>6. a = last.settings /\ b = attempts[k].settings
    BY DEF Settings
  <2>7. (\E j \in DOMAIN before : before[j].settings.device = "cpu")
          => \E j \in 1..(k - 1) : Settings(j).device = "cpu"
    <3> HIDE DEF before
    <3> QED BY <2>2 DEF Settings
  <2> HIDE DEF before, a, b, last
  <2>8. /\ b.batch <= a.batch
        /\ Narrower(a, b)
        /\ a.device = "cpu" /\ b.device = "cuda" =>
             b.window # a.window /\ b.precision = plan.original.precision
        /\ last.contended /\ sameOwner => b = a
    BY <2>3, <2>4, <2>6 DEF Descent, last
  <2>9. /\ attempts[k].reason = "cpu_fallback" /\ plan.mode = "aggressive"
             /\ last.code = "cuda_out_of_memory" /\ sameOwner
             => Uses(before, "shorter_window") = 2 \/ ShorterOf(plan, a.window) = {}
        /\ attempts[k].reason = "shorter_window" /\ plan.mode # "aggressive"
             /\ a.device = "cuda" /\ CpuGranted(plan) /\ sameOwner
             => \E j \in DOMAIN before : before[j].settings.device = "cpu"
    BY <2>3, <2>4, <2>6 DEF Descent, last
  <2>10. a.window > 0 => b.window > 0 /\ b.window <= a.window
    BY <2>8 DEF Narrower
  <2>11. ShorterThan(a.window) = ShorterOf(plan, a.window)
    BY <2>5 DEF a
  <2> QED BY <2>7, <2>8, <2>9, <2>10, <2>11 DEF before, a, b, last
<1> QED BY <1>1, LadderInvariant, PTL

\* Settings are repeated only as the one cleanup retry or the one exact retry of an
\* aligner, and the CPU is turned to once.
THEOREM RepeatsAreEarned == Spec => []NothingRepeatedInVain
<1>1. IInv => NothingRepeatedInVain
  <2> SUFFICES ASSUME IInv PROVE NothingRepeatedInVain
    OBVIOUS
  <2>1. ASSUME NEW reason \in Single PROVE Uses(attempts, reason) <= 1
    <3>1. attempts \in Seq(Attempt)
      BY PlanState DEF IInv
    <3>2. \A j, k \in DOMAIN attempts :
            attempts[j].reason \in {reason} /\ attempts[k].reason \in {reason} => j = k
      BY DEF IInv, ReasonInv
    <3> QED BY <3>1, <3>2, CountOne, UsesIsCount
  <2> QED BY <2>1 DEF IInv, RepeatInv, NothingRepeatedInVain, Single
<1> QED BY <1>1, LadderInvariant, PTL

\* The retries of the coordinator and of its workers stay within the one budget of
\* the stage as long as every worker's log can be read, over crashes and resumes.
THEOREM BudgetIsShared == Spec => []RetriesWithinBudget
<1>1. IInv => RetriesWithinBudget
  <2> SUFFICES ASSUME IInv, unread = 0, plan.retry.saved
               PROVE  Spent <= plan.retry.max
    BY DEF RetriesWithinBudget, NoFreshBudget, Spent, SpentOf, Count
  <2> QED BY DEF IInv, BudgetInv
<1> QED BY <1>1, LadderInvariant, PTL
=============================================================================
