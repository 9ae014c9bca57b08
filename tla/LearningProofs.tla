--------------------------- MODULE LearningProofs ---------------------------
(***************************************************************************)
(* Proofs about AdaptiveLearning, for every number of runs and recordings, *)
(* every ladder, any bounds and any measurements a plan needs:             *)
(*                                                                         *)
(*   SelectionsAreAlwaysEarned   a scope has one selection, and earned it  *)
(*   RunsUseTheirEvidence        a run uses what its own settings measured *)
(*   LearningStays               what is learned is replaced, not lost     *)
(*                                                                         *)
(* All three come from one inductive invariant, IInv.  Its heart is that   *)
(* the generation only grows and that what a stored fact names is never    *)
(* rewritten (Grows): an observation carries the revision, generation and  *)
(* scope of a run that keeps them (ObservedInv), a plan is older than the  *)
(* profile's generation (PlansInv), nothing is selected at a generation    *)
(* that is not begun (SelectedInv), a revision is saved once (SavedInv),   *)
(* and two runs of one generation share an epoch (RunsInv).                *)
(***************************************************************************)
EXTENDS LearningProperties, FiniteSetTheorems, TLAPS

-----------------------------------------------------------------------------
(* The inductive invariant. *)

\* Past its admission a run's snapshot is fixed.
Admitted(e) == runs[e].state \in {"admitted", "cancelled"}

\* What the variables hold, in full.
SelectionType == [revision : Nat, generation : Nat, scope : Contexts, plan : plans]
RunType ==
    [state : {"new", "admitting", "admitted", "cancelled"}, parameters : Parameters,
     context : Contexts, revision : Nat, generation : Nat, learned : SUBSET plans,
     owner : Nat, epoch : Nat]
StageType ==
    [state : {"none", "running", "appended", "done"}, at : DOMAIN Ladder,
     attempts : Nat, start : SUBSET plans]
ObservationType ==
    [execution : Executions, stage : UNION {StagesOf[e] : e \in Executions},
     revision : Nat, generation : Nat, owner : Nat, scope : Contexts, candidate : Candidate,
     outcome : {"succeeded", "out_of_memory"}, quality : UNION {Qualities[e] : e \in Executions}]

Typed ==
    /\ TypeOK
    /\ runs \in [Executions -> RunType]
    /\ DOMAIN stages = Executions
    /\ \A e \in Executions : stages[e] \in [StagesOf[e] -> StageType]
    /\ observations \subseteq ObservationType /\ IsFiniteSet(observations)
    /\ selections \subseteq SelectionType

\* An observation is of a run that still is what it was when it was observed.
ObservedInv ==
    \A o \in observations :
        /\ Admitted(o.execution)
        /\ o.revision = runs[o.execution].revision
        /\ o.generation = runs[o.execution].generation
        /\ o.scope = runs[o.execution].context

\* What a finished attempt that goes on to promote has measured.
Success(e, s) == {Observation(e, s, "succeeded", q) : q \in {"clean", "contended"}}

\* A finished attempt that is to promote is stored, under the present owner.
AppendedInv ==
    \A e \in Executions : \A s \in StagesOf[e] :
        stages[e][s].state = "appended" =>
            Success(e, s) \cap observations # {}

\* What a plan must show.
Earned(p) ==
    /\ Cardinality({<<o.execution, o.stage>> : o \in p.evidence}) >= Measurements
    /\ Cardinality({RecordingOf[o.execution] : o \in p.evidence}) >= 2
    /\ \A o \in p.evidence :
        /\ o.outcome = "succeeded" /\ o.quality = "clean"
        /\ o.candidate = p.candidate /\ o.scope = p.scope
        /\ o.revision = p.revision /\ o.generation = p.generation
    /\ p.candidate \notin FullWindow =>
        \E o \in observations :
            /\ o.outcome = "succeeded" /\ o.quality \in {"clean", "contended"}
            /\ o.candidate = p.candidate /\ o.scope = p.scope
            /\ \A f \in FullWindow : \E x \in p.exhaustion :
                /\ x.execution = o.execution /\ x.stage = o.stage
                /\ x.candidate = f /\ x.outcome = "out_of_memory"

\* Every plan was earned, at a generation that has passed.
PlansInv == \A p \in plans : Earned(p) /\ p.generation < profile.generation

\* Nothing is selected beyond the present generation; what is selected at it is
\* one plan for each scope, of measurements that the owner has not discarded.
SelectedInv ==
    /\ \A c \in selections : c.generation <= profile.generation
    /\ \A c, d \in Current : c.scope = d.scope => c = d
    /\ \A c \in Current : \A o \in c.plan.evidence : runs[o.execution].epoch = epoch

\* A frozen candidate is that of a plan known for the very settings it runs with.
Backed(parameters, known) ==
    parameters.fixed # None =>
        /\ parameters.context # Inherited
        /\ \E p \in known : p.candidate = parameters.fixed /\ p.scope = parameters.context

\* A revision is saved at most once, with what the profile then was.
SavedInv ==
    /\ \A r \in 1..MaxRevision : r > profile.revision => saved[r] = None
    /\ saved[profile.revision] \in {None, profile.parameters}
    /\ \A r \in 1..MaxRevision : saved[r] # None => Backed(saved[r], plans)
    /\ Backed(profile.parameters, plans)

\* An admission under way read what its revision holds; a run that is admitted
\* kept it, and at one generation all runs share an epoch.
RunsInv ==
    \A e \in Executions :
        /\ runs[e].state = "admitting" =>
            /\ runs[e].revision <= profile.revision
            /\ runs[e].revision = profile.revision => runs[e].parameters = profile.parameters
        /\ Admitted(e) =>
            /\ runs[e].revision \in 1..profile.revision
            /\ runs[e].generation \in 1..profile.generation
            /\ saved[runs[e].revision] = runs[e].parameters
            /\ runs[e].generation = profile.generation => runs[e].epoch = epoch
            /\ \A p \in runs[e].learned : \A o \in p.evidence :
                runs[o.execution].epoch = runs[e].epoch

\* A stage starts with a plan for its own settings.
StartsInv ==
    \A e \in Executions : \A s \in StagesOf[e] : \A p \in stages[e][s].start :
        Admitted(e) /\ p.scope = runs[e].context

IInv ==
    /\ Typed
    /\ ObservedInv /\ AppendedInv /\ PlansInv /\ SelectedInv
    /\ SavedInv /\ RunsInv /\ StartsInv

-----------------------------------------------------------------------------

(* Only more is ever known. *)

\* What a step leaves of an admitted run.
Constant(e) ==
    /\ Admitted(e)'
    /\ runs'[e].parameters = runs[e].parameters /\ runs'[e].context = runs[e].context
    /\ runs'[e].revision = runs[e].revision /\ runs'[e].generation = runs[e].generation
    /\ runs'[e].learned = runs[e].learned /\ runs'[e].epoch = runs[e].epoch

Grows ==
    /\ observations \subseteq observations' /\ plans \subseteq plans'
    /\ selections \subseteq selections'
    /\ \A e \in Executions : Admitted(e) => Constant(e)

\* Nothing that a stored fact names is ever taken back or rewritten.
LEMMA StepGrows == Typed /\ [Next]_vars => Grows
<1> SUFFICES ASSUME Typed, [Next]_vars PROVE Grows
  OBVIOUS
<1> USE DEF Typed, RunType
<1>1. CASE UNCHANGED vars
  BY <1>1 DEF vars, Grows, Constant, Admitted
<1>2. CASE OwnerStep
  BY <1>2 DEF OwnerStep, Reset, Update, Freeze, Restore, SetDefaults, NewRevision,
    Grows, Constant, Admitted
<1>3. ASSUME NEW e \in Executions, RunStep(e) PROVE Grows
  <2>1. CASE ReadProfile(e)
    BY <2>1 DEF ReadProfile, Grows, Constant, Admitted
  <2>2. CASE SnapshotAtAdmission(e)
    BY <2>2 DEF SnapshotAtAdmission, Grows, Constant, Admitted
  <2>3. CASE RefuseAdmission(e)
    BY <2>3 DEF RefuseAdmission, Grows, Constant, Admitted
  <2>4. CASE Cancel(e)
    BY <2>4 DEF Cancel, Grows, Constant, Admitted
  <2>5. CASE Resume(e)
    BY <2>5 DEF Resume, Grows, Constant, Admitted
  <2>6. ASSUME NEW s \in StagesOf[e], StageStep(e, s) PROVE Grows
    BY <2>6 DEF StageStep, StartStage, AttemptSucceeds, AttemptFails, AppendObservation,
      Promote, Grows, Constant, Admitted
  <2> QED BY <1>3, <2>1, <2>2, <2>3, <2>4, <2>5, <2>6 DEF RunStep
<1> QED BY <1>1, <1>2, <1>3 DEF Next

-----------------------------------------------------------------------------
(* Types. *)

LEMMA LadderDomain ==
    /\ DOMAIN Ladder = 1..Len(Ladder) /\ Len(Ladder) \in Nat /\ 1 \in DOMAIN Ladder
    /\ \A i \in DOMAIN Ladder : Ladder[i] \in Candidate
    /\ \A c \in Candidate : Rung(c) \in DOMAIN Ladder /\ Ladder[Rung(c)] = c
<1>1. Ladder \in Seq(Candidate) /\ Ladder # <<>>
  BY LearningAssumption DEF LearningAssumption
<1>2. DOMAIN Ladder = 1..Len(Ladder) /\ Len(Ladder) \in Nat /\ 1 \in DOMAIN Ladder
  BY <1>1
<1>3. \A i \in DOMAIN Ladder : Ladder[i] \in Candidate
  BY DEF Candidate
<1>4. \A c \in Candidate : Rung(c) \in DOMAIN Ladder /\ Ladder[Rung(c)] = c
  BY DEF Candidate, Rung
<1> QED BY <1>2, <1>3, <1>4

LEMMA TypesGrow ==
    ASSUME plans \subseteq plans', observations \subseteq observations'
    PROVE  /\ RunType \subseteq RunType' /\ StageType \subseteq StageType'
           /\ SelectionType \subseteq SelectionType' /\ Plan \subseteq Plan'
<1>1. SUBSET plans \subseteq SUBSET plans' /\ SUBSET observations \subseteq SUBSET observations'
  OBVIOUS
<1>2. RunType \subseteq RunType'
  BY <1>1 DEF RunType
<1>3. StageType \subseteq StageType'
  BY <1>1 DEF StageType
<1>4. SelectionType \subseteq SelectionType'
  BY DEF SelectionType
<1>5. Plan \subseteq Plan'
  BY <1>1 DEF Plan
<1> QED BY <1>2, <1>3, <1>4, <1>5

\* One run, or one stage, is all that a step of a run changes there.
LEMMA RunsTyped ==
    ASSUME Typed, Grows, NEW e \in Executions, NEW r \in RunType',
           runs' = [runs EXCEPT ![e] = r]
    PROVE  runs' \in [Executions -> RunType']
<1>1. RunType \subseteq RunType'
  BY TypesGrow DEF Grows
<1> QED BY <1>1 DEF Typed

LEMMA StagesTyped ==
    ASSUME Typed, Grows, NEW e \in Executions, NEW f \in [StagesOf[e] -> StageType'],
           stages' = [stages EXCEPT ![e] = f]
    PROVE  /\ DOMAIN stages' = Executions
           /\ \A d \in Executions : stages'[d] \in [StagesOf[d] -> StageType']
<1>1. StageType \subseteq StageType'
  BY TypesGrow DEF Grows
<1> QED BY <1>1 DEF Typed

LEMMA StageTyped ==
    ASSUME Typed, Grows, NEW e \in Executions, NEW s \in StagesOf[e], NEW v \in StageType',
           stages' = [stages EXCEPT ![e][s] = v]
    PROVE  /\ DOMAIN stages' = Executions
           /\ \A d \in Executions : stages'[d] \in [StagesOf[d] -> StageType']
<1>1. StageType \subseteq StageType'
  BY TypesGrow DEF Grows
<1>2. [stages[e] EXCEPT ![s] = v] \in [StagesOf[e] -> StageType']
  BY <1>1 DEF Typed
<1>3. stages' = [stages EXCEPT ![e] = [stages[e] EXCEPT ![s] = v]]
  OBVIOUS
<1> QED BY <1>2, <1>3, StagesTyped

LEMMA RunsKeptTyped ==
    ASSUME Typed, Grows, UNCHANGED runs
    PROVE  runs' \in [Executions -> RunType']
BY TypesGrow DEF Grows, Typed

LEMMA StagesKeptTyped ==
    ASSUME Typed, Grows, UNCHANGED stages
    PROVE  /\ DOMAIN stages' = Executions
           /\ \A d \in Executions : stages'[d] \in [StagesOf[d] -> StageType']
BY TypesGrow DEF Grows, Typed

\* The parts of the types that the steps of runs and of the owner disturb apart.
RowTyped ==
    /\ profile \in [revision : 1..MaxRevision, generation : 1..MaxGeneration,
                    parameters : Parameters]
    /\ inherited \in Contexts /\ epoch \in Nat
    /\ saved \in [1..MaxRevision -> Parameters \cup {None}]

EvidenceTyped ==
    /\ \A o \in observations : o.execution \in Executions /\ o.stage \in StagesOf[o.execution]
    /\ observations \subseteq ObservationType /\ IsFiniteSet(observations)

LearnedTyped ==
    /\ \A p \in plans : p \in Plan
    /\ \A c \in selections : c.plan \in plans /\ c.scope = c.plan.scope
    /\ selections \subseteq SelectionType

LEMMA TypedParts ==
    Typed <=> /\ RowTyped /\ EvidenceTyped /\ LearnedTyped
              /\ runs \in [Executions -> RunType]
              /\ DOMAIN stages = Executions
              /\ \A e \in Executions : stages[e] \in [StagesOf[e] -> StageType]
BY DEF Typed, TypeOK, RowTyped, EvidenceTyped, LearnedTyped

LEMMA LearnedKeptTyped ==
    ASSUME Typed, Grows, UNCHANGED <<plans, selections>>
    PROVE  LearnedTyped'
<1>1. Plan \subseteq Plan' /\ SelectionType \subseteq SelectionType'
  BY TypesGrow DEF Grows
<1> QED BY <1>1, TypedParts DEF LearnedTyped

LEMMA EvidenceKeptTyped ==
    ASSUME Typed, UNCHANGED observations PROVE EvidenceTyped'
BY TypedParts DEF EvidenceTyped, ObservationType

LEMMA RowKeptTyped ==
    ASSUME Typed, UNCHANGED <<profile, inherited, saved, epoch>> PROVE RowTyped'
BY TypedParts DEF RowTyped

LEMMA ObservationTyped ==
    ASSUME Typed, NEW e \in Executions, NEW s \in StagesOf[e], NEW q \in Qualities[e],
           NEW outcome \in {"succeeded", "out_of_memory"}
    PROVE  /\ Observation(e, s, outcome, q) \in ObservationType
           /\ Observation(e, s, outcome, q).execution = e
           /\ Observation(e, s, outcome, q).stage = s
<1>1. runs[e] \in RunType
  BY DEF Typed
<1>2. stages[e][s] \in StageType
  BY DEF Typed
<1>3. Ladder[stages[e][s].at] \in Candidate
  BY <1>2, LadderDomain DEF StageType
<1>4. s \in UNION {StagesOf[d] : d \in Executions} /\ q \in UNION {Qualities[d] : d \in Executions}
  OBVIOUS
<1> QED BY <1>1, <1>3, <1>4 DEF Observation, ObservationType, RunType

LEMMA AppendTyped ==
    ASSUME Typed, NEW e \in Executions, NEW s \in StagesOf[e], NEW q \in Qualities[e],
           NEW outcome \in {"succeeded", "out_of_memory"},
           AppendObservation(e, s, outcome, q)
    PROVE  EvidenceTyped'
<1> DEFINE o == Observation(e, s, outcome, q)
<1>1. o \in ObservationType /\ o.execution = e /\ o.stage = s
  BY ObservationTyped
<1>2. EvidenceTyped
  BY TypedParts
<1>3. observations' = observations \/ observations' = observations \cup {o}
  BY DEF AppendObservation
<1>4. IsFiniteSet(observations \cup {o})
  BY <1>2, FS_AddElement DEF EvidenceTyped
<1>5. ObservationType' = ObservationType
  BY DEF ObservationType
<1> HIDE DEF o
<1> QED BY <1>1, <1>2, <1>3, <1>4, <1>5 DEF EvidenceTyped

\* What a finished attempt proposes is made of what is stored.
LEMMA ProposalTyped ==
    ASSUME Typed, NEW e \in Executions, NEW s \in StagesOf[e]
    PROVE  LET p == Proposal(e, s)
           IN /\ p \in Plan
              /\ p.revision = profile.revision /\ p.generation = profile.generation
              /\ p.scope = runs[e].context /\ p.candidate = Ladder[stages[e][s].at]
              /\ p.evidence = Qualified(p.scope, p.candidate)
              /\ p.candidate \notin FullWindow => p.exhaustion = Exhaustion(e, s)
<1>1. runs[e].context \in Contexts
  BY DEF Typed, RunType
<1>2. Ladder[stages[e][s].at] \in Candidate
  BY LadderDomain DEF Typed, StageType
<1>3. profile.revision \in 1..MaxRevision /\ profile.generation \in 1..MaxGeneration
  BY DEF Typed, TypeOK
<1>4. /\ Qualified(runs[e].context, Ladder[stages[e][s].at]) \subseteq observations
      /\ Exhaustion(e, s) \subseteq observations
  BY DEF Qualified, Observed, Exhaustion
<1> QED BY <1>1, <1>2, <1>3, <1>4 DEF Proposal, Plan

LEMMA NewRevisionTyped ==
    ASSUME Typed, NEW P \in Parameters, NewRevision(P)
    PROVE  /\ profile' \in [revision : 1..MaxRevision, generation : 1..MaxGeneration,
                            parameters : Parameters]
           /\ profile'.revision = profile.revision + 1
           /\ profile'.generation = profile.generation + 1
           /\ profile'.parameters = P
           /\ saved' \in [1..MaxRevision -> Parameters \cup {None}]
           /\ saved'[profile.revision] = IF saved[profile.revision] = None
                                           THEN profile.parameters ELSE saved[profile.revision]
           /\ saved'[profile.revision + 1] = IF saved[profile.revision + 1] = None
                                               THEN P ELSE saved[profile.revision + 1]
           /\ \A r \in 1..MaxRevision : r \notin {profile.revision, profile.revision + 1} =>
                saved'[r] = saved[r]
<1> DEFINE n == profile.revision
           table == SaveRevision(saved, n, profile.parameters)
<1>1. /\ n \in 1..MaxRevision /\ profile.generation \in 1..MaxGeneration
      /\ profile.parameters \in Parameters
      /\ saved \in [1..MaxRevision -> Parameters \cup {None}]
  BY DEF Typed, TypeOK
<1>2. n < MaxRevision /\ profile.generation < MaxGeneration
  BY DEF NewRevision
<1>3. n + 1 \in 1..MaxRevision /\ profile.generation + 1 \in 1..MaxGeneration /\ n + 1 # n
  BY <1>1, <1>2, LearningAssumption DEF LearningAssumption
<1>4. profile' = [revision |-> n + 1, generation |-> profile.generation + 1, parameters |-> P]
  BY DEF NewRevision
<1>5. saved' = SaveRevision(table, n + 1, P)
  BY DEF NewRevision
<1>6. /\ table \in [1..MaxRevision -> Parameters \cup {None}]
      /\ table[n] = IF saved[n] = None THEN profile.parameters ELSE saved[n]
      /\ \A r \in 1..MaxRevision : r # n => table[r] = saved[r]
  BY <1>1 DEF SaveRevision
<1> HIDE DEF table
<1>7. /\ saved' \in [1..MaxRevision -> Parameters \cup {None}]
      /\ saved'[n + 1] = IF table[n + 1] = None THEN P ELSE table[n + 1]
      /\ \A r \in 1..MaxRevision : r # n + 1 => saved'[r] = table[r]
  BY <1>3, <1>5, <1>6 DEF SaveRevision
<1> QED BY <1>1, <1>3, <1>4, <1>6, <1>7

\* What the owner may set a profile to.
LEMMA OwnerSets ==
    ASSUME Typed
    PROVE  /\ \A c \in Edits : Learning(c) \in Parameters /\ NotLearning(c) \in Parameters
           /\ profile.parameters \in Parameters
           /\ \A c \in selections : \A o \in c.plan.evidence : Materialized(c.plan, o) \in Parameters
           /\ \A r \in 1..MaxRevision : saved[r] # None => saved[r] \in Parameters
<1>1. \A c \in Edits : Learning(c) \in Parameters /\ NotLearning(c) \in Parameters
  BY LearningAssumption DEF LearningAssumption, Learning, NotLearning, Parameters
<1>2. profile.parameters \in Parameters
  BY DEF Typed, TypeOK
<1>3. \A r \in 1..MaxRevision : saved[r] # None => saved[r] \in Parameters
  BY DEF Typed, TypeOK
<1>4. ASSUME NEW c \in selections, NEW o \in c.plan.evidence
      PROVE  Materialized(c.plan, o) \in Parameters
  <2>1. c.plan \in Plan
    BY DEF Typed, TypeOK
  <2>2. c.plan.candidate \in Candidate /\ o \in observations
    BY <2>1 DEF Plan
  <2>3. o.execution \in Executions
    BY <2>2 DEF Typed, TypeOK
  <2>4. runs[o.execution].context \in Contexts
    BY <2>3 DEF Typed, RunType
  <2> QED BY <2>2, <2>4 DEF Materialized, Parameters
<1> QED BY <1>1, <1>2, <1>3, <1>4

LEMMA OwnerCases ==
    ASSUME Typed, OwnerStep
    PROVE  \/ Reset
           \/ \E P \in Parameters : Update(P)
           \/ \E c \in Current : Freeze(c)
           \/ \E r \in 1..MaxRevision : Restore(r)
           \/ \E c \in Contexts : SetDefaults(c)
BY OwnerSets DEF OwnerStep

LEMMA CarriedTyped ==
    ASSUME Typed, NEW P \in Parameters, NewRevision(P), UNCHANGED <<plans, observations>>,
           selections' = selections \cup Carried(P)
    PROVE  LearnedTyped'
<1>1. /\ LearnedTyped
      /\ Plan' = Plan /\ SelectionType' = SelectionType
  BY TypedParts DEF Plan, SelectionType
<1>2. ASSUME NEW c \in Carried(P)
      PROVE  c \in SelectionType /\ c.plan \in plans /\ c.scope = c.plan.scope
    <2>1. PICK d \in Current : c = [d EXCEPT !.revision = @ + 1, !.generation = @ + 1]
      BY DEF Carried
    <2>2. d \in SelectionType /\ d.scope = d.plan.scope
      BY <1>1 DEF LearnedTyped, Current, SelectedAt
    <2>3. d.revision + 1 \in Nat /\ d.generation + 1 \in Nat /\ d.plan \in plans
      BY <2>2 DEF SelectionType
    <2>4. c = [revision |-> d.revision + 1, generation |-> d.generation + 1,
               scope |-> d.scope, plan |-> d.plan]
      BY <2>1, <2>2 DEF SelectionType
    <2> QED BY <2>2, <2>3, <2>4 DEF SelectionType
<1> QED BY <1>1, <1>2 DEF LearnedTyped

LEMMA AdvancedTyped ==
    ASSUME Typed, NEW p \in Plan, UNCHANGED observations, plans' = plans \cup {p},
           selections' = selections \cup Advanced(p)
    PROVE  LearnedTyped'
<1>1. /\ LearnedTyped
      /\ Plan' = Plan /\ SelectionType \subseteq SelectionType'
  BY TypedParts, TypesGrow DEF Plan, SelectionType
<1>2. profile.revision \in Nat /\ profile.generation + 1 \in Nat /\ p.scope \in Contexts
  BY DEF Typed, TypeOK, Plan
<1>3. ASSUME NEW c \in Advanced(p)
      PROVE  c \in SelectionType' /\ c.plan \in plans' /\ c.scope = c.plan.scope
  <2>1. CASE c = [revision |-> profile.revision, generation |-> profile.generation + 1,
                  scope |-> p.scope, plan |-> p]
    BY <1>2, <2>1 DEF SelectionType
  <2>2. ASSUME NEW d \in Current, c = [d EXCEPT !.generation = @ + 1]
        PROVE  c \in SelectionType' /\ c.plan \in plans' /\ c.scope = c.plan.scope
    <3>1. d \in SelectionType /\ d.scope = d.plan.scope
      BY <1>1 DEF LearnedTyped, Current, SelectedAt
    <3> QED BY <1>1, <2>2, <3>1 DEF SelectionType
  <2> QED BY <2>1, <2>2 DEF Advanced
<1> QED BY <1>1, <1>3 DEF LearnedTyped

LEMMA OwnerTyped ==
    ASSUME Typed, OwnerStep PROVE Typed'
<1>1. Grows
  BY StepGrows DEF Next
<1>2. UNCHANGED <<observations, plans, runs, stages>>
  BY DEF OwnerStep, Reset, Update, Freeze, Restore, SetDefaults
<1>3. /\ EvidenceTyped' /\ runs' \in [Executions -> RunType']
      /\ DOMAIN stages' = Executions
      /\ \A d \in Executions : stages'[d] \in [StagesOf[d] -> StageType']
  BY <1>1, <1>2, EvidenceKeptTyped, RunsKeptTyped, StagesKeptTyped
<1>4. ASSUME NEW P \in Parameters, NewRevision(P), UNCHANGED inherited,
             epoch' \in {epoch, epoch + 1}
      PROVE  RowTyped'
  BY <1>4, NewRevisionTyped, TypedParts DEF RowTyped
<1>5. RowTyped' /\ LearnedTyped'
  <2>1. CASE Reset
    <3>1. LearnedTyped'
      BY <1>1, <2>1, LearnedKeptTyped DEF Reset
    <3>2. profile.generation \in 1..MaxGeneration /\ profile.generation + 1 \in 1..MaxGeneration
      BY <2>1, TypedParts, LearningAssumption DEF Reset, RowTyped, LearningAssumption
    <3>3. RowTyped'
      BY <2>1, <3>2, TypedParts DEF Reset, RowTyped
    <3> QED BY <3>1, <3>3
  <2>2. ASSUME NEW P \in Parameters, Update(P) PROVE RowTyped' /\ LearnedTyped'
    <3>1. RowTyped'
      BY <1>4, <2>2 DEF Update
    <3>2. LearnedTyped'
      BY <1>2, <2>2, CarriedTyped DEF Update
    <3> QED BY <3>1, <3>2
  <2>3. ASSUME NEW c \in Current, Freeze(c) PROVE RowTyped' /\ LearnedTyped'
    <3>1. PICK o \in c.plan.evidence : NewRevision(Materialized(c.plan, o))
      BY <2>3 DEF Freeze
    <3>2. Materialized(c.plan, o) \in Parameters
      BY OwnerSets DEF Current, SelectedAt
    <3>3. RowTyped'
      BY <1>4, <2>3, <3>1, <3>2 DEF Freeze
    <3>4. LearnedTyped'
      BY <1>1, <2>3, LearnedKeptTyped DEF Freeze
    <3> QED BY <3>3, <3>4
  <2>4. ASSUME NEW r \in 1..MaxRevision, Restore(r) PROVE RowTyped' /\ LearnedTyped'
    <3>1. saved[r] \in Parameters /\ NewRevision(saved[r])
      BY <2>4, OwnerSets DEF Restore
    <3>2. RowTyped'
      BY <1>4, <2>4, <3>1 DEF Restore
    <3>3. LearnedTyped'
      BY <1>1, <2>4, LearnedKeptTyped DEF Restore
    <3> QED BY <3>2, <3>3
  <2>5. ASSUME NEW c \in Contexts, SetDefaults(c) PROVE RowTyped' /\ LearnedTyped'
    <3>1. LearnedTyped'
      BY <1>1, <2>5, LearnedKeptTyped DEF SetDefaults
    <3> QED BY <2>5, <3>1, TypedParts DEF SetDefaults, RowTyped
  <2> QED BY <2>1, <2>2, <2>3, <2>4, <2>5, OwnerCases
<1> QED BY <1>3, <1>5 DEF Typed, TypeOK, RowTyped, EvidenceTyped, LearnedTyped

LEMMA RunTyped ==
    ASSUME Typed, NEW e \in Executions,
           \/ ReadProfile(e) \/ SnapshotAtAdmission(e) \/ RefuseAdmission(e) \/ Cancel(e)
    PROVE  Typed'
<1>1. Grows
  BY StepGrows DEF Next, RunStep
<1>2. UNCHANGED <<profile, inherited, observations, plans, selections, stages, epoch>>
  BY DEF ReadProfile, SnapshotAtAdmission, RefuseAdmission, Cancel
<1>3. /\ EvidenceTyped' /\ LearnedTyped'
      /\ DOMAIN stages' = Executions
      /\ \A d \in Executions : stages'[d] \in [StagesOf[d] -> StageType']
  BY <1>1, <1>2, EvidenceKeptTyped, LearnedKeptTyped, StagesKeptTyped
<1>4. runs[e] \in RunType /\ RowTyped /\ LearnedTyped
  BY TypedParts
<1>5. SUBSET plans' = SUBSET plans
  BY <1>2
<1>6. saved' \in [1..MaxRevision -> Parameters \cup {None}]
  <2>1. /\ saved \in [1..MaxRevision -> Parameters \cup {None}]
        /\ profile.revision \in 1..MaxRevision /\ profile.parameters \in Parameters
    BY <1>4 DEF RowTyped
  <2>2. SaveRevision(saved, profile.revision, profile.parameters)
          \in [1..MaxRevision -> Parameters \cup {None}]
    BY <2>1 DEF SaveRevision
  <2>3. saved' \in {saved, SaveRevision(saved, profile.revision, profile.parameters)}
    BY DEF ReadProfile, SnapshotAtAdmission, RefuseAdmission, Cancel
  <2> QED BY <2>1, <2>2, <2>3
<1>7. RowTyped'
  BY <1>2, <1>4, <1>6 DEF RowTyped
<1>8. runs' \in [Executions -> RunType']
  <2>1. CASE ReadProfile(e)
    <3>1. /\ profile.parameters \in Parameters /\ Effective(profile.parameters) \in Contexts
          /\ profile.revision \in Nat
      BY <1>4 DEF RowTyped, Effective, Parameters
    <3>2. runs' = [runs EXCEPT ![e] =
            [[[[runs[e] EXCEPT !.state = "admitting"] EXCEPT !.parameters = profile.parameters]
                EXCEPT !.context = Effective(profile.parameters)]
                EXCEPT !.revision = profile.revision]]
      BY <1>4, <2>1 DEF ReadProfile, RunType
    <3> DEFINE r == [[[[runs[e] EXCEPT !.state = "admitting"]
                EXCEPT !.parameters = profile.parameters]
                EXCEPT !.context = Effective(profile.parameters)]
                EXCEPT !.revision = profile.revision]
    <3>3. r \in RunType'
      BY <1>4, <1>5, <3>1 DEF RunType
    <3> QED BY <1>1, <3>2, <3>3, RunsTyped
  <2>2. CASE SnapshotAtAdmission(e)
    <3> DEFINE learned == IF runs[e].parameters.learn THEN {s.plan : s \in Current} ELSE {}
               r == [[[[[runs[e] EXCEPT !.state = "admitted"] EXCEPT !.revision = profile.revision]
                EXCEPT !.generation = profile.generation] EXCEPT !.learned = learned]
                EXCEPT !.epoch = epoch]
    <3>1. learned \in SUBSET plans
      BY <1>4 DEF LearnedTyped, Current, SelectedAt
    <3>2. profile.revision \in Nat /\ profile.generation \in Nat /\ epoch \in Nat
      BY <1>4 DEF RowTyped
    <3>3. runs' = [runs EXCEPT ![e].state = "admitted",
        ![e].revision = profile.revision, ![e].generation = profile.generation,
        ![e].learned = learned, ![e].epoch = epoch]
      BY <2>2 DEF SnapshotAtAdmission
    <3> HIDE DEF learned
    <3>4. runs' = [runs EXCEPT ![e] = r]
      BY <1>4, <3>3 DEF RunType
    <3>5. r \in RunType'
      BY <1>4, <1>5, <3>1, <3>2 DEF RunType
    <3> QED BY <1>1, <3>4, <3>5, RunsTyped
  <2>3. CASE RefuseAdmission(e) \/ Cancel(e)
    <3>1. PICK v \in {"new", "cancelled"} : runs' = [runs EXCEPT ![e].state = v]
      BY <2>3 DEF RefuseAdmission, Cancel
    <3>2. [runs[e] EXCEPT !.state = v] \in RunType'
      BY <1>4, <1>5 DEF RunType
    <3> QED BY <1>1, <3>1, <3>2, RunsTyped
  <2> QED BY <2>1, <2>2, <2>3
<1> QED BY <1>3, <1>7, <1>8 DEF Typed, TypeOK, RowTyped, EvidenceTyped, LearnedTyped

LEMMA ResumeTyped ==
    ASSUME Typed, NEW e \in Executions, Resume(e) PROVE Typed'
<1>1. Grows
  BY StepGrows DEF Next, RunStep
<1>2. UNCHANGED <<profile, inherited, saved, observations, plans, selections, epoch>>
  BY DEF Resume
<1>3. EvidenceTyped' /\ LearnedTyped' /\ RowTyped'
  BY <1>1, <1>2, EvidenceKeptTyped, LearnedKeptTyped, RowKeptTyped
<1>4. runs[e] \in RunType /\ stages[e] \in [StagesOf[e] -> StageType]
  BY TypedParts
<1>5. RunType' = RunType /\ StageType' = StageType
  BY <1>2 DEF RunType, StageType
<1>6. runs' \in [Executions -> RunType']
  <2>1. runs' = [runs EXCEPT ![e].owner = @ + 1]
    BY DEF Resume
  <2>2. [runs[e] EXCEPT !.owner = @ + 1] \in RunType'
    <3>1. runs[e].owner + 1 \in Nat
      BY <1>4 DEF RunType
    <3> DEFINE owner == runs[e].owner + 1
    <3> HIDE DEF owner
    <3>2. [runs[e] EXCEPT !.owner = owner] \in RunType
      BY <1>4, <3>1 DEF RunType, owner
    <3> QED BY <1>5, <3>2 DEF owner
  <2> QED BY <1>1, <2>1, <2>2, RunsTyped
<1>7. /\ DOMAIN stages' = Executions
      /\ \A d \in Executions : stages'[d] \in [StagesOf[d] -> StageType']
  <2> DEFINE f == [s \in StagesOf[e] |-> IF stages[e][s].state = "appended"
                      THEN [stages[e][s] EXCEPT !.state = "done"] ELSE stages[e][s]]
  <2>1. stages' = [stages EXCEPT ![e] = f]
    BY DEF Resume
  <2>2. \A s \in StagesOf[e] : [stages[e][s] EXCEPT !.state = "done"] \in StageType
    BY <1>4 DEF StageType
  <2>3. f \in [StagesOf[e] -> StageType']
    BY <1>4, <1>5, <2>2
  <2> QED BY <1>1, <2>1, <2>3, StagesTyped
<1> QED BY <1>3, <1>6, <1>7 DEF Typed, TypeOK, RowTyped, EvidenceTyped, LearnedTyped

\* What a failed attempt leaves of its stage.
Failed(e, s, quality) ==
    LET tried == [stages[e][s] EXCEPT !.attempts = @ + 1]
    IN {[tried EXCEPT !.state = "done"]}
         \cup (IF tried.attempts < MaxAttempts[e] THEN {tried} ELSE {})
         \cup (IF tried.attempts < MaxAttempts[e] /\ quality # "contended" /\ tried.at < Len(Ladder)
                 THEN {[tried EXCEPT !.at = @ + 1]} ELSE {})

LEMMA FailedStage ==
    ASSUME Typed, NEW e \in Executions, NEW s \in StagesOf[e], NEW quality,
           NEW v \in Failed(e, s, quality)
    PROVE  /\ v \in StageType /\ v.start = stages[e][s].start
           /\ v.state \in {"done", stages[e][s].state}
<1> DEFINE tried == [stages[e][s] EXCEPT !.attempts = @ + 1]
<1>1. tried \in StageType /\ tried.start = stages[e][s].start /\ tried.state = stages[e][s].state
  BY DEF Typed, StageType
<1>2. \/ v = [tried EXCEPT !.state = "done"]
      \/ v = tried
      \/ tried.at < Len(Ladder) /\ v = [tried EXCEPT !.at = @ + 1]
  BY DEF Failed
<1> HIDE DEF tried
<1>3. CASE v = [tried EXCEPT !.state = "done"]
  BY <1>1, <1>3 DEF StageType
<1>4. CASE v = tried
  BY <1>1, <1>4
<1>5. CASE tried.at < Len(Ladder) /\ v = [tried EXCEPT !.at = @ + 1]
  <2>1. tried.at + 1 \in DOMAIN Ladder
    BY <1>1, <1>5, LadderDomain DEF StageType
  <2> QED BY <1>1, <1>5, <2>1 DEF StageType
<1> QED BY <1>2, <1>3, <1>4, <1>5

LEMMA AttemptFailsTo ==
    ASSUME NEW e \in Executions, NEW s \in StagesOf[e], NEW quality, AttemptFails(e, s, quality)
    PROVE  \E v \in Failed(e, s, quality) : stages' = [stages EXCEPT ![e][s] = v]
BY DEF AttemptFails, Failed

\* What a step of a stage does to it: it takes a start from its own snapshot or
\* keeps the one it has, and only a stored, measured success leaves it to promote.
LEMMA StageEffect ==
    ASSUME Typed, Grows, NEW e \in Executions, NEW s \in StagesOf[e], StageStep(e, s)
    PROVE  /\ UNCHANGED <<inherited, saved, runs, epoch>>
           /\ \E v \in StageType' :
                /\ stages' = [stages EXCEPT ![e][s] = v]
                /\ \/ v.start = stages[e][s].start
                   \/ runs[e].state = "admitted" /\ \E p \in StartingPlans(e) : v.start = {p}
                /\ v.state = "appended" =>
                    /\ CanAttempt(e, s) /\ v.at = stages[e][s].at
                    /\ Success(e, s) \cap observations' # {}
<1> DEFINE Result(v) ==
                /\ stages' = [stages EXCEPT ![e][s] = v]
                /\ \/ v.start = stages[e][s].start
                   \/ runs[e].state = "admitted" /\ \E p \in StartingPlans(e) : v.start = {p}
                /\ v.state = "appended" =>
                    /\ CanAttempt(e, s) /\ v.at = stages[e][s].at
                    /\ Success(e, s) \cap observations' # {}
<1>1. stages[e][s] \in StageType /\ StageType \subseteq StageType' /\ plans \subseteq plans'
  BY TypesGrow DEF Grows, Typed
<1>2. UNCHANGED <<inherited, saved, runs, epoch>>
  BY DEF StageStep, StartStage, AttemptSucceeds, AttemptFails, Promote
<1>3. CASE StartStage(e, s)
  <2>1. ASSUME stages' = [stages EXCEPT ![e][s].state = "running"]
        PROVE  \E v \in StageType' : Result(v)
    <3> DEFINE v == [stages[e][s] EXCEPT !.state = "running"]
    <3>1. v \in StageType /\ v.start = stages[e][s].start /\ v.state = "running"
      BY <1>1 DEF StageType
    <3>2. stages' = [stages EXCEPT ![e][s] = v]
      BY <2>1
    <3> HIDE DEF v
    <3>3. Result(v)
      BY <3>1, <3>2
    <3> QED BY <1>1, <1>2, <3>1, <3>3
  <2>2. ASSUME NEW p \in StartingPlans(e),
               stages' = [stages EXCEPT ![e][s] =
                    [@ EXCEPT !.state = "running", !.at = Rung(p.candidate), !.start = {p}]]
        PROVE  \E v \in StageType' : Result(v)
    <3> DEFINE v == [[[stages[e][s] EXCEPT !.state = "running"] EXCEPT !.at = Rung(p.candidate)]
                        EXCEPT !.start = {p}]
    <3>1. runs[e].learned \subseteq plans
      BY DEF Typed, RunType
    <3>2. p \in plans /\ p \in Plan
      BY <3>1 DEF StartingPlans, Typed, TypeOK
    <3>3. Rung(p.candidate) \in DOMAIN Ladder
      BY <3>2, LadderDomain DEF Plan
    <3>4. v \in StageType /\ v.start = {p} /\ v.state = "running"
      BY <1>1, <3>2, <3>3 DEF StageType
    <3>5. stages' = [stages EXCEPT ![e][s] = v]
      BY <1>1, <2>2 DEF StageType
    <3> HIDE DEF v
    <3>6. Result(v)
      BY <1>3, <3>4, <3>5 DEF StartStage
    <3> QED BY <1>1, <3>4, <3>6
  <2>3. \E v \in StageType' : Result(v)
    <3> HIDE DEF Result
    <3> QED BY <1>3, <2>1, <2>2 DEF StartStage
  <2> QED BY <1>2, <2>3
<1>4. ASSUME NEW q \in Qualities[e], AttemptSucceeds(e, s, q)
      PROVE  \E v \in StageType' : Result(v)
  <2> DEFINE v == [stages[e][s] EXCEPT !.state =
                      IF q \in {"clean", "contended"} THEN "appended" ELSE "done"]
  <2>1. v \in StageType /\ v.start = stages[e][s].start /\ v.at = stages[e][s].at
    BY <1>1 DEF StageType
  <2>2. stages' = [stages EXCEPT ![e][s] = v]
    BY <1>4 DEF AttemptSucceeds
  <2>3. v.state = "appended" => q \in {"clean", "contended"}
    BY <1>1 DEF StageType
  <2>4. q \in {"clean", "contended"} =>
            /\ Observation(e, s, "succeeded", q) \in Success(e, s)
            /\ Observation(e, s, "succeeded", q) \in observations'
    BY <1>4 DEF AttemptSucceeds, AppendObservation, Success
  <2>5. CanAttempt(e, s) /\ (q \in {"clean", "contended"} => Success(e, s) \cap observations' # {})
    BY <1>4, <2>4 DEF AttemptSucceeds
  <2> HIDE DEF v
  <2>6. Result(v)
    BY <2>1, <2>2, <2>3, <2>5
  <2> HIDE DEF Result
  <2> QED BY <1>1, <2>1, <2>6
<1>5. ASSUME NEW q \in Qualities[e], AttemptFails(e, s, q)
      PROVE  \E v \in StageType' : Result(v)
  <2>1. PICK v \in Failed(e, s, q) : stages' = [stages EXCEPT ![e][s] = v]
    BY <1>5, AttemptFailsTo
  <2>2. v \in StageType /\ v.start = stages[e][s].start /\ v.state \in {"done", stages[e][s].state}
    BY FailedStage
  <2>3. stages[e][s].state = "running"
    BY <1>5 DEF AttemptFails, CanAttempt
  <2>4. Result(v)
    BY <2>1, <2>2, <2>3
  <2> HIDE DEF Result
  <2> QED BY <1>1, <2>2, <2>4
<1>6. CASE Promote(e, s)
  <2> DEFINE v == [stages[e][s] EXCEPT !.state = "done"]
  <2>1. v \in StageType /\ v.start = stages[e][s].start /\ v.state = "done"
    BY <1>1 DEF StageType
  <2>2. stages' = [stages EXCEPT ![e][s] = v]
    BY <1>6 DEF Promote
  <2> HIDE DEF v
  <2>3. Result(v)
    BY <2>1, <2>2
  <2> HIDE DEF Result
  <2>4. \E w \in StageType' : Result(w)
    BY <1>1, <2>1, <2>3
  <2> QED BY <1>2, <2>4 DEF Result
<1>7. (\E q \in Qualities[e] : AttemptSucceeds(e, s, q) \/ AttemptFails(e, s, q))
        => \E v \in StageType' : Result(v)
  <2> HIDE DEF Result
  <2> QED BY <1>4, <1>5
<1> QED BY <1>2, <1>3, <1>6, <1>7 DEF StageStep

LEMMA StageStepTyped ==
    ASSUME Typed, NEW e \in Executions, NEW s \in StagesOf[e], StageStep(e, s)
    PROVE  Typed'
<1>1. Grows
  BY StepGrows DEF Next, RunStep
<1>2. UNCHANGED <<inherited, saved, runs, epoch>>
  BY <1>1, StageEffect
<1>3. /\ DOMAIN stages' = Executions
      /\ \A d \in Executions : stages'[d] \in [StagesOf[d] -> StageType']
  <2>1. PICK v \in StageType' : stages' = [stages EXCEPT ![e][s] = v]
    BY <1>1, StageEffect
  <2> QED BY <1>1, <2>1, StageTyped
<1>4. runs' \in [Executions -> RunType']
  BY <1>1, <1>2, RunsKeptTyped
<1>5. EvidenceTyped' /\ RowTyped' /\ LearnedTyped'
  <2>1. CASE StartStage(e, s)
    <3>1. UNCHANGED <<profile, inherited, saved, observations, plans, selections, epoch>>
      BY <2>1 DEF StartStage
    <3> QED BY <1>1, <3>1, EvidenceKeptTyped, RowKeptTyped, LearnedKeptTyped
  <2>2. ASSUME NEW q \in Qualities[e], AttemptSucceeds(e, s, q) \/ AttemptFails(e, s, q)
        PROVE  EvidenceTyped' /\ RowTyped' /\ LearnedTyped'
    <3>1. UNCHANGED <<profile, inherited, saved, plans, selections, epoch>>
      BY <2>2 DEF AttemptSucceeds, AttemptFails
    <3>2. EvidenceTyped'
      BY <2>2, AppendTyped DEF AttemptSucceeds, AttemptFails
    <3> QED BY <1>1, <3>1, <3>2, RowKeptTyped, LearnedKeptTyped
  <2>3. CASE Promote(e, s)
    <3>1. UNCHANGED <<inherited, saved, observations, epoch>>
      BY <2>3 DEF Promote
    <3>2. EvidenceTyped'
      BY <3>1, EvidenceKeptTyped
    <3>3. CASE UNCHANGED <<plans, selections, profile>>
      BY <1>1, <3>1, <3>2, <3>3, RowKeptTyped, LearnedKeptTyped
    <3>4. ASSUME profile.generation < MaxGeneration, plans' = plans \cup {Proposal(e, s)},
                 selections' = selections \cup Advanced(Proposal(e, s)),
                 profile' = [profile EXCEPT !.generation = @ + 1]
          PROVE  RowTyped' /\ LearnedTyped'
      <4>1. Proposal(e, s) \in Plan
        BY ProposalTyped
      <4>2. LearnedTyped'
        BY <3>1, <3>4, <4>1, AdvancedTyped
      <4>3. profile.generation + 1 \in 1..MaxGeneration
        BY <3>4, TypedParts, LearningAssumption DEF RowTyped, LearningAssumption
      <4>4. RowTyped'
        BY <3>1, <3>4, <4>3, TypedParts DEF RowTyped
      <4> QED BY <4>2, <4>4
    <3> QED BY <2>3, <3>2, <3>3, <3>4 DEF Promote
  <2> QED BY <2>1, <2>2, <2>3 DEF StageStep
<1> QED BY <1>3, <1>4, <1>5 DEF Typed, TypeOK, RowTyped, EvidenceTyped, LearnedTyped

LEMMA TypesKept == Typed /\ [Next]_vars => Typed'
<1> SUFFICES ASSUME Typed, [Next]_vars PROVE Typed'
  OBVIOUS
<1>1. CASE UNCHANGED vars
  <2>1. UNCHANGED <<profile, inherited, saved, observations, plans, selections, runs, stages, epoch>>
    BY <1>1 DEF vars
  <2>2. Grows
    BY StepGrows
  <2>3. EvidenceTyped' /\ RowTyped' /\ LearnedTyped'
    BY <2>1, <2>2, EvidenceKeptTyped, RowKeptTyped, LearnedKeptTyped
  <2>4. /\ runs' \in [Executions -> RunType']
        /\ DOMAIN stages' = Executions
        /\ \A d \in Executions : stages'[d] \in [StagesOf[d] -> StageType']
    BY <2>1, <2>2, RunsKeptTyped, StagesKeptTyped
  <2> QED BY <2>3, <2>4 DEF Typed, TypeOK, RowTyped, EvidenceTyped, LearnedTyped
<1>2. CASE OwnerStep
  BY <1>2, OwnerTyped
<1>3. ASSUME NEW e \in Executions, RunStep(e) PROVE Typed'
  BY <1>3, RunTyped, ResumeTyped, StageStepTyped DEF RunStep
<1> QED BY <1>1, <1>2, <1>3 DEF Next

-----------------------------------------------------------------------------
(* What observations say of the runs they come from. *)

LEMMA NewObservation ==
    ASSUME Typed, [Next]_vars, NEW o \in observations' \ observations
    PROVE  \E e \in Executions : \E s \in StagesOf[e] :
             \E outcome \in {"succeeded", "out_of_memory"} : \E q \in Qualities[e] :
                /\ CanAttempt(e, s) /\ UNCHANGED runs
                /\ o = Observation(e, s, outcome, q)
<1> DEFINE From(e, s) ==
             \E outcome \in {"succeeded", "out_of_memory"} : \E q \in Qualities[e] :
                /\ CanAttempt(e, s) /\ UNCHANGED runs
                /\ o = Observation(e, s, outcome, q)
<1>1. observations' # observations
  OBVIOUS
<1>2. ASSUME NEW e \in Executions, NEW s \in StagesOf[e], StageStep(e, s) PROVE From(e, s)
  <2>1. ASSUME NEW q \in Qualities[e], AttemptSucceeds(e, s, q) PROVE From(e, s)
    BY <2>1 DEF AttemptSucceeds, AppendObservation
  <2>2. ASSUME NEW q \in Qualities[e], AttemptFails(e, s, q) PROVE From(e, s)
    BY <2>2 DEF AttemptFails, AppendObservation
  <2>3. ~ StartStage(e, s) /\ ~ Promote(e, s)
    BY <1>1 DEF StartStage, Promote
  <2> HIDE DEF From
  <2> QED BY <1>2, <2>1, <2>2, <2>3 DEF StageStep
<1>3. ~ OwnerStep /\ ~ UNCHANGED vars
  BY <1>1 DEF OwnerStep, Reset, Update, Freeze, Restore, SetDefaults, vars
<1>4. ASSUME NEW e \in Executions
      PROVE  ~ (ReadProfile(e) \/ SnapshotAtAdmission(e) \/ RefuseAdmission(e)
                 \/ Cancel(e) \/ Resume(e))
  BY <1>1 DEF ReadProfile, SnapshotAtAdmission, RefuseAdmission, Cancel, Resume
<1>5. \E e \in Executions : \E s \in StagesOf[e] : From(e, s)
  <2> HIDE DEF From
  <2> QED BY <1>2, <1>3, <1>4 DEF Next, RunStep
<1> QED BY <1>5

LEMMA ObservedKept ==
    ASSUME Typed, ObservedInv, [Next]_vars PROVE ObservedInv'
<1> SUFFICES ASSUME NEW o \in observations'
             PROVE  /\ Admitted(o.execution)'
                    /\ o.revision = runs'[o.execution].revision
                    /\ o.generation = runs'[o.execution].generation
                    /\ o.scope = runs'[o.execution].context
  BY DEF ObservedInv
<1>1. CASE o \in observations
  <2>1. o.execution \in Executions
    BY <1>1 DEF Typed, TypeOK
  <2>2. Constant(o.execution)
    BY <1>1, <2>1, StepGrows DEF Grows, ObservedInv
  <2> QED BY <1>1, <2>2 DEF Constant, ObservedInv
<1>2. CASE o \notin observations
  <2>1. PICK e \in Executions : \E s \in StagesOf[e] :
             \E outcome \in {"succeeded", "out_of_memory"} : \E q \in Qualities[e] :
               /\ CanAttempt(e, s) /\ UNCHANGED runs
               /\ o = Observation(e, s, outcome, q)
    BY <1>2, NewObservation
  <2> QED BY <2>1 DEF CanAttempt, Admitted, Observation
<1> QED BY <1>1, <1>2

\* A finished attempt is stored under the owner that will promote it.
LEMMA AppendedKept ==
    ASSUME Typed, ObservedInv, AppendedInv, [Next]_vars PROVE AppendedInv'
<1> SUFFICES ASSUME NEW d \in Executions, NEW t \in StagesOf[d],
                    stages'[d][t].state = "appended"
             PROVE  Success(d, t)' \cap observations' # {}
  BY DEF AppendedInv, Success, Observation
<1>1. Grows
  BY StepGrows
<1>2. DOMAIN stages = Executions /\ DOMAIN stages[d] = StagesOf[d] /\ runs[d] \in RunType
      /\ DOMAIN runs = Executions
  BY DEF Typed
<1>3. ASSUME stages'[d][t].state = "appended" => stages[d][t].state = "appended",
             stages'[d][t].at = stages[d][t].at,
             runs'[d].revision = runs[d].revision, runs'[d].generation = runs[d].generation,
             runs'[d].context = runs[d].context, runs'[d].owner = runs[d].owner
      PROVE  Success(d, t)' \cap observations' # {}
  <2>1. Success(d, t) \cap observations # {}
    BY <1>3 DEF AppendedInv
  <2>2. Success(d, t)' = Success(d, t)
    BY <1>3 DEF Success, Observation
  <2> QED BY <1>1, <2>1, <2>2 DEF Grows
<1>4. stages[d][t].state = "appended" => Admitted(d)
  <2>1. stages[d][t].state = "appended" => Success(d, t) \cap observations # {}
    BY DEF AppendedInv
  <2>2. \A o \in Success(d, t) : o.execution = d
    BY DEF Success, Observation
  <2> QED BY <2>1, <2>2 DEF ObservedInv
<1>5. CASE UNCHANGED vars
  BY <1>3, <1>5 DEF vars
<1>6. CASE OwnerStep
  <2>1. UNCHANGED <<stages, runs>>
    BY <1>6 DEF OwnerStep, Reset, Update, Freeze, Restore, SetDefaults
  <2> QED BY <1>3, <2>1
<1>7. ASSUME NEW e \in Executions,
             ReadProfile(e) \/ SnapshotAtAdmission(e) \/ RefuseAdmission(e) \/ Cancel(e)
      PROVE  Success(d, t)' \cap observations' # {}
  <2>1. UNCHANGED stages
    BY <1>7 DEF ReadProfile, SnapshotAtAdmission, RefuseAdmission, Cancel
  <2>2. CASE d # e
    <3>1. runs'[d] = runs[d]
      BY <1>2, <1>7, <2>2 DEF ReadProfile, SnapshotAtAdmission, RefuseAdmission, Cancel
    <3> QED BY <1>3, <2>1, <3>1
  <2>3. CASE d = e
    <3>1. Admitted(e)
      BY <1>4, <2>1, <2>3
    <3>2. Cancel(e)
      BY <1>7, <3>1 DEF ReadProfile, SnapshotAtAdmission, RefuseAdmission, Admitted
    <3>3. /\ runs'[d].revision = runs[d].revision /\ runs'[d].generation = runs[d].generation
          /\ runs'[d].context = runs[d].context /\ runs'[d].owner = runs[d].owner
      BY <1>2, <2>3, <3>2 DEF Cancel, RunType
    <3> QED BY <1>3, <2>1, <3>3
  <2> QED BY <2>2, <2>3
<1>8. ASSUME NEW e \in Executions, Resume(e)
      PROVE  Success(d, t)' \cap observations' # {}
  <2>1. CASE d # e
    <3>1. runs'[d] = runs[d] /\ stages'[d] = stages[d]
      BY <1>2, <1>8, <2>1 DEF Resume
    <3> QED BY <1>3, <3>1
  <2>2. CASE d = e
    <3>1. stages'[d][t] = IF stages[d][t].state = "appended"
                            THEN [stages[d][t] EXCEPT !.state = "done"] ELSE stages[d][t]
      BY <1>2, <1>8, <2>2 DEF Resume
    <3>2. stages[d][t] \in StageType
      BY DEF Typed
    <3>3. stages'[d][t].state # "appended"
      BY <3>1, <3>2 DEF StageType
    <3> QED BY <3>3
  <2> QED BY <2>1, <2>2
<1>9. ASSUME NEW e \in Executions, NEW s \in StagesOf[e], StageStep(e, s)
      PROVE  Success(d, t)' \cap observations' # {}
  <2>1. UNCHANGED runs
    BY <1>1, <1>9, StageEffect
  <2>2. PICK v \in StageType' :
          /\ stages' = [stages EXCEPT ![e][s] = v]
          /\ v.state = "appended" =>
                /\ v.at = stages[e][s].at
                /\ Success(e, s) \cap observations' # {}
    BY <1>1, <1>9, StageEffect
  <2>3. CASE d = e /\ t = s
    <3>1. stages'[d][t] = v
      BY <1>2, <2>2, <2>3
    <3>2. Success(d, t)' = Success(d, t)
      BY <2>1, <2>2, <2>3, <3>1 DEF Success, Observation
    <3> QED BY <2>2, <2>3, <3>1, <3>2
  <2>4. CASE ~ (d = e /\ t = s)
    <3>1. stages'[d][t] = stages[d][t]
      BY <1>2, <2>2, <2>4
    <3> QED BY <1>3, <2>1, <3>1
  <2> QED BY <2>3, <2>4
<1> QED BY <1>5, <1>6, <1>7, <1>8, <1>9 DEF Next, RunStep

LEMMA StartsKept ==
    ASSUME Typed, StartsInv, [Next]_vars PROVE StartsInv'
<1> SUFFICES ASSUME NEW d \in Executions, NEW t \in StagesOf[d], NEW p \in stages'[d][t].start
             PROVE  Admitted(d)' /\ p.scope = runs'[d].context
  BY DEF StartsInv
<1>1. \A e \in Executions : Admitted(e) => Constant(e)
  BY StepGrows DEF Grows
<1>2. DOMAIN stages = Executions /\ DOMAIN stages[d] = StagesOf[d]
  BY DEF Typed
<1>3. CASE p \in stages[d][t].start
  <2>1. Admitted(d) /\ p.scope = runs[d].context
    BY <1>3 DEF StartsInv
  <2> QED BY <1>1, <2>1 DEF Constant
<1>4. CASE p \notin stages[d][t].start
  <2>1. stages'[d][t].start # stages[d][t].start
    BY <1>4
  <2>2. ASSUME NEW e \in Executions, Resume(e) PROVE FALSE
    <3>1. CASE d # e
      BY <1>2, <2>1, <2>2, <3>1 DEF Resume
    <3>2. CASE d = e
      <4>1. stages'[d][t] = IF stages[d][t].state = "appended"
                              THEN [stages[d][t] EXCEPT !.state = "done"] ELSE stages[d][t]
        BY <1>2, <2>2, <3>2 DEF Resume
      <4>2. stages[d][t] \in StageType
        BY DEF Typed
      <4> QED BY <2>1, <4>1, <4>2 DEF StageType
    <3> QED BY <3>1, <3>2
  <2>3. PICK e \in Executions : \E s \in StagesOf[e] : StageStep(e, s)
    <3>1. ~ UNCHANGED stages
      BY <2>1
    <3> QED BY <2>2, <3>1 DEF Next, RunStep, vars, OwnerStep, Reset, Update, Freeze, Restore,
          SetDefaults, ReadProfile, SnapshotAtAdmission, RefuseAdmission, Cancel
  <2> PICK s \in StagesOf[e] : StageStep(e, s)
    BY <2>3
  <2>4. Grows /\ UNCHANGED runs
    BY StepGrows, StageEffect
  <2>5. PICK v \in StageType' :
          /\ stages' = [stages EXCEPT ![e][s] = v]
          /\ \/ v.start = stages[e][s].start
             \/ runs[e].state = "admitted" /\ \E r \in StartingPlans(e) : v.start = {r}
    BY <2>4, StageEffect
  <2>6. d = e /\ t = s /\ stages'[d][t] = v
    BY <1>2, <2>1, <2>5
  <2>7. runs[e].state = "admitted" /\ p \in StartingPlans(e)
    BY <1>4, <2>5, <2>6
  <2> QED BY <2>4, <2>6, <2>7 DEF StartingPlans, Admitted
<1> QED BY <1>3, <1>4

-----------------------------------------------------------------------------
(* What is selected, and what it was earned with. *)

\* A promotion that goes through.
Promotes(e, s) ==
    LET p == Proposal(e, s)
    IN /\ stages[e][s].state = "appended"
       /\ Promotable(e, s, p)
       /\ plans' = plans \cup {p}
       /\ selections' = selections \cup Advanced(p)
       /\ profile' = [profile EXCEPT !.generation = @ + 1]
       /\ UNCHANGED <<inherited, saved, observations, runs, epoch>>

LEMMA LearnedEffect ==
    ASSUME Typed, [Next]_vars
    PROVE  \/ UNCHANGED <<profile, plans, selections, epoch>>
           \/ \E e \in Executions : \E s \in StagesOf[e] : Promotes(e, s)
           \/ Reset
           \/ \E P \in Parameters : Update(P)
           \/ \E c \in Current : Freeze(c)
           \/ \E r \in 1..MaxRevision : Restore(r)
<1>1. CASE UNCHANGED vars
  BY <1>1 DEF vars
<1>2. CASE OwnerStep
  BY <1>2, OwnerCases DEF SetDefaults
<1>3. ASSUME NEW e \in Executions, NEW s \in StagesOf[e], StageStep(e, s)
      PROVE  UNCHANGED <<profile, plans, selections, epoch>> \/ Promotes(e, s)
  BY <1>3 DEF StageStep, StartStage, AttemptSucceeds, AttemptFails, Promote, Promotes
<1>4. ASSUME NEW e \in Executions,
             ReadProfile(e) \/ SnapshotAtAdmission(e) \/ RefuseAdmission(e)
               \/ Cancel(e) \/ Resume(e)
      PROVE  UNCHANGED <<profile, plans, selections, epoch>>
  BY <1>4 DEF ReadProfile, SnapshotAtAdmission, RefuseAdmission, Cancel, Resume
<1> QED BY <1>1, <1>2, <1>3, <1>4 DEF Next, RunStep

\* A generation never comes back.
LEMMA GenerationsAdvance ==
    ASSUME Typed, [Next]_vars
    PROVE  \/ /\ UNCHANGED profile /\ UNCHANGED <<plans, selections, epoch>>
           \/ /\ profile'.generation = profile.generation + 1
              /\ profile'.revision \in {profile.revision, profile.revision + 1}
<1>1. /\ profile \in [revision : 1..MaxRevision, generation : 1..MaxGeneration,
                      parameters : Parameters]
  BY DEF Typed, TypeOK
<1>2. ASSUME NEW e \in Executions, NEW s \in StagesOf[e], Promotes(e, s)
      PROVE  /\ profile'.generation = profile.generation + 1
             /\ profile'.revision = profile.revision
  BY <1>1, <1>2 DEF Promotes
<1>3. CASE Reset
  BY <1>1, <1>3 DEF Reset
<1>4. ASSUME NEW P, NewRevision(P)
      PROVE  /\ profile'.generation = profile.generation + 1
             /\ profile'.revision = profile.revision + 1
  BY <1>4 DEF NewRevision
<1> QED BY <1>2, <1>3, <1>4, LearnedEffect DEF Update, Freeze, Restore

\* Stored clean successes of one candidate at one generation, all of them under
\* their run's present owner, are successes of different stages.
LEMMA QualifiedAreOfDifferentStages ==
    ASSUME Typed, NEW scope, NEW candidate
    PROVE  LET Q == Qualified(scope, candidate)
           IN  Cardinality({<<o.execution, o.stage>> : o \in Q}) = Cardinality(Q)
<1> DEFINE Q == Qualified(scope, candidate)
           T == {<<o.execution, o.stage>> : o \in Q}
           f == [o \in Q |-> <<o.execution, o.stage>>]
<1>1. Q \subseteq observations /\ Q \subseteq ObservationType
  BY DEF Qualified, Observed, Typed
<1>2. IsFiniteSet(Q)
  BY <1>1, FS_Subset DEF Typed
<1>3. \A o \in Q : /\ o.revision = profile.revision /\ o.generation = profile.generation
                   /\ o.scope = scope /\ o.candidate = candidate
                   /\ o.outcome = "succeeded" /\ o.quality = "clean"
                   /\ o.owner = runs[o.execution].owner
  BY DEF Qualified, Observed, Authorized
<1> HIDE DEF Q
<1>4. \A a, b \in Q : a.execution = b.execution /\ a.stage = b.stage => a = b
  <2> SUFFICES ASSUME NEW a \in Q, NEW b \in Q, a.execution = b.execution, a.stage = b.stage
               PROVE  a = b
    OBVIOUS
  <2>1. a \in ObservationType /\ b \in ObservationType
    BY <1>1
  <2>2. /\ a.revision = b.revision /\ a.generation = b.generation /\ a.owner = b.owner
        /\ a.scope = b.scope /\ a.candidate = b.candidate
        /\ a.outcome = b.outcome /\ a.quality = b.quality
    BY <1>3
  <2> QED BY <2>1, <2>2 DEF ObservationType
<1>5. f \in Surjection(Q, T)
  BY DEF Surjection
<1>6. f \in Injection(Q, T)
  BY <1>4 DEF Injection, IsInjective
<1>7. Cardinality(T) = Cardinality(Q)
  <2> HIDE DEF f, T
  <2> QED BY <1>2, <1>5, <1>6, FS_Surjection
<1> QED BY <1>7 DEF Q

LEMMA PromotedIsEarned ==
    ASSUME Typed, ObservedInv, AppendedInv,
           NEW e \in Executions, NEW s \in StagesOf[e], Promotes(e, s)
    PROVE  Earned(Proposal(e, s))
<1> DEFINE p == Proposal(e, s)
<1>1. /\ p \in Plan
      /\ p.revision = profile.revision /\ p.generation = profile.generation
      /\ p.scope = runs[e].context /\ p.candidate = Ladder[stages[e][s].at]
      /\ p.evidence = Qualified(p.scope, p.candidate)
      /\ p.candidate \notin FullWindow => p.exhaustion = Exhaustion(e, s)
  BY ProposalTyped
<1>2. Promotable(e, s, p)
  BY DEF Promotes
<1>3. PICK mine \in observations : mine \in Success(e, s)
  BY DEF Promotes, AppendedInv
<1>4. /\ mine.execution = e /\ mine.stage = s
      /\ mine.scope = p.scope /\ mine.candidate = p.candidate
      /\ mine.outcome = "succeeded" /\ mine.quality \in {"clean", "contended"}
  BY <1>1, <1>3 DEF Success, Observation
<1> HIDE DEF p
<1>5. Cardinality({<<o.execution, o.stage>> : o \in p.evidence}) = Cardinality(p.evidence)
  BY <1>1, QualifiedAreOfDifferentStages
<1>6. /\ Cardinality({<<o.execution, o.stage>> : o \in p.evidence}) >= Measurements
      /\ Cardinality({RecordingOf[o.execution] : o \in p.evidence}) >= 2
  BY <1>2, <1>5 DEF Promotable, Enough
<1>7. \A o \in p.evidence :
        /\ o.outcome = "succeeded" /\ o.quality = "clean"
        /\ o.candidate = p.candidate /\ o.scope = p.scope
        /\ o.revision = p.revision /\ o.generation = p.generation
  BY <1>1 DEF Qualified, Observed
<1>8. ASSUME p.candidate \notin FullWindow
      PROVE  \E o \in observations :
                /\ o.outcome = "succeeded" /\ o.quality \in {"clean", "contended"}
                /\ o.candidate = p.candidate /\ o.scope = p.scope
                /\ \A f \in FullWindow : \E x \in p.exhaustion :
                    /\ x.execution = o.execution /\ x.stage = o.stage
                    /\ x.candidate = f /\ x.outcome = "out_of_memory"
  <2>1. /\ {o.candidate : o \in Exhaustion(e, s)} = FullWindow
        /\ \A o \in Exhaustion(e, s) : Authorized(o)
    BY <1>2, <1>8 DEF Promotable, WindowEarned
  <2>2. \A x \in Exhaustion(e, s) :
            x.execution = e /\ x.stage = s /\ x.outcome = "out_of_memory"
    BY DEF Exhaustion
  <2>3. \A f \in FullWindow : \E x \in p.exhaustion :
            /\ x.execution = mine.execution /\ x.stage = mine.stage
            /\ x.candidate = f /\ x.outcome = "out_of_memory"
    <3>1. p.exhaustion = Exhaustion(e, s)
      BY <1>1, <1>8
    <3> QED BY <1>4, <2>1, <2>2, <3>1
  <2> QED BY <1>4, <2>3
<1>9. Earned(p)
  BY <1>6, <1>7, <1>8 DEF Earned
<1> QED BY <1>9 DEF p

LEMMA PlansKept ==
    ASSUME Typed, ObservedInv, AppendedInv, PlansInv, [Next]_vars PROVE PlansInv'
<1> SUFFICES ASSUME NEW p \in plans' PROVE Earned(p) /\ p.generation < profile'.generation
  <2>1. observations \subseteq observations'
    BY StepGrows DEF Grows
  <2>2. \A p \in plans' : Earned(p) => Earned(p)'
    BY <2>1 DEF Earned
  <2> QED BY <2>2 DEF PlansInv
<1>1. profile.generation \in Nat
  BY DEF Typed, TypeOK
<1>2. profile'.generation \in {profile.generation, profile.generation + 1}
  BY GenerationsAdvance
<1>3. CASE p \in plans
  <2>1. p.generation \in Nat
    BY <1>3 DEF Typed, TypeOK, Plan
  <2> QED BY <1>1, <1>2, <1>3, <2>1 DEF PlansInv
<1>4. CASE p \notin plans
  <2>1. PICK e \in Executions : \E s \in StagesOf[e] : Promotes(e, s)
    BY <1>4, LearnedEffect DEF Reset, Update, Freeze, Restore
  <2>2. PICK s \in StagesOf[e] : Promotes(e, s)
    BY <2>1
  <2>3. p = Proposal(e, s)
    BY <1>4, <2>2 DEF Promotes
  <2>4. profile'.generation = profile.generation + 1
    BY <2>2, GenerationsAdvance DEF Promotes, Typed, TypeOK
  <2>5. p.generation = profile.generation
    BY <2>3, ProposalTyped
  <2> QED BY <1>1, <2>2, <2>3, <2>4, <2>5, PromotedIsEarned
<1> QED BY <1>3, <1>4

\* Nothing is selected yet at a generation that is just begun.
LEMMA FreshGeneration ==
    ASSUME Typed, SelectedInv, NEW X, profile'.generation = profile.generation + 1,
           selections' = selections \cup X,
           \A c \in X : c.revision = profile'.revision /\ c.generation = profile'.generation
    PROVE  Current' = X
<1>1. profile.generation \in Nat
  BY DEF Typed, TypeOK
<1>2. \A c \in selections : c.generation # profile'.generation
  BY <1>1 DEF SelectedInv, Typed, SelectionType
<1> QED BY <1>2 DEF Current, SelectedAt

LEMMA CurrentTyped ==
    ASSUME Typed, NEW c \in Current
    PROVE  /\ c \in SelectionType /\ c.plan \in plans /\ c.plan \in Plan
           /\ c.scope = c.plan.scope /\ c \in selections
           /\ c.revision = profile.revision /\ c.generation = profile.generation
           /\ \A o \in c.plan.evidence : o \in observations /\ o.execution \in Executions
<1>1. c \in selections /\ c.revision = profile.revision /\ c.generation = profile.generation
  BY DEF Current, SelectedAt
<1>2. c.plan \in Plan
  BY <1>1 DEF Typed, TypeOK
<1> QED BY <1>1, <1>2 DEF Typed, TypeOK, Plan

\* A promotion selects its plan and what other scopes had.
LEMMA CurrentAfterPromotion ==
    ASSUME Typed, SelectedInv, NEW e \in Executions, NEW s \in StagesOf[e], Promotes(e, s)
    PROVE  LET p == Proposal(e, s)
           IN /\ \A c \in Current' :
                    \/ c.plan = p /\ c.scope = p.scope
                    \/ \E d \in Current : /\ d.scope # p.scope
                                          /\ c.scope = d.scope /\ c.plan = d.plan
              /\ \A c, d \in Current' : c.scope = d.scope /\ c.plan = d.plan => c = d
              /\ \E c \in Current' : c.plan = p /\ c.scope = p.scope
              /\ \A d \in Current : d.scope # p.scope =>
                    \E c \in Current' : c.scope = d.scope /\ c.plan = d.plan
<1> DEFINE p == Proposal(e, s)
           n == profile.revision
           g == profile.generation + 1
           new == [revision |-> n, generation |-> g, scope |-> p.scope, plan |-> p]
           next(d) == [revision |-> n, generation |-> g, scope |-> d.scope, plan |-> d.plan]
<1>1. profile \in [revision : 1..MaxRevision, generation : 1..MaxGeneration,
                   parameters : Parameters]
  BY DEF Typed, TypeOK
<1>2. profile'.generation = g /\ profile'.revision = n
  BY <1>1 DEF Promotes
<1>3. \A d \in Current : [d EXCEPT !.generation = @ + 1] = next(d)
  BY CurrentTyped DEF SelectionType
<1>4. \A x : x \in Advanced(p) <=>
            x = new \/ \E d \in Current : d.scope # p.scope /\ x = next(d)
  <2> SUFFICES ASSUME NEW x
               PROVE  x \in Advanced(p) <=>
                        x = new \/ \E d \in Current : d.scope # p.scope /\ x = next(d)
    OBVIOUS
  <2>1. x \in Advanced(p) <=>
            \/ x = new
            \/ \E d \in Current : d.scope # p.scope /\ x = [d EXCEPT !.generation = @ + 1]
    BY DEF Advanced
  <2> HIDE DEF next, new, p
  <2> QED BY <1>3, <2>1
<1>5. selections' = selections \cup Advanced(p)
  BY DEF Promotes
<1> HIDE DEF p
<1>6. \A c \in Advanced(p) : c.revision = n /\ c.generation = g
  BY <1>4
<1>7. Current' = Advanced(p)
  BY <1>2, <1>5, <1>6, FreshGeneration
<1>8. /\ new.scope = p.scope /\ new.plan = p
      /\ \A d : next(d).scope = d.scope /\ next(d).plan = d.plan
      /\ \A c, d : c.scope = d.scope /\ c.plan = d.plan => next(c) = next(d)
      /\ \A c : c.scope = p.scope /\ c.plan = p => next(c) = new
  OBVIOUS
<1> HIDE DEF next, new
<1>9. \A c \in Current' : c.scope = p.scope => c = new
  BY <1>4, <1>7, <1>8
<1>10. \A c, d \in Current' : c.scope = d.scope /\ c.plan = d.plan => c = d
  <2> SUFFICES ASSUME NEW c \in Current', NEW d \in Current', c.scope = d.scope, c.plan = d.plan
               PROVE  c = d
    OBVIOUS
  <2>1. CASE c.scope = p.scope
    BY <1>9, <2>1
  <2>2. CASE c.scope # p.scope
    <3>1. (\E x \in Current : c = next(x)) /\ (\E x \in Current : d = next(x))
      BY <1>4, <1>7, <1>8, <2>2
    <3> QED BY <1>8, <3>1
  <2> QED BY <2>1, <2>2
<1>11. \A c \in Current' :
            \/ c.plan = p /\ c.scope = p.scope
            \/ \E d \in Current : /\ d.scope # p.scope
                                  /\ c.scope = d.scope /\ c.plan = d.plan
  BY <1>4, <1>7, <1>8
<1>12. /\ \E c \in Current' : c.plan = p /\ c.scope = p.scope
       /\ \A d \in Current : d.scope # p.scope =>
            \E c \in Current' : c.scope = d.scope /\ c.plan = d.plan
  BY <1>4, <1>7, <1>8
<1> QED BY <1>10, <1>11, <1>12 DEF p

\* An edit keeps all of it when nothing that runs is different, and else nothing.
LEMMA CurrentAfterUpdate ==
    ASSUME Typed, SelectedInv, NEW P \in Parameters, Update(P)
    PROVE  /\ \A c \in Current' : /\ P = profile.parameters
                                  /\ \E d \in Current : c.scope = d.scope /\ c.plan = d.plan
           /\ \A c, d \in Current' : c.scope = d.scope /\ c.plan = d.plan => c = d
           /\ P = profile.parameters => \A d \in Current :
                \E c \in Current' : c.scope = d.scope /\ c.plan = d.plan
<1> DEFINE n == profile.revision + 1
           g == profile.generation + 1
           next(d) == [revision |-> n, generation |-> g, scope |-> d.scope, plan |-> d.plan]
<1>1. profile'.generation = g /\ profile'.revision = n
  BY NewRevisionTyped DEF Update
<1>2. \A d \in Current : [d EXCEPT !.revision = @ + 1, !.generation = @ + 1] = next(d)
  <2> SUFFICES ASSUME NEW d \in Current
               PROVE  [d EXCEPT !.revision = @ + 1, !.generation = @ + 1] = next(d)
    OBVIOUS
  <2>1. d \in SelectionType /\ d.revision = profile.revision /\ d.generation = profile.generation
    BY CurrentTyped
  <2>2. [d EXCEPT !.revision = @ + 1, !.generation = @ + 1]
            = [revision |-> d.revision + 1, generation |-> d.generation + 1,
               scope |-> d.scope, plan |-> d.plan]
    <3>1. PICK x : x = [d EXCEPT !.revision = @ + 1, !.generation = @ + 1]
      OBVIOUS
    <3>2. x = [revision |-> d.revision + 1, generation |-> d.generation + 1,
               scope |-> d.scope, plan |-> d.plan]
      BY <2>1, <3>1 DEF SelectionType
    <3> QED BY <3>1, <3>2
  <2> QED BY <2>1, <2>2
<1>3. \A x : x \in Carried(P) <=> P = profile.parameters /\ \E d \in Current : x = next(d)
  <2> SUFFICES ASSUME NEW x
               PROVE  x \in Carried(P) <=>
                        P = profile.parameters /\ \E d \in Current : x = next(d)
    OBVIOUS
  <2>1. x \in Carried(P) <=>
            /\ P = profile.parameters
            /\ \E d \in Current : x = [d EXCEPT !.revision = @ + 1, !.generation = @ + 1]
    BY DEF Carried
  <2> HIDE DEF next
  <2> QED BY <1>2, <2>1
<1>4. selections' = selections \cup Carried(P)
  BY DEF Update
<1>5. \A c \in Carried(P) : c.revision = n /\ c.generation = g
  BY <1>3
<1>6. Current' = Carried(P)
  BY <1>1, <1>4, <1>5, FreshGeneration
<1>7. /\ \A d : next(d).scope = d.scope /\ next(d).plan = d.plan
      /\ \A c, d : c.scope = d.scope /\ c.plan = d.plan => next(c) = next(d)
  OBVIOUS
<1> HIDE DEF next
<1> QED BY <1>3, <1>6, <1>7

\* Every other step of the owner that begins a generation selects nothing at it.
LEMMA CurrentAfterDiscard ==
    ASSUME Typed, SelectedInv,
           \/ Reset
           \/ \E c \in Current : Freeze(c)
           \/ \E r \in 1..MaxRevision : Restore(r)
    PROVE  Current' = {} /\ epoch' = epoch + 1
<1>1. selections' = selections \cup {} /\ epoch' = epoch + 1
  BY DEF Reset, Freeze, Restore
<1>2. profile'.generation = profile.generation + 1
  <2>1. CASE Reset
    BY <2>1 DEF Reset, Typed, TypeOK
  <2>2. ASSUME NEW P, NewRevision(P) PROVE profile'.generation = profile.generation + 1
    BY <2>2 DEF NewRevision
  <2> QED BY <2>1, <2>2 DEF Freeze, Restore
<1>3. Current' = {}
  BY <1>1, <1>2 DEF Current, SelectedAt, SelectedInv, Typed, TypeOK, SelectionType
<1> QED BY <1>1, <1>3

\* A measurement's run keeps the epoch it was admitted at.
LEMMA EvidenceEpochs ==
    ASSUME Typed, ObservedInv, [Next]_vars, NEW p \in plans, NEW o \in p.evidence
    PROVE  /\ o.execution \in Executions /\ Admitted(o.execution)
           /\ runs'[o.execution].epoch = runs[o.execution].epoch
           /\ runs'[o.execution].context = runs[o.execution].context
<1>1. o \in observations
  BY DEF Typed, TypeOK, Plan
<1>2. o.execution \in Executions
  BY <1>1 DEF Typed, TypeOK
<1>3. Admitted(o.execution)
  BY <1>1 DEF ObservedInv
<1>4. Constant(o.execution)
  BY <1>2, <1>3, StepGrows DEF Grows
<1> QED BY <1>2, <1>3, <1>4 DEF Constant

LEMMA SelectedKept ==
    ASSUME Typed, ObservedInv, SelectedInv, RunsInv, [Next]_vars
    PROVE  SelectedInv'
<1>1. Typed'
  BY TypesKept
<1>2. \A c \in selections' : c.generation <= profile'.generation
  <2>1. profile.generation \in Nat
    BY DEF Typed, TypeOK
  <2>2. profile'.generation \in {profile.generation, profile.generation + 1}
    BY GenerationsAdvance
  <2>3. \A c \in selections : c.generation \in Nat /\ c.generation <= profile.generation
    BY DEF SelectedInv, Typed, SelectionType
  <2>4. ASSUME NEW c \in selections', c \notin selections PROVE c.generation = profile'.generation
    <3>1. CASE UNCHANGED selections
      BY <2>4, <3>1
    <3>2. ASSUME NEW e \in Executions, NEW s \in StagesOf[e], Promotes(e, s)
          PROVE  c.generation = profile'.generation
      <4>1. c \in Advanced(Proposal(e, s))
        BY <2>4, <3>2 DEF Promotes
      <4>2. profile'.generation = profile.generation + 1
        BY <3>2 DEF Promotes, Typed, TypeOK
      <4>3. ASSUME NEW d \in Current, c = [d EXCEPT !.generation = @ + 1]
            PROVE  c.generation = profile.generation + 1
        BY <4>3, CurrentTyped DEF SelectionType
      <4> QED BY <4>1, <4>2, <4>3 DEF Advanced
    <3>3. ASSUME NEW P \in Parameters, Update(P)
          PROVE  c.generation = profile'.generation
      <4>1. c \in Carried(P)
        BY <2>4, <3>3 DEF Update
      <4>2. PICK d \in Current : c = [d EXCEPT !.revision = @ + 1, !.generation = @ + 1]
        BY <4>1 DEF Carried
      <4>3. profile'.generation = profile.generation + 1
        BY <3>3, NewRevisionTyped DEF Update
      <4> QED BY <4>2, <4>3, CurrentTyped DEF SelectionType
    <3> QED BY <3>1, <3>2, <3>3, LearnedEffect DEF Reset, Freeze, Restore
  <2>5. ASSUME NEW c \in selections' PROVE c.generation <= profile'.generation
    <3>1. CASE c \in selections
      BY <2>1, <2>2, <2>3, <3>1
    <3>2. CASE c \notin selections
      <4>1. c.generation = profile'.generation
        BY <2>4, <3>2
      <4> QED BY <2>1, <2>2, <4>1
    <3> QED BY <3>1, <3>2
  <2> QED BY <2>5
<1>3. ASSUME NEW c \in Current, NEW o \in c.plan.evidence
      PROVE  runs'[o.execution].epoch = epoch
  BY <1>3, CurrentTyped, EvidenceEpochs DEF SelectedInv
<1>4. CASE UNCHANGED <<profile, plans, selections, epoch>>
  <2>1. Current' = Current
    BY <1>4 DEF Current, SelectedAt
  <2> QED BY <1>2, <1>3, <1>4, <2>1 DEF SelectedInv
<1>5. ASSUME NEW e \in Executions, NEW s \in StagesOf[e], Promotes(e, s) PROVE SelectedInv'
  <2> DEFINE p == Proposal(e, s)
  <2>1. /\ p.scope = runs[e].context /\ p.evidence = Qualified(p.scope, p.candidate)
    BY ProposalTyped
  <2>2. /\ \A c \in Current' :
            \/ c.plan = p /\ c.scope = p.scope
            \/ \E d \in Current : /\ d.scope # p.scope
                                  /\ c.scope = d.scope /\ c.plan = d.plan
        /\ \A c, d \in Current' : c.scope = d.scope /\ c.plan = d.plan => c = d
    BY <1>5, CurrentAfterPromotion
  <2> HIDE DEF p
  <2>3. \A c, d \in Current' : c.scope = d.scope => c = d
    BY <2>2 DEF SelectedInv
  <2>4. UNCHANGED <<runs, epoch>>
    BY <1>5 DEF Promotes
  <2>5. ASSUME NEW o \in p.evidence PROVE runs[o.execution].epoch = epoch
    <3>1. o \in observations /\ o.generation = profile.generation
      BY <2>1, <2>5 DEF Qualified, Observed
    <3>2. Admitted(o.execution) /\ runs[o.execution].generation = profile.generation
      BY <3>1 DEF ObservedInv
    <3>3. o.execution \in Executions
      BY <3>1 DEF Typed, TypeOK
    <3> QED BY <3>2, <3>3 DEF RunsInv
  <2>6. \A c \in Current' : \A o \in c.plan.evidence : runs'[o.execution].epoch = epoch'
    BY <1>3, <2>2, <2>4, <2>5
  <2> QED BY <1>2, <2>3, <2>6 DEF SelectedInv
<1>6. ASSUME NEW P \in Parameters, Update(P) PROVE SelectedInv'
  <2>1. /\ \A c \in Current' : /\ P = profile.parameters
                               /\ \E d \in Current : c.scope = d.scope /\ c.plan = d.plan
        /\ \A c, d \in Current' : c.scope = d.scope /\ c.plan = d.plan => c = d
    BY <1>6, CurrentAfterUpdate
  <2>2. \A c, d \in Current' : c.scope = d.scope => c = d
    BY <2>1 DEF SelectedInv
  <2>3. P = profile.parameters => epoch' = epoch
    BY <1>6 DEF Update
  <2>4. \A c \in Current' : \A o \in c.plan.evidence : runs'[o.execution].epoch = epoch'
    BY <1>3, <2>1, <2>3
  <2> QED BY <1>2, <2>2, <2>4 DEF SelectedInv
<1>7. CASE \/ Reset
           \/ \E c \in Current : Freeze(c)
           \/ \E r \in 1..MaxRevision : Restore(r)
  BY <1>2, <1>7, CurrentAfterDiscard DEF SelectedInv
<1> QED BY <1>4, <1>5, <1>6, <1>7, LearnedEffect

-----------------------------------------------------------------------------
(* What is saved of the profile, and what runs hold of it. *)

\* A step of a run leaves the profile's row alone, or saves it as it is.
LEMMA SavedEffect ==
    ASSUME Typed, SavedInv, [Next]_vars
    PROVE  \/ /\ UNCHANGED <<profile.revision, profile.parameters>>
              /\ saved' = saved \/ saved' = [saved EXCEPT ![profile.revision] = profile.parameters]
           \/ \E P \in Parameters :
                /\ NewRevision(P)
                /\ \/ P = profile.parameters
                   \/ P.fixed = None
                   \/ \E c \in Current : \E o \in c.plan.evidence : P = Materialized(c.plan, o)
                   \/ \E r \in 1..MaxRevision : saved[r] # None /\ P = saved[r]
<1> DEFINE Kept == /\ UNCHANGED <<profile.revision, profile.parameters>>
                   /\ \/ saved' = saved
                      \/ saved' = [saved EXCEPT ![profile.revision] = profile.parameters]
<1>1. /\ profile \in [revision : 1..MaxRevision, generation : 1..MaxGeneration,
                      parameters : Parameters]
      /\ saved \in [1..MaxRevision -> Parameters \cup {None}]
  BY DEF Typed, TypeOK
<1>2. CASE UNCHANGED vars
  BY <1>2 DEF vars
<1>3. ASSUME NEW e \in Executions, NEW s \in StagesOf[e], StageStep(e, s) PROVE Kept
  <2>1. UNCHANGED saved
    BY <1>3, StepGrows, StageEffect DEF Next, RunStep
  <2>2. UNCHANGED <<profile.revision, profile.parameters>>
    BY <1>1, <1>3 DEF StageStep, StartStage, AttemptSucceeds, AttemptFails, Promote
  <2> QED BY <2>1, <2>2
<1>4. ASSUME NEW e \in Executions,
             ReadProfile(e) \/ RefuseAdmission(e) \/ Cancel(e) \/ Resume(e)
      PROVE  Kept
  BY <1>4 DEF ReadProfile, RefuseAdmission, Cancel, Resume
<1>5. ASSUME NEW e \in Executions, SnapshotAtAdmission(e) PROVE Kept
  <2>1. saved' = [saved EXCEPT ![profile.revision] =
                    IF saved[profile.revision] = None THEN profile.parameters
                    ELSE saved[profile.revision]]
    BY <1>5 DEF SnapshotAtAdmission, SaveRevision
  <2>2. saved' = [saved EXCEPT ![profile.revision] = profile.parameters]
    BY <2>1 DEF SavedInv
  <2>3. UNCHANGED profile
    BY <1>5 DEF SnapshotAtAdmission
  <2> QED BY <2>2, <2>3
<1>6. CASE Reset \/ \E c \in Contexts : SetDefaults(c)
  BY <1>1, <1>6 DEF Reset, SetDefaults
<1>7. ASSUME NEW c \in Current, Freeze(c)
      PROVE  \E o \in c.plan.evidence : /\ NewRevision(Materialized(c.plan, o))
                                        /\ Materialized(c.plan, o) \in Parameters
  BY <1>7, OwnerSets, CurrentTyped DEF Freeze
<1>8. ASSUME NEW r \in 1..MaxRevision, Restore(r)
      PROVE  saved[r] \in Parameters /\ NewRevision(saved[r]) /\ saved[r] # None
  BY <1>8, OwnerSets DEF Restore
<1>9. Update(profile.parameters) =>
        profile.parameters \in Parameters /\ NewRevision(profile.parameters)
  BY <1>1 DEF Update
<1>10. ASSUME NEW c \in Edits, NEW P \in {Learning(c), NotLearning(c)}, Update(P)
       PROVE  P \in Parameters /\ NewRevision(P) /\ P.fixed = None
  <2>1. P \in Parameters
    BY <1>10, OwnerSets
  <2>2. P.fixed = None
    BY <1>10 DEF Learning, NotLearning
  <2> QED BY <1>10, <2>1, <2>2 DEF Update
<1>11. CASE Next
  <2> HIDE DEF Kept
  <2>1. CASE OwnerStep
    <3>1. CASE Reset \/ \E c \in Contexts : SetDefaults(c)
      BY <1>6, <3>1
    <3>2. CASE Update(profile.parameters)
      BY <1>9, <3>2
    <3>3. CASE \E c \in Edits : Update(Learning(c)) \/ Update(NotLearning(c))
      BY <1>10, <3>3
    <3>4. CASE \E c \in Current : Freeze(c)
      BY <1>7, <3>4
    <3>5. CASE \E r \in 1..MaxRevision : Restore(r)
      BY <1>8, <3>5
    <3> QED BY <2>1, <3>1, <3>2, <3>3, <3>4, <3>5 DEF OwnerStep
  <2>2. CASE \E e \in Executions : RunStep(e)
    <3>1. Kept
      BY <1>3, <1>4, <1>5, <2>2 DEF RunStep
    <3> QED BY <3>1 DEF Kept
  <2> QED BY <1>11, <2>1, <2>2 DEF Next
<1> QED BY <1>2, <1>11

LEMMA SavedKept ==
    ASSUME Typed, ObservedInv, PlansInv, SavedInv, [Next]_vars PROVE SavedInv'
<1>1. /\ profile.revision \in 1..MaxRevision
      /\ saved \in [1..MaxRevision -> Parameters \cup {None}]
  BY DEF Typed, TypeOK
<1>2. \A P : Backed(P, plans) => Backed(P, plans')
  BY StepGrows DEF Grows, Backed
<1>3. ASSUME UNCHANGED <<profile.revision, profile.parameters>>,
             saved' = saved \/ saved' = [saved EXCEPT ![profile.revision] = profile.parameters]
      PROVE  SavedInv'
  <2>1. \A r \in 1..MaxRevision : saved'[r] = saved[r]
                \/ (r = profile.revision /\ saved'[r] = profile.parameters)
    <3>1. CASE saved' = saved
      BY <3>1
    <3>2. CASE saved' = [saved EXCEPT ![profile.revision] = profile.parameters]
      BY <1>1, <3>2
    <3> QED BY <1>3, <3>1, <3>2
  <2>2. \A r \in 1..MaxRevision : r > profile'.revision => saved'[r] = None
    BY <1>1, <1>3, <2>1 DEF SavedInv
  <2>3. saved'[profile'.revision] \in {None, profile'.parameters}
    BY <1>1, <1>3, <2>1 DEF SavedInv
  <2>4. Backed(profile'.parameters, plans')
    BY <1>2, <1>3 DEF SavedInv
  <2>5. \A r \in 1..MaxRevision : saved'[r] # None => Backed(saved'[r], plans')
    BY <1>2, <1>3, <2>1, <2>4 DEF SavedInv
  <2> QED BY <2>2, <2>3, <2>4, <2>5 DEF SavedInv
<1>4. ASSUME NEW P \in Parameters, NewRevision(P), Backed(P, plans)
      PROVE  SavedInv'
  <2> DEFINE n == profile.revision
  <2>1. /\ profile'.revision = n + 1 /\ profile'.parameters = P
        /\ saved'[n] = IF saved[n] = None THEN profile.parameters ELSE saved[n]
        /\ saved'[n + 1] = IF saved[n + 1] = None THEN P ELSE saved[n + 1]
        /\ \A r \in 1..MaxRevision : r \notin {n, n + 1} => saved'[r] = saved[r]
        /\ n + 1 \in 1..MaxRevision
    BY <1>4, NewRevisionTyped
  <2>2. saved[n + 1] = None
    BY <1>1, <2>1 DEF SavedInv
  <2>3. \A r \in 1..MaxRevision : r > profile'.revision => saved'[r] = None
    BY <1>1, <2>1 DEF SavedInv
  <2>4. saved'[profile'.revision] = P
    BY <2>1, <2>2
  <2>5. \A r \in 1..MaxRevision :
            saved'[r] = saved[r] \/ saved'[r] = P \/ saved'[r] = profile.parameters
    BY <2>1
  <2>6. \A r \in 1..MaxRevision : saved'[r] # None => Backed(saved'[r], plans')
    BY <1>2, <1>4, <2>5 DEF SavedInv
  <2> QED BY <1>2, <1>4, <2>1, <2>3, <2>4, <2>6 DEF SavedInv
<1>5. ASSUME NEW c \in Current, NEW o \in c.plan.evidence
      PROVE  Backed(Materialized(c.plan, o), plans)
  <2>1. c.plan \in plans /\ o \in observations /\ o.execution \in Executions
    BY CurrentTyped
  <2>2. o.scope = c.plan.scope /\ o.scope = runs[o.execution].context
    <3>1. Earned(c.plan)
      BY <2>1 DEF PlansInv
    <3>2. o.scope = c.plan.scope
      BY <3>1 DEF Earned
    <3> QED BY <2>1, <3>2 DEF ObservedInv
  <2>3. runs[o.execution].context \in Contexts
    BY <2>1 DEF Typed, RunType
  <2>4. runs[o.execution].context # Inherited
    BY <2>3, LearningAssumption DEF LearningAssumption
  <2> QED BY <2>1, <2>2, <2>4 DEF Backed, Materialized
<1>6. \A P : P.fixed = None => Backed(P, plans)
  BY DEF Backed
<1>7. Backed(profile.parameters, plans)
        /\ \A r \in 1..MaxRevision : saved[r] # None => Backed(saved[r], plans)
  BY DEF SavedInv
<1> QED BY <1>3, <1>4, <1>5, <1>6, <1>7, SavedEffect

\* A saved revision is never rewritten.
LEMMA SavedStays ==
    ASSUME Typed, SavedInv, [Next]_vars, NEW r \in 1..MaxRevision, saved[r] # None
    PROVE  saved'[r] = saved[r]
<1>1. /\ profile.revision \in 1..MaxRevision
      /\ saved \in [1..MaxRevision -> Parameters \cup {None}]
  BY DEF Typed, TypeOK
<1>2. CASE saved' = saved \/ saved' = [saved EXCEPT ![profile.revision] = profile.parameters]
  BY <1>1, <1>2 DEF SavedInv
<1>3. ASSUME NEW P \in Parameters, NewRevision(P) PROVE saved'[r] = saved[r]
  BY <1>3, NewRevisionTyped
<1> QED BY <1>2, <1>3, SavedEffect

\* How an execution that is not admitted moves.
LEMMA AdmissionEffect ==
    ASSUME Typed, [Next]_vars, NEW e \in Executions, ~ Admitted(e)
    PROVE  \/ runs'[e] = runs[e]
           \/ ReadProfile(e) \/ SnapshotAtAdmission(e) \/ RefuseAdmission(e)
<1>1. DOMAIN runs = Executions
  BY DEF Typed
<1>2. CASE UNCHANGED vars
  BY <1>2 DEF vars
<1>3. CASE OwnerStep
  BY <1>3 DEF OwnerStep, Reset, Update, Freeze, Restore, SetDefaults
<1>4. ASSUME NEW d \in Executions, NEW s \in StagesOf[d], StageStep(d, s)
      PROVE  runs'[e] = runs[e]
  BY <1>4, StepGrows, StageEffect DEF Next, RunStep
<1>5. ASSUME NEW d \in Executions, Cancel(d) \/ Resume(d)
      PROVE  runs'[e] = runs[e]
  BY <1>1, <1>5 DEF Cancel, Resume, Admitted
<1>6. ASSUME NEW d \in Executions, d # e,
             ReadProfile(d) \/ SnapshotAtAdmission(d) \/ RefuseAdmission(d)
      PROVE  runs'[e] = runs[e]
  BY <1>1, <1>6 DEF ReadProfile, SnapshotAtAdmission, RefuseAdmission
<1> QED BY <1>2, <1>3, <1>4, <1>5, <1>6 DEF Next, RunStep

LEMMA RunsKept ==
    ASSUME Typed, ObservedInv, SelectedInv, SavedInv, RunsInv, [Next]_vars
    PROVE  RunsInv'
<1>1. /\ profile.revision \in 1..MaxRevision /\ profile.generation \in 1..MaxGeneration
      /\ profile.parameters \in Parameters /\ MaxRevision \in Nat
  BY LearningAssumption DEF LearningAssumption, Typed, TypeOK
<1>2. \/ UNCHANGED <<profile, epoch>>
      \/ /\ profile'.generation = profile.generation + 1
         /\ profile'.revision \in {profile.revision, profile.revision + 1}
  BY GenerationsAdvance
<1>3. profile'.revision = profile.revision => profile'.parameters = profile.parameters
  <2>1. ASSUME NEW P \in Parameters, NewRevision(P) PROVE profile'.revision # profile.revision
    BY <1>1, <2>1, NewRevisionTyped
  <2> QED BY <2>1, SavedEffect
<1>4. \A e \in Executions : runs[e] \in RunType
  BY DEF Typed
<1>5. None \notin Parameters
  BY LearningAssumption DEF LearningAssumption
<1>6. ASSUME NEW e \in Executions, Admitted(e), Admitted(e)'
      PROVE  /\ runs'[e].revision \in 1..profile'.revision
             /\ runs'[e].generation \in 1..profile'.generation
             /\ saved'[runs'[e].revision] = runs'[e].parameters
             /\ runs'[e].generation = profile'.generation => runs'[e].epoch = epoch'
             /\ \A p \in runs'[e].learned : \A o \in p.evidence :
                    runs'[o.execution].epoch = runs'[e].epoch
  <2>1. Constant(e)
    BY <1>6, StepGrows DEF Grows
  <2>2. /\ runs[e].revision \in 1..profile.revision
        /\ runs[e].generation \in 1..profile.generation
        /\ saved[runs[e].revision] = runs[e].parameters
        /\ runs[e].generation = profile.generation => runs[e].epoch = epoch
        /\ \A p \in runs[e].learned : \A o \in p.evidence :
               runs[o.execution].epoch = runs[e].epoch
    BY <1>6 DEF RunsInv
  <2>3. runs'[e].revision \in 1..profile'.revision /\ runs'[e].generation \in 1..profile'.generation
    BY <1>1, <1>2, <2>1, <2>2 DEF Constant
  <2>4. saved'[runs'[e].revision] = runs'[e].parameters
    <3>1. runs[e].revision \in 1..MaxRevision /\ saved[runs[e].revision] # None
      BY <1>1, <1>4, <1>5, <2>2 DEF RunType
    <3> QED BY <2>1, <2>2, <3>1, SavedStays DEF Constant
  <2>5. runs'[e].generation = profile'.generation => runs'[e].epoch = epoch'
    BY <1>1, <1>2, <2>1, <2>2 DEF Constant
  <2>6. \A p \in runs'[e].learned : \A o \in p.evidence :
            runs'[o.execution].epoch = runs'[e].epoch
    <3>1. runs[e].learned \subseteq plans
      BY <1>4 DEF RunType
    <3> QED BY <2>1, <2>2, <3>1, EvidenceEpochs DEF Constant
  <2> QED BY <2>3, <2>4, <2>5, <2>6
<1>7. ASSUME NEW e \in Executions, ~ Admitted(e), SnapshotAtAdmission(e)
      PROVE  /\ runs'[e].state = "admitted"
             /\ runs'[e].revision \in 1..profile'.revision
             /\ runs'[e].generation \in 1..profile'.generation
             /\ saved'[runs'[e].revision] = runs'[e].parameters
             /\ runs'[e].generation = profile'.generation => runs'[e].epoch = epoch'
             /\ \A p \in runs'[e].learned : \A o \in p.evidence :
                    runs'[o.execution].epoch = runs'[e].epoch
  <2> DEFINE learned == IF runs[e].parameters.learn THEN {s.plan : s \in Current} ELSE {}
  <2>1. runs' = [runs EXCEPT ![e].state = "admitted",
        ![e].revision = profile.revision, ![e].generation = profile.generation,
        ![e].learned = learned, ![e].epoch = epoch]
    BY <1>7 DEF SnapshotAtAdmission
  <2>2. /\ runs[e].state = "admitting" /\ profile.revision = runs[e].revision
        /\ UNCHANGED <<profile, epoch>>
        /\ saved' = SaveRevision(saved, profile.revision, profile.parameters)
    BY <1>7 DEF SnapshotAtAdmission, AdmissionFence
  <2>3. \A p \in learned : \E c \in Current : p = c.plan
    OBVIOUS
  <2> HIDE DEF learned
  <2>4. /\ runs'[e].state = "admitted" /\ runs'[e].revision = profile.revision
        /\ runs'[e].generation = profile.generation /\ runs'[e].learned = learned
        /\ runs'[e].epoch = epoch /\ runs'[e].parameters = runs[e].parameters
    BY <1>4, <2>1 DEF Typed, RunType
  <2>5. saved'[profile.revision] = profile.parameters
    <3>1. saved' = [saved EXCEPT ![profile.revision] =
                    IF saved[profile.revision] = None THEN profile.parameters
                    ELSE saved[profile.revision]]
      BY <2>2 DEF SaveRevision
    <3>2. saved \in [1..MaxRevision -> Parameters \cup {None}]
      BY DEF Typed, TypeOK
    <3> QED BY <1>1, <3>1, <3>2 DEF SavedInv
  <2>6. runs[e].parameters = profile.parameters
    BY <2>2 DEF RunsInv
  <2>7. \A p \in learned : \A o \in p.evidence : runs'[o.execution].epoch = epoch
    BY <2>3, CurrentTyped, EvidenceEpochs DEF SelectedInv
  <2> QED BY <1>1, <2>2, <2>4, <2>5, <2>6, <2>7
<1>8. ASSUME NEW e \in Executions, runs'[e].state = "admitting"
      PROVE  /\ runs'[e].revision <= profile'.revision
             /\ runs'[e].revision = profile'.revision => runs'[e].parameters = profile'.parameters
  <2>1. ~ Admitted(e)
    BY <1>8, StepGrows DEF Grows, Constant, Admitted
  <2>2. CASE runs'[e] = runs[e]
    <3>1. /\ runs[e].revision <= profile.revision /\ runs[e].revision \in Nat
          /\ runs[e].revision = profile.revision => runs[e].parameters = profile.parameters
      BY <1>4, <1>8, <2>2 DEF RunsInv, RunType
    <3> QED BY <1>1, <1>2, <1>3, <2>2, <3>1
  <2>3. CASE ReadProfile(e)
    <3>1. /\ runs'[e].revision = profile.revision /\ runs'[e].parameters = profile.parameters
          /\ UNCHANGED profile
      BY <1>4, <2>3 DEF ReadProfile, Typed, RunType
    <3> QED BY <1>1, <3>1
  <2>4. ~ SnapshotAtAdmission(e)
    BY <1>7, <1>8, <2>1
  <2>5. ~ RefuseAdmission(e)
    BY <1>4, <1>8 DEF RefuseAdmission, Typed, RunType
  <2> QED BY <2>1, <2>2, <2>3, <2>4, <2>5, AdmissionEffect
<1>9. ASSUME NEW e \in Executions, ~ Admitted(e), Admitted(e)' PROVE SnapshotAtAdmission(e)
  <2>1. ~ ReadProfile(e) /\ ~ RefuseAdmission(e) /\ runs'[e] # runs[e]
    BY <1>4, <1>9 DEF ReadProfile, RefuseAdmission, Admitted, Typed, RunType
  <2> QED BY <1>9, <2>1, AdmissionEffect
<1>10. ASSUME NEW e \in Executions
       PROVE  Admitted(e)' =>
                /\ runs'[e].revision \in 1..profile'.revision
                /\ runs'[e].generation \in 1..profile'.generation
                /\ saved'[runs'[e].revision] = runs'[e].parameters
                /\ runs'[e].generation = profile'.generation => runs'[e].epoch = epoch'
                /\ \A p \in runs'[e].learned : \A o \in p.evidence :
                       runs'[o.execution].epoch = runs'[e].epoch
  <2>1. CASE Admitted(e)
    BY <1>6, <2>1
  <2>2. CASE ~ Admitted(e)
    BY <1>7, <1>9, <2>2
  <2> QED BY <2>1, <2>2
<1> QED BY <1>8, <1>10 DEF RunsInv

-----------------------------------------------------------------------------
(* The invariant and what follows from it. *)

LEMMA Initially == Init => IInv
<1> SUFFICES ASSUME Init PROVE IInv
  OBVIOUS
<1>1. PICK c \in Contexts \cup {Inherited} :
        profile = [revision |-> 1, generation |-> 1, parameters |-> Learning(c)]
  BY DEF Init
<1>2. /\ MaxRevision \in Nat \ {0} /\ MaxGeneration \in Nat \ {0}
      /\ 1 \in 1..MaxRevision /\ 1 \in 1..MaxGeneration
  BY LearningAssumption DEF LearningAssumption
<1>3. Learning(c) \in Parameters /\ Learning(c).fixed = None
  BY DEF Learning, Parameters
<1>4. profile.revision = 1 /\ profile.generation = 1 /\ profile.parameters = Learning(c)
  BY <1>1
<1>5. /\ inherited \in Contexts /\ epoch = 0
      /\ saved = [r \in 1..MaxRevision |-> IF r = 1 THEN profile.parameters ELSE None]
      /\ observations = {} /\ plans = {} /\ selections = {}
      /\ runs = [e \in Executions |->
                [state |-> "new", parameters |-> profile.parameters, context |-> inherited,
                 revision |-> 1, generation |-> 1, learned |-> {}, owner |-> 1, epoch |-> 0]]
      /\ stages = [e \in Executions |->
                [s \in StagesOf[e] |-> [state |-> "none", at |-> 1, attempts |-> 0, start |-> {}]]]
  BY DEF Init
<1>6. TypeOK
  BY <1>1, <1>2, <1>3, <1>4, <1>5 DEF TypeOK
<1>7. runs \in [Executions -> RunType]
  BY <1>3, <1>4, <1>5 DEF RunType
<1>8. DOMAIN stages = Executions /\ \A e \in Executions : stages[e] \in [StagesOf[e] -> StageType]
  BY <1>5, LadderDomain DEF StageType
<1>9. IsFiniteSet(observations)
  BY <1>5, FS_EmptySet
<1>10. Typed
  BY <1>5, <1>6, <1>7, <1>8, <1>9 DEF Typed
<1>11. \A e \in Executions : runs[e].state = "new"
  BY <1>5
<1>12. ObservedInv /\ AppendedInv /\ PlansInv /\ StartsInv
  BY <1>5 DEF ObservedInv, AppendedInv, PlansInv, StartsInv
<1>13. SelectedInv
  BY <1>5 DEF SelectedInv, Current, SelectedAt
<1>14. SavedInv
  BY <1>2, <1>3, <1>4, <1>5 DEF SavedInv, Backed
<1>15. RunsInv
  BY <1>11 DEF RunsInv, Admitted
<1> QED BY <1>10, <1>12, <1>13, <1>14, <1>15 DEF IInv

LEMMA Inductive == IInv /\ [Next]_vars => IInv'
BY TypesKept, ObservedKept, AppendedKept, PlansKept, SelectedKept, SavedKept, RunsKept,
   StartsKept DEF IInv

\* Every reachable state satisfies the inductive invariant.
THEOREM LearningInvariant == Spec => []IInv
<1>1. Init => IInv
  BY Initially
<1>2. IInv /\ [Next]_vars => IInv'
  BY Inductive
<1> QED BY <1>1, <1>2, PTL DEF Spec

\* A plan's evidence are stored observations, of runs still as they were then.
LEMMA EvidenceOfPlan ==
    ASSUME IInv, NEW p \in plans, NEW o \in p.evidence
    PROVE  /\ runs[o.execution].context = p.scope
           /\ runs[o.execution].revision = p.revision
           /\ runs[o.execution].generation = p.generation
<1>1. o \in observations
  BY DEF IInv, Typed, TypeOK, Plan
<1>2. Earned(p)
  BY DEF IInv, PlansInv
<1>3. o.scope = p.scope /\ o.revision = p.revision /\ o.generation = p.generation
  BY <1>2 DEF Earned
<1> QED BY <1>1, <1>3 DEF IInv, ObservedInv

\* One scope has one selection, earned by clean successes of different stages
\* and recordings, all measured with the plan's settings, and a shorter window
\* by a stage that succeeded with it after every full-window candidate had
\* failed (Promote and
\* validateWindowExhaustion in repository/adaptive_learning.go).
THEOREM SelectionsAreAlwaysEarned == Spec => []SelectionsAreEarned
<1>1. ASSUME IInv PROVE SelectionsAreEarned
  <2>1. TypeOK
    BY <1>1 DEF IInv, Typed
  <2>2. \A c, d \in Current : c.scope = d.scope => c = d
    BY <1>1 DEF IInv, SelectedInv
  <2>3. ASSUME NEW c \in Current PROVE c.plan \in plans /\ Earned(c.plan)
    <3>1. c.plan \in plans
      BY <1>1, CurrentTyped DEF IInv
    <3> QED BY <1>1, <3>1 DEF IInv, PlansInv
  <2>4. \A c \in Current : \A o \in c.plan.evidence :
            /\ runs[o.execution].context = c.plan.scope
            /\ runs[o.execution].revision = c.plan.revision
            /\ runs[o.execution].generation = c.plan.generation
    BY <1>1, <2>3, EvidenceOfPlan
  <2>5. ASSUME NEW c \in Current
        PROVE  LET p == c.plan
               IN /\ Cardinality({<<o.execution, o.stage>> : o \in p.evidence}) >= Measurements
                  /\ Cardinality({RecordingOf[o.execution] : o \in p.evidence}) >= 2
                  /\ \A o \in p.evidence :
                        /\ o.outcome = "succeeded" /\ o.quality = "clean"
                        /\ o.candidate = p.candidate /\ o.scope = p.scope
                        /\ runs[o.execution].context = p.scope
                        /\ runs[o.execution].revision = p.revision
                        /\ runs[o.execution].generation = p.generation
                  /\ p.candidate \notin FullWindow =>
                        \E o \in observations :
                            /\ o.outcome = "succeeded" /\ o.quality \in {"clean", "contended"}
                            /\ o.candidate = p.candidate /\ o.scope = p.scope
                            /\ \A f \in FullWindow : \E x \in p.exhaustion :
                                /\ x.execution = o.execution /\ x.stage = o.stage
                                /\ x.candidate = f /\ x.outcome = "out_of_memory"
    <3>1. Earned(c.plan)
      BY <2>3
    <3> QED BY <2>4, <3>1 DEF Earned
  <2>6. \A c, d \in Current : c.scope = d.scope => c = d
    BY <2>2
  <2> QED BY <2>1, <2>5, <2>6, Zenon DEF SelectionsAreEarned
<1> QED BY <1>1, LearningInvariant, PTL

\* A run works with the parameters of the revision it names, starts with what
\* was measured with its own settings since the owner last discarded it, and a
\* frozen profile runs what was measured (api/adaptive_policy_admission.go,
\* SelectStartingPlan, Update and Freeze).
THEOREM RunsUseTheirEvidence == Spec => []RunsUseTheirOwnEvidence
<1>1. ASSUME IInv PROVE RunsUseTheirOwnEvidence
  <2>1. ASSUME NEW e \in Executions, runs[e].state \in {"admitted", "cancelled"}
        PROVE  /\ saved[runs[e].revision] = runs[e].parameters
               /\ \A p \in runs[e].learned : \A o \in p.evidence :
                    runs[o.execution].epoch = runs[e].epoch
    BY <1>1, <2>1 DEF IInv, RunsInv, Admitted
  <2>2. ASSUME NEW e \in Executions, NEW s \in StagesOf[e], NEW p \in stages[e][s].start,
               NEW o \in p.evidence
        PROVE  runs[o.execution].context = runs[e].context
    <3>1. p.scope = runs[e].context
      BY <1>1 DEF IInv, StartsInv
    <3>2. p \in plans
      BY <1>1 DEF IInv, Typed, StageType
    <3> QED BY <1>1, <3>1, <3>2, EvidenceOfPlan
  <2>3. profile.parameters.fixed # None =>
            \E p \in plans :
                /\ p.candidate = profile.parameters.fixed
                /\ \A o \in p.evidence : runs[o.execution].context = Effective(profile.parameters)
    BY <1>1, EvidenceOfPlan DEF IInv, SavedInv, Backed, Effective
  <2> QED BY <2>1, <2>2, <2>3 DEF RunsUseTheirOwnEvidence
<1> QED BY <1>1, LearningInvariant, PTL

\* What is learned in one scope is not lost to a promotion in another or to an
\* edit that changes nothing that runs; until the owner discards it, it is only
\* ever replaced by a plan promoted after it (Promote and Update).
THEOREM LearningStays == Spec => LearningIsKept
<1>1. ASSUME IInv, [Next]_vars, epoch' = epoch, NEW c \in Current
      PROVE  \E d \in Current' : d.scope = c.scope /\ (d.plan = c.plan \/ d.plan \notin plans)
  <2>1. Typed /\ SelectedInv /\ PlansInv
    BY <1>1 DEF IInv
  <2>2. epoch + 1 # epoch
    BY <2>1 DEF Typed, TypeOK
  <2>3. CASE UNCHANGED <<profile, plans, selections, epoch>>
    BY <2>3 DEF Current, SelectedAt
  <2>4. ASSUME NEW e \in Executions, NEW s \in StagesOf[e], Promotes(e, s)
        PROVE  \E d \in Current' : d.scope = c.scope /\ (d.plan = c.plan \/ d.plan \notin plans)
    <3>1. Proposal(e, s) \notin plans
      <4>1. Proposal(e, s).generation = profile.generation /\ profile.generation \in Nat
        BY <2>1, ProposalTyped DEF Typed, TypeOK
      <4> QED BY <2>1, <4>1 DEF PlansInv
    <3> QED BY <2>1, <2>4, <3>1, CurrentAfterPromotion
  <2>5. ASSUME NEW P \in Parameters, Update(P)
        PROVE  \E d \in Current' : d.scope = c.scope /\ (d.plan = c.plan \/ d.plan \notin plans)
    <3>1. P = profile.parameters
      BY <1>1, <2>2, <2>5 DEF Update
    <3> QED BY <2>1, <2>5, <3>1, CurrentAfterUpdate
  <2> QED BY <1>1, <2>1, <2>2, <2>3, <2>4, <2>5, LearnedEffect, CurrentAfterDiscard
<1>2. IInv /\ [Next]_vars =>
        (epoch' = epoch => \A c \in Current :
            \E d \in Current' : d.scope = c.scope /\ (d.plan = c.plan \/ d.plan \notin plans))
  BY <1>1
<1>3. Spec => [][epoch' = epoch => \A c \in Current :
            \E d \in Current' : d.scope = c.scope /\ (d.plan = c.plan \/ d.plan \notin plans)]_vars
  BY <1>2, LearningInvariant, PTL DEF Spec
<1> QED BY <1>3 DEF LearningIsKept
=============================================================================
