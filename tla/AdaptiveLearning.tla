-------------------------- MODULE AdaptiveLearning --------------------------
(***************************************************************************)
(* What a profile learns from its runs: observations of stage attempts,    *)
(* plans promoted from them, the selection that a later run starts with,   *)
(* and the owner's edit, reset, freeze and restore, which discard it.      *)
(*                                                                         *)
(* repository/adaptive_learning.go and adaptive_learning_profiles.go are   *)
(* the transactions, transcription/adaptive_learning.go records what a     *)
(* stage did, api/adaptive_policy_admission.go admits a run.  There is one *)
(* profile.  Requests of the owner name the revision and generation they   *)
(* expect and change nothing when either has passed, so each is one step;  *)
(* an admission and a promotion act on what was read in an earlier step.   *)
(*                                                                         *)
(* A candidate stands for its settings, a context for everything else a    *)
(* scope's fingerprints and workload tell apart, and one memory domain for *)
(* both.  Byte counts, times and free memory are choices.                  *)
(***************************************************************************)
EXTENDS Naturals, FiniteSets, Sequences

CONSTANTS
    Executions,     \* runs of the profile
    RecordingOf,    \* the recording of each
    StagesOf,       \* its recognition stages, one per track
    Contexts,       \* effective settings of a user or of a profile
    Inherited,      \* the profile leaves its context to the user's defaults
    Ladder,         \* candidates in the order a stage tries them
    FullWindow,     \* those that keep the configured window
    Measurements,   \* clean successes that a plan needs, three in the code
    Edits,          \* contexts that an edit gives the profile
    Stoppable,      \* runs that may be stopped
    Resumable,      \* runs that may be resumed after a crash
    None,
    Qualities,      \* of a run's measurements: "clean", "contended", "unclear", "lost"
    MaxAttempts,    \* of each stage of a run
    MaxRevision, MaxGeneration, MaxOwner    \* bounds of the check

Candidate == {Ladder[i] : i \in DOMAIN Ladder}
Parameters == [context : Contexts \cup {Inherited}, fixed : Candidate \cup {None}, learn : BOOLEAN]

ASSUME LearningAssumption ==
    /\ Ladder \in Seq(Candidate) \ {<<>>}
    /\ FullWindow \subseteq Candidate /\ Ladder[1] \in FullWindow
    /\ Measurements \in Nat \ {0}
    /\ Edits \subseteq Contexts \cup {Inherited}
    /\ Inherited \notin Contexts
    /\ None \notin Contexts \cup {Inherited} \cup Candidate \cup Parameters
    /\ MaxRevision \in Nat \ {0} /\ MaxGeneration \in Nat \ {0}

VARIABLES
    profile,        \* its row: revision, learning generation, parameters
    inherited,      \* the user's default context
    saved,          \* immutable parameters of the saved revisions
    observations,   \* what attempts showed
    plans,          \* promoted plans, immutable
    selections,     \* the plan of each revision, generation and scope
    runs,           \* executions with their admission snapshot
    stages,         \* their recognition stages
    epoch           \* history: how often the owner discarded what was learned

vars == <<profile, inherited, saved, observations, plans, selections, runs, stages, epoch>>

Learning(c) == [context |-> c, fixed |-> None, learn |-> TRUE]

\* Learning switched off by the profile, or because its recovery policy is not
\* its own but the user's defaults (resolveExecutionPolicy).
NotLearning(c) == [Learning(c) EXCEPT !.learn = FALSE]

\* resolveTranscriptionContext: the profile's own context, or the user's.
Effective(parameters) ==
    IF parameters.context = Inherited THEN inherited ELSE parameters.context

SelectedAt(revision, generation) ==
    {s \in selections : s.revision = revision /\ s.generation = generation}
Current == SelectedAt(profile.revision, profile.generation)

Init ==
    /\ inherited \in Contexts
    /\ \E c \in Contexts \cup {Inherited} :
        profile = [revision |-> 1, generation |-> 1, parameters |-> Learning(c)]
    /\ saved = [r \in 1..MaxRevision |-> IF r = 1 THEN profile.parameters ELSE None]
    /\ observations = {} /\ plans = {} /\ selections = {}
    /\ runs = [e \in Executions |->
                [state |-> "new", parameters |-> profile.parameters, context |-> inherited,
                 revision |-> 1, generation |-> 1, learned |-> {}, owner |-> 1, epoch |-> 0]]
    /\ stages = [e \in Executions |->
                [s \in StagesOf[e] |-> [state |-> "none", at |-> 1, attempts |-> 0, start |-> {}]]]
    /\ epoch = 0

-----------------------------------------------------------------------------
(* Admission: the handler reads the profile and resolves its context, then *)
(* the snapshot is taken in a transaction fenced by the revision only.     *)

ReadProfile(e) ==
    /\ runs[e].state = "new"
    /\ runs' = [runs EXCEPT ![e].state = "admitting",
                            ![e].parameters = profile.parameters,
                            ![e].context = Effective(profile.parameters),
                            ![e].revision = profile.revision]
    /\ UNCHANGED <<profile, inherited, saved, observations, plans, selections, stages, epoch>>

RevisionMovedOn(e) == profile.revision >= runs[e].revision                    \* mutant
AdmissionFence(e) == profile.revision = runs[e].revision

\* saveProfileRevision: a revision is saved once and never rewritten.
SaveRevision(table, revision, parameters) ==
    [table EXCEPT ![revision] = IF @ = None THEN parameters ELSE @]

SnapshotAtAdmission(e) ==
    /\ runs[e].state = "admitting"
    /\ AdmissionFence(e)
    /\ saved' = SaveRevision(saved, profile.revision, profile.parameters)
    /\ runs' = [runs EXCEPT
        ![e].state = "admitted",
        ![e].revision = profile.revision,
        ![e].generation = profile.generation,
        ![e].learned = IF runs[e].parameters.learn THEN {s.plan : s \in Current} ELSE {},
        ![e].epoch = epoch]
    /\ UNCHANGED <<profile, inherited, observations, plans, selections, stages, epoch>>

\* The profile changed under the admission; its client has to reload it.
RefuseAdmission(e) ==
    /\ runs[e].state = "admitting"
    /\ ~ AdmissionFence(e)
    /\ runs' = [runs EXCEPT ![e].state = "new"]
    /\ UNCHANGED <<profile, inherited, saved, observations, plans, selections, stages, epoch>>

-----------------------------------------------------------------------------
(* A stage of an admitted run. *)

\* SelectStartingPlan: only from the run's own snapshot, only in the stage's
\* scope, and only when the memory measured now permits it.
StartingPlans(e) == {p \in runs[e].learned : p.scope = runs[e].context}

Rung(candidate) == CHOOSE i \in DOMAIN Ladder : Ladder[i] = candidate

\* Without a plan a stage starts with what is configured; once it has begun it
\* keeps its start, also when it is resumed.
StartStage(e, s) ==
    /\ runs[e].state = "admitted" /\ runs[e].parameters.learn
    /\ stages[e][s].state = "none"
    /\ \/ \E p \in StartingPlans(e) :
            stages' = [stages EXCEPT ![e][s] =
                [@ EXCEPT !.state = "running", !.at = Rung(p.candidate), !.start = {p}]]
       \/ stages' = [stages EXCEPT ![e][s].state = "running"]
    /\ UNCHANGED <<profile, inherited, saved, observations, plans, selections, runs, epoch>>

\* An attempt as AppendObservation stores it: "clean" is a qualified measurement,
\* "contended" a qualified one beside other programs, "unclear" any other.
Observation(e, s, outcome, quality) ==
    [execution |-> e, stage |-> s, revision |-> runs[e].revision,
     generation |-> runs[e].generation, owner |-> runs[e].owner, scope |-> runs[e].context,
     candidate |-> Ladder[stages[e][s].at], outcome |-> outcome, quality |-> quality]

\* A transaction of its own, never retried: an observation is "lost" when it
\* fails, or is refused for a deadline or measurements that do not match.
AppendObservation(e, s, outcome, quality) ==
    observations' = IF quality = "lost" THEN observations
                    ELSE observations \cup {Observation(e, s, outcome, quality)}

CanAttempt(e, s) ==
    /\ runs[e].state = "admitted" /\ stages[e][s].state = "running"
    /\ stages[e][s].attempts < MaxAttempts[e]

\* A measured success that was stored goes on to a promotion, also one that ran
\* beside other programs; it may be of no evidence itself.
AttemptSucceeds(e, s, quality) ==
    /\ CanAttempt(e, s)
    /\ AppendObservation(e, s, "succeeded", quality)
    /\ stages' = [stages EXCEPT ![e][s].state =
            IF quality \in {"clean", "contended"} THEN "appended" ELSE "done"]
    /\ UNCHANGED <<profile, inherited, saved, plans, selections, runs, epoch>>

\* What is tried next, if anything, is the ladder's choice (RecoveryLadder):
\* the same candidate again, or a lower one unless other programs are to blame.
AttemptFails(e, s, quality) ==
    /\ CanAttempt(e, s)
    /\ AppendObservation(e, s, "out_of_memory", quality)
    /\ LET tried == [stages[e][s] EXCEPT !.attempts = @ + 1]
       IN stages' \in {[stages EXCEPT ![e][s] = after] : after \in
            {[tried EXCEPT !.state = "done"]}
              \cup (IF tried.attempts < MaxAttempts[e] THEN {tried} ELSE {})
              \cup (IF tried.attempts < MaxAttempts[e] /\ quality # "contended" /\ tried.at < Len(Ladder)
                      THEN {[tried EXCEPT !.at = @ + 1]} ELSE {})}
    /\ UNCHANGED <<profile, inherited, saved, plans, selections, runs, epoch>>

\* A stop of the run; a promotion under way is not stopped by it.
Cancel(e) ==
    /\ e \in Stoppable /\ runs[e].state = "admitted"
    /\ runs' = [runs EXCEPT ![e].state = "cancelled"]
    /\ UNCHANGED <<profile, inherited, saved, observations, plans, selections, stages, epoch>>

\* The process dies and the run is resumed: a new owner, the same plan.
Resume(e) ==
    /\ e \in Resumable /\ runs[e].state = "admitted" /\ runs[e].owner < MaxOwner
    /\ \E s \in StagesOf[e] : stages[e][s].state \in {"running", "appended"}
    /\ runs' = [runs EXCEPT ![e].owner = @ + 1]
    /\ stages' = [stages EXCEPT ![e] = [s \in StagesOf[e] |->
            IF @[s].state = "appended" THEN [@[s] EXCEPT !.state = "done"] ELSE @[s]]]
    /\ UNCHANGED <<profile, inherited, saved, observations, plans, selections, epoch>>

-----------------------------------------------------------------------------
(* Promotion, in a transaction after the one that stored the observation.  *)

ProfileFence(e) ==
    profile.revision = runs[e].revision /\ profile.generation = runs[e].generation

\* What the present revision and generation of the profile observed of a candidate.
Observed(scope, candidate) ==
    {o \in observations : /\ o.revision = profile.revision /\ o.generation = profile.generation
                          /\ o.scope = scope /\ o.candidate = candidate}

Authorized(o) == runs[o.execution].state # "cancelled" /\ runs[o.execution].owner = o.owner

Succeeded(scope, candidate) ==                                                \* mutant
    {o \in Observed(scope, candidate) : o.outcome = "succeeded" /\ Authorized(o)}
Qualified(scope, candidate) ==
    {o \in Observed(scope, candidate) :
        o.outcome = "succeeded" /\ o.quality = "clean" /\ Authorized(o)}

\* A failure that no other program explains refuses the candidate.
Refuted(scope, candidate) ==
    \E o \in Observed(scope, candidate) : o.outcome # "succeeded" /\ o.quality # "contended"

Enough(evidence) ==
    Cardinality(evidence) >= Measurements /\ Cardinality({RecordingOf[o.execution] : o \in evidence}) >= 2

\* The capacity failures of this very stage at the full window.
Exhaustion(e, s) ==
    {o \in observations : /\ o.execution = e /\ o.stage = s /\ o.candidate \in FullWindow
                          /\ o.revision = profile.revision /\ o.generation = profile.generation
                          /\ o.outcome = "out_of_memory" /\ o.quality = "clean"}

\* validateWindowExhaustion: every candidate that keeps the window must have
\* failed, and every failure named must still be authorized.
WindowEarned(e, s, candidate) ==
    candidate \notin FullWindow =>
        /\ {o.candidate : o \in Exhaustion(e, s)} = FullWindow
        /\ \A o \in Exhaustion(e, s) : Authorized(o)

\* The plan that a finished attempt proposes.
Proposal(e, s) ==
    LET candidate == Ladder[stages[e][s].at]
    IN [revision |-> profile.revision, generation |-> profile.generation,
        scope |-> runs[e].context, candidate |-> candidate,
        evidence |-> Qualified(runs[e].context, candidate),
        exhaustion |-> IF candidate \in FullWindow THEN {} ELSE Exhaustion(e, s)]

Promotable(e, s, p) ==
    /\ ProfileFence(e)
    /\ ~ Refuted(p.scope, p.candidate)
    /\ Enough(p.evidence)
    /\ WindowEarned(e, s, p.candidate)
    /\ \A c \in Current : c.scope = p.scope => c.plan.candidate # p.candidate

AdvancedAlone(p) ==                                                           \* mutant
    {[revision |-> profile.revision, generation |-> profile.generation + 1,
      scope |-> p.scope, plan |-> p]}
\* The selections of the next generation: this scope's new one, the others as they are.
Advanced(p) ==
    {[c EXCEPT !.generation = @ + 1] : c \in {d \in Current : d.scope # p.scope}}
      \cup {[revision |-> profile.revision, generation |-> profile.generation + 1,
             scope |-> p.scope, plan |-> p]}

\* A plan that replaces another must improve on its memory or its time, which
\* is a choice here: the second disjunct.
Promote(e, s) ==
    /\ stages[e][s].state = "appended"
    /\ stages' = [stages EXCEPT ![e][s].state = "done"]
    /\ LET p == Proposal(e, s)
       IN \/ /\ Promotable(e, s, p) /\ profile.generation < MaxGeneration
             /\ plans' = plans \cup {p}
             /\ selections' = selections \cup Advanced(p)
             /\ profile' = [profile EXCEPT !.generation = @ + 1]
          \/ /\ Promotable(e, s, p) => \E c \in Current : c.scope = p.scope
             /\ UNCHANGED <<plans, selections, profile>>
    /\ UNCHANGED <<inherited, saved, observations, runs, epoch>>

-----------------------------------------------------------------------------
(* The owner. *)

\* Both the revision left and the one made are saved.
NewRevision(parameters) ==
    /\ profile.revision < MaxRevision /\ profile.generation < MaxGeneration
    /\ profile' = [revision |-> profile.revision + 1, generation |-> profile.generation + 1,
                   parameters |-> parameters]
    /\ saved' = SaveRevision(SaveRevision(saved, profile.revision, profile.parameters),
                             profile.revision + 1, parameters)

\* What an edit keeps: all of it when nothing that runs is different.
Carried(parameters) ==
    IF parameters = profile.parameters
      THEN {[c EXCEPT !.revision = @ + 1, !.generation = @ + 1] : c \in Current}
      ELSE {}

Update(parameters) ==
    /\ NewRevision(parameters)
    /\ selections' = selections \cup Carried(parameters)
    /\ epoch' = IF parameters = profile.parameters THEN epoch ELSE epoch + 1
    /\ UNCHANGED <<inherited, observations, plans, runs, stages>>

Reset ==
    /\ profile.generation < MaxGeneration
    /\ profile' = [profile EXCEPT !.generation = @ + 1]
    /\ epoch' = epoch + 1
    /\ UNCHANGED <<inherited, saved, observations, plans, selections, runs, stages>>

\* The effective settings of a run that measured the plan, not the profile's,
\* which may have inherited others since.
Materialized(plan, o) ==
    [context |-> runs[o.execution].context, fixed |-> plan.candidate, learn |-> FALSE]

Freeze(c) ==
    /\ \E o \in c.plan.evidence : NewRevision(Materialized(c.plan, o))
    /\ epoch' = epoch + 1
    /\ UNCHANGED <<inherited, observations, plans, selections, runs, stages>>

Restore(revision) ==
    /\ saved[revision] # None
    /\ NewRevision(saved[revision])
    /\ epoch' = epoch + 1
    /\ UNCHANGED <<inherited, observations, plans, selections, runs, stages>>

\* The user's defaults change; the profile's row does not.
SetDefaults(c) ==
    /\ c # inherited
    /\ inherited' = c
    /\ UNCHANGED <<profile, saved, observations, plans, selections, runs, stages, epoch>>

-----------------------------------------------------------------------------

StageStep(e, s) ==
    \/ StartStage(e, s)
    \/ \E q \in Qualities[e] : AttemptSucceeds(e, s, q)
    \/ \E q \in Qualities[e] : AttemptFails(e, s, q)
    \/ Promote(e, s)

RunStep(e) ==
    \/ ReadProfile(e) \/ SnapshotAtAdmission(e) \/ RefuseAdmission(e)
    \/ Cancel(e) \/ Resume(e)
    \/ \E s \in StagesOf[e] : StageStep(e, s)

OwnerStep ==
    \/ Reset
    \/ Update(profile.parameters)
    \/ \E c \in Edits : Update(Learning(c)) \/ Update(NotLearning(c))
    \/ \E c \in Current : Freeze(c)
    \/ \E r \in 1..MaxRevision : Restore(r)
    \/ \E c \in Contexts : SetDefaults(c)

Next == OwnerStep \/ \E e \in Executions : RunStep(e)

Spec == Init /\ [][Next]_vars
=============================================================================
