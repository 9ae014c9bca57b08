------------------------- MODULE LearningProperties -------------------------
(* What a profile's learning promises its owner. *)
EXTENDS AdaptiveLearning

Plan == [revision : 1..MaxRevision, generation : 1..MaxGeneration, scope : Contexts,
         candidate : Candidate, evidence : SUBSET observations, exhaustion : SUBSET observations]

TypeOK ==
    /\ profile \in [revision : 1..MaxRevision, generation : 1..MaxGeneration,
                    parameters : Parameters]
    /\ inherited \in Contexts /\ epoch \in Nat
    /\ saved \in [1..MaxRevision -> Parameters \cup {None}]
    /\ \A o \in observations : o.execution \in Executions /\ o.stage \in StagesOf[o.execution]
    /\ \A p \in plans : p \in Plan
    /\ \A c \in selections : c.plan \in plans /\ c.scope = c.plan.scope

\* One scope has one selection, and it was earned: the clean successes it
\* needs, of different stages and of two recordings or more, all measured with
\* the plan's settings by runs admitted at the generation it was promoted from;
\* a shorter window moreover by a stage that succeeded with it, perhaps beside
\* other programs, after it had failed at every full-window candidate.  No late promotion, edit or restart gives a profile another
\* (Promote and validateWindowExhaustion in repository/adaptive_learning.go).
SelectionsAreEarned ==
    /\ TypeOK
    /\ \A c, d \in Current : c.scope = d.scope => c = d
    /\ \A c \in Current :
        LET p == c.plan
        IN /\ Cardinality({<<o.execution, o.stage>> : o \in p.evidence}) >= Measurements
           /\ Cardinality({RecordingOf[o.execution] : o \in p.evidence}) >= 2
           /\ \A o \in p.evidence :
                /\ o.outcome = "succeeded" /\ o.quality = "clean"
                /\ o.candidate = p.candidate /\ o.scope = p.scope
                /\ runs[o.execution].context = p.scope
                /\ runs[o.execution].revision = p.revision
                /\ runs[o.execution].generation = p.generation
           /\ p.candidate \notin FullWindow =>
                \E o \in observations :
                    /\ o.outcome = "succeeded" /\ o.quality \in {"clean", "contended"}
                    /\ o.candidate = p.candidate /\ o.scope = p.scope
                    /\ \A f \in FullWindow : \E x \in p.exhaustion :
                        /\ x.execution = o.execution /\ x.stage = o.stage
                        /\ x.candidate = f /\ x.outcome = "out_of_memory"

\* A run works with the parameters of the revision it names, though it read
\* them before that revision's snapshot was taken; it starts with, and may
\* later fall back on, only what was measured with its own effective settings
\* since the owner last discarded what was learned; and a frozen profile runs
\* what was measured, whatever the user's defaults have become
\* (api/adaptive_policy_admission.go, SelectStartingPlan, Update and Freeze).
RunsUseTheirOwnEvidence ==
    /\ \A e \in Executions : runs[e].state \in {"admitted", "cancelled"} =>
        /\ saved[runs[e].revision] = runs[e].parameters
        /\ \A p \in runs[e].learned : \A o \in p.evidence :
            runs[o.execution].epoch = runs[e].epoch
        /\ \A s \in StagesOf[e] : \A p \in stages[e][s].start : \A o \in p.evidence :
            runs[o.execution].context = runs[e].context
    /\ profile.parameters.fixed # None =>
        \E p \in plans :
            /\ p.candidate = profile.parameters.fixed
            /\ \A o \in p.evidence : runs[o.execution].context = Effective(profile.parameters)

\* What is learned in one scope is not lost to a promotion in another or to an
\* edit that changes nothing that runs; until the owner discards it, it is only
\* ever replaced by a plan promoted after it (Promote and Update).
LearningIsKept ==
    [][epoch' = epoch => \A c \in Current :
        \E d \in Current' : d.scope = c.scope /\ (d.plan = c.plan \/ d.plan \notin plans)]_vars
=============================================================================
