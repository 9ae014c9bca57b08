----------------------------- MODULE MCLearning -----------------------------
(* A profile that two earlier runs taught a plan for what is now not its    *)
(* user's default; two runs admitted since, and a third to come.            *)
EXTENDS LearningProperties, TLC

CONSTANTS x1, x2, e1, e2, e3, r1, r2, t1, home, away

MCExecutions == {x1, x2, e1, e2, e3}
MCRecordingOf == (x1 :> r1) @@ (x2 :> r2) @@ (e1 :> r1) @@ (e2 :> r2) @@ (e3 :> r1)
MCStagesOf == (x1 :> {t1}) @@ (x2 :> {t1}) @@ (e1 :> {t1}) @@ (e2 :> {t1}) @@ (e3 :> {t1})
MCAttempts == (x1 :> 1) @@ (x2 :> 1) @@ (e1 :> 2) @@ (e2 :> 2) @@ (e3 :> 0)
MCQualities == [e \in MCExecutions |->
    IF e = e1 THEN {"clean", "contended", "unclear"} ELSE {"clean"}]
MCLadderOf == <<"full", "short">>

\* What the earlier runs left behind.
Earlier == {x1, x2}
Shown == [execution : Earlier, stage : {t1}, revision : {1}, generation : {1}, owner : {1},
          scope : {away}, candidate : {"full"}, outcome : {"succeeded"}, quality : {"clean"}]
Learned == [revision |-> 1, generation |-> 1, scope |-> away, candidate |-> "full",
            evidence |-> Shown, exhaustion |-> {}]

MCInit ==
    /\ inherited = home /\ epoch = 0
    /\ profile = [revision |-> 1, generation |-> 2, parameters |-> Learning(Inherited)]
    /\ saved = [r \in 1..MaxRevision |-> IF r = 1 THEN profile.parameters ELSE None]
    /\ observations = Shown /\ plans = {Learned}
    /\ selections = {[revision |-> 1, generation |-> 2, scope |-> away, plan |-> Learned]}
    /\ runs = [e \in Executions |->
                [state |-> IF e = e3 THEN "new" ELSE "admitted",
                 parameters |-> profile.parameters,
                 context |-> IF e \in Earlier THEN away ELSE home,
                 revision |-> 1, generation |-> IF e \in {e1, e2} THEN 2 ELSE 1,
                 learned |-> IF e \in {e1, e2} THEN {Learned} ELSE {},
                 owner |-> 1, epoch |-> 0]]
    /\ stages = [e \in Executions |-> [s \in StagesOf[e] |->
                [state |-> IF e \in Earlier THEN "done" ELSE "none",
                 at |-> 1, attempts |-> 0, start |-> {}]]]

MCSpec == MCInit /\ [][Next]_vars
=============================================================================
