---------------------------- MODULE SequentialRuns ----------------------------
(***************************************************************************)
(* What a recording's run queue promises its client, with no database, no  *)
(* worker and no failure in sight: accepted runs wait in a line, the first *)
(* of the line becomes the active run when there is none, a run ends once, *)
(* and only a failed run comes back, by an explicit resume.                *)
(***************************************************************************)
EXTENDS Naturals, Sequences, FiniteSets

CONSTANT Runs     \* the runs clients may ever add to this recording

VARIABLES
  line,           \* the waiting runs, next one first
  active,         \* the active run, if any
  ended           \* how each run ended: "no" until it does

vars == <<line, active, ended>>

Outcomes == {"completed", "failed", "cancelled"}
Waiting  == {line[p] : p \in 1..Len(line)}
Fresh    == {r \in Runs : ended[r] = "no"} \ (Waiting \cup active)

TypeOK ==
  /\ line \in Seq(Runs) /\ \A p, q \in 1..Len(line) : line[p] = line[q] => p = q
  /\ active \subseteq Runs /\ \A r, s \in active : r = s
  /\ ended \in [Runs -> Outcomes \cup {"no", "deleted"}]
  /\ Waiting \cap active = {}
  /\ \A r \in Waiting \cup active : ended[r] = "no"

Init == line = << >> /\ active = {} /\ ended = [r \in Runs |-> "no"]

\* The line l behind the active runs a either moves up or stays as it is.
MovesUp(l, a) ==
  \/ line' = l /\ active' = a
  \/ a = {} /\ l # << >> /\ line' = Tail(l) /\ active' = {Head(l)}

Add == \E r \in Fresh :
  MovesUp(Append(line, r), active) /\ UNCHANGED ended

Promote == MovesUp(line, active) /\ UNCHANGED ended

\* Clients rearrange and withdraw what waits, never what is active.
Reorder ==
  /\ line' \in {l \in [1..Len(line) -> Waiting] :
                  \A p, q \in 1..Len(line) : l[p] = l[q] => p = q}
  /\ UNCHANGED <<active, ended>>

\* r stands before s in the line l.
Ahead(l, r, s) == \E p, q \in 1..Len(l) : p < q /\ l[p] = r /\ l[q] = s

\* Those that are not withdrawn keep their order.
Withdraw == \E S \in SUBSET Waiting :
  /\ line' \in Seq(Waiting \ S)
  /\ \A r \in Waiting \ S : \E p \in 1..Len(line') : line'[p] = r
  /\ \A r, s \in Waiting \ S : Ahead(line', r, s) <=> Ahead(line, r, s)
  /\ ended' = [r \in Runs |-> IF r \in S THEN "cancelled" ELSE ended[r]]
  /\ UNCHANGED active

End == \E r \in active, outcome \in Outcomes :
  /\ ended' = [ended EXCEPT ![r] = outcome]
  /\ MovesUp(line, active \ {r})

Resume == \E r \in Runs :
  /\ active = {} /\ ended[r] = "failed"
  /\ ended' = [ended EXCEPT ![r] = "no"]
  /\ active' = {r}
  /\ UNCHANGED line

Delete ==
  /\ active = {} /\ line = << >>
  /\ ended' = [r \in Runs |-> IF ended[r] = "no" THEN "no" ELSE "deleted"]
  /\ UNCHANGED <<line, active>>

Next == Add \/ Promote \/ Reorder \/ Withdraw \/ End \/ Resume \/ Delete

Spec == Init /\ [][Next]_vars
=============================================================================
