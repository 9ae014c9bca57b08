---------------------------- MODULE StageResults -----------------------------
(***************************************************************************)
(* What the checkpoint store promises a run: its results are the outputs   *)
(* of its stages in order, one each; they only ever grow, one at a time    *)
(* and only while the run is admitted; and once the recording is to be     *)
(* deleted nothing is added any more, until everything is gone for good.   *)
(***************************************************************************)
EXTENDS Naturals, Sequences

CONSTANTS
  Runs,           \* the runs of one recording
  Outputs,        \* what a stage may produce
  Length          \* stages of a run

VARIABLES
  results,        \* the outputs of each run, first stage first
  admitted,       \* runs that may still gain an output
  doomed,         \* the recording is to be deleted
  erased          \* its outputs are gone

vars == <<results, admitted, doomed, erased>>

Init ==
  /\ results = [r \in Runs |-> << >>]
  /\ admitted = {} /\ ~doomed /\ ~erased

Gain == \E r \in admitted, c \in Outputs :
  /\ Len(results[r]) < Length
  /\ results' = [results EXCEPT ![r] = Append(@, c)]
  /\ UNCHANGED <<admitted, doomed, erased>>

Admit ==
  /\ admitted' \in SUBSET Runs /\ (doomed => admitted' = {})
  /\ UNCHANGED <<results, doomed, erased>>

Doom == doomed' /\ admitted' = {} /\ UNCHANGED <<results, erased>>

Erase ==
  /\ doomed /\ erased'
  /\ results' = [r \in Runs |-> << >>]
  /\ UNCHANGED <<admitted, doomed>>

Next == Gain \/ Admit \/ Doom \/ Erase

Spec == Init /\ [][Next]_vars
=============================================================================
