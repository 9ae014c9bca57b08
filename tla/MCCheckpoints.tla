---------------------------- MODULE MCCheckpoints ----------------------------
(***************************************************************************)
(* Checkpoints on a small instance: two runs of one recording, so that the *)
(* second may take over what the first has left.                           *)
(***************************************************************************)
EXTENDS CheckpointProperties

CONSTANTS r1, e1, e2

OneRecording == [e \in Execs |-> r1]

\* The first run may be resumed once.
Owners == [e \in Execs |-> IF e = e1 THEN 2 ELSE 1]
=============================================================================
