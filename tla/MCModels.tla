------------------------------ MODULE MCModels -------------------------------
(***************************************************************************)
(* ModelDownloads on a small instance.                                     *)
(***************************************************************************)
EXTENDS ModelProperties

CONSTANTS m1, r1, f1

\* The run and the download share one model.
NeedsOne == [u \in Users |-> {m1}]
=============================================================================
