------------------------------ MODULE MCServer -------------------------------
(***************************************************************************)
(* ServerExit on small instances.                                          *)
(***************************************************************************)
EXTENDS ServerProperties, TLC

CONSTANTS s1, k1, k2, q1, u1, c1, w1

\* Chunks differ in nothing but their number.
ChunksAlike == Permutations(Chunks)
=============================================================================
