------------------------ MODULE MCBackgroundService ------------------------
(***************************************************************************)
(* The default environment and an isolated one, with two commands at a     *)
(* time.                                                                   *)
(***************************************************************************)
EXTENDS BackgroundService, TLC

CONSTANTS c1, c2, p1, p2, p3
Symmetry == Permutations(Cli) \cup Permutations(Port)
=============================================================================
