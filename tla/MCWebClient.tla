---------------------------- MODULE MCWebClient ----------------------------
(***************************************************************************)
(* Instances of WebClient for TLC.                                         *)
(***************************************************************************)
EXTENDS WebClient, TLC

PageSymmetry == Permutations(Runners) \union Permutations(Tasks)

=============================================================================
