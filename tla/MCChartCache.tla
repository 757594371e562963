---------------------------- MODULE MCChartCache ----------------------------
(***************************************************************************)
(* Instances of ChartCache for TLC.                                        *)
(***************************************************************************)
EXTENDS ChartCache, TLC

ReqSymmetry == Permutations(Reqs)

=============================================================================
