----------------------------- MODULE MC_EnvView -----------------------------
(* A small instance of Storage, seen through one environment id. *)
EXTENDS EnvView, TLC

CONSTANTS p1, p2, prod, dev, k, v1, t

ProjectSymmetry == Permutations(ProjectSlugs)
=============================================================================
