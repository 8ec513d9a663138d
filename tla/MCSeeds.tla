------------------------------- MODULE MCSeeds -------------------------------
(***************************************************************************)
(* An instance of Seeds: a manifest with two files in one plan of tenant A *)
(* and one plan of tenant B, three runs of scripts that may overlap, and   *)
(* two acts of users, who may hold the seeded plan's identifier and file   *)
(* name before the seeder comes.                                           *)
(***************************************************************************)
EXTENDS Seeds

CONSTANTS u1, u2, p1, p2, f1, f2, f3, r1, r2, r3

MCManifest == << [tenant |-> "A", plan |-> p1, name |-> f1],
                 [tenant |-> "A", plan |-> p1, name |-> f2],
                 [tenant |-> "B", plan |-> p2, name |-> f3] >>

MCOwnerSettings == {<<>>, <<u1>>, <<u1, u2>>}

MCUserPlans == {<<u1, p1>>}

RunSymmetry == Permutations(Runs)
=============================================================================
