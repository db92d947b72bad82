------------------------------ MODULE Permits ------------------------------
(***************************************************************************)
(* Counting the permits that are out.  The code keeps one number per lease *)
(* and one for the rest; the permits behind those numbers are written as a *)
(* set, permit i of holder h being <<h, i>>, so that sums over all leases  *)
(* are cardinalities.                                                      *)
(***************************************************************************)
EXTENDS Integers, FiniteSets

PermitsOf(Holders, capacity, held) ==
  {p \in Holders \X (1..capacity) : p[2] <= held[p[1]]}
=============================================================================
