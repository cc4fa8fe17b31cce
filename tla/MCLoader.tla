------------------------------ MODULE MCLoader ------------------------------
(* Instances of Loader for TLC. *)
EXTENDS Loader, TLC

CONSTANTS a1, a2, i1, i2

(* fwload processes are alike, and so are interfaces with the same driver. *)
Symmetry == Permutations(Admins) \cup Permutations(Ifaces)
=============================================================================
