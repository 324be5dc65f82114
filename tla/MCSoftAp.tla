------------------------------ MODULE MCSoftAp ------------------------------
(* SoftAp on a small instance; see the cfgs. *)
EXTENDS SoftAp, TLC

CONSTANTS s1, s2, s3

Symmetry == Permutations(Station)
=============================================================================
