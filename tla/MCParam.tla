------------------------------ MODULE MCParam ------------------------------
(* Instances of the parameter store for TLC. *)
EXTENDS ParamProperties, TLC

CONSTANTS main, t1, i1, i2, v0, v1

MCVal == {v0, v1}
MCFactory == [i \in Id |-> v0]
MCZero == [i \in Id |-> v1]
=============================================================================
