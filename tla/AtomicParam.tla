----------------------------- MODULE AtomicParam -----------------------------
(***************************************************************************)
(* What the parameter store promises its callers: one struct in memory and *)
(* one durable struct.  A commit replaces the durable struct as a whole,   *)
(* by the one in memory; a restart takes memory back to it.  Nothing else  *)
(* ever changes the durable struct: no power cut, however it falls, leaves *)
(* a mixture or an older version.                                          *)
(***************************************************************************)
CONSTANTS Struct,   \* the values of struct tls_sys_param
          Default   \* what a new device starts with

VARIABLES mem, durable

Init == mem = Default /\ durable = Default

\* tls_param_set on the struct in memory.
Update == mem' \in Struct /\ UNCHANGED durable

\* The write to flash takes effect.
Commit == durable' = mem /\ UNCHANGED mem

\* Power cut or reset.
Restart == mem' = durable /\ UNCHANGED durable

Next == Update \/ Commit \/ Restart

Spec == Init /\ [][Next]_<<mem, durable>>
=============================================================================
