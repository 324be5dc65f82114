------------------------------ MODULE MCUartTx ------------------------------
(* UartTx on a small instance; see the cfgs. *)
EXTENDS UartTx

CONSTANTS t1, t2, m0, m1, m2, m3

\* m0 has no bytes, m3 more than the FIFO holds.
MCLen == [m \in Msg |-> CASE m = m0 -> 0 [] m = m1 -> 1 [] m = m2 -> 2 [] OTHER -> 3]

MCWriter == [m \in Msg |-> IF m = m3 THEN t1 ELSE t2]
=============================================================================
