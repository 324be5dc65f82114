----------------------------- MODULE MCTransMode -----------------------------
(* TransMode on a small instance; see uart_trans.cfg. *)
EXTENDS TransMode

CONSTANTS a1, a2

\* The line alone, the application alone, and a little of both.
MCLoad == {[fc |-> TRUE, bytes |-> 4, posts |-> 0, timers |-> 0],
           [fc |-> FALSE, bytes |-> 4, posts |-> 0, timers |-> 0],
           [fc |-> FALSE, bytes |-> 0, posts |-> 1, timers |-> 2],
           [fc |-> FALSE, bytes |-> 1, posts |-> 1, timers |-> 1]}

MCMsecs == [h \in Handler |-> CASE h = Uart -> 3 [] h = a1 -> 4 [] h = a2 -> 1]

\* The theorem about NeverEarly covers this instance.
ASSUME WholeTicks /\ CountedFar
=============================================================================
