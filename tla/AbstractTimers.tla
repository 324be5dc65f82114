--------------------------- MODULE AbstractTimers ---------------------------
(***************************************************************************)
(* What platform/common/task/wm_wl_timers.c promises its clients: timers   *)
(* in the order in which they fall due, equal ones in the order in which   *)
(* they were armed.  Time passes for all of them alike, only the first can *)
(* fire, and a cancelled one is forgotten without disturbing the others.   *)
(***************************************************************************)
EXTENDS Integers, Sequences, SequencesExt

CONSTANTS
    Handler,  \* timer handlers
    Msecs     \* per handler, the time it is armed with

VARIABLE timers   \* handlers with the milliseconds that are left

Init == timers = <<>>

Passes(list, d) == [i \in DOMAIN list |-> [list[i] EXCEPT !.left = @ - d]]

Arm(h) ==
    LET late == SelectInSeq(timers, LAMBDA t : t.left > Msecs[h])
        at == IF late = 0 THEN Len(timers) + 1 ELSE late
    IN timers' = InsertAt(timers, at, [h |-> h, left |-> Msecs[h]])

Cancel(h) ==
    LET at == SelectInSeq(timers, LAMBDA t : t.h = h)
    IN at # 0 /\ timers' = RemoveAt(timers, at)

Advance(d) == timers # <<>> /\ d <= Head(timers).left /\ timers' = Passes(timers, d)

Fire == timers # <<>> /\ timers' = Passes(Tail(timers), Head(timers).left)

Next ==
    \/ Fire
    \/ \E d \in 0 .. (IF timers = <<>> THEN 0 ELSE Head(timers).left) :
          Advance(d)
    \/ \E h \in Handler : Arm(h) \/ Cancel(h)

Spec == Init /\ [][Next]_timers
=============================================================================
