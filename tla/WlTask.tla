------------------------------- MODULE WlTask -------------------------------
(***************************************************************************)
(* A task with a mailbox and timers, platform/common/task: task_thread     *)
(* (wm_wl_task.c) waits for a message and lets timers expire while it      *)
(* waits (wm_wl_timers.c over wm_wl_mbox.c).  The timers are a delta list: *)
(* the time of an entry counts from the entry before it, and only the time *)
(* spent waiting is taken off the first.                                   *)
(*                                                                         *)
(* Time is what the code sees of it, the ticks of the OS.  The counter of  *)
(* ticks wraps at 2^32 and the code then miscounts by one.                 *)
(***************************************************************************)
EXTENDS Integers, Sequences, SequencesExt

CONSTANTS
    Handler,   \* timer handlers
    Msecs,     \* per handler, the time it is armed with
    Hz,        \* ticks per second
    MboxSize,  \* messages the mailbox holds
    MaxWait,   \* bound: ticks a wait that ends takes
    MaxAge,    \* bound: what is counted of the ticks since a timer was armed
    MaxWraps   \* bound: how often the tick counter wraps

ASSUME WlTaskAssumption ==
    /\ Msecs \in [Handler -> Nat]
    /\ Hz \in 1 .. 1000
    /\ MboxSize \in Nat \ {0} /\ MaxWait \in Nat /\ MaxAge \in Nat /\ MaxWraps \in Nat

VARIABLES
    tmo,      \* next_timeout: handler and time; age and ahead are history:
              \* ticks since it was armed, timers that fired before it since
    mbox,     \* the mailbox
    pc,       \* where the task is
    job,      \* the message or the handler it is working on
    waited,   \* ticks since tick_start
    wrapped,  \* the tick counter wrapped since then
    wraps     \* how often it wrapped

taskVars == <<tmo, mbox, pc, job, waited, wrapped, wraps>>

Message ==
    [type : {"timeout", "untimeout"}, h : Handler] \cup [type : {"callback", "static"}]
Timer == [type : {"timer"}, h : Handler]
Nothing == [type |-> "none"]

TaskInit ==
    /\ tmo = <<>> /\ mbox = <<>>
    /\ pc = "again" /\ job = Nothing
    /\ waited = 0 /\ wrapped = FALSE /\ wraps = 0

-----------------------------------------------------------------------------
(* tls_arch_mbox_fetch. *)

\* Ticks to wait for a number of milliseconds other than 0.
InTimeout(ms) == LET n == (ms * Hz) \div 1000 IN IF n = 0 THEN 1 ELSE n

\* Milliseconds waited.  0xFFFFFFFF - tick_start + tick_stop is one too few.
Elapsed == ((IF wrapped THEN waited - 1 ELSE waited) * 1000) \div Hz

-----------------------------------------------------------------------------
(* The delta list. *)

\* timeout->time after the walk of tls_timeout_p has passed k entries.
Rest(list, h) ==
    LET rest[k \in 0 .. Len(list)] ==
            IF k = 0 THEN Msecs[h] ELSE rest[k - 1] - list[k].time
    IN rest

\* The walk stops before the first entry that is due later.
Passed(list, h) ==
    Min({k \in 0 .. Len(list) : k = Len(list) \/ list[k + 1].time > Rest(list, h)[k]})

Armed(list, h) ==
    [h |-> h, time |-> Rest(list, h)[Passed(list, h)], age |-> 0, ahead |-> 0]

\* Fault: the entry that follows keeps its time.
TimeoutForgets(list, h) == InsertAt(list, Passed(list, h) + 1, Armed(list, h))

\* tls_timeout_p.
Timeout(list, h) ==
    LET at == Passed(list, h)
        new == Armed(list, h)
        later == [i \in DOMAIN list |->
                    IF i = at + 1 THEN [list[i] EXCEPT !.time = @ - new.time] ELSE list[i]]
    IN InsertAt(later, at + 1, new)

\* tls_untimeout_p.
Untimeout(list, h) ==
    LET at == SelectInSeq(list, LAMBDA t : t.h = h)
        later == [i \in DOMAIN list |->
                    IF i = at + 1 THEN [list[i] EXCEPT !.time = @ + list[at].time] ELSE list[i]]
    IN IF at = 0 THEN list ELSE RemoveAt(later, at)

\* Fault: what was waited is not taken off the first entry.
WaitedForgets(list) == list

\* A message came: the time waited is taken off the first entry.
Waited(list) ==
    IF list = <<>> THEN list
    ELSE [list EXCEPT ![1].time = IF Elapsed < @ THEN @ - Elapsed ELSE 0]

-----------------------------------------------------------------------------
(* tls_timeouts_mbox_fetch_p and task_thread. *)

Fetch ==
    /\ pc = "again"
    /\ tmo # <<>> => Head(tmo).time > 0
    /\ pc' = "wait"
    /\ waited' = 0 /\ wrapped' = FALSE
    /\ UNCHANGED <<tmo, mbox, job, wraps>>

Receive ==
    /\ pc = "wait" /\ mbox # <<>>
    /\ job' = Head(mbox) /\ mbox' = Tail(mbox)
    /\ tmo' = Waited(tmo)
    /\ pc' = "run"
    /\ waited' = 0 /\ wrapped' = FALSE
    /\ UNCHANGED wraps

\* Fault: the wait for the first timer is over a tick too soon.
TimesOutEarly == waited + 1 >= InTimeout(Head(tmo).time)

\* The wait for a message took as long as the first timer allows.
TimesOut == waited >= InTimeout(Head(tmo).time)

CapAge(n) == IF n < MaxAge THEN n ELSE MaxAge
Ahead(n) == IF pc = "wait" THEN CapAge(n + 1) ELSE n

Fire ==
    /\ tmo # <<>>
    /\ \/ pc = "again" /\ Head(tmo).time = 0
       \/ pc = "wait" /\ mbox = <<>> /\ TimesOut
    /\ job' = [type |-> "timer", h |-> Head(tmo).h]
    /\ tmo' = [i \in 1 .. Len(tmo) - 1 |->
                 [tmo[i + 1] EXCEPT !.ahead = Ahead(@)]]
    /\ pc' = "run"
    /\ waited' = 0 /\ wrapped' = FALSE
    /\ UNCHANGED <<mbox, wraps>>

Runs(type) == pc = "run" /\ job.type = type

\* TASK_MSG_TIMEOUT and TASK_MSG_UNTIMEOUT.
RunTimeout ==
    /\ Runs("timeout")
    /\ tmo' = Timeout(tmo, job.h)
    /\ pc' = "again" /\ job' = Nothing
    /\ UNCHANGED <<mbox, waited, wrapped, wraps>>

RunUntimeout ==
    /\ Runs("untimeout")
    /\ tmo' = Untimeout(tmo, job.h)
    /\ pc' = "again" /\ job' = Nothing
    /\ UNCHANGED <<mbox, waited, wrapped, wraps>>

\* The OS counts a tick.
Tick ==
    /\ pc = "wait" /\ tmo # <<>> => waited < MaxWait
    /\ tmo' = [i \in DOMAIN tmo |-> [tmo[i] EXCEPT !.age = CapAge(@ + 1)]]
    /\ IF pc = "wait" /\ tmo # <<>>
       THEN /\ waited' = waited + 1
            /\ \/ wrapped' = wrapped /\ wraps' = wraps
               \/ wraps < MaxWraps /\ wrapped' = TRUE /\ wraps' = wraps + 1
       ELSE UNCHANGED <<waited, wrapped, wraps>>
    /\ UNCHANGED <<mbox, pc, job>>

\* Messages the mailbox takes.
Posted(m) == Len(mbox) < MboxSize /\ mbox' = Append(mbox, m)
Full == Len(mbox) >= MboxSize

-----------------------------------------------------------------------------

TaskTypeOK ==
    /\ tmo \in Seq([h : Handler, time : Nat, age : 0 .. MaxAge, ahead : 0 .. MaxAge])
    /\ mbox \in Seq(Message) /\ Len(mbox) <= MboxSize
    /\ job \in Message \cup Timer \cup {Nothing}
    /\ waited \in 0 .. MaxWait /\ wrapped \in BOOLEAN /\ wraps \in 0 .. MaxWraps

\* The delta list stands for the time left of each timer, the sum of the times
\* up to its entry.
TimeLeft(list) ==
    LET sum[k \in 0 .. Len(list)] == IF k = 0 THEN 0 ELSE sum[k - 1] + list[k].time
    IN sum

Timers(list) ==
    LET left == TimeLeft(list)
    IN [k \in DOMAIN list |-> [h |-> list[k].h, left |-> left[k]]]

Abs == INSTANCE AbstractTimers WITH timers <- Timers(tmo)

\* Whatever comes between, timers fire in the order in which they fall due,
\* arming one leaves the others where they are, and cancelling one gives its
\* time to the next: tls_timeout_p, tls_untimeout_p and the mailbox wait
\* together keep the list of timers their clients think of.
ImplementsTimers == Abs!Spec

\* A timer fires no sooner than the time it was armed for, less what rounding
\* milliseconds to ticks loses at it and at the timers before it that the task
\* had to wait for: under one tick each.
NeverEarly ==
    [][Fire => LET t == Head(tmo) IN
               t.age * 1000 + (t.ahead + 1) * (1000 - Hz) >= Msecs[t.h] * Hz]_taskVars

\* What it takes: a tick is a whole number of milliseconds, and MaxAge lets the
\* history fields count as far as the inequality needs them to.
WholeTicks == 1000 % Hz = 0
CountedFar == \A h \in Handler : Msecs[h] * Hz <= MaxAge * 1000
=============================================================================
