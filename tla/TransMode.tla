------------------------------ MODULE TransMode ------------------------------
(***************************************************************************)
(* UART 1 in transparent mode, app/wm_atcmd/wm_uart_task.c on the host     *)
(* interface task of WlTask.  The interrupt handler puts the bytes that    *)
(* arrive into a ring and posts the static message of the port; uart_rx    *)
(* passes them on to the socket when there are enough for a packet, and    *)
(* otherwise (re)starts a timer that passes on what is there when nothing  *)
(* more comes.                                                             *)
(*                                                                         *)
(* The bytes contain no "+++" of their own (which would leave the mode)    *)
(* and arrive without line errors.  Other tasks send the task callbacks    *)
(* that arm and cancel timers of an application.                           *)
(***************************************************************************)
EXTENDS WlTask

CONSTANTS
    Uart,        \* uart_rx_timeout_handler; other handlers are an application's
    Size,        \* TLS_UART_RX_BUF_SIZE
    CacheLimit,  \* RX_CACHE_LIMIT
    NetSize,     \* UART_NET_SEND_DATA_SIZE
    FifoMax,     \* most bytes an interrupt finds in the FIFO
    Load,        \* what may come: bytes with or without flow control, callbacks
                 \* in the mailbox at a time and timers of the application
    MaxErrors,   \* bound: how often the socket asks to wait
    Start        \* where in the ring the first byte goes

ASSUME TransModeAssumption ==
    /\ Uart \in Handler
    /\ Size \in Nat \ {0} /\ CacheLimit \in 1 .. Size
    /\ NetSize \in Nat \ {0} /\ FifoMax \in 1 .. CacheLimit
    /\ Load \subseteq [fc : BOOLEAN, bytes : Nat, posts : Nat, timers : Nat]
    /\ MaxErrors \in Nat /\ Start \in 0 .. Size - 1

VARIABLES
    load,        \* which of these
    rxOn,        \* rxstatus, and the receive interrupt not masked
    buf, head, tail,  \* recv
    cnt,         \* cbs.cnt of wl_msg[TLS_MSG_ID_UART1_RX]
    count,       \* remaincount of uart_net_send
    todo, after, \* timer requests the running code makes, and what comes next
    rx,          \* bytes that arrived, numbered from 1
    out,         \* bytes given to the socket
    errors,      \* how often the socket asked to wait
    overrun,     \* the handler threw bytes away
    lost         \* a message found no memory or no room

portVars == <<load, rxOn, buf, head, tail, cnt, rx, overrun>>
sendVars == <<count, todo, after, out, errors>>
vars == <<taskVars, portVars, sendVars, lost>>

Init ==
    /\ TaskInit
    /\ load \in Load
    /\ rxOn = TRUE
    /\ buf = [i \in 0 .. Size - 1 |-> 0] /\ head = Start /\ tail = Start
    /\ cnt = 0 /\ count = 0 /\ todo = <<>> /\ after = "again"
    /\ rx = 0 /\ out = <<>> /\ errors = 0
    /\ overrun = FALSE /\ lost = FALSE

\* CIRC_CNT and CIRC_SPACE.
CircCnt(h, t) == (h - t) % Size
CircSpace(h, t) == CircCnt(t, h + 1)

-----------------------------------------------------------------------------
(* The interrupt handler. *)

\* Fault: the message is posted although it waits in the mailbox.
RxCallbackAgain ==
    \/ Posted([type |-> "static"]) /\ cnt' = cnt + 1 /\ UNCHANGED lost
    \/ Full /\ lost' = TRUE /\ UNCHANGED <<mbox, cnt>>

\* tls_uart1_task_rx_cb: wake the task, unless it has yet to take the message.
RxCallback ==
    \/ cnt > 0 /\ UNCHANGED <<mbox, cnt, lost>>
    \/ cnt = 0 /\ Posted([type |-> "static"]) /\ cnt' = 1 /\ UNCHANGED lost
    \/ cnt = 0 /\ Full /\ lost' = TRUE /\ UNCHANGED <<mbox, cnt>>

\* UART1_IRQHandler, with n bytes in the FIFO.
RxIsr(n) ==
    /\ rxOn /\ rx + n <= load.bytes
    /\ LET drop == CircSpace(head, tail) <= CacheLimit IN
       /\ overrun' = (overrun \/ drop)
       /\ tail' = IF drop THEN (tail + CacheLimit) % Size ELSE tail
    /\ buf' = [i \in DOMAIN buf |->
                 IF CircCnt(i, head) < n THEN rx + 1 + CircCnt(i, head) ELSE buf[i]]
    /\ head' = (head + n) % Size
    /\ rx' = rx + n
    /\ RxCallback
    /\ UNCHANGED <<tmo, pc, job, waited, wrapped, wraps, load, rxOn, sendVars>>

-----------------------------------------------------------------------------
(* Timer requests of the code that runs in the task: tls_wl_task_add_timeout *)
(* and tls_wl_task_untimeout.                                                *)

Add(h) == [type |-> "timeout", h |-> h]
Del(h) == [type |-> "untimeout", h |-> h]

\* Fault: armed without being cancelled.
RestartAdds(h) == <<Add(h)>>

Restart(h) == <<Del(h), Add(h)>>

Then(requests, next) ==
    /\ todo' = requests
    /\ after' = next
    /\ pc' = "post" /\ job' = Nothing

\* A full mailbox stays full for the ten attempts of tls_mbox_post: nobody else
\* empties it.  The callers look at no result.  There may be no memory for the
\* message, or for the timer when the task takes the message (tls_timeout_p),
\* which is the same as a request that was lost.
Request ==
    /\ pc = "post" /\ todo # <<>>
    /\ todo' = Tail(todo)
    /\ \/ Posted(Head(todo)) /\ UNCHANGED lost
       \/ UNCHANGED mbox /\ lost' = TRUE
    /\ UNCHANGED <<tmo, pc, job, waited, wrapped, wraps, portVars, count, after, out, errors>>

Requested ==
    /\ pc = "post" /\ todo = <<>>
    /\ pc' = after /\ after' = "again"
    /\ UNCHANGED <<tmo, mbox, job, waited, wrapped, wraps, portVars, count, todo, out, errors,
                   lost>>

-----------------------------------------------------------------------------
(* uart_rx, uart_rx_timeout_handler and uart_net_send. *)

Calm == UNCHANGED <<tmo, mbox, waited, wrapped, wraps, lost>>

\* The message is counted off before uart_rx looks at the ring.
RunRx ==
    /\ Runs("static")
    /\ cnt' = cnt - 1
    /\ LET n == CircCnt(head, tail) IN
       IF n >= NetSize
       THEN count' = n /\ Then(<<Del(Uart)>>, "send")
       ELSE count' = 0 /\ Then(Restart(Uart), "again")
    /\ Calm /\ UNCHANGED <<load, rxOn, buf, head, tail, rx, overrun, out, errors>>

RunUartTimer ==
    /\ Runs("timer") /\ job.h = Uart
    /\ count' = CircCnt(head, tail)
    /\ pc' = (IF count' > 0 THEN "send" ELSE "again") /\ job' = Nothing
    /\ Calm /\ UNCHANGED <<portVars, todo, after, out, errors>>

Buflen == IF count >= NetSize THEN NetSize ELSE count

\* Fault: the ring is copied as if it did not wrap.
SendStraight ==
    /\ pc = "send"
    /\ out' = out \o [k \in 1 .. Buflen |-> buf[IF tail + k - 1 < Size THEN tail + k - 1 ELSE tail]]
    /\ pc' = "sent"
    /\ Calm /\ UNCHANGED <<job, portVars, count, todo, after, errors>>

\* The socket takes the bytes, or refuses them for good.
Send ==
    /\ pc = "send"
    /\ out' = out \o [k \in 1 .. Buflen |-> buf[(tail + k - 1) % Size]]
    /\ pc' = "sent"
    /\ Calm /\ UNCHANGED <<job, portVars, count, todo, after, errors>>

\* ERR_VAL: the bytes stay in the ring and the port may be silenced.  ERR_MEM
\* with flow control: uart_net_send waits and tries again.
SendWaits ==
    /\ pc = "send"
    /\ errors < MaxErrors /\ errors' = errors + 1
    /\ \/ /\ rxOn' = (rxOn /\ ~load.fc)
          /\ count' = 0
          /\ Then(Restart(Uart), "again")
       \/ load.fc /\ UNCHANGED <<pc, job, todo, after, count, rxOn>>
    /\ Calm /\ UNCHANGED <<load, buf, head, tail, cnt, rx, overrun, out>>

\* Fault: what is left after whole packets is not given a timer.
SentLeaves ==
    /\ pc = "sent"
    /\ tail' = (tail + Buflen) % Size
    /\ LET rest == count - Buflen IN
       IF rest >= NetSize
       THEN count' = rest /\ pc' = "send" /\ UNCHANGED <<job, todo, after>>
       ELSE count' = 0 /\ Then(<<>>, IF load.fc THEN "fc" ELSE "again")
    /\ Calm /\ UNCHANGED <<load, rxOn, buf, head, cnt, rx, overrun, out, errors>>

\* Whole packets first; what is left waits for the timer.
Sent ==
    /\ pc = "sent"
    /\ tail' = (tail + Buflen) % Size
    /\ LET rest == count - Buflen IN
       IF rest >= NetSize
       THEN count' = rest /\ pc' = "send" /\ UNCHANGED <<job, todo, after>>
       ELSE count' = 0 /\ Then(IF rest > 0 THEN Restart(Uart) ELSE <<>>,
                               IF load.fc THEN "fc" ELSE "again")
    /\ Calm /\ UNCHANGED <<load, rxOn, buf, head, cnt, rx, overrun, out, errors>>

SentFlow ==
    /\ pc = "fc"
    /\ LET room == CircSpace(head, tail) > Size \div 2 IN
       /\ rxOn' = (rxOn \/ room)
       /\ Then(IF room THEN <<>> ELSE Restart(Uart), "again")
    /\ Calm /\ UNCHANGED <<load, buf, head, tail, cnt, rx, overrun, count, out, errors>>

-----------------------------------------------------------------------------
(* An application that uses the task. *)

App == Handler \ {Uart}

AppTimers ==
    Len(SelectSeq(tmo, LAMBDA t : t.h \in App))
      + Len(SelectSeq(mbox, LAMBDA m : m.type = "timeout" /\ m.h \in App))

\* tls_wl_task_callback; a call that fails changes nothing.
PostCallback ==
    /\ Posted([type |-> "callback"])
    /\ Len(SelectSeq(mbox, LAMBDA m : m.type = "callback")) < load.posts
    /\ UNCHANGED <<tmo, pc, job, waited, wrapped, wraps, portVars, sendVars, lost>>

AppRequests ==
    {<<>>} \cup {<<Del(h)>> : h \in App}
      \cup (IF AppTimers < load.timers THEN {<<Add(h)>> : h \in App} ELSE {})

RunApp ==
    /\ \/ Runs("callback")
       \/ Runs("timer") /\ job.h \in App
    /\ \E r \in AppRequests : Then(r, "again")
    /\ Calm /\ UNCHANGED <<portVars, count, out, errors>>

-----------------------------------------------------------------------------

TaskStep == Fetch \/ Receive \/ Fire \/ RunTimeout \/ RunUntimeout
PortStep ==
    \/ Request \/ Requested \/ RunRx \/ RunUartTimer \/ Send \/ SendWaits \/ Sent
    \/ SentFlow \/ RunApp

Thread ==
    \/ TaskStep /\ UNCHANGED <<portVars, sendVars, lost>>
    \/ PortStep
OsTick == Tick /\ UNCHANGED <<portVars, sendVars, lost>>

Next ==
    \/ Thread \/ OsTick \/ PostCallback
    \/ \E n \in 1 .. FifoMax : RxIsr(n)

Spec == Init /\ [][Next]_vars

\* The task runs when it has work, and ticks do not always fall into the time
\* it works.
FairSpec == Spec /\ WF_vars(Thread) /\ SF_vars(OsTick /\ pc = "wait" /\ tmo # <<>>)

-----------------------------------------------------------------------------

TransTypeOK ==
    /\ TaskTypeOK
    /\ pc \in {"again", "wait", "run", "post", "send", "sent", "fc"}
    /\ load \in Load /\ rxOn \in BOOLEAN
    /\ buf \in [0 .. Size - 1 -> 0 .. load.bytes]
    /\ head \in 0 .. Size - 1 /\ tail \in 0 .. Size - 1
    /\ cnt \in {0, 1} /\ count \in 0 .. Size - 1
    /\ todo \in Seq(Message) /\ after \in {"again", "send", "fc"}
    /\ rx \in 0 .. load.bytes /\ out \in Seq(0 .. load.bytes)
    /\ errors \in 0 .. MaxErrors /\ overrun \in BOOLEAN /\ lost \in BOOLEAN

Ring == [k \in 1 .. CircCnt(head, tail) |-> buf[(tail + k - 1) % Size]]

\* As long as the handler has thrown nothing away, the bytes given to the
\* socket and those in the ring are the bytes that arrived: none is lost,
\* doubled or overtaken, although the handler fills the ring while
\* uart_net_send empties it.
ForwardedInOrder ==
    ~overrun =>
        LET sending == IF pc = "sent" THEN SubSeq(Ring, Buflen + 1, Len(Ring)) ELSE Ring
        IN out \o sending = [k \in 1 .. rx |-> k]

\* The receive timer is never armed twice: every restart cancels first.
OneUartTimer ==
    ~lost => \A i, j \in DOMAIN tmo : tmo[i].h = Uart /\ tmo[j].h = Uart => i = j

\* What the task is working on, and then what waits for it in the mailbox.
Item(m, box, k) == IF k = 0 THEN m ELSE box[k]

\* The receive timer is armed and no request to cancel it waits, or a request to
\* arm it waits and none to cancel it behind that.
Armable(m, box, list) ==
    \/ \E k \in 0 .. Len(box) : /\ Item(m, box, k) = Add(Uart)
                               /\ \A j \in k + 1 .. Len(box) : Item(m, box, j) # Del(Uart)
    \/ /\ \E k \in DOMAIN list : list[k].h = Uart
       /\ \A j \in 0 .. Len(box) : Item(m, box, j) # Del(Uart)

\* The same with the requests that the running code has yet to make.
TimerComing ==
    \/ \E k \in DOMAIN todo : todo[k] = Add(Uart)
    \/ /\ \A k \in DOMAIN todo : todo[k] # Del(Uart)
       /\ Armable(job, mbox, tmo)

\* As long as no byte and no message was lost, bytes in the ring are never
\* forgotten and a silenced port is not left silent: uart_net_send is at work, or
\* the message that wakes uart_rx waits, or the receive timer fires, runs or is
\* asked for, with nothing behind it that cancels it.
RxServed ==
    ~lost /\ ~overrun /\ (CircCnt(head, tail) > 0 \/ ~rxOn) =>
        \/ pc \in {"send", "sent", "fc"}
        \/ pc = "post" /\ after # "again"
        \/ \E k \in 0 .. Len(mbox) : Item(job, mbox, k).type = "static"
        \/ job = [type |-> "timer", h |-> Uart]
        \/ TimerComing

MaxBytes == Max({l.bytes : l \in Load})

\* Every byte that arrives is given to the socket, also the last ones that do
\* not fill a packet, and a port that was silenced listens again: the wakeup of
\* the task is never lost, and whenever bytes are left in the ring the timer is
\* running or about to be.
AllForwarded ==
    [](~overrun /\ ~lost) =>
        \A n \in 1 .. MaxBytes : rx >= n ~> (Len(out) >= n /\ rxOn)

\* Messages, however many of them come, do not starve the timers: when timers
\* are no longer cancelled, one fires again and again until none is armed.
TimersFire ==
    <>[](job.type # "untimeout") => []<>(tmo = <<>> \/ job.type = "timer")
=============================================================================
