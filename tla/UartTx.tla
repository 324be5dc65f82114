------------------------------- MODULE UartTx -------------------------------
(***************************************************************************)
(* The transmit side of the UART driver, platform/drivers/uart/wm_uart.c:  *)
(* tasks queue messages on tx_msg_pending_list, tasks and the interrupt    *)
(* handler move their bytes into the FIFO, and a message that is in the    *)
(* FIFO completely goes to tx_msg_to_be_freed_list.  It is freed at once   *)
(* (tx_callback = tls_uart_free_tx_sent_data, the default) or by the host  *)
(* interface task, which is woken with the static message of               *)
(* platform/common/task/wm_wl_task.c (tx_callback = uart_tx_sent_callback, *)
(* app/wm_atcmd/wm_uart_task.c).                                           *)
(*                                                                         *)
(* The handler is not interrupted by tasks, only the hardware goes on      *)
(* while it runs.  A critical section is one step.  The hardware is        *)
(* external: it latches an event in UR_INTS when it happens.  (Were the    *)
(* bits levels, a port with nothing to send would interrupt for ever: the  *)
(* code never masks them.)                                                 *)
(***************************************************************************)
EXTENDS Integers, Sequences, FiniteSets, SequencesExt

CONSTANTS
    Task,       \* tasks that write to the port
    Host,       \* the host interface task, one of them
    Msg,        \* messages, each written once
    MsgLen,     \* per message, buflen
    Writer,     \* per message, the task that writes it
    FifoFull,   \* tx_fifofull
    Burst,      \* tx_count, bytes moved at a time
    Trigger,    \* level of the FIFO at which the hardware latches UIS_TX_FIFO
    Callback,   \* values of tx_callback: "direct", "posted"
    FlowCtrl,   \* opts.flow_ctrl is HARDWARE and the port is UART 1
    ClearLate,  \* the handler is UART2_4_IRQHandler
    MayFill     \* the mailbox may be full

ASSUME UartTxAssumption ==
    /\ Host \in Task
    /\ MsgLen \in [Msg -> Nat]
    /\ Writer \in [Msg -> Task]
    /\ FifoFull \in Nat \ {0} /\ Burst \in Nat \ {0} /\ Trigger \in Nat
    /\ Callback \subseteq {"direct", "posted"}
    /\ FlowCtrl \in BOOLEAN /\ ClearLate \in BOOLEAN
    /\ MayFill \in BOOLEAN

VARIABLES
    callback,  \* tx_callback
    pending,   \* tx_msg_pending_list: messages with their offset
    sent,      \* tx_msg_to_be_freed_list
    fifo,      \* bytes in the FIFO
    wire,      \* bytes that went out
    ints,      \* UR_INTS: latched events
    src,       \* intr_src of the handler
    isr,       \* where the handler is
    cts,       \* the peer is ready
    fc,        \* fcStatus is HARDWARE
    stopped,   \* hw_stopped, and the transmitter disabled
    pc, reg,   \* per task, where it is and the register that holds cnt
    cnt,       \* cbs.cnt of wl_msg[TLS_MSG_ID_UART_SENT_FREE]
    queued,    \* how often that message is in the mailbox
    order,     \* messages accepted so far, in order, each with the number of
               \* bytes accepted before it
    freed      \* per message, how often it was freed

lists == <<pending, sent, fifo>>
line == <<cts, fc, stopped>>
static == <<cnt, queued, reg>>
vars == <<callback, pending, sent, fifo, wire, ints, src, isr, cts, fc, stopped,
          pc, cnt, queued, reg, order, freed>>

Init ==
    /\ callback \in Callback
    /\ pending = <<>> /\ sent = <<>> /\ fifo = <<>> /\ wire = <<>>
    /\ ints = {} /\ src = {} /\ isr = "off"
    /\ cts = TRUE /\ fc = FALSE /\ stopped = FALSE
    /\ pc = [t \in Task |-> "idle"] /\ reg = [t \in Task |-> 0]
    /\ cnt = 0 /\ queued = 0
    /\ order = <<>>
    /\ freed = [m \in Msg |-> 0]

-----------------------------------------------------------------------------
(* tls_uart_tx_chars and tls_uart_tx_chars_start. *)

Bytes(m, from, to) == [k \in 1 .. to - from |-> <<m, from + k>>]

\* Fault: the level of the FIFO is not looked at.
RoomUnlimited == LET e == Head(pending) IN Min({MsgLen[e.msg] - e.off, Burst})

\* Bytes of the first message that go into the FIFO.
Room == LET e == Head(pending)
        IN Min({MsgLen[e.msg] - e.off, Burst, FifoFull - Len(fifo)})

Finishes == pending # <<>> /\ Head(pending).off + Room >= MsgLen[Head(pending).msg]

\* Fault: a message is done when the FIFO is full.
TxCharsDropsTail ==
    IF pending = <<>> THEN UNCHANGED lists
    ELSE LET e == Head(pending) IN
         /\ fifo' = fifo \o Bytes(e.msg, e.off, e.off + Room)
         /\ pending' = Tail(pending) /\ sent' = Append(sent, e.msg)

TxChars ==
    IF pending = <<>> THEN UNCHANGED lists
    ELSE LET e == Head(pending) IN
         /\ fifo' = fifo \o Bytes(e.msg, e.off, e.off + Room)
         /\ IF Finishes
            THEN pending' = Tail(pending) /\ sent' = Append(sent, e.msg)
            ELSE pending' = [pending EXCEPT ![1].off = @ + Room] /\ sent' = sent

-----------------------------------------------------------------------------
(* Tasks: tls_uart_write_async, or uart_tx in the host interface task. *)

Runs(t, at) == isr = "off" /\ pc[t] = at
Goto(t, to) == pc' = [pc EXCEPT ![t] = to]

Unused(m) == \A i \in DOMAIN order : order[i].msg # m

\* Bytes accepted so far.
Accepted == IF order = <<>> THEN 0
            ELSE LET last == order[Len(order)] IN last.at + MsgLen[last.msg]

Accepts(m) == order' = Append(order, [msg |-> m, at |-> Accepted])

\* tls_uart_fill_buf.  A call that is refused, for its length or for want of
\* memory, changes nothing.  uart_tx does not look at the length.
Write(t, m) ==
    /\ Runs(t, "idle") /\ Unused(m)
    /\ t = Host \/ MsgLen[m] >= 1
    /\ pending' = Append(pending, [msg |-> m, off |-> 0])
    /\ Accepts(m)
    /\ Goto(t, "start")
    /\ UNCHANGED <<callback, sent, fifo, wire, ints, src, isr, line, static, freed>>

\* Fault: only the interrupt handler calls tx_callback.
AfterCallbackNone == "idle"

AfterCallback == IF callback = "direct" THEN "free" ELSE "check"

\* tls_uart_tx_chars_start.
Start(t) ==
    /\ Runs(t, "start")
    /\ TxChars
    /\ Goto(t, IF Finishes THEN AfterCallback ELSE "idle")
    /\ UNCHANGED <<callback, wire, ints, src, isr, line, static, order, freed>>

\* Fault: the message is freed before it is taken off the list.
FreeTwice(t) ==
    /\ Runs(t, "free")
    /\ IF sent = <<>> THEN Goto(t, "idle") /\ UNCHANGED <<sent, freed>>
       ELSE /\ freed' = [freed EXCEPT ![Head(sent)] = @ + 1]
            /\ \/ sent' = sent \/ sent' = Tail(sent)
            /\ UNCHANGED pc
    /\ UNCHANGED <<callback, pending, fifo, wire, ints, src, isr, line, static, order>>

\* One round of tls_uart_free_tx_sent_data.
Free(t) ==
    /\ Runs(t, "free")
    /\ IF sent = <<>> THEN Goto(t, "idle") /\ UNCHANGED <<sent, freed>>
       ELSE /\ sent' = Tail(sent)
            /\ freed' = [freed EXCEPT ![Head(sent)] = @ + 1]
            /\ UNCHANGED pc
    /\ UNCHANGED <<callback, pending, fifo, wire, ints, src, isr, line, static, order>>

-----------------------------------------------------------------------------
(* tls_wl_task_callback_static, called by a task. *)

Quiet == UNCHANGED <<callback, lists, wire, ints, src, isr, line, order, freed>>

Check(t) ==
    /\ Runs(t, "check")
    /\ Goto(t, IF cnt > 0 THEN "idle" ELSE "post")
    /\ Quiet /\ UNCHANGED static

\* tls_mbox_trypost.
Post(t) ==
    /\ Runs(t, "post")
    /\ \/ queued' = queued + 1 /\ Goto(t, "load")
       \/ MayFill /\ queued' = queued /\ Goto(t, "idle")
    /\ Quiet /\ UNCHANGED <<cnt, reg>>

Load(t) ==
    /\ Runs(t, "load")
    /\ reg' = [reg EXCEPT ![t] = cnt]
    /\ Goto(t, "store")
    /\ Quiet /\ UNCHANGED <<cnt, queued>>

\* cnt is a u8.
Store(t) ==
    /\ Runs(t, "store")
    /\ cnt' = (reg[t] + 1) % 256
    /\ reg' = [reg EXCEPT ![t] = 0]
    /\ Goto(t, "idle")
    /\ Quiet /\ UNCHANGED queued

\* task_thread in the host interface task takes the message and counts it off
\* before it calls tls_uart_free_tx_sent_data.
Fetch ==
    /\ Runs(Host, "idle") /\ queued > 0
    /\ queued' = queued - 1
    /\ reg' = [reg EXCEPT ![Host] = cnt]
    /\ Goto(Host, "count")
    /\ Quiet /\ UNCHANGED cnt

CountOff ==
    /\ Runs(Host, "count")
    /\ cnt' = (reg[Host] - 1) % 256
    /\ reg' = [reg EXCEPT ![Host] = 0]
    /\ Goto(Host, "free")
    /\ Quiet /\ UNCHANGED queued

-----------------------------------------------------------------------------
(* The interrupt handler. *)

InIsr(at) == isr = at /\ UNCHANGED <<callback, wire, cts, fc, pc, reg, order>>

IsrEnter ==
    /\ ints # {}
    /\ InIsr("off") /\ isr' = "tx"
    /\ src' = ints
    /\ ints' = IF ClearLate THEN ints ELSE {}
    /\ UNCHANGED <<lists, stopped, cnt, queued, freed>>

IsrTx ==
    /\ InIsr("tx")
    /\ IF "tx" \in src
       THEN TxChars /\ isr' = IF Finishes THEN "txdone" ELSE "cts"
       ELSE isr' = "cts" /\ UNCHANGED lists
    /\ UNCHANGED <<ints, src, stopped, cnt, queued, freed>>

\* tx_callback, in the handler.
CallbackFromIsr ==
    \/ /\ callback = "direct"
       /\ freed' = [m \in Msg |->
                      freed[m] + Cardinality({i \in DOMAIN sent : sent[i] = m})]
       /\ sent' = <<>> /\ UNCHANGED <<cnt, queued>>
    \/ /\ callback = "posted" /\ cnt = 0
       /\ queued' = queued + 1 /\ cnt' = cnt + 1
       /\ UNCHANGED <<sent, freed>>
    \/ /\ callback = "posted"
       /\ cnt > 0 \/ MayFill
       /\ UNCHANGED <<sent, freed, cnt, queued>>

IsrTxDone ==
    /\ \/ InIsr("txdone") /\ isr' = "cts"
       \/ InIsr("ctsdone") /\ isr' = "exit"
    /\ CallbackFromIsr
    /\ UNCHANGED <<pending, fifo, ints, src, stopped>>

\* Fault: the level of CTS is not read, every change stops the transmitter.
CtsChangeStops == stopped' = TRUE

\* uart_handle_cts_change: does the transmitter have to stop?
CtsChange == stopped' = ~cts

\* The level of CTS is read when the event is handled.
IsrCts ==
    /\ InIsr("cts")
    /\ IF "cts" \in src /\ fc /\ FlowCtrl
       THEN /\ CtsChange
            /\ IF stopped /\ ~stopped'
               THEN TxChars /\ isr' = IF Finishes THEN "ctsdone" ELSE "exit"
               ELSE isr' = "exit" /\ UNCHANGED lists
       ELSE isr' = "exit" /\ UNCHANGED <<lists, stopped>>
    /\ UNCHANGED <<ints, src, cnt, queued, freed>>

IsrExit ==
    /\ InIsr("exit") /\ isr' = "off"
    /\ ints' = IF ClearLate THEN ints \ src ELSE ints
    /\ src' = {}
    /\ UNCHANGED <<lists, stopped, cnt, queued, freed>>

Isr == IsrEnter \/ IsrTx \/ IsrTxDone \/ IsrCts \/ IsrExit

-----------------------------------------------------------------------------
(* tls_uart_set_fc_status, and the hardware. *)

\* The host interface task switches flow control with the mode of the port.
SetFc ==
    /\ FlowCtrl /\ Runs(Host, "idle")
    /\ fc' = ~fc
    /\ Goto(Host, IF fc THEN "fcoff" ELSE "idle")
    /\ UNCHANGED <<callback, lists, wire, ints, src, isr, cts, stopped, static, order, freed>>

FcOff ==
    /\ Runs(Host, "fcoff")
    /\ IF stopped
       THEN TxChars /\ Goto(Host, IF Finishes THEN AfterCallback ELSE "idle")
       ELSE Goto(Host, "idle") /\ UNCHANGED lists
    /\ stopped' = FALSE
    /\ UNCHANGED <<callback, wire, ints, src, isr, cts, fc, static, order, freed>>

\* A byte leaves the FIFO.
Drain ==
    /\ fifo # <<>> /\ ~stopped /\ (fc => cts)
    /\ wire' = Append(wire, Head(fifo))
    /\ fifo' = Tail(fifo)
    /\ ints' = IF Len(fifo) - 1 \in {0, Trigger} THEN ints \cup {"tx"} ELSE ints
    /\ UNCHANGED <<callback, pending, sent, src, isr, line, static, pc, order, freed>>

CtsToggle ==
    /\ FlowCtrl
    /\ cts' = ~cts
    /\ ints' = ints \cup {"cts"}
    /\ UNCHANGED <<callback, lists, wire, src, isr, fc, stopped, static, pc, order, freed>>

TaskStep(t) ==
    \/ Start(t) \/ Free(t)
    \/ Check(t) \/ Post(t) \/ Load(t) \/ Store(t)
HostStep == Fetch \/ CountOff \/ FcOff

Next ==
    \/ Isr \/ HostStep \/ SetFc \/ Drain \/ CtsToggle
    \/ \E t \in Task : TaskStep(t)
    \/ \E m \in Msg : Write(Writer[m], m)

Spec == Init /\ [][Next]_vars

\* The handler runs when an event is latched, the hardware shifts bytes out,
\* and tasks get to run between interrupts.
FairSpec ==
    /\ Spec
    /\ WF_vars(Isr) /\ WF_vars(Drain) /\ SF_vars(HostStep)
    /\ \A t \in Task : SF_vars(TaskStep(t))

-----------------------------------------------------------------------------

Byte == UNION {{<<m, k>> : k \in 1 .. MsgLen[m]} : m \in Msg}

UartTxTypeOK ==
    /\ callback \in Callback
    /\ pending \in Seq([msg : Msg, off : Nat])
    /\ sent \in Seq(Msg)
    /\ fifo \in Seq(Byte) /\ Len(fifo) <= FifoFull
    /\ wire \in Seq(Byte)
    /\ ints \subseteq {"tx", "cts"} /\ src \subseteq {"tx", "cts"}
    /\ isr \in {"off", "tx", "txdone", "cts", "ctsdone", "exit"}
    /\ cts \in BOOLEAN /\ fc \in BOOLEAN /\ stopped \in BOOLEAN
    /\ pc \in [Task -> {"idle", "start", "free", "check", "post", "load", "store",
                        "count", "fcoff"}]
    /\ cnt \in 0 .. 255 /\ reg \in [Task -> 0 .. 255]
    /\ queued \in Nat
    /\ order \in Seq([msg : Msg, at : Nat])
    /\ freed \in [Msg -> Nat]

\* What goes over the line is the messages one after the other, in the order in
\* which tls_uart_fill_buf queued them, whoever moves their bytes: no byte is
\* lost, sent twice or mixed into another message when tasks and the interrupt
\* handler take turns.
\* Byte n that left is byte n - at of a message that has at bytes before it, and
\* the bytes that have not left are those of the pending messages.
InOrder ==
    LET left == wire \o fifo
        done == Len(order) - Len(pending)
    IN /\ \A n \in DOMAIN left :
             \E i \in DOMAIN order : left[n] = <<order[i].msg, n - order[i].at>>
       /\ \A i \in DOMAIN pending : pending[i].msg = order[done + i].msg
       /\ \A i \in 2 .. Len(pending) : pending[i].off = 0
       /\ Len(left) = IF pending = <<>> THEN Accepted
                      ELSE order[done + 1].at + pending[1].off

\* A buffer is freed once, and never while bytes of it have yet to be read.
FreedOnce ==
    \A m \in Msg :
        /\ freed[m] <= 1
        /\ freed[m] = 1 => /\ \A i \in DOMAIN pending : pending[i].msg # m
                           /\ \A i \in DOMAIN sent : sent[i] # m

\* A transmission never stops for good.  While messages are pending, a task is
\* about to move bytes, or the FIFO still has some to send (the hardware latches
\* UIS_TX_FIFO when it is empty), or that event is latched, or the handler has
\* read it and not yet moved bytes.  And a stopped transmitter waits for a peer
\* that is not ready, or the change of CTS is latched or being handled, or flow
\* control is being switched off.
NotStranded ==
    /\ pending # <<>> =>
         \/ \E t \in Task : pc[t] = "start"
         \/ fifo # <<>>
         \/ "tx" \in ints
         \/ isr = "tx" /\ "tx" \in src
    /\ stopped =>
         \/ ~cts
         \/ "cts" \in ints
         \/ isr \in {"tx", "txdone", "cts"} /\ "cts" \in src
         \/ pc[Host] = "fcoff"

\* With tls_uart_free_tx_sent_data as the callback, a message that is done lies on
\* tx_msg_to_be_freed_list only while a task frees the list or the handler is
\* about to.
WillBeFreed ==
    callback = "direct" /\ sent # <<>> =>
        \/ \E t \in Task : pc[t] = "free"
        \/ isr \in {"txdone", "ctsdone"}

Out(m) == ~Unused(m) /\ \A k \in 1 .. MsgLen[m] : <<m, k>> \in Range(wire)

\* Every message accepted goes out, once the peer stays ready: the interrupt
\* that continues a transmission is never lost, and a transmitter that CTS
\* stopped starts again.
EverySent == <>[]cts => \A m \in Msg : ~Unused(m) ~> Out(m)

\* The buffer of a message that went out is freed, without waiting for the next.
EveryFreed == \A m \in Msg : Out(m) ~> freed[m] > 0

\* The same when tls_uart_free_tx_sent_data is the callback.
DirectFreed == callback = "direct" => EveryFreed
=============================================================================
