------------------------------- MODULE SoftAp -------------------------------
(***************************************************************************)
(* The DHCP server at work: the soft AP comes up and closes, the system    *)
(* task (platform/sys/tls_sys.c) learns of it through its message queue    *)
(* and starts or stops the server, stations join and leave and run the     *)
(* client side of DHCP over a lossy channel that keeps the order.          *)
(*                                                                         *)
(* A station is external code.  It uses an address from the ACK on until   *)
(* the lease it was told ends, a NAK comes, it leaves the AP, or it starts *)
(* a new negotiation.  It takes a reply only for what it sent last (xid).  *)
(* Time advances in ticks of the server; what lies within one tick is not  *)
(* told apart.                                                             *)
(***************************************************************************)
EXTENDS DhcpServer, Sequences

CONSTANTS
    Foreign,     \* host part of an address that is not in the pool
    MaxFlight,   \* bound: messages in flight
    MaxSys,      \* bound: messages waiting for the system task
    Prompt,      \* the system task is done with one change of the AP before the next
    Fails        \* what may fail, see FailSite

\* Memory in _CheckMacIsValid for a message or in the tick, for a reply, for
\* the pcb, and for a message to the system task.
FailSite == {"recv", "tick", "reply", "start", "sys"}

ASSUME SoftApAssumption ==
    /\ Foreign \notin Pool
    /\ MaxFlight \in Nat \ {0} /\ MaxSys \in Nat \ {0}
    /\ Prompt \in BOOLEAN
    /\ Fails \subseteq FailSite

VARIABLES
    ap,       \* the soft AP is up
    sysq,     \* messages in msg_queue of the system task
    authed,   \* stations on the driver's list
    chan,     \* per station, messages on their way to the server
    offer,    \* per station, the host part offered to it, or 0
    hold      \* per station, the host part it uses, or 0, and its lease

vars == <<server, ap, sysq, authed, chan, offer, hold>>

NoHold == [host |-> 0, left |-> 0]
Message == [type : {"discover", "request", "release", "decline"},
            req : Pool \cup {0, Foreign}, sid : {"none", "this", "other"}]
Msg(type, req, sid) == [type |-> type, req |-> req, sid |-> sid]

Init ==
    /\ DhcpInit
    /\ ap = FALSE /\ sysq = <<>>
    /\ authed = {}
    /\ chan = [m \in Station |-> <<>>]
    /\ offer = [m \in Station |-> 0]
    /\ hold = [m \in Station |-> NoHold]

-----------------------------------------------------------------------------
(* The AP and the system task. *)

\* tls_sys_send_msg: without memory the message is silently not sent.
SysSend(msg) ==
    \/ sysq' = Append(sysq, msg)
    \/ "sys" \in Fails /\ sysq' = sysq

CanChange == IF Prompt THEN sysq = <<>> ELSE Len(sysq) < MaxSys

\* Bound: ticks that are pending at a time.
MaxArmed == 2

ApUp ==
    /\ ~ap
    /\ CanChange
    /\ armed + Cardinality({i \in DOMAIN sysq : sysq[i] = "net2_up"}) < MaxArmed
    /\ ap' = TRUE
    /\ SysSend("net2_up")
    /\ UNCHANGED <<server, authed, chan, offer, hold>>

\* All stations are gone with the AP.
ApClosed ==
    /\ ap /\ CanChange
    /\ ap' = FALSE
    /\ SysSend("net2_down")
    /\ authed' = {}
    /\ chan' = [m \in Station |-> <<>>]
    /\ offer' = [m \in Station |-> 0]
    /\ hold' = [m \in Station |-> NoHold]
    /\ UNCHANGED server

SysTask ==
    /\ sysq # <<>>
    /\ sysq' = Tail(sysq)
    /\ \/ /\ Head(sysq) = "net2_up"
          /\ \/ Start(TRUE)
             \/ "start" \in Fails /\ Start(FALSE)
       \/ Head(sysq) = "net2_down" /\ Stop
    /\ UNCHANGED <<ap, authed, chan, offer, hold>>

-----------------------------------------------------------------------------
(* The stations. *)

Join(m) ==
    /\ ap /\ m \notin authed
    /\ authed' = authed \cup {m}
    /\ UNCHANGED <<server, ap, sysq, chan, offer, hold>>

Leave(m) ==
    /\ m \in authed
    /\ authed' = authed \ {m}
    /\ chan' = [chan EXCEPT ![m] = <<>>]
    /\ offer' = [offer EXCEPT ![m] = 0]
    /\ hold' = [hold EXCEPT ![m] = NoHold]
    /\ UNCHANGED <<server, ap, sysq>>

\* A message goes out; kept is what the station uses from now on.
Send(m, msg, kept) ==
    /\ m \in authed
    /\ MapThenSumSet(LAMBDA n : Len(chan[n]), Station) < MaxFlight
    /\ chan' = [chan EXCEPT ![m] = Append(@, msg)]
    /\ hold' = [hold EXCEPT ![m] = kept]
    /\ UNCHANGED <<server, ap, sysq, authed>>

Discover(m, req) == Send(m, Msg("discover", req, "none"), NoHold) /\ offer' = [offer EXCEPT ![m] = 0]
Select(m) ==
    /\ offer[m] # 0
    /\ Send(m, Msg("request", offer[m], "this"), NoHold) /\ UNCHANGED offer
SelectOther(m, req) ==
    Send(m, Msg("request", req, "other"), NoHold) /\ offer' = [offer EXCEPT ![m] = 0]
Reboot(m, req) ==
    Send(m, Msg("request", req, "none"), NoHold) /\ offer' = [offer EXCEPT ![m] = 0]
Renew(m) ==
    /\ hold[m] # NoHold
    /\ Send(m, Msg("request", 0, "none"), hold[m]) /\ UNCHANGED offer
GiveUp(m, type) ==
    /\ hold[m] # NoHold
    /\ Send(m, Msg(type, 0, "this"), NoHold) /\ UNCHANGED offer

\* Everything the station sent since is a repetition.
Awaited(m) == \A i \in 2 .. Len(chan[m]) : chan[m][i] = chan[m][1]

Receive(m, reply, host) ==
    /\ offer' = IF reply = "offer" /\ Awaited(m) THEN [offer EXCEPT ![m] = host]
                ELSE IF reply \in {"ack", "nak"} /\ Awaited(m) THEN [offer EXCEPT ![m] = 0]
                ELSE offer
    /\ hold' = IF reply = "ack" /\ Awaited(m)
               THEN [hold EXCEPT ![m] = [host |-> host, left |-> LeaseTime]]
               ELSE IF reply = "nak" /\ Awaited(m) THEN [hold EXCEPT ![m] = NoHold]
               ELSE hold

\* A message reaches the server and the reply reaches the station.
Answer(m) ==
    /\ socket # "none"
    /\ m \in authed /\ chan[m] # <<>>
    /\ RecvCb(m, Head(chan[m]))
    /\ LET h == Handled(m, Head(chan[m])) IN Receive(m, h.reply, h.host)
    /\ chan' = [chan EXCEPT ![m] = Tail(@)]
    /\ UNCHANGED <<ap, sysq, authed>>

\* The reply is lost, there is no pbuf for it, no pcb to send it with, or it
\* comes from another port: the table changes all the same.
Mute(m) ==
    /\ "reply" \in Fails \/ socket # "bound"
    /\ m \in authed /\ chan[m] # <<>>
    /\ RecvCb(m, Head(chan[m]))
    /\ chan' = [chan EXCEPT ![m] = Tail(@)]
    /\ UNCHANGED <<ap, sysq, authed, offer, hold>>

\* The message is lost, there is no memory to check the station, or no server.
Drop(m) ==
    /\ chan[m] # <<>>
    /\ "recv" \in Fails \/ ~Listens
    /\ chan' = [chan EXCEPT ![m] = Tail(@)]
    /\ UNCHANGED <<server, ap, sysq, authed, offer, hold>>

-----------------------------------------------------------------------------
(* Time. *)

Aged(h) == IF h.left <= 1 THEN NoHold ELSE [h EXCEPT !.left = @ - 1]

\* Stations whose check in the tick succeeds.
Valid == IF "tick" \in Fails THEN SUBSET authed ELSE {authed}

Tick ==
    /\ \E valid \in Valid : TickHandle(valid)
    /\ hold' = [m \in Station |-> Aged(hold[m])]
    /\ UNCHANGED <<ap, sysq, authed, chan, offer>>

\* The application deletes the entry of a station that left.
Delete(m) ==
    /\ m \notin authed
    /\ ClientDelete(m)
    /\ UNCHANGED <<ap, sysq, authed, chan, offer, hold>>

Next ==
    \/ ApUp \/ ApClosed \/ SysTask \/ Tick
    \/ \E m \in Station :
        \/ Join(m) \/ Leave(m) \/ Select(m) \/ Renew(m)
        \/ \E req \in Pool \cup {0} : Discover(m, req)
        \/ \E req \in Pool \cup {Foreign} : SelectOther(m, req) \/ Reboot(m, req)
        \/ \E type \in {"release", "decline"} : GiveUp(m, type)
        \/ Answer(m) \/ Mute(m) \/ Drop(m)
        \/ Delete(m)

Spec == Init /\ [][Next]_vars

\* The tick timer of lwIP and the system task keep running.
FairSpec == Spec /\ WF_vars(Tick) /\ WF_vars(SysTask)

-----------------------------------------------------------------------------

SoftApTypeOK ==
    /\ slot \in [Slot -> Entry]
    /\ enable \in BOOLEAN /\ leaked \in BOOLEAN /\ pooled \in BOOLEAN /\ ap \in BOOLEAN
    /\ socket \in {"none", "bound", "unbound"}
    /\ armed \in 0 .. MaxArmed
    /\ sysq \in Seq({"net2_up", "net2_down"})
    /\ authed \subseteq Station
    /\ chan \in [Station -> Seq(Message)]
    /\ offer \in [Station -> Pool \cup {0}]
    /\ hold \in [Station -> [host : Pool \cup {0}, left : 0 .. LeaseTime]]

\* Two stations never use the same address, and none uses the server's own or
\* that of the network:
\* whatever order DISCOVER, REQUEST, RELEASE, timeouts and ticks come in, an
\* address in use is neither offered and acknowledged to another station nor
\* freed before the lease its user was told ends.
OneHolder ==
    \A m \in Station : hold[m] # NoHold =>
        /\ hold[m].host \notin {0, ServerHost}
        /\ \A n \in Station \ {m} : hold[n].host # hold[m].host

\* The server remembers a lease at least as long as the station does.
LeaseCovered ==
    \A m \in Station : hold[m] # NoHold =>
        \E i \in Slot : /\ slot[i].st = "bind" /\ slot[i].mac = m
                        /\ Host(i) = hold[m].host
                        /\ slot[i].left >= hold[m].left

\* A station negotiates about one address at a time: a new offer or lease
\* gives up the one before.
OneSlot ==
    \A i, j \in Slot :
        slot[i].st # "idle" /\ slot[j].st # "idle" /\ slot[i].mac = slot[j].mac => i = j

\* tls_dhcps_getip and tls_dhcps_getmac answer with the address a station
\* really uses: history that binding left behind never hides it.
LookupRight ==
    \A m \in Station : hold[m] # NoHold =>
        GetIpByMac(m) = hold[m].host /\ GetMacByIp(hold[m].host) = m

\* A station that leaves for good gives its address back, as long as the server
\* runs: the tick ends its offer or its lease.
AbandonedFreed ==
    \A m \in Station :
        <>[](m \notin authed) =>
            <>[](enable => \A i \in Slot : slot[i].mac = m => slot[i].st = "idle")
=============================================================================
