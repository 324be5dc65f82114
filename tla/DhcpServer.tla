----------------------------- MODULE DhcpServer -----------------------------
(***************************************************************************)
(* The DHCP server of the soft AP, src/app/dhcpserver/dhcp_server.c: the   *)
(* table of clients, its lookup, the state machine of an entry, the tick   *)
(* timer, start and stop.  A handler runs to its end in the TCP/IP thread, *)
(* so each is one step; SoftAp supplies stations, channels and the system  *)
(* task that starts and stops the server.                                  *)
(*                                                                         *)
(* Data abstraction: an address is its host part.  Timeout and Lease of an *)
(* entry are one counter, left: the code reads Timeout only in state       *)
(* REQUEST and Lease only in state BIND, and sets it on entering them.     *)
(* State SELECT is left in the handler that enters it.                     *)
(***************************************************************************)
EXTENDS Integers, FiniteSets, FiniteSetsExt

CONSTANTS
    Station,     \* MAC addresses of stations
    NoMac,       \* the MAC address that is all zero
    NumClients,  \* DHCPS_HISTORY_CLIENT_NUM
    HostMask,    \* ~Mask, the largest host part
    ServerHost,  \* the host part of the AP's own address
    LeaseTime,   \* DHCP_DEFAULT_LEASE_TIME, in ticks
    OfferTime    \* DHCP_DEFFAULT_TIMEOUT, in ticks

ASSUME DhcpAssumption ==
    /\ NoMac \notin Station
    /\ NumClients \in Nat \ {0}
    /\ HostMask \in Nat \ {0}
    /\ ServerHost \in 1 .. HostMask
    /\ LeaseTime \in Nat \ {0} /\ OfferTime \in Nat \ {0}

VARIABLES
    slot,    \* DhcpServer.Clients
    enable,  \* DhcpServer.Enable
    socket,  \* DhcpServer.Socket: no pcb, one bound to the server's port, or
             \* one that could not be bound
    leaked,  \* a pcb that was forgotten is bound to the port
    pooled,  \* the entries have their addresses
    armed    \* pending timeouts of _DhcpTickHandle

server == <<slot, enable, socket, leaked, pooled, armed>>

Slot == 1 .. NumClients
SlotState == {"idle", "request", "bind"}
Entry == [st : SlotState, mac : Station \cup {NoMac}, left : 0 .. LeaseTime + OfferTime]
Idle(m) == [st |-> "idle", mac |-> m, left |-> 0]

-----------------------------------------------------------------------------
(* The pool. *)

\* The entries' host parts are the numbers after the server's, modulo ~Mask,
\* and 1 in place of 0.
Wrapped(h) == IF h % HostMask = 0 THEN 1 ELSE h % HostMask
PoolHost(i) == Wrapped(Wrapped(ServerHost + 1) + i - 1)

Pool == {PoolHost(i) : i \in Slot}

\* DHCPS_Stop clears the addresses.
Host(i) == IF pooled THEN PoolHost(i) ELSE 0

-----------------------------------------------------------------------------
(* _ClientTableLookup.  A result is the entry it returns, 0 for NULL, and   *)
(* the table it leaves.                                                     *)

First(S) == IF S = {} THEN 0 ELSE Min(S)
Last(S) == IF S = {} THEN 0 ELSE Max(S)
IdleSlots == {i \in Slot : slot[i].st = "idle"}

MyHistoryClient(m) == First({i \in IdleSlots : slot[i].mac = m})
ReqClient(req) == First({i \in IdleSlots : Host(i) = req})
FreeClient == First({i \in IdleSlots : slot[i].mac = NoMac})
HistoryClient == First({i \in IdleSlots : slot[i].mac # NoMac})
MyClient(m) == Last({i \in Slot \ IdleSlots : slot[i].mac = m})
IpUnavailable(m, req) ==
    \E i \in Slot \ IdleSlots : slot[i].mac # m /\ Host(i) = req

\* The table when entry i is given up: a bound entry keeps its MAC as history.
GivenUp(i) ==
    IF i = 0 THEN slot
    ELSE [slot EXCEPT ![i] = Idle(IF @.st = "bind" THEN @.mac ELSE NoMac)]

\* Entry i of table t is returned and gets the station's MAC.
Return(i, t, m) ==
    [client |-> i, table |-> IF i = 0 THEN t ELSE [t EXCEPT ![i].mac = m]]

\* A new negotiation, in the order of priority.
FirstClient(m, req) ==
    CASE ReqClient(req) # 0 -> ReqClient(req)
      [] ReqClient(req) = 0 /\ MyHistoryClient(m) # 0 -> MyHistoryClient(m)
      [] ReqClient(req) = 0 /\ MyHistoryClient(m) = 0 /\ FreeClient # 0 -> FreeClient
      [] OTHER -> HistoryClient

\* The state was set to IDLE before it is tested against BIND: the MAC always goes.
LookupDiscover(m, req) ==
    LET my == MyClient(m) IN
    IF my = 0 THEN Return(FirstClient(m, req), slot, m)
    ELSE IF ReqClient(req) # 0
         THEN Return(ReqClient(req), [slot EXCEPT ![my] = Idle(NoMac)], m)
         ELSE Return(my, [slot EXCEPT ![my] = Idle(m)], m)

\* Fault: the entry the station had is not given up for the new one.
LookupRequestKeeps(m, req, forMe) ==
    IF IpUnavailable(m, req) THEN Return(0, slot, m)
    ELSE IF ReqClient(req) # 0 THEN Return(IF forMe THEN ReqClient(req) ELSE 0, slot, m)
    ELSE Return(IF forMe THEN MyClient(m) ELSE 0, slot, m)

\* Fault: an address that is allocated is not refused.
LookupRequestTaken(m, req, forMe) ==
    LET any == First({i \in Slot : Host(i) = req}) IN
    IF any # 0 /\ forMe
    THEN Return(any, [GivenUp(MyClient(m)) EXCEPT ![any] = Idle(@.mac)], m)
    ELSE Return(IF forMe THEN MyClient(m) ELSE 0, slot, m)

\* forMe: the server identifier is absent or names this server.
LookupRequest(m, req, forMe) ==
    IF IpUnavailable(m, req) THEN Return(0, GivenUp(MyClient(m)), m)
    ELSE IF ReqClient(req) # 0
         THEN Return(IF forMe THEN ReqClient(req) ELSE 0, GivenUp(MyClient(m)), m)
         ELSE Return(IF forMe THEN MyClient(m) ELSE 0, slot, m)

ClientTableLookup(m, msg) ==
    CASE msg.type = "discover" -> LookupDiscover(m, msg.req)
      [] msg.type = "request" -> LookupRequest(m, msg.req, msg.sid # "other")
      [] msg.type \in {"release", "decline"} -> Return(0, GivenUp(MyClient(m)), m)

-----------------------------------------------------------------------------
(* _DhcpClientSMEHandle, DHCPS_RecvCb. *)

\* Fault: the history of the client stays.
CleanClientHistoryNot(t, m) == t

CleanClientHistory(t, m) ==
    [i \in Slot |-> IF t[i].st = "idle" /\ t[i].mac = m THEN Idle(NoMac) ELSE t[i]]

\* Fault: a renewal does not restart the lease.
BoundNoRenew(t, i) ==
    CleanClientHistory(
        [t EXCEPT ![i].st = "bind", ![i].left = IF t[i].st = "bind" THEN @ ELSE LeaseTime],
        t[i].mac)

Bound(t, i) ==
    CleanClientHistory([t EXCEPT ![i].st = "bind", ![i].left = LeaseTime], t[i].mac)

Offered(t, i) == [t EXCEPT ![i].st = "request", ![i].left = OfferTime]

\* The reply and the table after a message of a station that may use the server.
ClientSMEHandle(t, i, type) ==
    IF t[i].st = "idle" /\ type = "discover"
    THEN [reply |-> "offer", host |-> Host(i), table |-> Offered(t, i)]
    ELSE [reply |-> "ack", host |-> Host(i), table |-> Bound(t, i)]

Handled(m, msg) ==
    LET found == ClientTableLookup(m, msg) IN
    IF found.client # 0 THEN ClientSMEHandle(found.table, found.client, msg.type)
    ELSE [reply |-> IF msg.type \in {"release", "decline"} THEN "none" ELSE "nak",
          host |-> 0, table |-> found.table]

\* lwIP calls DHCPS_RecvCb as long as a pcb is bound to the port.
Listens == leaked \/ socket = "bound"

\* DHCPS_RecvCb once the station passed _CheckMacIsValid.  It does not look at
\* Enable.
RecvCb(m, msg) ==
    /\ Listens
    /\ slot' = Handled(m, msg).table
    /\ UNCHANGED <<enable, socket, leaked, pooled, armed>>

-----------------------------------------------------------------------------
(* _DhcpTickHandle, DHCPS_ClientDelete, DHCPS_Start, DHCPS_Stop. *)

\* One entry: an offer that timed out is forgotten, a lease that ended or
\* whose station is not on the list of stations becomes history.
Ticked(e, valid) ==
    IF e.st = "request"
    THEN IF e.left = 1 THEN Idle(NoMac) ELSE [e EXCEPT !.left = @ - 1]
    ELSE IF e.st = "bind"
    THEN IF e.left = 1 \/ e.mac \notin valid THEN Idle(e.mac) ELSE [e EXCEPT !.left = @ - 1]
    ELSE e

\* Fault: the handler does not start its timeout again.
TickOnce(valid) ==
    /\ armed > 0
    /\ slot' = IF enable THEN [i \in Slot |-> Ticked(slot[i], valid)] ELSE slot
    /\ armed' = armed - 1
    /\ UNCHANGED <<enable, socket, leaked, pooled>>

\* One second: every pending timeout fires and, while the server is enabled,
\* starts itself again.  Two of them are pending after a second start.
TickHandle(valid) ==
    /\ armed > 0
    /\ LET once == [i \in Slot |-> Ticked(slot[i], valid)] IN
       slot' = IF ~enable THEN slot
               ELSE IF armed = 1 THEN once
               ELSE [i \in Slot |-> Ticked(once[i], valid)]
    /\ armed' = IF enable THEN armed ELSE 0
    /\ UNCHANGED <<enable, socket, leaked, pooled>>

ClientDelete(m) ==
    /\ enable
    /\ LET i == First({j \in Slot \ IdleSlots : slot[j].mac = m}) IN
       /\ i # 0 /\ slot[i].st = "bind"
       /\ slot' = GivenUp(i)
    /\ UNCHANGED <<enable, socket, leaked, pooled, armed>>

\* ok: udp_new has a pcb.  A second start forgets the first pcb, which keeps the
\* port, so that udp_bind fails (unnoticed), and adds a second timeout.
Start(ok) ==
    /\ slot' = [i \in Slot |-> Idle(NoMac)]
    /\ pooled' = TRUE
    /\ leaked' = Listens
    /\ socket' = IF ~ok THEN "none" ELSE IF Listens THEN "unbound" ELSE "bound"
    /\ enable' = ok
    /\ armed' = IF ok THEN armed + 1 ELSE armed

\* Fault: the timeout is removed whether or not one is pending.
StopAlways ==
    /\ slot' = [i \in Slot |-> Idle(NoMac)]
    /\ enable' = FALSE /\ socket' = "none" /\ pooled' = FALSE
    /\ UNCHANGED leaked
    /\ armed' = armed - 1

\* sys_untimeout removes one pending timeout.
Stop ==
    /\ slot' = [i \in Slot |-> Idle(NoMac)]
    /\ enable' = FALSE /\ socket' = "none" /\ pooled' = FALSE
    /\ UNCHANGED leaked
    /\ armed' = IF armed > 0 THEN armed - 1 ELSE 0

DhcpInit ==
    /\ slot = [i \in Slot |-> Idle(NoMac)]
    /\ enable = FALSE
    /\ socket = "none"
    /\ leaked = FALSE
    /\ pooled = FALSE
    /\ armed = 0

-----------------------------------------------------------------------------

\* DHCPS_GetIpByMac and DHCPS_GetMacByIp: the first entry that matches, history
\* included; 0 and NoMac stand for NULL.
GetIpByMac(m) ==
    LET i == First({j \in Slot : slot[j].mac = m}) IN IF i = 0 THEN 0 ELSE Host(i)
GetMacByIp(h) ==
    LET i == First({j \in Slot : Host(j) = h}) IN IF i = 0 THEN NoMac ELSE slot[i].mac
=============================================================================
