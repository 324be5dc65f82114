---------------------------- MODULE SoftApProofs ----------------------------
(***************************************************************************)
(* Proofs about the DHCP server and the soft AP.                           *)
(***************************************************************************)
EXTENDS SoftAp, WellFoundedInduction, FiniteSetTheorems, TLAPS

(***************************************************************************)
(* The pool and the search through the table.                              *)
(***************************************************************************)

\* A set of numbers that is not empty has a smallest one.
LEMMA NatMin ==
    ASSUME NEW T, T \subseteq Nat, T # {}
    PROVE  \E x \in T : \A y \in T : x =< y
<1> DEFINE R == {ss \in Nat \X Nat : ss[1] < ss[2]}
<1>1. OpToRel(<, Nat) = R
  BY Zenon DEF OpToRel
<1>2. IsWellFoundedOn(R, Nat)
  BY <1>1, NatLessThanWellFounded, Zenon
<1>3. \A x, y \in Nat : <<y, x>> \in R <=> y < x
  OBVIOUS
<1> HIDE DEF R
<1>4. PICK x \in T : \A y \in T : ~(<<y, x>> \in R)
  BY <1>2, WFMin
<1>5. \A y \in T : ~(y < x)
  BY <1>3, <1>4
<1> QED
  BY <1>5

\* A set of entries that is not empty has a first and a last one.
LEMMA MinMax ==
    ASSUME NEW S \in SUBSET Slot, S # {}
    PROVE  Min(S) \in S /\ Max(S) \in S
<1>2. S \subseteq Nat /\ \A x \in S : x =< NumClients
  BY DhcpAssumption DEF Slot
<1>3. Min(S) \in S
  BY <1>2, NatMin DEF Min
<1>4. PICK x \in S : \A y \in S : x >= y
  <2> DEFINE T == {NumClients - y : y \in S}
  <2>1. T \subseteq Nat /\ T # {}
    <3>1. \A y \in S : NumClients - y \in Nat
      BY <1>2, DhcpAssumption
    <3> QED
      BY <3>1
  <2>2. PICK z \in T : \A y \in T : z =< y
    BY <2>1, NatMin
  <2>3. PICK x \in S : z = NumClients - x
    BY <2>2
  <2>4. \A y \in S : NumClients - x =< NumClients - y
    BY <2>2, <2>3
  <2> QED
    BY <2>4, <1>2, DhcpAssumption
<1> QED
  BY <1>3, <1>4 DEF Max

\* First and Last find an entry of the set, or none when there is none.
LEMMA FirstLast ==
    ASSUME NEW S \in SUBSET Slot
    PROVE  /\ First(S) = 0 \/ First(S) \in S
           /\ Last(S) = 0 \/ Last(S) \in S
           /\ First(S) = 0 <=> S = {}
           /\ Last(S) = 0 <=> S = {}
<1>1. 0 \notin Slot
  BY DhcpAssumption DEF Slot
<1> QED
  BY <1>1, MinMax DEF First, Last

\* Every address of the pool is the address of a host.
LEMMA PoolPositive == \A i \in Slot : PoolHost(i) \in Pool /\ PoolHost(i) # 0
<1>1. ASSUME NEW h \in Int
      PROVE  Wrapped(h) \in Int /\ Wrapped(h) # 0
  BY DhcpAssumption DEF Wrapped
<1>2. ASSUME NEW i \in Slot
      PROVE  PoolHost(i) # 0
  BY <1>1, DhcpAssumption DEF PoolHost, Slot
<1> QED
  BY <1>2 DEF Pool

(***************************************************************************)
(* The table of clients: what every operation of the server preserves.     *)
(***************************************************************************)

\* Entries in use belong to stations and have time left.
InUseOK(t) ==
    \A i \in Slot : t[i].st # "idle" => t[i].mac \in Station /\ t[i].left >= 1

\* Two entries in use belong to different stations.
UseDistinct(t) ==
    \A i, j \in Slot :
        i # j /\ t[i].st # "idle" /\ t[j].st # "idle" => t[i].mac # t[j].mac

\* A lease has no other entry of its station beside it, not even history.
LeaseAlone(t) ==
    \A i, j \in Slot : i # j /\ t[i].st = "bind" => t[j].mac # t[i].mac

TableOK(t) == t \in [Slot -> Entry] /\ InUseOK(t) /\ UseDistinct(t) /\ LeaseAlone(t)

\* An entry that is not in use is an entry.
LEMMA IdleType ==
    ASSUME NEW m \in Station \cup {NoMac}
    PROVE  Idle(m) \in Entry /\ Idle(m).st = "idle" /\ Idle(m).mac = m
  BY DhcpAssumption DEF Idle, Entry, SlotState

\* An entry changes its state and its time.
LEMMA EntryChanged ==
    ASSUME NEW d \in Entry, NEW s \in SlotState, NEW n \in 0 .. LeaseTime + OfferTime
    PROVE  /\ [d EXCEPT !.st = s, !.left = n] \in Entry
           /\ [d EXCEPT !.st = s, !.left = n].st = s
           /\ [d EXCEPT !.st = s, !.left = n].mac = d.mac
           /\ [d EXCEPT !.st = s, !.left = n].left = n
<1>1. [d EXCEPT !.st = s, !.left = n].st = s
  BY DEF Entry
<1>2. [d EXCEPT !.st = s, !.left = n].left = n
  BY DEF Entry
<1>3. [d EXCEPT !.st = s, !.left = n].mac = d.mac
  BY DEF Entry
<1>4. [d EXCEPT !.st = s, !.left = n] \in Entry
  BY DEF Entry
<1> QED
  BY <1>1, <1>2, <1>3, <1>4

\* The entry of a station that is in use, if there is one, is the only one.
LEMMA MyClientFound ==
    ASSUME TableOK(slot), NEW m \in Station
    PROVE  /\ MyClient(m) \in Slot \cup {0}
           /\ MyClient(m) # 0 => slot[MyClient(m)].st # "idle" /\ slot[MyClient(m)].mac = m
           /\ \A j \in Slot : slot[j].st # "idle" /\ slot[j].mac = m => j = MyClient(m)
<1> DEFINE S == {i \in Slot \ IdleSlots : slot[i].mac = m}
<1>1. S \in SUBSET Slot /\ MyClient(m) = Last(S)
  BY DEF MyClient
<1>2. \A j \in Slot : j \in S <=> slot[j].st # "idle" /\ slot[j].mac = m
  BY DEF IdleSlots
<1> HIDE DEF S
<1>3. MyClient(m) = 0 \/ MyClient(m) \in S
  BY <1>1, FirstLast
<1>4. MyClient(m) = 0 <=> S = {}
  BY <1>1, FirstLast
<1>5. \A j, k \in S : j = k
  BY <1>1, <1>2 DEF TableOK, UseDistinct
<1> QED
  BY <1>1, <1>2, <1>3, <1>4, <1>5

\* ReqClient finds an entry that is not in use and has the address, if there
\* is one.
LEMMA ReqClientFound ==
    ASSUME NEW req
    PROVE  /\ ReqClient(req) \in Slot \cup {0}
           /\ ReqClient(req) # 0 => /\ slot[ReqClient(req)].st = "idle"
                                    /\ Host(ReqClient(req)) = req
           /\ ReqClient(req) = 0 =>
                \A j \in Slot : slot[j].st = "idle" => Host(j) # req
<1> DEFINE S == {i \in IdleSlots : Host(i) = req}
<1>1. S \in SUBSET Slot /\ ReqClient(req) = First(S)
  BY DEF ReqClient, IdleSlots
<1>2. \A j \in Slot : j \in S <=> slot[j].st = "idle" /\ Host(j) = req
  BY DEF IdleSlots
<1> HIDE DEF S
<1>3. ReqClient(req) = 0 \/ ReqClient(req) \in S
  BY <1>1, FirstLast
<1>4. ReqClient(req) = 0 <=> S = {}
  BY <1>1, FirstLast
<1> QED
  BY <1>1, <1>2, <1>3, <1>4

\* A new negotiation gets an entry that is not in use, or none.
LEMMA FirstClientFound ==
    ASSUME NEW m, NEW req
    PROVE  /\ FirstClient(m, req) \in Slot \cup {0}
           /\ FirstClient(m, req) # 0 => slot[FirstClient(m, req)].st = "idle"
<1>1. \A S \in SUBSET IdleSlots : First(S) = 0 \/ First(S) \in IdleSlots
  BY FirstLast DEF IdleSlots
<1>2. /\ ReqClient(req) = 0 \/ ReqClient(req) \in IdleSlots
      /\ MyHistoryClient(m) = 0 \/ MyHistoryClient(m) \in IdleSlots
      /\ FreeClient = 0 \/ FreeClient \in IdleSlots
      /\ HistoryClient = 0 \/ HistoryClient \in IdleSlots
  BY <1>1 DEF ReqClient, MyHistoryClient, FreeClient, HistoryClient
<1>3. FirstClient(m, req) = 0 \/ FirstClient(m, req) \in IdleSlots
  BY <1>2 DEF FirstClient
<1> QED
  BY <1>3 DEF IdleSlots

\* GivenUp changes one entry, which keeps its station's name or none.
LEMMA GivenUpTable ==
    ASSUME TableOK(slot), NEW i \in Slot \cup {0}
    PROVE  /\ GivenUp(i) \in [Slot -> Entry]
           /\ \A j \in Slot : j # i => GivenUp(i)[j] = slot[j]
           /\ i # 0 => GivenUp(i)[i] \in {Idle(slot[i].mac), Idle(NoMac)}
           /\ TableOK(GivenUp(i))
<1>1. CASE i = 0
  BY <1>1, DhcpAssumption DEF GivenUp, TableOK, Slot
<1>2. CASE i # 0
  <2> DEFINE e == Idle(IF slot[i].st = "bind" THEN slot[i].mac ELSE NoMac)
  <2>1. i \in Slot /\ slot[i] \in Entry
    BY <1>2 DEF TableOK
  <2>2. slot[i].mac \in Station \cup {NoMac}
    BY <2>1 DEF Entry
  <2>3. e \in Entry /\ e.st = "idle" /\ e.mac \in {slot[i].mac, NoMac}
        /\ e \in {Idle(slot[i].mac), Idle(NoMac)}
    BY <2>2, IdleType
  <2>4. GivenUp(i) = [slot EXCEPT ![i] = e]
    BY <1>2 DEF GivenUp
  <2> HIDE DEF e
  <2>5. GivenUp(i) \in [Slot -> Entry]
    BY <2>1, <2>3, <2>4 DEF TableOK
  <2>6. GivenUp(i)[i] = e /\ \A j \in Slot : j # i => GivenUp(i)[j] = slot[j]
    BY <2>1, <2>4 DEF TableOK
  <2>7. InUseOK(GivenUp(i)) /\ UseDistinct(GivenUp(i))
    BY <2>3, <2>6 DEF TableOK, InUseOK, UseDistinct
  <2>8. LeaseAlone(GivenUp(i))
    BY <2>3, <2>6, DhcpAssumption DEF TableOK, LeaseAlone, InUseOK
  <2> QED
    BY <2>3, <2>5, <2>6, <2>7, <2>8 DEF TableOK
<1> QED
  BY <1>1, <1>2

\* No two entries have the same address, and none has the server's own.
PoolDistinct ==
    /\ ServerHost \notin Pool
    /\ \A i, j \in Slot : PoolHost(i) = PoolHost(j) => i = j

\* What _ClientTableLookup answers a message of station m with: entry i and
\* table t.  Entries in use by others and histories other than i stay.
LookupOK(m, msg, i, t) ==
    /\ i \in Slot \cup {0}
    /\ t \in [Slot -> Entry]
    /\ \A j \in Slot : slot[j].st # "idle" /\ slot[j].mac # m => t[j] = slot[j]
    /\ \A j \in Slot : slot[j].st = "idle" /\ j # i => t[j] = slot[j]
    /\ \A j \in Slot : slot[j].st # "idle" /\ slot[j].mac = m /\ j # i =>
          \/ t[j] \in {Idle(m), Idle(NoMac)}
          \/ i = 0 /\ t[j] = slot[j]
    /\ i # 0 => /\ t[i].mac = m
                /\ \/ t[i].st = "idle"
                   \/ t[i] = slot[i] /\ slot[i].st # "idle" /\ msg.type = "request"
                /\ msg.type \in {"discover", "request"}
                /\ msg.type = "request" => msg.sid # "other"

\* Entry i of a table is named after the station.
LEMMA ReturnTable ==
    ASSUME NEW t \in [Slot -> Entry], NEW i \in Slot, NEW m \in Station
    PROVE  /\ Return(i, t, m).client = i
           /\ Return(i, t, m).table \in [Slot -> Entry]
           /\ Return(i, t, m).table[i].mac = m
           /\ Return(i, t, m).table[i].st = t[i].st
           /\ t[i].mac = m => Return(i, t, m).table[i] = t[i]
           /\ \A j \in Slot : j # i => Return(i, t, m).table[j] = t[j]
<1>1. i # 0 /\ t[i] \in Entry
  BY DhcpAssumption DEF Slot
<1>2. /\ Return(i, t, m).client = i
      /\ Return(i, t, m).table = [t EXCEPT ![i] = [t[i] EXCEPT !.mac = m]]
  BY <1>1 DEF Return
<1>3. [t[i] EXCEPT !.mac = m] \in Entry
  BY <1>1 DEF Entry
<1>4. [t[i] EXCEPT !.mac = m].mac = m /\ [t[i] EXCEPT !.mac = m].st = t[i].st
  BY <1>1 DEF Entry
<1>5. t[i].mac = m => [t[i] EXCEPT !.mac = m] = t[i]
  BY <1>1 DEF Entry
<1> HIDE DEF Return
<1> QED
  BY <1>2, <1>3, <1>4, <1>5

LEMMA ReturnNone ==
    ASSUME NEW t, NEW m
    PROVE  Return(0, t, m).client = 0 /\ Return(0, t, m).table = t
  BY DEF Return

\* DISCOVER.
LEMMA DiscoverLookup ==
    ASSUME TableOK(slot), NEW m \in Station, NEW msg, msg.type = "discover"
    PROVE  LET r == LookupDiscover(m, msg.req)
           IN  LookupOK(m, msg, r.client, r.table)
<1> DEFINE my == MyClient(m)
           r == LookupDiscover(m, msg.req)
           rc == ReqClient(msg.req)
<1> SUFFICES LookupOK(m, msg, r.client, r.table)
  OBVIOUS
<1>0. 0 \notin Slot /\ slot \in [Slot -> Entry]
  BY DhcpAssumption DEF Slot, TableOK
<1>1. CASE my = 0
  <2> DEFINE f == FirstClient(m, msg.req)
  <2>1. r = Return(f, slot, m)
    BY <1>1 DEF LookupDiscover
  <2>2. f \in Slot \cup {0} /\ (f # 0 => slot[f].st = "idle")
    BY FirstClientFound
  <2>3. \A j \in Slot : ~(slot[j].st # "idle" /\ slot[j].mac = m)
    BY <1>0, <1>1, MyClientFound
  <2> HIDE DEF r, f, my
  <2>4. CASE f = 0
    BY <2>1, <2>3, <2>4, <1>0, ReturnNone DEF LookupOK
  <2>5. CASE f # 0
    BY <2>1, <2>2, <2>3, <2>5, <1>0, ReturnTable DEF LookupOK
  <2> QED
    BY <2>4, <2>5
<1>2. CASE my # 0 /\ rc # 0
  <2> DEFINE t == [slot EXCEPT ![my] = Idle(NoMac)]
  <2>1. r = Return(rc, t, m)
    BY <1>2 DEF LookupDiscover
  <2>2. my \in Slot /\ slot[my].st # "idle" /\ slot[my].mac = m
        /\ \A j \in Slot : slot[j].st # "idle" /\ slot[j].mac = m => j = my
    BY <1>2, MyClientFound
  <2>3. rc \in Slot /\ slot[rc].st = "idle"
    BY <1>2, ReqClientFound
  <2>4. t \in [Slot -> Entry] /\ t[my] = Idle(NoMac)
        /\ \A j \in Slot : j # my => t[j] = slot[j]
    BY <1>0, <2>2, IdleType
  <2> HIDE DEF r, t, my, rc
  <2> QED
    BY <2>1, <2>2, <2>3, <2>4, <1>0, ReturnTable DEF LookupOK
<1>3. CASE my # 0 /\ rc = 0
  <2> DEFINE t == [slot EXCEPT ![my] = Idle(m)]
  <2>1. r = Return(my, t, m)
    BY <1>3 DEF LookupDiscover
  <2>2. my \in Slot /\ slot[my].st # "idle" /\ slot[my].mac = m
        /\ \A j \in Slot : slot[j].st # "idle" /\ slot[j].mac = m => j = my
    BY <1>3, MyClientFound
  <2>4. t \in [Slot -> Entry] /\ t[my] = Idle(m)
        /\ \A j \in Slot : j # my => t[j] = slot[j]
    BY <1>0, <2>2, IdleType
  <2>5. Idle(m).st = "idle"
    BY IdleType
  <2> HIDE DEF r, t, my, rc
  <2> QED
    BY <2>1, <2>2, <2>4, <2>5, <1>0, ReturnTable DEF LookupOK
<1> QED
  BY <1>1, <1>2, <1>3

\* REQUEST.
LEMMA RequestLookup ==
    ASSUME TableOK(slot), NEW m \in Station, NEW msg, msg.type = "request"
    PROVE  LET r == LookupRequest(m, msg.req, msg.sid # "other")
           IN  LookupOK(m, msg, r.client, r.table)
<1> DEFINE my == MyClient(m)
           r == LookupRequest(m, msg.req, msg.sid # "other")
           rc == ReqClient(msg.req)
           t == GivenUp(my)
<1> SUFFICES LookupOK(m, msg, r.client, r.table)
  OBVIOUS
<1>0. 0 \notin Slot /\ slot \in [Slot -> Entry]
  BY DhcpAssumption DEF Slot, TableOK
<1>1. /\ my \in Slot \cup {0}
      /\ my # 0 => slot[my].st # "idle" /\ slot[my].mac = m
      /\ \A j \in Slot : slot[j].st # "idle" /\ slot[j].mac = m => j = my
  BY MyClientFound
<1>2. /\ t \in [Slot -> Entry]
      /\ \A j \in Slot : j # my => t[j] = slot[j]
      /\ my # 0 => t[my] \in {Idle(slot[my].mac), Idle(NoMac)}
  BY <1>1, GivenUpTable
<1>3. rc \in Slot \cup {0} /\ (rc # 0 => slot[rc].st = "idle")
  BY ReqClientFound
<1>4. \/ r = Return(0, t, m)
      \/ r = Return(0, slot, m)
      \/ msg.sid # "other" /\ rc # 0 /\ r = Return(rc, t, m)
      \/ msg.sid # "other" /\ my # 0 /\ r = Return(my, slot, m)
  BY DEF LookupRequest
<1> HIDE DEF r, t, my, rc
<1>5. CASE r = Return(0, t, m)
  BY <1>0, <1>1, <1>2, <1>5, ReturnNone DEF LookupOK
<1>6. CASE r = Return(0, slot, m)
  BY <1>0, <1>1, <1>6, ReturnNone DEF LookupOK
<1>7. CASE msg.sid # "other" /\ rc # 0 /\ r = Return(rc, t, m)
  BY <1>0, <1>1, <1>2, <1>3, <1>7, ReturnTable DEF LookupOK
<1>8. CASE msg.sid # "other" /\ my # 0 /\ r = Return(my, slot, m)
  BY <1>0, <1>1, <1>8, ReturnTable DEF LookupOK
<1> QED
  BY <1>4, <1>5, <1>6, <1>7, <1>8

LEMMA TableLookup ==
    ASSUME TableOK(slot), NEW m \in Station, NEW msg \in Message
    PROVE  LET r == ClientTableLookup(m, msg)
           IN  LookupOK(m, msg, r.client, r.table)
<1>0. 0 \notin Slot /\ slot \in [Slot -> Entry]
  BY DhcpAssumption DEF Slot, TableOK
<1>1. msg.type \in {"discover", "request", "release", "decline"}
  BY DEF Message
<1>2. CASE msg.type = "discover"
  BY <1>2, DiscoverLookup DEF ClientTableLookup
<1>3. CASE msg.type = "request"
  BY <1>3, RequestLookup DEF ClientTableLookup
<1>4. CASE msg.type \in {"release", "decline"}
  <2> DEFINE my == MyClient(m)
             t == GivenUp(my)
  <2>1. ClientTableLookup(m, msg) = Return(0, t, m)
    BY <1>4 DEF ClientTableLookup
  <2>2. /\ my \in Slot \cup {0}
        /\ my # 0 => slot[my].st # "idle" /\ slot[my].mac = m
        /\ \A j \in Slot : slot[j].st # "idle" /\ slot[j].mac = m => j = my
    BY MyClientFound
  <2>3. /\ t \in [Slot -> Entry]
        /\ \A j \in Slot : j # my => t[j] = slot[j]
        /\ my # 0 => t[my] \in {Idle(slot[my].mac), Idle(NoMac)}
    BY <2>2, GivenUpTable
  <2> HIDE DEF t, my
  <2> QED
    BY <1>0, <2>1, <2>2, <2>3, ReturnNone DEF LookupOK
<1> QED
  BY <1>1, <1>2, <1>3, <1>4

\* When an entry was found, the other entries in use are those of other stations.
LEMMA LookupOthers ==
    ASSUME TableOK(slot), NEW m \in Station, NEW msg, NEW i \in Slot, NEW t,
           LookupOK(m, msg, i, t)
    PROVE  /\ t[i] \in Entry /\ t[i].mac = m
           /\ \A j \in Slot \ {i} :
                /\ t[j] \in Entry
                /\ t[j].st # "idle" => t[j] = slot[j] /\ slot[j].mac # m
                /\ t[j].mac \in {slot[j].mac, m, NoMac}
<1>0. i # 0
  BY DhcpAssumption DEF Slot
<1>1. ASSUME NEW j \in Slot \ {i}
      PROVE  /\ t[j] \in Entry
             /\ t[j].st # "idle" => t[j] = slot[j] /\ slot[j].mac # m
             /\ t[j].mac \in {slot[j].mac, m, NoMac}
  <2>1. t[j] \in Entry
    BY DEF LookupOK
  <2>2. CASE slot[j].st = "idle"
    BY <2>1, <2>2 DEF LookupOK
  <2>3. CASE slot[j].st # "idle" /\ slot[j].mac # m
    BY <2>1, <2>3 DEF LookupOK
  <2>4. CASE slot[j].st # "idle" /\ slot[j].mac = m
    <3>1. t[j] \in {Idle(m), Idle(NoMac)}
      BY <1>0, <2>4 DEF LookupOK
    <3> QED
      BY <2>1, <3>1, IdleType
  <2> QED
    BY <2>2, <2>3, <2>4
<1> QED
  BY <1>0, <1>1 DEF LookupOK

\* Entry i of a table is given out to station m, in state st, while the other
\* entries in use belong to other stations and no lease is one of m.
LEMMA GivenOut ==
    ASSUME TableOK(slot), NEW m \in Station, NEW i \in Slot,
           NEW u \in [Slot -> Entry],
           u[i].st # "idle", u[i].mac = m, u[i].left >= 1,
           \A j \in Slot \ {i} :
                /\ u[j].st # "idle" => u[j] = slot[j] /\ slot[j].mac # m
                /\ u[j].mac \in {slot[j].mac, m, NoMac},
           u[i].st = "bind" => \A j \in Slot \ {i} : u[j].mac # m
    PROVE  TableOK(u)
<1>1. InUseOK(u)
  BY DEF TableOK, InUseOK
<1>2. UseDistinct(u)
  BY DEF TableOK, UseDistinct
<1>3. LeaseAlone(u)
  <2> SUFFICES ASSUME NEW k \in Slot, NEW j \in Slot, k # j, u[k].st = "bind"
               PROVE  u[j].mac # u[k].mac
    BY DEF LeaseAlone
  <2>1. CASE k = i
    BY <2>1
  <2>2. CASE k # i
    <3>1. u[k] = slot[k] /\ slot[k].mac # m /\ slot[k].st = "bind"
      BY <2>2
    <3>2. slot[k].mac # NoMac /\ slot[j].mac # slot[k].mac
      BY <3>1, DhcpAssumption DEF TableOK, InUseOK, LeaseAlone
    <3> QED
      BY <3>1, <3>2
  <2> QED
    BY <2>1, <2>2
<1> QED
  BY <1>1, <1>2, <1>3 DEF TableOK

\* An offer is made.
LEMMA OfferedTable ==
    ASSUME TableOK(slot), NEW m \in Station, NEW msg, NEW i \in Slot, NEW t,
           LookupOK(m, msg, i, t)
    PROVE  /\ TableOK(Offered(t, i))
           /\ \A j \in Slot : slot[j].st # "idle" /\ slot[j].mac # m
                    => Offered(t, i)[j] = slot[j]
<1> DEFINE u == Offered(t, i)
           e == [t[i] EXCEPT !.st = "request", !.left = OfferTime]
<1>1. t \in [Slot -> Entry] /\ i # 0
  BY DhcpAssumption DEF LookupOK, Slot
<1>2. t[i] \in Entry /\ t[i].mac = m
  BY LookupOthers
<1>3. e \in Entry /\ e.st = "request" /\ e.mac = m /\ e.left = OfferTime
  <2>1. OfferTime \in 0 .. LeaseTime + OfferTime
    BY DhcpAssumption
  <2> QED
    BY <1>2, <2>1, EntryChanged DEF SlotState
<1>4. u = [t EXCEPT ![i] = e]
  BY <1>1 DEF Offered
<1>5. u \in [Slot -> Entry] /\ u[i] = e /\ \A j \in Slot : j # i => u[j] = t[j]
  BY <1>1, <1>3, <1>4
<1> HIDE DEF u, e
<1>6. TableOK(u)
  <2>1. u[i].st # "idle" /\ u[i].st # "bind" /\ u[i].mac = m /\ u[i].left >= 1
    BY <1>3, <1>5, DhcpAssumption
  <2>2. \A j \in Slot \ {i} :
           /\ u[j].st # "idle" => u[j] = slot[j] /\ slot[j].mac # m
           /\ u[j].mac \in {slot[j].mac, m, NoMac}
    BY <1>5, LookupOthers
  <2> QED
    BY <1>5, <2>1, <2>2, GivenOut
<1>7. \A j \in Slot : slot[j].st # "idle" /\ slot[j].mac # m => j # i
  BY <1>1 DEF LookupOK, TableOK
<1>8. \A j \in Slot : slot[j].st # "idle" /\ slot[j].mac # m => u[j] = slot[j]
  BY <1>5, <1>7 DEF LookupOK
<1> QED
  BY <1>6, <1>8 DEF u

\* A lease is given.
LEMMA BoundTable ==
    ASSUME TableOK(slot), NEW m \in Station, NEW msg, NEW i \in Slot, NEW t,
           LookupOK(m, msg, i, t)
    PROVE  /\ TableOK(Bound(t, i))
           /\ Bound(t, i)[i].st = "bind" /\ Bound(t, i)[i].mac = m
           /\ Bound(t, i)[i].left = LeaseTime
           /\ \A j \in Slot : slot[j].st # "idle" /\ slot[j].mac # m
                    => Bound(t, i)[j] = slot[j]
<1> DEFINE u == Bound(t, i)
           e == [t[i] EXCEPT !.st = "bind", !.left = LeaseTime]
           b == [t EXCEPT ![i] = e]
<1>1. t \in [Slot -> Entry] /\ i # 0
  BY DhcpAssumption DEF LookupOK, Slot
<1>2. t[i] \in Entry /\ t[i].mac = m
  BY LookupOthers
<1>3. e \in Entry /\ e.st = "bind" /\ e.mac = m /\ e.left = LeaseTime
  <2>1. LeaseTime \in 0 .. LeaseTime + OfferTime
    BY DhcpAssumption
  <2> QED
    BY <1>2, <2>1, EntryChanged DEF SlotState
<1>4. u = CleanClientHistory(b, m)
  BY <1>1, <1>2 DEF Bound
<1>5. b \in [Slot -> Entry] /\ b[i] = e /\ \A j \in Slot : j # i => b[j] = t[j]
  BY <1>1, <1>3
<1>6. \A j \in Slot : u[j] = IF b[j].st = "idle" /\ b[j].mac = m THEN Idle(NoMac) ELSE b[j]
  BY <1>4 DEF CleanClientHistory
<1>7. u \in [Slot -> Entry]
  BY <1>4, <1>5, IdleType DEF CleanClientHistory
<1> HIDE DEF u, e, b
<1>8. u[i] = e
  BY <1>3, <1>5, <1>6
<1>9. ASSUME NEW j \in Slot \ {i}
      PROVE  /\ u[j].st # "idle" => u[j] = slot[j] /\ slot[j].mac # m
             /\ u[j].mac \in {slot[j].mac, m, NoMac}
             /\ u[j].mac # m
  <2>1. /\ t[j] \in Entry
        /\ t[j].st # "idle" => t[j] = slot[j] /\ slot[j].mac # m
        /\ t[j].mac \in {slot[j].mac, m, NoMac}
    BY LookupOthers
  <2>2. u[j] = IF t[j].st = "idle" /\ t[j].mac = m THEN Idle(NoMac) ELSE t[j]
    BY <1>5, <1>6
  <2>3. Idle(NoMac).st = "idle" /\ Idle(NoMac).mac = NoMac /\ NoMac # m
    BY IdleType, DhcpAssumption
  <2> QED
    BY <2>1, <2>2, <2>3
<1>10. TableOK(u)
  <2>1. u[i].st # "idle" /\ u[i].mac = m /\ u[i].left >= 1
    BY <1>3, <1>8, DhcpAssumption
  <2> QED
    BY <1>7, <1>9, <2>1, GivenOut
<1>11. \A j \in Slot : slot[j].st # "idle" /\ slot[j].mac # m => u[j] = slot[j]
  <2> SUFFICES ASSUME NEW j \in Slot, slot[j].st # "idle", slot[j].mac # m
               PROVE  u[j] = slot[j]
    OBVIOUS
  <2>1. j # i /\ t[j] = slot[j]
    BY <1>1 DEF LookupOK
  <2> QED
    BY <2>1, <1>5, <1>6
<1> QED
  BY <1>3, <1>8, <1>10, <1>11 DEF u

\* What DHCPS_RecvCb does to the table for a message of station m.
LEMMA HandledTable ==
    ASSUME TableOK(slot), NEW m \in Station, NEW msg \in Message
    PROVE  LET h == Handled(m, msg)
               i == ClientTableLookup(m, msg).client
           IN  /\ TableOK(h.table)
               /\ h.reply \in {"none", "offer", "ack", "nak"}
               /\ h.host \in Pool \cup {0}
               /\ \A j \in Slot : slot[j].st # "idle" /\ slot[j].mac # m => h.table[j] = slot[j]
               /\ h.reply = "ack" => /\ i \in Slot /\ h.host = Host(i)
                                     /\ h.table[i].st = "bind" /\ h.table[i].mac = m
                                     /\ h.table[i].left = LeaseTime
                                     /\ msg.type = "request" /\ msg.sid # "other"
               /\ i # 0 /\ msg.type = "request" => h.reply = "ack"
<1> DEFINE r == ClientTableLookup(m, msg)
           h == Handled(m, msg)
           i == r.client
           t == r.table
<1>1. LookupOK(m, msg, i, t)
  BY TableLookup
<1>2. msg.type \in {"discover", "request", "release", "decline"} /\ 0 \notin Slot
  BY DhcpAssumption DEF Message, Slot
<1>3. \A j \in Slot : Host(j) \in Pool \cup {0}
  BY PoolPositive DEF Host
<1>4. CASE i = 0
  <2>1. /\ h.reply \in {"none", "nak"} /\ h.host = 0 /\ h.table = t
    BY <1>4 DEF Handled
  <2>2. ASSUME NEW j \in Slot
        PROVE  t[j] = slot[j] \/ (t[j] \in {Idle(m), Idle(NoMac)} /\ slot[j].mac = m)
    <3>1. j # i
      BY <1>2, <1>4
    <3> HIDE DEF t, i
    <3> QED
      BY <1>1, <3>1 DEF LookupOK
  <2>3. t \in [Slot -> Entry]
    BY <1>1 DEF LookupOK
  <2>4. Idle(m).st = "idle" /\ Idle(m).mac = m /\ Idle(NoMac).st = "idle" /\ Idle(NoMac).mac = NoMac
    BY IdleType
  <2> HIDE DEF t, h, i, r
  <2>5. InUseOK(t) /\ UseDistinct(t)
    BY <2>2, <2>4 DEF TableOK, InUseOK, UseDistinct
  <2>6. LeaseAlone(t)
    <3> SUFFICES ASSUME NEW k \in Slot, NEW j \in Slot, k # j, t[k].st = "bind"
                 PROVE  t[j].mac # t[k].mac
      BY DEF LeaseAlone
    <3>1. t[k] = slot[k] /\ slot[k].mac # NoMac /\ slot[j].mac # slot[k].mac
      BY <2>2, <2>4, DhcpAssumption DEF TableOK, InUseOK, LeaseAlone
    <3> QED
      BY <2>2, <2>4, <3>1
  <2>7. TableOK(t)
    BY <2>3, <2>5, <2>6 DEF TableOK
  <2>8. \A j \in Slot : slot[j].st # "idle" /\ slot[j].mac # m => t[j] = slot[j]
    BY <1>1 DEF LookupOK
  <2> QED
    BY <1>4, <2>1, <2>7, <2>8 DEF t, h, i, r
<1>5. CASE i # 0
  <2>1. i \in Slot /\ msg.type \in {"discover", "request"}
        /\ (msg.type = "request" => msg.sid # "other")
        /\ (t[i].st = "idle" \/ msg.type = "request")
    BY <1>1, <1>5 DEF LookupOK
  <2>2. h = ClientSMEHandle(t, i, msg.type)
    BY <1>5 DEF Handled
  <2> HIDE DEF t, h, i, r
  <2>3. CASE msg.type = "discover"
    <3>1. h.reply = "offer" /\ h.host = Host(i) /\ h.table = Offered(t, i)
      BY <2>1, <2>2, <2>3 DEF ClientSMEHandle
    <3> QED
      BY <1>1, <1>3, <2>1, <2>3, <3>1, OfferedTable DEF t, h, i, r
  <2>4. CASE msg.type = "request"
    <3>1. h.reply = "ack" /\ h.host = Host(i) /\ h.table = Bound(t, i)
      BY <2>1, <2>2, <2>4 DEF ClientSMEHandle
    <3> QED
      BY <1>1, <1>3, <2>1, <2>4, <3>1, BoundTable DEF t, h, i, r
  <2> QED
    BY <2>1, <2>3, <2>4
<1> QED
  BY <1>4, <1>5

\* A REQUEST that is acknowledged gets the address it asks for, if that is one
\* of the pool.
LEMMA AckedAddress ==
    ASSUME TableOK(slot), pooled, NEW m \in Station, NEW msg \in Message,
           Handled(m, msg).reply = "ack", msg.req \in Pool
    PROVE  Handled(m, msg).host = msg.req
<1> DEFINE i == ClientTableLookup(m, msg).client
           my == MyClient(m)
           rc == ReqClient(msg.req)
<1>1. i \in Slot /\ Handled(m, msg).host = Host(i) /\ msg.type = "request" /\ msg.sid # "other"
  BY HandledTable
<1>2. i # 0
  BY <1>1, DhcpAssumption DEF Slot
<1>3. i = LookupRequest(m, msg.req, TRUE).client
  BY <1>1 DEF ClientTableLookup
<1>4. ~IpUnavailable(m, msg.req) /\ i = IF rc # 0 THEN rc ELSE my
  BY <1>2, <1>3 DEF LookupRequest, Return
<1>5. CASE rc # 0
  BY <1>1, <1>4, <1>5, ReqClientFound
<1>6. CASE rc = 0
  <2>1. PICK p \in Slot : PoolHost(p) = msg.req
    BY DEF Pool
  <2>2. Host(p) = msg.req
    BY <2>1 DEF Host
  <2>3. slot[p].st # "idle"
    BY <1>6, <2>2, ReqClientFound
  <2>4. slot[p].mac = m
    BY <1>4, <2>2, <2>3 DEF IpUnavailable, IdleSlots
  <2>5. p = my
    BY <2>3, <2>4, MyClientFound
  <2> QED
    BY <1>1, <1>4, <1>6, <2>2, <2>5
<1> QED
  BY <1>5, <1>6

\* A REQUEST of a station that has a lease, for its own address or for none of
\* the pool, finds the entry of that lease.
LEMMA LeaseRenewed ==
    ASSUME TableOK(slot), pooled, PoolDistinct, NEW m \in Station, NEW msg \in Message,
           NEW k \in Slot, slot[k].st = "bind", slot[k].mac = m,
           msg.type = "request", msg.sid # "other",
           msg.req \in Pool => msg.req = Host(k)
    PROVE  ClientTableLookup(m, msg).client = k
<1>1. \A j \in Slot : Host(j) \in Pool /\ (Host(j) = Host(k) => j = k)
  BY PoolPositive DEF Host, PoolDistinct
<1>2. ASSUME NEW j \in Slot, Host(j) = msg.req
      PROVE  j = k
  BY <1>1, <1>2
<1>3. ReqClient(msg.req) = 0
  BY <1>2, ReqClientFound
<1>4. ~IpUnavailable(m, msg.req)
  BY <1>2 DEF IpUnavailable
<1>5. MyClient(m) = k
  BY MyClientFound
<1>6. k # 0
  BY DhcpAssumption DEF Slot
<1> QED
  BY <1>3, <1>4, <1>5, <1>6 DEF ClientTableLookup, LookupRequest, Return

\* One tick for one entry.
LEMMA TickedEntry ==
    ASSUME NEW e \in Entry, NEW valid, e.st # "idle" => e.left >= 1 /\ e.mac \in Station
    PROVE  LET d == Ticked(e, valid)
           IN  /\ d \in Entry
               /\ d.mac \in {e.mac, NoMac}
               /\ d.st # "idle" => d.st = e.st /\ d.mac = e.mac /\ d.left = e.left - 1 /\ d.left >= 1
               /\ e.st = "bind" /\ e.left > 1 /\ e.mac \in valid => d.st = "bind"
<1>1. e.mac \in Station \cup {NoMac} /\ e.left \in 0 .. LeaseTime + OfferTime
  BY DEF Entry
<1>2. /\ Idle(e.mac) \in Entry /\ Idle(e.mac).st = "idle" /\ Idle(e.mac).mac = e.mac
      /\ Idle(NoMac) \in Entry /\ Idle(NoMac).st = "idle" /\ Idle(NoMac).mac = NoMac
  BY <1>1, IdleType
<1> DEFINE f == [e EXCEPT !.left = @ - 1]
<1>3. e.st # "idle" => e.left - 1 \in 0 .. LeaseTime + OfferTime
  BY <1>1, DhcpAssumption
<1>4. f.mac = e.mac /\ f.st = e.st /\ f.left = e.left - 1
  BY DEF Entry
<1>5. e.st # "idle" => f \in Entry
  BY <1>3 DEF Entry
<1>6. \/ e.st = "idle" /\ Ticked(e, valid) = e
      \/ e.st # "idle" /\ e.left # 1 /\ Ticked(e, valid) = f
      \/ /\ Ticked(e, valid) \in {Idle(NoMac), Idle(e.mac)}
         /\ ~(e.st = "bind" /\ e.left > 1 /\ e.mac \in valid)
  BY <1>1 DEF Ticked, Entry, SlotState
<1>7. e.st # "idle" /\ e.left # 1 => e.left - 1 >= 1
  BY <1>1, <1>3
<1> HIDE DEF f
<1>8. CASE e.st = "idle" /\ Ticked(e, valid) = e
  BY <1>8
<1>9. CASE e.st # "idle" /\ e.left # 1 /\ Ticked(e, valid) = f
  BY <1>1, <1>4, <1>5, <1>7, <1>9
<1>10. CASE /\ Ticked(e, valid) \in {Idle(NoMac), Idle(e.mac)}
            /\ ~(e.st = "bind" /\ e.left > 1 /\ e.mac \in valid)
  BY <1>2, <1>10
<1> QED
  BY <1>6, <1>8, <1>9, <1>10

\* One tick for the whole table.
LEMMA TickedTable ==
    ASSUME NEW t, TableOK(t), NEW valid
    PROVE  TableOK([i \in Slot |-> Ticked(t[i], valid)])
<1> DEFINE u == [i \in Slot |-> Ticked(t[i], valid)]
<1>1. ASSUME NEW i \in Slot
      PROVE  /\ u[i] \in Entry
             /\ u[i].mac \in {t[i].mac, NoMac}
             /\ u[i].st # "idle" => u[i].st = t[i].st /\ u[i].mac = t[i].mac /\ u[i].left >= 1
  <2>1. t[i] \in Entry /\ (t[i].st # "idle" => t[i].left >= 1 /\ t[i].mac \in Station)
    BY DEF TableOK, InUseOK
  <2> QED
    BY <2>1, TickedEntry
<1>2. u \in [Slot -> Entry]
  BY <1>1
<1> HIDE DEF u
<1>3. InUseOK(u)
  BY <1>1 DEF TableOK, InUseOK
<1>4. UseDistinct(u)
  BY <1>1 DEF TableOK, UseDistinct
<1>5. LeaseAlone(u)
  <2> SUFFICES ASSUME NEW i \in Slot, NEW j \in Slot, i # j, u[i].st = "bind"
               PROVE  u[j].mac # u[i].mac
    BY DEF LeaseAlone
  <2>1. t[i].st = "bind" /\ u[i].mac = t[i].mac
    BY <1>1
  <2>2. t[i].mac # NoMac /\ t[j].mac # t[i].mac
    BY <2>1, DhcpAssumption DEF TableOK, InUseOK, LeaseAlone
  <2> QED
    BY <1>1, <2>1, <2>2
<1> QED
  BY <1>2, <1>3, <1>4, <1>5 DEF TableOK, u

\* The table after DHCPS_Start or DHCPS_Stop.
LEMMA EmptyTable == TableOK([i \in Slot |-> Idle(NoMac)])
  BY IdleType DEF TableOK, InUseOK, UseDistinct, LeaseAlone

LEMMA TickHandleTable ==
    ASSUME TableOK(slot), NEW valid, TickHandle(valid)
    PROVE  TableOK(slot')
<1> DEFINE once == [i \in Slot |-> Ticked(slot[i], valid)]
<1>1. TableOK(once)
  BY TickedTable
<1>2. TableOK([i \in Slot |-> Ticked(once[i], valid)])
  BY <1>1, TickedTable
<1> QED
  BY <1>1, <1>2 DEF TickHandle

\* DHCPS_ClientDelete gives up a lease of the station.
LEMMA ClientDeleteTable ==
    ASSUME TableOK(slot), NEW m \in Station, ClientDelete(m)
    PROVE  /\ TableOK(slot')
           /\ \A j \in Slot : slot[j].mac # m => slot'[j] = slot[j]
<1> DEFINE S == {j \in Slot \ IdleSlots : slot[j].mac = m}
           i == First(S)
<1>1. S \in SUBSET Slot
  OBVIOUS
<1>2. slot' = GivenUp(i) /\ i # 0
  BY DEF ClientDelete
<1>3. i \in S
  BY <1>1, <1>2, FirstLast
<1> QED
  BY <1>2, <1>3, GivenUpTable

(***************************************************************************)
(* Type correctness and OneSlot, for every failure.                        *)
(***************************************************************************)

\* Starts of the server that the system task has yet to see.
UpSet(q) == {i \in DOMAIN q : q[i] = "net2_up"}

\* A tick is pending for at most MaxArmed starts, seen or not.
TicksBounded == armed + Cardinality(UpSet(sysq)) <= MaxArmed

LEMMA UpSetFinite ==
    ASSUME NEW S, NEW q \in Seq(S)
    PROVE  IsFiniteSet(UpSet(q)) /\ Cardinality(UpSet(q)) \in Nat
<1>1. UpSet(q) \in SUBSET (1 .. Len(q)) /\ Len(q) \in Nat
  BY DEF UpSet
<1>2. IsFiniteSet(1 .. Len(q))
  BY <1>1, FS_Interval
<1> QED
  BY <1>1, <1>2, FS_Subset, FS_CardinalityType

\* A message is added to the queue of the system task.
LEMMA UpSetAppend ==
    ASSUME NEW S, NEW q \in Seq(S), NEW x \in S
    PROVE  Cardinality(UpSet(Append(q, x))) =
             Cardinality(UpSet(q)) + (IF x = "net2_up" THEN 1 ELSE 0)
<1> DEFINE n == Len(q) + 1
<1>1. n \notin UpSet(q) /\ IsFiniteSet(UpSet(q)) /\ Cardinality(UpSet(q)) \in Nat
  BY UpSetFinite DEF UpSet
<1>2. UpSet(Append(q, x)) = IF x = "net2_up" THEN UpSet(q) \cup {n} ELSE UpSet(q)
  BY DEF UpSet
<1> HIDE DEF n
<1>3. Cardinality(UpSet(q) \cup {n}) = Cardinality(UpSet(q)) + 1
  BY <1>1, FS_AddElement
<1> QED
  BY <1>1, <1>2, <1>3

\* A message is taken off the queue.
LEMMA UpSetTail ==
    ASSUME NEW S, NEW q \in Seq(S), q # <<>>
    PROVE  Cardinality(UpSet(Tail(q))) =
             Cardinality(UpSet(q)) - (IF Head(q) = "net2_up" THEN 1 ELSE 0)
<1> DEFINE A == UpSet(Tail(q))
           B == UpSet(q) \ {1}
           f == [i \in A |-> i + 1]
<1>1. Tail(q) \in Seq(S) /\ Len(Tail(q)) = Len(q) - 1 /\ Len(q) \in Nat \ {0}
      /\ \A i \in 1 .. Len(q) - 1 : Tail(q)[i] = q[i + 1]
  OBVIOUS
<1>2. \A i \in Int : i \in A <=> i \in 1 .. Len(q) - 1 /\ q[i + 1] = "net2_up"
  BY <1>1 DEF UpSet
<1>3. \A i \in Int : i \in B <=> i \in 2 .. Len(q) /\ q[i] = "net2_up"
  BY <1>1 DEF UpSet
<1>4. A \subseteq Int /\ B \subseteq Int
  BY <1>1 DEF UpSet
<1>5. IsFiniteSet(UpSet(q)) /\ Cardinality(UpSet(q)) \in Nat /\ IsFiniteSet(A)
  BY <1>1, UpSetFinite
<1>6. 1 \in UpSet(q) <=> Head(q) = "net2_up"
  BY <1>1 DEF UpSet
<1> HIDE DEF A, B
<1>7. f \in [A -> B] /\ (\A i, j \in A : f[i] = f[j] => i = j)
  BY <1>1, <1>2, <1>3, <1>4
<1>8. \A j \in B : \E i \in A : f[i] = j
  <2> SUFFICES ASSUME NEW j \in B PROVE j - 1 \in A /\ f[j - 1] = j
    OBVIOUS
  <2> QED
    BY <1>1, <1>2, <1>3, <1>4
<1> HIDE DEF f
<1>9. ExistsBijection(A, B)
  BY <1>7, <1>8 DEF ExistsBijection, Bijection, Injection, Surjection, IsInjective
<1>10. Cardinality(B) = Cardinality(A)
  BY <1>5, <1>9, FS_Bijection
<1>11. Cardinality(B) = IF 1 \in UpSet(q) THEN Cardinality(UpSet(q)) - 1
                                         ELSE Cardinality(UpSet(q))
  BY <1>5, FS_RemoveElement DEF B
<1> QED
  BY <1>5, <1>6, <1>10, <1>11 DEF A

TypeInv == SoftApTypeOK /\ TableOK(slot) /\ TicksBounded

\* The queue of the system task.
SysMsg == {"net2_up", "net2_down"}

LEMMA InitTypes == Init => TypeInv
<1> SUFFICES ASSUME Init PROVE TypeInv
  OBVIOUS
<1>1. slot = [i \in Slot |-> Idle(NoMac)] /\ armed = 0 /\ sysq = <<>>
  BY DEF Init, DhcpInit
<1>2. TableOK(slot)
  BY <1>1, EmptyTable
<1>3. UpSet(sysq) = {}
  BY <1>1 DEF UpSet
<1>4. TicksBounded
  BY <1>1, <1>3, FS_EmptySet DEF TicksBounded, MaxArmed
<1>5. NoHold \in [host : Pool \cup {0}, left : 0 .. LeaseTime]
  BY DhcpAssumption DEF NoHold
<1>6. SoftApTypeOK
  <2>1. slot \in [Slot -> Entry] /\ armed \in 0 .. MaxArmed
    BY <1>1, <1>2 DEF TableOK, MaxArmed
  <2>2. hold \in [Station -> [host : Pool \cup {0}, left : 0 .. LeaseTime]]
    BY <1>5 DEF Init
  <2>3. chan \in [Station -> Seq(Message)] /\ offer \in [Station -> Pool \cup {0}]
    BY DEF Init
  <2>4. sysq \in Seq({"net2_up", "net2_down"}) /\ authed \subseteq Station
    BY DEF Init
  <2> QED
    BY <2>1, <2>2, <2>3, <2>4 DEF SoftApTypeOK, Init, DhcpInit
<1> QED
  BY <1>2, <1>4, <1>6 DEF TypeInv

\* The actions of the AP and the system task keep the types.
LEMMA SysTypes ==
    ASSUME TypeInv, ApUp \/ ApClosed \/ SysTask
    PROVE  TypeInv'
<1> DEFINE n == Cardinality(UpSet(sysq))
<1>0. /\ sysq \in Seq(SysMsg) /\ armed \in 0 .. MaxArmed /\ n \in Nat /\ armed + n <= MaxArmed
      /\ MaxArmed = 2 /\ slot \in [Slot -> Entry]
  BY UpSetFinite DEF TypeInv, SoftApTypeOK, SysMsg, TicksBounded, MaxArmed
<1>1. NoHold \in [host : Pool \cup {0}, left : 0 .. LeaseTime]
  BY DhcpAssumption DEF NoHold
<1>2. CASE ApUp
  <2>1. armed + n < MaxArmed
    BY <1>2 DEF ApUp, UpSet
  <2>2. /\ sysq' \in Seq(SysMsg)
        /\ Cardinality(UpSet(sysq')) <= n + 1 /\ Cardinality(UpSet(sysq')) \in Nat
    <3>1. sysq' = Append(sysq, "net2_up") \/ sysq' = sysq
      BY <1>2 DEF ApUp, SysSend
    <3>2. "net2_up" \in SysMsg
      BY DEF SysMsg
    <3>3. Append(sysq, "net2_up") \in Seq(SysMsg)
      BY <1>0, <3>2
    <3>4. Cardinality(UpSet(Append(sysq, "net2_up"))) = n + 1
      BY <1>0, <3>2, UpSetAppend
    <3> HIDE DEF n
    <3>5. n + 1 \in Nat /\ n <= n + 1
      BY <1>0
    <3>6. CASE sysq' = Append(sysq, "net2_up")
      BY <3>3, <3>4, <3>5, <3>6
    <3>7. CASE sysq' = sysq
      BY <1>0, <3>5, <3>7 DEF n
    <3> QED
      BY <3>1, <3>6, <3>7
  <2>3. TicksBounded'
    BY <1>0, <1>2, <2>1, <2>2 DEF ApUp, server, TicksBounded, MaxArmed
  <2>4. SoftApTypeOK'
    BY <1>2, <2>2 DEF ApUp, server, TypeInv, SoftApTypeOK, SysMsg, MaxArmed, Pool, Message
  <2>5. TableOK(slot)'
    BY <1>2 DEF ApUp, server, TypeInv
  <2> QED
    BY <2>3, <2>4, <2>5 DEF TypeInv
<1>3. CASE ApClosed
  <2>1. /\ sysq' \in Seq(SysMsg)
        /\ Cardinality(UpSet(sysq')) = n
    <3>1. sysq' = Append(sysq, "net2_down") \/ sysq' = sysq
      BY <1>3 DEF ApClosed, SysSend
    <3>2. "net2_down" \in SysMsg
      BY DEF SysMsg
    <3>3. Append(sysq, "net2_down") \in Seq(SysMsg)
      BY <1>0, <3>2
    <3>4. Cardinality(UpSet(Append(sysq, "net2_down"))) = n
      BY <1>0, <3>2, UpSetAppend
    <3> QED
      BY <1>0, <3>1, <3>3, <3>4
  <2>3. TicksBounded'
    BY <1>0, <1>3, <2>1 DEF ApClosed, server, TicksBounded, MaxArmed
  <2>4. SoftApTypeOK'
    <3>1. chan' \in [Station -> Seq(Message)] /\ offer' \in [Station -> Pool \cup {0}]
      BY <1>3 DEF ApClosed
    <3>2. hold' \in [Station -> [host : Pool \cup {0}, left : 0 .. LeaseTime]]
      BY <1>1, <1>3 DEF ApClosed
    <3> QED
      BY <1>3, <2>1, <3>1, <3>2
      DEF ApClosed, server, TypeInv, SoftApTypeOK, SysMsg, MaxArmed
  <2>5. TableOK(slot)'
    BY <1>3 DEF ApClosed, server, TypeInv
  <2> QED
    BY <2>3, <2>4, <2>5 DEF TypeInv
<1>4. CASE SysTask
  <2>1. /\ sysq' = Tail(sysq) /\ sysq # <<>> /\ sysq' \in Seq(SysMsg)
        /\ Cardinality(UpSet(sysq')) = n - (IF Head(sysq) = "net2_up" THEN 1 ELSE 0)
        /\ Cardinality(UpSet(sysq')) \in Nat
    <3>1. sysq' = Tail(sysq) /\ sysq # <<>>
      BY <1>4 DEF SysTask
    <3>2. sysq' \in Seq(SysMsg)
      BY <1>0, <3>1
    <3>3. Cardinality(UpSet(sysq')) = n - (IF Head(sysq) = "net2_up" THEN 1 ELSE 0)
      BY <1>0, <3>1, UpSetTail
    <3>4. Cardinality(UpSet(sysq')) \in Nat
      BY <3>2, UpSetFinite
    <3> QED
      BY <3>1, <3>2, <3>3, <3>4
  <2>2. /\ slot' = [i \in Slot |-> Idle(NoMac)]
        /\ armed' \in 0 .. MaxArmed
        /\ armed' <= armed + (IF Head(sysq) = "net2_up" THEN 1 ELSE 0)
        /\ enable' \in BOOLEAN /\ leaked' \in BOOLEAN /\ pooled' \in BOOLEAN
        /\ socket' \in {"none", "bound", "unbound"}
    <3>1. ASSUME NEW ok \in BOOLEAN, Start(ok), Head(sysq) = "net2_up"
          PROVE  <2>2!:
      <4>1. armed + 1 <= MaxArmed
        BY <1>0, <2>1, <3>1
      <4>2. armed' \in 0 .. MaxArmed /\ armed' <= armed + 1
        BY <1>0, <3>1, <4>1 DEF Start
      <4>3. leaked' \in BOOLEAN /\ enable' \in BOOLEAN /\ pooled' \in BOOLEAN
        BY <3>1, Zenon DEF Start, Listens, TypeInv, SoftApTypeOK
      <4>4. socket' \in {"none", "bound", "unbound"}
        BY <3>1 DEF Start
      <4> QED
        BY <3>1, <4>2, <4>3, <4>4 DEF Start
    <3>2. ASSUME Stop, Head(sysq) = "net2_down"
          PROVE  <2>2!:
      <4>1. armed' \in 0 .. MaxArmed /\ armed' <= armed
        BY <1>0, <3>2 DEF Stop
      <4>2. leaked' \in BOOLEAN /\ enable' \in BOOLEAN /\ pooled' \in BOOLEAN
        BY <3>2 DEF Stop, TypeInv, SoftApTypeOK
      <4>3. socket' \in {"none", "bound", "unbound"}
        BY <3>2 DEF Stop
      <4> QED
        BY <1>0, <3>2, <4>1, <4>2, <4>3 DEF Stop
    <3> QED
      BY <1>4, <3>1, <3>2 DEF SysTask
  <2>3. TableOK(slot)'
    BY <2>2, EmptyTable
  <2>4. TicksBounded'
    BY <1>0, <2>1, <2>2 DEF TicksBounded, MaxArmed
  <2>5. SoftApTypeOK'
    BY <1>4, <2>1, <2>2, <2>3 DEF SysTask, TypeInv, SoftApTypeOK, SysMsg, MaxArmed, TableOK
  <2> QED
    BY <2>3, <2>4, <2>5 DEF TypeInv
<1> QED
  BY <1>2, <1>3, <1>4

HoldSet == [host : Pool \cup {0}, left : 0 .. LeaseTime]

\* A station sends a message.
LEMMA SendTypes ==
    ASSUME TypeInv, NEW m \in Station, NEW msg \in Message, NEW kept \in HoldSet,
           Send(m, msg, kept),
           offer' = offer \/ offer' = [offer EXCEPT ![m] = 0]
    PROVE  TypeInv'
<1>1. chan' \in [Station -> Seq(Message)]
  <2>1. chan \in [Station -> Seq(Message)] /\ chan' = [chan EXCEPT ![m] = Append(chan[m], msg)]
    BY DEF Send, TypeInv, SoftApTypeOK
  <2>2. Append(chan[m], msg) \in Seq(Message)
    BY <2>1
  <2> QED
    BY <2>1, <2>2
<1>2. hold' \in [Station -> HoldSet] /\ offer' \in [Station -> Pool \cup {0}]
  BY DEF Send, TypeInv, SoftApTypeOK, HoldSet
<1>3. UNCHANGED <<server, ap, sysq, authed>>
  BY DEF Send
<1> QED
  BY <1>1, <1>2, <1>3 DEF TypeInv, SoftApTypeOK, TicksBounded, server, HoldSet, MaxArmed

\* A station sends a message: which one, and what it keeps.
Sends(m) ==
    \/ Select(m) \/ Renew(m)
    \/ \E req \in Pool \cup {0} : Discover(m, req)
    \/ \E req \in Pool \cup {Foreign} : SelectOther(m, req) \/ Reboot(m, req)
    \/ \E type \in {"release", "decline"} : GiveUp(m, type)

LEMMA SendsWhat ==
    ASSUME TypeInv, NEW m \in Station, Sends(m)
    PROVE  \E msg \in Message, kept \in HoldSet :
             /\ Send(m, msg, kept)
             /\ offer' = offer \/ offer' = [offer EXCEPT ![m] = 0]
             /\ \/ kept = NoHold
                \/ kept = hold[m] /\ msg = Msg("request", 0, "none")
<1>1. NoHold \in HoldSet /\ hold[m] \in HoldSet /\ offer[m] \in Pool \cup {0}
  BY DhcpAssumption DEF NoHold, HoldSet, TypeInv, SoftApTypeOK
<1>2. \A type \in {"discover", "request", "release", "decline"},
         req \in Pool \cup {0, Foreign}, sid \in {"none", "this", "other"} :
            Msg(type, req, sid) \in Message
  BY DEF Msg, Message
<1>3. CASE Select(m)
  BY <1>1, <1>2, <1>3 DEF Select
<1>4. CASE Renew(m)
  BY <1>1, <1>2, <1>4 DEF Renew
<1>5. CASE \E req \in Pool \cup {0} : Discover(m, req)
  BY <1>1, <1>2, <1>5 DEF Discover
<1>6. CASE \E req \in Pool \cup {Foreign} : SelectOther(m, req) \/ Reboot(m, req)
  BY <1>1, <1>2, <1>6 DEF SelectOther, Reboot
<1>7. CASE \E type \in {"release", "decline"} : GiveUp(m, type)
  BY <1>1, <1>2, <1>7 DEF GiveUp
<1> QED
  BY <1>3, <1>4, <1>5, <1>6, <1>7 DEF Sends

\* Stations come and go, messages get lost.
LEMMA StationTypes ==
    ASSUME TypeInv, NEW m \in Station, Join(m) \/ Leave(m) \/ Drop(m)
    PROVE  TypeInv'
<1>1. NoHold \in HoldSet
  BY DhcpAssumption DEF NoHold, HoldSet
<1>2. UNCHANGED <<server, ap, sysq>> /\ authed' \subseteq Station
  BY DEF Join, Leave, Drop, TypeInv, SoftApTypeOK
<1>3. chan' \in [Station -> Seq(Message)]
  <2>1. CASE Join(m)
    BY <2>1 DEF Join, TypeInv, SoftApTypeOK
  <2>2. CASE Leave(m)
    BY <2>2 DEF Leave, TypeInv, SoftApTypeOK
  <2>3. CASE Drop(m)
    BY <2>3 DEF Drop, TypeInv, SoftApTypeOK
  <2> QED
    BY <2>1, <2>2, <2>3
<1>4. hold' \in [Station -> HoldSet] /\ offer' \in [Station -> Pool \cup {0}]
  <2>0. hold \in [Station -> HoldSet] /\ offer \in [Station -> Pool \cup {0}]
    BY DEF TypeInv, SoftApTypeOK, HoldSet
  <2>1. CASE Join(m)
    BY <1>1, <2>0, <2>1 DEF Join
  <2>2. CASE Leave(m)
    BY <1>1, <2>0, <2>2 DEF Leave
  <2>3. CASE Drop(m)
    BY <1>1, <2>0, <2>3 DEF Drop
  <2> QED
    BY <2>1, <2>2, <2>3
<1> QED
  BY <1>2, <1>3, <1>4 DEF TypeInv, SoftApTypeOK, TicksBounded, server, HoldSet, MaxArmed

\* DHCPS_RecvCb, whether the reply arrives or not.
LEMMA ServeTypes ==
    ASSUME TypeInv, NEW m \in Station, Answer(m) \/ Mute(m)
    PROVE  TypeInv'
<1> DEFINE msg == Head(chan[m])
           h == Handled(m, msg)
<1>1. chan \in [Station -> Seq(Message)] /\ chan[m] # <<>> /\ msg \in Message
  BY DEF Answer, Mute, TypeInv, SoftApTypeOK
<1>2. /\ slot' = h.table
      /\ UNCHANGED <<enable, socket, leaked, pooled, armed, ap, sysq, authed>>
      /\ chan' = [chan EXCEPT ![m] = Tail(@)]
  BY DEF Answer, Mute, RecvCb
<1>3. TableOK(h.table) /\ h.host \in Pool \cup {0}
  BY <1>1, HandledTable DEF TypeInv
<1>4. chan' \in [Station -> Seq(Message)]
  BY <1>1, <1>2
<1>5. hold' \in [Station -> HoldSet] /\ offer' \in [Station -> Pool \cup {0}]
  <2>1. NoHold \in HoldSet /\ [host |-> h.host, left |-> LeaseTime] \in HoldSet
    BY <1>3, DhcpAssumption DEF NoHold, HoldSet
  <2>2. hold \in [Station -> HoldSet] /\ offer \in [Station -> Pool \cup {0}]
    BY DEF TypeInv, SoftApTypeOK, HoldSet
  <2>3. Receive(m, h.reply, h.host) \/ UNCHANGED <<offer, hold>>
    BY DEF Answer, Mute
  <2> HIDE DEF h
  <2> QED
    BY <1>3, <2>1, <2>2, <2>3 DEF Receive
<1> HIDE DEF h, msg
<1>6. TableOK(slot')
  BY <1>2, <1>3
<1> QED
  BY <1>2, <1>4, <1>5, <1>6
  DEF TypeInv, SoftApTypeOK, TicksBounded, HoldSet, MaxArmed, TableOK

\* Time passes.
LEMMA TickTypes ==
    ASSUME TypeInv, Tick
    PROVE  TypeInv'
<1>1. PICK valid : TickHandle(valid)
  BY DEF Tick
<1>2. TableOK(slot')
  BY <1>1, TickHandleTable DEF TypeInv
<1>3. hold' \in [Station -> HoldSet]
  <2>1. hold \in [Station -> HoldSet] /\ NoHold \in HoldSet
    BY DhcpAssumption DEF NoHold, HoldSet, TypeInv, SoftApTypeOK
  <2>2. \A h \in HoldSet : Aged(h) \in HoldSet
    BY <2>1, DhcpAssumption DEF Aged, HoldSet
  <2> QED
    BY <2>1, <2>2 DEF Tick
<1>4. armed' \in 0 .. MaxArmed /\ armed' <= armed
  BY <1>1 DEF TickHandle, TypeInv, SoftApTypeOK, MaxArmed
<1>5. Cardinality(UpSet(sysq)) \in Nat
  BY UpSetFinite DEF TypeInv, SoftApTypeOK
<1>6. TicksBounded'
  BY <1>4, <1>5 DEF Tick, TypeInv, TicksBounded, SoftApTypeOK, MaxArmed
<1> QED
  BY <1>1, <1>2, <1>3, <1>4, <1>6
  DEF Tick, TickHandle, TypeInv, SoftApTypeOK, HoldSet, MaxArmed, TableOK

LEMMA DeleteTypes ==
    ASSUME TypeInv, NEW m \in Station, Delete(m)
    PROVE  TypeInv'
<1>1. TableOK(slot')
  BY ClientDeleteTable DEF Delete, TypeInv
<1> QED
  BY <1>1
  DEF Delete, ClientDelete, TypeInv, SoftApTypeOK, TicksBounded, MaxArmed, TableOK

LEMMA NextTypes == TypeInv /\ [Next]_vars => TypeInv'
<1> SUFFICES ASSUME TypeInv, [Next]_vars PROVE TypeInv'
  OBVIOUS
<1>1. CASE ApUp \/ ApClosed \/ SysTask
  BY <1>1, SysTypes
<1>2. CASE Tick
  BY <1>2, TickTypes
<1>3. ASSUME NEW m \in Station, Sends(m) PROVE TypeInv'
  BY <1>3, SendsWhat, SendTypes
<1>4. ASSUME NEW m \in Station, Join(m) \/ Leave(m) \/ Drop(m) PROVE TypeInv'
  BY <1>4, StationTypes
<1>5. ASSUME NEW m \in Station, Answer(m) \/ Mute(m) PROVE TypeInv'
  BY <1>5, ServeTypes
<1>6. ASSUME NEW m \in Station, Delete(m) PROVE TypeInv'
  BY <1>6, DeleteTypes
<1>7. CASE UNCHANGED vars
  BY <1>7 DEF vars, server, TypeInv, SoftApTypeOK, TicksBounded, MaxArmed
<1> QED
  BY <1>1, <1>2, <1>3, <1>4, <1>5, <1>6, <1>7 DEF Next, Sends

\* Every variable of the DHCP server and of the soft AP keeps its type, for any
\* number of stations and entries and whatever fails; an entry that the tick or a
\* message leaves in use is always complete.
THEOREM SoftApTypes == Spec => []SoftApTypeOK
<1>1. TypeInv => SoftApTypeOK
  BY DEF TypeInv
<1> QED
  BY <1>1, InitTypes, NextTypes, PTL DEF Spec

\* The server never has two entries in use for one station, whatever messages
\* come in which order, whatever fails and however often it is restarted.
THEOREM OneEntryPerStation == Spec => []OneSlot
<1>1. TypeInv => OneSlot
  BY DEF TypeInv, TableOK, UseDistinct, OneSlot
<1> QED
  BY <1>1, InitTypes, NextTypes, PTL DEF Spec

(***************************************************************************)
(* Leases, when the system task follows the AP and hears of every change,  *)
(* and the tick finds the stations that are there.                         *)
(***************************************************************************)

Reliable == Prompt /\ "tick" \notin Fails /\ "sys" \notin Fails

\* Starts and stops of the server alternate, each with its change of the AP.
ServerInv ==
    /\ ~leaked /\ socket \in {"none", "bound"}
    /\ enable <=> socket = "bound"
    /\ enable => pooled
    /\ armed = IF enable THEN 1 ELSE 0
    /\ sysq \in {<<>>, <<"net2_up">>, <<"net2_down">>}
    /\ sysq = <<"net2_up">> => ap /\ ~enable
    /\ sysq = <<"net2_down">> => ~ap
    /\ sysq = <<>> /\ enable => ap

\* Stations use addresses only while they are there and the server runs.
HoldInv ==
    /\ ~ap => authed = {}
    /\ \A m \in Station : hold[m] # NoHold => m \in authed /\ enable

\* What a station that uses an address still has on its way to the server asks
\* for that address or for none.
ChanInv ==
    \A m \in Station : hold[m] # NoHold =>
        \A k \in 1 .. Len(chan[m]) :
            /\ chan[m][k].type = "request" /\ chan[m][k].sid # "other"
            /\ chan[m][k].req \in Pool => chan[m][k].req = hold[m].host

LeaseInv == TypeInv /\ ServerInv /\ HoldInv /\ ChanInv /\ LeaseCovered

\* Starting and stopping.
LEMMA SysSteps ==
    ASSUME LeaseInv, Reliable, ApUp \/ ApClosed \/ SysTask
    PROVE  ServerInv' /\ HoldInv' /\ ChanInv' /\ LeaseCovered'
<1>0. sysq \in Seq(SysMsg) /\ Station = DOMAIN hold
  BY DEF LeaseInv, TypeInv, SoftApTypeOK, SysMsg
<1>1. CASE ApUp
  <2>1. sysq = <<>> /\ sysq' = <<"net2_up">> /\ ~ap /\ ap'
    BY <1>1 DEF ApUp, CanChange, SysSend, Reliable
  <2>2. UNCHANGED <<slot, enable, socket, leaked, pooled, armed, authed, chan, offer, hold>>
    BY <1>1 DEF ApUp, server
  <2>3. ServerInv'
    BY <2>1, <2>2 DEF ServerInv, LeaseInv
  <2>4. HoldInv' /\ ChanInv' /\ LeaseCovered'
    BY <2>1, <2>2 DEF HoldInv, ChanInv, LeaseCovered, Host, LeaseInv
  <2> QED
    BY <2>3, <2>4
<1>2. CASE ApClosed
  <2>1. sysq = <<>> /\ sysq' = <<"net2_down">> /\ ap /\ ~ap'
    BY <1>2 DEF ApClosed, CanChange, SysSend, Reliable
  <2>2. UNCHANGED <<slot, enable, socket, leaked, pooled, armed>>
    BY <1>2 DEF ApClosed, server
  <2>3. authed' = {} /\ \A m \in Station : hold'[m] = NoHold
    BY <1>2 DEF ApClosed
  <2>4. ServerInv'
    BY <2>1, <2>2 DEF ServerInv, LeaseInv
  <2> QED
    BY <2>3, <2>4 DEF HoldInv, ChanInv, LeaseCovered
<1>3. CASE SysTask
  <2>1. UNCHANGED <<ap, authed, chan, offer, hold>> /\ sysq # <<>> /\ sysq' = Tail(sysq)
    BY <1>3 DEF SysTask
  <2>2. sysq' = <<>> /\ \A m \in Station : hold[m] = NoHold
    <3>1. sysq = <<"net2_up">> \/ sysq = <<"net2_down">>
      BY <2>1 DEF LeaseInv, ServerInv
    <3>2. Tail(sysq) = <<>>
      <4>1. Tail(<<"net2_up">>) = <<>> /\ Tail(<<"net2_down">>) = <<>>
        OBVIOUS
      <4> QED
        BY <3>1, <4>1
    <3>3. ~enable \/ authed = {}
      BY <3>1 DEF LeaseInv, ServerInv, HoldInv
    <3> QED
      BY <2>1, <3>2, <3>3 DEF LeaseInv, HoldInv
  <2>3. ServerInv'
    <3>1. CASE sysq = <<"net2_up">>
      <4>1. Head(sysq) = "net2_up" /\ Head(sysq) # "net2_down" /\ ap
        BY <3>1 DEF LeaseInv, ServerInv
      <4>2. ~Listens /\ armed = 0
        BY <3>1 DEF LeaseInv, ServerInv, Listens
      <4>3. PICK ok \in BOOLEAN : Start(ok)
        BY <1>3, <4>1 DEF SysTask
      <4> QED
        BY <2>1, <2>2, <4>1, <4>2, <4>3 DEF Start, ServerInv
    <3>2. CASE sysq = <<"net2_down">>
      <4>1. Head(sysq) = "net2_down" /\ Head(sysq) # "net2_up"
        BY <3>2
      <4>2. Stop
        BY <1>3, <4>1 DEF SysTask
      <4>3. armed \in {0, 1} /\ ~leaked
        BY DEF LeaseInv, ServerInv
      <4>4. /\ armed' = 0 /\ leaked' = leaked
            /\ enable' = FALSE /\ socket' = "none" /\ pooled' = FALSE
        BY <4>2, <4>3 DEF Stop
      <4>5. <<>> # <<"net2_up">> /\ <<>> # <<"net2_down">>
        OBVIOUS
      <4> QED
        BY <2>2, <4>3, <4>4, <4>5 DEF ServerInv
    <3> QED
      BY <2>1, <3>1, <3>2 DEF LeaseInv, ServerInv
  <2>4. HoldInv' /\ ChanInv' /\ LeaseCovered'
    BY <2>1, <2>2 DEF HoldInv, ChanInv, LeaseCovered, LeaseInv
  <2> QED
    BY <2>3, <2>4
<1> QED
  BY <1>1, <1>2, <1>3

\* Messages, stations that come and go.
LEMMA SendSteps ==
    ASSUME LeaseInv, NEW m \in Station, Sends(m)
    PROVE  ServerInv' /\ HoldInv' /\ ChanInv' /\ LeaseCovered'
<1>1. PICK msg \in Message, kept \in HoldSet :
             /\ Send(m, msg, kept)
             /\ \/ kept = NoHold
                \/ kept = hold[m] /\ msg = Msg("request", 0, "none")
  BY SendsWhat DEF LeaseInv
<1>2. /\ UNCHANGED <<slot, enable, socket, leaked, pooled, armed, ap, sysq, authed>>
      /\ chan' = [chan EXCEPT ![m] = Append(@, msg)]
      /\ hold' = [hold EXCEPT ![m] = kept]
  BY <1>1 DEF Send, server
<1>3. hold \in [Station -> HoldSet] /\ chan \in [Station -> Seq(Message)]
  BY DEF LeaseInv, TypeInv, SoftApTypeOK, HoldSet
<1>4. \A n \in Station : hold'[n] # NoHold => hold'[n] = hold[n]
  BY <1>1, <1>2, <1>3
<1>5. ServerInv'
  BY <1>2 DEF LeaseInv, ServerInv
<1>6. HoldInv'
  BY <1>2, <1>4 DEF LeaseInv, HoldInv
<1>7. LeaseCovered'
  BY <1>2, <1>4 DEF LeaseInv, LeaseCovered, Host
<1>8. ChanInv'
  <2> SUFFICES ASSUME NEW n \in Station, hold'[n] # NoHold, NEW k \in 1 .. Len(chan'[n])
               PROVE  /\ chan'[n][k].type = "request" /\ chan'[n][k].sid # "other"
                      /\ chan'[n][k].req \in Pool => chan'[n][k].req = hold'[n].host
    BY DEF ChanInv
  <2>1. CASE n # m \/ k <= Len(chan[m])
    <3>1. chan'[n][k] = chan[n][k] /\ k \in 1 .. Len(chan[n])
      BY <1>2, <1>3, <2>1
    <3> QED
      BY <1>4, <3>1 DEF LeaseInv, ChanInv
  <2>2. CASE n = m /\ k = Len(chan[m]) + 1
    <3>1. chan'[n][k] = msg
      BY <1>2, <1>3, <2>2
    <3>2. msg = Msg("request", 0, "none")
      BY <1>1, <1>2, <1>3, <2>2
    <3>3. 0 \notin Pool
      BY PoolPositive DEF Pool
    <3> QED
      BY <3>1, <3>2, <3>3 DEF Msg
  <2> QED
    BY <1>2, <1>3, <2>1, <2>2
<1> QED
  BY <1>5, <1>6, <1>7, <1>8

LEMMA StationSteps ==
    ASSUME LeaseInv, NEW m \in Station, Join(m) \/ Leave(m) \/ Drop(m)
    PROVE  ServerInv' /\ HoldInv' /\ ChanInv' /\ LeaseCovered'
<1>1. UNCHANGED <<slot, enable, socket, leaked, pooled, armed, ap, sysq>>
  BY DEF Join, Leave, Drop, server
<1>2. hold \in [Station -> HoldSet] /\ chan \in [Station -> Seq(Message)]
  BY DEF LeaseInv, TypeInv, SoftApTypeOK, HoldSet
<1>3. \A n \in Station : hold'[n] # NoHold => hold'[n] = hold[n] /\ (n # m \/ ~Leave(m))
  BY <1>2 DEF Join, Leave, Drop
<1>4. ServerInv'
  BY <1>1 DEF LeaseInv, ServerInv
<1>5. HoldInv'
  BY <1>1, <1>3 DEF LeaseInv, HoldInv, Join, Leave, Drop
<1>6. LeaseCovered'
  BY <1>1, <1>3 DEF LeaseInv, LeaseCovered, Host
<1>7. ChanInv'
  <2> SUFFICES ASSUME NEW n \in Station, hold'[n] # NoHold, NEW k \in 1 .. Len(chan'[n])
               PROVE  /\ chan'[n][k].type = "request" /\ chan'[n][k].sid # "other"
                      /\ chan'[n][k].req \in Pool => chan'[n][k].req = hold'[n].host
    BY DEF ChanInv
  <2>1. \E j \in 1 .. Len(chan[n]) : chan'[n][k] = chan[n][j]
    <3>1. CASE chan'[n] = chan[n]
      BY <3>1
    <3>2. CASE chan[n] # <<>> /\ chan'[n] = Tail(chan[n])
      <4>1. chan[n] \in Seq(Message) /\ k + 1 \in 1 .. Len(chan[n])
            /\ chan'[n][k] = chan[n][k + 1]
        BY <1>2, <3>2
      <4> QED
        BY <4>1
    <3> QED
      BY <1>2, <1>3, <3>1, <3>2 DEF Join, Leave, Drop
  <2> QED
    BY <1>3, <2>1 DEF LeaseInv, ChanInv
<1> QED
  BY <1>4, <1>5, <1>6, <1>7

\* The server handles a message, whether or not the reply arrives.  It keeps
\* the leases of the others; a station that has one and the server's own
\* message to it crossed is told nothing new.
LEMMA ServeSteps ==
    ASSUME LeaseInv, PoolDistinct, NEW m \in Station, Answer(m) \/ Mute(m)
    PROVE  ServerInv' /\ HoldInv' /\ ChanInv' /\ LeaseCovered'
<1> DEFINE msg == Head(chan[m])
           h == Handled(m, msg)
           i == ClientTableLookup(m, msg).client
<1>1. /\ TableOK(slot)
      /\ chan \in [Station -> Seq(Message)] /\ chan[m] # <<>> /\ msg \in Message
      /\ hold \in [Station -> HoldSet]
      /\ m \in authed
  BY DEF Answer, Mute, LeaseInv, TypeInv, SoftApTypeOK, HoldSet
<1>2. /\ slot' = h.table /\ Listens
      /\ UNCHANGED <<enable, socket, leaked, pooled, armed, ap, sysq, authed>>
      /\ chan' = [chan EXCEPT ![m] = Tail(@)]
  BY DEF Answer, Mute, RecvCb
<1>3. enable /\ pooled
  BY <1>2 DEF LeaseInv, ServerInv, Listens
<1>4. /\ \A j \in Slot : slot[j].st # "idle" /\ slot[j].mac # m => h.table[j] = slot[j]
      /\ h.reply \in {"none", "offer", "ack", "nak"} /\ h.host \in Pool \cup {0}
      /\ h.reply = "ack" => /\ i \in Slot /\ h.host = Host(i)
                            /\ h.table[i].st = "bind" /\ h.table[i].mac = m
                            /\ h.table[i].left = LeaseTime
                            /\ msg.type = "request" /\ msg.sid # "other"
      /\ i # 0 /\ msg.type = "request" => h.reply = "ack"
  BY <1>1, HandledTable
<1>5. h.reply = "ack" /\ msg.req \in Pool => h.host = msg.req
  BY <1>1, <1>3, AckedAddress
<1>6. \A n \in Station : n # m => hold'[n] = hold[n]
  BY <1>1 DEF Answer, Mute, Receive
<1>7. \/ hold'[m] = hold[m]
      \/ hold'[m] = NoHold
      \/ h.reply = "ack" /\ Awaited(m) /\ hold'[m] = [host |-> h.host, left |-> LeaseTime]
  BY <1>1 DEF Answer, Mute, Receive
<1>8. \A k \in 1 .. Len(chan'[m]) : k + 1 \in 2 .. Len(chan[m]) /\ chan'[m][k] = chan[m][k + 1]
  <2>1. chan[m] \in Seq(Message) /\ chan'[m] = Tail(chan[m])
    BY <1>1, <1>2
  <2> QED
    BY <1>1, <2>1
<1>9. \A n \in Station : n # m => chan'[n] = chan[n]
  BY <1>1, <1>2
<1>10. msg = chan[m][1] /\ 1 \in 1 .. Len(chan[m])
  BY <1>1
<1> HIDE DEF msg, h, i
<1>11. ServerInv'
  BY <1>2 DEF LeaseInv, ServerInv
<1>12. HoldInv'
  BY <1>1, <1>2, <1>3, <1>6 DEF LeaseInv, HoldInv
<1>13. ChanInv'
  <2> SUFFICES ASSUME NEW n \in Station, hold'[n] # NoHold, NEW k \in 1 .. Len(chan'[n])
               PROVE  /\ chan'[n][k].type = "request" /\ chan'[n][k].sid # "other"
                      /\ chan'[n][k].req \in Pool => chan'[n][k].req = hold'[n].host
    BY DEF ChanInv
  <2>1. CASE n # m
    BY <1>6, <1>9, <2>1 DEF LeaseInv, ChanInv
  <2>2. CASE n = m /\ hold'[m] = hold[m]
    <3>1. k + 1 \in 1 .. Len(chan[m]) /\ chan'[m][k] = chan[m][k + 1]
      BY <1>8, <2>2
    <3> QED
      BY <2>2, <3>1 DEF LeaseInv, ChanInv
  <2>3. CASE /\ n = m /\ h.reply = "ack" /\ Awaited(m)
             /\ hold'[m] = [host |-> h.host, left |-> LeaseTime]
    <3>1. chan'[m][k] = msg
      BY <1>8, <1>10, <2>3 DEF Awaited
    <3> QED
      BY <1>4, <1>5, <2>3, <3>1
  <2> QED
    BY <1>7, <2>1, <2>2, <2>3
<1>14. LeaseCovered'
  <2> SUFFICES ASSUME NEW n \in Station, hold'[n] # NoHold
               PROVE  \E j \in Slot : /\ slot'[j].st = "bind" /\ slot'[j].mac = n
                                      /\ Host(j) = hold'[n].host
                                      /\ slot'[j].left >= hold'[n].left
    BY <1>2 DEF LeaseCovered, Host
  <2>1. CASE n # m
    <3>1. PICK j \in Slot : /\ slot[j].st = "bind" /\ slot[j].mac = n
                            /\ Host(j) = hold[n].host /\ slot[j].left >= hold[n].left
      BY <1>6, <2>1 DEF LeaseInv, LeaseCovered
    <3>2. slot'[j] = slot[j]
      BY <1>2, <1>4, <2>1, <3>1
    <3> QED
      BY <1>6, <2>1, <3>1, <3>2
  <2>2. CASE n = m /\ hold'[m] = hold[m]
    <3>1. PICK j \in Slot : /\ slot[j].st = "bind" /\ slot[j].mac = m
                            /\ Host(j) = hold[m].host /\ slot[j].left >= hold[m].left
      BY <2>2 DEF LeaseInv, LeaseCovered
    <3>2. /\ msg.type = "request" /\ msg.sid # "other"
          /\ msg.req \in Pool => msg.req = Host(j)
      BY <1>10, <2>2, <3>1 DEF LeaseInv, ChanInv
    <3>3. i = j /\ i # 0
      BY <1>1, <1>3, <3>1, <3>2, LeaseRenewed, DhcpAssumption DEF i, Slot
    <3>4. slot'[j].st = "bind" /\ slot'[j].mac = m /\ slot'[j].left = LeaseTime
      BY <1>2, <1>4, <3>2, <3>3
    <3>5. LeaseTime >= hold[m].left
      BY <1>1, DhcpAssumption DEF HoldSet
    <3> QED
      BY <2>2, <3>1, <3>4, <3>5
  <2>3. CASE /\ n = m /\ h.reply = "ack" /\ Awaited(m)
             /\ hold'[m] = [host |-> h.host, left |-> LeaseTime]
    BY <1>2, <1>4, <2>3, DhcpAssumption
  <2> QED
    BY <1>7, <2>1, <2>2, <2>3
<1> QED
  BY <1>11, <1>12, <1>13, <1>14

\* One tick: the only pending timeout takes one from each lease, as the
\* stations do, and a station with a lease is on the list.
LEMMA TickSteps ==
    ASSUME LeaseInv, Reliable, Tick
    PROVE  ServerInv' /\ HoldInv' /\ ChanInv' /\ LeaseCovered'
<1>1. TickHandle(authed) /\ hold' = [m \in Station |-> Aged(hold[m])]
      /\ UNCHANGED <<ap, sysq, authed, chan, offer>>
  BY DEF Tick, Valid, Reliable
<1>2. enable /\ armed = 1
  BY <1>1 DEF TickHandle, LeaseInv, ServerInv
<1>3. /\ slot' = [i \in Slot |-> Ticked(slot[i], authed)]
      /\ UNCHANGED <<enable, socket, leaked, pooled, armed>>
  BY <1>1, <1>2 DEF TickHandle
<1>4. hold \in [Station -> HoldSet] /\ TableOK(slot)
  BY DEF LeaseInv, TypeInv, SoftApTypeOK, HoldSet
<1>5. ASSUME NEW m \in Station, hold'[m] # NoHold
      PROVE  /\ hold[m] # NoHold /\ hold[m].left > 1
             /\ hold'[m].host = hold[m].host /\ hold'[m].left = hold[m].left - 1
  <2>1. hold[m] \in HoldSet /\ hold'[m] = Aged(hold[m])
    BY <1>1, <1>4
  <2>2. hold[m].left > 1 /\ hold'[m] = [hold[m] EXCEPT !.left = @ - 1]
    BY <1>5, <2>1 DEF Aged, HoldSet
  <2> QED
    BY <2>1, <2>2 DEF HoldSet, NoHold
<1>6. ServerInv'
  BY <1>1, <1>3 DEF LeaseInv, ServerInv
<1>7. HoldInv'
  BY <1>1, <1>3, <1>5 DEF LeaseInv, HoldInv
<1>8. ChanInv'
  BY <1>1, <1>5 DEF LeaseInv, ChanInv
<1>9. LeaseCovered'
  <2> SUFFICES ASSUME NEW n \in Station, hold'[n] # NoHold
               PROVE  \E j \in Slot : /\ slot'[j].st = "bind" /\ slot'[j].mac = n
                                      /\ Host(j) = hold'[n].host
                                      /\ slot'[j].left >= hold'[n].left
    BY <1>3 DEF LeaseCovered, Host
  <2>1. /\ hold[n] # NoHold /\ hold[n].left > 1 /\ n \in authed
        /\ hold'[n].host = hold[n].host /\ hold'[n].left = hold[n].left - 1
    BY <1>5 DEF LeaseInv, HoldInv
  <2>2. PICK j \in Slot : /\ slot[j].st = "bind" /\ slot[j].mac = n
                          /\ Host(j) = hold[n].host /\ slot[j].left >= hold[n].left
    BY <2>1 DEF LeaseInv, LeaseCovered
  <2>3. slot[j] \in Entry /\ slot[j].left \in Nat /\ hold[n].left \in Nat
    BY <1>4 DEF TableOK, Entry, HoldSet
  <2>4. slot'[j] = Ticked(slot[j], authed) /\ slot[j].left > 1 /\ slot[j].left # 1
    BY <1>3, <2>1, <2>2, <2>3
  <2>5. slot'[j] = [slot[j] EXCEPT !.left = @ - 1]
    BY <2>1, <2>2, <2>4 DEF Ticked
  <2>6. slot'[j].st = "bind" /\ slot'[j].mac = n /\ slot'[j].left = slot[j].left - 1
    BY <2>2, <2>3, <2>5 DEF Entry
  <2> QED
    BY <2>1, <2>2, <2>3, <2>6
<1> QED
  BY <1>6, <1>7, <1>8, <1>9

\* The application deletes the entry of a station that is gone.
LEMMA DeleteSteps ==
    ASSUME LeaseInv, NEW m \in Station, Delete(m)
    PROVE  ServerInv' /\ HoldInv' /\ ChanInv' /\ LeaseCovered'
<1>1. /\ UNCHANGED <<enable, socket, leaked, pooled, armed, ap, sysq, authed, chan, offer, hold>>
      /\ m \notin authed
  BY DEF Delete, ClientDelete
<1>2. hold[m] = NoHold
  BY <1>1 DEF LeaseInv, HoldInv
<1>3. \A j \in Slot : slot[j].mac # m => slot'[j] = slot[j]
  BY ClientDeleteTable DEF Delete, LeaseInv, TypeInv
<1>4. ServerInv' /\ HoldInv' /\ ChanInv'
  BY <1>1 DEF LeaseInv, ServerInv, HoldInv, ChanInv
<1>5. LeaseCovered'
  <2> SUFFICES ASSUME NEW n \in Station, hold[n] # NoHold
               PROVE  \E j \in Slot : /\ slot'[j].st = "bind" /\ slot'[j].mac = n
                                      /\ Host(j) = hold[n].host
                                      /\ slot'[j].left >= hold[n].left
    BY <1>1 DEF LeaseCovered, Host
  <2>1. PICK j \in Slot : /\ slot[j].st = "bind" /\ slot[j].mac = n
                          /\ Host(j) = hold[n].host /\ slot[j].left >= hold[n].left
    BY DEF LeaseInv, LeaseCovered
  <2>2. slot'[j] = slot[j]
    BY <1>2, <1>3, <2>1
  <2> QED
    BY <2>1, <2>2
<1> QED
  BY <1>4, <1>5

LEMMA InitLeases == Init => LeaseInv
<1> SUFFICES ASSUME Init PROVE LeaseInv
  OBVIOUS
<1>1. \A m \in Station : hold[m] = NoHold
  BY DEF Init
<1>2. ServerInv
  <2>1. <<>> # <<"net2_up">> /\ <<>> # <<"net2_down">>
    OBVIOUS
  <2> QED
    BY <2>1 DEF Init, DhcpInit, ServerInv
<1>3. HoldInv /\ ChanInv /\ LeaseCovered
  BY <1>1 DEF Init, HoldInv, ChanInv, LeaseCovered
<1> QED
  BY <1>2, <1>3, InitTypes DEF LeaseInv

LEMMA NextLeases ==
    ASSUME PoolDistinct, Reliable
    PROVE  LeaseInv /\ [Next]_vars => LeaseInv'
<1> DEFINE Kept == ServerInv' /\ HoldInv' /\ ChanInv' /\ LeaseCovered'
<1> SUFFICES ASSUME LeaseInv, [Next]_vars PROVE Kept
  BY NextTypes DEF LeaseInv
<1>1. CASE ApUp \/ ApClosed \/ SysTask
  BY <1>1, SysSteps
<1>2. CASE Tick
  BY <1>2, TickSteps
<1>3. ASSUME NEW m \in Station, Sends(m) PROVE Kept
  BY <1>3, SendSteps
<1>4. ASSUME NEW m \in Station, Join(m) \/ Leave(m) \/ Drop(m) PROVE Kept
  BY <1>4, StationSteps
<1>5. ASSUME NEW m \in Station, Answer(m) \/ Mute(m) PROVE Kept
  BY <1>5, ServeSteps
<1>6. ASSUME NEW m \in Station, Delete(m) PROVE Kept
  BY <1>6, DeleteSteps
<1>7. CASE UNCHANGED vars
  <2>1. ServerInv' /\ HoldInv'
    BY <1>7 DEF vars, server, LeaseInv, ServerInv, HoldInv
  <2>2. ChanInv' /\ LeaseCovered'
    BY <1>7 DEF vars, server, LeaseInv, ChanInv, LeaseCovered, Host
  <2> QED
    BY <2>1, <2>2
<1> HIDE DEF Kept
<1> QED
  BY <1>1, <1>2, <1>3, <1>4, <1>5, <1>6, <1>7 DEF Next, Sends

\* A pool that does not reach the end of the subnet has an address for every
\* entry, and none of them is the server's own.
LEMMA PoolFits ==
    ASSUME ServerHost + NumClients < HostMask
    PROVE  PoolDistinct
<1>1. ASSUME NEW h \in 1 .. HostMask - 1
      PROVE  Wrapped(h) = h
  <2>1. h % HostMask = h
    BY DhcpAssumption
  <2> QED
    BY <2>1, DhcpAssumption DEF Wrapped
<1>2. Wrapped(ServerHost + 1) = ServerHost + 1
  BY <1>1, DhcpAssumption
<1>3. ASSUME NEW i \in Slot
      PROVE  PoolHost(i) = ServerHost + i
  <2>1. ServerHost + i \in 1 .. HostMask - 1 /\ ServerHost + 1 + i - 1 = ServerHost + i
    BY DhcpAssumption DEF Slot
  <2> QED
    BY <1>1, <1>2, <2>1 DEF PoolHost
<1>4. \A i \in Slot : ServerHost + i # ServerHost
  BY DhcpAssumption DEF Slot
<1>5. \A i, j \in Slot : ServerHost + i = ServerHost + j => i = j
  BY DhcpAssumption DEF Slot
<1> QED
  BY <1>3, <1>4, <1>5 DEF PoolDistinct, Pool

\* The server remembers a lease at least as long as the station that was told
\* of it, whatever order messages, losses, ticks and restarts come in, for any
\* number of stations and any pool without duplicates.
THEOREM LeasesCovered ==
    ASSUME PoolDistinct, Reliable
    PROVE  Spec => []LeaseCovered
<1>1. LeaseInv => LeaseCovered
  BY DEF LeaseInv
<1> QED
  BY <1>1, InitLeases, NextLeases, PTL DEF Spec

\* Two stations never use the same address, and none uses the server's own:
\* each address in use is that of a lease, a lease has one station, and no two
\* entries have the same address.
THEOREM AddressesUnique ==
    ASSUME PoolDistinct, Reliable
    PROVE  Spec => []OneHolder
<1>1. LeaseInv => OneHolder
  <2> SUFFICES ASSUME LeaseInv, NEW m \in Station, hold[m] # NoHold
               PROVE  /\ hold[m].host \notin {0, ServerHost}
                      /\ \A n \in Station \ {m} : hold[n].host # hold[m].host
    BY DEF OneHolder
  <2>1. pooled
    BY DEF LeaseInv, HoldInv, ServerInv
  <2>2. PICK i \in Slot : slot[i].st = "bind" /\ slot[i].mac = m /\ Host(i) = hold[m].host
    BY DEF LeaseInv, LeaseCovered
  <2>3. Host(i) = PoolHost(i) /\ PoolHost(i) \in Pool /\ PoolHost(i) # 0
    BY <2>1, PoolPositive DEF Host
  <2>4. hold[m].host \notin {0, ServerHost}
    BY <2>2, <2>3 DEF PoolDistinct
  <2>5. ASSUME NEW n \in Station \ {m}, hold[n].host = hold[m].host
        PROVE  FALSE
    <3>1. hold[n] # NoHold
      BY <2>4, <2>5 DEF NoHold
    <3>2. PICK j \in Slot : slot[j].st = "bind" /\ slot[j].mac = n /\ Host(j) = hold[n].host
      BY <3>1 DEF LeaseInv, LeaseCovered
    <3>3. i = j
      BY <2>1, <2>2, <2>5, <3>2 DEF Host, PoolDistinct
    <3> QED
      BY <2>2, <3>2, <3>3
  <2> QED
    BY <2>4, <2>5
<1> QED
  BY <1>1, InitLeases, NextLeases, PTL DEF Spec

\* tls_dhcps_getip and tls_dhcps_getmac find the lease of every station that
\* uses an address: a lease has no history of its station beside it.
THEOREM LookupsRight ==
    ASSUME PoolDistinct, Reliable
    PROVE  Spec => []LookupRight
<1>1. LeaseInv => LookupRight
  <2> SUFFICES ASSUME LeaseInv, NEW m \in Station, hold[m] # NoHold
               PROVE  GetIpByMac(m) = hold[m].host /\ GetMacByIp(hold[m].host) = m
    BY DEF LookupRight
  <2>1. pooled
    BY DEF LeaseInv, HoldInv, ServerInv
  <2>2. PICK i \in Slot : slot[i].st = "bind" /\ slot[i].mac = m /\ Host(i) = hold[m].host
    BY DEF LeaseInv, LeaseCovered
  <2> DEFINE A == {j \in Slot : slot[j].mac = m}
             B == {j \in Slot : Host(j) = hold[m].host}
  <2>3. A = {i}
    BY <2>2 DEF LeaseInv, TypeInv, TableOK, LeaseAlone
  <2>4. B = {i}
    BY <2>1, <2>2 DEF Host, PoolDistinct
  <2>5. First({i}) = i /\ i # 0
    BY FirstLast, DhcpAssumption DEF Slot
  <2>6. First(A) = i /\ First(B) = i
    BY <2>3, <2>4, <2>5
  <2> HIDE DEF A, B
  <2>7. GetIpByMac(m) = IF First(A) = 0 THEN 0 ELSE Host(First(A))
    BY DEF GetIpByMac, A
  <2>8. GetMacByIp(hold[m].host) = IF First(B) = 0 THEN NoMac ELSE slot[First(B)].mac
    BY DEF GetMacByIp, B
  <2> QED
    BY <2>2, <2>5, <2>6, <2>7, <2>8
<1> QED
  BY <1>1, InitLeases, NextLeases, PTL DEF Spec
=============================================================================
