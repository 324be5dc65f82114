---------------------------- MODULE UartTxProofs ----------------------------
(***************************************************************************)
(* The transmit side of the UART: types, the order of the bytes on the     *)
(* line, the freeing of buffers, and what keeps a transmission going,      *)
(* whatever tasks and the interrupt handler do in turns.                   *)
(***************************************************************************)
EXTENDS UartTx, FiniteSetTheorems, SequenceTheorems, TLAPS

Pending == [msg : Msg, off : Nat]
Accept == [msg : Msg, at : Nat]
Place == {"idle", "start", "free", "check", "post", "load", "store", "count", "fcoff"}
U8 == 0 .. 255

ControlTypes ==
    /\ callback \in Callback
    /\ ints \subseteq {"tx", "cts"} /\ src \subseteq {"tx", "cts"}
    /\ isr \in {"off", "tx", "txdone", "cts", "ctsdone", "exit"}
    /\ cts \in BOOLEAN /\ fc \in BOOLEAN /\ stopped \in BOOLEAN
    /\ pc \in [Task -> Place]
    /\ cnt \in U8 /\ reg \in [Task -> U8]
    /\ queued \in Nat

ListTypes ==
    /\ pending \in Seq(Pending)
    /\ sent \in Seq(Msg)
    /\ fifo \in Seq(Byte) /\ Len(fifo) <= FifoFull
    /\ wire \in Seq(Byte)
    /\ order \in Seq(Accept)
    /\ freed \in [Msg -> Nat]

\* Messages that left the pending list.
Done == Len(order) - Len(pending)

Left == wire \o fifo

\* Messages are accepted once, and the bytes before each add up.
OrderInv ==
    /\ \A i, j \in 1 .. Len(order) : order[i].msg = order[j].msg => i = j
    /\ \A i \in 1 .. Len(order) - 1 :
          order[i + 1].at = order[i].at + MsgLen[order[i].msg]

\* The pending messages are the last ones accepted; only the first is begun.
PendInv ==
    /\ Len(pending) <= Len(order)
    /\ \A i \in 1 .. Len(pending) :
          /\ pending[i].msg = order[Done + i].msg
          /\ pending[i].off <= MsgLen[pending[i].msg]
          /\ i > 1 => pending[i].off = 0

\* Messages to be freed, and those freed, are done; each is one or the other.
SentInv ==
    /\ \A i, j \in 1 .. Len(sent) : sent[i] = sent[j] => i = j
    /\ \A i \in 1 .. Len(sent) :
          freed[sent[i]] = 0 /\ \E j \in 1 .. Done : order[j].msg = sent[i]
    /\ \A m \in Msg :
          freed[m] <= 1 /\ (freed[m] = 1 => \E j \in 1 .. Done : order[j].msg = m)

\* Where the byte after the last one that left comes from.
StreamInv ==
    /\ \A n \in 1 .. Len(Left) :
          \E i \in 1 .. Len(order) : Left[n] = <<order[i].msg, n - order[i].at>>
    /\ Len(Left) = IF pending = <<>> THEN Accepted
                   ELSE order[Done + 1].at + pending[1].off

ListInv == ListTypes /\ OrderInv /\ PendInv /\ SentInv /\ StreamInv

-----------------------------------------------------------------------------
(* Sequences and bytes. *)

LEMMA MinThree ==
    ASSUME NEW a \in Int, NEW b \in Int, NEW c \in Int
    PROVE  /\ Min({a, b, c}) \in {a, b, c}
           /\ Min({a, b, c}) <= a /\ Min({a, b, c}) <= b /\ Min({a, b, c}) <= c
<1>1. \E x \in {a, b, c} : \A y \in {a, b, c} : x <= y
  <2>1. CASE a <= b /\ a <= c
    BY <2>1
  <2>2. CASE b <= a /\ b <= c
    BY <2>2
  <2>3. CASE c <= a /\ c <= b
    BY <2>3
  <2> QED
    BY <2>1, <2>2, <2>3
<1> QED
  BY <1>1 DEF Min

LEMMA ConcatThree ==
    ASSUME NEW S, NEW a \in Seq(S), NEW b \in Seq(S), NEW c \in Seq(S)
    PROVE  /\ Len(a \o (b \o c)) = Len(a \o b) + Len(c)
           /\ \A n \in 1 .. Len(a \o b) : (a \o (b \o c))[n] = (a \o b)[n]
           /\ \A n \in 1 .. Len(c) : (a \o (b \o c))[Len(a \o b) + n] = c[n]
  OBVIOUS

\* A byte that leaves the FIFO is the next one on the line.
LEMMA DrainSame ==
    ASSUME NEW S, NEW a \in Seq(S), NEW b \in Seq(S), b # <<>>
    PROVE  /\ Append(a, Head(b)) \o Tail(b) = a \o b
           /\ Append(a, Head(b)) \in Seq(S) /\ Tail(b) \in Seq(S)
           /\ Len(Tail(b)) = Len(b) - 1
  OBVIOUS

LEMMA BytesType ==
    ASSUME NEW m \in Msg, NEW from \in Nat, NEW to \in Nat, from <= to, to <= MsgLen[m]
    PROVE  /\ Bytes(m, from, to) \in Seq(Byte)
           /\ Len(Bytes(m, from, to)) = to - from
           /\ \A k \in 1 .. to - from : Bytes(m, from, to)[k] = <<m, from + k>>
<1>1. to - from \in Nat /\ MsgLen[m] \in Nat
  BY UartTxAssumption
<1>2. ASSUME NEW k \in 1 .. to - from PROVE <<m, from + k>> \in Byte
  <2>1. from + k \in 1 .. MsgLen[m]
    BY <1>1
  <2> QED
    BY <2>1 DEF Byte
<1> QED
  BY <1>1, <1>2 DEF Bytes

LEMMA RoomBounds ==
    ASSUME ListTypes, PendInv, pending # <<>>
    PROVE  /\ Head(pending) = pending[1] /\ pending[1] \in Pending
           /\ Room \in Nat
           /\ pending[1].off + Room <= MsgLen[pending[1].msg]
           /\ Len(fifo) + Room <= FifoFull
           /\ Finishes <=> pending[1].off + Room = MsgLen[pending[1].msg]
<1> DEFINE e == pending[1]
<1>1. Head(pending) = e /\ e \in Pending /\ Len(pending) \in Nat \ {0}
  BY DEF ListTypes
<1>2. e.off \in Nat /\ MsgLen[e.msg] \in Nat /\ e.off <= MsgLen[e.msg]
  BY <1>1, UartTxAssumption DEF Pending, PendInv
<1>3. Len(fifo) \in Nat /\ FifoFull \in Nat /\ Burst \in Nat /\ Len(fifo) <= FifoFull
  BY UartTxAssumption DEF ListTypes
<1>4. Room = Min({MsgLen[e.msg] - e.off, Burst, FifoFull - Len(fifo)})
  BY <1>1 DEF Room
<1> HIDE DEF e
<1>5. /\ MsgLen[e.msg] - e.off \in Nat /\ FifoFull - Len(fifo) \in Nat
  BY <1>2, <1>3
<1>6. Room \in Nat /\ Room <= MsgLen[e.msg] - e.off /\ Room <= FifoFull - Len(fifo)
  <2> DEFINE a == MsgLen[e.msg] - e.off
             c == FifoFull - Len(fifo)
  <2>1. a \in Nat /\ c \in Nat /\ Room = Min({a, Burst, c})
    BY <1>4, <1>5
  <2> HIDE DEF a, c
  <2>2. Room \in {a, Burst, c} /\ Room <= a /\ Room <= c
    <3>1. a \in Int /\ Burst \in Int /\ c \in Int
      BY <1>3, <2>1
    <3>2. /\ Min({a, Burst, c}) \in {a, Burst, c}
          /\ Min({a, Burst, c}) <= a /\ Min({a, Burst, c}) <= c
      BY <3>1, MinThree, Zenon
    <3> QED
      BY <2>1, <3>2, Zenon
  <2>3. Room \in Nat
    BY <1>3, <2>1, <2>2
  <2> QED
    BY <2>2, <2>3 DEF a, c
<1>7. Finishes <=> e.off + Room >= MsgLen[e.msg]
  BY <1>1 DEF Finishes
<1>8. /\ e.off + Room <= MsgLen[e.msg] /\ Len(fifo) + Room <= FifoFull
      /\ e.off + Room >= MsgLen[e.msg] <=> e.off + Room = MsgLen[e.msg]
  BY <1>2, <1>3, <1>6
<1> QED
  BY <1>1, <1>6, <1>7, <1>8 DEF e

-----------------------------------------------------------------------------
(* The lists. *)

LEMMA SameLists ==
    ASSUME ListInv, UNCHANGED <<pending, sent, fifo, wire, order, freed>>
    PROVE  ListInv'
<1>1. ListTypes /\ OrderInv /\ PendInv /\ SentInv /\ StreamInv
  BY DEF ListInv
<1>2. Done' = Done /\ Left' = Left /\ Accepted' = Accepted
  BY DEF Done, Left, Accepted
<1>3. ListTypes' /\ OrderInv'
  BY <1>1 DEF ListTypes, OrderInv
<1>4. PendInv' /\ SentInv'
  BY <1>1, <1>2 DEF PendInv, SentInv
<1>5. StreamInv'
  BY <1>1, <1>2 DEF StreamInv
<1> QED
  BY <1>3, <1>4, <1>5 DEF ListInv

\* tls_uart_tx_chars, whoever calls it.
LEMMA TxCharsInv ==
    ASSUME ListInv, TxChars, UNCHANGED <<wire, order, freed>>
    PROVE  ListInv'
<1>1. ListTypes /\ OrderInv /\ PendInv /\ SentInv /\ StreamInv
  BY DEF ListInv
<1>2. CASE pending = <<>>
  <2>1. UNCHANGED <<pending, sent, fifo, wire, order, freed>>
    BY <1>2 DEF TxChars, lists
  <2> QED
    BY <2>1, SameLists
<1>3. CASE pending # <<>>
  <2> DEFINE e == pending[1]
             b == Bytes(e.msg, e.off, e.off + Room)
  <2>1. /\ Head(pending) = e /\ e \in Pending /\ Room \in Nat
        /\ e.off + Room <= MsgLen[e.msg]
        /\ Len(fifo) + Room <= FifoFull
        /\ Finishes <=> e.off + Room = MsgLen[e.msg]
    BY <1>1, <1>3, RoomBounds
  <2>2. /\ fifo' = fifo \o b
        /\ IF Finishes
           THEN pending' = Tail(pending) /\ sent' = Append(sent, e.msg)
           ELSE pending' = [pending EXCEPT ![1].off = @ + Room] /\ sent' = sent
    BY <1>3, <2>1 DEF TxChars
  <2>3. e.msg \in Msg /\ e.off \in Nat /\ MsgLen[e.msg] \in Nat
        /\ e.off + Room \in Nat /\ (e.off + Room) - e.off = Room
    BY <2>1, UartTxAssumption DEF Pending
  <2>4. b \in Seq(Byte) /\ Len(b) = Room /\ \A k \in 1 .. Room : b[k] = <<e.msg, e.off + k>>
    <3> DEFINE to == e.off + Room
    <3>1. to \in Nat /\ e.off <= to /\ to <= MsgLen[e.msg] /\ to - e.off = Room
      BY <2>1, <2>3
    <3> HIDE DEF e, to
    <3>2. /\ Bytes(e.msg, e.off, to) \in Seq(Byte)
          /\ Len(Bytes(e.msg, e.off, to)) = to - e.off
          /\ \A k \in 1 .. to - e.off : Bytes(e.msg, e.off, to)[k] = <<e.msg, e.off + k>>
      BY <2>3, <3>1, BytesType
    <3> QED
      BY <3>1, <3>2 DEF to
  <2>5. /\ pending \in Seq(Pending) /\ Len(pending) \in Nat \ {0}
        /\ order \in Seq(Accept) /\ Len(order) \in Nat /\ Len(pending) <= Len(order)
        /\ sent \in Seq(Msg) /\ fifo \in Seq(Byte) /\ wire \in Seq(Byte) /\ freed \in [Msg -> Nat]
    BY <1>1, <1>3 DEF ListTypes, PendInv
  <2>6. Done \in Nat /\ Done + 1 \in 1 .. Len(order) /\ order[Done + 1].msg = e.msg
        /\ order[Done + 1] \in Accept /\ order[Done + 1].at \in Nat
        /\ Len(Left) = order[Done + 1].at + e.off
    <3>1. Done \in Nat /\ Done + 1 \in 1 .. Len(order)
      BY <2>5 DEF Done
    <3>2. order[Done + 1].msg = e.msg
      BY <1>1, <2>5 DEF PendInv
    <3>3. Len(Left) = order[Done + 1].at + e.off
      BY <1>1, <1>3 DEF StreamInv
    <3>4. order[Done + 1] \in Accept
      BY <2>5, <3>1
    <3> QED
      BY <3>1, <3>2, <3>3, <3>4 DEF Accept
  <2> HIDE DEF e, b
  <2>7. fifo' \in Seq(Byte) /\ Len(fifo') <= FifoFull
    BY <2>1, <2>2, <2>4, <2>5
  <2>atoms. PICK a \in Nat, o \in Nat, r \in Nat, l \in Nat :
               /\ a = order[Done + 1].at /\ o = e.off /\ r = Room /\ l = Len(Left)
               /\ l = a + o
    <3>1. Len(Left) \in Nat
      BY <2>5 DEF Left
    <3> QED
      BY <2>1, <2>3, <2>6, <3>1, Zenon
  <2>8. /\ Len(Left') = Len(Left) + Room
        /\ \A n \in 1 .. Len(Left) : Left'[n] = Left[n]
        /\ \A k \in 1 .. Room : Left'[Len(Left) + k] = <<e.msg, e.off + k>>
    <3>1. Left' = wire \o (fifo \o b) /\ Left = wire \o fifo
      BY <2>2 DEF Left
    <3>2. /\ Len(wire \o (fifo \o b)) = Len(wire \o fifo) + Len(b)
          /\ \A n \in 1 .. Len(wire \o fifo) : (wire \o (fifo \o b))[n] = (wire \o fifo)[n]
          /\ \A n \in 1 .. Len(b) : (wire \o (fifo \o b))[Len(wire \o fifo) + n] = b[n]
      <4>1. b \in Seq(Byte) /\ fifo \in Seq(Byte) /\ wire \in Seq(Byte)
        BY <2>4, <2>5
      <4> QED
        BY <4>1, ConcatThree
    <3> QED
      BY <2>4, <3>1, <3>2, Zenon
  <2>9. \A n \in 1 .. Len(Left') :
           \E i \in 1 .. Len(order') : Left'[n] = <<order'[i].msg, n - order'[i].at>>
    <3> SUFFICES ASSUME NEW n \in 1 .. Len(Left')
                 PROVE  \E i \in 1 .. Len(order) : Left'[n] = <<order[i].msg, n - order[i].at>>
      OBVIOUS
    <3>1. Len(Left) \in Nat
      BY <2>5 DEF Left
    <3>2. CASE n <= Len(Left)
      <4>1. n \in 1 .. Len(Left)
        BY <3>1, <3>2
      <4> QED
        BY <1>1, <2>8, <4>1 DEF StreamInv
    <3>3. CASE n > Len(Left)
      <4>1. n - Len(Left) \in 1 .. Room /\ n = Len(Left) + (n - Len(Left))
        BY <2>1, <2>8, <3>1, <3>3
      <4>2. Left'[n] = <<e.msg, e.off + (n - Len(Left))>>
        BY <2>8, <4>1
      <4>3. e.off + (n - Len(Left)) = n - order[Done + 1].at
        <5>1. n \in Int
          BY <2>1, <2>8, <3>1
        <5>2. l = a + o
          BY <2>atoms
        <5>3. o + (n - l) = n - a
          BY <5>1, <5>2
        <5> QED
          BY <2>atoms, <5>3, Zenon
      <4> QED
        BY <2>6, <4>2, <4>3
    <3> QED
      BY <3>1, <3>2, <3>3
  <2>10. CASE Finishes
    <3>1. /\ pending' = Tail(pending) /\ sent' = Append(sent, e.msg)
          /\ e.off + Room = MsgLen[e.msg]
      BY <2>1, <2>2, <2>10
    <3>2. /\ pending' \in Seq(Pending) /\ Len(pending') = Len(pending) - 1
          /\ \A i \in 1 .. Len(pending') : pending'[i] = pending[i + 1]
          /\ sent' \in Seq(Msg) /\ Len(sent') = Len(sent) + 1 /\ Len(sent) \in Nat
          /\ \A i \in 1 .. Len(sent) : sent'[i] = sent[i]
          /\ sent'[Len(sent) + 1] = e.msg
      BY <1>3, <2>3, <2>5, <3>1
    <3>3. Done' = Done + 1
      BY <2>5, <3>2 DEF Done
    <3>4. ListTypes' /\ OrderInv'
      BY <1>1, <2>5, <2>7, <3>2 DEF ListTypes, OrderInv
    <3>5. PendInv'
      <4>1. Len(pending') <= Len(order')
        BY <2>5, <3>2
      <4>2. ASSUME NEW i \in 1 .. Len(pending')
            PROVE  /\ pending'[i].msg = order'[Done' + i].msg
                   /\ pending'[i].off <= MsgLen[pending'[i].msg]
                   /\ pending'[i].off = 0
        <5>1. i + 1 \in 1 .. Len(pending) /\ i + 1 > 1 /\ Done' + i = Done + (i + 1)
          BY <2>5, <2>6, <3>2, <3>3
        <5> QED
          BY <1>1, <3>2, <5>1 DEF PendInv
      <4>3. \A i \in 1 .. Len(pending') :
               /\ pending'[i].msg = order'[Done' + i].msg
               /\ pending'[i].off <= MsgLen[pending'[i].msg]
               /\ i > 1 => pending'[i].off = 0
        BY <4>2, Zenon
      <4> QED
        BY <4>1, <4>3, Zenon DEF PendInv
    <3>6. SentInv'
      <4>1. \A j \in 1 .. Done : order[j].msg # e.msg
        BY <1>1, <2>5, <2>6 DEF OrderInv
      <4>2. \A j : j \in 1 .. Done => j \in 1 .. Done'
        BY <2>6, <3>3
      <4>3. Done + 1 \in 1 .. Done' /\ order'[Done + 1].msg = e.msg
        BY <2>6, <3>3
      <4>4. \A i, j \in 1 .. Len(sent') : sent'[i] = sent'[j] => i = j
        <5>1. \A i \in 1 .. Len(sent) : sent[i] # e.msg
          BY <1>1, <4>1 DEF SentInv
        <5>2. \A i \in 1 .. Len(sent') : i \in 1 .. Len(sent) \/ i = Len(sent) + 1
          BY <3>2
        <5> QED
          BY <1>1, <3>2, <5>1, <5>2 DEF SentInv
      <4>5. freed[e.msg] = 0
        <5>1. freed[e.msg] \in Nat /\ freed[e.msg] <= 1 /\ freed[e.msg] # 1
          BY <1>1, <2>3, <2>5, <4>1 DEF SentInv
        <5> QED
          BY <5>1
      <4>6. ASSUME NEW i \in 1 .. Len(sent')
            PROVE  freed'[sent'[i]] = 0 /\ \E j \in 1 .. Done' : order'[j].msg = sent'[i]
        <5>1. CASE i \in 1 .. Len(sent)
          <6>1. sent'[i] = sent[i] /\ freed[sent[i]] = 0
            BY <1>1, <3>2, <5>1 DEF SentInv
          <6>2. PICK j \in 1 .. Done : order[j].msg = sent[i]
            BY <1>1, <5>1 DEF SentInv
          <6> QED
            BY <4>2, <6>1, <6>2
        <5>2. CASE i = Len(sent) + 1
          <6>1. sent'[i] = e.msg /\ freed' = freed
            BY <3>2, <5>2
          <6> QED
            BY <4>3, <4>5, <6>1
        <5> QED
          BY <3>2, <5>1, <5>2
      <4>7. \A m \in Msg : freed'[m] <= 1
                /\ (freed'[m] = 1 => \E j \in 1 .. Done' : order'[j].msg = m)
        BY <1>1, <4>2 DEF SentInv
      <4> QED
        BY <4>4, <4>6, <4>7 DEF SentInv
    <3>7. StreamInv'
      <4>1. Len(Left') = order[Done + 1].at + MsgLen[e.msg]
        <5>1. l + r = a + (o + r)
          BY <2>atoms
        <5>2. Len(Left') = l + r
          BY <2>8, <2>atoms, Zenon
        <5>3. o + r = MsgLen[e.msg]
          BY <3>1, <2>atoms, Zenon
        <5>4. a = order[Done + 1].at
          BY <2>atoms
        <5> QED
          BY <5>1, <5>2, <5>3, <5>4, Zenon
      <4>2. CASE pending' = <<>>
        <5>1. Done + 1 = Len(order) /\ order # <<>>
          <6>1. Len(pending) = 1
            BY <2>5, <3>2, <4>2
          <6>2. Done + 1 = Len(order)
            BY <2>5, <6>1 DEF Done
          <6> QED
            BY <2>6, <6>2
        <5>2. Accepted' = order[Done + 1].at + MsgLen[e.msg]
          BY <2>6, <5>1 DEF Accepted
        <5> QED
          BY <2>9, <4>1, <4>2, <5>2 DEF StreamInv
      <4>3. CASE pending' # <<>>
        <5>1. 1 \in 1 .. Len(pending') /\ 2 \in 1 .. Len(pending)
          BY <2>5, <3>2, <4>3
        <5>2. pending'[1].off = 0
          BY <1>1, <3>2, <5>1 DEF PendInv
        <5>3. Done + 1 \in 1 .. Len(order) - 1 /\ Done' + 1 = (Done + 1) + 1
          <6>1. Done + 1 \in 1 .. Len(order) - 1
            BY <2>5, <5>1 DEF Done
          <6> QED
            BY <2>6, <3>3, <6>1
        <5>4. order'[Done' + 1].at = order[Done + 1].at + MsgLen[e.msg]
          BY <1>1, <2>6, <5>3 DEF OrderInv
        <5>5. PICK s \in Nat : s = Len(Left') /\ s + 0 = s
          <6>1. l + r \in Nat /\ (l + r) + 0 = l + r
            BY <2>atoms
          <6>2. Len(Left') = l + r
            BY <2>8, <2>atoms, Zenon
          <6> QED
            BY <6>1, <6>2, Zenon
        <5>6. Len(Left') = order'[Done' + 1].at + pending'[1].off
          BY <4>1, <5>2, <5>4, <5>5, Zenon
        <5> QED
          BY <2>9, <4>3, <5>6 DEF StreamInv
      <4> QED
        BY <4>2, <4>3
    <3> QED
      BY <3>4, <3>5, <3>6, <3>7 DEF ListInv
  <2>11. CASE ~Finishes
    <3>1. pending' = [pending EXCEPT ![1].off = @ + Room] /\ sent' = sent
      BY <2>2, <2>11
    <3>2. /\ pending' \in Seq(Pending) /\ Len(pending') = Len(pending)
          /\ pending'[1].msg = e.msg /\ pending'[1].off = e.off + Room
          /\ \A i \in 2 .. Len(pending') : pending'[i] = pending[i]
      <4>1. [e EXCEPT !.off = e.off + Room] \in Pending
        BY <2>1, <2>3 DEF Pending
      <4>2. pending' = [pending EXCEPT ![1] = [e EXCEPT !.off = e.off + Room]]
        BY <2>5, <3>1 DEF e
      <4>3. PICK p \in Pending : p = [e EXCEPT !.off = e.off + Room]
        BY <4>1
      <4>4. p.msg = e.msg /\ p.off = e.off + Room
        BY <2>1, <4>3 DEF Pending
      <4>5. /\ pending' \in Seq(Pending) /\ Len(pending') = Len(pending)
            /\ pending'[1] = p /\ \A i \in 2 .. Len(pending') : pending'[i] = pending[i]
        BY <2>5, <4>2, <4>3
      <4> QED
        BY <4>4, <4>5, Zenon
    <3>3. Done' = Done
      BY <3>2 DEF Done
    <3>4. ListTypes' /\ OrderInv'
      BY <1>1, <2>5, <2>7, <3>1, <3>2 DEF ListTypes, OrderInv
    <3>5. PendInv'
      <4>1. ASSUME NEW i \in 1 .. Len(pending')
            PROVE  /\ pending'[i].msg = order'[Done' + i].msg
                   /\ pending'[i].off <= MsgLen[pending'[i].msg]
                   /\ i > 1 => pending'[i].off = 0
        <5>1. CASE i = 1
          BY <2>1, <2>6, <3>2, <3>3, <5>1
        <5>2. CASE i \in 2 .. Len(pending')
          BY <1>1, <3>2, <3>3, <5>2 DEF PendInv
        <5> QED
          BY <2>5, <3>2, <5>1, <5>2
      <4> QED
        BY <2>5, <3>2, <4>1 DEF PendInv
    <3>6. SentInv'
      BY <1>1, <3>1, <3>3 DEF SentInv
    <3>7. StreamInv'
      <4>1. pending' # <<>>
        BY <2>5, <3>2
      <4>2. Len(Left') = order'[Done' + 1].at + pending'[1].off
        <5>1. order'[Done' + 1].at = order[Done + 1].at
          BY <3>3
        <5>2. order[Done + 1].at + (e.off + Room) = Len(Left) + Room
          <6>1. a + (o + r) = l + r
            BY <2>atoms
          <6> QED
            BY <2>atoms, <6>1, Zenon
        <5> QED
          BY <2>8, <3>2, <5>1, <5>2
      <4> QED
        BY <2>9, <4>1, <4>2 DEF StreamInv
    <3> QED
      BY <3>4, <3>5, <3>6, <3>7 DEF ListInv
  <2> QED
    BY <2>10, <2>11
<1> QED
  BY <1>2, <1>3

\* tls_uart_fill_buf.
LEMMA WriteInv ==
    ASSUME ListInv, NEW m \in Msg, Unused(m),
           pending' = Append(pending, [msg |-> m, off |-> 0]), Accepts(m),
           UNCHANGED <<sent, fifo, wire, freed>>
    PROVE  ListInv'
<1>1. ListTypes /\ OrderInv /\ PendInv /\ SentInv /\ StreamInv
  BY DEF ListInv
<1> DEFINE p == Len(pending)
           q == Len(order)
<1>2. /\ pending \in Seq(Pending) /\ order \in Seq(Accept) /\ p \in Nat /\ q \in Nat /\ p <= q
  BY <1>1 DEF ListTypes, PendInv
<1>3. MsgLen[m] \in Nat /\ Accepted \in Nat
  <2>1. CASE order = <<>>
    BY <2>1, UartTxAssumption DEF Accepted
  <2>2. CASE order # <<>>
    <3>1. order[q] \in Accept
      BY <1>2, <2>2
    <3>2. order[q].at \in Nat /\ MsgLen[order[q].msg] \in Nat
      BY <3>1, UartTxAssumption DEF Accept
    <3> QED
      BY <2>2, <3>2, UartTxAssumption DEF Accepted
  <2> QED
    BY <2>1, <2>2
<1>4. [msg |-> m, off |-> 0] \in Pending /\ [msg |-> m, at |-> Accepted] \in Accept
  BY <1>3 DEF Pending, Accept
<1>5. /\ pending' \in Seq(Pending) /\ Len(pending') = p + 1
      /\ \A i \in 1 .. p : pending'[i] = pending[i]
      /\ pending'[p + 1] = [msg |-> m, off |-> 0]
      /\ pending'[p + 1].msg = m /\ pending'[p + 1].off = 0
  <2> DEFINE e == [msg |-> m, off |-> 0]
  <2>1. e.msg = m /\ e.off = 0
    OBVIOUS
  <2> HIDE DEF e
  <2>2. /\ pending' \in Seq(Pending) /\ Len(pending') = p + 1
        /\ \A i \in 1 .. p : pending'[i] = pending[i]
        /\ pending'[p + 1] = e
    BY <1>2, <1>4 DEF e
  <2> QED
    BY <2>1, <2>2 DEF e
<1>6. /\ order' \in Seq(Accept) /\ Len(order') = q + 1
      /\ \A i \in 1 .. q : order'[i] = order[i]
      /\ order'[q + 1] = [msg |-> m, at |-> Accepted]
  BY <1>2, <1>4 DEF Accepts
<1>7. Done' = Done /\ Done \in Nat /\ Done + p = q /\ Done' + (p + 1) = q + 1
  BY <1>2, <1>5, <1>6 DEF Done
<1> HIDE DEF p, q
<1>8. ListTypes'
  BY <1>1, <1>5, <1>6 DEF ListTypes
<1>9. OrderInv'
  <2>1. ASSUME NEW i \in 1 .. q + 1, NEW j \in 1 .. q + 1, order'[i].msg = order'[j].msg
        PROVE  i = j
    <3>1. \A k \in 1 .. q : order[k].msg # m
      BY <1>2 DEF Unused, q
    <3>2. /\ i \in 1 .. q \/ i = q + 1
          /\ j \in 1 .. q \/ j = q + 1
      BY <1>2
    <3>3. order'[q + 1].msg = m
      BY <1>6
    <3> QED
      BY <1>1, <1>6, <2>1, <3>1, <3>2, <3>3 DEF OrderInv, q
  <2>2. ASSUME NEW i \in 1 .. q
        PROVE  order'[i + 1].at = order'[i].at + MsgLen[order'[i].msg]
    <3>1. CASE i \in 1 .. q - 1
      <4>1. i + 1 \in 1 .. q
        BY <1>2, <3>1
      <4> QED
        BY <1>1, <1>6, <3>1, <4>1 DEF OrderInv, q
    <3>2. CASE i = q
      <4>1. order # <<>>
        BY <1>2, <3>2 DEF q
      <4>2. order'[i + 1].at = Accepted /\ order'[i] = order[q]
        BY <1>6, <3>2
      <4> QED
        BY <4>1, <4>2 DEF Accepted, q
    <3> QED
      BY <1>2, <3>1, <3>2
  <2>3. Len(order') - 1 = q
    BY <1>2, <1>6
  <2> QED
    BY <1>6, <2>1, <2>2, <2>3 DEF OrderInv
<1>10. PendInv'
  <2>1. ASSUME NEW i \in 1 .. p + 1
        PROVE  /\ pending'[i].msg = order'[Done' + i].msg
               /\ pending'[i].off <= MsgLen[pending'[i].msg]
               /\ i > 1 => pending'[i].off = 0
    <3>1. CASE i \in 1 .. p
      <4>1. Done + i \in 1 .. q
        BY <1>2, <1>7, <3>1
      <4>2. /\ pending[i].msg = order[Done + i].msg
            /\ pending[i].off <= MsgLen[pending[i].msg]
            /\ i > 1 => pending[i].off = 0
        BY <1>1, <3>1 DEF PendInv, p
      <4> QED
        BY <1>5, <1>6, <1>7, <3>1, <4>1, <4>2
    <3>2. CASE i = p + 1
      <4>1. pending'[i] = [msg |-> m, off |-> 0] /\ Done' + i = q + 1
        BY <1>5, <1>7, <3>2
      <4>2. order'[Done' + i].msg = m
        BY <1>6, <4>1
      <4>3. pending'[i].msg = m /\ pending'[i].off = 0
        BY <1>5, <3>2
      <4>4. 0 <= MsgLen[m]
        BY <1>3
      <4> QED
        BY <4>2, <4>3, <4>4, Zenon
    <3>3. i \in 1 .. p \/ i = p + 1
      BY <1>2
    <3> QED
      BY <3>1, <3>2, <3>3
  <2> QED
    BY <1>2, <1>5, <1>6, <2>1 DEF PendInv
<1>11. SentInv'
  <2>1. \A j \in 1 .. Done : order'[j] = order[j]
    BY <1>2, <1>6, <1>7
  <2> QED
    BY <1>1, <1>7, <2>1 DEF SentInv
<1>12. StreamInv'
  <2>1. Left' = Left
    BY DEF Left
  <2>2. ASSUME NEW n \in 1 .. Len(Left)
        PROVE  \E i \in 1 .. q + 1 : Left[n] = <<order'[i].msg, n - order'[i].at>>
    <3>1. PICK i \in 1 .. q : Left[n] = <<order[i].msg, n - order[i].at>>
      BY <1>1 DEF StreamInv, q
    <3>2. i \in 1 .. q + 1
      BY <1>2
    <3> QED
      BY <1>6, <3>1, <3>2
  <2>3. Len(Left) = order'[Done' + 1].at + pending'[1].off
    <3>1. CASE pending = <<>>
      <4>1. p = 0
        BY <3>1 DEF p
      <4>2. Done + 1 = q + 1
        BY <1>7, <4>1
      <4>3. order'[Done' + 1].at = Accepted /\ pending'[1].off = 0
        BY <1>5, <1>6, <1>7, <4>1, <4>2
      <4> QED
        BY <1>1, <1>3, <3>1, <4>3 DEF StreamInv
    <3>2. CASE pending # <<>>
      <4>1. p >= 1
        BY <1>2, <3>2 DEF p
      <4>2. 1 \in 1 .. p /\ Done + 1 \in 1 .. q
        BY <1>2, <1>7, <4>1
      <4> QED
        BY <1>1, <1>5, <1>6, <1>7, <3>2, <4>2 DEF StreamInv
    <3> QED
      BY <3>1, <3>2
  <2>4. pending' # <<>>
    BY <1>2, <1>5
  <2> QED
    BY <1>6, <2>1, <2>2, <2>3, <2>4 DEF StreamInv
<1> QED
  BY <1>8, <1>9, <1>10, <1>11, <1>12 DEF ListInv

\* One round of tls_uart_free_tx_sent_data.
LEMMA FreeInv ==
    ASSUME ListInv, sent # <<>>, sent' = Tail(sent),
           freed' = [freed EXCEPT ![Head(sent)] = @ + 1],
           UNCHANGED <<pending, fifo, wire, order>>
    PROVE  ListInv'
<1>1. ListTypes /\ OrderInv /\ PendInv /\ SentInv /\ StreamInv
  BY DEF ListInv
<1>2. /\ sent \in Seq(Msg) /\ Len(sent) \in Nat \ {0} /\ freed \in [Msg -> Nat]
      /\ Head(sent) = sent[1] /\ sent[1] \in Msg
  BY <1>1 DEF ListTypes
<1>3. /\ sent' \in Seq(Msg) /\ Len(sent') = Len(sent) - 1
      /\ \A i \in 1 .. Len(sent') : sent'[i] = sent[i + 1]
  BY <1>2
<1>4. Done' = Done /\ Left' = Left /\ Accepted' = Accepted
  BY DEF Done, Left, Accepted
<1>5. freed[sent[1]] = 0 /\ \E j \in 1 .. Done : order[j].msg = sent[1]
  BY <1>1, <1>2 DEF SentInv
<1>6. /\ freed' \in [Msg -> Nat] /\ freed'[sent[1]] = 1
      /\ \A m \in Msg \ {sent[1]} : freed'[m] = freed[m]
  BY <1>2, <1>5
<1>7. ListTypes' /\ OrderInv' /\ PendInv' /\ StreamInv'
  BY <1>1, <1>3, <1>4, <1>6 DEF ListTypes, OrderInv, PendInv, StreamInv
<1>8. \A i \in 1 .. Len(sent') : i + 1 \in 1 .. Len(sent) /\ i + 1 # 1
  BY <1>2, <1>3
<1>9. ASSUME NEW i \in 1 .. Len(sent')
      PROVE  freed'[sent'[i]] = 0 /\ \E j \in 1 .. Done' : order'[j].msg = sent'[i]
  <2>1. 1 \in 1 .. Len(sent) /\ i + 1 \in 1 .. Len(sent)
    BY <1>2, <1>8
  <2>2. sent[i + 1] \in Msg \ {sent[1]}
    BY <1>1, <1>2, <1>8, <2>1 DEF SentInv
  <2> QED
    BY <1>1, <1>3, <1>4, <1>6, <2>1, <2>2 DEF SentInv
<1>10. \A i, j \in 1 .. Len(sent') : sent'[i] = sent'[j] => i = j
  <2> SUFFICES ASSUME NEW i \in 1 .. Len(sent'), NEW j \in 1 .. Len(sent'), sent'[i] = sent'[j]
               PROVE  i = j
    OBVIOUS
  <2>1. i + 1 = j + 1
    BY <1>1, <1>3, <1>8 DEF SentInv
  <2> QED
    BY <1>2, <1>3, <2>1
<1>11. ASSUME NEW m \in Msg
       PROVE  freed'[m] <= 1 /\ (freed'[m] = 1 => \E j \in 1 .. Done' : order'[j].msg = m)
  <2>1. CASE m = sent[1]
    BY <1>4, <1>5, <1>6, <2>1
  <2>2. CASE m # sent[1]
    BY <1>1, <1>4, <1>6, <2>2 DEF SentInv
  <2> QED
    BY <2>1, <2>2
<1>12. SentInv'
  BY <1>9, <1>10, <1>11 DEF SentInv
<1> QED
  BY <1>7, <1>12 DEF ListInv

\* tls_uart_free_tx_sent_data in the interrupt handler.
LEMMA FreeAllInv ==
    ASSUME ListInv, sent' = <<>>,
           freed' = [m \in Msg |->
                       freed[m] + Cardinality({i \in DOMAIN sent : sent[i] = m})],
           UNCHANGED <<pending, fifo, wire, order>>
    PROVE  ListInv'
<1>1. ListTypes /\ OrderInv /\ PendInv /\ SentInv /\ StreamInv
  BY DEF ListInv
<1>2. sent \in Seq(Msg) /\ DOMAIN sent = 1 .. Len(sent) /\ freed \in [Msg -> Nat]
  BY <1>1 DEF ListTypes
<1>3. Done' = Done /\ Left' = Left /\ Accepted' = Accepted
  BY DEF Done, Left, Accepted
<1>4. ASSUME NEW m \in Msg
      PROVE  /\ freed'[m] \in Nat /\ freed'[m] <= 1
             /\ freed'[m] = 1 => \E j \in 1 .. Done' : order'[j].msg = m
  <2> DEFINE at == {i \in DOMAIN sent : sent[i] = m}
  <2>1. freed'[m] = freed[m] + Cardinality(at)
    OBVIOUS
  <2>2. CASE at = {}
    <3>1. Cardinality(at) = 0
      BY <2>2, FS_EmptySet
    <3>2. freed'[m] = freed[m]
      BY <1>2, <2>1, <3>1
    <3> QED
      BY <1>1, <1>2, <1>3, <3>2 DEF SentInv
  <2>3. CASE at # {}
    <3>1. PICK i \in DOMAIN sent : sent[i] = m
      BY <2>3
    <3>2. at = {i}
      BY <1>1, <1>2, <3>1 DEF SentInv
    <3>3. Cardinality(at) = 1
      BY <3>2, FS_Singleton
    <3>4. freed[m] = 0 /\ \E j \in 1 .. Done : order[j].msg = m
      BY <1>1, <1>2, <3>1 DEF SentInv
    <3>5. freed'[m] = 1
      BY <2>1, <3>3, <3>4
    <3> QED
      BY <1>3, <3>4, <3>5
  <2> QED
    BY <2>2, <2>3
<1>5. freed' \in [Msg -> Nat]
  BY <1>4
<1>6. ListTypes' /\ OrderInv' /\ PendInv' /\ StreamInv'
  <2>1. sent' \in Seq(Msg)
    OBVIOUS
  <2>2. ListTypes'
    BY <1>1, <1>5, <2>1, Zenon DEF ListTypes
  <2>3. OrderInv'
    BY <1>1, Zenon DEF OrderInv
  <2>4. PendInv'
    BY <1>1, <1>3 DEF PendInv
  <2>5. StreamInv'
    BY <1>1, <1>3 DEF StreamInv
  <2> QED
    BY <2>2, <2>3, <2>4, <2>5
<1>7. SentInv'
  BY <1>4 DEF SentInv
<1> QED
  BY <1>6, <1>7 DEF ListInv

LEMMA DrainInv ==
    ASSUME ListInv, Drain
    PROVE  ListInv'
<1>1. ListTypes /\ OrderInv /\ PendInv /\ SentInv /\ StreamInv
  BY DEF ListInv
<1>2. /\ fifo # <<>> /\ wire' = Append(wire, Head(fifo)) /\ fifo' = Tail(fifo)
      /\ UNCHANGED <<pending, sent, order, freed>>
  BY DEF Drain
<1>3. wire \in Seq(Byte) /\ fifo \in Seq(Byte) /\ Len(fifo) \in Nat /\ Len(fifo) <= FifoFull
  BY <1>1 DEF ListTypes
<1>4. /\ wire' \o fifo' = wire \o fifo /\ wire' \in Seq(Byte) /\ fifo' \in Seq(Byte)
      /\ Len(fifo') = Len(fifo) - 1
  BY <1>2, <1>3, DrainSame
<1>5. Done' = Done /\ Left' = Left /\ Accepted' = Accepted
  BY <1>2, <1>4 DEF Done, Left, Accepted
<1>6. Len(fifo') <= FifoFull
  BY <1>3, <1>4, UartTxAssumption
<1>7. ListTypes' /\ OrderInv'
  BY <1>1, <1>2, <1>4, <1>6 DEF ListTypes, OrderInv
<1>8. PendInv' /\ SentInv' /\ StreamInv'
  BY <1>1, <1>2, <1>5 DEF PendInv, SentInv, StreamInv
<1> QED
  BY <1>7, <1>8 DEF ListInv

LEMMA CallbackInv ==
    ASSUME ListInv, CallbackFromIsr, UNCHANGED <<pending, fifo, wire, order>>
    PROVE  ListInv'
<1>1. CASE /\ freed' = [m \in Msg |->
                          freed[m] + Cardinality({i \in DOMAIN sent : sent[i] = m})]
           /\ sent' = <<>>
  BY <1>1, FreeAllInv
<1>2. CASE UNCHANGED <<sent, freed>>
  BY <1>2, SameLists
<1> QED
  BY <1>1, <1>2 DEF CallbackFromIsr

LEMMA InitUart == Init => ListInv /\ ControlTypes
<1> SUFFICES ASSUME Init PROVE ListInv /\ ControlTypes
  OBVIOUS
<1>1. ListTypes
  BY UartTxAssumption DEF Init, ListTypes
<1>2. Len(order) = 0 /\ Len(pending) = 0 /\ Len(sent) = 0 /\ Len(Left) = 0 /\ Accepted = 0
      /\ pending = <<>> /\ freed = [m \in Msg |-> 0]
  BY DEF Init, Left, Accepted
<1>3. OrderInv /\ PendInv /\ SentInv /\ StreamInv
  BY <1>2 DEF OrderInv, PendInv, SentInv, StreamInv, Done
<1>4. ControlTypes
  <2>1. 0 \in U8
    BY DEF U8
  <2> QED
    BY <2>1 DEF Init, ControlTypes, Place
<1> QED
  BY <1>1, <1>3, <1>4 DEF ListInv

LEMMA NextLists == ListInv /\ ControlTypes /\ [Next]_vars => ListInv'
<1> SUFFICES ASSUME ListInv, ControlTypes, [Next]_vars PROVE ListInv'
  OBVIOUS
<1>1. CASE Isr
  <2>1. CASE IsrEnter \/ IsrExit
    BY <2>1, SameLists DEF IsrEnter, IsrExit, InIsr, lists
  <2>2. CASE IsrTx
    <3>1. TxChars \/ UNCHANGED lists
      BY <2>2 DEF IsrTx
    <3>2. UNCHANGED <<wire, order, freed>>
      BY <2>2 DEF IsrTx, InIsr
    <3> QED
      BY <3>1, <3>2, TxCharsInv, SameLists DEF lists
  <2>3. CASE IsrTxDone
    <3>1. CallbackFromIsr /\ UNCHANGED <<pending, fifo, wire, order>>
      BY <2>3 DEF IsrTxDone, InIsr
    <3> QED
      BY <3>1, CallbackInv
  <2>4. CASE IsrCts
    <3>1. TxChars \/ UNCHANGED lists
      BY <2>4 DEF IsrCts
    <3>2. UNCHANGED <<wire, order, freed>>
      BY <2>4 DEF IsrCts, InIsr
    <3> QED
      BY <3>1, <3>2, TxCharsInv, SameLists DEF lists
  <2> QED
    BY <1>1, <2>1, <2>2, <2>3, <2>4 DEF Isr
<1>2. CASE Fetch \/ CountOff \/ SetFc \/ CtsToggle
  BY <1>2, SameLists DEF Fetch, CountOff, SetFc, CtsToggle, Quiet, lists
<1>3. CASE FcOff
  <2>1. TxChars \/ UNCHANGED lists
    BY <1>3 DEF FcOff
  <2>2. UNCHANGED <<wire, order, freed>>
    BY <1>3 DEF FcOff
  <2> QED
    BY <2>1, <2>2, TxCharsInv, SameLists DEF lists
<1>4. CASE Drain
  BY <1>4, DrainInv
<1>5. ASSUME NEW t \in Task, TaskStep(t) PROVE ListInv'
  <2>1. CASE Start(t)
    BY <2>1, TxCharsInv DEF Start
  <2>2. CASE Free(t)
    <3>1. UNCHANGED <<pending, fifo, wire, order>>
      BY <2>2 DEF Free
    <3>2. CASE sent = <<>>
      BY <2>2, <3>1, <3>2, SameLists DEF Free
    <3>3. CASE sent # <<>>
      BY <2>2, <3>1, <3>3, FreeInv DEF Free
    <3> QED
      BY <3>2, <3>3
  <2>3. CASE Check(t) \/ Post(t) \/ Load(t) \/ Store(t)
    BY <2>3, SameLists DEF Check, Post, Load, Store, Quiet, lists
  <2> QED
    BY <1>5, <2>1, <2>2, <2>3 DEF TaskStep
<1>6. ASSUME NEW m \in Msg, Write(Writer[m], m) PROVE ListInv'
  BY <1>6, WriteInv DEF Write
<1>7. CASE UNCHANGED vars
  BY <1>7, SameLists DEF vars
<1> QED
  BY <1>1, <1>2, <1>3, <1>4, <1>5, <1>6, <1>7 DEF Next, HostStep

LEMMA NextControl == ControlTypes /\ [Next]_vars => ControlTypes'
<1> SUFFICES ASSUME ControlTypes, [Next]_vars PROVE ControlTypes'
  OBVIOUS
<1>1. Host \in Task /\ FlowCtrl \in BOOLEAN
  BY UartTxAssumption
<1>2. \A t \in Task, to \in Place : Goto(t, to) => pc' \in [Task -> Place]
  BY DEF Goto, ControlTypes
<1>3. AfterCallback \in Place
  BY DEF AfterCallback, Place
<1>4. 0 \in U8 /\ cnt \in U8 /\ cnt \in Nat
      /\ (cnt = 0 => cnt + 1 \in U8) /\ \A x \in Int : x % 256 \in U8
  BY DEF U8, ControlTypes
<1>5. CASE IsrEnter \/ IsrTx \/ IsrExit
  BY <1>5 DEF IsrEnter, IsrTx, IsrExit, InIsr, ControlTypes
<1>6. CASE IsrTxDone
  <2>1. cnt' \in U8 /\ queued' \in Nat
    BY <1>4, <1>6 DEF IsrTxDone, CallbackFromIsr, ControlTypes
  <2> QED
    BY <1>6, <2>1 DEF IsrTxDone, InIsr, ControlTypes
<1>7. CASE IsrCts
  <2>1. stopped' \in BOOLEAN
    BY <1>7 DEF IsrCts, CtsChange, ControlTypes
  <2>2. isr' \in {"off", "tx", "txdone", "cts", "ctsdone", "exit"}
    BY <1>7 DEF IsrCts
  <2> QED
    BY <1>7, <2>1, <2>2 DEF IsrCts, InIsr, ControlTypes
<1>8. CASE Fetch
  <2>1. pc' \in [Task -> Place]
    BY <1>1, <1>2, <1>8 DEF Fetch, Place
  <2>2. queued' \in Nat
    BY <1>8 DEF Fetch, ControlTypes
  <2>3. reg' \in [Task -> U8]
    BY <1>4, <1>1, <1>8 DEF Fetch, ControlTypes
  <2> QED
    BY <1>8, <2>1, <2>2, <2>3 DEF Fetch, Quiet, line, ControlTypes
<1>9. CASE CountOff
  <2>1. pc' \in [Task -> Place]
    BY <1>1, <1>2, <1>9 DEF CountOff, Place
  <2>2. cnt' \in U8
    <3>1. reg[Host] - 1 \in Int
      BY <1>1 DEF ControlTypes, U8
    <3> QED
      BY <1>4, <1>9, <3>1 DEF CountOff
  <2>3. reg' \in [Task -> U8]
    BY <1>4, <1>9 DEF CountOff, ControlTypes
  <2> QED
    BY <1>9, <2>1, <2>2, <2>3 DEF CountOff, Quiet, line, ControlTypes
<1>10. CASE FcOff
  <2>1. pc' \in [Task -> Place]
    BY <1>1, <1>2, <1>3, <1>10 DEF FcOff, Place
  <2> QED
    BY <1>10, <2>1 DEF FcOff, static, ControlTypes
<1>11. CASE SetFc
  <2>1. pc' \in [Task -> Place]
    BY <1>1, <1>2, <1>11 DEF SetFc, Place
  <2>2. fc' \in BOOLEAN
    BY <1>11 DEF SetFc
  <2> QED
    BY <1>11, <2>1, <2>2 DEF SetFc, static, ControlTypes
<1>12. CASE Drain \/ CtsToggle
  BY <1>12 DEF Drain, CtsToggle, line, static, ControlTypes
<1>13. ASSUME NEW t \in Task, TaskStep(t) PROVE ControlTypes'
  <2>1. CASE Start(t) \/ Free(t)
    <3>1. pc' \in [Task -> Place]
      BY <1>2, <1>3, <2>1 DEF Start, Free, Place, ControlTypes
    <3> QED
      BY <2>1, <3>1 DEF Start, Free, line, static, ControlTypes
  <2>2. CASE Check(t) \/ Post(t)
    <3>1. pc' \in [Task -> Place]
      BY <1>2, <2>2 DEF Check, Post, Place
    <3>2. queued' \in Nat
      BY <2>2 DEF Check, Post, static, ControlTypes
    <3> QED
      BY <2>2, <3>1, <3>2 DEF Check, Post, Quiet, line, static, ControlTypes
  <2>3. CASE Load(t)
    <3>1. pc' \in [Task -> Place]
      BY <1>2, <2>3 DEF Load, Place
    <3>2. reg' \in [Task -> U8]
      BY <1>4, <2>3 DEF Load, ControlTypes
    <3> QED
      BY <2>3, <3>1, <3>2 DEF Load, Quiet, line, ControlTypes
  <2>4. CASE Store(t)
    <3>1. pc' \in [Task -> Place]
      BY <1>2, <2>4 DEF Store, Place
    <3>2. cnt' \in U8
      <4>1. reg[t] + 1 \in Int
        BY DEF ControlTypes, U8
      <4> QED
        BY <1>4, <2>4, <4>1 DEF Store
    <3>3. reg' \in [Task -> U8]
      BY <1>4, <2>4 DEF Store, ControlTypes
    <3> QED
      BY <2>4, <3>1, <3>2, <3>3 DEF Store, Quiet, line, ControlTypes
  <2> QED
    BY <1>13, <2>1, <2>2, <2>3, <2>4 DEF TaskStep
<1>14. ASSUME NEW m \in Msg, Write(Writer[m], m) PROVE ControlTypes'
  <2>1. pc' \in [Task -> Place]
    BY <1>2, <1>14, UartTxAssumption DEF Write, Place
  <2> QED
    BY <1>14, <2>1 DEF Write, line, static, ControlTypes
<1>15. CASE UNCHANGED vars
  BY <1>15 DEF vars, ControlTypes
<1> QED
  BY <1>5, <1>6, <1>7, <1>8, <1>9, <1>10, <1>11, <1>12, <1>13, <1>14, <1>15
     DEF Next, Isr, HostStep

LEMMA UartInvariant == Spec => [](ListInv /\ ControlTypes)
  BY InitUart, NextLists, NextControl, PTL DEF Spec

\* Types of the transmit side; in particular tls_uart_tx_chars never puts more
\* into the FIFO than it holds, whoever calls it.
THEOREM UartTypes == Spec => []UartTxTypeOK
<1>1. ListInv /\ ControlTypes => UartTxTypeOK
  BY DEF ListInv, ListTypes, ControlTypes, UartTxTypeOK, Pending, Accept, Place, U8
<1> QED
  BY <1>1, UartInvariant, PTL

\* The line carries the accepted messages whole and in order, for any number of
\* tasks and messages of any length, any FIFO, any interleaving of the tasks, the
\* interrupt handler and the hardware, with flow control switched at any time
\* and with either handler, also one that loses events.
THEOREM BytesInOrder == Spec => []InOrder
<1>1. ListInv => InOrder
  <2> SUFFICES ASSUME ListInv PROVE InOrder
    OBVIOUS
  <2>1. ListTypes /\ PendInv /\ StreamInv
    BY DEF ListInv
  <2>2. /\ DOMAIN Left = 1 .. Len(Left) /\ DOMAIN order = 1 .. Len(order)
        /\ DOMAIN pending = 1 .. Len(pending) /\ Len(pending) \in Nat
    BY <2>1 DEF ListTypes, Left
  <2>3. \A i \in 2 .. Len(pending) : pending[i].off = 0
    BY <2>1, <2>2 DEF PendInv
  <2> QED
    BY <2>1, <2>2, <2>3 DEF PendInv, StreamInv, InOrder, Left, Done
<1> QED
  BY <1>1, UartInvariant, PTL

\* No buffer is freed twice or while it is still to be read, whatever the
\* handler does to the list of sent messages while a task frees one.
THEOREM BuffersFreedOnce == Spec => []FreedOnce
<1>1. ListInv => FreedOnce
  <2> SUFFICES ASSUME ListInv PROVE FreedOnce
    OBVIOUS
  <2>1. ListTypes /\ OrderInv /\ PendInv /\ SentInv
    BY DEF ListInv
  <2>2. /\ DOMAIN pending = 1 .. Len(pending) /\ DOMAIN sent = 1 .. Len(sent)
        /\ Len(pending) \in Nat /\ Len(order) \in Nat /\ Len(pending) <= Len(order)
    BY <2>1 DEF ListTypes, PendInv
  <2>3. ASSUME NEW m \in Msg, freed[m] = 1, NEW i \in 1 .. Len(pending)
        PROVE  pending[i].msg # m
    <3>1. PICK j \in 1 .. Done : order[j].msg = m
      BY <2>1, <2>3 DEF SentInv
    <3>2. /\ Done + i \in 1 .. Len(order) /\ j \in 1 .. Len(order) /\ j # Done + i
      BY <2>2 DEF Done
    <3> QED
      BY <2>1, <3>1, <3>2 DEF OrderInv, PendInv
  <2> QED
    BY <2>1, <2>2, <2>3 DEF SentInv, FreedOnce
<1> QED
  BY <1>1, UartInvariant, PTL
-----------------------------------------------------------------------------
(* What keeps a transmission going. *)

\* uart_tx does not look at the length of its messages, so they need bytes; the
\* handler clears the events it has read before it acts on them, as all but
\* UART2_4_IRQHandler do.
Continues == ~ClearLate /\ \A m \in Msg : Writer[m] = Host => MsgLen[m] >= 1

\* A pending message has bytes that have not been moved.
BegunInv == \A i \in 1 .. Len(pending) : pending[i].off < MsgLen[pending[i].msg]

\* The transmitter is stopped only by flow control that is on or on its way off.
FlowInv ==
    /\ fc => FlowCtrl
    /\ stopped => FlowCtrl /\ (fc \/ pc[Host] = "fcoff")

KeepInv == ListInv /\ ControlTypes /\ BegunInv /\ FlowInv /\ NotStranded

\* The two halves of NotStranded.
Moving ==
    pending # <<>> =>
        \/ \E t \in Task : pc[t] = "start"
        \/ fifo # <<>>
        \/ "tx" \in ints
        \/ isr = "tx" /\ "tx" \in src

Restarting ==
    stopped =>
        \/ ~cts
        \/ "cts" \in ints
        \/ isr \in {"tx", "txdone", "cts"} /\ "cts" \in src
        \/ pc[Host] = "fcoff"

LEMMA StrandedParts == /\ NotStranded <=> Moving /\ Restarting
                       /\ NotStranded' <=> Moving' /\ Restarting'
  BY DEF NotStranded, Moving, Restarting

\* After tls_uart_tx_chars the list is empty or bytes are in the FIFO.
LEMMA TxCharsMoves ==
    ASSUME ListTypes, PendInv, BegunInv, TxChars
    PROVE  BegunInv' /\ (pending' # <<>> => fifo' # <<>>)
<1>1. CASE pending = <<>>
  BY <1>1 DEF TxChars, lists, BegunInv
<1>2. CASE pending # <<>>
  <2> DEFINE e == pending[1]
             b == Bytes(e.msg, e.off, e.off + Room)
  <2>1. /\ Head(pending) = e /\ e \in Pending /\ Room \in Nat
        /\ e.off + Room <= MsgLen[e.msg]
        /\ Finishes <=> e.off + Room = MsgLen[e.msg]
    BY <1>2, RoomBounds
  <2>2. /\ pending \in Seq(Pending) /\ Len(pending) \in Nat \ {0}
        /\ fifo \in Seq(Byte) /\ Len(fifo) \in Nat
    BY <1>2 DEF ListTypes
  <2>3. /\ e.msg \in Msg /\ e.off \in Nat /\ MsgLen[e.msg] \in Nat
        /\ e.off < MsgLen[e.msg]
    <3>1. e.msg \in Msg /\ e.off \in Nat /\ MsgLen[e.msg] \in Nat
      BY <2>1, UartTxAssumption DEF Pending
    <3>2. 1 \in 1 .. Len(pending)
      BY <2>2
    <3> QED
      BY <3>1, <3>2 DEF BegunInv
  <2>4. b \in Seq(Byte) /\ Len(b) = Room
    <3>1. e.off + Room \in Nat /\ e.off <= e.off + Room /\ (e.off + Room) - e.off = Room
      BY <2>1, <2>3
    <3> HIDE DEF e
    <3> QED
      BY <2>1, <2>3, <3>1, BytesType
  <2>5. fifo' = fifo \o b
    BY <1>2, <2>1 DEF TxChars
  <2>6. fifo' # <<>>
    <3>1. CASE fifo # <<>>
      <4>1. Len(fifo) > 0
        BY <2>2, <3>1
      <4> HIDE DEF b
      <4> QED
        BY <2>2, <2>4, <2>5, <4>1
    <3>2. CASE fifo = <<>>
      <4>1. FifoFull \in Nat \ {0} /\ Burst \in Nat \ {0} /\ Len(fifo) = 0
        BY <3>2, UartTxAssumption
      <4>2. Room \in {MsgLen[e.msg] - e.off, Burst, FifoFull - Len(fifo)}
        <5>1. Room = Min({MsgLen[e.msg] - e.off, Burst, FifoFull - Len(fifo)})
          BY <2>1 DEF Room
        <5>2. MsgLen[e.msg] - e.off \in Int /\ Burst \in Int /\ FifoFull - Len(fifo) \in Int
          BY <2>3, <4>1
        <5> HIDE DEF e
        <5> QED
          BY <5>1, <5>2, MinThree, Zenon
      <4>3. Room > 0
        BY <2>3, <4>1, <4>2
      <4> HIDE DEF b
      <4> QED
        BY <2>2, <2>4, <2>5, <4>3
    <3> QED
      BY <3>1, <3>2
  <2>7. BegunInv'
    <3>1. CASE Finishes
      <4>1. pending' = Tail(pending)
        BY <1>2, <3>1 DEF TxChars
      <4>2. /\ Len(pending') = Len(pending) - 1
            /\ \A i \in 1 .. Len(pending') :
                  pending'[i] = pending[i + 1] /\ i + 1 \in 1 .. Len(pending)
        BY <2>2, <4>1
      <4> QED
        BY <4>2 DEF BegunInv
    <3>2. CASE ~Finishes
      <4>1. pending' = [pending EXCEPT ![1].off = @ + Room]
        BY <1>2, <3>2 DEF TxChars
      <4>2. /\ Len(pending') = Len(pending)
            /\ pending'[1].off = e.off + Room /\ pending'[1].msg = e.msg
            /\ \A i \in 1 .. Len(pending) : i # 1 => pending'[i] = pending[i]
        BY <2>1, <2>2, <4>1 DEF Pending
      <4>3. e.off + Room < MsgLen[e.msg]
        BY <2>1, <2>3, <3>2
      <4> QED
        BY <4>2, <4>3 DEF BegunInv
    <3> QED
      BY <3>1, <3>2
  <2> QED
    BY <2>6, <2>7
<1> QED
  BY <1>1, <1>2

LEMMA WriteBegun ==
    ASSUME Continues, ListTypes, BegunInv, NEW m \in Msg, Write(Writer[m], m)
    PROVE  BegunInv'
<1>1. MsgLen[m] \in Nat /\ MsgLen[m] >= 1
  BY UartTxAssumption DEF Write, Continues
<1>2. pending' = Append(pending, [msg |-> m, off |-> 0])
  BY DEF Write
<1>3. /\ Len(pending') = Len(pending) + 1 /\ Len(pending) \in Nat
      /\ pending'[Len(pending) + 1] = [msg |-> m, off |-> 0]
      /\ \A i \in 1 .. Len(pending) : pending'[i] = pending[i]
  BY <1>2 DEF ListTypes, Pending
<1> QED
  BY <1>1, <1>3 DEF BegunInv

LEMMA NextBegun ==
    ASSUME Continues, ListInv, BegunInv, [Next]_vars
    PROVE  BegunInv'
<1>1. ListTypes /\ PendInv
  BY DEF ListInv
<1>2. CASE UNCHANGED pending
  BY <1>2 DEF BegunInv
<1>3. CASE TxChars
  BY <1>1, <1>3, TxCharsMoves
<1>4. CASE Isr
  BY <1>2, <1>3, <1>4 DEF Isr, IsrEnter, IsrTx, IsrTxDone, IsrCts, IsrExit, lists
<1>5. CASE HostStep \/ SetFc \/ Drain \/ CtsToggle
  BY <1>2, <1>3, <1>5 DEF HostStep, Fetch, CountOff, FcOff, SetFc, Drain, CtsToggle,
     Quiet, lists
<1>6. ASSUME NEW t \in Task, TaskStep(t) PROVE BegunInv'
  BY <1>2, <1>3, <1>6 DEF TaskStep, Start, Free, Check, Post, Load, Store, Quiet, lists
<1>7. ASSUME NEW m \in Msg, Write(Writer[m], m) PROVE BegunInv'
  BY <1>1, <1>7, WriteBegun
<1>8. CASE UNCHANGED vars
  BY <1>2, <1>8 DEF vars
<1> QED
  BY <1>4, <1>5, <1>6, <1>7, <1>8 DEF Next
\* A step that does not move bytes and leaves the list, the FIFO, the handler and
\* its events alone keeps a transmission moving, if no task leaves "start".
LEMMA QuietMoves ==
    ASSUME Moving, UNCHANGED <<pending, fifo, isr, src>>, ints \subseteq ints',
           \A t \in Task : pc[t] = "start" => pc'[t] = "start"
    PROVE  Moving'
  BY DEF Moving

LEMMA QuietRestarts ==
    ASSUME Restarting, UNCHANGED <<isr, src>>, ints \subseteq ints',
           stopped' => stopped, stopped' => (cts' => cts \/ "cts" \in ints'),
           stopped' => (pc[Host] = "fcoff" => pc'[Host] = "fcoff")
    PROVE  Restarting'
  BY DEF Restarting

\* The steps of the interrupt handler.
LEMMA IsrKeeps ==
    ASSUME Continues, ListInv, ControlTypes, BegunInv, FlowInv, Moving, Restarting, Isr
    PROVE  FlowInv' /\ Moving' /\ Restarting'
<1>1. ListTypes /\ PendInv
  BY DEF ListInv
<1>2. TxChars => (pending' # <<>> => fifo' # <<>>)
  BY <1>1, TxCharsMoves
<1>3. CASE IsrEnter
  <2>1. src' = ints /\ isr = "off" /\ isr' = "tx"
        /\ UNCHANGED <<pending, fifo, stopped, pc, cts, fc>>
    BY <1>3 DEF IsrEnter, InIsr, lists
  <2> QED
    BY <2>1 DEF FlowInv, Moving, Restarting
<1>4. CASE IsrTx
  <2>1. /\ isr = "tx" /\ isr' \in {"txdone", "cts"}
        /\ TxChars \/ ("tx" \notin src /\ UNCHANGED lists)
        /\ UNCHANGED <<ints, src, stopped, pc, cts, fc>>
    BY <1>4 DEF IsrTx, InIsr
  <2>2. Moving'
    BY <1>2, <2>1 DEF Moving, lists
  <2> QED
    BY <2>1, <2>2 DEF FlowInv, Restarting
<1>5. CASE IsrTxDone
  <2>1. /\ isr \in {"txdone", "ctsdone"} /\ (isr = "txdone" => isr' = "cts")
        /\ UNCHANGED <<pending, fifo, ints, src, stopped, pc, cts, fc>>
    BY <1>5 DEF IsrTxDone, InIsr
  <2> QED
    BY <2>1 DEF FlowInv, Moving, Restarting
<1>6. CASE IsrCts
  <2>1. /\ isr = "cts" /\ isr' \in {"ctsdone", "exit"}
        /\ TxChars \/ UNCHANGED lists
        /\ UNCHANGED <<ints, src, pc, cts, fc>>
    BY <1>6 DEF IsrCts, InIsr
  <2>2. Moving'
    BY <1>2, <2>1 DEF Moving, lists
  <2>3. CASE "cts" \in src /\ fc /\ FlowCtrl
    <3>1. stopped' = ~cts
      BY <1>6, <2>3 DEF IsrCts, CtsChange
    <3> QED
      BY <2>1, <2>2, <2>3, <3>1 DEF FlowInv, Restarting
  <2>4. CASE ~("cts" \in src /\ fc /\ FlowCtrl)
    <3>1. stopped' = stopped
      BY <1>6, <2>4 DEF IsrCts
    <3> QED
      BY <2>1, <2>2, <2>4, <3>1 DEF FlowInv, Restarting
  <2> QED
    BY <2>3, <2>4
<1>7. CASE IsrExit
  <2>1. isr = "exit" /\ isr' = "off" /\ UNCHANGED <<pending, fifo, ints, stopped, pc, cts, fc>>
    BY <1>7 DEF IsrExit, InIsr, lists, Continues
  <2> QED
    BY <2>1 DEF FlowInv, Moving, Restarting
<1> QED
  BY <1>3, <1>4, <1>5, <1>6, <1>7 DEF Isr

\* The steps of the host interface task that are not those of every task.
LEMMA HostKeeps ==
    ASSUME ListInv, ControlTypes, BegunInv, FlowInv, Moving, Restarting, HostStep \/ SetFc
    PROVE  FlowInv' /\ Moving' /\ Restarting'
<1>1. ListTypes /\ PendInv /\ Host \in Task /\ pc \in [Task -> Place]
  BY UartTxAssumption DEF ListInv, ControlTypes
<1>2. \A to : Goto(Host, to) => /\ pc'[Host] = to
                                /\ \A t \in Task : t # Host => pc'[t] = pc[t]
  BY <1>1 DEF Goto
<1>3. CASE Fetch \/ CountOff
  <2>1. /\ pc[Host] \in {"idle", "count"} /\ UNCHANGED <<pending, fifo, ints, src, isr, cts, fc, stopped>>
        /\ \E to : Goto(Host, to)
    BY <1>3 DEF Fetch, CountOff, Runs, Quiet, lists, line
  <2>2. \A t \in Task : pc[t] = "start" => pc'[t] = "start"
    BY <1>2, <2>1
  <2> QED
    BY <2>1, <2>2, QuietMoves, QuietRestarts DEF FlowInv
<1>4. CASE SetFc
  <2>1. /\ pc[Host] = "idle" /\ FlowCtrl /\ fc' = ~fc
        /\ pc'[Host] = IF fc THEN "fcoff" ELSE "idle"
        /\ UNCHANGED <<pending, fifo, ints, src, isr, cts, stopped>>
    BY <1>2, <1>4 DEF SetFc, Runs, lists
  <2>2. \A t \in Task : pc[t] = "start" => pc'[t] = "start"
    BY <1>2, <1>4, <2>1 DEF SetFc
  <2>3. Moving' /\ Restarting'
    BY <2>1, <2>2, QuietMoves, QuietRestarts
  <2>4. FlowInv'
    BY <2>1 DEF FlowInv
  <2> QED
    BY <2>3, <2>4
<1>5. CASE FcOff
  <2>1. /\ pc[Host] = "fcoff" /\ ~stopped'
        /\ TxChars \/ UNCHANGED lists
        /\ \E to : Goto(Host, to)
        /\ UNCHANGED <<ints, src, isr, cts, fc>>
    BY <1>5 DEF FcOff, Runs
  <2>2. \A t \in Task : pc[t] = "start" => pc'[t] = "start"
    BY <1>2, <2>1
  <2>3. Moving'
    <3>1. CASE TxChars
      <4>1. pending' # <<>> => fifo' # <<>>
        BY <1>1, <3>1, TxCharsMoves
      <4> QED
        BY <4>1 DEF Moving
    <3>2. CASE UNCHANGED lists
      BY <2>1, <2>2, <3>2, QuietMoves DEF lists
    <3> QED
      BY <2>1, <3>1, <3>2
  <2> QED
    BY <2>1, <2>3 DEF FlowInv, Restarting
<1> QED
  BY <1>3, <1>4, <1>5 DEF HostStep

\* The steps of any task.
LEMMA TaskKeeps ==
    ASSUME ListInv, ControlTypes, BegunInv, FlowInv, Moving, Restarting,
           NEW t \in Task, TaskStep(t)
    PROVE  FlowInv' /\ Moving' /\ Restarting'
<1>1. ListTypes /\ PendInv /\ Host \in Task /\ pc \in [Task -> Place]
  BY UartTxAssumption DEF ListInv, ControlTypes
<1>2. \A to : Goto(t, to) => \A u \in Task : u # t => pc'[u] = pc[u]
  BY <1>1 DEF Goto
<1>3. UNCHANGED <<ints, src, isr, cts, fc, stopped>>
  BY DEF TaskStep, Start, Free, Check, Post, Load, Store, Quiet, line
<1>4. /\ pc[t] \in {"start", "free", "check", "post", "load", "store"}
      /\ UNCHANGED pc \/ \E to : Goto(t, to)
  BY DEF TaskStep, Start, Free, Check, Post, Load, Store, Runs
<1>5. pc[Host] = "fcoff" => pc'[Host] = "fcoff"
  BY <1>1, <1>2, <1>4
<1>6. FlowInv' /\ Restarting'
  BY <1>3, <1>5, QuietRestarts DEF FlowInv
<1>7. Moving'
  <2>1. CASE Start(t)
    <3>1. pending' # <<>> => fifo' # <<>>
      BY <1>1, <2>1, TxCharsMoves DEF Start
    <3> QED
      BY <3>1 DEF Moving
  <2>2. CASE ~Start(t)
    <3>1. pc[t] # "start" /\ UNCHANGED <<pending, fifo>>
      BY <2>2 DEF TaskStep, Free, Check, Post, Load, Store, Runs, Quiet, lists
    <3>2. \A u \in Task : pc[u] = "start" => pc'[u] = "start"
      BY <1>2, <1>4, <3>1
    <3> QED
      BY <1>3, <3>1, <3>2, QuietMoves
  <2> QED
    BY <2>1, <2>2
<1> QED
  BY <1>6, <1>7

LEMMA NextKeeps == Continues => (KeepInv /\ [Next]_vars => KeepInv')
<1> SUFFICES ASSUME Continues, KeepInv, [Next]_vars PROVE KeepInv'
  OBVIOUS
<1>1. ListInv /\ ControlTypes /\ BegunInv /\ FlowInv /\ Moving /\ Restarting
  BY StrandedParts DEF KeepInv
<1>2. ListInv' /\ ControlTypes' /\ BegunInv'
  BY <1>1, NextLists, NextControl, NextBegun
<1>3. FlowInv' /\ Moving' /\ Restarting'
  <2>1. CASE Isr
    BY <1>1, <2>1, IsrKeeps
  <2>2. CASE HostStep \/ SetFc
    BY <1>1, <2>2, HostKeeps
  <2>3. CASE Drain
    <3>1. /\ ints \subseteq ints' /\ UNCHANGED <<pending, isr, src, cts, fc, stopped, pc>>
          /\ Len(fifo) - 1 = 0 => "tx" \in ints'
          /\ fifo # <<>> /\ fifo' = Tail(fifo)
      BY <2>3 DEF Drain, line
    <3>2. fifo' = <<>> => "tx" \in ints'
      <4>1. fifo \in Seq(Byte)
        BY <1>1 DEF ListInv, ListTypes
      <4>2. Len(Tail(fifo)) = Len(fifo) - 1
        BY <3>1, <4>1, DrainSame
      <4> QED
        BY <3>1, <4>2
    <3>3. Moving'
      BY <3>2 DEF Moving
    <3> QED
      BY <1>1, <3>1, <3>3, QuietRestarts DEF FlowInv
  <2>4. CASE CtsToggle
    <3>1. /\ ints' = ints \cup {"cts"}
          /\ UNCHANGED <<pending, fifo, isr, src, fc, stopped, pc>>
      BY <2>4 DEF CtsToggle, lists
    <3> QED
      BY <1>1, <3>1, QuietMoves, QuietRestarts DEF FlowInv
  <2>5. ASSUME NEW t \in Task, TaskStep(t) PROVE FlowInv' /\ Moving' /\ Restarting'
    BY <1>1, <2>5, TaskKeeps
  <2>6. ASSUME NEW m \in Msg, Write(Writer[m], m)
        PROVE  FlowInv' /\ Moving' /\ Restarting'
    <3>1. Writer[m] \in Task /\ pc \in [Task -> Place]
      BY <1>1, UartTxAssumption DEF ControlTypes
    <3>2. /\ pc[Writer[m]] = "idle" /\ pc' = [pc EXCEPT ![Writer[m]] = "start"]
          /\ UNCHANGED <<fifo, ints, src, isr, cts, fc, stopped>>
      BY <2>6 DEF Write, Runs, Goto, line
    <3>3. pc'[Writer[m]] = "start" /\ (pc[Host] = "fcoff" => pc'[Host] = "fcoff")
      BY <3>1, <3>2, UartTxAssumption
    <3>4. Moving'
      BY <3>1, <3>3 DEF Moving
    <3> QED
      BY <1>1, <3>2, <3>3, <3>4, QuietRestarts DEF FlowInv
  <2>7. CASE UNCHANGED vars
    BY <1>1, <2>7 DEF vars, FlowInv, Moving, Restarting
  <2> QED
    BY <2>1, <2>2, <2>3, <2>4, <2>5, <2>6, <2>7 DEF Next
<1> QED
  BY <1>2, <1>3, StrandedParts DEF KeepInv

\* No transmission stops for good, for any tasks, messages and FIFO, with flow
\* control switched and CTS changing at any time: the event that continues it is
\* latched, being handled or still to come.  It holds for messages with bytes and
\* a handler that clears events before it acts on them.
THEOREM TransmissionGoesOn == ASSUME Continues PROVE Spec => []NotStranded
<1>1. Init => KeepInv
  <2> SUFFICES ASSUME Init PROVE KeepInv
    OBVIOUS
  <2>1. ListInv /\ ControlTypes
    BY InitUart
  <2>2. pending = <<>> /\ Len(pending) = 0 /\ fc = FALSE /\ stopped = FALSE
    BY DEF Init
  <2>3. BegunInv /\ FlowInv /\ NotStranded
    BY <2>2 DEF BegunInv, FlowInv, NotStranded
  <2> QED
    BY <2>1, <2>3 DEF KeepInv
<1>2. KeepInv /\ [Next]_vars => KeepInv'
  BY NextKeeps
<1>3. KeepInv => NotStranded
  BY DEF KeepInv
<1> QED
  BY <1>1, <1>2, <1>3, PTL DEF Spec

-----------------------------------------------------------------------------
(* Who frees the messages that are done. *)

\* A call of tls_uart_tx_chars that puts a message on the list finishes one.
LEMMA TxCharsSends == TxChars /\ ~Finishes => sent' = sent
  BY DEF TxChars, lists

LEMMA NextFreed == ControlTypes /\ WillBeFreed /\ [Next]_vars => WillBeFreed'
<1> SUFFICES ASSUME ControlTypes, WillBeFreed, [Next]_vars, callback' = "direct"
             PROVE  sent' # <<>> => \/ \E t \in Task : pc'[t] = "free"
                                    \/ isr' \in {"txdone", "ctsdone"}
  BY DEF WillBeFreed
<1> DEFINE Goal == sent' # <<>> => \/ \E t \in Task : pc'[t] = "free"
                                   \/ isr' \in {"txdone", "ctsdone"}
<1>1. callback = "direct" /\ Host \in Task /\ pc \in [Task -> Place]
  <2>1. callback' = callback
    BY DEF Next, Isr, IsrEnter, IsrTx, IsrTxDone, IsrCts, IsrExit, InIsr, HostStep, Fetch,
       CountOff, FcOff, SetFc, Drain, CtsToggle, TaskStep, Start, Free, Check, Post, Load,
       Store, Write, Quiet, vars
  <2> QED
    BY <2>1, UartTxAssumption DEF ControlTypes
<1>2. sent # <<>> => \/ \E t \in Task : pc[t] = "free"
                     \/ isr \in {"txdone", "ctsdone"}
  BY <1>1 DEF WillBeFreed
<1>3. ASSUME NEW t \in Task, NEW to, Goto(t, to)
      PROVE  pc'[t] = to /\ \A u \in Task : u # t => pc'[u] = pc[u]
  BY <1>1, <1>3 DEF Goto
<1>4. ASSUME NEW t \in Task, pc[t] # "free", UNCHANGED <<sent, isr>>, NEW to, Goto(t, to)
      PROVE  Goal
  BY <1>2, <1>3, <1>4
<1>5. CASE Isr
  <2>1. CASE IsrEnter \/ IsrExit
    <3>1. isr \in {"off", "exit"} /\ UNCHANGED <<sent, pc>>
      BY <2>1 DEF IsrEnter, IsrExit, InIsr, lists
    <3> QED
      BY <1>2, <3>1
  <2>2. CASE IsrTx
    <3>1. /\ isr = "tx" /\ UNCHANGED pc
          /\ UNCHANGED sent \/ isr' = "txdone"
      BY <2>2, TxCharsSends DEF IsrTx, InIsr, lists
    <3> QED
      BY <1>2, <3>1
  <2>3. CASE IsrTxDone
    <3>1. sent' = <<>>
      BY <1>1, <2>3 DEF IsrTxDone, CallbackFromIsr
    <3> QED
      BY <3>1
  <2>4. CASE IsrCts
    <3>1. /\ isr = "cts" /\ UNCHANGED pc
          /\ UNCHANGED sent \/ isr' = "ctsdone"
      BY <2>4, TxCharsSends DEF IsrCts, InIsr, lists
    <3> QED
      BY <1>2, <3>1
  <2> QED
    BY <1>5, <2>1, <2>2, <2>3, <2>4 DEF Isr
<1>6. CASE Fetch \/ CountOff \/ SetFc
  <2>1. pc[Host] # "free" /\ UNCHANGED <<sent, isr>> /\ \E to : Goto(Host, to)
    BY <1>6 DEF Fetch, CountOff, SetFc, Runs, Quiet, lists
  <2> QED
    BY <1>1, <1>4, <2>1
<1>7. CASE FcOff
  <2>1. /\ pc[Host] = "fcoff" /\ UNCHANGED isr
        /\ \/ UNCHANGED sent /\ \E to : Goto(Host, to)
           \/ Goto(Host, AfterCallback)
    BY <1>7, TxCharsSends DEF FcOff, Runs, lists
  <2> QED
    BY <1>1, <1>3, <1>4, <2>1 DEF AfterCallback
<1>8. CASE Drain \/ CtsToggle \/ UNCHANGED vars
  BY <1>2, <1>8 DEF Drain, CtsToggle, vars, lists
<1>9. ASSUME NEW t \in Task, TaskStep(t) PROVE Goal
  <2>1. CASE Start(t)
    <3>1. /\ pc[t] = "start" /\ UNCHANGED isr
          /\ \/ UNCHANGED sent /\ \E to : Goto(t, to)
             \/ Goto(t, AfterCallback)
      BY <2>1, TxCharsSends DEF Start, Runs
    <3> QED
      BY <1>1, <1>3, <1>4, <3>1 DEF AfterCallback
  <2>2. CASE Free(t)
    BY <2>2 DEF Free, Runs
  <2>3. CASE Check(t) \/ Post(t) \/ Load(t) \/ Store(t)
    <3>1. pc[t] # "free" /\ UNCHANGED <<sent, isr>> /\ \E to : Goto(t, to)
      BY <2>3 DEF Check, Post, Load, Store, Runs, Quiet, lists
    <3> QED
      BY <1>4, <3>1
  <2> QED
    BY <1>9, <2>1, <2>2, <2>3 DEF TaskStep
<1>10. ASSUME NEW m \in Msg, Write(Writer[m], m) PROVE Goal
  <2>1. Writer[m] \in Task /\ pc[Writer[m]] # "free" /\ UNCHANGED <<sent, isr>>
        /\ Goto(Writer[m], "start")
    BY <1>10, UartTxAssumption DEF Write, Runs
  <2> QED
    BY <1>4, <2>1
<1> QED
  BY <1>5, <1>6, <1>7, <1>8, <1>9, <1>10 DEF Next, HostStep

\* With the default callback no message is left on the list of sent messages:
\* whoever put it there, or another task or the handler, is about to free it, for
\* any interleaving, also while a task frees the list.
THEOREM SentAreFreed == Spec => []WillBeFreed
<1>1. Init => WillBeFreed
  BY DEF Init, WillBeFreed
<1> QED
  BY <1>1, NextFreed, UartInvariant, PTL DEF Spec
=============================================================================
