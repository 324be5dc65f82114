-------------------------- MODULE FastSessionProofs --------------------------
(***************************************************************************)
(* A session of fast writes, cut into pieces in any way and after any      *)
(* number of abandoned ones, loses nothing and touches nothing below it.   *)
(***************************************************************************)
EXTENDS FastSession, FastLemmas

SessionTypes ==
    /\ FastTypeOK
    /\ stage \in {"none", "open", "closed"}
    /\ base \in Nat /\ sent \in Seq(Byte)

\* While a session is open there is a cache, and once something was written it
\* is that of the sector the next byte goes to.
OpenInv ==
    stage = "open" =>
        /\ base \in Base
        /\ cache # NoCache
        /\ sent # <<>> => gsSector = Sector(base + Len(sent))

\* What a flush would write lies in or above the sectors of the sessions.
SectorInv == gsSector = 0 \/ \E b \in Base : Sector(b) <= gsSector

\* All that was sent is in cache or flash.
SentInv ==
    stage = "open" =>
        \A i \in 1 .. Len(sent) : base + i - 1 \in Addr => View(base + i - 1) = sent[i]

SessionInv == SessionTypes /\ OpenInv /\ SectorInv /\ SentInv /\ AllWritten /\ BelowUntouched

LEMMA SeqOfPieces ==
    ASSUME NEW data \in SeqOf(Byte, MaxPiece) \ {<<>>}
    PROVE  data \in Seq(Byte) /\ Len(data) \in Nat \ {0}
<1>1. PICK n \in 0 .. MaxPiece : data \in [1 .. n -> Byte]
  BY DEF SeqOf
<1>2. data \in Seq(Byte)
  BY <1>1, SessionAssumption
<1> QED
  BY <1>2

\* One piece.
LEMMA PutSteps ==
    ASSUME SessionInv, NEW data \in Seq(Byte), Len(data) > 0, Put(data)
    PROVE  SessionInv'
<1> DEFINE p == base + Len(sent)
<1>1. /\ FastTypeOK /\ base \in Nat /\ sent \in Seq(Byte) /\ stage = "open"
      /\ base \in Base /\ cache # NoCache
      /\ p \in Addr /\ FastWriteTo(p, data) /\ sent' = sent \o data
      /\ stage' = stage /\ base' = base
  BY DEF SessionInv, SessionTypes, OpenInv, Put
<1>2. p \in Nat /\ Len(data) \in Nat /\ Len(sent) \in Nat
  BY <1>1
<1>3. FastTypeOK' /\ gsSector' = Sector(p + Len(data)) /\ cache' # NoCache
  BY <1>1, <1>2, WriteTypes
<1>4. /\ sent' \in Seq(Byte) /\ Len(sent') = Len(sent) + Len(data)
      /\ \A i \in 1 .. Len(sent') :
            sent'[i] = IF i <= Len(sent) THEN sent[i] ELSE data[i - Len(sent)]
  BY <1>1, <1>2
<1>5. SessionTypes'
  BY <1>1, <1>3, <1>4 DEF SessionTypes
<1>6. OpenInv'
  <2>1. base + Len(sent') = p + Len(data)
    BY <1>1, <1>2, <1>4
  <2> QED
    BY <1>1, <1>3, <2>1 DEF OpenInv
<1>7. Sector(base) <= Sector(p) /\ Sector(p) <= Sector(p + Len(data))
  BY <1>1, <1>2, SectorMono
<1>8. SectorInv'
  <2>1. Sector(base) \in Nat /\ Sector(p) \in Nat /\ Sector(p + Len(data)) \in Nat
    <3>1. p + Len(data) \in Nat
      BY <1>2
    <3> HIDE DEF p
    <3> QED
      BY <1>1, <1>2, <3>1, SectorNat
  <2>2. Sector(base) <= gsSector'
    BY <1>3, <1>7, <2>1
  <2> QED
    BY <1>1, <2>2 DEF SectorInv
<1>9. SentInv'
  <2> SUFFICES ASSUME NEW i \in 1 .. Len(sent'), base + i - 1 \in Addr
               PROVE  View(base + i - 1)' = sent'[i]
    BY <1>1 DEF SentInv
  <2> DEFINE a == base + i - 1
  <2>1. a \in Nat /\ a < p + Len(data) /\ (i <= Len(sent) <=> a < p) /\ a - p + 1 = i - Len(sent)
    BY <1>1, <1>2, <1>4
  <2>2. View(a)' = IF a >= p THEN data[a - p + 1]
                   ELSE IF Sector(a) = Sector(p) THEN cache[a % SecSize]
                   ELSE IF gsSector \notin {0, Sector(p)} THEN FlushedArea[a] ELSE area[a]
    BY <1>1, <1>2, <2>1, WriteView
  <2>3. View(a) = IF Sector(a) = gsSector THEN cache[a % SecSize] ELSE area[a]
    BY DEF View
  <2>4. i <= Len(sent) => gsSector = Sector(p) /\ View(a) = sent[i]
    <3> SUFFICES ASSUME i <= Len(sent) PROVE gsSector = Sector(p) /\ View(a) = sent[i]
      OBVIOUS
    <3>1. sent # <<>> /\ i \in 1 .. Len(sent)
      BY <1>1, <1>2
    <3> QED
      BY <1>1, <3>1 DEF SessionInv, OpenInv, SentInv
  <2>5. sent'[i] = IF i <= Len(sent) THEN sent[i] ELSE data[i - Len(sent)]
    BY <1>4
  <2>6. View(base + i - 1)' = View(a)'
    BY <1>1 DEF View
  <2>7. CASE i <= Len(sent)
    BY <1>2, <2>1, <2>2, <2>3, <2>4, <2>5, <2>7 DEF View
  <2>8. CASE ~(i <= Len(sent))
    <3>1. a >= p
      BY <1>2, <2>1, <2>8
    <3>2. View(a)' = data[a - p + 1]
      BY <2>2, <3>1
    <3> QED
      BY <2>1, <2>5, <2>6, <2>8, <3>2
  <2> QED
    BY <2>7, <2>8
<1>10. AllWritten'
  BY <1>1 DEF AllWritten
<1>11. BelowUntouched'
  <2> SUFFICES ASSUME NEW a \in Addr, \A b \in Base : Sector(a) < Sector(b)
               PROVE  area'[a] = Old
    BY DEF BelowUntouched
  <2>1. area[a] = Old
    BY DEF SessionInv, BelowUntouched
  <2>2. Sector(a) < Sector(p)
    <3>1. Sector(base) \in Nat /\ Sector(p) \in Nat /\ Sector(a) \in Nat /\ Sector(a) < Sector(base)
      BY <1>1, <1>2, SectorNat, AddrSector
    <3> QED
      BY <1>7, <3>1
  <2>3. gsSector = 0 \/ Sector(a) # gsSector
    <3> SUFFICES ASSUME NEW b \in Base, Sector(b) <= gsSector, Sector(a) = gsSector PROVE FALSE
      BY DEF SessionInv, SectorInv
    <3>1. Sector(b) \in Nat /\ Sector(a) \in Nat /\ Sector(a) < Sector(b)
      BY SessionAssumption, SectorNat, AddrSector
    <3> QED
      BY <3>1
  <2> QED
    BY <1>1, <1>2, <2>1, <2>2, <2>3, WriteBelow
<1> QED
  BY <1>5, <1>6, <1>8, <1>9, <1>10, <1>11 DEF SessionInv

\* The other operations.
LEMMA OpenSteps ==
    ASSUME SessionInv, NEW b \in Base, Open(b)
    PROVE  SessionInv'
<1>1. /\ area' = area /\ gsSector' = gsSector
      /\ cache' = IF cache = NoCache THEN [j \in 0 .. SecSize - 1 |-> Junk] ELSE cache
      /\ stage' = "open" /\ base' = b /\ sent' = <<>>
  BY DEF Open, FastInit
<1>2. [j \in 0 .. SecSize - 1 |-> Junk] \in [0 .. SecSize - 1 -> Cell]
  BY DEF Cell
<1>3. NoCache \notin [0 .. SecSize - 1 -> Cell]
  BY FastAssumption DEF Cell
<1>4. FastTypeOK' /\ cache' # NoCache
  BY <1>1, <1>2, <1>3 DEF SessionInv, SessionTypes, FastTypeOK
<1>5. SessionTypes'
  BY <1>1, <1>4, SessionAssumption DEF SessionTypes
<1>6. OpenInv' /\ SectorInv' /\ SentInv'
  BY <1>1, <1>4 DEF SessionInv, OpenInv, SectorInv, SentInv
<1>7. AllWritten' /\ BelowUntouched'
  BY <1>1 DEF SessionInv, AllWritten, BelowUntouched
<1> QED
  BY <1>5, <1>6, <1>7 DEF SessionInv

LEMMA CloseSteps ==
    ASSUME SessionInv, Close
    PROVE  SessionInv'
<1>1. /\ stage = "open" /\ stage' = "closed" /\ base' = base /\ sent' = sent
      /\ sent # <<>> /\ cache # NoCache /\ gsSector' = gsSector
      /\ area' = FlushedArea /\ cache' = NoCache
      /\ FastTypeOK
  BY DEF Close, FastDestroy, SessionInv, SessionTypes, OpenInv
<1>2. \A a \in Addr : /\ FlushedArea \in [Addr -> Cell] /\ FlushedArea[a] = View(a)
                      /\ Sector(a) # gsSector => FlushedArea[a] = area[a]
  BY <1>1, FlushCells
<1>3. area' \in [Addr -> Cell]
  <2>1. (LastSector + 1) * SecSize \in Nat \ {0}
    BY FastAssumption
  <2>2. 0 \in Addr
    BY <2>1 DEF Addr
  <2> QED
    BY <1>1, <1>2, <2>2
<1>4. SessionTypes'
  BY <1>1, <1>3 DEF SessionInv, SessionTypes, FastTypeOK
<1>5. OpenInv' /\ SectorInv' /\ SentInv'
  BY <1>1 DEF SessionInv, OpenInv, SectorInv, SentInv
<1>6. AllWritten'
  BY <1>1, <1>2 DEF SessionInv, AllWritten, SentInv
<1>7. BelowUntouched'
  <2> SUFFICES ASSUME NEW a \in Addr, \A b \in Base : Sector(a) < Sector(b)
               PROVE  area'[a] = Old
    BY DEF BelowUntouched
  <2>1. base \in Nat /\ base \in Base /\ sent \in Seq(Byte) /\ gsSector = Sector(base + Len(sent))
    BY <1>1 DEF SessionInv, SessionTypes, OpenInv
  <2>2. Sector(base) <= Sector(base + Len(sent))
    BY <2>1, SectorMono
  <2>3. Sector(a) # gsSector
    <3>1. Sector(base) \in Nat /\ Sector(a) \in Nat /\ gsSector \in Nat /\ Sector(a) < Sector(base)
      BY <2>1, SectorNat, AddrSector
    <3> QED
      BY <2>1, <2>2, <3>1
  <2> QED
    BY <1>1, <1>2, <2>3 DEF SessionInv, BelowUntouched
<1> QED
  BY <1>4, <1>5, <1>6, <1>7 DEF SessionInv

LEMMA EndSteps ==
    ASSUME SessionInv, Abandon \/ Restart
    PROVE  SessionInv'
<1>1. /\ stage' = "none" /\ area' = area /\ base' = base /\ sent' = sent
      /\ cache' = cache \/ cache' = NoCache
      /\ gsSector' = gsSector \/ gsSector' = 0
  BY DEF Abandon, Restart, FastRestart
<1>2. SessionTypes'
  BY <1>1 DEF SessionInv, SessionTypes, FastTypeOK
<1>3. OpenInv' /\ SectorInv' /\ SentInv' /\ AllWritten' /\ BelowUntouched'
  BY <1>1 DEF SessionInv, OpenInv, SectorInv, SentInv, AllWritten, BelowUntouched
<1> QED
  BY <1>2, <1>3 DEF SessionInv

LEMMA InitSession == Init => SessionInv
<1> SUFFICES ASSUME Init PROVE SessionInv
  OBVIOUS
<1>1. SessionTypes
  BY DEF Init, FastInitState, SessionTypes, FastTypeOK, Cell
<1>2. OpenInv /\ SectorInv /\ SentInv /\ AllWritten /\ BelowUntouched
  BY DEF Init, FastInitState, OpenInv, SectorInv, SentInv, AllWritten, BelowUntouched
<1> QED
  BY <1>1, <1>2 DEF SessionInv

LEMMA NextSession == SessionInv /\ [Next]_vars => SessionInv'
<1> SUFFICES ASSUME SessionInv, [Next]_vars PROVE SessionInv'
  OBVIOUS
<1>1. ASSUME NEW b \in Base, Open(b) PROVE SessionInv'
  BY <1>1, OpenSteps
<1>2. ASSUME NEW data \in SeqOf(Byte, MaxPiece) \ {<<>>}, Put(data) PROVE SessionInv'
  <2>1. data \in Seq(Byte) /\ Len(data) > 0
    BY SeqOfPieces
  <2> QED
    BY <1>2, <2>1, PutSteps
<1>3. CASE Abandon \/ Restart
  BY <1>3, EndSteps
<1>4. CASE Close
  BY <1>4, CloseSteps
<1>5. CASE UNCHANGED vars
  <2>1. SessionTypes'
    BY <1>5 DEF vars, SessionInv, SessionTypes, FastTypeOK
  <2>2. OpenInv' /\ SectorInv'
    BY <1>5 DEF vars, SessionInv, OpenInv, SectorInv
  <2>3. SentInv' /\ AllWritten' /\ BelowUntouched'
    BY <1>5 DEF vars, SessionInv, SentInv, View, AllWritten, BelowUntouched
  <2> QED
    BY <2>1, <2>2, <2>3 DEF SessionInv
<1> QED
  BY <1>1, <1>2, <1>3, <1>4, <1>5 DEF Next

\* Every byte a session has sent is in the cache, if its sector is the cached
\* one, and else in flash, for any sector size, base and cut into pieces.
THEOREM SessionNothingLost == Spec => []NothingLost
<1>1. SessionInv => NothingLost
  BY DEF SessionInv, SentInv, NothingLost, Cached, View
<1> QED
  BY <1>1, InitSession, NextSession, PTL DEF Spec

\* When tls_fls_fast_write_destroy has returned, flash holds all that was sent.
THEOREM SessionAllWritten == Spec => []AllWritten
<1>1. SessionInv => AllWritten
  BY DEF SessionInv
<1> QED
  BY <1>1, InitSession, NextSession, PTL DEF Spec

\* No flush goes below the sectors of the sessions.
THEOREM SessionBelowUntouched == Spec => []BelowUntouched
<1>1. SessionInv => BelowUntouched
  BY DEF SessionInv
<1> QED
  BY <1>1, InitSession, NextSession, PTL DEF Spec
=============================================================================
