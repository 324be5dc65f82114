----------------------------- MODULE FastLemmas -----------------------------
(***************************************************************************)
(* Facts about the fast write path that every user of it needs: sectors,   *)
(* cells of the cache, and what one call leaves in flash and cache.        *)
(***************************************************************************)
EXTENDS FastWrite, TLAPS

\* A product grows with its factor.
LEMMA MulMono ==
    ASSUME NEW x \in Int, NEW y \in Int, x <= y
    PROVE  SecSize * x <= SecSize * y
<1>1. SecSize * (y - x) >= 0
  BY FastAssumption
<1>2. SecSize * (y - x) = SecSize * y - SecSize * x
  BY FastAssumption
<1> QED
  BY <1>1, <1>2, FastAssumption

\* An address is its sector's first one and its place in the sector.
LEMMA DivMod ==
    ASSUME NEW a \in Int
    PROVE  /\ Sector(a) \in Int
           /\ a % SecSize \in 0 .. SecSize - 1
           /\ a = SecSize * Sector(a) + (a % SecSize)
  BY FastAssumption DEF Sector

\* and it has no other sector and place.
LEMMA DivModUnique ==
    ASSUME NEW q \in Int, NEW r \in 0 .. SecSize - 1
    PROVE  /\ Sector(SecSize * q + r) = q
           /\ (SecSize * q + r) % SecSize = r
<1> DEFINE a == SecSize * q + r
           s == Sector(a)
           c == a % SecSize
<1>1. a \in Int /\ SecSize \in Int /\ SecSize * q \in Int
  BY FastAssumption
<1>2. s \in Int /\ c \in 0 .. SecSize - 1 /\ a = SecSize * s + c
  BY <1>1, DivMod
<1> HIDE DEF s, c
<1>3. SecSize * s \in Int /\ SecSize * (s + 1) = SecSize * s + SecSize
  BY <1>1, <1>2
<1>4. SecSize * (q + 1) = SecSize * q + SecSize
  BY <1>1
<1>5. s < q => SecSize * (s + 1) <= SecSize * q
  BY <1>2, MulMono
<1>6. q < s => SecSize * (q + 1) <= SecSize * s
  BY <1>2, MulMono
<1>7. s = q
  BY <1>1, <1>2, <1>3, <1>4, <1>5, <1>6
<1>8. c = r
  BY <1>1, <1>2, <1>3, <1>7
<1> QED
  BY <1>7, <1>8 DEF s, c

LEMMA SectorMono ==
    ASSUME NEW a \in Int, NEW b \in Int, a <= b
    PROVE  Sector(a) <= Sector(b)
<1>1. /\ Sector(a) \in Int /\ a % SecSize \in 0 .. SecSize - 1 /\ a = SecSize * Sector(a) + (a % SecSize)
      /\ Sector(b) \in Int /\ b % SecSize \in 0 .. SecSize - 1 /\ b = SecSize * Sector(b) + (b % SecSize)
  BY DivMod
<1>2. SecSize * (Sector(b) + 1) = SecSize * Sector(b) + SecSize
      /\ SecSize * Sector(b) \in Int /\ SecSize * Sector(a) \in Int /\ SecSize \in Int
  BY <1>1, FastAssumption
<1>3. Sector(b) < Sector(a) => SecSize * (Sector(b) + 1) <= SecSize * Sector(a)
  BY <1>1, MulMono
<1> QED
  BY <1>1, <1>2, <1>3

\* Cells of the flash lie in its sectors.
LEMMA AddrSector ==
    ASSUME NEW a \in Addr
    PROVE  a \in Nat /\ Sector(a) \in 0 .. LastSector
<1> DEFINE n == SecSize * (LastSector + 1)
<1>0. SecSize \in Nat /\ LastSector \in Nat /\ n \in Int /\ (LastSector + 1) * SecSize = n
  BY FastAssumption
<1>1. a \in Nat /\ a < n
  BY <1>0 DEF Addr
<1>2. Sector(a) \in Int /\ a % SecSize \in 0 .. SecSize - 1 /\ a = SecSize * Sector(a) + (a % SecSize)
  BY <1>1, DivMod
<1>3. SecSize * Sector(a) \in Int /\ SecSize * (-1) = -SecSize
  BY <1>0, <1>2
<1>4. Sector(a) > LastSector => n <= SecSize * Sector(a)
  BY <1>0, <1>2, MulMono
<1>5. Sector(a) < 0 => SecSize * Sector(a) <= SecSize * (-1)
  BY <1>2, MulMono
<1> QED
  BY <1>0, <1>1, <1>2, <1>3, <1>4, <1>5

\* A sector holds the addresses from its first one on.
LEMMA SectorBounds ==
    ASSUME NEW a \in Int
    PROVE  SecSize * Sector(a) <= a /\ a <= SecSize * (Sector(a) + 1)
<1>1. Sector(a) \in Int /\ a % SecSize \in 0 .. SecSize - 1 /\ a = SecSize * Sector(a) + (a % SecSize)
  BY DivMod
<1>2. SecSize * Sector(a) \in Int /\ SecSize \in Nat
      /\ SecSize * (Sector(a) + 1) = SecSize * Sector(a) + SecSize
  BY <1>1, FastAssumption
<1> QED
  BY <1>1, <1>2

LEMMA SectorNat ==
    ASSUME NEW a \in Nat
    PROVE  Sector(a) \in Nat
<1>1. Sector(a) \in Int /\ a % SecSize \in 0 .. SecSize - 1 /\ a = SecSize * Sector(a) + (a % SecSize)
  BY DivMod
<1>2. SecSize * Sector(a) \in Int /\ SecSize * (-1) = -SecSize /\ SecSize \in Nat
  BY <1>1, FastAssumption
<1>3. Sector(a) < 0 => SecSize * Sector(a) <= SecSize * (-1)
  BY <1>1, MulMono
<1> QED
  BY <1>1, <1>2, <1>3

\* The cell of address a holds the byte written for a, once all bytes up to
\* some address of its sector have been copied, and what it held before when
\* none was written for it.
LEMMA CopiedCell ==
    ASSUME NEW addr \in Nat, NEW data, NEW a \in Nat, NEW bound \in Nat,
           a < bound, bound <= SecSize * (Sector(a) + 1), cache # NoCache
    PROVE  Copied(addr, data, a % SecSize, bound) =
             IF a < addr THEN cache[a % SecSize] ELSE data[a - addr + 1]
<1> DEFINE s == Sector(a)
           j == a % SecSize
           x == bound - 1 - a
<1>1. s \in Int /\ j \in 0 .. SecSize - 1 /\ a = SecSize * s + j
  BY DivMod
<1>2. SecSize * s \in Int /\ SecSize * (s + 1) = SecSize * s + SecSize /\ SecSize \in Nat
  BY <1>1, FastAssumption
<1>3. bound <= SecSize * s + SecSize
  BY <1>2
<1> DEFINE z == SecSize * s
<1> HIDE DEF s, j, z
<1>6. x \in 0 .. SecSize - 1 /\ bound - 1 - j = z + x
  BY <1>1, <1>2, <1>3 DEF z
<1>4. (bound - 1 - j) % SecSize = x
  BY <1>1, <1>6, DivModUnique DEF z
<1>5. bound - 1 - ((bound - 1 - j) % SecSize) = a
  BY <1>4
<1> QED
  BY <1>5 DEF Copied, j

\* The cache holds cells, whatever was copied.
LEMMA CopiedType ==
    ASSUME cache \in [0 .. SecSize - 1 -> Cell] \cup {NoCache},
           NEW addr \in Nat, NEW data \in Seq(Byte), NEW j \in 0 .. SecSize - 1,
           NEW bound \in Nat, bound <= addr + Len(data)
    PROVE  Copied(addr, data, j, bound) \in Cell
<1> DEFINE y == bound - 1 - j
           last == bound - 1 - (y % SecSize)
<1>1. y \in Int /\ SecSize \in Nat
  BY FastAssumption
<1>2. y % SecSize \in 0 .. SecSize - 1
  BY <1>1, DivMod
<1>3. last \in Int /\ last <= addr + Len(data) - 1
  BY <1>2
<1>4. Junk \in Cell /\ Byte \subseteq Cell
  BY DEF Cell
<1>5. Copied(addr, data, j, bound) =
        IF cache = NoCache THEN Junk
        ELSE IF last < addr THEN cache[j] ELSE data[last - addr + 1]
  BY DEF Copied
<1> HIDE DEF last
<1>6. ~(last < addr) => data[last - addr + 1] \in Byte
  BY <1>3
<1> QED
  BY <1>4, <1>5, <1>6

\* What a reader of address a would find if the cache were flushed now.
View(a) == IF Sector(a) = gsSector THEN cache[a % SecSize] ELSE area[a]

\* tls_fls_flush_sector writes the cached sector and no other.
LEMMA FlushCells ==
    ASSUME FastTypeOK, NEW a \in Addr
    PROVE  /\ FlushedArea \in [Addr -> Cell]
           /\ Sector(a) # gsSector => FlushedArea[a] = area[a]
           /\ cache # NoCache => FlushedArea[a] = View(a)
<1>1. \A b \in Addr : Sector(b) \in 0 .. LastSector /\ b % SecSize \in 0 .. SecSize - 1
  BY AddrSector, DivMod
<1>2. Junk \in Cell
  BY DEF Cell
<1>3. CASE gsSector > LastSector
  BY <1>1, <1>3, FastAssumption DEF FastTypeOK, FlushedArea, View
<1>4. CASE ~(gsSector > LastSector)
  <2>1. \A b \in Addr : FlushedArea[b] =
           IF Sector(b) # gsSector THEN area[b]
           ELSE IF cache = NoCache THEN Junk ELSE cache[b % SecSize]
    BY <1>4 DEF FlushedArea
  <2>2. FlushedArea \in [Addr -> Cell]
    BY <1>1, <1>2, <1>4 DEF FastTypeOK, FlushedArea
  <2> QED
    BY <2>1, <2>2 DEF View
<1> QED
  BY <1>3, <1>4

\* Sectors that a write reaches the end of.
LEMMA FullSectors ==
    ASSUME NEW addr \in Nat, NEW end \in Nat, NEW a \in Nat,
           Sector(a) < Sector(end)
    PROVE  /\ SecSize * (Sector(a) + 1) \in Nat
           /\ (Sector(a) + 1) * SecSize = SecSize * (Sector(a) + 1)
           /\ SecSize * (Sector(a) + 1) <= end
           /\ a < SecSize * (Sector(a) + 1)
<1>1. /\ Sector(a) \in Nat /\ a % SecSize \in 0 .. SecSize - 1 /\ a = SecSize * Sector(a) + (a % SecSize)
      /\ Sector(end) \in Nat /\ end % SecSize \in 0 .. SecSize - 1
      /\ end = SecSize * Sector(end) + (end % SecSize)
  BY DivMod, SectorNat
<1>2. /\ SecSize * (Sector(a) + 1) = SecSize * Sector(a) + SecSize
      /\ SecSize * Sector(a) \in Nat /\ SecSize \in Nat /\ SecSize * Sector(end) \in Nat
  BY <1>1, FastAssumption
<1>3. SecSize * (Sector(a) + 1) <= SecSize * Sector(end)
  BY <1>1, MulMono
<1>4. (Sector(a) + 1) * SecSize = SecSize * (Sector(a) + 1)
  BY <1>1, <1>2
<1> QED
  BY <1>1, <1>2, <1>3, <1>4

\* A call of tls_fls_fast_write keeps the types and the cache.
LEMMA WriteTypes ==
    ASSUME FastTypeOK, NEW addr \in Nat, NEW data \in Seq(Byte), FastWriteTo(addr, data)
    PROVE  /\ FastTypeOK'
           /\ gsSector' = Sector(addr + Len(data))
           /\ cache # NoCache => cache' # NoCache
           /\ cache = NoCache => cache' = NoCache
<1> DEFINE end == addr + Len(data)
           full == Sector(addr) .. Sector(end) - 1
           kept == IF gsSector \notin {0, Sector(addr)} THEN FlushedArea ELSE area
<1>1. end \in Nat /\ Sector(end) \in Nat /\ Sector(addr) \in Nat
  BY SectorNat
<1>2. kept \in [Addr -> Cell]
  <2>1. area \in [Addr -> Cell]
    BY DEF FastTypeOK
  <2>2. 0 \in Addr
    <3>1. (LastSector + 1) * SecSize \in Nat \ {0}
      BY FastAssumption
    <3> QED
      BY <3>1 DEF Addr
  <2> QED
    BY <2>1, <2>2, FlushCells
<1>3. /\ area' = [a \in Addr |->
                     IF Sector(a) \in full
                     THEN Copied(addr, data, a % SecSize, (Sector(a) + 1) * SecSize)
                     ELSE kept[a]]
      /\ cache' = IF cache = NoCache THEN NoCache
                  ELSE [j \in 0 .. SecSize - 1 |-> Copied(addr, data, j, end)]
      /\ gsSector' = Sector(end)
  BY DEF FastWriteTo
<1>4. cache \in [0 .. SecSize - 1 -> Cell] \cup {NoCache}
  BY DEF FastTypeOK
<1>5. ASSUME NEW a \in Addr, Sector(a) \in full
      PROVE  Copied(addr, data, a % SecSize, (Sector(a) + 1) * SecSize) \in Cell
  <2>1. a \in Nat /\ Sector(a) \in Nat /\ Sector(a) < Sector(end)
    BY <1>1, <1>5, AddrSector
  <2>2. (Sector(a) + 1) * SecSize \in Nat /\ (Sector(a) + 1) * SecSize <= end
    BY <1>1, <2>1, FullSectors
  <2>3. a % SecSize \in 0 .. SecSize - 1
    BY <2>1, DivMod
  <2> QED
    BY <1>4, <2>2, <2>3, CopiedType
<1>6. \A j \in 0 .. SecSize - 1 : Copied(addr, data, j, end) \in Cell
  BY <1>1, <1>4, CopiedType
<1> HIDE DEF kept, full, end
<1>7. area' \in [Addr -> Cell]
  BY <1>2, <1>3, <1>5
<1>8. cache # NoCache => cache' \in [0 .. SecSize - 1 -> Cell]
  BY <1>3, <1>6
<1>9. NoCache \notin [0 .. SecSize - 1 -> Cell]
  BY FastAssumption DEF Cell
<1> QED
  BY <1>1, <1>3, <1>7, <1>8, <1>9 DEF FastTypeOK, end

\* What a call of tls_fls_fast_write leaves for an address below its end,
\* in cache or flash: the byte written; what the cache held, if the address is
\* of the first sector written to; and else what flash held or a flush of the
\* sector cached before left there.
LEMMA WriteView ==
    ASSUME FastTypeOK, cache # NoCache, NEW addr \in Nat, NEW data \in Seq(Byte),
           FastWriteTo(addr, data), NEW a \in Addr, a < addr + Len(data)
    PROVE  View(a)' =
             IF a >= addr THEN data[a - addr + 1]
             ELSE IF Sector(a) = Sector(addr) THEN cache[a % SecSize]
             ELSE IF gsSector \notin {0, Sector(addr)} THEN FlushedArea[a] ELSE area[a]
<1> DEFINE end == addr + Len(data)
           full == Sector(addr) .. Sector(end) - 1
           kept == IF gsSector \notin {0, Sector(addr)} THEN FlushedArea ELSE area
<1>1. end \in Nat /\ Sector(end) \in Nat /\ Sector(addr) \in Nat
  BY SectorNat
<1>2. a \in Nat /\ Sector(a) \in Nat /\ a % SecSize \in 0 .. SecSize - 1
  BY AddrSector, DivMod
<1>3. /\ area'[a] = IF Sector(a) \in full
                    THEN Copied(addr, data, a % SecSize, (Sector(a) + 1) * SecSize)
                    ELSE kept[a]
      /\ cache'[a % SecSize] = Copied(addr, data, a % SecSize, end)
      /\ gsSector' = Sector(end)
  BY <1>2 DEF FastWriteTo
<1>4. Sector(a) <= Sector(end) /\ (a < addr => Sector(a) <= Sector(addr))
      /\ (a >= addr => Sector(addr) <= Sector(a))
  BY <1>1, <1>2, SectorMono
<1>5. View(a)' = IF Sector(a) = gsSector' THEN cache'[a % SecSize] ELSE area'[a]
  BY DEF View
<1>6. CASE Sector(a) = Sector(end)
  <2>1. end <= SecSize * (Sector(a) + 1)
    <3>1. end <= SecSize * (Sector(end) + 1)
      BY <1>1, SectorBounds
    <3> HIDE DEF end
    <3> QED
      BY <1>6, <3>1
  <2>2. Copied(addr, data, a % SecSize, end) =
          IF a < addr THEN cache[a % SecSize] ELSE data[a - addr + 1]
    BY <1>1, <1>2, <2>1, CopiedCell
  <2>3. a < addr => Sector(a) = Sector(addr)
    <3>1. Sector(addr) <= Sector(end)
      BY <1>1, SectorMono
    <3> QED
      BY <1>1, <1>2, <1>4, <1>6, <3>1
  <2> QED
    BY <1>2, <1>3, <1>5, <1>6, <2>2, <2>3
<1>7. CASE Sector(a) < Sector(end) /\ Sector(a) >= Sector(addr)
  <2> DEFINE bound == SecSize * (Sector(a) + 1)
  <2>1. bound \in Nat /\ (Sector(a) + 1) * SecSize = bound /\ a < bound
    BY <1>1, <1>2, <1>7, FullSectors
  <2>2. Copied(addr, data, a % SecSize, bound) =
          IF a < addr THEN cache[a % SecSize] ELSE data[a - addr + 1]
    BY <1>1, <1>2, <2>1, CopiedCell
  <2>3. Sector(a) \in full /\ Sector(a) # Sector(end)
    BY <1>1, <1>2, <1>7
  <2>4. a < addr => Sector(a) = Sector(addr)
    BY <1>1, <1>2, <1>4, <1>7
  <2> HIDE DEF bound, full
  <2> QED
    BY <1>2, <1>3, <1>5, <2>1, <2>2, <2>3, <2>4
<1>8. CASE Sector(a) < Sector(addr)
  <2>1. a < addr /\ Sector(a) \notin full /\ Sector(a) # Sector(addr) /\ Sector(a) # Sector(end)
    <3>1. Sector(addr) <= Sector(end)
      BY <1>1, SectorMono
    <3> QED
      BY <1>1, <1>2, <1>4, <1>8, <3>1
  <2> HIDE DEF full
  <2> QED
    BY <1>2, <1>3, <1>5, <2>1
<1> QED
  BY <1>1, <1>2, <1>4, <1>6, <1>7, <1>8

\* A call of tls_fls_fast_write leaves flash below its first sector alone, but
\* for the flush of the sector that was cached.
LEMMA WriteBelow ==
    ASSUME FastTypeOK, NEW addr \in Nat, NEW data, FastWriteTo(addr, data),
           NEW a \in Addr, Sector(a) < Sector(addr), gsSector = 0 \/ Sector(a) # gsSector
    PROVE  area'[a] = area[a]
<1>1. Sector(a) \notin Sector(addr) .. Sector(addr + Len(data)) - 1
  BY AddrSector, SectorNat
<1>2. area'[a] = (IF gsSector \notin {0, Sector(addr)} THEN FlushedArea ELSE area)[a]
  BY <1>1 DEF FastWriteTo
<1> QED
  BY <1>2, FlushCells
=============================================================================
