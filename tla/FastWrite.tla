------------------------------ MODULE FastWrite ------------------------------
(***************************************************************************)
(* The fast write path of the internal flash driver: bytes written with    *)
(* tls_fls_fast_write collect in a one-sector cache (gsflscache) that is   *)
(* flushed, by erasing and programming the whole sector (gsSector), when   *)
(* it is full, when a write goes to another sector and when the cache is   *)
(* destroyed.                                                              *)
(*                                                                         *)
(* Addresses are physical.  Sector 0 is the one the boot loader starts     *)
(* with; it is also where a flush would go while gsSector is still 0.  The *)
(* operations hold fls_lock from end to end and are atomic here.  A fresh  *)
(* allocation holds Junk, and so does what a flush copies from a NULL      *)
(* cache.                                                                  *)
(***************************************************************************)
EXTENDS Integers, Sequences

CONSTANTS
    SecSize,      \* INSIDE_FLS_SECTOR_SIZE
    LastSector,   \* the flash has sectors 0 .. LastSector
    Byte,         \* what may be written
    Old,          \* what the flash held before
    Junk,         \* uninitialised or meaningless contents
    NoCache       \* gsflscache == NULL

ASSUME FastAssumption ==
    /\ SecSize \in Nat \ {0}
    /\ LastSector \in Nat \ {0}
    /\ Junk \notin Byte /\ Old \notin Byte /\ Old # Junk
    /\ NoCache \notin [0 .. SecSize - 1 -> Byte \cup {Old, Junk}]

VARIABLES
    area,       \* contents of the flash
    cache,      \* gsflscache
    gsSector    \* the sector the cache belongs to, 0 before the first write

fastVars == <<area, cache, gsSector>>

Addr == 0 .. (LastSector + 1) * SecSize - 1
Cell == Byte \cup {Old, Junk}
Sector(a) == a \div SecSize

FastInitState ==
    /\ area = [a \in Addr |-> Old]
    /\ cache = NoCache
    /\ gsSector = 0

\* tls_fls_flush_sector: the contents of flash afterwards.
FlushedArea ==
    IF gsSector > LastSector THEN area
    ELSE [a \in Addr |->
            IF Sector(a) # gsSector THEN area[a]
            ELSE IF cache = NoCache THEN Junk ELSE cache[a % SecSize]]

\* tls_fls_fast_write_init; heap tells whether the allocation succeeds.  An
\* existing cache is kept (the result -1 is ignored by its only caller).
FastInit(heap) ==
    /\ cache' = IF cache = NoCache /\ heap
                THEN [j \in 0 .. SecSize - 1 |-> Junk] ELSE cache
    /\ UNCHANGED <<area, gsSector>>

\* Fault: the cache is freed without being flushed.
FastDestroyNoFlush ==
    /\ cache' = NoCache
    /\ UNCHANGED <<area, gsSector>>

\* tls_fls_fast_write_destroy: flush and free.  gsSector keeps its value.
FastDestroy ==
    /\ area' = IF cache = NoCache THEN area ELSE FlushedArea
    /\ cache' = NoCache
    /\ UNCHANGED gsSector

\* What cache cell j holds once the bytes of data (the first one for address
\* addr) that go below address bound have been copied.
Copied(addr, data, j, bound) ==
    LET last == bound - 1 - ((bound - 1 - j) % SecSize)
    IN IF cache = NoCache THEN Junk
       ELSE IF last < addr THEN cache[j] ELSE data[last - addr + 1]

\* Fault: the cached sector is not flushed when a write goes elsewhere.
FastWriteNoFlush(addr, data) ==
    LET end == addr + Len(data)
        full == Sector(addr) .. Sector(end) - 1
    IN /\ area' = [a \in Addr |->
                     IF Sector(a) \in full
                     THEN Copied(addr, data, a % SecSize, (Sector(a) + 1) * SecSize)
                     ELSE area[a]]
       /\ cache' = IF cache = NoCache THEN NoCache
                   ELSE [j \in 0 .. SecSize - 1 |-> Copied(addr, data, j, end)]
       /\ gsSector' = IF full = {} THEN gsSector ELSE Sector(end)

\* Fault: gsSector = 0 is not recognised as "nothing cached yet".
FastWriteNoGuard(addr, data) ==
    LET end == addr + Len(data)
        full == Sector(addr) .. Sector(end) - 1
        kept == IF gsSector # Sector(addr) THEN FlushedArea ELSE area
    IN /\ area' = [a \in Addr |->
                     IF Sector(a) \in full
                     THEN Copied(addr, data, a % SecSize, (Sector(a) + 1) * SecSize)
                     ELSE kept[a]]
       /\ cache' = IF cache = NoCache THEN NoCache
                   ELSE [j \in 0 .. SecSize - 1 |-> Copied(addr, data, j, end)]
       /\ gsSector' = Sector(end)

\* tls_fls_fast_write of a non-empty data at an address inside the flash: the
\* cached sector is flushed first if it is another one; then every sector that
\* the write reaches the end of is flushed as soon as it is full.
FastWriteTo(addr, data) ==
    LET end == addr + Len(data)
        full == Sector(addr) .. Sector(end) - 1
        kept == IF gsSector \notin {0, Sector(addr)} THEN FlushedArea ELSE area
    IN /\ area' = [a \in Addr |->
                     IF Sector(a) \in full
                     THEN Copied(addr, data, a % SecSize, (Sector(a) + 1) * SecSize)
                     ELSE kept[a]]
       /\ cache' = IF cache = NoCache THEN NoCache
                   ELSE [j \in 0 .. SecSize - 1 |-> Copied(addr, data, j, end)]
       /\ gsSector' = Sector(end)

\* The cache and its sector number are in RAM.
FastRestart ==
    /\ cache' = NoCache
    /\ gsSector' = 0
    /\ UNCHANGED area

FastTypeOK ==
    /\ area \in [Addr -> Cell]
    /\ cache \in [0 .. SecSize - 1 -> Cell] \cup {NoCache}
    /\ gsSector \in Nat
=============================================================================
