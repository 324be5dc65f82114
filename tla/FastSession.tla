---------------------------- MODULE FastSession ----------------------------
(***************************************************************************)
(* The fast write path as the firmware update drives it: a session writes  *)
(* consecutive pieces from a base address on; it ends with the destruction *)
(* of the cache, after which the system restarts, or it is left half way,  *)
(* and then the next session finds the cache and gsSector as they are.     *)
(***************************************************************************)
EXTENDS FastWrite, SequencesExt

CONSTANTS
    Base,       \* addresses a session may start at
    MaxPiece,   \* bound: bytes of one call
    MaxLen      \* bound: bytes of one session

ASSUME SessionAssumption ==
    /\ Base \subseteq Nat
    /\ MaxPiece \in Nat /\ MaxLen \in Nat

VARIABLES
    stage,   \* "none", "open" or "closed"
    base,    \* where the session started
    sent     \* what it has written so far

vars == <<area, cache, gsSector, stage, base, sent>>

Init ==
    /\ FastInitState
    /\ stage = "none"
    /\ base = 0
    /\ sent = <<>>

\* tls_fwup_enter, and the image header that sets program_base.
Open(b) ==
    /\ stage = "none"
    /\ FastInit(TRUE)
    /\ stage' = "open" /\ base' = b /\ sent' = <<>>

\* One piece of the image.
Put(data) ==
    /\ stage = "open"
    /\ Len(sent) + Len(data) <= MaxLen
    /\ base + Len(sent) \in Addr
    /\ FastWriteTo(base + Len(sent), data)
    /\ sent' = sent \o data
    /\ UNCHANGED <<stage, base>>

\* tls_fwup_exit or tls_fwup_reset: the cache stays.
Abandon ==
    /\ stage = "open"
    /\ stage' = "none"
    /\ UNCHANGED <<area, cache, gsSector, base, sent>>

\* The last piece was written.
Close ==
    /\ stage = "open" /\ sent # <<>>
    /\ FastDestroy
    /\ stage' = "closed"
    /\ UNCHANGED <<base, sent>>

\* tls_sys_reset or a power cut.
Restart ==
    /\ FastRestart
    /\ stage' = "none"
    /\ UNCHANGED <<base, sent>>

Next ==
    \/ \E b \in Base : Open(b)
    \/ \E data \in SeqOf(Byte, MaxPiece) \ {<<>>} : Put(data)
    \/ Abandon \/ Close \/ Restart

Spec == Init /\ [][Next]_vars

-----------------------------------------------------------------------------

\* The i-th byte sent is still in the cache.
Cached(i) == Sector(base + i - 1) = gsSector

\* During a session every byte sent is in the cache if its sector is the
\* cached one, and in flash otherwise, however the pieces were cut and whatever
\* an abandoned session left in the cache.
NothingLost ==
    stage = "open" =>
        \A i \in 1 .. Len(sent) :
            base + i - 1 \in Addr =>
                IF Cached(i) THEN cache[(base + i - 1) % SecSize] = sent[i]
                             ELSE area[base + i - 1] = sent[i]

\* When tls_fls_fast_write_destroy returns, flash holds the whole image.
AllWritten ==
    stage = "closed" =>
        \A i \in 1 .. Len(sent) : base + i - 1 \in Addr => area[base + i - 1] = sent[i]

\* No flush ever goes to a sector below those of the sessions, in particular
\* to sector 0, where the flash driver's address 0 lies.
BelowUntouched ==
    \A a \in Addr : (\A b \in Base : Sector(a) < Sector(b)) => area[a] = Old
=============================================================================
