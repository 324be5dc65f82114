----------------------------- MODULE ParamStore -----------------------------
(***************************************************************************)
(* The system parameter store of platform/common/params/wm_param.c on top *)
(* of the internal flash driver (platform/drivers/internalflash).          *)
(*                                                                         *)
(* The parameters live in RAM (flash_param) and in two flash partitions    *)
(* that are written alternately, each a header (magic, partition number,   *)
(* modify count), the parameters and a CRC.  tls_param_init loads the      *)
(* valid partition with the larger modify count and repairs a damaged one. *)
(* Power may be cut between any two steps.                                 *)
(*                                                                         *)
(* Data abstraction: struct tls_sys_param is a function from a small set   *)
(* of parameter ids to values; a CRC is the record it was computed over    *)
(* (two different images never share a CRC); a sector that was erased, or  *)
(* whose programming was cut short, fails the magic or CRC test.  The heap *)
(* may refuse an allocation at the sites in HeapFails.  Calls rejected     *)
(* before they change anything (invalid id, NULL argument) are left out.   *)
(***************************************************************************)
EXTENDS Integers

CONSTANTS
    Task,         \* tasks that call the API
    Main,         \* the start task, which runs tls_param_init
    Id,           \* parameter ids (TLS_PARAM_ID_SSID, ...)
    Val,          \* values of one parameter
    Factory,      \* what tls_param_load_factory_default stores
    Zero,         \* a struct after memset(..., 0, ...)
    Blank,        \* contents of erased flash; also: no struct allocated
    NoTask,       \* a free semaphore
    CountMod,     \* modify_count is a u16: 65536 in the code
    MaxCount,     \* bound of the model: no flash update starts at this count
    HeapFails     \* the allocations that may return NULL, see HeapSite

Params == [Id -> Val]
Part == {0, 1}

\* What tls_param_set copies: one field, or (TLS_PARAM_ID_ALL) all of them.
Arg == UNION {[S -> Val] : S \in {Id} \cup {{i} : i \in Id}}

\* Where the code allocates: the read buffer of tls_param_init, the sector
\* cache of tls_fls_write (for a partition, and for the user defaults), the
\* buffers of param_flash_verify, of tls_param_to_flash and of tls_param_get,
\* and *user_default_param.
HeapSite == {"boot", "write", "usrwrite", "verify", "compare", "get", "user"}

ASSUME ParamAssumption ==
    /\ Main \in Task
    /\ NoTask \notin Task
    /\ Factory \in Params
    /\ Zero \in Params
    /\ Blank \notin Params
    /\ CountMod \in Nat /\ CountMod > 1
    /\ MaxCount \in Nat /\ MaxCount > 1
    /\ HeapFails \subseteq HeapSite

VARIABLES
    flash,     \* the two parameter partitions
    ram,       \* static struct tls_param_flash flash_param
    mode,      \* "off", "boot" (inside tls_param_init) or "up"
    lock,      \* holder of sys_param_lock
    flsLock,   \* holder of inside_fls->fls_lock
    pc,        \* where each task is in the call it is making
    call,      \* arguments and locals of that call
    updp,      \* updp_mode
    usrRam,    \* *user_default_param, Blank while the pointer is NULL
    usrFlash   \* the sector at TLS_FLASH_PARAM_DEFAULT

sysVars == <<flash, ram, mode, lock, flsLock, pc, call>>
usrVars == <<updp, usrRam, usrFlash>>
vars == <<flash, ram, mode, lock, flsLock, pc, call, updp, usrRam, usrFlash>>

-----------------------------------------------------------------------------
(* struct tls_param_flash, in RAM or in a sector.  crc is the image the    *)
(* stored CRC32 was computed over.                                         *)

Image(r) == [part |-> r.part, count |-> r.count, val |-> r.val]

NoImage == [part |-> 0, count |-> 0, val |-> Blank]

\* flash_param after memset(&flash_param, 0, sizeof(flash_param)).
RamCleared == [magic |-> FALSE, part |-> 0, count |-> 0, val |-> Zero,
               crc |-> NoImage]

Erased == [magic |-> FALSE, part |-> 0, count |-> 0, val |-> Blank,
           crc |-> NoImage]

\* The magic and CRC test of tls_param_init.
Ok(s) == s.magic /\ s.crc = Image(s)

\* Fault: the comparison of the modify counts is reversed.
LoadedOldest(f) ==
    IF Ok(f[0]) /\ ~(Ok(f[1]) /\ f[0].count > f[1].count) THEN 0 ELSE 1

\* The partition the loop of tls_param_init keeps: the first valid one,
\* replaced by the second if that has the larger modify count.
Loaded(f) == IF Ok(f[0]) /\ ~(Ok(f[1]) /\ f[0].count < f[1].count) THEN 0 ELSE 1

AnyValid(f) == Ok(f[0]) \/ Ok(f[1])

\* The parameters a reboot would come up with.
Recovered(f) == IF AnyValid(f) THEN f[Loaded(f)].val ELSE Factory

\* The sector of the user defaults: magic word, struct, CRC of the struct.
UsrErased == [magic |-> FALSE, val |-> Blank, crc |-> Blank]

\* tls_param_load_user succeeds on this sector.
UserValid(u) == u.magic /\ u.val # Blank /\ u.crc = u.val

-----------------------------------------------------------------------------
(* Calls.  wcount and wpart are the arguments of param_to_flash, -1 meaning *)
(* "increment" and "switch".                                               *)

NoCall == [op |-> "none", arg |-> Factory, toFlash |-> FALSE, usr |-> FALSE,
           wcount |-> -1, wpart |-> -1, addr |-> 0, buf |-> Erased,
           usrBuf |-> UsrErased, step |-> 0, ret |-> "OK"]

\* Whether an allocation succeeds.
HeapOutcome(site) == IF site \in HeapFails THEN {TRUE, FALSE} ELSE {TRUE}

\* The struct after the fields in arg have been assigned.
Assign(val, arg) == [i \in Id |-> IF i \in DOMAIN arg THEN arg[i] ELSE val[i]]

\* A call returns to its caller: the locals are gone, the result stays.
Returns(t, r) ==
    /\ pc' = [pc EXCEPT ![t] = "idle"]
    /\ call' = [call EXCEPT ![t] = [NoCall EXCEPT !.ret = r]]

Init ==
    /\ flash = [p \in Part |-> Erased]
    /\ ram = RamCleared
    /\ mode = "off"
    /\ lock = NoTask
    /\ flsLock = NoTask
    /\ pc = [t \in Task |-> "idle"]
    /\ call = [t \in Task |-> NoCall]
    /\ updp = FALSE
    /\ usrRam = Blank
    /\ usrFlash = UsrErased

-----------------------------------------------------------------------------
(* param_to_flash                                                          *)

\* Fault: the modify count is not incremented.
SealSameCount(t) ==
    /\ pc[t] = "seal"
    /\ LET c == IF call[t].wcount < 0 THEN ram.count ELSE call[t].wcount
           p == IF call[t].wpart < 0 THEN 1 - ram.part ELSE call[t].wpart
       IN /\ ram' = [magic |-> TRUE, part |-> p, count |-> c, val |-> ram.val,
                     crc |-> [part |-> p, count |-> c, val |-> ram.val]]
          /\ call' = [call EXCEPT ![t].addr = p]
    /\ pc' = [pc EXCEPT ![t] = "write"]
    /\ UNCHANGED <<flash, mode, lock, flsLock, usrVars>>

\* Fill in the header, choose count and partition, compute the CRC.
Seal(t) ==
    /\ pc[t] = "seal"
    /\ LET c == IF call[t].wcount < 0 THEN (ram.count + 1) % CountMod
                                      ELSE call[t].wcount
           p == IF call[t].wpart < 0 THEN 1 - ram.part ELSE call[t].wpart
       IN /\ ram' = [magic |-> TRUE, part |-> p, count |-> c, val |-> ram.val,
                     crc |-> [part |-> p, count |-> c, val |-> ram.val]]
          /\ call' = [call EXCEPT ![t].addr = p]
    /\ pc' = [pc EXCEPT ![t] = "write"]
    /\ UNCHANGED <<flash, mode, lock, flsLock, usrVars>>

\* The way out of param_to_flash into its caller.  tls_param_set,
\* tls_param_to_flash and tls_param_init release sys_param_lock (the last one
\* also ends the boot); tls_param_to_default never took it, and clears the
\* magic word once both of its writes have been tried.
Finish(t, r) ==
    /\ Returns(t, r)
    /\ IF call[t].op = "default"
       THEN /\ ram' = [ram EXCEPT !.magic = @ /\ call[t].wpart = 0]
            /\ UNCHANGED lock
       ELSE lock' = NoTask /\ UNCHANGED ram
    /\ mode' = IF call[t].op = "boot" THEN "up" ELSE mode

\* Fault: the partition that is in use is erased.
WriteErasesCurrent(t) ==
    /\ pc[t] = "write"
    /\ flsLock = NoTask
    /\ flsLock' = t
    /\ flash' = [flash EXCEPT ![1 - call[t].addr] = Erased]
    /\ pc' = [pc EXCEPT ![t] = "program"]
    /\ UNCHANGED <<ram, mode, lock, call, usrVars>>

\* tls_fls_write, first half: take fls_lock, read the sector, erase it.
WriteErase(t) ==
    /\ pc[t] = "write"
    /\ flsLock = NoTask
    /\ flsLock' = t
    /\ flash' = [flash EXCEPT ![call[t].addr] = Erased]
    /\ pc' = [pc EXCEPT ![t] = "program"]
    /\ UNCHANGED <<ram, mode, lock, call, usrVars>>

\* tls_fls_write cannot allocate its sector cache: TLS_FLS_STATUS_ENOMEM.
WriteNoMem(t) ==
    /\ pc[t] = "write"
    /\ "write" \in HeapFails
    /\ flsLock = NoTask
    /\ Finish(t, "EIO")
    /\ UNCHANGED <<flash, flsLock, usrVars>>

\* tls_fls_write, second half: copy flash_param into the cache, program the
\* pages, give fls_lock back.
Program(t) ==
    /\ pc[t] = "program"
    /\ flash' = [flash EXCEPT ![call[t].addr] = ram]
    /\ flsLock' = NoTask
    /\ pc' = [pc EXCEPT ![t] = "verify"]
    /\ UNCHANGED <<ram, mode, lock, call, usrVars>>

\* param_flash_verify: read back and compare with flash_param; it fails when
\* it cannot allocate its buffer.
VerifyOutcome ==
    {heap /\ flash[ram.part] = ram : heap \in HeapOutcome("verify")}

\* Fault: the second partition is not written.
VerifyOneWrite(t) ==
    /\ pc[t] = "verify"
    /\ flsLock = NoTask
    /\ \E same \in VerifyOutcome : Finish(t, IF same THEN "OK" ELSE "EIO")
    /\ UNCHANGED <<flash, flsLock, usrVars>>

\* param_to_flash returns.  The two-step callers write partition 1 next.
Verify(t) ==
    /\ pc[t] = "verify"
    /\ flsLock = NoTask
    /\ \E same \in VerifyOutcome :
         IF same /\ call[t].wcount = 1 /\ call[t].wpart = 0
         THEN /\ call' = [call EXCEPT ![t].wpart = 1]
              /\ pc' = [pc EXCEPT ![t] = "seal"]
              /\ UNCHANGED <<ram, mode, lock>>
         ELSE Finish(t, IF same THEN "OK" ELSE "EIO")
    /\ UNCHANGED <<flash, flsLock, usrVars>>

ParamToFlash(t) ==
    Seal(t) \/ WriteErase(t) \/ WriteNoMem(t) \/ Program(t) \/ Verify(t)

-----------------------------------------------------------------------------
(* task_start: tls_param_load_factory_default, tls_param_init              *)

BootCall(w, p) == [NoCall EXCEPT !.op = "boot", !.wcount = w, !.wpart = p]

\* Both partitions valid: load and go on.
BootLoad ==
    /\ mode = "off"
    /\ \A p \in Part : Ok(flash[p])
    /\ ram' = flash[Loaded(flash)]
    /\ mode' = "up"
    /\ UNCHANGED <<flash, lock, flsLock, pc, call, usrVars>>

\* Fault: the damaged partition is loaded.
BootRepairLoadsDamaged ==
    /\ mode = "off"
    /\ \E p \in Part :
         /\ ~Ok(flash[p]) /\ Ok(flash[1 - p])
         /\ ram' = flash[p]
         /\ call' = [call EXCEPT ![Main] = BootCall(-1, p)]
    /\ mode' = "boot"
    /\ lock' = Main
    /\ pc' = [pc EXCEPT ![Main] = "seal"]
    /\ UNCHANGED <<flash, flsLock, usrVars>>

\* One damaged partition: load the other one, rewrite the damaged one.
BootRepair ==
    /\ mode = "off"
    /\ \E p \in Part :
         /\ ~Ok(flash[p]) /\ Ok(flash[1 - p])
         /\ ram' = flash[1 - p]
         /\ call' = [call EXCEPT ![Main] = BootCall(-1, p)]
    /\ mode' = "boot"
    /\ lock' = Main
    /\ pc' = [pc EXCEPT ![Main] = "seal"]
    /\ UNCHANGED <<flash, flsLock, usrVars>>

\* Nothing valid, also after erasing the restore sector and reading again:
\* write the factory defaults to both partitions with modify count 1.
BootDefault ==
    /\ mode = "off"
    /\ ~AnyValid(flash)
    /\ ram' = [RamCleared EXCEPT !.val = Factory]
    /\ call' = [call EXCEPT ![Main] = BootCall(1, 0)]
    /\ mode' = "boot"
    /\ lock' = Main
    /\ pc' = [pc EXCEPT ![Main] = "seal"]
    /\ UNCHANGED <<flash, flsLock, usrVars>>

\* No memory for the read buffer: TLS_PARAM_STATUS_EMEM with flash_param
\* cleared; task_start ignores the result.
BootNoMem ==
    /\ mode = "off"
    /\ "boot" \in HeapFails
    /\ ram' = RamCleared
    /\ mode' = "up"
    /\ UNCHANGED <<flash, lock, flsLock, pc, call, usrVars>>

Boot == BootLoad \/ BootRepair \/ BootDefault \/ BootNoMem

\* Power cut or reset: RAM, locks and tasks are gone, flash stays.
Crash ==
    /\ mode # "off"
    /\ mode' = "off"
    /\ ram' = RamCleared
    /\ lock' = NoTask
    /\ flsLock' = NoTask
    /\ pc' = [t \in Task |-> "idle"]
    /\ call' = [t \in Task |-> NoCall]
    /\ updp' = FALSE
    /\ usrRam' = Blank
    /\ UNCHANGED <<flash, usrFlash>>

-----------------------------------------------------------------------------
(* tls_param_set                                                           *)

Idle(t) == mode = "up" /\ pc[t] = "idle"

\* Before the lock: updp_mode decides which struct the value goes to, and
\* tls_param_user_param_init allocates that struct on first use.
SetCall(t, arg, toFlash) ==
    /\ Idle(t)
    /\ \E heap \in IF updp /\ usrRam = Blank THEN HeapOutcome("user") ELSE {TRUE} :
         IF heap
         THEN /\ usrRam' = IF updp /\ usrRam = Blank THEN Zero ELSE usrRam
              /\ pc' = [pc EXCEPT ![t] = "set"]
              /\ call' = [call EXCEPT ![t] =
                            [NoCall EXCEPT !.op = "set", !.arg = arg,
                                           !.toFlash = toFlash, !.usr = updp]]
         ELSE Returns(t, "EMEM") /\ UNCHANGED usrRam
    /\ UNCHANGED <<flash, ram, mode, lock, flsLock, updp, usrFlash>>

\* Fault: sys_param_lock is not taken.
SetApplyUnlocked(t) ==
    /\ pc[t] = "set"
    /\ call[t].toFlash => ram.count < MaxCount
    /\ ram' = [ram EXCEPT !.val = Assign(ram.val, call[t].arg)]
    /\ IF call[t].toFlash
       THEN pc' = [pc EXCEPT ![t] = "seal"] /\ UNCHANGED <<call, lock>>
       ELSE Returns(t, "OK") /\ UNCHANGED lock
    /\ UNCHANGED <<flash, mode, flsLock, usrVars>>

\* Under the lock: assign the fields; go on to param_to_flash when asked to
\* and updp_mode is off now.
SetApply(t) ==
    /\ pc[t] = "set"
    /\ lock = NoTask
    /\ call[t].toFlash => ram.count < MaxCount
    /\ IF call[t].usr
       THEN usrRam' = Assign(usrRam, call[t].arg) /\ UNCHANGED ram
       ELSE /\ ram' = [ram EXCEPT !.val = Assign(ram.val, call[t].arg)]
            /\ UNCHANGED usrRam
    /\ IF call[t].toFlash /\ ~updp
       THEN /\ lock' = t
            /\ pc' = [pc EXCEPT ![t] = "seal"]
            /\ UNCHANGED call
       ELSE Returns(t, "OK") /\ UNCHANGED lock
    /\ UNCHANGED <<flash, mode, flsLock, updp, usrFlash>>

-----------------------------------------------------------------------------
(* tls_param_to_flash(id): write the whole struct; for TLS_PARAM_ID_ALL     *)
(* only if it differs from what flash holds.                               *)

SaveCall(t, all) ==
    /\ Idle(t)
    /\ lock = NoTask
    /\ ram.count < MaxCount
    /\ lock' = t
    /\ pc' = [pc EXCEPT ![t] = IF all THEN "compare" ELSE "seal"]
    /\ call' = [call EXCEPT ![t] = [NoCall EXCEPT !.op = "save"]]
    /\ UNCHANGED <<flash, ram, mode, flsLock, usrVars>>

\* Fault: compares with the partition that is not in use.
CompareOther(t) ==
    /\ pc[t] = "compare"
    /\ flsLock = NoTask
    /\ IF flash[1 - ram.part].val = ram.val
       THEN Returns(t, "OK") /\ lock' = NoTask
       ELSE pc' = [pc EXCEPT ![t] = "seal"] /\ UNCHANGED <<call, lock>>
    /\ UNCHANGED <<flash, ram, mode, flsLock, usrVars>>

\* Fault: the early return keeps sys_param_lock.
CompareKeepsLock(t) ==
    /\ pc[t] = "compare"
    /\ flsLock = NoTask
    /\ IF flash[ram.part].val = ram.val
       THEN Returns(t, "OK") /\ UNCHANGED lock
       ELSE pc' = [pc EXCEPT ![t] = "seal"] /\ UNCHANGED <<call, lock>>
    /\ UNCHANGED <<flash, ram, mode, flsLock, usrVars>>

Compare(t) ==
    /\ pc[t] = "compare"
    /\ flsLock = NoTask
    /\ \E heap \in HeapOutcome("compare") :
         IF heap /\ flash[ram.part].val = ram.val
         THEN Returns(t, "OK") /\ lock' = NoTask
         ELSE pc' = [pc EXCEPT ![t] = "seal"] /\ UNCHANGED <<call, lock>>
    /\ UNCHANGED <<flash, ram, mode, flsLock, usrVars>>

-----------------------------------------------------------------------------
(* tls_param_get: the flash read comes before the lock is taken.           *)

GetCall(t, fromFlash) ==
    /\ Idle(t)
    /\ \E heap \in HeapOutcome("get") :
         /\ pc' = [pc EXCEPT ![t] = IF fromFlash /\ heap THEN "read" ELSE "copy"]
         /\ call' = [call EXCEPT ![t] = [NoCall EXCEPT !.op = "get",
                                           !.addr = ram.part,
                                           !.toFlash = fromFlash /\ heap]]
    /\ UNCHANGED <<flash, ram, mode, lock, flsLock, usrVars>>

\* Fault: tls_fls_read does not take fls_lock.
GetReadUnlocked(t) ==
    /\ pc[t] = "read"
    /\ call' = [call EXCEPT ![t].buf = flash[call[t].addr]]
    /\ pc' = [pc EXCEPT ![t] = "copy"]
    /\ UNCHANGED <<flash, ram, mode, lock, flsLock, usrVars>>

GetRead(t) ==
    /\ pc[t] = "read"
    /\ flsLock = NoTask
    /\ call' = [call EXCEPT ![t].buf = flash[call[t].addr]]
    /\ pc' = [pc EXCEPT ![t] = "copy"]
    /\ UNCHANGED <<flash, ram, mode, lock, flsLock, usrVars>>

GetCopy(t) ==
    /\ pc[t] = "copy"
    /\ lock = NoTask
    /\ Returns(t, "OK")
    /\ UNCHANGED <<flash, ram, mode, lock, flsLock, usrVars>>

-----------------------------------------------------------------------------
(* tls_param_to_default: load the factory defaults into RAM and write both *)
(* partitions with modify count 1, without taking sys_param_lock.          *)

\* Fault: both partitions are erased first.
DefaultErases(t) ==
    /\ Idle(t)
    /\ ram' = [ram EXCEPT !.val = Factory]
    /\ flash' = [p \in Part |-> Erased]
    /\ pc' = [pc EXCEPT ![t] = "seal"]
    /\ call' = [call EXCEPT ![t] = [NoCall EXCEPT !.op = "default",
                                      !.wcount = 1, !.wpart = 0]]
    /\ UNCHANGED <<mode, lock, flsLock, usrVars>>

DefaultCall(t) ==
    /\ Idle(t)
    /\ ram' = [ram EXCEPT !.val = Factory]
    /\ pc' = [pc EXCEPT ![t] = "seal"]
    /\ call' = [call EXCEPT ![t] = [NoCall EXCEPT !.op = "default",
                                      !.wcount = 1, !.wpart = 0]]
    /\ UNCHANGED <<flash, mode, lock, flsLock, usrVars>>

-----------------------------------------------------------------------------
(* User defaults: tls_param_set_updp_mode, tls_param_save_user,            *)
(* tls_param_save_user_default                                             *)

SetUpdpMode(m) ==
    /\ mode = "up"
    /\ updp' = m
    /\ UNCHANGED <<sysVars, usrRam, usrFlash>>

SaveStart(t) ==
    /\ pc' = [pc EXCEPT ![t] = "usrwrite"]
    /\ call' = [call EXCEPT ![t] = [NoCall EXCEPT !.op = "saveuser", !.step = 1]]

\* tls_param_save_user assigns fields of *user_default_param, then saves it.
SaveUser(t, arg) ==
    /\ Idle(t)
    /\ \E heap \in IF usrRam = Blank THEN HeapOutcome("user") ELSE {TRUE} :
         IF heap
         THEN /\ usrRam' = Assign(IF usrRam = Blank THEN Zero ELSE usrRam, arg)
              /\ SaveStart(t)
         ELSE Returns(t, "EMEM") /\ UNCHANGED usrRam
    /\ UNCHANGED <<flash, ram, mode, lock, flsLock, updp, usrFlash>>

\* tls_param_save_user_default called by itself (updp_proc).
SaveUserDefault(t) ==
    /\ Idle(t)
    /\ IF usrRam = Blank THEN Returns(t, "EMEM") ELSE SaveStart(t)
    /\ UNCHANGED <<flash, ram, mode, lock, flsLock, usrVars>>

\* Fault: the CRC is not written.
SaveStepNoCrc(t, err) ==
    IF call[t].step = 2
    THEN Returns(t, "OK")
    ELSE /\ pc' = [pc EXCEPT ![t] = "usrwrite"]
         /\ call' = [call EXCEPT ![t].step = @ + 1,
                                 ![t].ret = IF err = "OK" THEN @ ELSE err]

\* Three tls_fls_write calls (magic, struct, CRC), each a read, erase and
\* program of the same sector; err is the result of one of them.  It is
\* ignored: the next write is made, and OK returned, all the same.
SaveStep(t, err) ==
    IF call[t].step = 3
    THEN Returns(t, "OK")
    ELSE /\ pc' = [pc EXCEPT ![t] = "usrwrite"]
         /\ call' = [call EXCEPT ![t].step = @ + 1,
                                 ![t].ret = IF err = "OK" THEN @ ELSE err]

UserErase(t) ==
    /\ pc[t] = "usrwrite"
    /\ flsLock = NoTask
    /\ flsLock' = t
    /\ call' = [call EXCEPT ![t].usrBuf = usrFlash]
    /\ usrFlash' = UsrErased
    /\ pc' = [pc EXCEPT ![t] = "usrprogram"]
    /\ UNCHANGED <<flash, ram, mode, lock, updp, usrRam>>

UserNoMem(t) ==
    /\ pc[t] = "usrwrite"
    /\ "usrwrite" \in HeapFails
    /\ flsLock = NoTask
    /\ SaveStep(t, "EIO")
    /\ UNCHANGED <<flash, ram, mode, lock, flsLock, usrVars>>

UserProgram(t) ==
    /\ pc[t] = "usrprogram"
    /\ usrFlash' = CASE call[t].step = 1 -> [call[t].usrBuf EXCEPT !.magic = TRUE]
                     [] call[t].step = 2 -> [call[t].usrBuf EXCEPT !.val = usrRam]
                     [] call[t].step = 3 -> [call[t].usrBuf EXCEPT !.crc = usrRam]
    /\ flsLock' = NoTask
    /\ SaveStep(t, "OK")
    /\ UNCHANGED <<flash, ram, mode, lock, updp, usrRam>>

-----------------------------------------------------------------------------
(* Specifications                                                          *)

TaskStep(t) ==
    \/ ParamToFlash(t) \/ SetApply(t) \/ Compare(t) \/ GetRead(t) \/ GetCopy(t)

CoreCall(t) ==
    \/ \E arg \in Arg, b \in BOOLEAN : SetCall(t, arg, b)
    \/ \E b \in BOOLEAN : SaveCall(t, b) \/ GetCall(t, b)

\* Boot, set, get, save and power cuts.
CoreNext ==
    \/ Boot \/ Crash
    \/ \E t \in Task : CoreCall(t) \/ TaskStep(t)

CoreSpec == Init /\ [][CoreNext]_vars

\* The same with the reset to factory defaults.
ResetNext == CoreNext \/ \E t \in Task : DefaultCall(t)

ResetSpec == Init /\ [][ResetNext]_vars

UserStep(t) == UserErase(t) \/ UserNoMem(t) \/ UserProgram(t)

\* The core with the user defaults.
UserNext ==
    \/ CoreNext
    \/ \E t \in Task : UserStep(t) \/ SaveUserDefault(t)
    \/ \E t \in Task, arg \in Arg : SaveUser(t, arg)
    \/ \E m \in BOOLEAN : SetUpdpMode(m)

UserSpec == Init /\ [][UserNext]_vars

\* The whole API.
Next == ResetNext \/ UserNext

Spec == Init /\ [][Next]_vars

\* Every task that can run is eventually run, and one that waits for a
\* semaphore others keep releasing eventually gets it.  A FreeRTOS semaphore
\* goes to the waiter of the highest priority, the longest waiting one first;
\* the assumption is that tasks of higher priority pause between their calls.
FairResetSpec == ResetSpec /\ \A t \in Task : SF_vars(TaskStep(t))

-----------------------------------------------------------------------------
(* Types                                                                   *)

ImageSet == [part : Part, count : Nat, val : Params \cup {Blank}]

Sector == [magic : BOOLEAN, part : Part, count : Nat,
           val : Params \cup {Blank}, crc : ImageSet]

UsrSector == [magic : BOOLEAN, val : Params \cup {Blank}, crc : Params \cup {Blank}]

Call == [op : {"none", "boot", "set", "save", "get", "default", "saveuser"},
         arg : Arg, toFlash : BOOLEAN, usr : BOOLEAN, wcount : {-1, 1},
         wpart : {-1, 0, 1}, addr : Part, buf : Sector, usrBuf : UsrSector,
         step : 0 .. 3, ret : {"OK", "EIO", "EMEM"}]

Stage == {"idle", "set", "seal", "write", "program", "verify", "compare",
          "read", "copy", "usrwrite", "usrprogram"}

\* Every variable of the store keeps its type; in particular flash_param
\* always holds real parameters, never the contents of an erased sector.
TypeOK ==
    /\ flash \in [Part -> Sector]
    /\ ram \in Sector /\ ram.val \in Params
    /\ mode \in {"off", "boot", "up"}
    /\ lock \in Task \cup {NoTask}
    /\ flsLock \in Task \cup {NoTask}
    /\ pc \in [Task -> Stage]
    /\ call \in [Task -> Call]
    /\ updp \in BOOLEAN
    /\ usrRam \in Params \cup {Blank}
    /\ usrFlash \in UsrSector
=============================================================================
