-------------------------- MODULE ParamProperties --------------------------
(***************************************************************************)
(* The correctness properties of the parameter store, and the inductive    *)
(* invariant behind them.                                                  *)
(***************************************************************************)
EXTENDS ParamStore

\* The modify count does not wrap around, and no allocation fails.
NoWrap == MaxCount < CountMod
NoHeapFailure == HeapFails = {}

\* Nobody is inside param_to_flash, between the choice of the partition and
\* the end of the programming.
Writing(t) == pc[t] \in {"seal", "write", "program", "verify"}

-----------------------------------------------------------------------------
(* Safety                                                                  *)

\* Once tls_param_init has returned, one of the two partitions always passes
\* the magic and CRC test, also in the middle of an update: wherever the power
\* is cut, the next tls_param_init finds parameters and does not fall back to
\* the factory defaults.
NeverLoseBoth == mode = "up" => AnyValid(flash)

\* The buffer a tls_param_get from flash is about to copy from holds a
\* complete image, although the read is made outside sys_param_lock and
\* without a CRC test while another task may be rewriting that partition.
GetNeverTorn ==
    \A t \in Task :
        pc[t] = "copy" /\ call[t].op = "get" /\ call[t].toFlash => Ok(call[t].buf)

\* When nobody is writing, the partition flash_param.partition_num names is the
\* one a reboot would load and holds the last count that was given out: the
\* next update overwrites the other, older partition.
NextWriteHitsOlder ==
    mode = "up" /\ (\A t \in Task : ~Writing(t)) =>
        /\ Ok(flash[ram.part]) /\ flash[ram.part].count = ram.count
        /\ flash[ram.part].val = Recovered(flash)

\* A task's call ends in this step with result r.
Ends(t, r) == pc[t] # "idle" /\ pc'[t] = "idle" /\ call'[t].ret = r /\ mode' = "up"

\* tls_param_set(.., to_flash = 1) returns TLS_PARAM_STATUS_OK only when a
\* reboot at that moment would come up with the fields it was given.
SetDurable ==
    [][\A t \in Task :
         call[t].op = "set" /\ call[t].toFlash /\ Ends(t, "OK") =>
           \A i \in DOMAIN call[t].arg : Recovered(flash')[i] = call[t].arg[i]]_vars

\* tls_param_to_flash returns TLS_PARAM_STATUS_OK only when a reboot at that
\* moment would come up with the parameters that are in RAM, whether it wrote
\* them or found flash unchanged.
SaveDurable ==
    [][\A t \in Task :
         call[t].op = "save" /\ Ends(t, "OK") => Recovered(flash') = ram.val]_vars

\* What a reboot would load changes only by becoming what is in RAM: an update
\* cut short leaves the previous parameters, never older ones.
Atomic == INSTANCE AtomicParam WITH
    Struct <- Params, Default <- Factory, durable <- Recovered(flash),
    mem <- IF mode = "off" THEN Recovered(flash) ELSE ram.val

\* The store implements the atomic one: param_to_flash takes effect in the
\* step that completes the programming, and a power cut anywhere in it, in the
\* repair of a damaged partition or in the first boot is a Restart.
ImplementsAtomic == Atomic!Spec

\* tls_param_to_default returns TLS_PARAM_STATUS_OK only when a reboot at that
\* moment would come up with the defaults that the reset has put into RAM,
\* whatever counts flash held before: the factory settings, at least when the
\* user has saved no valid defaults (what is to happen otherwise: DefaultReadsUser).
DefaultDurable ==
    [][\A t \in Task :
         call[t].op = "default" /\ Ends(t, "OK") =>
           /\ Recovered(flash') = ram'.val
           /\ ~UserValid(usrFlash) => Recovered(flash') = Factory]_vars

\* When tls_param_save_user_default has made its three writes, tls_param_load_user
\* accepts the sector and finds the saved parameters, whatever the sector held
\* before (an older version, or the rest of a save the power cut short).
UserSaveDurable ==
    [][\A t \in Task :
         /\ call[t].op = "saveuser" /\ pc[t] = "usrprogram"
         /\ call[t].ret = "OK" /\ Ends(t, "OK")
         => UserValid(usrFlash') /\ usrFlash'.val = usrRam]_vars

-----------------------------------------------------------------------------
(* Liveness                                                                *)

\* Every call returns: nobody waits for ever on sys_param_lock or fls_lock.
CallsReturn == \A t \in Task : pc[t] # "idle" ~> pc[t] = "idle"

-----------------------------------------------------------------------------
(* The inductive invariant of CoreSpec, for a heap that never fails and a  *)
(* count that does not wrap.                                               *)

\* TypeOK, with what the sectors and pointers hold when they are used.
TypeInv ==
    /\ TypeOK
    /\ \A p \in Part : flash[p].magic => flash[p].val \in Params
    /\ \A t \in Task :
         /\ pc[t] = "set" /\ call[t].usr => usrRam \in Params
         /\ pc[t] \in {"usrwrite", "usrprogram"} =>
              usrRam \in Params /\ call[t].step \in 1 .. 3

\* Where a task holds sys_param_lock.
Locked == {"seal", "write", "program", "verify", "compare"}

\* sys_param_lock and fls_lock exclude, and every call is one of the core.
LockInv ==
    /\ lock # NoTask => pc[lock] \in Locked
    /\ flsLock # NoTask => pc[flsLock] = "program"
    /\ mode = "boot" => lock = Main /\ call[Main].op = "boot"
    /\ mode = "off" => \A t \in Task : pc[t] = "idle"
    /\ updp = FALSE
    /\ \A t \in Task :
         /\ pc[t] \in Locked => lock = t /\ call[t].op \in {"boot", "set", "save"}
         /\ pc[t] = "program" => flsLock = t
         /\ pc[t] \notin {"usrwrite", "usrprogram"}
         /\ pc[t] \in Locked /\ call[t].op = "boot" => mode = "boot" /\ t = Main
         /\ pc[t] = "compare" => call[t].op = "save"
         /\ pc[t] # "idle" /\ call[t].op # "boot" =>
              /\ mode = "up"
              /\ call[t].wcount = -1 /\ call[t].wpart = -1 /\ ~call[t].usr
         /\ pc[t] = "set" => call[t].op = "set"
         /\ pc[t] \in {"read", "copy"} => call[t].op = "get"
         /\ pc[t] # "idle" /\ call[t].wcount = 1 => call[t].wpart \in Part
         /\ pc[t] # "idle" /\ call[t].op = "boot" => pc[t] \in Locked

\* A partition that passes the test was written whole, where it belongs.
SectorInv ==
    /\ \A p \in Part : Ok(flash[p]) =>
         /\ flash[p].part = p /\ flash[p].val \in Params
         /\ flash[p].count \in 1 .. MaxCount
    /\ \A p \in Part : Ok(flash[p]) /\ ~Ok(flash[1 - p]) => flash[p].count < MaxCount
    /\ mode = "up" /\ flsLock = NoTask => \A p \in Part : Ok(flash[p])
    /\ (\A p \in Part : Ok(flash[p])) /\ flash[0].count = flash[1].count =>
         flash[0].val = flash[1].val

\* Partition p, if it is valid, gives way to partition 1 - p in tls_param_init.
GivesWay(p) ==
    Ok(flash[p]) =>
        \/ flash[p].count < flash[1 - p].count
        \/ flash[p].count = flash[1 - p].count /\ flash[p].val = flash[1 - p].val

\* Flash is up to date with flash_param's header.
Settled ==
    /\ Ok(flash[ram.part]) /\ flash[ram.part].count = ram.count
    /\ GivesWay(1 - ram.part)

\* An update has been sealed for partition ram.part; the other one is what a
\* reboot would load.
Sealed ==
    /\ Ok(ram) /\ ram.count \in 1 .. MaxCount
    /\ Ok(flash[1 - ram.part]) /\ flash[1 - ram.part].count = ram.count - 1
    /\ GivesWay(ram.part)

\* The two writes of the factory defaults by tls_param_init.
FirstBoot(t) ==
    /\ Ok(ram) /\ ram.part = call[t].wpart /\ ram.count = 1 /\ ram.val = Factory
    /\ ram.part = 0 => ~Ok(flash[1])
    /\ ram.part = 1 => Ok(flash[0]) /\ flash[0].count = 1 /\ flash[0].val = Factory

\* What each stage of param_to_flash finds in flash.
StageInv(t) ==
    LET first == call[t].wcount = 1
    IN /\ pc[t] = "compare" => Settled /\ ram.count < MaxCount
       /\ pc[t] = "seal" /\ ~first =>
            /\ Settled /\ ram.count < MaxCount
            /\ call[t].wpart \in {-1, 1 - ram.part}
       /\ pc[t] = "seal" /\ first =>
            /\ ram.val = Factory /\ ~Ok(flash[1])
            /\ call[t].wpart = 0 => ~Ok(flash[0])
            /\ call[t].wpart = 1 => Ok(flash[0]) /\ flash[0].count = 1
                                     /\ flash[0].val = Factory
       /\ pc[t] \in {"write", "program"} =>
            /\ call[t].addr = ram.part
            /\ IF first THEN FirstBoot(t) /\ ~Ok(flash[ram.part]) ELSE Sealed
       /\ pc[t] = "program" => flash[ram.part] = Erased
       /\ pc[t] = "verify" =>
            /\ flash[ram.part] = ram
            /\ IF first THEN FirstBoot(t)
               ELSE Ok(ram) /\ Settled /\ Ok(flash[1 - ram.part])
       /\ pc[t] \in Locked /\ first => ram.val = Factory

DurabilityInv ==
    /\ mode = "up" /\ lock = NoTask => Settled
    /\ \A t \in Task : StageInv(t)

\* What tls_param_get read from flash is whole.
BufInv ==
    \A t \in Task : pc[t] = "copy" /\ call[t].toFlash => Ok(call[t].buf)

\* The fields a set was given are in flash_param while it writes them.
ArgInv ==
    \A t \in Task :
        pc[t] \in Locked /\ call[t].op = "set" =>
            \A i \in DOMAIN call[t].arg : ram.val[i] = call[t].arg[i]

\* Together they are inductive: the locks order the writers, each stage of a
\* write leaves the partition a reboot loads untouched, and the sealed count
\* is one above it.
IInv == TypeInv /\ LockInv /\ SectorInv /\ DurabilityInv /\ BufInv /\ ArgInv

-----------------------------------------------------------------------------
(* What the documentation says and the code does not do                    *)

\* tls_param_init: "Load the latest parameters".  What it would load is what
\* the partition that was written last holds.
LoadsLatest ==
    mode = "up" /\ (\A t \in Task : ~Writing(t)) =>
        Recovered(flash) = flash[ram.part].val

\* tls_param_to_default: "This function read user defined parameters first, if
\* wrong, all the parameters restore factory settings".  With valid user
\* defaults in flash, a reboot after the reset would come up with them.
DefaultReadsUser ==
    [][\A t \in Task :
         call[t].op = "default" /\ Ends(t, "OK") /\ UserValid(usrFlash) =>
           Recovered(flash') = usrFlash.val]_vars
=============================================================================
