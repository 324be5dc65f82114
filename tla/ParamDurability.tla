-------------------------- MODULE ParamDurability --------------------------
(***************************************************************************)
(* Proofs of the durability of the parameter store: CoreSpec keeps IInv,   *)
(* and IInv gives the safety properties and the refinement of AtomicParam. *)
(* The assumptions are the ones the code needs: no allocation fails        *)
(* (NoHeapFailure) and the modify count does not wrap (NoWrap).  What is   *)
(* left when allocations fail, and what the calls without a lock promise   *)
(* to a single task, follows from weaker invariants.                       *)
(***************************************************************************)
EXTENDS ParamProofs

\* The fields of the calls that the core starts with.
LEMMA StartFields ==
    /\ NoCall.op = "none" /\ NoCall.wcount = -1 /\ NoCall.wpart = -1
    /\ NoCall.usr = FALSE /\ NoCall.toFlash = FALSE
    /\ \A w \in {-1, 1}, p \in Part : LET d == BootCall(w, p) IN
         d.op = "boot" /\ d.wcount = w /\ d.wpart = p
    /\ \A arg \in Arg, b \in BOOLEAN, u \in BOOLEAN :
         LET d == [NoCall EXCEPT !.op = "set", !.arg = arg, !.toFlash = b, !.usr = u]
         IN  /\ d.op = "set" /\ d.arg = arg /\ d.toFlash = b /\ d.usr = u
             /\ d.wcount = -1 /\ d.wpart = -1
    /\ LET d == [NoCall EXCEPT !.op = "save"] IN
         d.op = "save" /\ d.wcount = -1 /\ d.wpart = -1 /\ d.usr = FALSE
    /\ \A p \in Part, b \in BOOLEAN :
         LET d == [NoCall EXCEPT !.op = "get", !.addr = p, !.toFlash = b]
         IN  /\ d.op = "get" /\ d.addr = p /\ d.toFlash = b
             /\ d.wcount = -1 /\ d.wpart = -1 /\ d.usr = FALSE
<1>1. NoCall \in Call
  BY RecordTypes
<1>2. /\ NoCall.op = "none" /\ NoCall.wcount = -1 /\ NoCall.wpart = -1
      /\ NoCall.usr = FALSE /\ NoCall.toFlash = FALSE
  BY DEF NoCall
<1>3. ASSUME NEW w \in {-1, 1}, NEW p \in Part
      PROVE  LET d == BootCall(w, p) IN d.op = "boot" /\ d.wcount = w /\ d.wpart = p
  BY <1>1 DEF BootCall, Call
<1>4. ASSUME NEW arg \in Arg, NEW b \in BOOLEAN, NEW u \in BOOLEAN
      PROVE  LET d == [NoCall EXCEPT !.op = "set", !.arg = arg, !.toFlash = b, !.usr = u]
             IN  /\ d.op = "set" /\ d.arg = arg /\ d.toFlash = b /\ d.usr = u
                 /\ d.wcount = -1 /\ d.wpart = -1
  BY <1>1, <1>2 DEF Call
<1>5. LET d == [NoCall EXCEPT !.op = "save"] IN
         d.op = "save" /\ d.wcount = -1 /\ d.wpart = -1 /\ d.usr = FALSE
  BY <1>1, <1>2 DEF Call
<1>6. ASSUME NEW p \in Part, NEW b \in BOOLEAN
      PROVE  LET d == [NoCall EXCEPT !.op = "get", !.addr = p, !.toFlash = b]
             IN  /\ d.op = "get" /\ d.addr = p /\ d.toFlash = b
                 /\ d.wcount = -1 /\ d.wpart = -1 /\ d.usr = FALSE
  BY <1>1, <1>2 DEF Call
<1> QED
  BY <1>2, <1>3, <1>4, <1>5, <1>6

USE DEF Part

\* A core step that is not one of the tasks' keeps the user defaults out.
LEMMA CoreIsNext == CoreNext => Next
BY DEF Next, ResetNext

\* Without heap failures the two failing branches are never taken.
LEMMA HeapNeverFails ==
    ASSUME NoHeapFailure
    PROVE  /\ \A site : HeapOutcome(site) = {TRUE}
           /\ ~BootNoMem /\ \A t \in Task : ~WriteNoMem(t)
BY DEF NoHeapFailure, HeapOutcome, BootNoMem, WriteNoMem

\* The locks exclude, and a call of the core stays one.
LEMMA LockStep ==
    ASSUME TypeInv, LockInv, CoreNext
    PROVE  LockInv'
<1>a. /\ pc \in [Task -> Stage] /\ call \in [Task -> Call] /\ Main \in Task
      /\ NoTask \notin Task /\ lock \in Task \cup {NoTask}
      /\ flsLock \in Task \cup {NoTask} /\ \A t \in Task : call[t] \in Call
  BY ParamAssumption DEF TypeInv, TypeOK
<1>c. ram.part \in Part /\ \A p \in Part : flash[p] \in Sector
  BY DEF TypeInv, TypeOK, Sector
<1>b. ASSUME NEW t \in Task
      PROVE  call[t].wcount \in {-1, 1} /\ call[t].wpart \in {-1, 0, 1} /\ call[t].addr \in Part
  BY <1>a DEF Call
<1>r. ASSUME NEW t \in Task, NEW r \in {"OK", "EIO"}, Returns(t, r)
      PROVE  pc'[t] = "idle" /\ \A u \in Task \ {t} : pc'[u] = pc[u] /\ call'[u] = call[u]
  BY <1>a, <1>r DEF Returns
<1>f. ASSUME NEW t \in Task, NEW r \in {"OK", "EIO"}, Finish(t, r), pc[t] \in Locked,
             flsLock = NoTask, UNCHANGED <<flsLock, usrVars>>
      PROVE  LockInv'
  <2>1. pc'[t] = "idle" /\ \A u \in Task \ {t} : pc'[u] = pc[u] /\ call'[u] = call[u]
    BY <1>f, <1>r DEF Finish
  <2>2. lock' = NoTask /\ mode' = IF call[t].op = "boot" THEN "up" ELSE mode
    BY <1>f DEF Finish, LockInv
  <2>3. mode' = "up" /\ lock = t
    BY <1>f, <2>2 DEF LockInv, Locked
  <2> QED
    BY <1>f, <2>1, <2>2, <2>3, <1>a DEF LockInv, Locked, usrVars
<1>1. ASSUME NEW t \in Task, Seal(t) PROVE LockInv'
  <2> DEFINE p == IF call[t].wpart < 0 THEN 1 - ram.part ELSE call[t].wpart
             d == [call[t] EXCEPT !.addr = p]
  <2>1. p \in Part
    BY <1>b, <1>c
  <2>2. call' = [call EXCEPT ![t] = d]
    BY <1>1 DEF Seal
  <2>3. d.op = call[t].op /\ d.wcount = call[t].wcount /\ d.wpart = call[t].wpart
        /\ d.usr = call[t].usr
    BY <1>a, <2>1, CallEdits
  <2> HIDE DEF d
  <2>4. \A u \in Task : /\ call'[u].op = call[u].op /\ call'[u].wcount = call[u].wcount
                        /\ call'[u].wpart = call[u].wpart /\ call'[u].usr = call[u].usr
    BY <1>a, <2>2, <2>3
  <2> QED
    BY <1>1, <1>a, <2>4 DEF Seal, LockInv, Locked, usrVars
<1>2. ASSUME NEW t \in Task, WriteErase(t) PROVE LockInv'
  BY <1>2, <1>a DEF WriteErase, LockInv, Locked, usrVars
<1>3. ASSUME NEW t \in Task, Program(t) PROVE LockInv'
  BY <1>3, <1>a DEF Program, LockInv, Locked, usrVars
<1>4. ASSUME NEW t \in Task, Verify(t) PROVE LockInv'
  <2>1. /\ UNCHANGED <<flash, flsLock, usrVars>> /\ flsLock = NoTask
        /\ pc[t] = "verify" /\ lock = t
    BY <1>4 DEF Verify, LockInv, Locked
  <2>2. CASE \E r \in {"OK", "EIO"} : Finish(t, r)
    BY <1>f, <2>1, <2>2 DEF Locked
  <2>3. CASE /\ call[t].wcount = 1 /\ call[t].wpart = 0
             /\ call' = [call EXCEPT ![t].wpart = 1]
             /\ pc' = [pc EXCEPT ![t] = "seal"]
             /\ UNCHANGED <<ram, mode, lock>>
    <3> DEFINE d == [call[t] EXCEPT !.wpart = 1]
    <3>1. d.op = call[t].op /\ d.wcount = call[t].wcount /\ d.wpart = 1 /\ d.usr = call[t].usr
      BY <1>a, CallEdits
    <3>2. call' = [call EXCEPT ![t] = d]
      BY <2>3
    <3> HIDE DEF d
    <3>3. /\ \A u \in Task : call'[u].op = call[u].op /\ call'[u].wcount = call[u].wcount
                             /\ call'[u].usr = call[u].usr
          /\ call'[t].wpart = 1 /\ \A u \in Task \ {t} : call'[u] = call[u]
      BY <1>a, <3>1, <3>2
    <3>4. call[t].op = "boot"
      BY <2>1, <2>3 DEF LockInv
    <3> QED
      BY <1>a, <2>1, <2>3, <3>3, <3>4 DEF LockInv, Locked, usrVars
  <2> QED
    BY <1>4, <2>2, <2>3 DEF Verify
<1>5. ASSUME Boot PROVE LockInv'
  <2>1. mode = "off" /\ \A u \in Task : pc[u] = "idle"
    BY <1>5 DEF Boot, BootLoad, BootRepair, BootDefault, BootNoMem, LockInv
  <2>2. lock = NoTask /\ flsLock = NoTask
    BY <1>a, <2>1 DEF LockInv, Locked
  <2>3. CASE BootLoad \/ BootNoMem
    BY <2>1, <2>2, <2>3 DEF BootLoad, BootNoMem, LockInv, usrVars
  <2>4. ASSUME NEW w \in {-1, 1}, NEW p \in Part,
               call' = [call EXCEPT ![Main] = BootCall(w, p)],
               mode' = "boot", lock' = Main, pc' = [pc EXCEPT ![Main] = "seal"],
               UNCHANGED <<flash, flsLock, usrVars>>
        PROVE  LockInv'
    <3>1. BootCall(w, p).op = "boot" /\ BootCall(w, p).wcount = w /\ BootCall(w, p).wpart = p
      BY StartFields
    <3>2. call'[Main].op = "boot" /\ call'[Main].wpart = p
      BY <1>a, <2>4, <3>1
    <3>3. pc'[Main] = "seal" /\ \A u \in Task \ {Main} : pc'[u] = "idle"
      BY <1>a, <2>1, <2>4
    <3> QED
      BY <1>a, <2>2, <2>4, <3>2, <3>3 DEF LockInv, Locked, usrVars
  <2>5. CASE BootRepair
    BY <2>4, <2>5 DEF BootRepair
  <2>6. CASE BootDefault
    BY <2>4, <2>6 DEF BootDefault
  <2> QED
    BY <1>5, <2>3, <2>5, <2>6 DEF Boot
<1>6. ASSUME Crash PROVE LockInv'
  BY <1>6, <1>a DEF Crash, LockInv, Locked
<1>7. ASSUME NEW t \in Task, NEW arg \in Arg, NEW b \in BOOLEAN, SetCall(t, arg, b)
      PROVE  LockInv'
  <2> DEFINE d == [NoCall EXCEPT !.op = "set", !.arg = arg, !.toFlash = b, !.usr = updp]
  <2>1. updp = FALSE /\ pc[t] = "idle" /\ mode = "up"
    BY <1>7 DEF LockInv, SetCall, Idle
  <2>2. call' = [call EXCEPT ![t] = d] /\ pc' = [pc EXCEPT ![t] = "set"]
    BY <1>7, <2>1 DEF SetCall
  <2>3. d.op = "set" /\ d.usr = FALSE /\ d.wcount = -1 /\ d.wpart = -1
    BY <2>1, StartFields
  <2> HIDE DEF d
  <2>4. /\ pc'[t] = "set" /\ call'[t] = d
        /\ \A u \in Task \ {t} : pc'[u] = pc[u] /\ call'[u] = call[u]
    BY <1>a, <2>2
  <2> QED
    <3>1. UNCHANGED <<mode, lock, flsLock, updp>>
      BY <1>7 DEF SetCall
    <3> QED
      BY <1>a, <2>1, <2>3, <2>4, <3>1 DEF LockInv, Locked
<1>8. ASSUME NEW t \in Task, SetApply(t) PROVE LockInv'
  <2>1. CASE call[t].toFlash /\ ~updp
    BY <1>8, <1>a, <2>1 DEF SetApply, LockInv, Locked
  <2>2. CASE ~(call[t].toFlash /\ ~updp)
    <3>1. pc'[t] = "idle" /\ \A u \in Task \ {t} : pc'[u] = pc[u] /\ call'[u] = call[u]
      BY <1>8, <1>r, <2>2 DEF SetApply
    <3> QED
      BY <1>8, <1>a, <2>2, <3>1 DEF SetApply, LockInv, Locked
  <2> QED
    BY <2>1, <2>2
<1>9. ASSUME NEW t \in Task, NEW b \in BOOLEAN, SaveCall(t, b) PROVE LockInv'
  <2> DEFINE d == [NoCall EXCEPT !.op = "save"]
  <2>1. d.op = "save" /\ d.wcount = -1 /\ d.wpart = -1 /\ d.usr = FALSE
    BY StartFields
  <2>2. call' = [call EXCEPT ![t] = d]
    BY <1>9 DEF SaveCall
  <2> HIDE DEF d
  <2>3. /\ pc'[t] \in {"compare", "seal"} /\ call'[t] = d
        /\ \A u \in Task \ {t} : pc'[u] = pc[u] /\ call'[u] = call[u]
    BY <1>9, <1>a, <2>2 DEF SaveCall
  <2> QED
    <3>1. /\ lock = NoTask /\ lock' = t /\ mode = "up" /\ pc[t] = "idle"
          /\ UNCHANGED <<mode, flsLock, updp>>
      BY <1>9 DEF SaveCall, Idle, usrVars
    <3> QED
      BY <1>a, <2>1, <2>3, <3>1 DEF LockInv, Locked
<1>10. ASSUME NEW t \in Task, Compare(t) PROVE LockInv'
  <2>1. CASE Returns(t, "OK") /\ lock' = NoTask
    <3>1. pc'[t] = "idle" /\ \A u \in Task \ {t} : pc'[u] = pc[u] /\ call'[u] = call[u]
      BY <1>r, <2>1
    <3> QED
      BY <1>10, <1>a, <2>1, <3>1 DEF Compare, LockInv, Locked, usrVars
  <2>2. CASE pc' = [pc EXCEPT ![t] = "seal"] /\ UNCHANGED <<call, lock>>
    BY <1>10, <1>a, <2>2 DEF Compare, LockInv, Locked, usrVars
  <2> QED
    BY <1>10, <2>1, <2>2 DEF Compare
<1>11. ASSUME NEW t \in Task, NEW b \in BOOLEAN, GetCall(t, b) PROVE LockInv'
  <2>1. PICK heap \in BOOLEAN :
         /\ pc' = [pc EXCEPT ![t] = IF b /\ heap THEN "read" ELSE "copy"]
         /\ call' = [call EXCEPT ![t] = [NoCall EXCEPT !.op = "get",
                                           !.addr = ram.part, !.toFlash = b /\ heap]]
    BY <1>11 DEF GetCall, HeapOutcome
  <2> DEFINE d == [NoCall EXCEPT !.op = "get", !.addr = ram.part, !.toFlash = b /\ heap]
  <2>2. (b /\ heap) \in BOOLEAN
    OBVIOUS
  <2>3. d.op = "get" /\ d.wcount = -1 /\ d.wpart = -1 /\ d.usr = FALSE
    BY <1>c, <2>2, StartFields
  <2>4. call' = [call EXCEPT ![t] = d]
    BY <2>1
  <2> HIDE DEF d
  <2>5. /\ pc'[t] \in {"read", "copy"} /\ call'[t] = d
        /\ \A u \in Task \ {t} : pc'[u] = pc[u] /\ call'[u] = call[u]
    BY <1>a, <2>1, <2>4
  <2> QED
    <3>1. /\ mode = "up" /\ pc[t] = "idle" /\ UNCHANGED <<mode, lock, flsLock, updp>>
      BY <1>11 DEF GetCall, Idle, usrVars
    <3> QED
      BY <1>a, <2>3, <2>5, <3>1 DEF LockInv, Locked
<1>12. ASSUME NEW t \in Task, GetRead(t) PROVE LockInv'
  <2> DEFINE d == [call[t] EXCEPT !.buf = flash[call[t].addr]]
  <2>1. d.op = call[t].op /\ d.wcount = call[t].wcount /\ d.wpart = call[t].wpart
        /\ d.usr = call[t].usr
    BY <1>a, <1>b, <1>c, CallEdits
  <2>2. call' = [call EXCEPT ![t] = d]
    BY <1>12 DEF GetRead
  <2> HIDE DEF d
  <2>3. /\ pc'[t] = "copy" /\ call'[t] = d
        /\ \A u \in Task \ {t} : pc'[u] = pc[u] /\ call'[u] = call[u]
    BY <1>12, <1>a, <2>2 DEF GetRead
  <2> QED
    BY <1>12, <1>a, <2>1, <2>3 DEF GetRead, LockInv, Locked, usrVars
<1>13. ASSUME NEW t \in Task, GetCopy(t) PROVE LockInv'
  <2>1. pc'[t] = "idle" /\ \A u \in Task \ {t} : pc'[u] = pc[u] /\ call'[u] = call[u]
    BY <1>13, <1>r DEF GetCopy
  <2> QED
    BY <1>13, <1>a, <2>1 DEF GetCopy, LockInv, Locked, usrVars
<1>14. ASSUME NEW t \in Task, WriteNoMem(t) PROVE LockInv'
  BY <1>14, <1>f DEF WriteNoMem, Locked
<1> QED
  BY <1>1, <1>2, <1>3, <1>4, <1>5, <1>6, <1>7, <1>8, <1>9, <1>10, <1>11, <1>12, <1>13,
     <1>14 DEF CoreNext, CoreCall, TaskStep, ParamToFlash

\* An erased sector fails the test of tls_param_init.
LEMMA ErasedBad == ~Ok(Erased)
BY DEF Ok, Erased

\* What a task about to write, or that has just written, knows.
LEMMA WriterFacts ==
    ASSUME TypeInv, LockInv, DurabilityInv, NEW t \in Task, pc[t] \in Locked
    PROVE  /\ lock = t /\ ram.part \in Part /\ ram.count \in Nat /\ ram.val \in Params
           /\ ram \in Sector /\ call[t] \in Call
           /\ call[t].wcount \in {-1, 1} /\ call[t].wpart \in {-1, 0, 1}
           /\ call[t].wcount = 1 => call[t].wpart \in Part /\ call[t].op = "boot"
           /\ call[t].op = "boot" => mode = "boot"
           /\ call[t].op # "boot" => mode = "up" /\ call[t].wpart = -1
           /\ \A u \in Task \ {t} : pc[u] \notin Locked
           /\ StageInv(t)
<1>1. ram \in Sector /\ ram.val \in Params /\ call[t] \in Call
  BY DEF TypeInv, TypeOK
<1>2. ram.part \in Part /\ ram.count \in Nat
  BY <1>1 DEF Sector
<1>3. call[t].wcount \in {-1, 1} /\ call[t].wpart \in {-1, 0, 1}
  BY <1>1 DEF Call
<1>4. /\ lock = t /\ (call[t].op = "boot" => mode = "boot")
      /\ call[t].op # "boot" => mode = "up" /\ call[t].wpart = -1 /\ call[t].wcount = -1
      /\ call[t].wcount = 1 => call[t].wpart \in Part
      /\ \A u \in Task \ {t} : pc[u] \notin Locked
  BY DEF LockInv, Locked
<1> QED
  BY <1>1, <1>2, <1>3, <1>4 DEF DurabilityInv

\* The verification after a write succeeds when no allocation fails.
LEMMA VerifySucceeds ==
    ASSUME TypeInv, LockInv, DurabilityInv, NoHeapFailure, NEW t \in Task, Verify(t)
    PROVE  /\ pc[t] = "verify" /\ UNCHANGED <<flash, flsLock, usrVars>>
           /\ IF call[t].wcount = 1 /\ call[t].wpart = 0
              THEN /\ call' = [call EXCEPT ![t].wpart = 1]
                   /\ pc' = [pc EXCEPT ![t] = "seal"]
                   /\ UNCHANGED <<ram, mode, lock>>
              ELSE /\ Returns(t, "OK") /\ lock' = NoTask /\ UNCHANGED ram
                   /\ mode' = IF call[t].op = "boot" THEN "up" ELSE mode
<1>1. pc[t] = "verify" /\ UNCHANGED <<flash, flsLock, usrVars>>
  BY DEF Verify
<1>2. flash[ram.part] = ram
  BY <1>1 DEF DurabilityInv, StageInv
<1>3. \A same \in VerifyOutcome : same = TRUE
  BY <1>2 DEF VerifyOutcome, HeapOutcome, NoHeapFailure
<1>4. IF call[t].wcount = 1 /\ call[t].wpart = 0
      THEN /\ call' = [call EXCEPT ![t].wpart = 1]
           /\ pc' = [pc EXCEPT ![t] = "seal"]
           /\ UNCHANGED <<ram, mode, lock>>
      ELSE Finish(t, "OK")
  BY <1>3 DEF Verify
<1>5. call[t].op # "default"
  BY <1>1 DEF LockInv, Locked
<1> QED
  BY <1>1, <1>4, <1>5 DEF Finish

\* Valid partitions stay whole and bounded.
LEMMA SectorStep ==
    ASSUME TypeInv, LockInv, SectorInv, DurabilityInv, NoHeapFailure, CoreNext
    PROVE  SectorInv'
<1>a. flash \in [Part -> Sector] /\ NoTask \notin Task /\ Main \in Task
      /\ MaxCount \in Nat /\ MaxCount > 1
  BY ParamAssumption DEF TypeInv, TypeOK
<1>1. ASSUME NEW t \in Task, WriteErase(t) PROVE SectorInv'
  <2>1. pc[t] = "write" /\ pc[t] \in Locked
    BY <1>1 DEF WriteErase, Locked
  <2>2. call[t].addr = ram.part /\ ram.part \in Part /\ ram.count \in Nat
    BY <2>1, WriterFacts DEF StageInv
  <2>3. flash' = [flash EXCEPT ![ram.part] = Erased] /\ flsLock' = t
    BY <1>1, <2>2 DEF WriteErase
  <2>4. Ok(flash[1 - ram.part]) => flash[1 - ram.part].count < MaxCount
    <3>1. CASE call[t].wcount = 1
      BY <1>a, <2>1, <2>2, <3>1, WriterFacts DEF StageInv, FirstBoot
    <3>2. CASE call[t].wcount # 1
      BY <1>a, <2>1, <2>2, <3>2, WriterFacts DEF StageInv, Sealed
    <3> QED
      BY <3>1, <3>2
  <2> QED
    BY <1>a, <2>2, <2>3, <2>4, ErasedBad DEF SectorInv
<1>2. ASSUME NEW t \in Task, Program(t) PROVE SectorInv'
  <2>1. pc[t] = "program" /\ pc[t] \in Locked
    BY <1>2 DEF Program, Locked
  <2>2. call[t].addr = ram.part /\ ram.part \in Part /\ ram.count \in Nat /\ ram.val \in Params
    BY <2>1, WriterFacts DEF StageInv
  <2>3. flash' = [flash EXCEPT ![ram.part] = ram] /\ mode' = mode
    BY <1>2, <2>2 DEF Program
  <2>4. CASE call[t].wcount = 1
    <3>1. /\ Ok(ram) /\ ram.count = 1
          /\ ram.part = 1 => Ok(flash[0])
      BY <2>1, <2>4, WriterFacts DEF StageInv, FirstBoot
    <3>2. mode' # "up"
      BY <2>1, <2>3, <2>4, WriterFacts
    <3>3. \A p \in Part : /\ p = ram.part => flash'[p] = ram
                          /\ p # ram.part => flash'[p] = flash[p]
      BY <1>a, <2>2, <2>3
    <3>4. (\A p \in Part : Ok(flash'[p])) => flash'[0].val = flash'[1].val
      BY <2>1, <2>2, <2>4, <3>3, WriterFacts DEF StageInv, FirstBoot
    <3>5. \A p \in Part : Ok(flash'[p]) =>
            /\ flash'[p].part = p /\ flash'[p].val \in Params
            /\ flash'[p].count \in 1 .. MaxCount
      BY <1>a, <2>2, <3>1, <3>3 DEF SectorInv
    <3>6. \A p \in Part : Ok(flash'[p]) /\ ~Ok(flash'[1 - p]) => flash'[p].count < MaxCount
      BY <1>a, <2>2, <3>1, <3>3
    <3> QED
      BY <3>2, <3>4, <3>5, <3>6 DEF SectorInv
  <2>5. CASE call[t].wcount # 1
    <3>1. Ok(ram) /\ ram.count \in 1 .. MaxCount /\ Ok(flash[1 - ram.part])
      BY <2>1, <2>5, WriterFacts DEF StageInv, Sealed
    <3>2. \A p \in Part : /\ p = ram.part => flash'[p] = ram
                          /\ p # ram.part => flash'[p] = flash[p] /\ p = 1 - ram.part
      BY <1>a, <2>2, <2>3
    <3>3. flash[1 - ram.part].count = ram.count - 1
      BY <2>1, <2>5, WriterFacts DEF StageInv, Sealed
    <3>4. \A p \in Part : Ok(flash'[p])
      BY <2>2, <3>1, <3>2
    <3>5. flash'[0].count # flash'[1].count
      BY <2>2, <3>2, <3>3
    <3>6. \A p \in Part : /\ flash'[p].part = p /\ flash'[p].val \in Params
                          /\ flash'[p].count \in 1 .. MaxCount
      BY <1>a, <2>2, <3>1, <3>2 DEF SectorInv
    <3> QED
      BY <3>4, <3>5, <3>6 DEF SectorInv
  <2> QED
    BY <2>4, <2>5
<1>3. ASSUME NEW t \in Task, Verify(t) PROVE SectorInv'
  <2>1. pc[t] = "verify" /\ pc[t] \in Locked /\ UNCHANGED <<flash, flsLock>>
    BY <1>3 DEF Verify, Locked
  <2>2. CASE call[t].wcount = 1 /\ call[t].wpart = 0
    BY <1>3, <2>1, <2>2, VerifySucceeds DEF SectorInv
  <2>3. CASE ~(call[t].wcount = 1 /\ call[t].wpart = 0)
    <3>1. \A p \in Part : Ok(flash[p])
      <4>1. CASE call[t].wcount = 1
        BY <2>1, <2>3, <4>1, WriterFacts DEF StageInv, FirstBoot
      <4>2. CASE call[t].wcount # 1
        <5>1. Ok(flash[ram.part]) /\ Ok(flash[1 - ram.part]) /\ ram.part \in Part
          BY <2>1, <4>2, WriterFacts DEF StageInv
        <5> QED
          BY <5>1
      <4> QED
        BY <4>1, <4>2
    <3> QED
      BY <2>1, <3>1 DEF SectorInv
  <2> QED
    BY <2>2, <2>3
<1>4. ASSUME BootLoad PROVE SectorInv'
  BY <1>4 DEF BootLoad, SectorInv
<1>5. ASSUME UNCHANGED flash, mode' # "up" \/ UNCHANGED <<mode, flsLock>> PROVE SectorInv'
  BY <1>5 DEF SectorInv
<1>6. ASSUME BootRepair \/ BootDefault \/ Crash PROVE SectorInv'
  BY <1>5, <1>6 DEF BootRepair, BootDefault, Crash
<1>7. ASSUME NEW t \in Task, Seal(t) \/ SetApply(t) \/ Compare(t) \/ GetRead(t) \/ GetCopy(t)
      PROVE  SectorInv'
  BY <1>5, <1>7 DEF Seal, SetApply, Compare, GetRead, GetCopy
<1>8. ASSUME NEW t \in Task, CoreCall(t) PROVE SectorInv'
  BY <1>5, <1>8 DEF CoreCall, SetCall, SaveCall, GetCall
<1> QED
  BY <1>1, <1>2, <1>3, <1>4, <1>6, <1>7, <1>8, HeapNeverFails
     DEF CoreNext, Boot, TaskStep, ParamToFlash

\* A task outside param_to_flash says nothing about flash.
LEMMA StageOutside ==
    ASSUME NEW u, pc'[u] \notin Locked
    PROVE  StageInv(u)'
BY DEF StageInv, Locked

\* A step that leaves flash, flash_param and the call alone keeps a stage.
LEMMA StageFrame ==
    ASSUME NEW u, UNCHANGED <<flash, ram>>, pc'[u] = pc[u], call'[u] = call[u], StageInv(u)
    PROVE  StageInv(u)'
BY DEF StageInv, Settled, Sealed, FirstBoot, GivesWay

\* Which partition a reboot loads, at every stage of a write.
LEMMA DurabilityStep ==
    ASSUME TypeInv, LockInv, SectorInv, DurabilityInv, NoHeapFailure, NoWrap, CoreNext
    PROVE  DurabilityInv'
<1>a. /\ flash \in [Part -> Sector] /\ NoTask \notin Task /\ Main \in Task
      /\ MaxCount \in Nat /\ MaxCount > 1 /\ CountMod \in Nat /\ MaxCount < CountMod
      /\ pc \in [Task -> Stage] /\ call \in [Task -> Call]
      /\ ram \in Sector /\ ram.val \in Params
      /\ \A p \in Part : flash[p] \in Sector
  BY ParamAssumption DEF TypeInv, TypeOK, NoWrap
<1>b. ASSUME NEW t \in Task, pc[t] \in Locked \/ lock = NoTask,
             \A u \in Task \ {t} : pc'[u] = pc[u]
      PROVE  \A u \in Task \ {t} : StageInv(u)'
  <2>1. \A u \in Task \ {t} : pc'[u] \notin Locked
    BY <1>a, <1>b DEF LockInv
  <2> QED
    BY <2>1, StageOutside
<1>c. ASSUME NEW t \in Task, UNCHANGED <<flash, ram, mode, lock>>, pc'[t] \notin Locked,
             \A u \in Task \ {t} : pc'[u] = pc[u] /\ call'[u] = call[u]
      PROVE  DurabilityInv'
  <2>1. ASSUME NEW u \in Task PROVE StageInv(u)'
    <3>1. CASE u = t
      BY <1>c, <3>1, StageOutside
    <3>2. CASE u # t
      BY <1>c, <3>2, StageFrame DEF DurabilityInv
    <3> QED
      BY <3>1, <3>2
  <2>2. (mode = "up" /\ lock = NoTask => Settled)'
    BY <1>c DEF DurabilityInv, Settled, GivesWay
  <2> QED
    BY <2>1, <2>2 DEF DurabilityInv
<1>1. ASSUME NEW t \in Task, Seal(t) PROVE DurabilityInv'
  <2> DEFINE c == IF call[t].wcount < 0 THEN (ram.count + 1) % CountMod
                                        ELSE call[t].wcount
             p == IF call[t].wpart < 0 THEN 1 - ram.part ELSE call[t].wpart
             d == [call[t] EXCEPT !.addr = p]
  <2>1. pc[t] = "seal" /\ pc[t] \in Locked
    BY <1>1 DEF Seal, Locked
  <2>2. /\ ram' = [magic |-> TRUE, part |-> p, count |-> c, val |-> ram.val,
                   crc |-> [part |-> p, count |-> c, val |-> ram.val]]
        /\ call' = [call EXCEPT ![t] = d] /\ pc' = [pc EXCEPT ![t] = "write"]
        /\ UNCHANGED <<flash, mode, lock>>
    BY <1>1 DEF Seal
  <2>3. p \in Part
    BY <2>1, WriterFacts
  <2>4. d.addr = p /\ d.wcount = call[t].wcount /\ d.wpart = call[t].wpart
    BY <1>a, <2>3, CallEdits
  <2>5. /\ ram'.part = p /\ ram'.count = c /\ ram'.val = ram.val /\ Ok(ram')
    BY <2>2 DEF Ok, Image
  <2>6. CASE call[t].wcount = 1
    <3>1. /\ ram.val = Factory /\ ~Ok(flash[1]) /\ c = 1 /\ p = call[t].wpart
          /\ call[t].wpart \in Part
          /\ call[t].wpart = 0 => ~Ok(flash[0])
          /\ call[t].wpart = 1 => Ok(flash[0]) /\ flash[0].count = 1 /\ flash[0].val = Factory
      BY <2>1, <2>6, WriterFacts DEF StageInv
    <3> HIDE DEF c, p, d
    <3>2. pc'[t] = "write" /\ call'[t] = d /\ flash' = flash
      BY <1>a, <2>2
    <3>3. FirstBoot(t)' /\ ~Ok(flash'[ram'.part])
      BY <2>4, <2>5, <3>1, <3>2 DEF FirstBoot
    <3>4. StageInv(t)'
      BY <2>4, <2>5, <2>6, <3>1, <3>2, <3>3 DEF StageInv
    <3>5. \A u \in Task \ {t} : StageInv(u)'
      BY <1>a, <1>b, <2>1, <2>2
    <3>6. lock' # NoTask
      BY <1>a, <2>1, <2>2, WriterFacts
    <3> QED
      BY <3>4, <3>5, <3>6 DEF DurabilityInv
  <2>7. CASE call[t].wcount # 1
    <3>1. /\ Settled /\ ram.count < MaxCount /\ ram.part \in Part /\ ram.count \in Nat
          /\ call[t].wpart \in {-1, 1 - ram.part} /\ call[t].wcount = -1
      BY <2>1, <2>7, WriterFacts DEF StageInv
    <3>2. c = ram.count + 1 /\ p = 1 - ram.part /\ ram.part = 1 - p
      BY <1>a, <3>1
    <3>3. ram.count \in 1 .. MaxCount
      BY <3>1 DEF Settled, SectorInv
    <3> HIDE DEF c, p, d
    <3>4. pc'[t] = "write" /\ call'[t] = d /\ flash' = flash
      BY <1>a, <2>2
    <3>5. Sealed'
      BY <1>a, <2>3, <2>5, <3>1, <3>2, <3>3, <3>4 DEF Sealed, Settled, GivesWay
    <3>6. StageInv(t)'
      BY <2>4, <2>5, <2>7, <3>4, <3>5 DEF StageInv
    <3>7. \A u \in Task \ {t} : StageInv(u)'
      BY <1>a, <1>b, <2>1, <2>2
    <3>8. lock' # NoTask
      BY <1>a, <2>1, <2>2, WriterFacts
    <3> QED
      BY <3>6, <3>7, <3>8 DEF DurabilityInv
  <2> QED
    BY <2>6, <2>7
<1>2. ASSUME NEW t \in Task, WriteErase(t) PROVE DurabilityInv'
  <2>1. pc[t] = "write" /\ pc[t] \in Locked
    BY <1>2 DEF WriteErase, Locked
  <2>2. call[t].addr = ram.part /\ ram.part \in Part
    BY <2>1, WriterFacts DEF StageInv
  <2>3. /\ flash' = [flash EXCEPT ![ram.part] = Erased] /\ pc' = [pc EXCEPT ![t] = "program"]
        /\ UNCHANGED <<ram, mode, lock, call>>
    BY <1>2, <2>2 DEF WriteErase
  <2>4. /\ flash'[ram.part] = Erased /\ flash'[1 - ram.part] = flash[1 - ram.part]
        /\ pc'[t] = "program"
    BY <1>a, <2>2, <2>3
  <2>5. CASE call[t].wcount = 1
    <3>1. FirstBoot(t)
      BY <2>1, <2>5, WriterFacts DEF StageInv
    <3>2. FirstBoot(t)'
      BY <2>2, <2>3, <2>4, <3>1, ErasedBad DEF FirstBoot
    <3> QED
      <4>1. StageInv(t)'
        BY <2>2, <2>3, <2>4, <2>5, <3>1, <3>2, ErasedBad DEF StageInv, FirstBoot
      <4>2. \A u \in Task \ {t} : StageInv(u)'
        BY <1>a, <1>b, <2>1, <2>3
      <4> QED
        BY <1>a, <2>1, <2>3, <4>1, <4>2, WriterFacts DEF DurabilityInv
  <2>6. CASE call[t].wcount # 1
    <3>1. Sealed
      BY <2>1, <2>6, WriterFacts DEF StageInv
    <3>2. Sealed'
      BY <2>2, <2>3, <2>4, <3>1, ErasedBad DEF Sealed, GivesWay
    <3> QED
      <4>1. StageInv(t)'
        BY <2>2, <2>3, <2>4, <2>6, <3>2 DEF StageInv
      <4>2. \A u \in Task \ {t} : StageInv(u)'
        BY <1>a, <1>b, <2>1, <2>3
      <4> QED
        BY <1>a, <2>1, <2>3, <4>1, <4>2, WriterFacts DEF DurabilityInv
  <2> QED
    BY <2>5, <2>6
<1>3. ASSUME NEW t \in Task, Program(t) PROVE DurabilityInv'
  <2>1. pc[t] = "program" /\ pc[t] \in Locked
    BY <1>3 DEF Program, Locked
  <2>2. call[t].addr = ram.part /\ ram.part \in Part /\ ram.count \in Nat
    BY <2>1, WriterFacts DEF StageInv
  <2>3. /\ flash' = [flash EXCEPT ![ram.part] = ram] /\ pc' = [pc EXCEPT ![t] = "verify"]
        /\ UNCHANGED <<ram, mode, lock, call>>
    BY <1>3, <2>2 DEF Program
  <2>4. /\ flash'[ram.part] = ram /\ flash'[1 - ram.part] = flash[1 - ram.part]
        /\ pc'[t] = "verify"
    BY <1>a, <2>2, <2>3
  <2>5. StageInv(t)'
    <3>1. CASE call[t].wcount = 1
      <4>1. FirstBoot(t)
        BY <2>1, <3>1, WriterFacts DEF StageInv
      <4>2. FirstBoot(t)'
        BY <2>2, <2>3, <2>4, <4>1 DEF FirstBoot
      <4> QED
        BY <2>3, <2>4, <3>1, <4>1, <4>2 DEF StageInv, FirstBoot
    <3>2. CASE call[t].wcount # 1
      <4>1. Sealed
        BY <2>1, <3>2, WriterFacts DEF StageInv
      <4>2. flash[1 - ram.part].count = ram.count - 1 /\ 1 - (1 - ram.part) = ram.part
        BY <2>2, <4>1 DEF Sealed
      <4>3. Settled'
        BY <2>2, <2>3, <2>4, <4>1, <4>2 DEF Sealed, Settled, GivesWay
      <4> QED
        BY <2>3, <2>4, <3>2, <4>1, <4>3 DEF StageInv, Sealed
    <3> QED
      BY <3>1, <3>2
  <2>6. \A u \in Task \ {t} : StageInv(u)'
    BY <1>a, <1>b, <2>1, <2>3
  <2> QED
    BY <1>a, <2>1, <2>3, <2>5, <2>6, WriterFacts DEF DurabilityInv
<1>4. ASSUME NEW t \in Task, Verify(t) PROVE DurabilityInv'
  <2>1. pc[t] = "verify" /\ pc[t] \in Locked /\ UNCHANGED flash
    BY <1>4 DEF Verify, Locked
  <2>2. CASE call[t].wcount = 1 /\ call[t].wpart = 0
    <3> DEFINE d == [call[t] EXCEPT !.wpart = 1]
    <3>1. /\ call' = [call EXCEPT ![t] = d] /\ pc' = [pc EXCEPT ![t] = "seal"]
          /\ UNCHANGED <<ram, mode, lock>>
      BY <1>4, <2>2, VerifySucceeds
    <3>2. d.wcount = 1 /\ d.wpart = 1
      BY <1>a, <2>2, CallEdits
    <3> HIDE DEF d
    <3>3. pc'[t] = "seal" /\ call'[t] = d
      BY <1>a, <3>1
    <3>4. /\ flash[0] = ram /\ Ok(ram) /\ ram.count = 1 /\ ram.val = Factory /\ ~Ok(flash[1])
      BY <2>1, <2>2, WriterFacts DEF StageInv, FirstBoot
    <3>5. StageInv(t)'
      BY <2>1, <3>1, <3>2, <3>3, <3>4 DEF StageInv
    <3>6. \A u \in Task \ {t} : StageInv(u)'
      BY <1>a, <1>b, <2>1, <3>1
    <3> QED
      BY <1>a, <2>1, <3>1, <3>5, <3>6, WriterFacts DEF DurabilityInv
  <2>3. CASE ~(call[t].wcount = 1 /\ call[t].wpart = 0)
    <3>1. Returns(t, "OK") /\ lock' = NoTask /\ UNCHANGED ram
      BY <1>4, <2>3, VerifySucceeds
    <3>2. pc'[t] = "idle" /\ \A u \in Task \ {t} : pc'[u] = pc[u]
      BY <1>a, <3>1 DEF Returns
    <3>3. Settled
      <4>1. CASE call[t].wcount = 1
        BY <2>1, <2>3, <4>1, WriterFacts DEF StageInv, FirstBoot, Settled, GivesWay
      <4>2. CASE call[t].wcount # 1
        BY <2>1, <4>2, WriterFacts DEF StageInv
      <4> QED
        BY <4>1, <4>2
    <3>4. Settled'
      BY <2>1, <3>1, <3>3 DEF Settled, GivesWay
    <3>5. \A u \in Task : StageInv(u)'
      BY <1>b, <2>1, <3>2, StageOutside DEF Locked
    <3> QED
      BY <3>4, <3>5 DEF DurabilityInv
  <2> QED
    BY <2>2, <2>3
<1>5. ASSUME Boot PROVE DurabilityInv'
  <2>1. mode = "off" /\ lock = NoTask /\ (\A u \in Task : pc[u] = "idle") /\ flash' = flash
    BY <1>5 DEF Boot, BootLoad, BootRepair, BootDefault, BootNoMem, LockInv, Locked,
                TypeInv, TypeOK
  <2>2. CASE BootLoad
    <3>1. (\A p \in Part : Ok(flash[p])) /\ ram' = flash[Loaded(flash)] /\ pc' = pc
      BY <2>2 DEF BootLoad
    <3>2. \A p \in Part : flash[p].part = p /\ flash[p].count \in Nat
      BY <3>1 DEF SectorInv
    <3>3. CASE flash[0].count < flash[1].count
      BY <2>1, <3>1, <3>2, <3>3, StageOutside
         DEF Loaded, DurabilityInv, Settled, GivesWay, Locked
    <3>4. CASE ~(flash[0].count < flash[1].count)
      <4>1. ram' = flash[0] /\ (flash[1].count < flash[0].count \/ flash[1].count = flash[0].count)
        BY <3>1, <3>2, <3>4 DEF Loaded
      <4>2. flash[1].count = flash[0].count => flash[1].val = flash[0].val
        BY <3>1 DEF SectorInv
      <4> QED
        BY <2>1, <3>1, <3>2, <4>1, <4>2, StageOutside
           DEF DurabilityInv, Settled, GivesWay, Locked
    <3> QED
      BY <3>3, <3>4
  <2>3. CASE BootRepair
    <3>1. PICK p \in Part :
            /\ ~Ok(flash[p]) /\ Ok(flash[1 - p]) /\ ram' = flash[1 - p]
            /\ call' = [call EXCEPT ![Main] = BootCall(-1, p)]
      BY <2>3 DEF BootRepair
    <3>2. pc' = [pc EXCEPT ![Main] = "seal"] /\ lock' = Main
      BY <2>3 DEF BootRepair
    <3>3. call'[Main].wcount = -1 /\ call'[Main].wpart = p /\ pc'[Main] = "seal"
      BY <1>a, <3>1, <3>2, StartFields
    <3>4. flash[1 - p].part = 1 - p /\ flash[1 - p].count < MaxCount
      BY <3>1 DEF SectorInv
    <3>5. Settled' /\ ram'.count < MaxCount /\ p = 1 - ram'.part
      BY <2>1, <3>1, <3>4 DEF Settled, GivesWay
    <3>6. StageInv(Main)'
      BY <3>3, <3>5 DEF StageInv
    <3>7. \A u \in Task \ {Main} : StageInv(u)'
      BY <1>a, <1>b, <2>1, <3>2
    <3> QED
      BY <1>a, <3>2, <3>6, <3>7 DEF DurabilityInv
  <2>4. CASE BootDefault
    <3>1. /\ ~AnyValid(flash) /\ ram' = [RamCleared EXCEPT !.val = Factory]
          /\ call' = [call EXCEPT ![Main] = BootCall(1, 0)]
          /\ pc' = [pc EXCEPT ![Main] = "seal"] /\ lock' = Main
      BY <2>4 DEF BootDefault
    <3>2. call'[Main].wcount = 1 /\ call'[Main].wpart = 0 /\ pc'[Main] = "seal"
      BY <1>a, <3>1, StartFields
    <3>3. ram'.val = Factory
      BY <3>1, RecordTypes DEF Sector
    <3>4. StageInv(Main)'
      BY <2>1, <3>1, <3>2, <3>3 DEF StageInv, AnyValid
    <3>5. \A u \in Task \ {Main} : StageInv(u)'
      BY <1>a, <1>b, <2>1, <3>1
    <3> QED
      BY <1>a, <3>1, <3>4, <3>5 DEF DurabilityInv
  <2> QED
    BY <1>5, <2>2, <2>3, <2>4, HeapNeverFails DEF Boot
<1>6. ASSUME Crash PROVE DurabilityInv'
  BY <1>6, StageOutside DEF Crash, DurabilityInv, Locked
<1>7. ASSUME NEW t \in Task, NEW arg \in Arg, NEW b \in BOOLEAN, SetCall(t, arg, b)
      PROVE  DurabilityInv'
  <2>1. updp = FALSE
    BY DEF LockInv
  <2>2. /\ pc' = [pc EXCEPT ![t] = "set"] /\ UNCHANGED <<flash, ram, mode, lock>>
        /\ \E d : call' = [call EXCEPT ![t] = d]
    BY <1>7, <2>1 DEF SetCall
  <2> QED
    BY <1>a, <1>c, <2>2 DEF Locked
<1>8. ASSUME NEW t \in Task, SetApply(t) PROVE DurabilityInv'
  <2>1. /\ pc[t] = "set" /\ lock = NoTask /\ mode = "up" /\ updp = FALSE
        /\ ~call[t].usr /\ call[t].wcount = -1 /\ call[t].wpart = -1
        /\ UNCHANGED <<flash, mode>> /\ (call[t].toFlash => ram.count < MaxCount)
    BY <1>8 DEF SetApply, LockInv
  <2>2. ram'.part = ram.part /\ ram'.count = ram.count
    BY <1>8, <1>a, <2>1 DEF SetApply, Sector
  <2>3. Settled'
    BY <2>1, <2>2 DEF DurabilityInv, Settled, GivesWay
  <2>4. CASE call[t].toFlash
    <3>1. pc' = [pc EXCEPT ![t] = "seal"] /\ lock' = t /\ call' = call
      BY <1>8, <2>1, <2>4 DEF SetApply
    <3>2. pc'[t] = "seal" /\ \A u \in Task \ {t} : pc'[u] = pc[u]
      BY <1>a, <3>1
    <3>3. StageInv(t)'
      BY <2>1, <2>2, <2>3, <2>4, <3>1, <3>2 DEF StageInv
    <3> QED
      BY <1>a, <1>b, <2>1, <3>1, <3>2, <3>3 DEF DurabilityInv
  <2>5. CASE ~call[t].toFlash
    <3>1. Returns(t, "OK")
      BY <1>8, <2>5 DEF SetApply
    <3>2. pc'[t] = "idle" /\ \A u \in Task \ {t} : pc'[u] = pc[u]
      BY <1>a, <3>1 DEF Returns
    <3>3. StageInv(t)'
      BY <3>2, StageOutside DEF Locked
    <3> QED
      BY <1>b, <2>1, <2>3, <3>2, <3>3 DEF DurabilityInv
  <2> QED
    BY <2>4, <2>5
<1>9. ASSUME NEW t \in Task, NEW b \in BOOLEAN, SaveCall(t, b) PROVE DurabilityInv'
  <2>1. /\ mode = "up" /\ lock = NoTask /\ lock' = t /\ ram.count < MaxCount
        /\ UNCHANGED <<flash, ram, mode>>
        /\ pc' = [pc EXCEPT ![t] = IF b THEN "compare" ELSE "seal"]
        /\ call' = [call EXCEPT ![t] = [NoCall EXCEPT !.op = "save"]]
    BY <1>9 DEF SaveCall, Idle
  <2>2. Settled'
    BY <2>1 DEF DurabilityInv, Settled, GivesWay
  <2>3. /\ pc'[t] \in {"compare", "seal"} /\ call'[t].wcount = -1 /\ call'[t].wpart = -1
        /\ \A u \in Task \ {t} : pc'[u] = pc[u]
    BY <1>a, <2>1, StartFields
  <2>4. StageInv(t)'
    BY <2>1, <2>2, <2>3 DEF StageInv
  <2> QED
    BY <1>a, <1>b, <2>1, <2>3, <2>4 DEF DurabilityInv
<1>10. ASSUME NEW t \in Task, Compare(t) PROVE DurabilityInv'
  <2>1. /\ pc[t] = "compare" /\ pc[t] \in Locked /\ UNCHANGED <<flash, ram, mode>>
    BY <1>10 DEF Compare, Locked
  <2>2. Settled' /\ ram'.count < MaxCount /\ call[t].wcount = -1 /\ call[t].wpart = -1
    BY <2>1, WriterFacts DEF StageInv, Settled, GivesWay, LockInv
  <2>3. CASE Returns(t, "OK") /\ lock' = NoTask
    <3>1. pc'[t] = "idle" /\ \A u \in Task \ {t} : pc'[u] = pc[u]
      BY <1>a, <2>3 DEF Returns
    <3>2. StageInv(t)'
      BY <3>1, StageOutside DEF Locked
    <3> QED
      BY <1>b, <2>1, <2>2, <3>1, <3>2 DEF DurabilityInv
  <2>4. CASE pc' = [pc EXCEPT ![t] = "seal"] /\ UNCHANGED <<call, lock>>
    <3>1. pc'[t] = "seal" /\ \A u \in Task \ {t} : pc'[u] = pc[u]
      BY <1>a, <2>4
    <3>2. StageInv(t)'
      BY <2>2, <2>4, <3>1 DEF StageInv
    <3> QED
      BY <1>b, <2>1, <2>2, <3>1, <3>2 DEF DurabilityInv
  <2> QED
    BY <1>10, <2>3, <2>4 DEF Compare
<1>11. ASSUME NEW t \in Task, NEW b \in BOOLEAN, GetCall(t, b) PROVE DurabilityInv'
  <2>1. UNCHANGED <<flash, ram, mode, lock>>
    BY <1>11 DEF GetCall
  <2>2. pc'[t] \notin Locked /\ \A u \in Task \ {t} : pc'[u] = pc[u] /\ call'[u] = call[u]
    BY <1>11, <1>a DEF GetCall, Locked
  <2> QED
    BY <1>c, <2>1, <2>2
<1>12. ASSUME NEW t \in Task, GetRead(t) \/ GetCopy(t) PROVE DurabilityInv'
  <2>1. UNCHANGED <<flash, ram, mode, lock>>
    BY <1>12 DEF GetRead, GetCopy
  <2>2. pc'[t] \notin Locked /\ \A u \in Task \ {t} : pc'[u] = pc[u] /\ call'[u] = call[u]
    BY <1>12, <1>a DEF GetRead, GetCopy, Returns, Locked
  <2> QED
    BY <1>c, <2>1, <2>2
<1> QED
  BY <1>1, <1>2, <1>3, <1>4, <1>5, <1>6, <1>7, <1>8, <1>9, <1>10, <1>11, <1>12,
     HeapNeverFails DEF CoreNext, CoreCall, TaskStep, ParamToFlash

\* A read from flash outside sys_param_lock sees a whole image.
LEMMA BufStep ==
    ASSUME TypeInv, LockInv, SectorInv, BufInv, NoHeapFailure, CoreNext
    PROVE  BufInv'
<1>a. /\ pc \in [Task -> Stage] /\ call \in [Task -> Call] /\ Main \in Task
      /\ ram.part \in Part /\ NoTask \notin Task
      /\ \A t \in Task : call[t] \in Call /\ call[t].addr \in Part
      /\ \A p \in Part : flash[p] \in Sector
  BY ParamAssumption DEF TypeInv, TypeOK, Call, Sector
<1>b. ASSUME NEW t \in Task, pc'[t] # "copy",
             \A u \in Task \ {t} : pc'[u] = pc[u] /\ call'[u] = call[u]
      PROVE  BufInv'
  BY <1>b DEF BufInv
<1>1. ASSUME NEW t \in Task, ParamToFlash(t) \/ SetApply(t) \/ Compare(t) \/ GetCopy(t)
      PROVE  BufInv'
  <2>1. pc'[t] # "copy" /\ \A u \in Task \ {t} : pc'[u] = pc[u] /\ call'[u] = call[u]
    BY <1>1, <1>a DEF ParamToFlash, Seal, WriteErase, WriteNoMem, Program, Verify,
       Finish, SetApply, Compare, GetCopy, Returns
  <2> QED
    BY <1>b, <2>1
<1>2. ASSUME NEW t \in Task, GetRead(t) PROVE BufInv'
  <2>1. call[t].op = "get" /\ mode = "up" /\ flsLock = NoTask
    BY <1>2 DEF GetRead, LockInv
  <2>2. Ok(flash[call[t].addr])
    BY <1>a, <2>1 DEF SectorInv
  <2>3. call' = [call EXCEPT ![t] = [call[t] EXCEPT !.buf = flash[call[t].addr]]]
    BY <1>2 DEF GetRead
  <2>4. [call[t] EXCEPT !.buf = flash[call[t].addr]].buf = flash[call[t].addr]
    BY <1>a, CallEdits
  <2>5. /\ call'[t].buf = flash[call[t].addr]
        /\ \A u \in Task \ {t} : pc'[u] = pc[u] /\ call'[u] = call[u]
    BY <1>2, <1>a, <2>3, <2>4 DEF GetRead
  <2> QED
    BY <2>2, <2>5 DEF BufInv
<1>3. ASSUME NEW t \in Task, NEW b \in BOOLEAN, GetCall(t, b) PROVE BufInv'
  <2>1. /\ pc' = [pc EXCEPT ![t] = IF b THEN "read" ELSE "copy"]
        /\ call' = [call EXCEPT ![t] = [NoCall EXCEPT !.op = "get",
                                          !.addr = ram.part, !.toFlash = b]]
    BY <1>3 DEF GetCall, HeapOutcome, NoHeapFailure
  <2>2. [NoCall EXCEPT !.op = "get", !.addr = ram.part, !.toFlash = b].toFlash = b
    BY <1>a, StartFields
  <2>3. /\ call'[t].toFlash = b /\ (pc'[t] = "copy" => ~b)
        /\ \A u \in Task \ {t} : pc'[u] = pc[u] /\ call'[u] = call[u]
    BY <1>a, <2>1, <2>2
  <2> QED
    BY <2>3 DEF BufInv
<1>4. ASSUME NEW t \in Task, NEW b \in BOOLEAN, NEW arg \in Arg,
             SetCall(t, arg, b) \/ SaveCall(t, b)
      PROVE  BufInv'
  <2>1. pc'[t] # "copy" /\ \A u \in Task \ {t} : pc'[u] = pc[u] /\ call'[u] = call[u]
    BY <1>4, <1>a DEF SetCall, SaveCall, Returns
  <2> QED
    BY <1>b, <2>1
<1>5. ASSUME Boot PROVE BufInv'
  <2>1. \/ pc' = pc /\ call' = call
        \/ /\ pc'[Main] = "seal"
           /\ \A u \in Task \ {Main} : pc'[u] = pc[u] /\ call'[u] = call[u]
    BY <1>5, <1>a DEF Boot, BootLoad, BootRepair, BootDefault, BootNoMem
  <2> QED
    BY <1>a, <1>b, <2>1 DEF BufInv
<1>6. ASSUME Crash PROVE BufInv'
  BY <1>6 DEF Crash, BufInv
<1>7. Arg # {}
  BY ArgTypes
<1>8. ASSUME NEW t \in Task, CoreCall(t) PROVE BufInv'
  BY <1>3, <1>4, <1>7, <1>8 DEF CoreCall
<1> QED
  BY <1>1, <1>2, <1>5, <1>6, <1>8 DEF CoreNext, TaskStep

\* While a set holds the lock nobody else touches its fields.
LEMMA ArgStep ==
    ASSUME TypeInv, LockInv, ArgInv, CoreNext
    PROVE  ArgInv'
<1>a. /\ pc \in [Task -> Stage] /\ call \in [Task -> Call] /\ Main \in Task
      /\ ram.part \in Part /\ NoTask \notin Task /\ ram \in Sector /\ ram.val \in Params
      /\ \A t \in Task : call[t] \in Call /\ call[t].arg \in Arg
      /\ \A t \in Task : call[t].wpart \in {-1, 0, 1}
  BY ParamAssumption DEF TypeInv, TypeOK, Call, Sector
<1>b. ASSUME NEW t \in Task, pc'[t] \notin Locked \/ call'[t].op # "set", UNCHANGED ram,
             \A u \in Task \ {t} : pc'[u] = pc[u] /\ call'[u] = call[u]
      PROVE  ArgInv'
  BY <1>b DEF ArgInv
<1>c. ASSUME NEW t \in Task, pc[t] \in Locked, pc'[t] \in Locked, ram'.val = ram.val,
             call'[t].op = call[t].op, call'[t].arg = call[t].arg,
             \A u \in Task \ {t} : pc'[u] = pc[u] /\ call'[u] = call[u]
      PROVE  ArgInv'
  BY <1>c DEF ArgInv
<1>1. ASSUME NEW t \in Task, Seal(t) PROVE ArgInv'
  <2> DEFINE p == IF call[t].wpart < 0 THEN 1 - ram.part ELSE call[t].wpart
             d == [call[t] EXCEPT !.addr = p]
  <2>1. d.op = call[t].op /\ d.arg = call[t].arg
    BY <1>a, CallEdits
  <2>2. call' = [call EXCEPT ![t] = d] /\ pc' = [pc EXCEPT ![t] = "write"] /\ ram'.val = ram.val
    BY <1>1 DEF Seal
  <2> HIDE DEF d
  <2>3. /\ call'[t] = d /\ pc'[t] = "write"
        /\ \A u \in Task \ {t} : pc'[u] = pc[u] /\ call'[u] = call[u]
    BY <1>a, <2>2
  <2>4. pc[t] = "seal"
    BY <1>1 DEF Seal
  <2> QED
    BY <1>c, <2>1, <2>2, <2>3, <2>4 DEF Locked
<1>2. ASSUME NEW t \in Task, WriteErase(t) \/ Program(t) PROVE ArgInv'
  <2>1. /\ pc[t] \in Locked /\ pc'[t] \in Locked /\ UNCHANGED <<ram, call>>
        /\ \A u \in Task \ {t} : pc'[u] = pc[u]
    BY <1>2, <1>a DEF WriteErase, Program, Locked
  <2> QED
    BY <1>c, <2>1
<1>f. ASSUME NEW t \in Task, NEW r \in {"OK", "EIO"}, Finish(t, r), pc[t] \in Locked
      PROVE  ArgInv'
  <2>1. Returns(t, r) /\ UNCHANGED ram
    BY <1>f DEF Finish, LockInv
  <2>2. pc'[t] \notin Locked /\ \A u \in Task \ {t} : pc'[u] = pc[u] /\ call'[u] = call[u]
    BY <1>a, <2>1 DEF Returns, Locked
  <2> QED
    BY <1>b, <2>1, <2>2
<1>3. ASSUME NEW t \in Task, Verify(t) \/ WriteNoMem(t) PROVE ArgInv'
  <2>1. CASE /\ call' = [call EXCEPT ![t].wpart = 1]
             /\ pc' = [pc EXCEPT ![t] = "seal"]
             /\ pc[t] = "verify" /\ UNCHANGED ram
    <3> DEFINE d == [call[t] EXCEPT !.wpart = 1]
    <3>1. d.op = call[t].op /\ d.arg = call[t].arg
      BY <1>a, CallEdits
    <3>2. /\ call' = [call EXCEPT ![t] = d] /\ pc' = [pc EXCEPT ![t] = "seal"]
          /\ pc[t] = "verify" /\ UNCHANGED ram
      BY <2>1
    <3> HIDE DEF d
    <3>3. /\ call'[t] = d /\ pc'[t] = "seal"
          /\ \A u \in Task \ {t} : pc'[u] = pc[u] /\ call'[u] = call[u]
      BY <1>a, <3>2
    <3> QED
      BY <1>c, <3>1, <3>2, <3>3 DEF Locked
  <2>2. CASE \E r \in {"OK", "EIO"} : Finish(t, r)
    BY <1>3, <1>f, <2>2 DEF Verify, WriteNoMem, Locked
  <2> QED
    BY <1>3, <2>1, <2>2 DEF Verify, WriteNoMem
<1>4. ASSUME NEW t \in Task, SetApply(t) PROVE ArgInv'
  <2>1. lock = NoTask /\ ~call[t].usr /\ call[t].arg \in Arg
    BY <1>4, <1>a DEF SetApply, LockInv
  <2>2. ram'.val = Assign(ram.val, call[t].arg)
    BY <1>4, <1>a, <2>1 DEF SetApply, Sector
  <2>3. \A i \in DOMAIN call[t].arg : i \in Id
    BY <2>1 DEF Arg
  <2>4. \A i \in DOMAIN call[t].arg : ram'.val[i] = call[t].arg[i]
    BY <2>2, <2>3 DEF Assign
  <2>5. \A u \in Task \ {t} : pc'[u] = pc[u] /\ pc[u] \notin Locked
    BY <1>4, <1>a, <2>1 DEF SetApply, Returns, LockInv
  <2>6. call'[t] = call[t] \/ pc'[t] = "idle"
    BY <1>4, <1>a DEF SetApply, Returns
  <2> QED
    BY <2>4, <2>5, <2>6 DEF ArgInv, Locked
<1>5. ASSUME NEW t \in Task, Compare(t) PROVE ArgInv'
  <2>1. call[t].op = "save" /\ UNCHANGED ram
    BY <1>5 DEF Compare, LockInv
  <2>2. /\ \A u \in Task \ {t} : pc'[u] = pc[u] /\ call'[u] = call[u]
        /\ pc'[t] = "idle" \/ call'[t] = call[t]
    BY <1>5, <1>a DEF Compare, Returns
  <2> QED
    BY <1>b, <2>1, <2>2 DEF Locked
<1>6. ASSUME NEW t \in Task, GetRead(t) \/ GetCopy(t) PROVE ArgInv'
  <2>1. /\ pc'[t] \notin Locked /\ UNCHANGED ram
        /\ \A u \in Task \ {t} : pc'[u] = pc[u] /\ call'[u] = call[u]
    BY <1>6, <1>a DEF GetRead, GetCopy, Returns, Locked
  <2> QED
    BY <1>b, <2>1
<1>7. ASSUME NEW t \in Task, NEW b \in BOOLEAN, NEW arg \in Arg,
             SetCall(t, arg, b) \/ GetCall(t, b)
      PROVE  ArgInv'
  <2>1. /\ pc'[t] \notin Locked /\ UNCHANGED ram
        /\ \A u \in Task \ {t} : pc'[u] = pc[u] /\ call'[u] = call[u]
    BY <1>7, <1>a DEF SetCall, GetCall, Returns, Locked
  <2> QED
    BY <1>b, <2>1
<1>8. ASSUME NEW t \in Task, NEW b \in BOOLEAN, SaveCall(t, b) PROVE ArgInv'
  <2>1. call'[t].op = "save" /\ UNCHANGED ram
    BY <1>8, <1>a, StartFields DEF SaveCall
  <2>2. \A u \in Task \ {t} : pc'[u] = pc[u] /\ call'[u] = call[u]
    BY <1>8, <1>a DEF SaveCall
  <2> QED
    BY <1>b, <2>1, <2>2
<1>9. ASSUME Boot PROVE ArgInv'
  <2>1. \A u \in Task : pc[u] = "idle"
    BY <1>9 DEF Boot, BootLoad, BootRepair, BootDefault, BootNoMem, LockInv
  <2>2. \/ pc' = pc
        \/ /\ \A u \in Task \ {Main} : pc'[u] = pc[u]
           /\ \E w \in {-1, 1}, p \in Part : call' = [call EXCEPT ![Main] = BootCall(w, p)]
    BY <1>9, <1>a DEF Boot, BootLoad, BootRepair, BootDefault, BootNoMem
  <2>3. \/ pc' = pc
        \/ call'[Main].op = "boot" /\ \A u \in Task \ {Main} : pc'[u] = pc[u]
    BY <1>a, <2>2, StartFields
  <2> QED
    BY <2>1, <2>3 DEF ArgInv, Locked
<1>10. ASSUME Crash PROVE ArgInv'
  BY <1>10 DEF Crash, ArgInv, Locked
<1>11. ASSUME NEW t \in Task, CoreCall(t) PROVE ArgInv'
  BY <1>7, <1>8, <1>11, ArgTypes DEF CoreCall
<1> QED
  BY <1>1, <1>2, <1>3, <1>4, <1>5, <1>6, <1>9, <1>10, <1>11
     DEF CoreNext, TaskStep, ParamToFlash

\* Erased flash before the first boot satisfies the invariant.
LEMMA InvInit == Init => IInv
<1> SUFFICES ASSUME Init PROVE IInv
  OBVIOUS
<1>1. TypeInv
  BY TypeInit
<1>2. \A p \in Part : ~Ok(flash[p])
  BY ErasedBad DEF Init
<1>3. LockInv /\ BufInv /\ ArgInv
  BY ParamAssumption DEF Init, LockInv, BufInv, ArgInv, Locked
<1>4. SectorInv
  BY <1>2 DEF Init, SectorInv
<1>5. DurabilityInv
  BY DEF Init, DurabilityInv, StageInv, Locked
<1> QED
  BY <1>1, <1>3, <1>4, <1>5 DEF IInv

\* Every step of the core, a power cut included, keeps the invariant.
LEMMA InvStep ==
    ASSUME NoHeapFailure, NoWrap
    PROVE  IInv /\ [CoreNext]_vars => IInv'
<1> SUFFICES ASSUME IInv, [CoreNext]_vars PROVE IInv'
  OBVIOUS
<1>1. CASE CoreNext
  BY <1>1, CoreIsNext, TypeStep, LockStep, SectorStep, DurabilityStep, BufStep, ArgStep
     DEF IInv
<1>2. CASE UNCHANGED vars
  BY <1>2 DEF vars, IInv, TypeInv, TypeOK, LockInv, SectorInv, DurabilityInv, BufInv,
              ArgInv, StageInv, Settled, Sealed, FirstBoot, GivesWay
<1> QED
  BY <1>1, <1>2

\* The invariant behind everything below.
THEOREM Invariant ==
    ASSUME NoHeapFailure, NoWrap
    PROVE  CoreSpec => []IInv
BY InvInit, InvStep, PTL DEF CoreSpec

-----------------------------------------------------------------------------
(* What tls_param_init would load                                          *)

\* tls_param_init comes up with partition p when p is valid and the other one is
\* invalid, older, or a copy with the same count.
LEMMA RecoveredIs ==
    ASSUME NEW f, NEW p \in Part, Ok(f[p]), f[0].count \in Nat, f[1].count \in Nat,
           Ok(f[1 - p]) => \/ f[1 - p].count < f[p].count
                           \/ f[1 - p].count = f[p].count /\ f[1 - p].val = f[p].val
    PROVE  Recovered(f) = f[p].val
<1>1. CASE p = 0
  BY <1>1 DEF Recovered, AnyValid, Loaded
<1>2. CASE p = 1
  BY <1>2 DEF Recovered, AnyValid, Loaded
<1> QED
  BY <1>1, <1>2

\* Between updates a reboot loads the partition that flash_param names.
LEMMA SettledRecovers ==
    ASSUME TypeInv, Settled
    PROVE  Recovered(flash) = flash[ram.part].val
<1>1. /\ ram.part \in Part /\ flash[0].count \in Nat /\ flash[1].count \in Nat
      /\ 1 - (1 - ram.part) = ram.part
  BY DEF TypeInv, TypeOK, Sector
<1> QED
  BY <1>1, RecoveredIs DEF Settled, GivesWay

\* During an update it loads the other one.
LEMMA SealedRecovers ==
    ASSUME TypeInv, Sealed
    PROVE  Recovered(flash) = flash[1 - ram.part].val
<1>1. /\ ram.part \in Part /\ flash[0].count \in Nat /\ flash[1].count \in Nat
      /\ 1 - ram.part \in Part /\ 1 - (1 - ram.part) = ram.part
  BY DEF TypeInv, TypeOK, Sector
<1> QED
  BY <1>1, RecoveredIs DEF Sealed, GivesWay

\* A writer of a running system leaves a valid partition alone.
LEMMA UpIsValid ==
    IInv /\ mode = "up" => AnyValid(flash)
<1> SUFFICES ASSUME IInv, mode = "up" PROVE AnyValid(flash)
  OBVIOUS
<1> USE DEF IInv
<1>1. ram.part \in Part /\ (lock \in Task \cup {NoTask})
  BY DEF TypeInv, TypeOK, Sector
<1>2. Settled \/ Sealed \/ Ok(flash[ram.part])
  <2>1. CASE lock = NoTask
    BY <2>1 DEF DurabilityInv
  <2>2. CASE lock # NoTask
    <3>1. lock \in Task /\ pc[lock] \in Locked
      BY <1>1, <2>2 DEF LockInv
    <3>2. call[lock].wcount # 1 /\ StageInv(lock)
      BY <3>1, WriterFacts
    <3> QED
      BY <3>1, <3>2 DEF StageInv, Locked
  <2> QED
    BY <2>1, <2>2
<1> QED
  BY <1>1, <1>2 DEF Settled, Sealed, AnyValid

\* Once tls_param_init has returned there is always a valid partition: no power
\* cut, at any point of any update, leaves the device without its parameters.
THEOREM NeverLost ==
    ASSUME NoHeapFailure, NoWrap
    PROVE  CoreSpec => []NeverLoseBoth
<1>1. IInv => NeverLoseBoth
  BY UpIsValid DEF NeverLoseBoth
<1> QED
  BY <1>1, Invariant, PTL

\* tls_param_get copies from a whole image although it reads flash before it
\* takes the lock.
THEOREM NeverTorn ==
    ASSUME NoHeapFailure, NoWrap
    PROVE  CoreSpec => []GetNeverTorn
<1>1. IInv => GetNeverTorn
  BY DEF IInv, BufInv, GetNeverTorn
<1> QED
  BY <1>1, Invariant, PTL

\* Between updates flash_param names the partition a reboot loads, so the next
\* update overwrites the other one.
THEOREM OverwritesOlder ==
    ASSUME NoHeapFailure, NoWrap
    PROVE  CoreSpec => []NextWriteHitsOlder
<1>1. ASSUME IInv, mode = "up", \A t \in Task : ~Writing(t)
      PROVE  Settled
  <2>1. lock \in Task \cup {NoTask}
    BY <1>1 DEF IInv, TypeInv, TypeOK
  <2>2. CASE lock = NoTask
    BY <1>1, <2>2 DEF IInv, DurabilityInv
  <2>3. CASE lock # NoTask
    <3>1. lock \in Task /\ pc[lock] = "compare"
      BY <1>1, <2>1, <2>3 DEF IInv, LockInv, Locked, Writing
    <3> QED
      BY <1>1, <3>1 DEF IInv, DurabilityInv, StageInv
  <2> QED
    BY <2>2, <2>3
<1>2. IInv => NextWriteHitsOlder
  BY <1>1, SettledRecovers DEF IInv, NextWriteHitsOlder, Settled
<1> QED
  BY <1>2, Invariant, PTL

-----------------------------------------------------------------------------
(* Acknowledged writes                                                     *)

\* The step in which a set or a save returns OK.
LEMMA AckStep ==
    ASSUME NoHeapFailure, IInv, CoreNext, NEW t \in Task, Ends(t, "OK"),
           call[t].op \in {"set", "save"}, call[t].op = "set" => call[t].toFlash
    PROVE  /\ Recovered(flash') = ram.val
           /\ pc[t] \in Locked
<1> USE DEF IInv
<1>a. /\ pc \in [Task -> Stage] /\ call \in [Task -> Call] /\ Main \in Task
      /\ updp = FALSE /\ ram.part \in Part
  BY ParamAssumption DEF TypeInv, TypeOK, Sector, LockInv
<1>b. pc[t] # "idle" /\ pc'[t] = "idle" /\ mode' = "up" /\ mode # "off"
  BY DEF Ends, LockInv
<1>1. Verify(t) \/ (Compare(t) /\ Returns(t, "OK"))
  <2>1. ~Boot /\ ~Crash
    BY <1>b DEF Boot, BootLoad, BootRepair, BootDefault, BootNoMem, Crash
  <2>2. ASSUME NEW u \in Task, CoreCall(u) \/ TaskStep(u) PROVE u = t
    <3>1. ASSUME u # t PROVE pc'[t] = pc[t]
      BY <1>a, <2>2, <3>1 DEF CoreCall, SetCall, SaveCall, GetCall, TaskStep, ParamToFlash,
         Seal, WriteErase, WriteNoMem, Program, Verify, Finish, Returns, SetApply,
         Compare, GetRead, GetCopy
    <3> QED
      BY <1>b, <3>1
  <2>3. TaskStep(t) \/ CoreCall(t)
    BY <2>1, <2>2 DEF CoreNext
  <2>4. ~CoreCall(t)
    BY <1>b DEF CoreCall, SetCall, SaveCall, GetCall, Idle
  <2>5. ~Seal(t) /\ ~WriteErase(t) /\ ~Program(t) /\ ~GetRead(t) /\ ~WriteNoMem(t)
    BY <1>a, <1>b, HeapNeverFails DEF Seal, WriteErase, Program, GetRead
  <2>6. ~GetCopy(t)
    BY DEF GetCopy, LockInv
  <2>7. ~SetApply(t)
    <3>1. SUFFICES ASSUME SetApply(t) PROVE FALSE
      OBVIOUS
    <3>2. call[t].toFlash
      BY <3>1 DEF SetApply, LockInv
    <3> QED
      BY <1>a, <1>b, <3>1, <3>2 DEF SetApply
  <2>8. Compare(t) => Returns(t, "OK")
    BY <1>a, <1>b DEF Compare
  <2> QED
    BY <2>3, <2>4, <2>5, <2>6, <2>7, <2>8 DEF TaskStep, ParamToFlash
<1>2. CASE Verify(t)
  <2>1. pc[t] = "verify" /\ pc[t] \in Locked /\ flash' = flash
    BY <1>2 DEF Verify, Locked
  <2>2. call[t].wcount # 1
    BY <2>1, WriterFacts
  <2>3. Settled /\ flash[ram.part] = ram
    BY <2>1, <2>2, WriterFacts DEF StageInv
  <2> QED
    BY <2>1, <2>3, SettledRecovers
<1>3. CASE Compare(t) /\ Returns(t, "OK")
  <2>1. pc[t] = "compare" /\ pc[t] \in Locked /\ flash' = flash
    BY <1>3 DEF Compare, Locked
  <2>2. flash[ram.part].val = ram.val
    BY <1>3, <1>a, <1>b DEF Compare, HeapOutcome, NoHeapFailure
  <2>3. Settled
    BY <2>1, WriterFacts DEF StageInv
  <2> QED
    BY <2>1, <2>2, <2>3, SettledRecovers
<1> QED
  BY <1>1, <1>2, <1>3

\* tls_param_set(.., to_flash = 1) returning OK means a reboot comes up with the
\* fields it was given.
THEOREM AckedSetIsDurable ==
    ASSUME NoHeapFailure, NoWrap
    PROVE  CoreSpec => SetDurable
<1>1. ASSUME IInv, CoreNext, NEW t \in Task, call[t].op = "set", call[t].toFlash,
             Ends(t, "OK"), NEW i \in DOMAIN call[t].arg
      PROVE  Recovered(flash')[i] = call[t].arg[i]
  <2>1. Recovered(flash') = ram.val /\ pc[t] \in Locked
    BY <1>1, AckStep
  <2> QED
    BY <1>1, <2>1 DEF IInv, ArgInv
<1>2. IInv /\ [CoreNext]_vars =>
        [\A t \in Task :
           call[t].op = "set" /\ call[t].toFlash /\ Ends(t, "OK") =>
             \A i \in DOMAIN call[t].arg : Recovered(flash')[i] = call[t].arg[i]]_vars
  BY <1>1
<1> QED
  BY <1>2, Invariant, PTL DEF CoreSpec, SetDurable

\* tls_param_to_flash returning OK means a reboot comes up with the parameters
\* that were in RAM, also when it found that nothing had to be written.
THEOREM AckedSaveIsDurable ==
    ASSUME NoHeapFailure, NoWrap
    PROVE  CoreSpec => SaveDurable
<1>1. IInv /\ [CoreNext]_vars =>
        [\A t \in Task :
           call[t].op = "save" /\ Ends(t, "OK") => Recovered(flash') = ram.val]_vars
  BY AckStep
<1> QED
  BY <1>1, Invariant, PTL DEF CoreSpec, SaveDurable

-----------------------------------------------------------------------------
(* Acknowledged writes when allocations fail.  A write that finds no memory *)
(* leaves flash_param one count and one partition ahead of flash: the next  *)
(* write may hit the newer partition, and between two updates flash_param   *)
(* need not name the one a reboot loads.  What remains is that flash_param  *)
(* is never behind.                                                         *)

\* tls_param_init can read flash, and the count that repairs a partition does
\* not wrap either.
BootReads == "boot" \notin HeapFails
RepairNoWrap == MaxCount + 1 < CountMod

\* tls_param_init rewrites a damaged partition.
Repairs(t) == call[t].op = "boot" /\ call[t].wcount = -1

\* What each stage of param_to_flash knows of the counts.
StageCount(t) ==
    /\ pc[t] \in {"write", "program", "verify"} => Ok(ram) /\ call[t].addr = ram.part
    /\ pc[t] \in {"write", "program"} /\ call[t].wcount = -1 =>
         \A p \in Part : Ok(flash[p]) => flash[p].count < ram.count
    /\ pc[t] = "verify" /\ call[t].wcount = -1 /\ Ok(flash[1 - ram.part]) =>
         flash[1 - ram.part].count < ram.count
    /\ pc[t] \in {"compare", "seal"} /\ call[t].op # "boot" => ram.count < MaxCount
    /\ pc[t] \in {"write", "program"} /\ ~Repairs(t) => ram.count <= MaxCount
    /\ pc[t] \in Locked /\ call[t].wcount = 1 => ram.count <= 1
    /\ pc[t] \in Locked /\ Repairs(t) =>
         /\ call[t].wpart \in Part /\ Ok(flash[1 - call[t].wpart])
         /\ pc[t] = "seal" => ram.count <= MaxCount
         /\ pc[t] # "seal" => ram.part = call[t].wpart /\ ram.count <= MaxCount + 1

\* No valid partition has a larger count than flash_param.
CountInv ==
    /\ \A p \in Part : Ok(flash[p]) => flash[p].count <= MaxCount + 1
    /\ \A p \in Part : Ok(flash[p]) /\ ~Ok(flash[1 - p]) => flash[p].count <= MaxCount
    /\ mode # "off" => \A p \in Part : Ok(flash[p]) => flash[p].count <= ram.count
    /\ \A t \in Task : StageCount(t)

HeapInv == TypeInv /\ LockInv /\ ArgInv /\ CountInv

\* A step that leaves flash, flash_param and the call alone keeps a stage.
LEMMA CountFrame ==
    ASSUME NEW u \in Task, StageCount(u), UNCHANGED <<flash, ram>>,
           pc'[u] = pc[u], call'[u] = call[u]
    PROVE  StageCount(u)'
BY DEF StageCount, Repairs

\* A task outside param_to_flash knows nothing.
LEMMA CountOutside ==
    ASSUME NEW u, pc'[u] \notin Locked
    PROVE  StageCount(u)'
BY DEF StageCount, Locked

\* The facts about the types that the steps below use.
LEMMA CountTypes ==
    ASSUME TypeInv
    PROVE  /\ pc \in [Task -> Stage] /\ call \in [Task -> Call] /\ Main \in Task
           /\ ram \in Sector /\ ram.part \in Part /\ ram.count \in Nat
           /\ flash \in [Part -> Sector] /\ \A p \in Part : flash[p].count \in Nat
           /\ \A t \in Task : /\ call[t] \in Call /\ call[t].wcount \in {-1, 1}
                              /\ call[t].wpart \in {-1, 0, 1} /\ call[t].addr \in Part
           /\ MaxCount \in Nat /\ MaxCount > 1 /\ CountMod \in Nat
           /\ NoTask \notin Task
<1>1. /\ pc \in [Task -> Stage] /\ call \in [Task -> Call] /\ ram \in Sector
      /\ flash \in [Part -> Sector]
  BY DEF TypeInv, TypeOK
<1>2. ram.part \in Part /\ ram.count \in Nat /\ \A p \in Part : flash[p].count \in Nat
  BY <1>1 DEF Sector
<1>3. \A t \in Task : /\ call[t] \in Call /\ call[t].wcount \in {-1, 1}
                      /\ call[t].wpart \in {-1, 0, 1} /\ call[t].addr \in Part
  BY <1>1 DEF Call
<1> QED
  BY <1>1, <1>2, <1>3, ParamAssumption

\* A step of t that leaves flash and the count alone.
LEMMA CountQuiet ==
    ASSUME CountInv, NEW t \in Task, UNCHANGED flash,
           ram'.count = ram.count,
           ram' = ram \/ \A u \in Task \ {t} : pc[u] \notin Locked,
           mode # "off", \A u \in Task \ {t} : pc'[u] = pc[u] /\ call'[u] = call[u],
           StageCount(t)'
    PROVE  CountInv'
<1>1. ASSUME NEW u \in Task PROVE StageCount(u)'
  <2>1. CASE u = t
    BY <2>1
  <2>2. CASE u # t /\ ram' = ram
    BY <2>2, CountFrame DEF CountInv
  <2>3. CASE u # t /\ pc[u] \notin Locked
    BY <2>3, CountOutside
  <2> QED
    BY <2>1, <2>2, <2>3
<1> QED
  BY <1>1 DEF CountInv

\* Seal gives out a count above those of the valid partitions.
LEMMA CountSeal ==
    ASSUME TypeInv, LockInv, CountInv, RepairNoWrap, NEW t \in Task, Seal(t)
    PROVE  CountInv'
<1> DEFINE c == IF call[t].wcount < 0 THEN (ram.count + 1) % CountMod ELSE call[t].wcount
           p == IF call[t].wpart < 0 THEN 1 - ram.part ELSE call[t].wpart
           d == [call[t] EXCEPT !.addr = p]
<1>a. pc[t] = "seal" /\ lock = t /\ mode # "off" /\ \A u \in Task \ {t} : pc[u] \notin Locked
  BY CountTypes DEF Seal, LockInv, Locked
<1>1. p \in Part
  BY CountTypes
<1>2. /\ ram' = [magic |-> TRUE, part |-> p, count |-> c, val |-> ram.val,
                 crc |-> [part |-> p, count |-> c, val |-> ram.val]]
      /\ call' = [call EXCEPT ![t] = d] /\ pc' = [pc EXCEPT ![t] = "write"]
      /\ UNCHANGED <<flash, mode>>
  BY DEF Seal
<1>3. /\ d.op = call[t].op /\ d.wcount = call[t].wcount /\ d.wpart = call[t].wpart
      /\ d.addr = p
  BY <1>1, CountTypes, CallEdits
<1>4. StageCount(t)
  BY DEF CountInv
<1>5. ram.count <= MaxCount \/ call[t].wcount = 1
  BY <1>4, <1>a, CountTypes DEF StageCount, Repairs, Locked
<1>6. /\ call[t].wcount = -1 => c = ram.count + 1
      /\ call[t].wcount = 1 => c = 1
  BY <1>5, CountTypes DEF RepairNoWrap
<1> HIDE DEF c, p, d
<1>7. ram'.part = p /\ ram'.count = c /\ Ok(ram')
  BY <1>2 DEF Ok, Image
<1>8. /\ pc'[t] = "write" /\ call'[t] = d
      /\ \A u \in Task \ {t} : pc'[u] = pc[u] /\ call'[u] = call[u]
  BY <1>2, CountTypes
<1>9. \A q \in Part : Ok(flash[q]) => flash[q].count <= ram.count
  BY <1>a DEF CountInv
<1>10. /\ call[t].wcount = 1 => ram.count <= 1
       /\ call[t].op # "boot" => ram.count < MaxCount
       /\ Repairs(t) => /\ call[t].wpart \in Part /\ Ok(flash[1 - call[t].wpart])
                        /\ ram.count <= MaxCount
  BY <1>4, <1>a DEF StageCount, Locked
<1>11. \A q \in Part : Ok(flash[q]) => flash[q].count <= c
  BY <1>6, <1>9, <1>10, CountTypes
<1>12. call[t].wcount = -1 => \A q \in Part : Ok(flash[q]) => flash[q].count < c
  BY <1>6, <1>9, CountTypes
<1>13. ~Repairs(t) => c <= MaxCount
  BY <1>6, <1>10, CountTypes DEF Repairs
<1>14. Repairs(t) => p = call[t].wpart /\ c <= MaxCount + 1
  <2>1. Repairs(t) => p = call[t].wpart
    BY <1>10 DEF p
  <2> QED
    BY <1>6, <1>10, <2>1, CountTypes DEF Repairs
<1>15. StageCount(t)'
  <2>1. Repairs(t)' <=> Repairs(t)
    BY <1>3, <1>8 DEF Repairs
  <2>2. flash' = flash
    BY <1>2
  <2> QED
    BY <1>3, <1>6, <1>7, <1>8, <1>10, <1>12, <1>13, <1>14, <2>1, <2>2 DEF StageCount
<1>16. \A u \in Task : StageCount(u)'
  BY <1>8, <1>15, <1>a, CountOutside
<1> QED
  BY <1>2, <1>7, <1>11, <1>16 DEF CountInv

\* Erasing the partition that is to be written keeps the other one.
LEMMA CountErase ==
    ASSUME TypeInv, LockInv, CountInv, NEW t \in Task, WriteErase(t)
    PROVE  CountInv'
<1>a. /\ pc[t] = "write" /\ lock = t /\ mode # "off"
      /\ \A u \in Task \ {t} : pc[u] \notin Locked
  BY CountTypes DEF WriteErase, LockInv, Locked
<1>1. StageCount(t) /\ call[t].addr = ram.part
  BY <1>a DEF CountInv, StageCount
<1>2. /\ flash' = [flash EXCEPT ![ram.part] = Erased]
      /\ pc' = [pc EXCEPT ![t] = "program"] /\ UNCHANGED <<ram, mode, call>>
  BY <1>1 DEF WriteErase
<1>3. \A p \in Part : /\ Ok(flash'[p]) => p # ram.part /\ Ok(flash[p])
                      /\ p # ram.part => flash'[p] = flash[p]
  BY <1>2, CountTypes, ErasedBad
<1>4. ASSUME NEW p \in Part, Ok(flash'[p]) PROVE flash'[p].count <= MaxCount
  <2>1. Ok(flash[p]) /\ flash'[p] = flash[p] /\ flash[p].count <= ram.count
    BY <1>3, <1>4, <1>a DEF CountInv
  <2>2. call[t].wcount = -1 => flash[p].count < ram.count
    BY <1>1, <1>a, <2>1 DEF StageCount
  <2>3. /\ call[t].wcount = 1 => ram.count <= 1
        /\ ram.count <= MaxCount + 1
    BY <1>1, <1>a, CountTypes DEF StageCount, Locked
  <2> QED
    BY <2>1, <2>2, <2>3, CountTypes
<1>5. pc'[t] = "program" /\ \A u \in Task \ {t} : pc'[u] = pc[u]
  BY <1>2, CountTypes
<1>6. Repairs(t) => ram.part = call[t].wpart /\ Ok(flash'[1 - call[t].wpart])
  BY <1>1, <1>3, <1>a, CountTypes DEF StageCount, Locked
<1>7. StageCount(t)'
  <2>1. Repairs(t)' <=> Repairs(t)
    BY <1>2 DEF Repairs
  <2>2. call[t].wcount = -1 => \A p \in Part : Ok(flash'[p]) => flash'[p].count < ram.count
    BY <1>1, <1>3, <1>a DEF StageCount
  <2>3. /\ Ok(ram) /\ (~Repairs(t) => ram.count <= MaxCount)
        /\ call[t].wcount = 1 => ram.count <= 1
        /\ Repairs(t) => call[t].wpart \in Part /\ ram.count <= MaxCount + 1
    BY <1>1, <1>a DEF StageCount, Locked
  <2> QED
    BY <1>1, <1>2, <1>5, <1>6, <2>1, <2>2, <2>3 DEF StageCount
<1>8. \A u \in Task : StageCount(u)'
  BY <1>5, <1>7, <1>a, CountOutside
<1> QED
  BY <1>2, <1>3, <1>4, <1>8, CountTypes DEF CountInv

\* Programming it gives it the largest count.
LEMMA CountProgram ==
    ASSUME TypeInv, LockInv, CountInv, NEW t \in Task, Program(t)
    PROVE  CountInv'
<1>a. /\ pc[t] = "program" /\ lock = t /\ mode # "off"
      /\ \A u \in Task \ {t} : pc[u] \notin Locked
  BY CountTypes DEF Program, LockInv, Locked
<1>1. StageCount(t) /\ call[t].addr = ram.part /\ Ok(ram)
  BY <1>a DEF CountInv, StageCount
<1>2. /\ flash' = [flash EXCEPT ![ram.part] = ram]
      /\ pc' = [pc EXCEPT ![t] = "verify"] /\ UNCHANGED <<ram, mode, call>>
  BY <1>1 DEF Program
<1>3. \A p \in Part : /\ p = ram.part => flash'[p] = ram
                      /\ p # ram.part => flash'[p] = flash[p]
  BY <1>2, CountTypes
<1>4. /\ ~Repairs(t) => ram.count <= MaxCount
      /\ Repairs(t) => /\ ram.part = call[t].wpart /\ Ok(flash[1 - ram.part])
                       /\ ram.count <= MaxCount + 1
  BY <1>1, <1>a DEF StageCount, Locked
<1>5. pc'[t] = "verify" /\ \A u \in Task \ {t} : pc'[u] = pc[u]
  BY <1>2, CountTypes
<1>6. StageCount(t)'
  <2>1. Repairs(t)' <=> Repairs(t)
    BY <1>2 DEF Repairs
  <2>2. flash'[1 - ram.part] = flash[1 - ram.part] /\ 1 - ram.part \in Part
    BY <1>3, CountTypes
  <2>3. call[t].wcount = -1 /\ Ok(flash[1 - ram.part]) => flash[1 - ram.part].count < ram.count
    BY <1>1, <1>a, <2>2 DEF StageCount
  <2>4. call[t].wcount = 1 => ram.count <= 1
    BY <1>1, <1>a DEF StageCount, Locked
  <2> QED
    BY <1>1, <1>2, <1>4, <1>5, <2>1, <2>2, <2>3, <2>4, CountTypes DEF StageCount
<1>7. \A u \in Task : StageCount(u)'
  BY <1>5, <1>6, <1>a, CountOutside
<1>8. \A p \in Part : Ok(flash'[p]) => flash'[p].count <= MaxCount + 1
  BY <1>3, <1>4, CountTypes DEF CountInv
<1>9. ASSUME NEW p \in Part, Ok(flash'[p]), ~Ok(flash'[1 - p])
      PROVE  flash'[p].count <= MaxCount
  <2>1. p = ram.part
    BY <1>1, <1>3, <1>9, CountTypes
  <2> QED
    BY <1>3, <1>4, <1>9, <2>1, CountTypes
<1>10. \A p \in Part : Ok(flash'[p]) => flash'[p].count <= ram.count
  BY <1>3, <1>a, CountTypes DEF CountInv
<1> QED
  BY <1>2, <1>7, <1>8, <1>9, <1>10 DEF CountInv

\* tls_param_init takes over the largest count.
LEMMA CountBoot ==
    ASSUME TypeInv, LockInv, CountInv, BootReads, Boot
    PROVE  CountInv'
<1>1. mode = "off" /\ \A u \in Task : pc[u] = "idle"
  BY DEF Boot, BootLoad, BootRepair, BootDefault, BootNoMem, LockInv
<1>2. CASE BootLoad
  <2>1. Loaded(flash) \in Part /\ \A p \in Part : flash[p].count <= flash[Loaded(flash)].count
    BY <1>2, CountTypes DEF BootLoad, Loaded
  <2>2. \A u \in Task : StageCount(u)'
    BY <1>1, <1>2, CountOutside DEF BootLoad, Locked
  <2> QED
    BY <1>2, <2>1, <2>2 DEF BootLoad, CountInv
<1>3. ASSUME NEW w \in {-1, 1}, NEW p \in Part,
             call' = [call EXCEPT ![Main] = BootCall(w, p)],
             pc' = [pc EXCEPT ![Main] = "seal"], flash' = flash,
             w = 1 => ram'.count <= 1,
             w = -1 => ram'.count <= MaxCount /\ Ok(flash[1 - p]),
             \A q \in Part : Ok(flash[q]) => flash[q].count <= ram'.count
      PROVE  CountInv'
  <2>1. BootCall(w, p).op = "boot" /\ BootCall(w, p).wcount = w /\ BootCall(w, p).wpart = p
    BY StartFields
  <2>2. /\ call'[Main].op = "boot" /\ call'[Main].wcount = w /\ call'[Main].wpart = p
        /\ pc'[Main] = "seal" /\ \A u \in Task \ {Main} : pc'[u] = "idle"
    BY <1>1, <1>3, <2>1, CountTypes
  <2>3. StageCount(Main)'
    BY <1>3, <2>2 DEF StageCount, Repairs, Locked
  <2>4. \A u \in Task : StageCount(u)'
    BY <2>2, <2>3, CountOutside DEF Locked
  <2> QED
    BY <1>3, <2>4 DEF CountInv
<1>4. CASE BootRepair
  <2>1. PICK p \in Part :
          /\ ~Ok(flash[p]) /\ Ok(flash[1 - p])
          /\ ram' = flash[1 - p]
          /\ call' = [call EXCEPT ![Main] = BootCall(-1, p)]
    BY <1>4 DEF BootRepair
  <2>2. 1 - p \in Part /\ 1 - (1 - p) = p
    OBVIOUS
  <2>3. ram'.count <= MaxCount
    BY <2>1, <2>2 DEF CountInv
  <2>4. \A q \in Part : Ok(flash[q]) => flash[q].count <= ram'.count
    BY <2>1, CountTypes
  <2>5. pc' = [pc EXCEPT ![Main] = "seal"] /\ flash' = flash
    BY <1>4 DEF BootRepair
  <2> HIDE DEF Part
  <2>6. -1 \in {-1, 1} /\ -1 # 1
    OBVIOUS
  <2> QED
    BY <1>3, <2>1, <2>3, <2>4, <2>5, <2>6
<1>5. CASE BootDefault
  <2>1. ram' = [RamCleared EXCEPT !.val = Factory] /\ \A q \in Part : ~Ok(flash[q])
    BY <1>5 DEF BootDefault, AnyValid
  <2>2. ram'.count = 0
    BY <2>1 DEF RamCleared
  <2> QED
    BY <1>3, <1>5, <2>1, <2>2 DEF BootDefault
<1> QED
  BY <1>2, <1>4, <1>5 DEF Boot, BootNoMem, BootReads

\* Every step keeps the counts in order.
LEMMA CountStep ==
    ASSUME TypeInv, LockInv, CountInv, BootReads, RepairNoWrap, CoreNext
    PROVE  CountInv'
<1>a. /\ pc \in [Task -> Stage] /\ call \in [Task -> Call] /\ NoTask \notin Task
      /\ ram \in Sector /\ \A t \in Task : call[t] \in Call
  BY CountTypes
<1>b. ASSUME NEW t \in Task, pc'[t] \notin Locked, UNCHANGED <<flash, ram>>,
             pc[t] # "idle" \/ mode = "up",
             \A u \in Task \ {t} : pc'[u] = pc[u] /\ call'[u] = call[u]
      PROVE  CountInv'
  <2>1. mode # "off" /\ StageCount(t)'
    BY <1>b, CountOutside DEF LockInv
  <2> QED
    BY <1>b, <2>1, CountQuiet
<1>f. ASSUME NEW t \in Task, NEW r \in {"OK", "EIO"}, Finish(t, r), pc[t] \in Locked,
             UNCHANGED flash
      PROVE  CountInv'
  <2>1. Returns(t, r) /\ UNCHANGED ram
    BY <1>f DEF Finish, LockInv
  <2>2. pc'[t] = "idle" /\ \A u \in Task \ {t} : pc'[u] = pc[u] /\ call'[u] = call[u]
    BY <1>a, <2>1 DEF Returns
  <2> QED
    BY <1>b, <1>f, <2>1, <2>2 DEF Locked
<1>1. ASSUME NEW t \in Task, Verify(t) \/ WriteNoMem(t) PROVE CountInv'
  <2>1. CASE /\ call[t].wcount = 1
             /\ call' = [call EXCEPT ![t].wpart = 1]
             /\ pc' = [pc EXCEPT ![t] = "seal"]
             /\ pc[t] = "verify" /\ UNCHANGED <<flash, ram>>
    <3> DEFINE d == [call[t] EXCEPT !.wpart = 1]
    <3>1. d.op = call[t].op /\ d.wcount = 1
      BY <1>a, <2>1, CallEdits
    <3>2. call' = [call EXCEPT ![t] = d]
      BY <2>1
    <3> HIDE DEF d
    <3>3. /\ call'[t] = d /\ pc'[t] = "seal"
          /\ \A u \in Task \ {t} : pc'[u] = pc[u] /\ call'[u] = call[u]
      BY <1>a, <2>1, <3>2
    <3>4. call[t].op = "boot" /\ mode # "off"
      BY <2>1 DEF LockInv
    <3>5. ram.count <= 1
      BY <2>1 DEF CountInv, StageCount, Locked
    <3>6. StageCount(t)'
      BY <2>1, <3>1, <3>3, <3>4, <3>5 DEF StageCount, Repairs, Locked
    <3> QED
      BY <2>1, <3>3, <3>4, <3>6, CountQuiet
  <2>2. CASE \E r \in {"OK", "EIO"} : Finish(t, r)
    BY <1>1, <1>f, <2>2 DEF Verify, WriteNoMem, Locked
  <2> QED
    BY <1>1, <2>1, <2>2 DEF Verify, WriteNoMem
<1>2. ASSUME NEW t \in Task, NEW b \in BOOLEAN, NEW arg \in Arg,
             SetCall(t, arg, b) \/ GetCall(t, b) \/ GetRead(t) \/ GetCopy(t)
      PROVE  CountInv'
  <2>1. /\ pc'[t] \notin Locked /\ UNCHANGED <<flash, ram>>
        /\ pc[t] # "idle" \/ mode = "up"
        /\ \A u \in Task \ {t} : pc'[u] = pc[u] /\ call'[u] = call[u]
    BY <1>2, <1>a DEF SetCall, GetCall, GetRead, GetCopy, Returns, Locked, Idle
  <2> QED
    BY <1>b, <2>1
<1>3. ASSUME NEW t \in Task, pc'[t] \in {"seal", "compare"}, ram.count < MaxCount,
             ram'.count = ram.count, UNCHANGED flash, mode # "off",
             \A u \in Task \ {t} : pc'[u] = pc[u] /\ call'[u] = call[u],
             call'[t].op # "boot", call'[t].wcount = -1,
             ram' = ram \/ \A u \in Task \ {t} : pc[u] \notin Locked
      PROVE  CountInv'
  <2>1. StageCount(t)'
    BY <1>3 DEF StageCount, Repairs, Locked
  <2> QED
    BY <1>3, <2>1, CountQuiet
<1>4. ASSUME NEW t \in Task, SetApply(t) PROVE CountInv'
  <2>1. /\ lock = NoTask /\ ~call[t].usr /\ mode # "off" /\ flash' = flash
        /\ call[t].op = "set" /\ call[t].wcount = -1
        /\ \A u \in Task : pc[u] \notin Locked
    BY <1>4, <1>a DEF SetApply, LockInv
  <2>2. ram'.count = ram.count
    BY <1>4, <1>a, <2>1 DEF SetApply, Sector
  <2>3. CASE call[t].toFlash /\ ~updp
    <3>1. /\ pc'[t] = "seal" /\ call' = call /\ ram.count < MaxCount
          /\ \A u \in Task \ {t} : pc'[u] = pc[u]
      BY <1>4, <1>a, <2>3 DEF SetApply
    <3> QED
      BY <1>3, <2>1, <2>2, <3>1
  <2>4. CASE ~(call[t].toFlash /\ ~updp)
    <3>1. pc'[t] = "idle" /\ \A u \in Task \ {t} : pc'[u] = pc[u] /\ call'[u] = call[u]
      BY <1>4, <1>a, <2>4 DEF SetApply, Returns
    <3>2. StageCount(t)'
      BY <3>1, CountOutside DEF Locked
    <3> QED
      BY <2>1, <2>2, <3>1, <3>2, CountQuiet
  <2> QED
    BY <2>3, <2>4
<1>5. ASSUME NEW t \in Task, NEW b \in BOOLEAN, SaveCall(t, b) PROVE CountInv'
  <2>1. call'[t].op = "save" /\ call'[t].wcount = -1
    BY <1>5, <1>a, StartFields DEF SaveCall
  <2>2. /\ pc'[t] \in {"seal", "compare"} /\ ram.count < MaxCount /\ mode = "up"
        /\ UNCHANGED <<flash, ram>>
        /\ \A u \in Task \ {t} : pc'[u] = pc[u] /\ call'[u] = call[u]
    BY <1>5, <1>a DEF SaveCall, Idle
  <2> QED
    BY <1>3, <2>1, <2>2
<1>6. ASSUME NEW t \in Task, Compare(t) PROVE CountInv'
  <2>1. /\ pc[t] = "compare" /\ UNCHANGED <<flash, ram>>
        /\ call[t].op = "save" /\ call[t].wcount = -1 /\ mode # "off"
    BY <1>6 DEF Compare, LockInv
  <2>2. ram.count < MaxCount
    BY <2>1 DEF CountInv, StageCount
  <2>3. CASE Returns(t, "OK")
    <3>1. pc'[t] = "idle" /\ \A u \in Task \ {t} : pc'[u] = pc[u] /\ call'[u] = call[u]
      BY <1>a, <2>3 DEF Returns
    <3> QED
      BY <1>b, <2>1, <3>1 DEF Locked
  <2>4. CASE pc' = [pc EXCEPT ![t] = "seal"] /\ UNCHANGED call
    <3>1. pc'[t] = "seal" /\ \A u \in Task \ {t} : pc'[u] = pc[u]
      BY <1>a, <2>4
    <3> QED
      BY <1>3, <2>1, <2>2, <2>4, <3>1
  <2> QED
    BY <1>6, <2>3, <2>4 DEF Compare
<1>7. ASSUME Crash PROVE CountInv'
  <2>1. \A u \in Task : StageCount(u)'
    BY <1>7, CountOutside DEF Crash, Locked
  <2> QED
    BY <1>7, <2>1 DEF Crash, CountInv
<1>8. ASSUME NEW t \in Task, CoreCall(t) PROVE CountInv'
  BY <1>2, <1>5, <1>8, ArgTypes DEF CoreCall
<1>9. ASSUME NEW t \in Task, TaskStep(t) PROVE CountInv'
  BY <1>1, <1>2, <1>4, <1>6, <1>9, CountSeal, CountErase, CountProgram, ArgTypes
     DEF TaskStep, ParamToFlash
<1> QED
  BY <1>7, <1>8, <1>9, CountBoot DEF CoreNext

\* The set that returns OK has just written the largest count.
LEMMA HeapAck ==
    ASSUME HeapInv, CoreNext, NEW t \in Task, Ends(t, "OK"),
           call[t].op = "set", call[t].toFlash
    PROVE  Recovered(flash') = ram.val /\ pc[t] \in Locked
<1> USE DEF HeapInv
<1>a. /\ pc \in [Task -> Stage] /\ call \in [Task -> Call] /\ Main \in Task
      /\ updp = FALSE
  BY CountTypes DEF LockInv
<1>b. /\ pc[t] # "idle" /\ pc'[t] = "idle" /\ mode' = "up" /\ mode # "off"
      /\ call'[t].ret = "OK"
  BY DEF Ends, LockInv
<1>1. ASSUME NEW r \in {"OK", "EIO", "EMEM"}, Returns(t, r) PROVE r = "OK"
  <2>1. [NoCall EXCEPT !.ret = r].ret = r
    BY RecordTypes DEF Call
  <2>2. call'[t] = [NoCall EXCEPT !.ret = r]
    BY <1>1, <1>a DEF Returns
  <2> QED
    BY <1>b, <2>1, <2>2
<1>2. Verify(t)
  <2>1. ~Boot /\ ~Crash
    BY <1>b DEF Boot, BootLoad, BootRepair, BootDefault, BootNoMem, Crash
  <2>2. ASSUME NEW u \in Task, CoreCall(u) \/ TaskStep(u) PROVE u = t
    <3>1. ASSUME u # t PROVE pc'[t] = pc[t]
      BY <1>a, <2>2, <3>1 DEF CoreCall, SetCall, SaveCall, GetCall, TaskStep, ParamToFlash,
         Seal, WriteErase, WriteNoMem, Program, Verify, Finish, Returns, SetApply,
         Compare, GetRead, GetCopy
    <3> QED
      BY <1>b, <3>1
  <2>3. TaskStep(t) \/ CoreCall(t)
    BY <2>1, <2>2 DEF CoreNext
  <2>4. ~CoreCall(t)
    BY <1>b DEF CoreCall, SetCall, SaveCall, GetCall, Idle
  <2>5. ~Seal(t) /\ ~WriteErase(t) /\ ~Program(t) /\ ~GetRead(t)
    BY <1>a, <1>b DEF Seal, WriteErase, Program, GetRead
  <2>6. ~WriteNoMem(t)
    BY <1>1 DEF WriteNoMem, Finish
  <2>7. ~GetCopy(t) /\ ~Compare(t)
    BY DEF GetCopy, Compare, LockInv
  <2>8. ~SetApply(t)
    BY <1>a, <1>b DEF SetApply
  <2> QED
    BY <2>3, <2>4, <2>5, <2>6, <2>7, <2>8 DEF TaskStep, ParamToFlash
<1>3. pc[t] = "verify" /\ pc[t] \in Locked /\ flash' = flash
  BY <1>2 DEF Verify, Locked
<1>4. call[t].wcount = -1
  BY <1>3 DEF LockInv
<1>5. flash[ram.part] = ram
  <2>1. PICK same \in VerifyOutcome : Finish(t, IF same THEN "OK" ELSE "EIO")
    BY <1>2, <1>4 DEF Verify
  <2>2. same
    BY <1>1, <2>1 DEF Finish
  <2> QED
    BY <2>1, <2>2 DEF VerifyOutcome
<1>6. Ok(ram) /\ (Ok(flash[1 - ram.part]) => flash[1 - ram.part].count < ram.count)
  BY <1>3, <1>4 DEF CountInv, StageCount
<1>7. Recovered(flash) = flash[ram.part].val
  BY <1>5, <1>6, CountTypes, RecoveredIs
<1> QED
  BY <1>3, <1>5, <1>7

\* tls_param_set(.., to_flash = 1) that returns OK is durable also when
\* allocations fail, before it, in it and in other tasks' calls, as long as
\* tls_param_init could read flash: a failed write may cost the older copy, but
\* never makes a later write lose against what it should replace.
THEOREM AckedSetSurvivesHeapFailures ==
    ASSUME BootReads, RepairNoWrap
    PROVE  CoreSpec => SetDurable
<1>1. Init => HeapInv
  <2> SUFFICES ASSUME Init PROVE HeapInv
    OBVIOUS
  <2>1. TypeInv /\ LockInv /\ ArgInv
    BY InvInit DEF IInv
  <2>2. \A p \in Part : ~Ok(flash[p])
    BY ErasedBad DEF Init
  <2>3. CountInv
    BY <2>2 DEF Init, CountInv, StageCount, Locked
  <2> QED
    BY <2>1, <2>3 DEF HeapInv
<1>2. HeapInv /\ [CoreNext]_vars => HeapInv'
  <2> SUFFICES ASSUME HeapInv, [CoreNext]_vars PROVE HeapInv'
    OBVIOUS
  <2>1. CASE CoreNext
    BY <2>1, CoreIsNext, TypeStep, LockStep, ArgStep, CountStep DEF HeapInv
  <2>2. CASE UNCHANGED vars
    BY <2>2 DEF vars, HeapInv, TypeInv, TypeOK, LockInv, ArgInv, CountInv, StageCount, Repairs
  <2> QED
    BY <2>1, <2>2
<1>3. ASSUME HeapInv, CoreNext, NEW t \in Task, call[t].op = "set", call[t].toFlash,
             Ends(t, "OK"), NEW i \in DOMAIN call[t].arg
      PROVE  Recovered(flash')[i] = call[t].arg[i]
  <2>1. Recovered(flash') = ram.val /\ pc[t] \in Locked
    BY <1>3, HeapAck
  <2> QED
    BY <1>3, <2>1 DEF HeapInv, ArgInv
<1>4. HeapInv /\ [CoreNext]_vars =>
        [\A t \in Task :
           call[t].op = "set" /\ call[t].toFlash /\ Ends(t, "OK") =>
             \A i \in DOMAIN call[t].arg : Recovered(flash')[i] = call[t].arg[i]]_vars
  BY <1>3
<1> QED
  BY <1>1, <1>2, <1>4, PTL DEF CoreSpec, SetDurable

-----------------------------------------------------------------------------
(* Refinement                                                              *)

Mem == IF mode = "off" THEN Recovered(flash) ELSE ram.val

\* Every step of the store is a step of the atomic one or invisible to it.
LEMMA AtomicStep ==
    ASSUME NoHeapFailure, IInv, CoreNext
    PROVE  \/ Recovered(flash)' = Recovered(flash) /\ (Mem' = Mem \/ Mem' \in Params)
           \/ Recovered(flash)' = Mem /\ Mem' = Mem
           \/ Mem' = Recovered(flash) /\ Recovered(flash)' = Recovered(flash)
<1> USE DEF IInv
<1>a. /\ flash \in [Part -> Sector] /\ ram \in Sector /\ ram.val \in Params
      /\ ram.part \in Part /\ flash[0].count \in Nat /\ flash[1].count \in Nat
      /\ ram.count \in Nat
  BY DEF TypeInv, TypeOK, Sector
<1>1. ASSUME NEW t \in Task, WriteErase(t)
      PROVE  Recovered(flash)' = Recovered(flash) /\ Mem' = Mem
  <2>1. pc[t] = "write" /\ pc[t] \in Locked
    BY <1>1 DEF WriteErase, Locked
  <2>2. call[t].addr = ram.part /\ mode # "off"
    BY <2>1, WriterFacts DEF StageInv, LockInv
  <2>3. flash' = [flash EXCEPT ![ram.part] = Erased] /\ UNCHANGED <<ram, mode>>
    BY <1>1, <2>2 DEF WriteErase
  <2>4. flash'[ram.part] = Erased /\ flash'[1 - ram.part] = flash[1 - ram.part]
    BY <1>a, <2>3
  <2>5. Recovered(flash') = Recovered(flash)
    <3>1. CASE call[t].wcount = 1
      <4>1. FirstBoot(t) /\ ~Ok(flash[ram.part])
        BY <2>1, <3>1, WriterFacts DEF StageInv
      <4> QED
        BY <1>a, <2>4, <4>1, ErasedBad DEF FirstBoot, Recovered, AnyValid, Loaded
    <3>2. CASE call[t].wcount # 1
      <4>1. Sealed
        BY <2>1, <3>2, WriterFacts DEF StageInv
      <4>2. Recovered(flash) = flash[1 - ram.part].val
        BY <4>1, SealedRecovers
      <4>3. Recovered(flash') = flash'[1 - ram.part].val
        BY <1>a, <2>4, <4>1, ErasedBad DEF Sealed, Recovered, AnyValid, Loaded
      <4> QED
        BY <2>4, <4>2, <4>3
    <3> QED
      BY <3>1, <3>2
  <2> QED
    BY <2>2, <2>3, <2>5 DEF Mem
<1>2. ASSUME NEW t \in Task, Program(t)
      PROVE  Recovered(flash)' = Mem /\ Mem' = Mem
  <2>1. pc[t] = "program" /\ pc[t] \in Locked
    BY <1>2 DEF Program, Locked
  <2>2. call[t].addr = ram.part /\ mode # "off"
    BY <2>1, WriterFacts DEF StageInv, LockInv
  <2>3. flash' = [flash EXCEPT ![ram.part] = ram] /\ UNCHANGED <<ram, mode>>
    BY <1>2, <2>2 DEF Program
  <2>4. flash'[ram.part] = ram /\ flash'[1 - ram.part] = flash[1 - ram.part]
    BY <1>a, <2>3
  <2>5. Recovered(flash') = ram.val
    <3>1. /\ Ok(ram)
          /\ Ok(flash[1 - ram.part]) =>
               \/ flash[1 - ram.part].count < ram.count
               \/ flash[1 - ram.part].count = ram.count /\ flash[1 - ram.part].val = ram.val
      <4>1. CASE call[t].wcount = 1
        BY <1>a, <2>1, <4>1, WriterFacts DEF StageInv, FirstBoot
      <4>2. CASE call[t].wcount # 1
        BY <1>a, <2>1, <4>2, WriterFacts DEF StageInv, Sealed
      <4> QED
        BY <4>1, <4>2
    <3>2. flash'[0].count \in Nat /\ flash'[1].count \in Nat
      BY <1>a, <2>4
    <3> QED
      BY <1>a, <2>4, <3>1, <3>2, RecoveredIs
  <2> QED
    BY <2>2, <2>3, <2>5 DEF Mem
<1>3. ASSUME Boot PROVE Recovered(flash)' = Recovered(flash) /\ Mem' = Mem
  <2>1. mode = "off" /\ mode' # "off" /\ flash' = flash
    BY <1>3 DEF Boot, BootLoad, BootRepair, BootDefault, BootNoMem
  <2>2. ram'.val = Recovered(flash)
    <3>1. CASE BootLoad
      BY <3>1 DEF BootLoad, Recovered, AnyValid
    <3>2. CASE BootRepair
      BY <3>2 DEF BootRepair, Recovered, AnyValid, Loaded
    <3>3. CASE BootDefault
      <4>1. [RamCleared EXCEPT !.val = Factory].val = Factory
        BY RecordTypes DEF Sector
      <4> QED
        BY <3>3, <4>1 DEF BootDefault, Recovered
    <3> QED
      BY <1>3, <3>1, <3>2, <3>3, HeapNeverFails DEF Boot
  <2> QED
    BY <2>1, <2>2 DEF Mem
<1>4. ASSUME Crash PROVE Mem' = Recovered(flash) /\ Recovered(flash)' = Recovered(flash)
  BY <1>4 DEF Crash, Mem
<1>5. ASSUME NEW t \in Task, SetApply(t)
      PROVE  Recovered(flash)' = Recovered(flash) /\ Mem' \in Params
  <2>1. mode # "off" /\ UNCHANGED <<mode, flash>>
    BY <1>5 DEF SetApply, LockInv
  <2>2. TypeInv'
    BY CoreIsNext, TypeStep
  <2> QED
    BY <2>1, <2>2 DEF Mem, TypeInv, TypeOK
<1>6. ASSUME UNCHANGED flash, ram'.val = ram.val, mode # "off", mode' # "off"
      PROVE  Recovered(flash)' = Recovered(flash) /\ Mem' = Mem
  BY <1>6 DEF Mem
<1>7. ASSUME NEW t \in Task, Seal(t) \/ Compare(t) \/ GetRead(t) \/ GetCopy(t)
      PROVE  Recovered(flash)' = Recovered(flash) /\ Mem' = Mem
  <2>1. mode # "off" /\ UNCHANGED <<flash, mode>> /\ ram'.val = ram.val
    BY <1>7 DEF Seal, Compare, GetRead, GetCopy, LockInv
  <2> QED
    BY <1>6, <2>1
<1>8. ASSUME NEW t \in Task, Verify(t)
      PROVE  Recovered(flash)' = Recovered(flash) /\ Mem' = Mem
  <2>1. mode # "off" /\ mode' # "off" /\ UNCHANGED <<flash, ram>>
    BY <1>8, VerifySucceeds DEF LockInv
  <2> QED
    BY <1>6, <2>1
<1>9. ASSUME NEW t \in Task, CoreCall(t)
      PROVE  Recovered(flash)' = Recovered(flash) /\ Mem' = Mem
  <2>1. mode = "up" /\ UNCHANGED <<flash, ram, mode>>
    BY <1>9 DEF CoreCall, SetCall, SaveCall, GetCall, Idle
  <2> QED
    BY <1>6, <2>1
<1> QED
  BY <1>1, <1>2, <1>3, <1>4, <1>5, <1>7, <1>8, <1>9, HeapNeverFails
     DEF CoreNext, TaskStep, ParamToFlash

\* The two-partition store implements the atomic one: an update takes effect as
\* a whole or not at all, wherever power is cut, during repair and first boot
\* too, for every number of tasks and parameters.
THEOREM StoreIsAtomic ==
    ASSUME NoHeapFailure, NoWrap
    PROVE  CoreSpec => ImplementsAtomic
<1>1. Init => Atomic!Init
  <2>1. Init => Recovered(flash) = Factory
    BY ErasedBad DEF Init, Recovered, AnyValid
  <2> QED
    BY <2>1 DEF Init, Atomic!Init
<1>2. IInv /\ [CoreNext]_vars => [Atomic!Next]_<<Mem, Recovered(flash)>>
  <2>1. ASSUME IInv, CoreNext PROVE [Atomic!Next]_<<Mem, Recovered(flash)>>
    BY <2>1, AtomicStep DEF Atomic!Next, Atomic!Update, Atomic!Commit, Atomic!Restart, Mem
  <2>2. UNCHANGED vars => UNCHANGED <<Mem, Recovered(flash)>>
    BY DEF vars, Mem, Recovered, AnyValid, Loaded, Ok, Image
  <2> QED
    BY <2>1, <2>2
<1> QED
  BY <1>1, <1>2, Invariant, PTL DEF CoreSpec, ImplementsAtomic, Atomic!Spec, Mem

-----------------------------------------------------------------------------
(* One task and the whole API.  tls_param_to_default and the functions of   *)
(* the user defaults take no lock, so what they promise is only promised to *)
(* the only task that uses the store; the heap may fail and the count wrap. *)

OneTask == Task = {Main}

\* How far tls_param_to_default has come.
DefaultInv ==
    /\ mode = "off" => pc[Main] = "idle"
    /\ pc[Main] # "idle" /\ call[Main].op = "default" =>
         /\ Writing(Main) /\ call[Main].wcount = 1 /\ call[Main].wpart \in Part
         /\ ram.val = Factory
         /\ pc[Main] # "seal" => call[Main].addr = call[Main].wpart
         /\ pc[Main] = "verify" \/ call[Main].wpart = 1 => flash[0].val = Factory
         /\ pc[Main] = "verify" /\ call[Main].wpart = 1 => flash[1].val = Factory

\* Sector u holds what the writes before the given step put there.
SavedBefore(u, step) ==
    /\ step > 1 => u.magic
    /\ step > 2 => u.val = usrRam

\* How far tls_param_save_user_default has come, if no write of it failed.
UserInv ==
    call[Main].ret = "OK" =>
        /\ pc[Main] = "usrwrite" => SavedBefore(usrFlash, call[Main].step)
        /\ pc[Main] = "usrprogram" => SavedBefore(call[Main].usrBuf, call[Main].step)

\* The fields that edits of a call of the user defaults leave alone.
LEMMA UserEdits ==
    ASSUME NEW c \in Call
    PROVE  /\ \A u \in UsrSector : LET d == [c EXCEPT !.usrBuf = u] IN
                d.op = c.op /\ d.usrBuf = u /\ d.step = c.step /\ d.ret = c.ret
           /\ \A n \in 0 .. 3, r \in {"OK", "EIO", "EMEM"} :
                LET d == [c EXCEPT !.step = n, !.ret = r] IN
                d.op = c.op /\ d.step = n /\ d.ret = r
<1>1. ASSUME NEW u \in UsrSector
      PROVE  LET d == [c EXCEPT !.usrBuf = u] IN
                d.op = c.op /\ d.usrBuf = u /\ d.step = c.step /\ d.ret = c.ret
  BY DEF Call
<1>2. ASSUME NEW n \in 0 .. 3, NEW r \in {"OK", "EIO", "EMEM"}
      PROVE  LET d == [c EXCEPT !.step = n, !.ret = r] IN
                d.op = c.op /\ d.step = n /\ d.ret = r
  BY DEF Call
<1> QED
  BY <1>1, <1>2

\* The fields of the calls that the core does not have.
LEMMA MoreFields ==
    /\ LET d == [NoCall EXCEPT !.op = "default", !.wcount = 1, !.wpart = 0] IN
         d.op = "default" /\ d.wcount = 1 /\ d.wpart = 0
    /\ LET d == [NoCall EXCEPT !.op = "saveuser", !.step = 1] IN
         d.op = "saveuser" /\ d.step = 1
    /\ \A r \in {"OK", "EIO", "EMEM"} : [NoCall EXCEPT !.ret = r].ret = r
<1>1. NoCall \in Call
  BY RecordTypes
<1> QED
  BY <1>1 DEF Call

\* The result of a call that ends.
LEMMA EndsWith ==
    ASSUME TypeInv, NEW t \in Task, NEW r \in {"OK", "EIO", "EMEM"}, Returns(t, r)
    PROVE  pc'[t] = "idle" /\ call'[t].ret = r
BY CountTypes, MoreFields DEF Returns

\* tls_param_to_default leaves its writes where they belong.
LEMMA DefaultStep ==
    ASSUME OneTask, TypeInv, DefaultInv, Next
    PROVE  DefaultInv'
<1>a. /\ pc \in [Task -> Stage] /\ call \in [Task -> Call] /\ Main \in Task
      /\ flash \in [Part -> Sector] /\ ram \in Sector /\ ram.val \in Params
      /\ call[Main] \in Call /\ call[Main].wpart \in {-1, 0, 1} /\ ram.part \in Part
      /\ call[Main].usrBuf \in UsrSector /\ call[Main].addr \in Part
      /\ call[Main].ret \in {"OK", "EIO", "EMEM"} /\ usrFlash \in UsrSector
      /\ \A p \in Part : flash[p] \in Sector
  BY CountTypes DEF TypeInv, TypeOK, Call
<1>t. \A t \in Task : t = Main
  BY DEF OneTask
<1>i. ASSUME pc'[Main] = "idle" PROVE DefaultInv'
  BY <1>i DEF DefaultInv
<1>o. ASSUME call'[Main].op # "default", mode' # "off" PROVE DefaultInv'
  BY <1>o DEF DefaultInv
<1>k. ASSUME pc[Main] # "idle", mode' = mode, call'[Main].op = call[Main].op, ~Writing(Main)
      PROVE  DefaultInv'
  BY <1>k, <1>o DEF DefaultInv
<1>r. ASSUME NEW r \in {"OK", "EIO", "EMEM"}, Returns(Main, r) PROVE DefaultInv'
  BY <1>i, <1>r, <1>a, EndsWith
<1>1. ASSUME Seal(Main) PROVE DefaultInv'
  <2> DEFINE p == IF call[Main].wpart < 0 THEN 1 - ram.part ELSE call[Main].wpart
             d == [call[Main] EXCEPT !.addr = p]
  <2>1. p \in Part
    BY <1>a
  <2>2. /\ d.op = call[Main].op /\ d.wcount = call[Main].wcount
        /\ d.wpart = call[Main].wpart /\ d.addr = p
    BY <1>a, <2>1, CallEdits
  <2>3. /\ call' = [call EXCEPT ![Main] = d] /\ pc' = [pc EXCEPT ![Main] = "write"]
        /\ ram'.val = ram.val /\ UNCHANGED <<flash, mode>> /\ pc[Main] = "seal"
    BY <1>1 DEF Seal
  <2>4. call[Main].wpart \in Part => p = call[Main].wpart
    OBVIOUS
  <2> HIDE DEF d, p
  <2>5. call'[Main] = d /\ pc'[Main] = "write"
    BY <1>a, <2>3
  <2> QED
    BY <2>2, <2>3, <2>4, <2>5 DEF DefaultInv, Writing
<1>2. ASSUME WriteErase(Main) PROVE DefaultInv'
  <2>1. /\ pc[Main] = "write" /\ pc'[Main] = "program" /\ UNCHANGED <<ram, mode, call>>
        /\ flash' = [flash EXCEPT ![call[Main].addr] = Erased]
    BY <1>2, <1>a DEF WriteErase
  <2>2. call[Main].addr = 1 => flash'[0] = flash[0]
    BY <1>a, <2>1
  <2> QED
    BY <2>1, <2>2 DEF DefaultInv, Writing
<1>3. ASSUME Program(Main) PROVE DefaultInv'
  <2>1. /\ pc[Main] = "program" /\ pc'[Main] = "verify" /\ UNCHANGED <<ram, mode, call>>
        /\ flash' = [flash EXCEPT ![call[Main].addr] = ram]
    BY <1>3, <1>a DEF Program
  <2>2. /\ call[Main].addr = 0 => flash'[0] = ram
        /\ call[Main].addr = 1 => flash'[1] = ram /\ flash'[0] = flash[0]
    BY <1>a, <2>1
  <2> QED
    BY <2>1, <2>2 DEF DefaultInv, Writing
<1>4. ASSUME Verify(Main) \/ WriteNoMem(Main) PROVE DefaultInv'
  <2>1. CASE /\ call' = [call EXCEPT ![Main].wpart = 1]
             /\ pc' = [pc EXCEPT ![Main] = "seal"]
             /\ pc[Main] = "verify" /\ UNCHANGED <<flash, ram, mode>>
    <3> DEFINE d == [call[Main] EXCEPT !.wpart = 1]
    <3>1. d.op = call[Main].op /\ d.wcount = call[Main].wcount /\ d.wpart = 1
      BY <1>a, CallEdits
    <3>2. call' = [call EXCEPT ![Main] = d]
      BY <2>1
    <3> HIDE DEF d
    <3>3. call'[Main] = d /\ pc'[Main] = "seal"
      BY <1>a, <2>1, <3>2
    <3> QED
      BY <2>1, <3>1, <3>3 DEF DefaultInv, Writing
  <2>2. CASE \E r \in {"OK", "EIO"} : Finish(Main, r)
    BY <1>r, <2>2 DEF Finish
  <2> QED
    BY <1>4, <2>1, <2>2 DEF Verify, WriteNoMem
<1>5. ASSUME Boot PROVE DefaultInv'
  <2>1. pc[Main] = "idle"
    BY <1>5 DEF Boot, BootLoad, BootRepair, BootDefault, BootNoMem, DefaultInv
  <2>2. \/ pc' = pc
        \/ mode' = "boot" /\ \E w \in {-1, 1}, p \in Part :
                                call' = [call EXCEPT ![Main] = BootCall(w, p)]
    BY <1>5 DEF Boot, BootLoad, BootRepair, BootDefault, BootNoMem
  <2>3. pc' = pc \/ (mode' = "boot" /\ call'[Main].op = "boot")
    BY <1>a, <2>2, StartFields
  <2> QED
    BY <1>i, <1>o, <2>1, <2>3
<1>6. ASSUME Crash PROVE DefaultInv'
  BY <1>6, <1>a, <1>i DEF Crash
<1>7. ASSUME NEW arg \in Arg, NEW b \in BOOLEAN, SetCall(Main, arg, b) PROVE DefaultInv'
  <2>1. CASE Returns(Main, "EMEM")
    BY <1>r, <2>1
  <2>2. CASE call' = [call EXCEPT ![Main] =
                        [NoCall EXCEPT !.op = "set", !.arg = arg, !.toFlash = b, !.usr = updp]]
    <3>1. updp \in BOOLEAN
      BY DEF TypeInv, TypeOK
    <3>2. call'[Main].op = "set"
      BY <1>a, <2>2, <3>1, StartFields
    <3> QED
      BY <1>7, <1>o, <3>2 DEF SetCall, Idle
  <2> QED
    BY <1>7, <2>1, <2>2 DEF SetCall
<1>8. ASSUME SetApply(Main) PROVE DefaultInv'
  <2>1. pc[Main] = "set" /\ mode' = mode
    BY <1>8 DEF SetApply
  <2>2. CASE Returns(Main, "OK")
    BY <1>r, <2>2
  <2>3. CASE call' = call
    BY <1>k, <2>1, <2>3 DEF Writing
  <2> QED
    BY <1>8, <2>2, <2>3 DEF SetApply
<1>9. ASSUME NEW b \in BOOLEAN, SaveCall(Main, b) PROVE DefaultInv'
  <2>1. call'[Main].op = "save"
    BY <1>9, <1>a, StartFields DEF SaveCall
  <2> QED
    BY <1>9, <1>o, <2>1 DEF SaveCall, Idle
<1>10. ASSUME Compare(Main) PROVE DefaultInv'
  <2>1. pc[Main] = "compare" /\ mode' = mode
    BY <1>10 DEF Compare
  <2>2. CASE Returns(Main, "OK")
    BY <1>r, <2>2
  <2>3. CASE call' = call
    BY <1>k, <2>1, <2>3 DEF Writing
  <2> QED
    BY <1>10, <2>2, <2>3 DEF Compare
<1>11. ASSUME NEW b \in BOOLEAN, GetCall(Main, b) PROVE DefaultInv'
  <2>1. PICK heap \in BOOLEAN :
          call' = [call EXCEPT ![Main] = [NoCall EXCEPT !.op = "get",
                                            !.addr = ram.part, !.toFlash = b /\ heap]]
    BY <1>11 DEF GetCall, HeapOutcome
  <2>2. (b /\ heap) \in BOOLEAN
    OBVIOUS
  <2>3. call'[Main].op = "get"
    BY <1>a, <2>1, <2>2, StartFields
  <2> QED
    BY <1>11, <1>o, <2>3 DEF GetCall, Idle
<1>12. ASSUME GetRead(Main) PROVE DefaultInv'
  <2>1. [call[Main] EXCEPT !.buf = flash[call[Main].addr]].op = call[Main].op
    BY <1>a, CallEdits
  <2>2. pc[Main] = "read" /\ mode' = mode /\ call'[Main].op = call[Main].op
    BY <1>12, <1>a, <2>1 DEF GetRead
  <2> QED
    BY <1>k, <2>2 DEF Writing
<1>13. ASSUME GetCopy(Main) PROVE DefaultInv'
  BY <1>13, <1>r DEF GetCopy
<1>14. ASSUME DefaultCall(Main) PROVE DefaultInv'
  <2>1. /\ call'[Main].op = "default" /\ call'[Main].wcount = 1 /\ call'[Main].wpart = 0
        /\ pc'[Main] = "seal" /\ mode' = "up"
    BY <1>14, <1>a, MoreFields DEF DefaultCall, Idle
  <2>2. ram'.val = Factory
    BY <1>14, <1>a DEF DefaultCall, Sector
  <2> QED
    BY <2>1, <2>2 DEF DefaultInv, Writing
<1>15. ASSUME NEW m \in BOOLEAN, SetUpdpMode(m) PROVE DefaultInv'
  BY <1>15 DEF SetUpdpMode, sysVars, DefaultInv, Writing
<1>16. ASSUME SaveStart(Main), mode' = "up" PROVE DefaultInv'
  <2>1. call'[Main].op = "saveuser"
    BY <1>16, <1>a, MoreFields DEF SaveStart
  <2> QED
    BY <1>16, <1>o, <2>1
<1>17. ASSUME NEW arg \in Arg, SaveUser(Main, arg) \/ SaveUserDefault(Main) PROVE DefaultInv'
  BY <1>16, <1>17, <1>r DEF SaveUser, SaveUserDefault, Idle
<1>18. ASSUME UserErase(Main) PROVE DefaultInv'
  <2>1. [call[Main] EXCEPT !.usrBuf = usrFlash].op = call[Main].op
    BY <1>a, UserEdits
  <2>2. pc[Main] = "usrwrite" /\ mode' = mode /\ call'[Main].op = call[Main].op
    BY <1>18, <1>a, <2>1 DEF UserErase
  <2> QED
    BY <1>k, <2>2 DEF Writing
<1>19. ASSUME UserNoMem(Main) \/ UserProgram(Main) PROVE DefaultInv'
  <2>1. /\ pc[Main] \in {"usrwrite", "usrprogram"} /\ mode' = mode
        /\ \E e \in {"OK", "EIO"} : SaveStep(Main, e)
    BY <1>19 DEF UserNoMem, UserProgram
  <2>2. CASE Returns(Main, "OK")
    BY <1>r, <2>2
  <2>3. ASSUME NEW e \in {"OK", "EIO"}, call[Main].step # 3, SaveStep(Main, e)
        PROVE  DefaultInv'
    <3> DEFINE r == IF e = "OK" THEN call[Main].ret ELSE e
               d == [call[Main] EXCEPT !.step = call[Main].step + 1, !.ret = r]
    <3>1. call[Main].step + 1 \in 0 .. 3 /\ r \in {"OK", "EIO", "EMEM"}
      BY <1>a, <2>1, <2>3 DEF TypeInv
    <3>2. call' = [call EXCEPT ![Main] = d]
      BY <2>3 DEF SaveStep
    <3>3. d.op = call[Main].op
      BY <1>a, <3>1, UserEdits
    <3> HIDE DEF d
    <3>4. call'[Main].op = call[Main].op
      BY <1>a, <3>2, <3>3
    <3> QED
      BY <1>k, <2>1, <3>4 DEF Writing
  <2> QED
    BY <2>1, <2>2, <2>3 DEF SaveStep
<1>20. ASSUME CoreCall(Main) \/ TaskStep(Main) PROVE DefaultInv'
  BY <1>1, <1>2, <1>3, <1>4, <1>7, <1>8, <1>9, <1>10, <1>11, <1>12, <1>13, <1>20
     DEF CoreCall, TaskStep, ParamToFlash
<1>21. CASE CoreNext
  BY <1>t, <1>5, <1>6, <1>20, <1>21 DEF CoreNext
<1>22. CASE ResetNext
  BY <1>t, <1>14, <1>21, <1>22 DEF ResetNext
<1>23. CASE UserNext
  BY <1>t, <1>15, <1>17, <1>18, <1>19, <1>21, <1>23, ArgTypes DEF UserNext, UserStep
<1> QED
  BY <1>22, <1>23 DEF Next

\* Each write of tls_param_save_user_default finds what the ones before it left.
LEMMA UserSavedStep ==
    ASSUME OneTask, TypeInv, UserInv, Next
    PROVE  UserInv'
<1>a. /\ pc \in [Task -> Stage] /\ call \in [Task -> Call] /\ Main \in Task
      /\ call[Main] \in Call /\ call[Main].usrBuf \in UsrSector
      /\ call[Main].ret \in {"OK", "EIO", "EMEM"} /\ usrFlash \in UsrSector
  BY CountTypes DEF TypeInv, TypeOK, Call
<1>t. \A t \in Task : t = Main
  BY DEF OneTask
<1>i. ASSUME pc'[Main] \notin {"usrwrite", "usrprogram"} PROVE UserInv'
  BY <1>i DEF UserInv
<1>k. ASSUME UNCHANGED <<pc, call, usrRam, usrFlash>> PROVE UserInv'
  BY <1>k DEF UserInv, SavedBefore
<1>1. CASE CoreCall(Main) \/ TaskStep(Main)
  <2>1. pc'[Main] \notin {"usrwrite", "usrprogram"}
    BY <1>1, <1>a DEF CoreCall, SetCall, SaveCall, GetCall, TaskStep, ParamToFlash,
       Seal, WriteErase, WriteNoMem, Program, Verify, Finish, Returns, SetApply,
       Compare, GetRead, GetCopy
  <2> QED
    BY <1>i, <2>1
<1>2. CASE Boot
  <2>1. UNCHANGED <<pc, call, usrRam, usrFlash>> \/ pc'[Main] = "seal"
    BY <1>2, <1>a DEF Boot, BootLoad, BootRepair, BootDefault, BootNoMem, usrVars
  <2> QED
    BY <1>i, <1>k, <2>1
<1>3. CASE Crash
  BY <1>3, <1>a, <1>i DEF Crash
<1>4. CASE DefaultCall(Main)
  BY <1>4, <1>a, <1>i DEF DefaultCall
<1>5. ASSUME NEW m \in BOOLEAN, SetUpdpMode(m) PROVE UserInv'
  BY <1>5, <1>k DEF SetUpdpMode, sysVars
<1>6. ASSUME SaveStart(Main) PROVE UserInv'
  <2>1. call'[Main].step = 1 /\ pc'[Main] = "usrwrite"
    BY <1>6, <1>a, MoreFields DEF SaveStart
  <2> QED
    BY <2>1 DEF UserInv, SavedBefore
<1>7. ASSUME NEW r \in {"OK", "EIO", "EMEM"}, Returns(Main, r) PROVE UserInv'
  BY <1>7, <1>a, <1>i, EndsWith
<1>8. ASSUME NEW arg \in Arg, SaveUser(Main, arg) \/ SaveUserDefault(Main) PROVE UserInv'
  BY <1>6, <1>7, <1>8 DEF SaveUser, SaveUserDefault
<1>9. CASE UserErase(Main)
  <2> DEFINE d == [call[Main] EXCEPT !.usrBuf = usrFlash]
  <2>1. d.usrBuf = usrFlash /\ d.step = call[Main].step /\ d.ret = call[Main].ret
    BY <1>a, UserEdits
  <2>2. /\ call' = [call EXCEPT ![Main] = d] /\ pc' = [pc EXCEPT ![Main] = "usrprogram"]
        /\ pc[Main] = "usrwrite" /\ usrRam' = usrRam
    BY <1>9 DEF UserErase
  <2> HIDE DEF d
  <2>3. call'[Main] = d /\ pc'[Main] = "usrprogram"
    BY <1>a, <2>2
  <2> QED
    BY <2>1, <2>2, <2>3 DEF UserInv, SavedBefore
<1>10. ASSUME NEW e \in {"OK", "EIO"}, SaveStep(Main, e), usrRam' = usrRam,
              pc[Main] \in {"usrwrite", "usrprogram"},
              e = "OK" /\ call[Main].ret = "OK" => SavedBefore(usrFlash', call[Main].step + 1)
       PROVE  UserInv'
  <2>1. CASE call[Main].step = 3
    BY <1>7, <1>10, <2>1 DEF SaveStep
  <2>2. CASE call[Main].step # 3
    <3> DEFINE r == IF e = "OK" THEN call[Main].ret ELSE e
               d == [call[Main] EXCEPT !.step = call[Main].step + 1, !.ret = r]
    <3>1. call[Main].step + 1 \in 0 .. 3 /\ r \in {"OK", "EIO", "EMEM"}
      BY <1>a, <1>10, <2>2 DEF TypeInv
    <3>2. call' = [call EXCEPT ![Main] = d] /\ pc' = [pc EXCEPT ![Main] = "usrwrite"]
      BY <1>10, <2>2 DEF SaveStep
    <3>3. d.step = call[Main].step + 1 /\ d.ret = r
      BY <1>a, <3>1, UserEdits
    <3>4. r = "OK" => e = "OK" /\ call[Main].ret = "OK"
      OBVIOUS
    <3> HIDE DEF d, r
    <3>5. call'[Main] = d /\ pc'[Main] = "usrwrite"
      BY <1>a, <3>2
    <3> QED
      BY <1>10, <3>3, <3>4, <3>5 DEF UserInv, SavedBefore
  <2> QED
    BY <2>1, <2>2
<1>11. CASE UserNoMem(Main)
  BY <1>10, <1>11 DEF UserNoMem, usrVars
<1>12. CASE UserProgram(Main)
  <2>1. pc[Main] = "usrprogram" /\ usrRam' = usrRam /\ call[Main].step \in 1 .. 3
    BY <1>12, <1>a DEF UserProgram, TypeInv
  <2>2. ASSUME call[Main].ret = "OK" PROVE SavedBefore(usrFlash', call[Main].step + 1)
    <3>1. SavedBefore(call[Main].usrBuf, call[Main].step)
      BY <2>1, <2>2 DEF UserInv
    <3>2. CASE call[Main].step = 1
      <4>1. usrFlash' = [call[Main].usrBuf EXCEPT !.magic = TRUE]
        BY <1>12, <3>2 DEF UserProgram
      <4> QED
        BY <1>a, <3>2, <4>1 DEF SavedBefore, UsrSector
    <3>3. CASE call[Main].step = 2
      <4>1. usrFlash' = [call[Main].usrBuf EXCEPT !.val = usrRam]
        BY <1>12, <3>3 DEF UserProgram
      <4> QED
        BY <1>a, <2>1, <3>1, <3>3, <4>1 DEF SavedBefore, UsrSector
    <3>4. CASE call[Main].step = 3
      <4>1. usrFlash' = [call[Main].usrBuf EXCEPT !.crc = usrRam]
        BY <1>12, <3>4 DEF UserProgram
      <4> QED
        BY <1>a, <2>1, <3>1, <3>4, <4>1 DEF SavedBefore, UsrSector
    <3> QED
      BY <2>1, <3>2, <3>3, <3>4
  <2> QED
    BY <1>10, <1>12, <2>1, <2>2 DEF UserProgram
<1>13. CASE CoreNext
  BY <1>t, <1>1, <1>2, <1>3, <1>13 DEF CoreNext
<1>14. CASE ResetNext
  BY <1>t, <1>4, <1>13, <1>14 DEF ResetNext
<1>15. CASE UserNext
  BY <1>t, <1>5, <1>8, <1>9, <1>11, <1>12, <1>13, <1>15, ArgTypes DEF UserNext, UserStep
<1> QED
  BY <1>14, <1>15 DEF Next

\* The invariants of the one task.
LEMMA OneInvariant ==
    ASSUME OneTask
    PROVE  Spec => [](TypeInv /\ DefaultInv /\ UserInv)
<1>1. Init => TypeInv /\ DefaultInv /\ UserInv
  BY TypeInit, ParamAssumption DEF Init, DefaultInv, UserInv
<1>2. TypeInv /\ DefaultInv /\ UserInv /\ [Next]_vars => (TypeInv /\ DefaultInv /\ UserInv)'
  <2> SUFFICES ASSUME TypeInv, DefaultInv, UserInv, [Next]_vars
               PROVE  (TypeInv /\ DefaultInv /\ UserInv)'
    OBVIOUS
  <2>1. CASE Next
    BY <2>1, TypeStep, DefaultStep, UserSavedStep
  <2>2. CASE UNCHANGED vars
    BY <2>2, TypeStep DEF vars, DefaultInv, UserInv, SavedBefore, Writing
  <2> QED
    BY <2>1, <2>2
<1> QED
  BY <1>1, <1>2, PTL DEF Spec

\* A call of the one task that returns in a step, and what that step was.
LEMMA OneReturn ==
    ASSUME OneTask, TypeInv, DefaultInv, Next, Ends(Main, "OK")
    PROVE  /\ Writing(Main) =>
                /\ flash' = flash /\ ram'.val = ram.val
                /\ ~(call[Main].wcount = 1 /\ call[Main].wpart = 0) /\ pc[Main] = "verify"
           /\ pc[Main] = "usrprogram" => UserProgram(Main) /\ call[Main].step = 3
<1>a. /\ pc \in [Task -> Stage] /\ call \in [Task -> Call] /\ Main \in Task
      /\ \A t \in Task : t = Main
  BY CountTypes DEF OneTask
<1>b. /\ pc[Main] # "idle" /\ pc'[Main] = "idle" /\ mode' = "up" /\ mode # "off"
      /\ call'[Main].ret = "OK"
  BY DEF Ends, DefaultInv
<1>1. ~Boot /\ ~Crash /\ ~CoreCall(Main) /\ ~DefaultCall(Main) /\ ~SaveUserDefault(Main)
      /\ (\A m : ~SetUpdpMode(m)) /\ \A arg : ~SaveUser(Main, arg)
  BY <1>b DEF Boot, BootLoad, BootRepair, BootDefault, BootNoMem, Crash, CoreCall, SetCall,
     SaveCall, GetCall, DefaultCall, SaveUserDefault, SaveUser, SetUpdpMode, sysVars, Idle
<1>2. TaskStep(Main) \/ UserStep(Main)
  BY <1>1, <1>a DEF Next, ResetNext, UserNext, CoreNext
<1>3. ASSUME pc[Main] = "usrprogram" PROVE UserProgram(Main) /\ call[Main].step = 3
  <2>1. UserProgram(Main)
    BY <1>2, <1>3 DEF TaskStep, ParamToFlash, Seal, WriteErase, WriteNoMem, Program, Verify,
       SetApply, Compare, GetRead, GetCopy, UserStep, UserErase, UserNoMem
  <2> QED
    BY <1>a, <1>b, <2>1 DEF UserProgram, SaveStep
<1>4. ASSUME Writing(Main)
      PROVE  /\ flash' = flash /\ ram'.val = ram.val /\ pc[Main] = "verify"
             /\ ~(call[Main].wcount = 1 /\ call[Main].wpart = 0)
  <2>1. ParamToFlash(Main)
    BY <1>2, <1>4 DEF Writing, TaskStep, SetApply, Compare, GetRead, GetCopy, UserStep,
       UserErase, UserNoMem, UserProgram
  <2>2. ~Seal(Main) /\ ~WriteErase(Main) /\ ~Program(Main)
    BY <1>a, <1>b DEF Seal, WriteErase, Program
  <2>3. ASSUME NEW r \in {"OK", "EIO", "EMEM"}, Finish(Main, r) PROVE r = "OK"
    BY <1>a, <1>b, <2>3, EndsWith DEF Finish
  <2>4. Verify(Main)
    BY <2>1, <2>2, <2>3 DEF ParamToFlash, WriteNoMem
  <2>5. PICK same \in VerifyOutcome :
          IF same /\ call[Main].wcount = 1 /\ call[Main].wpart = 0
          THEN pc' = [pc EXCEPT ![Main] = "seal"]
          ELSE Finish(Main, IF same THEN "OK" ELSE "EIO")
    BY <2>4 DEF Verify
  <2>6. ~(same /\ call[Main].wcount = 1 /\ call[Main].wpart = 0)
    BY <1>a, <1>b, <2>5
  <2>7. same
    BY <2>3, <2>5, <2>6
  <2>8. ram'.val = ram.val
    <3>1. ram \in Sector
      BY DEF TypeInv, TypeOK
    <3>2. ram' = ram \/ \E b : ram' = [ram EXCEPT !.magic = b]
      BY <2>5, <2>6 DEF Finish
    <3> QED
      BY <3>1, <3>2 DEF Sector
  <2> QED
    BY <2>4, <2>6, <2>7, <2>8 DEF Verify
<1> QED
  BY <1>3, <1>4

\* tls_param_to_default that returns OK has made both partitions the defaults it
\* loaded into RAM, for one task, whatever the heap and the counts do.
THEOREM AckedResetIsDurable ==
    ASSUME OneTask
    PROVE  Spec => DefaultDurable
<1>1. ASSUME TypeInv, DefaultInv, Next, NEW t \in Task, call[t].op = "default", Ends(t, "OK")
      PROVE  Recovered(flash') = ram'.val /\ Recovered(flash') = Factory
  <2>1. t = Main /\ pc[Main] # "idle"
    BY <1>1 DEF OneTask, Ends
  <2>2. Writing(Main) /\ call[Main].wcount = 1 /\ call[Main].wpart \in Part
        /\ ram.val = Factory
    BY <1>1, <2>1 DEF DefaultInv
  <2>3. flash' = flash /\ ram'.val = ram.val /\ pc[Main] = "verify" /\ call[Main].wpart = 1
    BY <1>1, <2>1, <2>2, OneReturn
  <2>4. flash[0].val = Factory /\ flash[1].val = Factory
    BY <1>1, <2>1, <2>3 DEF DefaultInv
  <2>5. Recovered(flash') = Factory
    BY <2>3, <2>4 DEF Recovered, Loaded
  <2> QED
    BY <2>2, <2>3, <2>5
<1>2. TypeInv /\ DefaultInv /\ UserInv /\ [Next]_vars =>
        [\A t \in Task :
           call[t].op = "default" /\ Ends(t, "OK") =>
             /\ Recovered(flash') = ram'.val
             /\ ~UserValid(usrFlash) => Recovered(flash') = Factory]_vars
  BY <1>1
<1> QED
  BY <1>2, OneInvariant, PTL DEF Spec, DefaultDurable

\* Once tls_param_save_user_default has made its three writes, the sector is
\* valid and holds the parameters, whatever it held before.
THEOREM SavedDefaultsAreDurable ==
    ASSUME OneTask
    PROVE  Spec => UserSaveDurable
<1>1. ASSUME TypeInv, DefaultInv, UserInv, Next, NEW t \in Task, pc[t] = "usrprogram",
             call[t].ret = "OK", Ends(t, "OK")
      PROVE  UserValid(usrFlash') /\ usrFlash'.val = usrRam
  <2>1. t = Main /\ call[Main] \in Call
    BY <1>1, CountTypes DEF OneTask
  <2>2. UserProgram(Main) /\ call[Main].step = 3 /\ call[Main].usrBuf \in UsrSector
    BY <1>1, <2>1, OneReturn DEF Call
  <2>3. usrFlash' = [call[Main].usrBuf EXCEPT !.crc = usrRam]
    BY <2>2 DEF UserProgram
  <2>4. call[Main].usrBuf.magic /\ call[Main].usrBuf.val = usrRam
    BY <1>1, <2>1, <2>2 DEF UserInv, SavedBefore
  <2>5. usrRam # Blank
    BY <1>1, <2>1, ParamAssumption DEF TypeInv
  <2>6. usrFlash'.magic /\ usrFlash'.val = usrRam /\ usrFlash'.crc = usrRam
    BY <2>2, <2>3, <2>4 DEF UsrSector
  <2> QED
    BY <2>5, <2>6 DEF UserValid
<1>2. TypeInv /\ DefaultInv /\ UserInv /\ [Next]_vars =>
        [\A t \in Task :
           /\ call[t].op = "saveuser" /\ pc[t] = "usrprogram"
           /\ call[t].ret = "OK" /\ Ends(t, "OK")
           => UserValid(usrFlash') /\ usrFlash'.val = usrRam]_vars
  BY <1>1
<1> QED
  BY <1>2, OneInvariant, PTL DEF Spec, UserSaveDurable
=============================================================================
