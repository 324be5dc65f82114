---------------------------- MODULE ParamProofs ----------------------------
(***************************************************************************)
(* Proofs about the parameter store.                                       *)
(***************************************************************************)
EXTENDS ParamProperties, TLAPS

USE DEF Part

(***************************************************************************)
(* Type correctness, for the whole API, any heap and any count.            *)
(***************************************************************************)

\* What tls_param_set copies into a struct gives a struct again.
LEMMA ArgTypes ==
    /\ Factory \in Arg
    /\ \A val \in Params, arg \in Arg : Assign(val, arg) \in Params
<1>1. Factory \in Arg
  BY ParamAssumption DEF Arg, Params
<1>2. ASSUME NEW val \in Params, NEW arg \in Arg
      PROVE  Assign(val, arg) \in Params
  <2>1. PICK S \in {Id} \cup {{i} : i \in Id} : arg \in [S -> Val]
    BY DEF Arg
  <2>2. ASSUME NEW i \in Id
        PROVE  (IF i \in DOMAIN arg THEN arg[i] ELSE val[i]) \in Val
    BY <2>1 DEF Params
  <2> QED
    BY <2>2 DEF Assign, Params
<1> QED
  BY <1>1, <1>2

\* The cleared struct, the erased sectors and the empty call are of their types,
\* and neither is mistaken for a written image.
LEMMA RecordTypes ==
    /\ RamCleared \in Sector /\ RamCleared.val = Zero /\ ~RamCleared.magic
    /\ Erased \in Sector /\ ~Erased.magic
    /\ UsrErased \in UsrSector
    /\ NoCall \in Call
<1>1. NoImage \in ImageSet
  BY DEF NoImage, ImageSet
<1>2. RamCleared \in Sector /\ RamCleared.val = Zero /\ ~RamCleared.magic
  BY <1>1, ParamAssumption DEF RamCleared, Sector
<1>3. Erased \in Sector /\ ~Erased.magic
  BY <1>1, ParamAssumption DEF Erased, RamCleared, Sector
<1>4. UsrErased \in UsrSector
  BY DEF UsrErased, UsrSector
<1>5. NoCall \in Call
  BY <1>3, <1>4, ArgTypes DEF NoCall, Call
<1> QED
  BY <1>2, <1>3, <1>4, <1>5

\* Changing one field of a call leaves the other fields and the type alone.
LEMMA CallEdits ==
    ASSUME NEW c \in Call
    PROVE  /\ \A p \in Part : LET d == [c EXCEPT !.addr = p] IN
                /\ d \in Call /\ d.addr = p /\ d.op = c.op /\ d.arg = c.arg
                /\ d.toFlash = c.toFlash /\ d.usr = c.usr /\ d.wcount = c.wcount
                /\ d.wpart = c.wpart /\ d.buf = c.buf /\ d.step = c.step
           /\ LET d == [c EXCEPT !.wpart = 1] IN
                /\ d \in Call /\ d.addr = c.addr /\ d.op = c.op /\ d.arg = c.arg
                /\ d.toFlash = c.toFlash /\ d.usr = c.usr /\ d.wcount = c.wcount
                /\ d.wpart = 1 /\ d.buf = c.buf /\ d.step = c.step
           /\ \A b \in Sector : LET d == [c EXCEPT !.buf = b] IN
                /\ d \in Call /\ d.addr = c.addr /\ d.op = c.op /\ d.arg = c.arg
                /\ d.toFlash = c.toFlash /\ d.usr = c.usr /\ d.wcount = c.wcount
                /\ d.wpart = c.wpart /\ d.buf = b /\ d.step = c.step
           /\ \A u \in UsrSector : LET d == [c EXCEPT !.usrBuf = u] IN
                d \in Call /\ d.usr = c.usr /\ d.step = c.step
<1>1. ASSUME NEW p \in Part
      PROVE  LET d == [c EXCEPT !.addr = p] IN
                /\ d \in Call /\ d.addr = p /\ d.op = c.op /\ d.arg = c.arg
                /\ d.toFlash = c.toFlash /\ d.usr = c.usr /\ d.wcount = c.wcount
                /\ d.wpart = c.wpart /\ d.buf = c.buf /\ d.step = c.step
  BY DEF Call
<1>2. LET d == [c EXCEPT !.wpart = 1] IN
                /\ d \in Call /\ d.addr = c.addr /\ d.op = c.op /\ d.arg = c.arg
                /\ d.toFlash = c.toFlash /\ d.usr = c.usr /\ d.wcount = c.wcount
                /\ d.wpart = 1 /\ d.buf = c.buf /\ d.step = c.step
  BY DEF Call
<1>3. ASSUME NEW b \in Sector
      PROVE  LET d == [c EXCEPT !.buf = b] IN
                /\ d \in Call /\ d.addr = c.addr /\ d.op = c.op /\ d.arg = c.arg
                /\ d.toFlash = c.toFlash /\ d.usr = c.usr /\ d.wcount = c.wcount
                /\ d.wpart = c.wpart /\ d.buf = b /\ d.step = c.step
  BY DEF Call
<1>4. ASSUME NEW u \in UsrSector
      PROVE  LET d == [c EXCEPT !.usrBuf = u] IN
                d \in Call /\ d.usr = c.usr /\ d.step = c.step
  BY DEF Call
<1> QED
  BY <1>1, <1>2, <1>3, <1>4

\* The calls the API starts with.
LEMMA NewCalls ==
    /\ NoCall.usr = FALSE /\ NoCall.step = 0
    /\ \A r \in {"OK", "EIO", "EMEM"} : [NoCall EXCEPT !.ret = r] \in Call
    /\ \A w \in {-1, 1}, p \in Part : BootCall(w, p) \in Call
    /\ \A arg \in Arg, b \in BOOLEAN, u \in BOOLEAN :
         LET d == [NoCall EXCEPT !.op = "set", !.arg = arg, !.toFlash = b, !.usr = u]
         IN  d \in Call /\ d.usr = u
    /\ [NoCall EXCEPT !.op = "save"] \in Call
    /\ \A p \in Part, b \in BOOLEAN :
         [NoCall EXCEPT !.op = "get", !.addr = p, !.toFlash = b] \in Call
    /\ [NoCall EXCEPT !.op = "default", !.wcount = 1, !.wpart = 0] \in Call
    /\ LET d == [NoCall EXCEPT !.op = "saveuser", !.step = 1]
       IN  d \in Call /\ d.step = 1
<1>1. NoCall \in Call
  BY RecordTypes
<1>2. NoCall.usr = FALSE /\ NoCall.step = 0
  BY DEF NoCall
<1>3. ASSUME NEW r \in {"OK", "EIO", "EMEM"}
      PROVE  [NoCall EXCEPT !.ret = r] \in Call
  BY <1>1 DEF Call
<1>4. ASSUME NEW w \in {-1, 1}, NEW p \in Part
      PROVE  BootCall(w, p) \in Call
  BY <1>1 DEF Call, BootCall
<1>5. ASSUME NEW arg \in Arg, NEW b \in BOOLEAN, NEW u \in BOOLEAN
      PROVE  LET d == [NoCall EXCEPT !.op = "set", !.arg = arg, !.toFlash = b, !.usr = u]
             IN  d \in Call /\ d.usr = u
  BY <1>1 DEF Call
<1>6. [NoCall EXCEPT !.op = "save"] \in Call
  BY <1>1 DEF Call
<1>7. ASSUME NEW p \in Part, NEW b \in BOOLEAN
      PROVE  [NoCall EXCEPT !.op = "get", !.addr = p, !.toFlash = b] \in Call
  BY <1>1 DEF Call
<1>8. [NoCall EXCEPT !.op = "default", !.wcount = 1, !.wpart = 0] \in Call
  BY <1>1 DEF Call
<1>9. [NoCall EXCEPT !.op = "saveuser", !.step = 1] \in Call
  <2>1. 1 \in 0 .. 3
    OBVIOUS
  <2> QED
    BY <1>1, <2>1 DEF Call
<1>10. [NoCall EXCEPT !.op = "saveuser", !.step = 1].step = 1
  BY <1>1 DEF Call
<1> QED
  BY <1>2, <1>3, <1>4, <1>5, <1>6, <1>7, <1>8, <1>9, <1>10

\* A call that ends leaves pc and call well typed.
LEMMA ReturnTypes ==
    ASSUME TypeOK, NEW t \in Task, NEW r \in {"OK", "EIO", "EMEM"}, Returns(t, r)
    PROVE  /\ pc' \in [Task -> Stage] /\ pc'[t] = "idle"
           /\ call' \in [Task -> Call]
           /\ \A u \in Task \ {t} : pc'[u] = pc[u] /\ call'[u] = call[u]
<1>1. [NoCall EXCEPT !.ret = r] \in Call
  BY NewCalls
<1> QED
  BY <1>1 DEF Returns, TypeOK, Stage

\* A task that moves on to another stage leaves pc and call well typed.
LEMMA MoveTypes ==
    ASSUME TypeOK, NEW t \in Task, NEW s \in Stage, NEW c \in Call,
           pc' = [pc EXCEPT ![t] = s], call' = [call EXCEPT ![t] = c]
    PROVE  /\ pc' \in [Task -> Stage] /\ pc'[t] = s
           /\ call' \in [Task -> Call] /\ call'[t] = c
           /\ \A u \in Task \ {t} : pc'[u] = pc[u] /\ call'[u] = call[u]
BY DEF TypeOK

\* Every step of the API preserves the types.
LEMMA TypeStep ==
    TypeInv /\ [Next]_vars => TypeInv'
<1> SUFFICES ASSUME TypeInv, [Next]_vars
             PROVE  TypeInv'
  OBVIOUS
<1>a. TypeOK
  BY DEF TypeInv
<1>b. Main \in Task /\ NoTask \notin Task /\ Factory \in Params /\ Zero \in Params
  BY ParamAssumption
<1>c. \A t \in Task : call[t] \in Call
  BY <1>a DEF TypeOK
<1>d. ASSUME NEW t \in Task
      PROVE  /\ call[t].wcount \in {-1, 1} /\ call[t].wpart \in {-1, 0, 1}
             /\ call[t].addr \in Part /\ call[t].arg \in Arg /\ call[t].usr \in BOOLEAN
             /\ call[t].usrBuf \in UsrSector /\ call[t].step \in 0 .. 3
             /\ call[t].ret \in {"OK", "EIO", "EMEM"}
  BY <1>c DEF Call
<1>e. /\ ram.part \in Part /\ ram.count \in Nat /\ ram.val \in Params
      /\ \A p \in Part : flash[p] \in Sector
  BY <1>a DEF TypeOK, Sector
<1>f. ASSUME NEW s \in Sector PROVE [s EXCEPT !.magic = @ /\ FALSE] \in Sector
  BY DEF Sector
<1>1. ASSUME NEW t \in Task, Seal(t) PROVE TypeInv'
  <2> DEFINE c == IF call[t].wcount < 0 THEN (ram.count + 1) % CountMod
                                        ELSE call[t].wcount
             p == IF call[t].wpart < 0 THEN 1 - ram.part ELSE call[t].wpart
  <2>1. c \in Nat /\ p \in Part
    BY <1>d, <1>e, ParamAssumption
  <2>2. /\ ram' = [magic |-> TRUE, part |-> p, count |-> c, val |-> ram.val,
                   crc |-> [part |-> p, count |-> c, val |-> ram.val]]
        /\ call' = [call EXCEPT ![t] = [call[t] EXCEPT !.addr = p]]
    BY <1>1 DEF Seal
  <2> HIDE DEF c, p
  <2>3. ram' \in Sector /\ ram'.val \in Params
    BY <1>e, <2>1, <2>2 DEF Sector, ImageSet
  <2>4. LET d == [call[t] EXCEPT !.addr = p] IN
          d \in Call /\ d.usr = call[t].usr /\ d.step = call[t].step
    BY <1>c, <2>1, CallEdits
  <2>5. /\ pc' = [pc EXCEPT ![t] = "write"] /\ pc[t] = "seal"
        /\ UNCHANGED <<flash, mode, lock, flsLock, updp, usrRam, usrFlash>>
    BY <1>1 DEF Seal, usrVars
  <2>6. /\ pc' \in [Task -> Stage] /\ pc'[t] = "write"
        /\ call' \in [Task -> Call]
        /\ \A u \in Task \ {t} : pc'[u] = pc[u] /\ call'[u] = call[u]
    BY <1>a, <2>2, <2>4, <2>5, MoveTypes DEF Stage
  <2> QED
    BY <2>3, <2>5, <2>6 DEF TypeInv, TypeOK
<1>2. ASSUME NEW t \in Task, WriteErase(t) PROVE TypeInv'
  <2>1. flash' \in [Part -> Sector] /\ \A p \in Part : flash'[p].magic => flash'[p].val \in Params
    BY <1>2, <1>d, RecordTypes DEF WriteErase, TypeInv, TypeOK
  <2> QED
    BY <1>2, <2>1 DEF WriteErase, TypeInv, TypeOK, usrVars, Stage
<1>3. ASSUME NEW t \in Task, NEW r \in {"OK", "EIO"}, Finish(t, r),
             UNCHANGED <<flash, flsLock, usrVars>>
      PROVE  TypeInv'
  <2>1. ram' \in Sector /\ ram'.val \in Params
    BY <1>3, <1>a DEF Finish, TypeOK, Sector
  <2>2. lock' \in Task \cup {NoTask} /\ mode' \in {"off", "boot", "up"}
    BY <1>3, <1>a DEF Finish, TypeOK
  <2>3. Returns(t, r)
    BY <1>3 DEF Finish
  <2>4. /\ pc' \in [Task -> Stage] /\ pc'[t] = "idle" /\ call' \in [Task -> Call]
        /\ \A u \in Task \ {t} : pc'[u] = pc[u] /\ call'[u] = call[u]
    BY <1>a, <2>3, ReturnTypes
  <2> QED
    BY <1>3, <2>1, <2>2, <2>4 DEF TypeInv, TypeOK, usrVars
<1>4. ASSUME NEW t \in Task, WriteNoMem(t) PROVE TypeInv'
  BY <1>4, <1>3 DEF WriteNoMem
<1>5. ASSUME NEW t \in Task, Program(t) PROVE TypeInv'
  <2>1. flash' \in [Part -> Sector] /\ \A p \in Part : flash'[p].magic => flash'[p].val \in Params
    BY <1>5, <1>d DEF Program, TypeInv, TypeOK
  <2> QED
    BY <1>5, <2>1 DEF Program, TypeInv, TypeOK, usrVars, Stage
<1>6. ASSUME NEW t \in Task, Verify(t) PROVE TypeInv'
  <2>1. PICK same \in VerifyOutcome :
          IF same /\ call[t].wcount = 1 /\ call[t].wpart = 0
          THEN /\ call' = [call EXCEPT ![t].wpart = 1]
               /\ pc' = [pc EXCEPT ![t] = "seal"]
               /\ UNCHANGED <<ram, mode, lock>>
          ELSE Finish(t, IF same THEN "OK" ELSE "EIO")
    BY <1>6 DEF Verify
  <2>2. UNCHANGED <<flash, flsLock, usrVars>> /\ pc[t] = "verify"
    BY <1>6 DEF Verify
  <2>3. CASE same /\ call[t].wcount = 1 /\ call[t].wpart = 0
    <3>1. [call[t] EXCEPT !.wpart = 1] \in Call
      BY <1>c, CallEdits
    <3>2. /\ pc' = [pc EXCEPT ![t] = "seal"]
          /\ call' = [call EXCEPT ![t] = [call[t] EXCEPT !.wpart = 1]]
      BY <2>1, <2>3
    <3>3. /\ pc' \in [Task -> Stage] /\ pc'[t] = "seal" /\ call' \in [Task -> Call]
          /\ \A u \in Task \ {t} : pc'[u] = pc[u] /\ call'[u] = call[u]
      BY <1>a, <3>1, <3>2, MoveTypes DEF Stage
    <3> QED
      BY <2>1, <2>2, <2>3, <3>3 DEF TypeInv, TypeOK, usrVars
  <2>4. CASE ~(same /\ call[t].wcount = 1 /\ call[t].wpart = 0)
    BY <2>1, <2>2, <2>4, <1>3
  <2> QED
    BY <2>3, <2>4
<1>7. ASSUME Boot PROVE TypeInv'
  <2>1. ASSUME NEW w \in {-1, 1}, NEW p \in Part, NEW s \in Sector, s.val \in Params,
               ram' = s, call' = [call EXCEPT ![Main] = BootCall(w, p)],
               mode' = "boot", lock' = Main, pc' = [pc EXCEPT ![Main] = "seal"],
               UNCHANGED <<flash, flsLock, usrVars>>
        PROVE  TypeInv'
    <3>1. BootCall(w, p) \in Call
      BY NewCalls
    <3>2. /\ pc' \in [Task -> Stage] /\ pc'[Main] = "seal" /\ call' \in [Task -> Call]
          /\ \A u \in Task \ {Main} : pc'[u] = pc[u] /\ call'[u] = call[u]
      BY <1>a, <1>b, <2>1, <3>1, MoveTypes DEF Stage
    <3> QED
      BY <1>b, <2>1, <3>2 DEF TypeInv, TypeOK, usrVars
  <2>2. CASE BootLoad
    <3>1. PICK p \in Part : p = Loaded(flash)
      BY DEF Loaded
    <3>2. ram' = flash[p] /\ flash[p].val \in Params
      BY <2>2, <3>1 DEF BootLoad, Ok, TypeInv
    <3> QED
      BY <2>2, <1>e, <3>1, <3>2 DEF BootLoad, TypeInv, TypeOK, usrVars
  <2>3. CASE BootRepair
    <3>1. PICK p \in Part :
            /\ ~Ok(flash[p]) /\ Ok(flash[1 - p])
            /\ ram' = flash[1 - p]
            /\ call' = [call EXCEPT ![Main] = BootCall(-1, p)]
      BY <2>3 DEF BootRepair
    <3>2. flash[1 - p] \in Sector /\ flash[1 - p].val \in Params
      BY <1>e, <3>1 DEF Ok, TypeInv
    <3> QED
      BY <2>1, <2>3, <3>1, <3>2 DEF BootRepair
  <2>4. CASE BootDefault
    <3>1. LET s == [RamCleared EXCEPT !.val = Factory] IN
            s \in Sector /\ s.val \in Params
      BY <1>b, RecordTypes DEF Sector
    <3> QED
      BY <2>1, <2>4, <3>1 DEF BootDefault
  <2>5. CASE BootNoMem
    BY <1>b, <2>5, RecordTypes DEF BootNoMem, TypeInv, TypeOK, usrVars
  <2> QED
    BY <1>7, <2>2, <2>3, <2>4, <2>5 DEF Boot
<1>8. ASSUME Crash PROVE TypeInv'
  BY <1>8, <1>b, RecordTypes DEF Crash, TypeInv, TypeOK, Stage
<1>9. ASSUME NEW t \in Task, NEW arg \in Arg, NEW b \in BOOLEAN, SetCall(t, arg, b)
      PROVE  TypeInv'
  <2>1. PICK heap \in BOOLEAN :
         IF heap
         THEN /\ usrRam' = IF updp /\ usrRam = Blank THEN Zero ELSE usrRam
              /\ pc' = [pc EXCEPT ![t] = "set"]
              /\ call' = [call EXCEPT ![t] =
                            [NoCall EXCEPT !.op = "set", !.arg = arg,
                                           !.toFlash = b, !.usr = updp]]
         ELSE Returns(t, "EMEM") /\ UNCHANGED usrRam
    BY <1>9 DEF SetCall, HeapOutcome
  <2>2. /\ UNCHANGED <<flash, ram, mode, lock, flsLock, updp, usrFlash>>
        /\ updp \in BOOLEAN /\ usrRam \in Params \cup {Blank}
    BY <1>9, <1>a DEF SetCall, TypeOK
  <2>3. CASE heap
    <3> DEFINE d == [NoCall EXCEPT !.op = "set", !.arg = arg, !.toFlash = b, !.usr = updp]
    <3>1. d \in Call /\ d.usr = updp
      BY <2>2, NewCalls
    <3>2. pc' = [pc EXCEPT ![t] = "set"] /\ call' = [call EXCEPT ![t] = d]
      BY <2>1, <2>3
    <3> HIDE DEF d
    <3>3. /\ pc' \in [Task -> Stage] /\ pc'[t] = "set"
          /\ call' \in [Task -> Call] /\ call'[t] = d
          /\ \A u \in Task \ {t} : pc'[u] = pc[u] /\ call'[u] = call[u]
      BY <1>a, <3>1, <3>2, MoveTypes DEF Stage
    <3>4. /\ usrRam' \in Params \cup {Blank}
          /\ usrRam \in Params => usrRam' \in Params
          /\ updp => usrRam' \in Params
      BY <1>b, <2>1, <2>2, <2>3
    <3> QED
      BY <2>2, <3>1, <3>3, <3>4 DEF TypeInv, TypeOK
  <2>4. CASE ~heap
    <3>1. /\ pc' \in [Task -> Stage] /\ pc'[t] = "idle" /\ call' \in [Task -> Call]
          /\ \A u \in Task \ {t} : pc'[u] = pc[u] /\ call'[u] = call[u]
      BY <1>a, <2>1, <2>4, ReturnTypes
    <3> QED
      BY <2>1, <2>2, <2>4, <3>1 DEF TypeInv, TypeOK
  <2> QED
    BY <2>3, <2>4
<1>10. ASSUME NEW t \in Task, SetApply(t) PROVE TypeInv'
  <2>1. /\ usrRam' \in Params \cup {Blank} /\ (usrRam \in Params => usrRam' \in Params)
        /\ ram' \in Sector /\ ram'.val \in Params
    <3>1. CASE call[t].usr
      <4>1. usrRam' = Assign(usrRam, call[t].arg) /\ ram' = ram /\ usrRam \in Params
        BY <1>10, <3>1 DEF SetApply, TypeInv
      <4> QED
        BY <1>a, <1>d, <4>1, ArgTypes DEF TypeOK
    <3>2. CASE ~call[t].usr
      <4>1. /\ ram' = [ram EXCEPT !.val = Assign(ram.val, call[t].arg)]
            /\ usrRam' = usrRam
        BY <1>10, <3>2 DEF SetApply
      <4>2. Assign(ram.val, call[t].arg) \in Params
        BY <1>d, <1>e, ArgTypes
      <4> QED
        BY <1>a, <4>1, <4>2 DEF TypeOK, Sector
    <3> QED
      BY <3>1, <3>2
  <2>2. UNCHANGED <<flash, mode, flsLock, updp, usrFlash>> /\ pc[t] = "set"
    BY <1>10 DEF SetApply
  <2>3. CASE call[t].toFlash /\ ~updp
    BY <1>10, <2>1, <2>2, <2>3 DEF SetApply, TypeInv, TypeOK, Stage
  <2>4. CASE ~(call[t].toFlash /\ ~updp)
    <3>1. Returns(t, "OK") /\ UNCHANGED lock
      BY <1>10, <2>4 DEF SetApply
    <3>2. /\ pc' \in [Task -> Stage] /\ pc'[t] = "idle" /\ call' \in [Task -> Call]
          /\ \A u \in Task \ {t} : pc'[u] = pc[u] /\ call'[u] = call[u]
      BY <1>a, <3>1, ReturnTypes
    <3> QED
      BY <2>1, <2>2, <3>1, <3>2 DEF TypeInv, TypeOK
  <2> QED
    BY <2>3, <2>4
<1>11. ASSUME NEW t \in Task, NEW s \in Stage \ {"set", "usrwrite", "usrprogram"},
              NEW c \in Call, pc' = [pc EXCEPT ![t] = s],
              call' = [call EXCEPT ![t] = c],
              UNCHANGED <<flash, mode, flsLock, usrVars>>,
              lock' \in Task \cup {NoTask}, ram' \in Sector, ram'.val \in Params
       PROVE  TypeInv'
  <2>1. /\ pc' \in [Task -> Stage] /\ pc'[t] = s /\ call' \in [Task -> Call]
        /\ \A u \in Task \ {t} : pc'[u] = pc[u] /\ call'[u] = call[u]
    BY <1>a, <1>11, MoveTypes
  <2> QED
    BY <1>11, <2>1 DEF TypeInv, TypeOK, usrVars
<1>12. ASSUME NEW t \in Task, NEW b \in BOOLEAN, SaveCall(t, b) PROVE TypeInv'
  <2>1. [NoCall EXCEPT !.op = "save"] \in Call
    BY NewCalls
  <2> QED
    BY <1>a, <1>11, <1>12, <2>1 DEF SaveCall, TypeOK, Stage
<1>13. ASSUME NEW t \in Task, Compare(t) PROVE TypeInv'
  <2>1. UNCHANGED <<flash, ram, mode, flsLock, usrVars>>
    BY <1>13 DEF Compare
  <2>2. CASE Returns(t, "OK") /\ lock' = NoTask
    <3>1. [NoCall EXCEPT !.ret = "OK"] \in Call
      BY NewCalls
    <3> QED
      BY <1>a, <1>11, <2>1, <2>2, <3>1 DEF Returns, TypeOK, Stage
  <2>3. CASE pc' = [pc EXCEPT ![t] = "seal"] /\ UNCHANGED <<call, lock>>
    BY <2>1, <2>3 DEF TypeInv, TypeOK, Stage, usrVars
  <2> QED
    BY <1>13, <2>2, <2>3 DEF Compare
<1>14. ASSUME NEW t \in Task, NEW b \in BOOLEAN, GetCall(t, b) PROVE TypeInv'
  <2>1. PICK heap \in BOOLEAN :
         /\ pc' = [pc EXCEPT ![t] = IF b /\ heap THEN "read" ELSE "copy"]
         /\ call' = [call EXCEPT ![t] = [NoCall EXCEPT !.op = "get",
                                           !.addr = ram.part, !.toFlash = b /\ heap]]
    BY <1>14 DEF GetCall, HeapOutcome
  <2>2. (b /\ heap) \in BOOLEAN
    OBVIOUS
  <2>3. [NoCall EXCEPT !.op = "get", !.addr = ram.part, !.toFlash = b /\ heap] \in Call
    BY <1>e, <2>2, NewCalls
  <2> QED
    BY <1>a, <1>11, <1>14, <2>1, <2>3 DEF GetCall, TypeOK, Stage
<1>15. ASSUME NEW t \in Task, GetRead(t) PROVE TypeInv'
  <2>1. [call[t] EXCEPT !.buf = flash[call[t].addr]] \in Call
    BY <1>c, <1>d, <1>e, CallEdits
  <2> QED
    BY <1>a, <1>11, <1>15, <2>1 DEF GetRead, TypeOK, Stage
<1>16. ASSUME NEW t \in Task, GetCopy(t) PROVE TypeInv'
  <2>1. [NoCall EXCEPT !.ret = "OK"] \in Call
    BY NewCalls
  <2> QED
    BY <1>a, <1>11, <1>16, <2>1 DEF GetCopy, Returns, TypeOK, Stage
<1>17. ASSUME NEW t \in Task, DefaultCall(t) PROVE TypeInv'
  <2>1. [NoCall EXCEPT !.op = "default", !.wcount = 1, !.wpart = 0] \in Call
    BY NewCalls
  <2>2. ram' \in Sector /\ ram'.val \in Params
    BY <1>a, <1>b, <1>17 DEF DefaultCall, TypeOK, Sector
  <2> QED
    BY <1>a, <1>11, <1>17, <2>1, <2>2 DEF DefaultCall, TypeOK, Stage
<1>18. ASSUME NEW m \in BOOLEAN, SetUpdpMode(m) PROVE TypeInv'
  BY <1>18 DEF SetUpdpMode, TypeInv, TypeOK, sysVars
<1>19. ASSUME NEW t \in Task, SaveStart(t), usrRam' \in Params,
              UNCHANGED <<flash, ram, mode, lock, flsLock, updp, usrFlash>>
       PROVE  TypeInv'
  <2> DEFINE d == [NoCall EXCEPT !.op = "saveuser", !.step = 1]
  <2>1. d \in Call /\ d.step = 1
    BY NewCalls
  <2>2. pc' = [pc EXCEPT ![t] = "usrwrite"] /\ call' = [call EXCEPT ![t] = d]
    BY <1>19 DEF SaveStart
  <2> HIDE DEF d
  <2>3. /\ pc' \in [Task -> Stage] /\ pc'[t] = "usrwrite"
        /\ call' \in [Task -> Call] /\ call'[t] = d
        /\ \A u \in Task \ {t} : pc'[u] = pc[u] /\ call'[u] = call[u]
    BY <1>a, <2>1, <2>2, MoveTypes DEF Stage
  <2> QED
    BY <1>19, <2>1, <2>3 DEF TypeInv, TypeOK
<1>20. ASSUME NEW t \in Task, NEW r \in {"OK", "EIO", "EMEM"}, Returns(t, r),
              UNCHANGED <<flash, ram, mode, lock, usrRam, updp>>,
              flsLock' \in Task \cup {NoTask}, usrFlash' \in UsrSector
       PROVE  TypeInv'
  <2>1. /\ pc' \in [Task -> Stage] /\ pc'[t] = "idle" /\ call' \in [Task -> Call]
        /\ \A u \in Task \ {t} : pc'[u] = pc[u] /\ call'[u] = call[u]
    BY <1>a, <1>20, ReturnTypes
  <2> QED
    BY <1>20, <2>1 DEF TypeInv, TypeOK
<1>21. ASSUME NEW t \in Task, NEW arg \in Arg, SaveUser(t, arg) PROVE TypeInv'
  <2>1. UNCHANGED <<flash, ram, mode, lock, flsLock, updp, usrFlash>>
    BY <1>21 DEF SaveUser
  <2>2. CASE Returns(t, "EMEM") /\ UNCHANGED usrRam
    BY <1>a, <1>20, <2>1, <2>2 DEF TypeOK
  <2>3. CASE /\ usrRam' = Assign(IF usrRam = Blank THEN Zero ELSE usrRam, arg)
             /\ SaveStart(t)
    <3>1. (IF usrRam = Blank THEN Zero ELSE usrRam) \in Params
      BY <1>a, <1>b DEF TypeOK
    <3>2. usrRam' \in Params
      BY <2>3, <3>1, ArgTypes
    <3> QED
      BY <1>19, <2>1, <2>3, <3>2
  <2> QED
    BY <1>21, <2>2, <2>3 DEF SaveUser
<1>22. ASSUME NEW t \in Task, SaveUserDefault(t) PROVE TypeInv'
  <2>1. UNCHANGED <<flash, ram, mode, lock, flsLock, updp, usrRam, usrFlash>>
    BY <1>22 DEF SaveUserDefault, usrVars
  <2>2. CASE usrRam = Blank
    BY <1>a, <1>20, <1>22, <2>1, <2>2 DEF SaveUserDefault, TypeOK
  <2>3. CASE usrRam # Blank
    BY <1>a, <1>19, <1>22, <2>1, <2>3 DEF SaveUserDefault, TypeOK
  <2> QED
    BY <2>2, <2>3
<1>23. ASSUME NEW t \in Task, UserErase(t) PROVE TypeInv'
  <2>1. usrFlash \in UsrSector
    BY <1>a DEF TypeOK
  <2> DEFINE d == [call[t] EXCEPT !.usrBuf = usrFlash]
  <2>2. d \in Call /\ d.step = call[t].step
    BY <1>c, <2>1, CallEdits
  <2>3. pc' = [pc EXCEPT ![t] = "usrprogram"] /\ call' = [call EXCEPT ![t] = d]
    BY <1>23 DEF UserErase
  <2> HIDE DEF d
  <2>4. /\ pc' \in [Task -> Stage] /\ pc'[t] = "usrprogram"
        /\ call' \in [Task -> Call] /\ call'[t] = d
        /\ \A u \in Task \ {t} : pc'[u] = pc[u] /\ call'[u] = call[u]
    BY <1>a, <2>2, <2>3, MoveTypes DEF Stage
  <2> QED
    BY <1>23, <2>2, <2>4, RecordTypes DEF UserErase, TypeInv, TypeOK
<1>24. ASSUME NEW t \in Task, pc[t] \in {"usrwrite", "usrprogram"},
              NEW e \in {"OK", "EIO"}, SaveStep(t, e),
              UNCHANGED <<flash, ram, mode, lock, updp, usrRam>>,
              flsLock' \in Task \cup {NoTask}, usrFlash' \in UsrSector
       PROVE  TypeInv'
  <2>1. CASE call[t].step = 3
    BY <1>20, <1>24, <2>1 DEF SaveStep
  <2>2. CASE call[t].step # 3
    <3> DEFINE r == IF e = "OK" THEN call[t].ret ELSE e
               d == [call[t] EXCEPT !.step = call[t].step + 1, !.ret = r]
    <3>1. call[t].step + 1 \in 1 .. 3 /\ r \in {"OK", "EIO", "EMEM"}
      BY <1>d, <1>24, <2>2 DEF TypeInv
    <3>2. pc' = [pc EXCEPT ![t] = "usrwrite"] /\ call' = [call EXCEPT ![t] = d]
      BY <1>24, <2>2 DEF SaveStep
    <3>3. d \in Call /\ d.step \in 1 .. 3
      <4> HIDE DEF r
      <4>1. call[t].step + 1 \in 0 .. 3
        BY <3>1
      <4>2. d \in Call
        BY <1>c, <3>1, <4>1 DEF Call
      <4>3. d.step = call[t].step + 1
        BY <1>c DEF Call
      <4> QED
        BY <3>1, <4>2, <4>3
    <3> HIDE DEF r, d
    <3>4. /\ pc' \in [Task -> Stage] /\ pc'[t] = "usrwrite"
          /\ call' \in [Task -> Call] /\ call'[t] = d
          /\ \A u \in Task \ {t} : pc'[u] = pc[u] /\ call'[u] = call[u]
      BY <1>a, <3>2, <3>3, MoveTypes DEF Stage
    <3> QED
      BY <1>24, <3>3, <3>4 DEF TypeInv, TypeOK
  <2> QED
    BY <2>1, <2>2
<1>25. ASSUME NEW t \in Task, UserNoMem(t) PROVE TypeInv'
  BY <1>a, <1>24, <1>25 DEF UserNoMem, TypeOK, usrVars
<1>26. ASSUME NEW t \in Task, UserProgram(t) PROVE TypeInv'
  <2>1. usrRam \in Params /\ call[t].step \in 1 .. 3 /\ call[t].usrBuf \in UsrSector
    BY <1>d, <1>26 DEF UserProgram, TypeInv
  <2>2. ASSUME NEW u \in UsrSector
        PROVE  /\ [u EXCEPT !.magic = TRUE] \in UsrSector
               /\ [u EXCEPT !.val = usrRam] \in UsrSector
               /\ [u EXCEPT !.crc = usrRam] \in UsrSector
    BY <2>1 DEF UsrSector
  <2>3. usrFlash' \in UsrSector
    <3>1. CASE call[t].step = 1
      BY <1>26, <2>1, <2>2, <3>1 DEF UserProgram
    <3>2. CASE call[t].step = 2
      BY <1>26, <2>1, <2>2, <3>2 DEF UserProgram
    <3>3. CASE call[t].step = 3
      BY <1>26, <2>1, <2>2, <3>3 DEF UserProgram
    <3> QED
      BY <2>1, <3>1, <3>2, <3>3
  <2> QED
    BY <1>24, <1>26, <2>3 DEF UserProgram
<1>27. CASE UNCHANGED vars
  BY <1>27 DEF vars, TypeInv, TypeOK
<1>28. ASSUME NEW t \in Task, CoreCall(t) \/ TaskStep(t) PROVE TypeInv'
  BY <1>28, <1>1, <1>2, <1>4, <1>5, <1>6, <1>9, <1>10, <1>12, <1>13, <1>14, <1>15,
     <1>16 DEF CoreCall, TaskStep, ParamToFlash
<1> QED
  BY <1>7, <1>8, <1>17, <1>18, <1>21, <1>22, <1>23, <1>25, <1>26, <1>27, <1>28
     DEF Next, ResetNext, UserNext, CoreNext, UserStep

\* The state before the first boot is of its type.
LEMMA TypeInit == Init => TypeInv
BY ParamAssumption, RecordTypes DEF Init, TypeInv, TypeOK, Stage

\* Every variable keeps its type under the whole API, for every number of
\* tasks and parameters, with any allocation failing, with the modify count
\* wrapping, and with the unlocked tls_param_to_default racing the others; in
\* particular tls_param_init never loads an erased sector into flash_param.
THEOREM TypeCorrect == Spec => []TypeOK
<1>1. TypeInv => TypeOK
  BY DEF TypeInv
<1> QED
  BY <1>1, TypeInit, TypeStep, PTL DEF Spec
=============================================================================
