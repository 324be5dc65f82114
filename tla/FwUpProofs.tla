----------------------------- MODULE FwUpProofs -----------------------------
(***************************************************************************)
(* The firmware update: types, what the OTA flag announces and what comes  *)
(* of it, where the update writes, and who wakes the tasks that wait.      *)
(***************************************************************************)
EXTENDS FwUp, FastLemmas, SequenceTheorems

Bits == Errors \cup {"BUSY", "COMPLETE"}
FwSet == [busy : BOOLEAN, bits : SUBSET Bits, sid : Sid \cup {0}, received : Nat,
          total : Nat, updated : Nat, base : Nat, offset : Nat]
Place == {"receive", "take", "data", "verify", "flag", "finish", "complete", "next"}
SchedSet == [at : Place, item : Task \cup {NoTask}, next : Task \cup {NoTask}, buf : Seq(Byte)]
Status == {"IDLE", "SUCCESS", "FIO", "FMEM", "FCRC", "FCOMPLETE"}
ReqSet == [sid : Sid \cup {0}, data : Seq(Byte), status : Status]
PcSet == {"idle", "enter", "exit", "reset", "clear", "async", "add", "failed", "send", "wait"}

\* booter holds the header of an image.
HasHeader == ImageOf(booter) \in Image /\ booter = Header(ImageOf(booter))

FwTypes ==
    /\ FastTypeOK
    /\ fw \in FwSet /\ (fw.busy <=> fw.sid # 0)
    /\ list \in Seq(Task) /\ queue \in 0 .. QueueSize
    /\ sched \in SchedSet /\ (sched.at # "receive" => sched.item \in Task)
    /\ booter \in [1 .. HdrLen -> Cell]
    /\ flag \in Image \cup {NoFlag}
    /\ pc \in [Task -> PcSet]
    /\ req \in [Task -> ReqSet]

\* The lengths are those of the image whose header was taken.
HeaderInv ==
    /\ fw.total > 0 => HasHeader /\ fw.received >= HdrLen
    /\ sched.at = "flag" => HasHeader

LEMMA HeaderTypes ==
    ASSUME NEW i \in Image
    PROVE  Header(i) \in Seq(Byte) /\ Len(Header(i)) = HdrLen /\ HdrLen = 2
           /\ Header(i) \in [1 .. HdrLen -> Cell]
<1>1. Header(i)[1] \in HeaderCell /\ Header(i)[2] \in HeaderCell
  BY DEF HeaderCell
<1>2. <<i, 1>> \in Byte /\ <<i, 2>> \in Byte
  BY <1>1, FwAssumption DEF Header
<1> QED
  BY <1>2 DEF Header, HdrLen, Cell

LEMMA NoSessionType == NoSession \in FwSet /\ SchedIdle \in SchedSet /\ NoRequest \in ReqSet
  BY DEF NoSession, FwSet, Bits, SchedIdle, SchedSet, Place, NoRequest, ReqSet, Status

\* ImageOf gives an image whose header it is, if there is one.
LEMMA ImageOfHeader ==
    ASSUME NEW h, NEW i \in Image, h = Header(i)
    PROVE  ImageOf(h) \in Image /\ h = Header(ImageOf(h))
  BY DEF ImageOf

\* What a task can do to the rest.
LEMMA TaskFrame ==
    ASSUME FwTypes, NEW t \in Task, InCall(t) \/ Call(t)
    PROVE  /\ UNCHANGED <<area, gsSector, sched, booter, flag>>
           /\ FastTypeOK'
           /\ cache # NoCache => cache' = cache
           /\ fw' \in FwSet /\ (fw'.busy <=> fw'.sid # 0)
           /\ \/ fw'.total = 0 /\ fw'.updated = 0
              \/ /\ fw'.total = fw.total /\ fw'.updated = fw.updated
                 /\ fw'.received = fw.received
                 /\ fw'.base = fw.base /\ fw'.offset = fw.offset
           /\ list' \in Seq(Task) /\ queue' \in 0 .. QueueSize
           /\ pc' \in [Task -> PcSet] /\ req' \in [Task -> ReqSet]
<1>1. /\ fw \in FwSet /\ (fw.busy <=> fw.sid # 0) /\ FastTypeOK
      /\ list \in Seq(Task) /\ queue \in 0 .. QueueSize
      /\ pc \in [Task -> PcSet] /\ req \in [Task -> ReqSet]
  BY DEF FwTypes
<1>2. \A l \in PcSet : Goto(t, l) => pc' \in [Task -> PcSet]
  BY <1>1 DEF Goto
<1>3. CASE Entered(t)
  <2>1. PICK s \in Sid, heap \in Heap("cache") :
           /\ fw' = [NoSession EXCEPT !.busy = TRUE, !.sid = s]
           /\ FastInit(heap)
    BY <1>3 DEF Entered
  <2>2. fw' \in FwSet /\ fw'.busy /\ fw'.sid # 0 /\ fw'.total = 0 /\ fw'.updated = 0
    BY <2>1, NoSessionType, FwAssumption DEF NoSession, FwSet
  <2>3. FastTypeOK' /\ (cache # NoCache => cache' = cache) /\ UNCHANGED <<area, gsSector>>
    BY <1>1, <2>1 DEF FastInit, FastTypeOK, Cell
  <2>4. pc' \in [Task -> PcSet]
    BY <1>2, <1>3 DEF Entered, PcSet
  <2> QED
    BY <1>1, <1>3, <2>2, <2>3, <2>4 DEF Entered
<1>4. ASSUME UNCHANGED fastVars, UNCHANGED <<sched, booter, flag>>
      PROVE  UNCHANGED <<area, gsSector, sched, booter, flag>> /\ FastTypeOK' /\ cache' = cache
  BY <1>1, <1>4 DEF fastVars, FastTypeOK
<1>5. CASE Controlled(t)
  <2>1. fw' \in FwSet /\ (fw'.busy <=> fw'.sid # 0)
        /\ \/ fw'.total = 0 /\ fw'.updated = 0
           \/ /\ fw'.total = fw.total /\ fw'.updated = fw.updated
              /\ fw'.received = fw.received
              /\ fw'.base = fw.base /\ fw'.offset = fw.offset
    <3>1. CASE pc[t] = "exit" /\ fw' = NoSession
      BY <3>1, NoSessionType DEF NoSession
    <3>2. CASE pc[t] = "reset" /\ fw' = [NoSession EXCEPT !.busy = fw.busy, !.sid = fw.sid]
      BY <1>1, <3>2, NoSessionType DEF NoSession, FwSet
    <3>3. CASE pc[t] = "clear" /\ fw' = [fw EXCEPT !.bits = @ \ Errors]
      BY <1>1, <3>3 DEF FwSet
    <3> QED
      BY <1>5, <3>1, <3>2, <3>3 DEF Controlled
  <2>2. pc' \in [Task -> PcSet]
    BY <1>2, <1>5 DEF Controlled, PcSet
  <2> QED
    BY <1>1, <1>4, <1>5, <2>1, <2>2 DEF Controlled
<1>6. CASE SetCrcError(t)
  <2>1. fw' = [fw EXCEPT !.bits = @ \cup {"CRC"}]
    BY <1>6 DEF SetCrcError
  <2>2. fw.bits \cup {"CRC"} \in SUBSET Bits
    BY <1>1 DEF FwSet, Bits, Errors
  <2>3. fw' \in FwSet /\ fw'.busy = fw.busy /\ fw'.sid = fw.sid
        /\ fw'.total = fw.total /\ fw'.updated = fw.updated /\ fw'.received = fw.received
        /\ fw'.base = fw.base /\ fw'.offset = fw.offset
    BY <1>1, <2>1, <2>2 DEF FwSet
  <2> QED
    BY <1>1, <1>4, <1>6, <2>3 DEF SetCrcError
<1>7. CASE Enter(t) \/ (\E op \in {"exit", "reset", "clear"} : Control(t, op)) \/ Async(t)
  <2>1. pc' \in [Task -> PcSet]
    BY <1>2, <1>7 DEF Enter, Control, Async, PcSet
  <2>2. UNCHANGED <<fastVars, fw, list, queue, sched, booter, flag, req>>
    BY <1>7 DEF Enter, Control, Async
  <2> QED
    BY <1>1, <1>4, <2>1, <2>2
<1>8. CASE Add(t) \/ Send(t)
  <2>1. pc' \in [Task -> PcSet]
    BY <1>2, <1>8 DEF Add, Send, PcSet
  <2>2. list' \in Seq(Task) /\ queue' \in 0 .. QueueSize
    <3>1. CASE Add(t)
      BY <1>1, <3>1 DEF Add
    <3>2. CASE Send(t)
      BY <1>1, <3>2, FwAssumption DEF Send
    <3> QED
      BY <1>8, <3>1, <3>2
  <2>3. UNCHANGED <<fastVars, fw, sched, booter, flag, req>>
    BY <1>8 DEF Add, Send
  <2> QED
    BY <1>1, <1>4, <2>1, <2>2, <2>3
<1>9. CASE \E data \in Data : Request(t, data)
  <2>1. PICK data \in Data : Request(t, data)
    BY <1>9
  <2>2. pc' \in [Task -> PcSet]
    BY <1>2, <2>1 DEF Request, PcSet
  <2>3. [sid |-> fw.sid, data |-> data, status |-> "IDLE"] \in ReqSet
    BY <1>1, FwAssumption DEF FwSet, ReqSet, Status
  <2>4. req' \in [Task -> ReqSet]
    BY <1>1, <2>1, <2>3 DEF Request
  <2>5. UNCHANGED <<fastVars, fw, list, queue, sched, booter, flag>>
    BY <2>1 DEF Request
  <2> QED
    BY <1>1, <1>4, <2>2, <2>4, <2>5
<1>10. CASE Return(t) \/ ReturnUnset(t)
  <2>1. PICK status \in Status : Returned(t, status)
    BY <1>1, <1>10 DEF Return, ReturnUnset, ReqSet, Status
  <2>2. [NoRequest EXCEPT !.status = status] \in ReqSet
    BY NoSessionType DEF ReqSet
  <2>3. req' \in [Task -> ReqSet] /\ pc' \in [Task -> PcSet]
    BY <1>1, <1>2, <2>1, <2>2 DEF Returned, PcSet
  <2>4. UNCHANGED <<fastVars, fw, list, queue, sched, booter, flag>>
    BY <1>10 DEF Return, ReturnUnset
  <2> QED
    BY <1>1, <1>4, <2>3, <2>4
<1> QED
  BY <1>3, <1>5, <1>6, <1>7, <1>8, <1>9, <1>10 DEF InCall, Call

\* FinishWith adds bits and sets the status of the request in hand.
LEMMA FinishFrame ==
    ASSUME FwTypes, sched.item \in Task, NEW status \in Status, NEW bits \in SUBSET Bits,
           FinishWith(status, bits)
    PROVE  /\ fw' \in FwSet /\ fw'.busy = fw.busy /\ fw'.sid = fw.sid
           /\ fw'.total = fw.total /\ fw'.updated = fw.updated /\ fw'.received = fw.received
           /\ fw'.base = fw.base /\ fw'.offset = fw.offset
           /\ sched' \in SchedSet /\ sched'.at = "finish" /\ sched'.item = sched.item
           /\ req' \in [Task -> ReqSet]
<1>1. fw \in FwSet /\ sched \in SchedSet /\ req \in [Task -> ReqSet]
  BY DEF FwTypes
<1>2. fw.bits \cup bits \in SUBSET Bits
  BY <1>1 DEF FwSet
<1>3. fw' = [fw EXCEPT !.bits = fw.bits \cup bits]
  BY <1>1 DEF FinishWith
<1>4. /\ fw' \in FwSet /\ fw'.busy = fw.busy /\ fw'.sid = fw.sid
      /\ fw'.total = fw.total /\ fw'.updated = fw.updated /\ fw'.received = fw.received
      /\ fw'.base = fw.base /\ fw'.offset = fw.offset
  BY <1>1, <1>2, <1>3 DEF FwSet
<1>5. sched' \in SchedSet /\ sched'.at = "finish" /\ sched'.item = sched.item
  BY <1>1 DEF FinishWith, At, SchedSet, Place
<1>6. req' \in [Task -> ReqSet]
  <2>1. [req[sched.item] EXCEPT !.status = status] \in ReqSet
    BY <1>1 DEF ReqSet
  <2> QED
    BY <1>1, <2>1 DEF FinishWith, SetStatus
<1> QED
  BY <1>4, <1>5, <1>6

\* The request after another one in the list.
LEMMA AfterType ==
    ASSUME NEW l \in Seq(Task), NEW t
    PROVE  After(t, l) \in Task \cup {NoTask}
<1> DEFINE later == {k \in 2 .. Len(l) : l[k - 1] = t}
<1>1. CASE later = {}
  BY <1>1 DEF After
<1>2. CASE later # {}
  <2> DEFINE k == CHOOSE k \in later : TRUE
  <2>1. k \in later
    BY <1>2
  <2>2. k \in 1 .. Len(l)
    BY <2>1
  <2>3. After(t, l) = l[k]
    BY <1>2 DEF After
  <2> HIDE DEF k
  <2> QED
    BY <2>2, <2>3
<1> QED
  BY <1>1, <1>2

LEMMA UnlinkedType ==
    ASSUME NEW l \in Seq(Task), NEW t
    PROVE  Unlinked(t, l) \in Seq(Task)
<1> DEFINE places == {k \in DOMAIN l : l[k] = t}
<1>1. CASE places = {}
  BY <1>1 DEF Unlinked
<1>2. CASE places # {}
  <2> DEFINE k == CHOOSE k \in places : TRUE
  <2>1. k \in places
    BY <1>2
  <2>2. k \in 1 .. Len(l)
    BY <2>1
  <2>3. Unlinked(t, l) = SubSeq(l, 1, k - 1) \o SubSeq(l, k + 1, Len(l))
    BY <1>2 DEF Unlinked, RemoveAt
  <2> HIDE DEF k
  <2>4. SubSeq(l, 1, k - 1) \in Seq(Task) /\ SubSeq(l, k + 1, Len(l)) \in Seq(Task)
    BY <2>2
  <2> QED
    BY <2>3, <2>4
<1> QED
  BY <1>1, <1>2

\* The steps of the scheduler that touch no flash.
LEMMA QuietTypes ==
    ASSUME FwTypes, HeaderInv, Receive \/ Discard \/ Finish \/ Complete
    PROVE  FwTypes' /\ HeaderInv'
<1>1. /\ fw \in FwSet /\ (fw.busy <=> fw.sid # 0) /\ FastTypeOK
      /\ list \in Seq(Task) /\ queue \in 0 .. QueueSize
      /\ sched \in SchedSet /\ (sched.at # "receive" => sched.item \in Task)
  BY DEF FwTypes
<1>2. /\ UNCHANGED <<area, cache, gsSector, booter, flag, pc>>
      /\ FastTypeOK' /\ HasHeader' = HasHeader
  BY <1>1 DEF Receive, Discard, Finish, Complete, fastVars, FastTypeOK, HasHeader
<1> DEFINE Same == /\ fw' \in FwSet /\ fw'.busy = fw.busy /\ fw'.sid = fw.sid
                   /\ fw'.total = fw.total /\ fw'.received = fw.received
           Moved == sched' \in SchedSet /\ (sched'.at # "receive" => sched'.item \in Task)
                    /\ sched'.at # "flag"
           Rest == list' \in Seq(Task) /\ queue' \in 0 .. QueueSize /\ req' \in [Task -> ReqSet]
<1>3. CASE Receive
  <2>1. queue' \in 0 .. QueueSize /\ UNCHANGED <<list, req>>
    BY <1>1, <1>3, FwAssumption DEF Receive
  <2>2. CASE list = <<>>
    <3>1. UNCHANGED <<fw, sched>> /\ sched.at = "receive"
      BY <1>3, <2>2 DEF Receive
    <3> QED
      BY <1>1, <1>2, <2>1, <3>1 DEF FwTypes, HeaderInv
  <2>3. CASE list # <<>>
    <3>1. fw' = [fw EXCEPT !.bits = @ \cup {"BUSY"}]
          /\ sched' = [SchedIdle EXCEPT !.at = "take", !.item = Head(list),
                                        !.next = After(Head(list), list)]
      BY <1>3, <2>3 DEF Receive
    <3>2. Head(list) \in Task /\ After(Head(list), list) \in Task \cup {NoTask}
      BY <1>1, <2>3, AfterType
    <3>3. sched' = [at |-> "take", item |-> Head(list), next |-> After(Head(list), list),
                    buf |-> <<>>]
      BY <3>1 DEF SchedIdle
    <3>4. sched' \in SchedSet /\ sched'.item \in Task /\ sched'.at = "take"
      BY <3>2, <3>3 DEF SchedSet, Place
    <3>5. fw.bits \cup {"BUSY"} \in SUBSET Bits
      BY <1>1 DEF FwSet, Bits
    <3>6. Same
      BY <1>1, <3>1, <3>5 DEF FwSet
    <3> HIDE DEF Same
    <3> QED
      BY <1>1, <1>2, <2>1, <3>4, <3>6 DEF FwTypes, HeaderInv, Same
  <2> QED
    BY <2>2, <2>3
<1>4. CASE Discard
  <2>1. sched.item \in Task /\ UNCHANGED <<list, queue>>
    BY <1>1, <1>4 DEF Discard
  <2>2. \E status \in Status : FinishWith(status, {})
    BY <1>4 DEF Discard, Status
  <2>3. {} \in SUBSET Bits
    OBVIOUS
  <2>4. Same /\ sched' \in SchedSet /\ sched'.at = "finish" /\ sched'.item = sched.item
        /\ req' \in [Task -> ReqSet]
    BY <2>1, <2>2, <2>3, FinishFrame
  <2> HIDE DEF Same
  <2> QED
    BY <1>1, <1>2, <2>1, <2>4 DEF FwTypes, HeaderInv, Same
<1>5. CASE Finish
  <2>1. list' \in Seq(Task)
    BY <1>1, <1>5, UnlinkedType DEF Finish
  <2>2. UNCHANGED <<fw, queue, req>> /\ sched.at = "finish" /\ sched' = [sched EXCEPT !.at = "complete"]
    BY <1>5 DEF Finish, At
  <2>3. sched' \in SchedSet /\ sched'.item = sched.item /\ sched'.at = "complete"
    BY <1>1, <2>2 DEF SchedSet, Place
  <2> QED
    BY <1>1, <1>2, <2>1, <2>2, <2>3 DEF FwTypes, HeaderInv
<1>6. CASE Complete
  <2>1. UNCHANGED <<list, queue, req>> /\ sched.at = "complete" /\ sched' = [sched EXCEPT !.at = "next"]
    BY <1>6 DEF Complete, At
  <2>2. sched' \in SchedSet /\ sched'.item = sched.item /\ sched'.at = "next"
    BY <1>1, <2>1 DEF SchedSet, Place
  <2>3. Same
    BY <1>1, <1>6 DEF Complete, FwSet
  <2> HIDE DEF Same
  <2> QED
    BY <1>1, <1>2, <2>1, <2>2, <2>3 DEF FwTypes, HeaderInv, Same
<1> QED
  BY <1>3, <1>4, <1>5, <1>6

\* What TakeHeader reads, computes and does, case by case: it goes on with the
\* data, refuses the header, or writes it.
TakeData == req[sched.item].data
TakeRoom == IF fw.received < HdrLen THEN HdrLen - fw.received ELSE 0
TakeLen == IF Len(TakeData) < TakeRoom THEN Len(TakeData) ELSE TakeRoom
TakeRest == SubSeq(TakeData, TakeLen + 1, Len(TakeData))
TakeBuffer == [k \in 1 .. HdrLen |-> IF k \in fw.received + 1 .. fw.received + TakeLen
                                     THEN TakeData[k - fw.received] ELSE booter[k]]

TakeOn ==
    /\ TakeRoom > 0 => TakeRest = <<>>
    /\ fw' = [fw EXCEPT !.received = fw.received + TakeLen + Len(TakeRest)]
    /\ sched' = [sched EXCEPT !.at = "data", !.buf = TakeRest]
    /\ UNCHANGED <<fastVars, req>>

TakeRefused ==
    /\ TakeRoom > 0
    /\ SetStatus("FIO")
    /\ fw' = [fw EXCEPT !.received = fw.received + TakeLen, !.bits = @ \cup {"IO"}]
    /\ At("finish")
    /\ UNCHANGED fastVars

TakeWritten ==
    LET i == ImageOf(TakeBuffer) IN
    /\ TakeRoom > 0
    /\ i \in Image /\ TakeBuffer = Header(i) /\ HeaderOk(TakeBuffer)
    /\ fw' = [fw EXCEPT !.received = fw.received + TakeLen + Len(TakeRest),
                        !.base = ImgBase[i], !.total = HdrLen + Len(ImgBody[i]) + ImgSig[i],
                        !.updated = HdrLen, !.offset = HdrLen]
    /\ fw.received + TakeLen >= HdrLen
    /\ sched' = [sched EXCEPT !.at = "data", !.buf = TakeRest]
    /\ FastWriteTo(ImgBase[i], TakeBuffer)
    /\ UNCHANGED req

LEMMA TakeCases ==
    ASSUME FwTypes, TakeHeader
    PROVE  /\ sched.at = "take" /\ sched.item \in Task
           /\ booter' = TakeBuffer
           /\ UNCHANGED <<list, queue, flag, pc>>
           /\ TakeOn \/ TakeRefused \/ TakeWritten
           /\ TakeData \in Seq(Byte) /\ TakeRoom \in Nat /\ TakeLen \in Nat
           /\ TakeRest \in Seq(Byte) /\ Len(TakeRest) \in Nat
           /\ TakeLen <= Len(TakeData) /\ Len(TakeRest) <= Len(TakeData)
           /\ TakeBuffer \in [1 .. HdrLen -> Cell]
           /\ TakeRoom = 0 => TakeBuffer = booter
<1>1. fw \in FwSet /\ sched \in SchedSet /\ req \in [Task -> ReqSet] /\ sched.at = "take"
      /\ sched.item \in Task /\ booter \in [1 .. HdrLen -> Cell]
  BY DEF FwTypes, TakeHeader
<1>2. fw.received \in Nat /\ HdrLen = 2
  BY <1>1 DEF FwSet, HdrLen
<1>3. TakeData \in Seq(Byte)
  BY <1>1 DEF TakeData, ReqSet
<1>4. Len(TakeData) \in Nat
  BY <1>3
<1>5. TakeRoom \in Nat /\ (TakeRoom > 0 => fw.received + TakeRoom = HdrLen)
  BY <1>2 DEF TakeRoom
<1>6. TakeLen \in Nat /\ TakeLen <= Len(TakeData) /\ TakeLen <= TakeRoom
  BY <1>4, <1>5 DEF TakeLen
<1>7. TakeRest \in Seq(Byte) /\ Len(TakeRest) \in Nat /\ Len(TakeRest) <= Len(TakeData)
  BY <1>3, <1>4, <1>6 DEF TakeRest
<1>8. TakeBuffer \in [1 .. HdrLen -> Cell]
  <2>1. ASSUME NEW k \in 1 .. HdrLen, k \in fw.received + 1 .. fw.received + TakeLen
        PROVE  TakeData[k - fw.received] \in Cell
    <3>1. k - fw.received \in 1 .. Len(TakeData)
      BY <1>2, <1>4, <1>6, <2>1
    <3> QED
      BY <1>3, <3>1 DEF Cell
  <2> QED
    BY <1>1, <2>1 DEF TakeBuffer
<1>9. TakeRoom = 0 => TakeBuffer = booter
  <2> SUFFICES ASSUME TakeRoom = 0 PROVE TakeBuffer = booter
    OBVIOUS
  <2>1. TakeLen = 0
    BY <1>6
  <2>2. \A k \in 1 .. HdrLen : k \notin fw.received + 1 .. fw.received + TakeLen
    BY <1>2, <2>1
  <2>3. TakeBuffer = [k \in 1 .. HdrLen |-> booter[k]]
    BY <2>2 DEF TakeBuffer
  <2> QED
    BY <1>1, <2>3
<1>10. /\ booter' = TakeBuffer
      /\ IF TakeLen = 0 \/ TakeLen < TakeRoom
         THEN /\ fw' = [[fw EXCEPT !.received = @ + TakeLen] EXCEPT !.received = @ + Len(TakeRest)]
              /\ sched' = [sched EXCEPT !.at = "data", !.buf = TakeRest]
              /\ UNCHANGED <<fastVars, req>>
         ELSE IF ~HeaderOk(TakeBuffer)
         THEN /\ SetStatus("FIO")
              /\ fw' = [[fw EXCEPT !.received = @ + TakeLen] EXCEPT !.bits = @ \cup {"IO"}]
              /\ At("finish")
              /\ UNCHANGED fastVars
         ELSE /\ fw' = [[fw EXCEPT !.received = @ + TakeLen] EXCEPT
                          !.received = @ + Len(TakeRest), !.base = ImgBase[ImageOf(TakeBuffer)],
                          !.total = HdrLen + Len(ImgBody[ImageOf(TakeBuffer)])
                                      + ImgSig[ImageOf(TakeBuffer)],
                          !.updated = HdrLen, !.offset = HdrLen]
              /\ sched' = [sched EXCEPT !.at = "data", !.buf = TakeRest]
              /\ FastWriteTo(ImgBase[ImageOf(TakeBuffer)], TakeBuffer)
              /\ UNCHANGED req
  BY Zenon DEF TakeHeader, TakeData, TakeRoom, TakeLen, TakeRest, TakeBuffer
<1>11. CASE TakeLen = 0 \/ TakeLen < TakeRoom
  <2>1. [[fw EXCEPT !.received = @ + TakeLen] EXCEPT !.received = @ + Len(TakeRest)]
          = [fw EXCEPT !.received = fw.received + TakeLen + Len(TakeRest)]
    BY <1>1 DEF FwSet
  <2>2. ASSUME TakeRoom > 0 PROVE TakeRest = <<>>
    <3>1. TakeLen = Len(TakeData)
      BY <1>4, <1>5, <1>11, <2>2 DEF TakeLen
    <3> QED
      BY <1>3, <1>4, <3>1 DEF TakeRest
  <2>3. TakeOn
    BY <1>10, <1>11, <2>1, <2>2 DEF TakeOn
  <2> QED
    BY <1>1, <1>3, <1>5, <1>6, <1>7, <1>8, <1>9, <1>10, <2>3 DEF TakeHeader
<1>12. CASE ~(TakeLen = 0 \/ TakeLen < TakeRoom)
  <2>1. TakeRoom > 0 /\ TakeLen = TakeRoom
    BY <1>5, <1>6, <1>12
  <2>2. CASE ~HeaderOk(TakeBuffer)
    <3>1. [[fw EXCEPT !.received = @ + TakeLen] EXCEPT !.bits = @ \cup {"IO"}]
            = [fw EXCEPT !.received = fw.received + TakeLen, !.bits = @ \cup {"IO"}]
      BY <1>1 DEF FwSet
    <3>2. TakeRefused
      BY <1>10, <1>12, <2>1, <2>2, <3>1 DEF TakeRefused
    <3> QED
      BY <1>1, <1>3, <1>5, <1>6, <1>7, <1>8, <1>9, <1>10, <3>2 DEF TakeHeader
  <2>3. CASE HeaderOk(TakeBuffer)
    <3> DEFINE i == ImageOf(TakeBuffer)
    <3>1. i \in Image /\ TakeBuffer = Header(i)
      BY <2>3, ImageOfHeader DEF HeaderOk
    <3> HIDE DEF i
    <3>2. [[fw EXCEPT !.received = @ + TakeLen] EXCEPT
                          !.received = @ + Len(TakeRest), !.base = ImgBase[i],
                          !.total = HdrLen + Len(ImgBody[i]) + ImgSig[i],
                          !.updated = HdrLen, !.offset = HdrLen]
            = [fw EXCEPT !.received = fw.received + TakeLen + Len(TakeRest),
                         !.base = ImgBase[i], !.total = HdrLen + Len(ImgBody[i]) + ImgSig[i],
                         !.updated = HdrLen, !.offset = HdrLen]
      BY <1>1 DEF FwSet
    <3>3. fw.received + TakeLen >= HdrLen
      BY <1>2, <1>5, <2>1
    <3>4. TakeWritten
      BY <1>10, <1>12, <2>1, <2>3, <3>1, <3>2, <3>3 DEF TakeWritten, i
    <3> QED
      BY <1>1, <1>3, <1>5, <1>6, <1>7, <1>8, <1>9, <1>10, <3>4 DEF TakeHeader
  <2> QED
    BY <2>2, <2>3
<1> QED
  BY <1>11, <1>12

LEMMA ImageTypes ==
    ASSUME NEW i \in Image
    PROVE  /\ ImgBase[i] \in Nat /\ ImgSig[i] \in Nat /\ ImgBody[i] \in Seq(Byte)
           /\ Len(ImgBody[i]) \in Nat /\ HdrLen = 2
           /\ HdrLen + Len(ImgBody[i]) + ImgSig[i] \in Nat \ {0}
           /\ \A k \in 0 .. HdrLen + Len(ImgBody[i]) - 1 : ImgBase[i] + k \in Addr
<1>1. ImgBase[i] \in Addr /\ ImgSig[i] \in Nat /\ ImgBody[i] \in Seq(Byte)
      /\ ImgBase[i] + HdrLen + Len(ImgBody[i]) + ImgSig[i] - 1 \in Addr
  BY FwAssumption
<1>2. ImgBase[i] \in Nat /\ Len(ImgBody[i]) \in Nat /\ HdrLen = 2
  BY <1>1, AddrSector DEF HdrLen
<1> DEFINE n == (LastSector + 1) * SecSize
           b == ImgBase[i]
           m == Len(ImgBody[i])
<1>3. n \in Int /\ Addr = 0 .. n - 1
  BY FastAssumption DEF Addr
<1> HIDE DEF n, b, m
<1>4. b \in Nat /\ m \in Nat /\ b + 2 + m + ImgSig[i] - 1 < n
  BY <1>1, <1>2, <1>3 DEF b, m
<1>5. \A k \in 0 .. 2 + m - 1 : b + k \in Addr
  BY <1>1, <1>3, <1>4
<1>6. \A k \in 0 .. HdrLen + Len(ImgBody[i]) - 1 : ImgBase[i] + k \in Addr
  BY <1>2, <1>5 DEF b, m
<1> QED
  BY <1>1, <1>2, <1>6

LEMMA TakeTypes ==
    ASSUME FwTypes, HeaderInv, TakeHeader
    PROVE  FwTypes' /\ HeaderInv'
<1>1. fw \in FwSet /\ sched \in SchedSet /\ req \in [Task -> ReqSet] /\ FastTypeOK
      /\ (fw.busy <=> fw.sid # 0)
  BY DEF FwTypes
<1>2. /\ sched.at = "take" /\ sched.item \in Task
      /\ booter' = TakeBuffer
      /\ UNCHANGED <<list, queue, flag, pc>>
      /\ TakeOn \/ TakeRefused \/ TakeWritten
      /\ TakeRoom \in Nat /\ TakeLen \in Nat
      /\ TakeRest \in Seq(Byte) /\ Len(TakeRest) \in Nat
      /\ TakeBuffer \in [1 .. HdrLen -> Cell]
      /\ TakeRoom = 0 => TakeBuffer = booter
  BY TakeCases
<1>3. fw.received \in Nat /\ HdrLen = 2 /\ fw.total \in Nat
  BY <1>1 DEF FwSet, HdrLen
<1>4. fw.total > 0 => TakeRoom = 0 /\ HasHeader /\ HasHeader'
  BY <1>2, <1>3 DEF HeaderInv, TakeRoom, HasHeader
<1>5. CASE TakeOn
  <2>1. fw' \in FwSet /\ fw'.busy = fw.busy /\ fw'.sid = fw.sid /\ fw'.total = fw.total
        /\ fw'.received >= fw.received
    <3>1. fw.received + TakeLen + Len(TakeRest) \in Nat
          /\ fw.received + TakeLen + Len(TakeRest) >= fw.received
      BY <1>2, <1>3
    <3> QED
      BY <1>1, <1>5, <3>1 DEF TakeOn, FwSet
  <2>2. sched' \in SchedSet /\ sched'.item = sched.item /\ sched'.at = "data"
    BY <1>1, <1>2, <1>5 DEF TakeOn, SchedSet, Place
  <2>3. FastTypeOK' /\ req' = req
    BY <1>1, <1>5 DEF TakeOn, fastVars, FastTypeOK
  <2>4. fw'.total > 0 => HasHeader' /\ fw'.received >= HdrLen
    BY <1>1, <1>3, <1>4, <2>1 DEF HeaderInv, FwSet
  <2> QED
    BY <1>1, <1>2, <2>1, <2>2, <2>3, <2>4 DEF FwTypes, HeaderInv
<1>6. CASE TakeRefused
  <2>1. fw.total = 0
    BY <1>3, <1>4, <1>6 DEF TakeRefused
  <2>2. fw.bits \cup {"IO"} \in SUBSET Bits /\ fw.received + TakeLen \in Nat
    BY <1>1, <1>2, <1>3 DEF FwSet, Bits, Errors
  <2>3. fw' \in FwSet /\ fw'.busy = fw.busy /\ fw'.sid = fw.sid /\ fw'.total = fw.total
    BY <1>1, <1>6, <2>2 DEF TakeRefused, FwSet
  <2>4. sched' \in SchedSet /\ sched'.item = sched.item /\ sched'.at = "finish"
    BY <1>1, <1>6 DEF TakeRefused, At, SchedSet, Place
  <2>5. req' \in [Task -> ReqSet]
    <3>1. [req[sched.item] EXCEPT !.status = "FIO"] \in ReqSet
      BY <1>1, <1>2 DEF ReqSet, Status
    <3> QED
      BY <1>1, <1>2, <1>6, <3>1 DEF TakeRefused, SetStatus
  <2>6. FastTypeOK'
    BY <1>1, <1>6 DEF TakeRefused, fastVars, FastTypeOK
  <2> QED
    BY <1>1, <1>2, <2>1, <2>3, <2>4, <2>5, <2>6 DEF FwTypes, HeaderInv
<1>7. CASE TakeWritten
  <2> DEFINE i == ImageOf(TakeBuffer)
  <2>1. i \in Image /\ TakeBuffer = Header(i)
    BY <1>7 DEF TakeWritten
  <2>2. ImgBase[i] \in Nat /\ HdrLen + Len(ImgBody[i]) + ImgSig[i] \in Nat
    BY <2>1, ImageTypes
  <2>3. FastTypeOK'
    BY <1>1, <1>7, <2>1, <2>2, HeaderTypes, WriteTypes DEF TakeWritten
  <2>4. HasHeader'
    BY <1>2, <2>1 DEF HasHeader
  <2>5. fw.received + TakeLen + Len(TakeRest) \in Nat
        /\ fw.received + TakeLen + Len(TakeRest) >= HdrLen
    BY <1>2, <1>3, <1>7 DEF TakeWritten
  <2>6. fw' = [fw EXCEPT !.received = fw.received + TakeLen + Len(TakeRest),
                        !.base = ImgBase[i], !.total = HdrLen + Len(ImgBody[i]) + ImgSig[i],
                        !.updated = HdrLen, !.offset = HdrLen]
    BY <1>7 DEF TakeWritten
  <2> HIDE DEF i
  <2>7. fw' \in FwSet /\ fw'.busy = fw.busy /\ fw'.sid = fw.sid /\ fw'.received >= HdrLen
    BY <1>1, <1>3, <2>2, <2>5, <2>6 DEF FwSet
  <2>8. sched' \in SchedSet /\ sched'.item = sched.item /\ sched'.at = "data" /\ req' = req
    BY <1>1, <1>2, <1>7 DEF TakeWritten, SchedSet, Place
  <2> QED
    BY <1>1, <1>2, <2>3, <2>4, <2>7, <2>8 DEF FwTypes, HeaderInv
<1> QED
  BY <1>2, <1>5, <1>6, <1>7

\* What WriteData does, case by case.
DataDone == fw.updated + Len(sched.buf) >= fw.total

DataWritten ==
    /\ Len(sched.buf) > 0 /\ fw.base + fw.offset \in Addr
    /\ FastWriteTo(fw.base + fw.offset, sched.buf)
    /\ fw' = [fw EXCEPT !.offset = @ + Len(sched.buf), !.updated = @ + Len(sched.buf)]
    /\ At(IF DataDone THEN "verify" ELSE "finish")
    /\ IF DataDone THEN UNCHANGED req ELSE SetStatus("SUCCESS")

LEMMA DataCases ==
    ASSUME FwTypes, WriteData
    PROVE  /\ sched.at = "data" /\ sched.item \in Task
           /\ UNCHANGED <<list, queue, booter, flag, pc>>
           /\ \/ FinishWith("SUCCESS", {}) /\ UNCHANGED fastVars
              \/ FinishWith("FIO", {"IO"}) /\ UNCHANGED fastVars
              \/ DataWritten
  BY DEF WriteData, FwTypes, DataWritten, DataDone

LEMMA WrittenFrame ==
    ASSUME FwTypes, sched.item \in Task, DataWritten
    PROVE  /\ FastTypeOK'
           /\ fw' \in FwSet /\ fw'.busy = fw.busy /\ fw'.sid = fw.sid
           /\ fw'.total = fw.total /\ fw'.received = fw.received /\ fw'.base = fw.base
           /\ fw'.updated = fw.updated + Len(sched.buf)
           /\ fw'.offset = fw.offset + Len(sched.buf)
           /\ sched' \in SchedSet /\ sched'.item = sched.item
           /\ sched'.at = IF DataDone THEN "verify" ELSE "finish"
           /\ req' \in [Task -> ReqSet]
<1>1. fw \in FwSet /\ sched \in SchedSet /\ req \in [Task -> ReqSet] /\ FastTypeOK
  BY DEF FwTypes
<1>2. /\ sched.buf \in Seq(Byte) /\ Len(sched.buf) \in Nat
      /\ fw.base \in Nat /\ fw.offset \in Nat /\ fw.updated \in Nat
  BY <1>1 DEF SchedSet, FwSet
<1>3. fw.base + fw.offset \in Nat /\ fw.offset + Len(sched.buf) \in Nat
      /\ fw.updated + Len(sched.buf) \in Nat
  BY <1>2
<1>4. FastTypeOK'
  BY <1>1, <1>2, <1>3, WriteTypes DEF DataWritten
<1>5. /\ fw' \in FwSet /\ fw'.busy = fw.busy /\ fw'.sid = fw.sid
      /\ fw'.total = fw.total /\ fw'.received = fw.received /\ fw'.base = fw.base
      /\ fw'.updated = fw.updated + Len(sched.buf)
      /\ fw'.offset = fw.offset + Len(sched.buf)
  BY <1>1, <1>3 DEF DataWritten, FwSet
<1>6. sched' = [sched EXCEPT !.at = IF DataDone THEN "verify" ELSE "finish"]
  BY DEF DataWritten, At
<1>7. /\ sched' \in SchedSet /\ sched'.item = sched.item
      /\ sched'.at = IF DataDone THEN "verify" ELSE "finish"
  BY <1>1, <1>6 DEF SchedSet, Place
<1>8. req' \in [Task -> ReqSet]
  <2>1. [req[sched.item] EXCEPT !.status = "SUCCESS"] \in ReqSet
    BY <1>1 DEF ReqSet, Status
  <2> QED
    BY <1>1, <2>1 DEF DataWritten, SetStatus
<1> QED
  BY <1>4, <1>5, <1>7, <1>8

LEMMA DataTypes ==
    ASSUME FwTypes, HeaderInv, WriteData
    PROVE  FwTypes' /\ HeaderInv'
<1>1. /\ sched.at = "data" /\ sched.item \in Task
      /\ UNCHANGED <<list, queue, booter, flag, pc>>
      /\ \/ FinishWith("SUCCESS", {}) /\ UNCHANGED fastVars
         \/ FinishWith("FIO", {"IO"}) /\ UNCHANGED fastVars
         \/ DataWritten
  BY DataCases
<1>2. HasHeader' = HasHeader
  BY <1>1 DEF HasHeader
<1>3. ASSUME NEW status \in Status, NEW bits \in SUBSET Bits, FinishWith(status, bits),
             UNCHANGED fastVars
      PROVE  FwTypes' /\ HeaderInv'
  <2>1. FastTypeOK'
    BY <1>3 DEF FwTypes, fastVars, FastTypeOK
  <2>2. /\ fw' \in FwSet /\ fw'.busy = fw.busy /\ fw'.sid = fw.sid
        /\ fw'.total = fw.total /\ fw'.received = fw.received
        /\ sched' \in SchedSet /\ sched'.at = "finish" /\ sched'.item = sched.item
        /\ req' \in [Task -> ReqSet]
    BY <1>1, <1>3, FinishFrame
  <2> QED
    BY <1>1, <1>2, <2>1, <2>2 DEF FwTypes, HeaderInv
<1>4. CASE DataWritten
  <2>1. /\ FastTypeOK'
        /\ fw' \in FwSet /\ fw'.busy = fw.busy /\ fw'.sid = fw.sid
        /\ fw'.total = fw.total /\ fw'.received = fw.received
        /\ sched' \in SchedSet /\ sched'.item = sched.item /\ sched'.at # "flag"
        /\ req' \in [Task -> ReqSet]
    BY <1>1, <1>4, WrittenFrame
  <2> QED
    BY <1>1, <1>2, <2>1 DEF FwTypes, HeaderInv
<1>5. "SUCCESS" \in Status /\ "FIO" \in Status /\ {"IO"} \in SUBSET Bits /\ {} \in SUBSET Bits
  BY DEF Status, Bits, Errors
<1> QED
  BY <1>1, <1>3, <1>4, <1>5

\* What VerifyImage does, case by case.
LEMMA VerifyCases ==
    ASSUME FwTypes, VerifyImage
    PROVE  /\ sched.at = "verify" /\ sched.item \in Task
           /\ FastDestroy
           /\ UNCHANGED <<list, queue, booter, flag, pc>>
           /\ \/ \E status \in Status, bits \in SUBSET Bits : FinishWith(status, bits)
              \/ /\ fw.total > 0 /\ BodyOk(area', ImageOf(booter))
                 /\ At("flag")
                 /\ UNCHANGED <<fw, req>>
<1>1. /\ {"FMEM", "FIO", "FCRC"} \subseteq Status
      /\ {"MEM"} \in SUBSET Bits /\ {"IO"} \in SUBSET Bits /\ {"CRC"} \in SUBSET Bits
  BY DEF Status, Bits, Errors
<1> QED
  BY <1>1 DEF VerifyImage, FwTypes

LEMMA DestroyTypes ==
    ASSUME FastTypeOK, FastDestroy
    PROVE  FastTypeOK' /\ cache' = NoCache
           /\ (cache # NoCache => \A a \in Addr : area'[a] = View(a))
<1>1. \E a : a \in Addr
  <2>1. (LastSector + 1) * SecSize \in Nat \ {0}
    BY FastAssumption
  <2>2. 0 \in Addr
    BY <2>1 DEF Addr
  <2> QED
    BY <2>2
<1>2. FlushedArea \in [Addr -> Cell]
  BY <1>1, FlushCells
<1> QED
  BY <1>2, FlushCells DEF FastDestroy, FastTypeOK

LEMMA EndTypes ==
    ASSUME FwTypes, HeaderInv, VerifyImage \/ SetFlag
    PROVE  FwTypes' /\ HeaderInv'
<1>1. fw \in FwSet /\ (fw.busy <=> fw.sid # 0) /\ sched \in SchedSet /\ FastTypeOK
  BY DEF FwTypes
<1>2. ASSUME sched.item \in Task, FastTypeOK', UNCHANGED <<list, queue, booter, pc>>,
             flag' \in Image \cup {NoFlag},
             NEW status \in Status, NEW bits \in SUBSET Bits, FinishWith(status, bits)
      PROVE  FwTypes' /\ HeaderInv'
  <2>1. /\ fw' \in FwSet /\ fw'.busy = fw.busy /\ fw'.sid = fw.sid
        /\ fw'.total = fw.total /\ fw'.received = fw.received
        /\ sched' \in SchedSet /\ sched'.at = "finish" /\ sched'.item = sched.item
        /\ req' \in [Task -> ReqSet]
    BY <1>2, FinishFrame
  <2>2. HasHeader' = HasHeader
    BY <1>2 DEF HasHeader
  <2> QED
    BY <1>1, <1>2, <2>1, <2>2 DEF FwTypes, HeaderInv
<1>3. CASE VerifyImage
  <2>1. /\ sched.at = "verify" /\ sched.item \in Task
        /\ UNCHANGED <<list, queue, booter, flag, pc>> /\ FastTypeOK'
    BY <1>1, <1>3, VerifyCases, DestroyTypes
  <2>2. CASE \E status \in Status, bits \in SUBSET Bits : FinishWith(status, bits)
    BY <1>2, <2>1, <2>2 DEF FwTypes
  <2>3. CASE fw.total > 0 /\ At("flag") /\ UNCHANGED <<fw, req>>
    <3>1. sched' \in SchedSet /\ sched'.item = sched.item /\ sched'.at = "flag"
      BY <1>1, <2>3 DEF At, SchedSet, Place
    <3>2. HasHeader /\ HasHeader'
      BY <2>1, <2>3 DEF HeaderInv, HasHeader
    <3> QED
      BY <1>1, <2>1, <2>3, <3>1, <3>2 DEF FwTypes, HeaderInv
  <2> QED
    BY <1>3, <2>2, <2>3, VerifyCases
<1>4. CASE SetFlag
  <2>1. /\ sched.item \in Task /\ UNCHANGED <<list, queue, booter, pc>> /\ FastTypeOK'
        /\ FinishWith("SUCCESS", {"COMPLETE"})
    BY <1>1, <1>4 DEF SetFlag, FwTypes, fastVars, FastTypeOK
  <2>2. flag' \in Image \cup {NoFlag}
    BY <1>4 DEF SetFlag, FwTypes, HeaderInv, HasHeader
  <2>3. "SUCCESS" \in Status /\ {"COMPLETE"} \in SUBSET Bits
    BY DEF Status, Bits
  <2> QED
    BY <1>2, <2>1, <2>2, <2>3
<1> QED
  BY <1>3, <1>4

LEMMA RestartTypes ==
    ASSUME FwTypes, Restart
    PROVE  FwTypes' /\ HeaderInv'
<1>1. FastTypeOK'
  BY DEF Restart, FastRestart, FwTypes, FastTypeOK
<1>2. fw' \in FwSet /\ (fw'.busy <=> fw'.sid # 0) /\ fw'.total = 0
  BY NoSessionType DEF Restart, NoSession
<1>3. sched' \in SchedSet /\ sched'.at = "receive"
  BY NoSessionType DEF Restart, SchedIdle
<1>4. booter' \in [1 .. HdrLen -> Cell] /\ list' \in Seq(Task) /\ queue' \in 0 .. QueueSize
  BY FwAssumption DEF Restart, Cell
<1>5. req' \in [Task -> ReqSet] /\ pc' \in [Task -> PcSet]
  BY NoSessionType DEF Restart, PcSet
<1> QED
  BY <1>1, <1>2, <1>3, <1>4, <1>5 DEF Restart, FwTypes, HeaderInv

LEMMA NextRequestTypes ==
    ASSUME FwTypes, HeaderInv, NextRequest
    PROVE  FwTypes' /\ HeaderInv'
<1>1. CASE UpdateOver
  BY <1>1, RestartTypes DEF NextRequest
<1>2. CASE ~UpdateOver
  <2>1. UNCHANGED <<fastVars, fw, list, queue, booter, flag, pc, req>>
    BY <1>2 DEF NextRequest
  <2>2. sched \in SchedSet /\ list \in Seq(Task)
    BY DEF FwTypes
  <2>3. sched' \in SchedSet /\ sched'.at # "flag" /\ (sched'.at # "receive" => sched'.item \in Task)
    <3>1. CASE sched.next = NoTask
      BY <1>2, <3>1, NoSessionType DEF NextRequest, SchedIdle
    <3>2. CASE sched.next # NoTask
      <4>1. sched.next \in Task /\ After(sched.next, list) \in Task \cup {NoTask}
        BY <2>2, <3>2, AfterType DEF SchedSet
      <4>2. sched' = [sched EXCEPT !.at = "take", !.item = sched.next,
                                   !.next = After(sched.next, list)]
        BY <1>2, <3>2 DEF NextRequest
      <4> QED
        BY <2>2, <4>1, <4>2 DEF SchedSet, Place
    <3> QED
      BY <3>1, <3>2
  <2>4. HasHeader' = HasHeader /\ FastTypeOK'
    BY <2>1 DEF HasHeader, FwTypes, fastVars, FastTypeOK
  <2> QED
    BY <2>1, <2>3, <2>4 DEF FwTypes, HeaderInv
<1> QED
  BY <1>1, <1>2

LEMMA InitFw == Init => FwTypes /\ HeaderInv
<1> SUFFICES ASSUME Init PROVE FwTypes /\ HeaderInv
  OBVIOUS
<1>1. FastTypeOK
  BY DEF Init, FastInitState, FastTypeOK, Cell
<1>2. fw \in FwSet /\ (fw.busy <=> fw.sid # 0) /\ fw.total = 0
  BY NoSessionType DEF Init, NoSession
<1>3. sched \in SchedSet /\ sched.at = "receive"
  BY NoSessionType DEF Init, SchedIdle
<1>4. booter \in [1 .. HdrLen -> Cell] /\ list \in Seq(Task) /\ queue \in 0 .. QueueSize
  BY FwAssumption DEF Init, Cell
<1>5. req \in [Task -> ReqSet] /\ pc \in [Task -> PcSet]
  BY NoSessionType DEF Init, PcSet
<1> QED
  BY <1>1, <1>2, <1>3, <1>4, <1>5 DEF Init, FwTypes, HeaderInv

LEMMA NextFwTypes == FwTypes /\ HeaderInv /\ [Next]_vars => (FwTypes /\ HeaderInv)'
<1> SUFFICES ASSUME FwTypes, HeaderInv, [Next]_vars PROVE FwTypes' /\ HeaderInv'
  OBVIOUS
<1>1. CASE Receive \/ Discard \/ Finish \/ Complete
  BY <1>1, QuietTypes
<1>2. CASE TakeHeader
  BY <1>2, TakeTypes
<1>3. CASE WriteData
  BY <1>3, DataTypes
<1>4. CASE VerifyImage \/ SetFlag
  BY <1>4, EndTypes
<1>5. CASE NextRequest
  BY <1>5, NextRequestTypes
<1>6. CASE Restart
  BY <1>6, RestartTypes
<1>7. ASSUME NEW t \in Task, InCall(t) \/ Call(t) PROVE FwTypes' /\ HeaderInv'
  <2>1. HasHeader' = HasHeader
    BY <1>7, TaskFrame DEF HasHeader
  <2>2. FwTypes'
    BY <1>7, TaskFrame DEF FwTypes
  <2>3. HeaderInv'
    BY <1>7, <2>1, TaskFrame DEF HeaderInv
  <2> QED
    BY <2>2, <2>3
<1>8. CASE UNCHANGED vars
  BY <1>8 DEF vars, FwTypes, FastTypeOK, HeaderInv, HasHeader
<1> QED
  BY <1>1, <1>2, <1>3, <1>4, <1>5, <1>6, <1>7, <1>8 DEF Next, Scheduler

\* Types of the firmware update, for any number of tasks, images and failures.
\* In particular the OTA flag only ever names an image: what SetFlag reads from
\* the header buffer is a header, however the tasks' calls interleave.
THEOREM FwUpTypes == Spec => []FwTypeOK
<1>1. FwTypes => FwTypeOK
  BY DEF FwTypes, FwTypeOK, FwSet, SchedSet, Bits
<1> QED
  BY <1>1, InitFw, NextFwTypes, PTL DEF Spec

-----------------------------------------------------------------------------
(* What the OTA flag announces.                                            *)

\* The scheduler is on its way to tls_sys_reset, and no task can stop it: a
\* session that is ended or reset meanwhile has both lengths 0.
Ending == sched.at \in {"flag", "finish", "complete", "next"} /\ fw.updated >= fw.total

\* Nobody opened a session since the last restart.
Unopened ==
    /\ fw.sid = 0 /\ list = <<>> /\ sched.at = "receive"
    /\ \A t \in Task : pc[t] \notin {"async", "add"}

CacheInv == cache = NoCache => Ending \/ Unopened

\* From the header on, the writes go up from it without a gap, and a flush of
\* the cache would leave the header in flash.
HeaderStored ==
    fw.total > 0 /\ ~Ending =>
        /\ fw.base = ImgBase[ImageOf(booter)] /\ fw.offset >= HdrLen
        /\ cache # NoCache /\ gsSector = Sector(fw.base + fw.offset)
        /\ \A k \in 1 .. HdrLen : View(fw.base + k - 1) = Header(ImageOf(booter))[k]

Stored(i) ==
    \A k \in 1 .. Len(Header(i) \o ImgBody[i]) :
        area[ImgBase[i] + k - 1] = (Header(i) \o ImgBody[i])[k]

FlagInv ==
    /\ sched.at \in {"verify", "flag"} => fw.updated >= fw.total
    /\ sched.at = "flag" => Stored(ImageOf(booter))
    /\ flag # NoFlag => Stored(flag) /\ Ending /\ sched.at # "flag"

StoredInv == CacheInv /\ HeaderStored /\ FlagInv

\* Steps that leave flash, cache and lengths alone, with a cache or at the end.
LEMMA SteadyStored ==
    ASSUME FwTypes, StoredInv, UNCHANGED <<area, cache, gsSector, flag>>,
           fw'.total = fw.total, fw'.updated = fw.updated,
           fw'.base = fw.base, fw'.offset = fw.offset,
           fw.total > 0 => booter' = booter,
           sched'.at \notin {"verify", "flag"},
           Ending => sched'.at \in {"flag", "finish", "complete", "next"},
           cache # NoCache \/ Ending
    PROVE  StoredInv'
<1>1. Ending => Ending'
  BY DEF Ending
<1>2. CacheInv'
  BY <1>1 DEF CacheInv
<1>3. HeaderStored'
  <2> SUFFICES ASSUME fw'.total > 0, ~Ending' PROVE HeaderStored'
    BY DEF HeaderStored
  <2>1. /\ fw.base = ImgBase[ImageOf(booter)] /\ fw.offset >= HdrLen
        /\ cache # NoCache /\ gsSector = Sector(fw.base + fw.offset)
        /\ \A k \in 1 .. HdrLen : View(fw.base + k - 1) = Header(ImageOf(booter))[k]
    BY <1>1 DEF StoredInv, HeaderStored
  <2>2. booter' = booter
    OBVIOUS
  <2> QED
    BY <2>1, <2>2 DEF HeaderStored, View
<1>4. FlagInv'
  <2>1. \A i : Stored(i) => Stored(i)'
    BY DEF Stored
  <2> QED
    BY <1>1, <2>1 DEF StoredInv, FlagInv
<1> QED
  BY <1>2, <1>3, <1>4 DEF StoredInv

\* Before the first session no call of a task gets further than to open one.
LEMMA UnopenedTask ==
    ASSUME "cache" \notin HeapFails, FwTypes, cache = NoCache, Unopened,
           NEW t \in Task, InCall(t) \/ Call(t)
    PROVE  cache' # NoCache \/ Unopened'
<1>1. fw \in FwSet /\ pc \in [Task -> PcSet] /\ fw.sid = 0
      /\ \A u \in Task : pc[u] \notin {"async", "add"}
  BY DEF FwTypes, Unopened
<1>2. sched' = sched
  BY TaskFrame
<1>3. CASE Entered(t)
  <2>1. Heap("cache") = {TRUE}
    BY DEF Heap
  <2>2. cache' = [j \in 0 .. SecSize - 1 |-> Junk]
    BY <1>3, <2>1 DEF Entered, FastInit
  <2>3. cache' \in [0 .. SecSize - 1 -> Byte \cup {Old, Junk}]
    BY <2>2
  <2> QED
    BY <2>3, FastAssumption
<1>4. CASE Controlled(t)
  <2>1. fw'.sid = 0
    <3>1. CASE pc[t] = "exit" /\ fw' = NoSession
      BY <3>1 DEF NoSession
    <3>2. CASE pc[t] = "reset" /\ fw' = [NoSession EXCEPT !.busy = fw.busy, !.sid = fw.sid]
      BY <1>1, <3>2 DEF NoSession
    <3>3. CASE pc[t] = "clear" /\ fw' = [fw EXCEPT !.bits = @ \ Errors]
      BY <1>1, <3>3 DEF FwSet
    <3> QED
      BY <1>4, <3>1, <3>2, <3>3 DEF Controlled
  <2>2. list' = list /\ pc' = [pc EXCEPT ![t] = "idle"]
    BY <1>4 DEF Controlled, Goto
  <2> QED
    BY <1>1, <1>2, <2>1, <2>2 DEF Unopened
<1>5. CASE Enter(t) \/ (\E op \in {"exit", "reset", "clear"} : Control(t, op))
  <2>1. \E l \in {"enter", "exit", "reset", "clear"} : pc' = [pc EXCEPT ![t] = l]
    BY <1>5 DEF Enter, Control, Goto
  <2>2. UNCHANGED <<fw, list>>
    BY <1>5 DEF Enter, Control
  <2> QED
    BY <1>1, <1>2, <2>1, <2>2 DEF Unopened
<1>6. CASE Send(t) \/ Return(t) \/ ReturnUnset(t)
  <2>1. \E l \in {"idle", "wait"} : pc' = [pc EXCEPT ![t] = l]
    BY <1>6 DEF Send, Return, ReturnUnset, Returned, Goto
  <2>2. UNCHANGED <<fw, list>>
    BY <1>6 DEF Send, Return, ReturnUnset
  <2> QED
    BY <1>1, <1>2, <2>1, <2>2 DEF Unopened
<1>7. ~SetCrcError(t) /\ (\A data \in Data : ~Request(t, data)) /\ ~Async(t) /\ ~Add(t)
  BY <1>1 DEF SetCrcError, Request, Async, Add
<1> QED
  BY <1>3, <1>4, <1>5, <1>6, <1>7 DEF InCall, Call

\* Tasks cannot spoil what is stored, whenever they end, reset or open sessions.
LEMMA TaskStored ==
    ASSUME "cache" \notin HeapFails, FwTypes, StoredInv,
           NEW t \in Task, InCall(t) \/ Call(t)
    PROVE  StoredInv'
<1>1. /\ UNCHANGED <<area, gsSector, sched, booter, flag>>
      /\ cache # NoCache => cache' = cache
      /\ \/ fw'.total = 0 /\ fw'.updated = 0
         \/ /\ fw'.total = fw.total /\ fw'.updated = fw.updated
            /\ fw'.base = fw.base /\ fw'.offset = fw.offset
  BY TaskFrame
<1>2. Ending => Ending'
  BY <1>1 DEF Ending
<1>3. CacheInv'
  BY <1>1, <1>2, UnopenedTask DEF StoredInv, CacheInv
<1>4. HeaderStored'
  <2> SUFFICES ASSUME fw'.total > 0, ~Ending' PROVE HeaderStored'
    BY DEF HeaderStored
  <2>1. /\ fw'.total = fw.total /\ fw'.updated = fw.updated
        /\ fw'.base = fw.base /\ fw'.offset = fw.offset
    BY <1>1
  <2>2. /\ fw.base = ImgBase[ImageOf(booter)] /\ fw.offset >= HdrLen
        /\ cache # NoCache /\ gsSector = Sector(fw.base + fw.offset)
        /\ \A k \in 1 .. HdrLen : View(fw.base + k - 1) = Header(ImageOf(booter))[k]
    BY <1>2, <2>1 DEF StoredInv, HeaderStored
  <2> QED
    BY <1>1, <2>1, <2>2 DEF HeaderStored, View
<1>5. FlagInv'
  <2>1. \A i : Stored(i) => Stored(i)'
    BY <1>1 DEF Stored
  <2> QED
    BY <1>1, <1>2, <2>1 DEF StoredInv, FlagInv
<1> QED
  BY <1>3, <1>4, <1>5 DEF StoredInv

\* The steps of the scheduler that touch no flash.
LEMMA QuietStored ==
    ASSUME FwTypes, HeaderInv, StoredInv,
           Receive \/ Discard \/ Finish \/ Complete \/ (NextRequest /\ ~UpdateOver)
    PROVE  StoredInv'
<1>1. fw \in FwSet /\ sched \in SchedSet /\ (sched.at # "receive" => sched.item \in Task)
  BY DEF FwTypes
<1>2. CASE Receive
  <2>1. sched.at = "receive" /\ UNCHANGED <<area, cache, gsSector, booter, flag, pc, list>>
    BY <1>2 DEF Receive, fastVars
  <2>2. CASE list = <<>>
    <3>1. UNCHANGED <<fw, sched>>
      BY <1>2, <2>2 DEF Receive
    <3> QED
      BY <2>1, <3>1 DEF StoredInv, CacheInv, Ending, Unopened, HeaderStored, View, FlagInv, Stored
  <2>3. CASE list # <<>>
    <3>1. fw' = [fw EXCEPT !.bits = @ \cup {"BUSY"}] /\ sched'.at = "take"
      BY <1>2, <2>3 DEF Receive, SchedIdle
    <3>2. cache # NoCache /\ ~Ending
      BY <2>1, <2>3 DEF StoredInv, CacheInv, Ending, Unopened
    <3>3. /\ fw'.total = fw.total /\ fw'.updated = fw.updated
          /\ fw'.base = fw.base /\ fw'.offset = fw.offset
      BY <1>1, <3>1 DEF FwSet
    <3> QED
      BY <2>1, <3>1, <3>2, <3>3, SteadyStored
  <2> QED
    BY <2>2, <2>3
<1>3. CASE Discard
  <2>1. sched.at = "take" /\ UNCHANGED <<area, cache, gsSector, booter, flag>>
        /\ sched.item \in Task
    BY <1>1, <1>3 DEF Discard, fastVars
  <2>2. \E status \in Status : FinishWith(status, {})
    BY <1>3 DEF Discard, Status
  <2>3. {} \in SUBSET Bits
    OBVIOUS
  <2>4. /\ fw'.total = fw.total /\ fw'.updated = fw.updated
        /\ fw'.base = fw.base /\ fw'.offset = fw.offset /\ sched'.at = "finish"
    BY <2>1, <2>2, <2>3, FinishFrame
  <2>5. cache # NoCache
    BY <2>1 DEF StoredInv, CacheInv, Ending, Unopened
  <2> QED
    BY <2>1, <2>4, <2>5, SteadyStored
<1>4. CASE Finish \/ Complete
  <2>1. sched.at \in {"finish", "complete"} /\ UNCHANGED <<area, cache, gsSector, booter, flag>>
    BY <1>4 DEF Finish, Complete, fastVars
  <2>2. sched'.at \in {"complete", "next"}
    BY <1>1, <1>4 DEF Finish, Complete, At, SchedSet
  <2>3. /\ fw'.total = fw.total /\ fw'.updated = fw.updated
        /\ fw'.base = fw.base /\ fw'.offset = fw.offset
    <3>1. fw' = fw \/ fw' = [fw EXCEPT !.bits = @ \ {"BUSY"}]
      BY <1>4 DEF Finish, Complete
    <3> QED
      BY <1>1, <3>1 DEF FwSet
  <2>4. cache # NoCache \/ Ending
    BY <2>1 DEF StoredInv, CacheInv, Unopened
  <2> QED
    BY <2>1, <2>2, <2>3, <2>4, SteadyStored
<1>5. CASE NextRequest /\ ~UpdateOver
  <2>1. sched.at = "next" /\ UNCHANGED <<area, cache, gsSector, booter, flag, fw>>
    BY <1>5 DEF NextRequest, fastVars
  <2>2. sched'.at \in {"receive", "take"}
    <3>1. \/ sched' = SchedIdle
          \/ sched' = [sched EXCEPT !.at = "take", !.item = sched.next,
                                    !.next = After(sched.next, list)]
      BY <1>5 DEF NextRequest
    <3>2. CASE sched' = SchedIdle
      BY <3>2 DEF SchedIdle
    <3>3. CASE sched' = [sched EXCEPT !.at = "take", !.item = sched.next,
                                      !.next = After(sched.next, list)]
      BY <1>1, <3>3 DEF SchedSet
    <3> QED
      BY <3>1, <3>2, <3>3
  <2>3. ~Ending
    BY <1>5 DEF Ending, UpdateOver
  <2>4. cache # NoCache
    BY <2>1, <2>3 DEF StoredInv, CacheInv, Unopened
  <2> QED
    BY <2>1, <2>2, <2>3, <2>4, SteadyStored
<1> QED
  BY <1>2, <1>3, <1>4, <1>5

LEMMA TakeStored ==
    ASSUME FwTypes, HeaderInv, StoredInv, TakeHeader
    PROVE  StoredInv'
<1>1. fw \in FwSet /\ sched \in SchedSet /\ FastTypeOK
  BY DEF FwTypes
<1>2. /\ sched.at = "take" /\ sched.item \in Task
      /\ booter' = TakeBuffer
      /\ UNCHANGED <<list, queue, flag, pc>>
      /\ TakeOn \/ TakeRefused \/ TakeWritten
      /\ TakeRoom = 0 => TakeBuffer = booter
  BY TakeCases
<1>3. cache # NoCache /\ ~Ending /\ flag = NoFlag
  BY <1>2 DEF StoredInv, CacheInv, Ending, Unopened, FlagInv
<1>4. fw.total > 0 => booter' = booter
  <2>1. fw.received \in Nat /\ HdrLen = 2
    BY <1>1 DEF FwSet, HdrLen
  <2> QED
    BY <1>2, <2>1 DEF HeaderInv, TakeRoom
<1>5. CASE TakeOn \/ TakeRefused
  <2>1. sched'.at \in {"data", "finish"}
    BY <1>1, <1>5 DEF TakeOn, TakeRefused, At, SchedSet
  <2>2. /\ fw'.total = fw.total /\ fw'.updated = fw.updated
        /\ fw'.base = fw.base /\ fw'.offset = fw.offset
    BY <1>1, <1>5 DEF TakeOn, TakeRefused, FwSet
  <2>3. UNCHANGED <<area, cache, gsSector>>
    BY <1>5 DEF TakeOn, TakeRefused, fastVars
  <2> QED
    BY <1>2, <1>3, <1>4, <2>1, <2>2, <2>3, SteadyStored
<1>6. CASE TakeWritten
  <2>1. PICK i \in Image : i = ImageOf(TakeBuffer)
    BY <1>6 DEF TakeWritten
  <2>2. i \in Image /\ TakeBuffer = Header(i) /\ FastWriteTo(ImgBase[i], TakeBuffer)
    BY <1>6, <2>1 DEF TakeWritten
  <2>3. ImgBase[i] \in Nat /\ Len(ImgBody[i]) \in Nat /\ HdrLen = 2
        /\ \A k \in 0 .. HdrLen + Len(ImgBody[i]) - 1 : ImgBase[i] + k \in Addr
    BY <2>2, ImageTypes
  <2>4. TakeBuffer \in Seq(Byte) /\ Len(TakeBuffer) = HdrLen
    BY <2>2, HeaderTypes
  <2>5. fw' = [fw EXCEPT !.received = fw.received + TakeLen + Len(TakeRest),
                        !.base = ImgBase[i], !.total = HdrLen + Len(ImgBody[i]) + ImgSig[i],
                        !.updated = HdrLen, !.offset = HdrLen]
    BY <1>6, <2>1 DEF TakeWritten
  <2>6. sched'.at = "data"
    BY <1>1, <1>6 DEF TakeWritten, SchedSet
  <2>7. ImageOf(booter') = i
    BY <1>2, <2>1
  <2>8. fw'.base = ImgBase[i] /\ fw'.offset = HdrLen
    BY <1>1, <2>5 DEF FwSet
  <2>9. gsSector' = Sector(ImgBase[i] + HdrLen) /\ cache' # NoCache
    BY <1>1, <1>3, <2>2, <2>3, <2>4, WriteTypes
  <2>10. ASSUME NEW k \in 1 .. HdrLen
        PROVE  View(ImgBase[i] + k - 1)' = Header(i)[k]
    <3>1. PICK a \in Addr : a = ImgBase[i] + (k - 1)
      BY <2>3
    <3>2. a \in Addr /\ a < ImgBase[i] + Len(TakeBuffer) /\ a >= ImgBase[i]
          /\ a - ImgBase[i] + 1 = k /\ a = ImgBase[i] + k - 1
      BY <2>3, <2>4, <3>1
    <3>3. View(a)' = TakeBuffer[a - ImgBase[i] + 1]
      BY <1>1, <1>3, <2>2, <2>3, <2>4, <3>2, WriteView
    <3> QED
      BY <2>2, <3>2, <3>3
  <2>11. CacheInv' /\ FlagInv'
    BY <1>2, <1>3, <2>6, <2>9 DEF CacheInv, FlagInv
  <2>12. HeaderStored'
    BY <2>3, <2>7, <2>8, <2>9, <2>10 DEF HeaderStored, View
  <2> QED
    BY <2>11, <2>12 DEF StoredInv
<1> QED
  BY <1>2, <1>5, <1>6

LEMMA DataStored ==
    ASSUME FwTypes, HeaderInv, StoredInv, WriteData
    PROVE  StoredInv'
<1>1. fw \in FwSet /\ sched \in SchedSet /\ FastTypeOK
  BY DEF FwTypes
<1>2. /\ sched.at = "data" /\ sched.item \in Task
      /\ UNCHANGED <<list, queue, booter, flag, pc>>
      /\ \/ FinishWith("SUCCESS", {}) /\ UNCHANGED fastVars
         \/ FinishWith("FIO", {"IO"}) /\ UNCHANGED fastVars
         \/ DataWritten
  BY DataCases
<1>3. cache # NoCache /\ ~Ending /\ flag = NoFlag
  BY <1>2 DEF StoredInv, CacheInv, Ending, Unopened, FlagInv
<1>4. ASSUME NEW status \in Status, NEW bits \in SUBSET Bits, FinishWith(status, bits),
             UNCHANGED fastVars
      PROVE  StoredInv'
  <2>1. /\ fw'.total = fw.total /\ fw'.updated = fw.updated
        /\ fw'.base = fw.base /\ fw'.offset = fw.offset /\ sched'.at = "finish"
    BY <1>2, <1>4, FinishFrame
  <2> QED
    BY <1>2, <1>3, <1>4, <2>1, SteadyStored DEF fastVars
<1>5. CASE DataWritten
  <2> DEFINE addr == fw.base + fw.offset
             n == Len(sched.buf)
  <2>1. /\ fw'.total = fw.total /\ fw'.base = fw.base
        /\ fw'.updated = fw.updated + n /\ fw'.offset = fw.offset + n
        /\ sched'.at = IF DataDone THEN "verify" ELSE "finish"
    BY <1>2, <1>5, WrittenFrame
  <2>2. /\ sched.buf \in Seq(Byte) /\ n \in Nat /\ fw.base \in Nat /\ fw.offset \in Nat
        /\ addr \in Nat /\ fw.updated \in Nat /\ fw.total \in Nat /\ HdrLen = 2
        /\ FastWriteTo(addr, sched.buf)
    BY <1>1, <1>5 DEF DataWritten, SchedSet, FwSet, HdrLen
  <2>3. gsSector' = Sector(addr + n) /\ cache' # NoCache
    BY <1>1, <1>3, <2>2, WriteTypes
  <2>4. addr + n = fw'.base + fw'.offset
    BY <2>1, <2>2
  <2>5. HeaderStored'
    <3> SUFFICES ASSUME fw'.total > 0 PROVE HeaderStored'
      BY DEF HeaderStored
    <3>1. PICK i \in Image : i = ImageOf(booter)
      BY <2>1 DEF HeaderInv, HasHeader
    <3>2. /\ fw.base = ImgBase[i] /\ fw.offset >= HdrLen
          /\ cache # NoCache /\ gsSector = Sector(addr)
          /\ \A k \in 1 .. HdrLen : View(fw.base + k - 1) = Header(i)[k]
      BY <1>3, <2>1, <3>1 DEF StoredInv, HeaderStored
    <3>3. ASSUME NEW k \in 1 .. HdrLen
          PROVE  View(ImgBase[i] + k - 1)' = Header(i)[k]
      <4>1. PICK a \in Addr : a = ImgBase[i] + (k - 1)
        BY ImageTypes
      <4>2. a \in Addr /\ a < addr /\ a < addr + n /\ a = ImgBase[i] + k - 1
        BY <2>2, <3>2, <4>1
      <4> HIDE DEF addr, n
      <4>3. View(a)' = IF Sector(a) = Sector(addr) THEN cache[a % SecSize] ELSE area[a]
        <5>1. ~(a >= addr)
          BY <2>2, <4>2, AddrSector
        <5>2. FastTypeOK /\ gsSector \in {0, Sector(addr)} /\ a < addr + Len(sched.buf)
          BY <1>1, <3>2, <4>2 DEF n
        <5>3. View(a)' = IF a >= addr THEN sched.buf[a - addr + 1]
                         ELSE IF Sector(a) = Sector(addr) THEN cache[a % SecSize]
                         ELSE IF gsSector \notin {0, Sector(addr)} THEN FlushedArea[a] ELSE area[a]
          <6>1. /\ addr \in Nat /\ sched.buf \in Seq(Byte) /\ FastWriteTo(addr, sched.buf)
                /\ cache # NoCache /\ a \in Addr
            BY <2>2, <3>2, <4>2
          <6> QED
            BY <5>2, <6>1, WriteView, Zenon
        <5> QED
          BY <5>1, <5>2, <5>3, Zenon
      <4>4. View(a)' = View(a)
        BY <3>2, <4>3 DEF View
      <4>5. View(a) = Header(i)[k]
        BY <3>2, <4>2
      <4> QED
        BY <4>2, <4>4, <4>5
    <3>4. fw'.offset >= HdrLen
      BY <2>1, <2>2, <3>2
    <3>5. gsSector' = Sector(fw'.base + fw'.offset)
      BY <2>3, <2>4
    <3> QED
      BY <1>2, <2>1, <2>3, <3>1, <3>2, <3>3, <3>4, <3>5 DEF HeaderStored, View
  <2>6. CacheInv'
    BY <2>3 DEF CacheInv
  <2>7. FlagInv'
    BY <1>2, <1>3, <2>1 DEF FlagInv, DataDone
  <2> QED
    BY <2>5, <2>6, <2>7 DEF StoredInv
<1>6. "SUCCESS" \in Status /\ "FIO" \in Status /\ {"IO"} \in SUBSET Bits /\ {} \in SUBSET Bits
  BY DEF Status, Bits, Errors
<1> QED
  BY <1>2, <1>4, <1>5, <1>6

\* The cells of an image.
LEMMA ImageCells ==
    ASSUME NEW i \in Image,
           NEW c, \A k \in 1 .. HdrLen : c[ImgBase[i] + k - 1] = Header(i)[k],
           \A k \in 1 .. Len(ImgBody[i]) : c[ImgBase[i] + HdrLen + k - 1] = ImgBody[i][k]
    PROVE  \A k \in 1 .. Len(Header(i) \o ImgBody[i]) :
               c[ImgBase[i] + k - 1] = (Header(i) \o ImgBody[i])[k]
<1> DEFINE body == ImgBody[i]
           head == Header(i)
           cells == head \o body
<1>1. Header(i) \in Seq(Byte) /\ Len(Header(i)) = HdrLen /\ HdrLen = 2
      /\ body \in Seq(Byte) /\ Len(body) \in Nat /\ ImgBase[i] \in Nat
  BY HeaderTypes, ImageTypes
<1>2. Len(cells) = HdrLen + Len(body)
  <2> HIDE DEF body, head
  <2>1. head \in Seq(Byte) /\ Len(head) = HdrLen /\ body \in Seq(Byte)
    BY <1>1 DEF body, head
  <2>2. Len(head \o body) = Len(head) + Len(body)
    BY <2>1, ConcatProperties, Zenon
  <2> QED
    BY <2>1, <2>2, Zenon
<1> HIDE DEF body
<1>3. ASSUME NEW k \in 1 .. Len(cells) PROVE c[ImgBase[i] + k - 1] = cells[k]
  <2>1. cells[k] = IF k <= HdrLen THEN Header(i)[k] ELSE body[k - HdrLen]
    BY <1>1, <1>2
  <2>2. CASE k <= HdrLen
    BY <1>1, <1>2, <2>1, <2>2
  <2>3. CASE ~(k <= HdrLen)
    <3>1. k - HdrLen \in 1 .. Len(body) /\ ImgBase[i] + HdrLen + (k - HdrLen) - 1 = ImgBase[i] + k - 1
      BY <1>1, <1>2, <2>3
    <3>2. c[ImgBase[i] + HdrLen + (k - HdrLen) - 1] = body[k - HdrLen]
      BY <3>1 DEF body
    <3> QED
      BY <2>1, <2>3, <3>1, <3>2
  <2> QED
    BY <2>2, <2>3
<1> QED
  BY <1>3 DEF body

LEMMA VerifyStored ==
    ASSUME FwTypes, HeaderInv, StoredInv, VerifyImage
    PROVE  StoredInv'
<1>1. fw \in FwSet /\ sched \in SchedSet /\ FastTypeOK
  BY DEF FwTypes
<1>2. /\ sched.at = "verify" /\ sched.item \in Task /\ FastDestroy
      /\ UNCHANGED <<list, queue, booter, flag, pc>>
      /\ \/ \E status \in Status, bits \in SUBSET Bits : FinishWith(status, bits)
         \/ /\ fw.total > 0 /\ BodyOk(area', ImageOf(booter))
            /\ At("flag")
            /\ UNCHANGED <<fw, req>>
  BY VerifyCases
<1>3. cache # NoCache /\ ~Ending /\ flag = NoFlag /\ fw.updated >= fw.total
  BY <1>2 DEF StoredInv, CacheInv, Ending, Unopened, FlagInv
<1>4. \A a \in Addr : area'[a] = View(a)
  BY <1>1, <1>2, <1>3, DestroyTypes
<1>5. CASE \E status \in Status, bits \in SUBSET Bits : FinishWith(status, bits)
  <2>1. fw'.total = fw.total /\ fw'.updated = fw.updated /\ sched'.at = "finish"
    BY <1>2, <1>5, FinishFrame
  <2>2. Ending'
    BY <1>3, <2>1 DEF Ending
  <2> QED
    BY <1>2, <1>3, <2>1, <2>2 DEF StoredInv, CacheInv, HeaderStored, FlagInv
<1>6. CASE /\ fw.total > 0 /\ BodyOk(area', ImageOf(booter))
           /\ At("flag")
           /\ UNCHANGED <<fw, req>>
  <2>1. PICK i \in Image : i = ImageOf(booter)
    BY <1>6 DEF HeaderInv, HasHeader
  <2>2. sched'.at = "flag"
    BY <1>1, <1>6 DEF At, SchedSet
  <2>3. Ending'
    BY <1>3, <1>6, <2>2 DEF Ending
  <2>4. fw.base = ImgBase[i] /\ \A k \in 1 .. HdrLen : View(ImgBase[i] + k - 1) = Header(i)[k]
    BY <1>3, <1>6, <2>1 DEF StoredInv, HeaderStored
  <2>5. ASSUME NEW k \in 1 .. HdrLen PROVE area'[ImgBase[i] + k - 1] = Header(i)[k]
    <3>1. ImgBase[i] + (k - 1) \in Addr /\ ImgBase[i] + (k - 1) = ImgBase[i] + k - 1
      BY ImageTypes
    <3> QED
      BY <1>4, <2>4, <3>1
  <2>6. \A k \in 1 .. Len(ImgBody[i]) : area'[ImgBase[i] + HdrLen + k - 1] = ImgBody[i][k]
    BY <1>6, <2>1, <2>4 DEF BodyOk
  <2>7. \A k \in 1 .. Len(Header(i) \o ImgBody[i]) :
           area'[ImgBase[i] + k - 1] = (Header(i) \o ImgBody[i])[k]
    BY <2>5, <2>6, ImageCells
  <2>8. ImageOf(booter') = i
    BY <1>2, <2>1
  <2>9. Stored(ImageOf(booter))'
    BY <2>7, <2>8 DEF Stored
  <2> QED
    BY <1>2, <1>3, <1>6, <2>2, <2>3, <2>9 DEF StoredInv, CacheInv, HeaderStored, FlagInv
<1> QED
  BY <1>2, <1>5, <1>6

LEMMA FlagStored ==
    ASSUME FwTypes, HeaderInv, StoredInv, SetFlag
    PROVE  StoredInv'
<1>1. sched.at = "flag" /\ sched.item \in Task /\ UNCHANGED <<area, cache, gsSector, booter>>
      /\ FinishWith("SUCCESS", {"COMPLETE"})
      /\ (flag' = ImageOf(booter) \/ flag' = flag)
  BY DEF SetFlag, fastVars, FwTypes
<1>2. "SUCCESS" \in Status /\ {"COMPLETE"} \in SUBSET Bits
  BY DEF Status, Bits
<1>3. fw'.total = fw.total /\ fw'.updated = fw.updated /\ sched'.at = "finish"
  BY <1>1, <1>2, FinishFrame
<1>4. Ending' /\ Stored(ImageOf(booter)) /\ flag = NoFlag
  BY <1>1, <1>3 DEF StoredInv, FlagInv, Ending
<1>5. flag' # NoFlag => Stored(flag)'
  BY <1>1, <1>4 DEF Stored
<1> QED
  BY <1>3, <1>4, <1>5 DEF StoredInv, CacheInv, HeaderStored, FlagInv

LEMMA RestartStored ==
    ASSUME Restart
    PROVE  StoredInv'
<1>1. Unopened'
  BY DEF Restart, Unopened, NoSession, SchedIdle
<1>2. fw'.total = 0 /\ sched'.at = "receive" /\ flag' = NoFlag
  BY DEF Restart, NoSession, SchedIdle
<1> QED
  BY <1>1, <1>2 DEF StoredInv, CacheInv, HeaderStored, FlagInv

LEMMA InitStored == Init => StoredInv
<1> SUFFICES ASSUME Init PROVE StoredInv
  OBVIOUS
<1>1. Unopened
  BY DEF Init, Unopened, NoSession, SchedIdle
<1>2. fw.total = 0 /\ sched.at = "receive" /\ flag = NoFlag
  BY DEF Init, NoSession, SchedIdle
<1> QED
  BY <1>1, <1>2 DEF StoredInv, CacheInv, HeaderStored, FlagInv

LEMMA NextStored ==
    ASSUME "cache" \notin HeapFails
    PROVE  FwTypes /\ HeaderInv /\ StoredInv /\ [Next]_vars => StoredInv'
<1> SUFFICES ASSUME FwTypes, HeaderInv, StoredInv, [Next]_vars PROVE StoredInv'
  OBVIOUS
<1>1. CASE Receive \/ Discard \/ Finish \/ Complete
  BY <1>1, QuietStored
<1>2. CASE TakeHeader
  BY <1>2, TakeStored
<1>3. CASE WriteData
  BY <1>3, DataStored
<1>4. CASE VerifyImage
  BY <1>4, VerifyStored
<1>5. CASE SetFlag
  BY <1>5, FlagStored
<1>6. CASE NextRequest
  BY <1>6, QuietStored, RestartStored DEF NextRequest
<1>7. CASE Restart
  BY <1>7, RestartStored
<1>8. ASSUME NEW t \in Task, InCall(t) \/ Call(t) PROVE StoredInv'
  BY <1>8, TaskStored
<1>9. CASE UNCHANGED vars
  BY <1>9 DEF vars, StoredInv, CacheInv, Ending, Unopened, HeaderStored, View, FlagInv, Stored
<1> QED
  BY <1>1, <1>2, <1>3, <1>4, <1>5, <1>6, <1>7, <1>8, <1>9 DEF Next, Scheduler

\* The OTA flag announces an image that is complete in flash, header and body:
\* for any number of tasks that open, reset, end and feed sessions in any order,
\* any images, sector size and pieces, and a power cut or a failure to read back
\* or to set the flag at any moment, provided that tls_fwup_enter gets the memory
\* of the write cache (without it the header is lost, see the README).
THEOREM FlagAnnouncesImage ==
    ASSUME "cache" \notin HeapFails
    PROVE  Spec => []FlagMeansImage
<1>1. FwTypes /\ StoredInv => FlagMeansImage
  BY DEF StoredInv, FlagInv, Stored, FlagMeansImage
<1>2. Init => FwTypes /\ HeaderInv /\ StoredInv
  BY InitFw, InitStored
<1>3. FwTypes /\ HeaderInv /\ StoredInv /\ [Next]_vars => (FwTypes /\ HeaderInv /\ StoredInv)'
  BY NextFwTypes, NextStored
<1> QED
  BY <1>1, <1>2, <1>3, PTL DEF Spec

\* From the last piece to the reset the lengths say that the update is over.
OverInv ==
    /\ sched.at \in {"verify", "flag"} => UpdateOver
    /\ flag # NoFlag => sched.at \in {"finish", "complete", "next"} /\ UpdateOver

LEMMA NextOver == FwTypes /\ OverInv /\ [Next]_vars => OverInv'
<1> SUFFICES ASSUME FwTypes, OverInv, [Next]_vars PROVE OverInv'
  OBVIOUS
<1>1. fw \in FwSet /\ sched \in SchedSet
  BY DEF FwTypes
<1>2. CASE Receive
  BY <1>1, <1>2 DEF Receive, SchedIdle, OverInv, UpdateOver, FwSet, SchedSet
<1>3. CASE Discard
  BY <1>1, <1>3 DEF Discard, FinishWith, At, OverInv, UpdateOver, FwSet, SchedSet
<1>4. CASE TakeHeader
  <2>1. sched.at = "take" /\ flag' = flag
    BY <1>4 DEF TakeHeader
  <2>2. sched'.at \in {"data", "finish"}
    BY <1>1, <1>4 DEF TakeHeader, At, SchedSet
  <2> QED
    BY <2>1, <2>2 DEF OverInv
<1>5. CASE WriteData
  <2>1. sched.at = "data" /\ flag' = flag
    BY <1>5 DEF WriteData
  <2>2. CASE sched'.at = "finish"
    BY <2>1, <2>2 DEF OverInv
  <2>3. CASE sched'.at # "finish"
    <3>1. /\ fw' = [fw EXCEPT !.offset = @ + Len(sched.buf), !.updated = @ + Len(sched.buf)]
          /\ fw.updated + Len(sched.buf) >= fw.total
      <4>1. CASE sched.buf = <<>> \/ fw.base + fw.offset \notin Addr
        BY <1>1, <1>5, <2>3, <4>1 DEF WriteData, FinishWith, At, SchedSet
      <4>2. CASE ~(sched.buf = <<>> \/ fw.base + fw.offset \notin Addr)
        BY <1>1, <1>5, <2>3, <4>2 DEF WriteData, FinishWith, At, SchedSet
      <4> QED
        BY <4>1, <4>2
    <3> QED
      BY <1>1, <2>1, <3>1 DEF OverInv, UpdateOver, FwSet
  <2> QED
    BY <2>2, <2>3
<1>6. CASE VerifyImage
  <2>1. sched.at = "verify" /\ flag' = flag
    BY <1>6 DEF VerifyImage
  <2>2. fw'.updated = fw.updated /\ fw'.total = fw.total
    BY <1>1, <1>6 DEF VerifyImage, FinishWith, FwSet
  <2> QED
    BY <2>1, <2>2 DEF OverInv, UpdateOver
<1>7. CASE SetFlag
  <2>1. /\ sched.at = "flag" /\ sched'.at = "finish"
        /\ fw'.updated = fw.updated /\ fw'.total = fw.total
    BY <1>1, <1>7 DEF SetFlag, FinishWith, At, FwSet, SchedSet
  <2> QED
    BY <2>1 DEF OverInv, UpdateOver
<1>8. CASE Finish
  BY <1>1, <1>8 DEF Finish, At, OverInv, UpdateOver, SchedSet
<1>9. CASE Complete
  BY <1>1, <1>9 DEF Complete, At, OverInv, UpdateOver, FwSet, SchedSet
<1>10. CASE Restart
  BY <1>10 DEF Restart, SchedIdle, OverInv
<1>11. CASE NextRequest
  <2>1. CASE UpdateOver
    BY <1>10, <1>11, <2>1 DEF NextRequest
  <2>2. CASE ~UpdateOver
    <3>1. /\ flag' = flag
          /\ \/ sched' = SchedIdle
             \/ sched' = [sched EXCEPT !.at = "take", !.item = sched.next,
                                       !.next = After(sched.next, list)]
      BY <1>11, <2>2 DEF NextRequest
    <3>2. sched'.at \in {"receive", "take"}
      <4>1. CASE sched' = SchedIdle
        BY <4>1 DEF SchedIdle
      <4>2. CASE sched' = [sched EXCEPT !.at = "take", !.item = sched.next,
                                        !.next = After(sched.next, list)]
        BY <1>1, <4>2 DEF SchedSet
      <4> QED
        BY <3>1, <4>1, <4>2
    <3>3. flag = NoFlag
      BY <2>2 DEF OverInv
    <3> QED
      BY <3>1, <3>2, <3>3 DEF OverInv
  <2> QED
    BY <2>1, <2>2
<1>12. ASSUME NEW t \in Task, InCall(t) \/ Call(t) PROVE OverInv'
  <2>1. /\ UNCHANGED <<sched, flag>>
        /\ \/ fw'.total = 0 /\ fw'.updated = 0
           \/ fw'.total = fw.total /\ fw'.updated = fw.updated
    BY <1>12, TaskFrame
  <2> QED
    BY <2>1 DEF OverInv, UpdateOver
<1>13. CASE UNCHANGED vars
  BY <1>13 DEF vars, OverInv, UpdateOver
<1> QED
  BY <1>2, <1>3, <1>4, <1>5, <1>6, <1>7, <1>8, <1>9, <1>10, <1>11, <1>12, <1>13 DEF Next, Scheduler

\* Once the OTA flag is set the scheduler takes no other request before the
\* system restarts: for any number of tasks that end, reset and begin sessions
\* while it is on its way to the test, and whatever allocation fails.
THEOREM AnnouncedUpdateEnds == Spec => []AnnouncedRestarts
<1>1. OverInv => AnnouncedRestarts
  BY DEF OverInv, AnnouncedRestarts
<1>2. Init => FwTypes /\ HeaderInv /\ OverInv
  <2>1. Init => OverInv
    BY DEF Init, OverInv, SchedIdle
  <2> QED
    BY <2>1, InitFw
<1>3. FwTypes /\ HeaderInv /\ OverInv /\ [Next]_vars => (FwTypes /\ HeaderInv /\ OverInv)'
  BY NextFwTypes, NextOver
<1> QED
  BY <1>1, <1>2, <1>3, PTL DEF Spec

-----------------------------------------------------------------------------
(* Where the update writes.                                                *)

\* The callers take turns: while one is inside a call, no other one is.
OneCall == \A t, u \in Task : pc[t] # "idle" /\ pc[u] # "idle" => t = u

\* A task that has queued its request and was not woken yet.
Waiting(t) == pc[t] \in {"send", "wait"} /\ ~sem[t]

\* When callers take turns, at most one request is queued; its task waits until
\* the scheduler is done with it.
TurnInv ==
    /\ sem \in [Task -> BOOLEAN]
    /\ \A t \in Task : sem[t] => pc[t] \in {"send", "wait"}
    /\ \A t \in Task : req[t].data \in Data \cup {<<>>}
    /\ sched.next = NoTask
    /\ list # <<>> => \E u \in Task : list = <<u>> /\ Waiting(u)
    /\ sched.at \in {"take", "data", "verify", "flag", "finish"} => list = <<sched.item>>
    /\ sched.at = "complete" => list = <<>> /\ Waiting(sched.item)

\* The lengths are those of an accepted image, or 0; with 0 no data is written,
\* since the end of that request resets the system.
LengthInv ==
    /\ fw.offset = fw.updated
    /\ fw.total = 0 => fw.updated = 0
    /\ fw.total > 0 =>
          \E i \in Image : /\ fw.base = ImgBase[i] /\ HeaderOk(Header(i))
                           /\ fw.total = HdrLen + Len(ImgBody[i]) + ImgSig[i]
    /\ sched.at \in {"receive", "take"} =>
          IF fw.total = 0 THEN fw.received = 0 ELSE fw.updated < fw.total
    /\ sched.at = "data" /\ sched.buf # <<>> =>
          fw.updated < fw.total /\ \E d \in Data : Len(sched.buf) <= Len(d)

\* What a flush would write belongs to an accepted image; VerifyImage does flush.
SectorInv ==
    /\ gsSector = 0 \/ Reached(gsSector)
    /\ sched.at = "verify" => gsSector # 0

AreaInv == LengthInv /\ SectorInv /\ OnlyImageSectors

\* An accepted image begins in the area, and not in sector 0.
LEMMA AcceptedBase ==
    ASSUME NEW i \in Image, HeaderOk(Header(i))
    PROVE  /\ ImgBase[i] \in Nat /\ ImgBase[i] >= CodeUpdStart
           /\ CodeUpdStart \in Nat /\ Sector(ImgBase[i]) \in Nat
           /\ Sector(CodeUpdStart) \in Nat /\ Sector(ImgBase[i]) >= Sector(CodeUpdStart)
           /\ Sector(ImgBase[i]) > 0
<1>1. PICK j \in Image : Header(i) = Header(j) /\ ImgBase[j] >= CodeUpdStart
  BY DEF HeaderOk
<1>2. j = i
  BY <1>1 DEF Header
<1>3. /\ CodeUpdStart \in Nat /\ CodeUpdStart >= SecSize /\ ImgBase[i] \in Nat
      /\ SecSize \in Nat /\ SecSize > 0
  BY FwAssumption, FastAssumption, AddrSector
<1>4. Sector(ImgBase[i]) \in Nat /\ Sector(SecSize) \in Nat /\ Sector(CodeUpdStart) \in Nat
  BY <1>3, SectorNat
<1>5. /\ Sector(ImgBase[i]) >= Sector(CodeUpdStart)
      /\ Sector(CodeUpdStart) >= Sector(SecSize)
  BY <1>1, <1>2, <1>3, SectorMono
<1>6. Sector(SecSize) > 0
  <2>1. /\ Sector(SecSize) \in Int /\ SecSize % SecSize \in 0 .. SecSize - 1
        /\ SecSize = SecSize * Sector(SecSize) + (SecSize % SecSize)
    BY <1>3, DivMod
  <2>2. Sector(SecSize) = 0 => SecSize * Sector(SecSize) = 0
    BY <1>3
  <2> QED
    BY <1>3, <1>4, <2>1, <2>2
<1> QED
  BY <1>1, <1>2, <1>3, <1>4, <1>5, <1>6

\* Every address from the base of an accepted image to the end of a piece that
\* begins inside it lies in a sector it reaches.
LEMMA PieceReached ==
    ASSUME NEW i \in Image, HeaderOk(Header(i)), NEW d \in Data, NEW a \in Nat, NEW end \in Nat,
           a >= ImgBase[i], a <= end,
           end <= ImgBase[i] + HdrLen + Len(ImgBody[i]) + ImgSig[i] - 1 + Len(d),
           NEW s \in Sector(a) .. Sector(end)
    PROVE  Reached(s) /\ s \in Nat /\ s # 0
<1> DEFINE top == ImgBase[i] + HdrLen + Len(ImgBody[i]) + ImgSig[i] - 1 + Len(d)
<1>1. ImgBase[i] \in Nat /\ Sector(ImgBase[i]) \in Nat /\ Sector(ImgBase[i]) > 0
  BY AcceptedBase
<1>2. top \in Nat
  <2>1. ImgSig[i] \in Nat /\ Len(ImgBody[i]) \in Nat /\ HdrLen = 2 /\ Len(d) \in Nat
    BY ImageTypes, FwAssumption DEF HdrLen
  <2>2. \A p, q, r, m \in Nat : p + 2 + q + r - 1 + m \in Nat
    OBVIOUS
  <2> QED
    BY <1>1, <2>1, <2>2
<1>3. Sector(a) \in Nat /\ Sector(end) \in Nat /\ Sector(top) \in Nat
  BY <1>2, SectorNat
<1>4. end <= top
  OBVIOUS
<1> HIDE DEF top
<1>5. Sector(ImgBase[i]) <= Sector(a) /\ Sector(end) <= Sector(top)
  BY <1>1, <1>2, <1>4, SectorMono
<1>6. s \in Sector(ImgBase[i]) .. Sector(top) /\ s \in Nat /\ s # 0
  BY <1>1, <1>3, <1>5
<1>7. s \in ImageSectors(i, d)
  BY <1>6 DEF ImageSectors, top
<1> QED
  BY <1>6, <1>7 DEF Reached

\* A call of tls_fls_fast_write for a piece of an accepted image stays in the
\* sectors of images, with or without a cache.
LEMMA WriteInImages ==
    ASSUME FastTypeOK, OnlyImageSectors, gsSector = 0 \/ Reached(gsSector),
           NEW i \in Image, HeaderOk(Header(i)), NEW d \in Data,
           NEW addr \in Nat, NEW data \in Seq(Byte), FastWriteTo(addr, data),
           addr >= ImgBase[i],
           addr + Len(data) <= ImgBase[i] + HdrLen + Len(ImgBody[i]) + ImgSig[i] - 1 + Len(d)
    PROVE  OnlyImageSectors' /\ Reached(gsSector') /\ gsSector' # 0
<1> DEFINE end == addr + Len(data)
           full == Sector(addr) .. Sector(end) - 1
           kept == IF gsSector \notin {0, Sector(addr)} THEN FlushedArea ELSE area
<1>1. end \in Nat /\ addr <= end
  BY LenProperties
<1>2. /\ \A s \in Sector(addr) .. Sector(end) : Reached(s) /\ s # 0
      /\ Sector(addr) \in Nat /\ Sector(end) \in Nat /\ Sector(addr) <= Sector(end)
  <2> HIDE DEF end
  <2>1. end <= ImgBase[i] + HdrLen + Len(ImgBody[i]) + ImgSig[i] - 1 + Len(d)
    BY DEF end
  <2>2. \A s \in Sector(addr) .. Sector(end) : Reached(s) /\ s # 0
    BY <1>1, <2>1, PieceReached
  <2>3. Sector(addr) \in Nat /\ Sector(end) \in Nat
    BY <1>1, SectorNat
  <2>4. Sector(addr) <= Sector(end)
    <3>1. addr \in Int /\ end \in Int
      BY <1>1
    <3> QED
      BY <1>1, <3>1, SectorMono
  <2> QED
    BY <2>2, <2>3, <2>4
<1>3. gsSector' = Sector(end)
  BY WriteTypes
<1>4. ASSUME NEW a \in Addr, area'[a] # Old PROVE Reached(Sector(a))
  <2>1. a \in Nat /\ Sector(a) \in Nat
    BY AddrSector, SectorNat
  <2>2. CASE Sector(a) \in full
    <3> HIDE DEF end
    <3>1. Sector(a) \in Sector(addr) .. Sector(end)
      BY <1>2, <2>1, <2>2
    <3> QED
      BY <1>2, <3>1
  <2>3. CASE Sector(a) \notin full
    <3>1. area'[a] = kept[a]
      BY <2>3 DEF FastWriteTo
    <3>2. CASE gsSector \in {0, Sector(addr)}
      BY <1>4, <3>1, <3>2 DEF OnlyImageSectors
    <3>3. CASE gsSector \notin {0, Sector(addr)} /\ Sector(a) = gsSector
      BY <3>3
    <3>4. CASE gsSector \notin {0, Sector(addr)} /\ Sector(a) # gsSector
      BY <1>4, <3>1, <3>4, FlushCells DEF OnlyImageSectors
    <3> QED
      BY <3>2, <3>3, <3>4
  <2> QED
    BY <2>2, <2>3
<1> HIDE DEF end
<1>5. Sector(end) \in Sector(addr) .. Sector(end)
  BY <1>2
<1>6. Reached(gsSector') /\ gsSector' # 0
  BY <1>2, <1>3, <1>5
<1> QED
  BY <1>4, <1>6 DEF OnlyImageSectors

\* A flush of a sector of an image stays in it.
LEMMA DestroyInImages ==
    ASSUME FastTypeOK, OnlyImageSectors, Reached(gsSector), FastDestroy
    PROVE  OnlyImageSectors' /\ gsSector' = gsSector
<1>1. ASSUME NEW a \in Addr, area'[a] # Old PROVE Reached(Sector(a))
  <2>1. CASE Sector(a) = gsSector
    BY <2>1
  <2>2. CASE Sector(a) # gsSector
    <3>1. FlushedArea[a] = area[a]
      BY <2>2, FlushCells
    <3> QED
      BY <1>1, <3>1 DEF FastDestroy, OnlyImageSectors
  <2> QED
    BY <2>1, <2>2
<1> QED
  BY <1>1 DEF OnlyImageSectors, FastDestroy

\* Only opening, ending and resetting a session touch its lengths, and they
\* clear them.
LEMMA TaskSession ==
    ASSUME FwTypes, NEW t \in Task, InCall(t) \/ Call(t)
    PROVE  \/ /\ pc[t] \in {"enter", "exit", "reset"}
              /\ fw'.total = 0 /\ fw'.updated = 0 /\ fw'.offset = 0 /\ fw'.received = 0
           \/ /\ fw'.total = fw.total /\ fw'.updated = fw.updated /\ fw'.offset = fw.offset
              /\ fw'.base = fw.base /\ fw'.received = fw.received
<1>1. fw \in FwSet
  BY DEF FwTypes
<1>2. CASE Entered(t)
  <2>1. PICK s \in Sid : fw' = [NoSession EXCEPT !.busy = TRUE, !.sid = s]
    BY <1>2 DEF Entered
  <2> QED
    BY <1>2, <2>1 DEF Entered, NoSession
<1>3. CASE Controlled(t)
  <2>1. CASE pc[t] = "exit" /\ fw' = NoSession
    BY <2>1 DEF NoSession
  <2>2. CASE pc[t] = "reset" /\ fw' = [NoSession EXCEPT !.busy = fw.busy, !.sid = fw.sid]
    BY <2>2 DEF NoSession
  <2>3. CASE pc[t] = "clear" /\ fw' = [fw EXCEPT !.bits = @ \ Errors]
    BY <1>1, <2>3 DEF FwSet
  <2> QED
    BY <1>3, <2>1, <2>2, <2>3 DEF Controlled
<1>4. CASE SetCrcError(t)
  <2>1. fw' = [fw EXCEPT !.bits = @ \cup {"CRC"}]
    BY <1>4 DEF SetCrcError
  <2> QED
    BY <1>1, <2>1 DEF FwSet
<1>5. CASE ~Entered(t) /\ ~Controlled(t) /\ ~SetCrcError(t)
  <2>1. fw' = fw
    BY <1>5 DEF InCall, Call, Enter, Control, Request, Async, Add, Send, Return, ReturnUnset
  <2> QED
    BY <2>1
<1> QED
  BY <1>2, <1>3, <1>4, <1>5

\* A task that waits for the scheduler keeps waiting, and no task wakes another.
LEMMA TaskWaits ==
    ASSUME FwTypes, TurnInv, NEW t \in Task, InCall(t) \/ Call(t)
    PROVE  /\ sem' \in [Task -> BOOLEAN]
           /\ \A u \in Task : Waiting(u) => Waiting(u)'
           /\ \A u \in Task : sem'[u] => pc'[u] \in {"send", "wait"}
           /\ \A u \in Task : req'[u].data \in Data \cup {<<>>}
           /\ list' # list => Add(t)
<1>1. /\ pc \in [Task -> PcSet] /\ req \in [Task -> ReqSet] /\ sem \in [Task -> BOOLEAN]
      /\ \A u \in Task : sem[u] => pc[u] \in {"send", "wait"}
      /\ \A u \in Task : req[u].data \in Data \cup {<<>>}
  BY DEF FwTypes, TurnInv
<1>2. CASE Return(t) \/ ReturnUnset(t)
  <2>1. PICK status : Returned(t, status)
    BY <1>2 DEF Return, ReturnUnset
  <2>2. /\ pc' = [pc EXCEPT ![t] = "idle"] /\ sem' = [sem EXCEPT ![t] = FALSE]
        /\ req' = [req EXCEPT ![t] = [NoRequest EXCEPT !.status = status]]
    BY <2>1 DEF Returned, Goto
  <2>3. ~Waiting(t)
    BY <1>2 DEF Return, ReturnUnset, Waiting
  <2>4. [NoRequest EXCEPT !.status = status].data = <<>>
    BY DEF NoRequest
  <2>5. list' = list
    BY <1>2 DEF Return, ReturnUnset
  <2>6. sem' \in [Task -> BOOLEAN] /\ \A u \in Task : u # t => pc'[u] = pc[u] /\ sem'[u] = sem[u]
    BY <1>1, <2>2
  <2>7. ~sem'[t] /\ \A u \in Task : req'[u].data \in Data \cup {<<>>}
    BY <1>1, <2>2, <2>4
  <2> QED
    BY <1>1, <2>3, <2>5, <2>6, <2>7 DEF Waiting
<1>3. CASE \E data \in Data : Request(t, data)
  <2>1. PICK data \in Data : Request(t, data)
    BY <1>3
  <2>2. /\ pc[t] = "idle" /\ pc' = [pc EXCEPT ![t] = "async"] /\ UNCHANGED <<sem, list>>
        /\ req' = [req EXCEPT ![t] = [sid |-> fw.sid, data |-> data, status |-> "IDLE"]]
    BY <2>1 DEF Request, Goto
  <2>3. \A u \in Task : req'[u].data \in Data \cup {<<>>}
    BY <1>1, <2>2
  <2> QED
    BY <1>1, <2>2, <2>3 DEF Waiting
<1>4. CASE ~(Return(t) \/ ReturnUnset(t) \/ \E data \in Data : Request(t, data))
  <2>1. UNCHANGED <<req, sem>>
    BY <1>4 DEF InCall, Call, Enter, Control, Entered, Controlled, SetCrcError, Async, Add, Send
  <2>2. \/ pc' = pc
        \/ pc[t] \notin {"send", "wait"} /\ \E l : pc' = [pc EXCEPT ![t] = l]
        \/ pc' = [pc EXCEPT ![t] = "wait"]
    BY <1>4 DEF InCall, Call, Enter, Control, Entered, Controlled, SetCrcError, Async, Add, Send, Goto
  <2>3. \A u \in Task : pc[u] \in {"send", "wait"} => pc'[u] \in {"send", "wait"}
    BY <1>1, <2>2
  <2>4. list' # list => Add(t)
    BY <1>4 DEF InCall, Call, Enter, Control, Entered, Controlled, SetCrcError, Async, Send
  <2> QED
    BY <1>1, <2>1, <2>3, <2>4 DEF Waiting
<1> QED
  BY <1>2, <1>3, <1>4

\* While the scheduler works on a request, its task waits.
LEMMA ServedWaits ==
    ASSUME FwTypes, TurnInv, sched.at \notin {"receive", "next"}
    PROVE  sched.item \in Task /\ Waiting(sched.item)
<1>1. sched.item \in Task /\ sched.at \in Place
  BY DEF FwTypes, SchedSet
<1>2. CASE sched.at = "complete"
  BY <1>1, <1>2 DEF TurnInv
<1>3. CASE sched.at # "complete"
  <2>1. list = <<sched.item>>
    BY <1>1, <1>3 DEF TurnInv, Place
  <2>2. PICK u \in Task : list = <<u>> /\ Waiting(u)
    BY <2>1 DEF TurnInv
  <2> QED
    BY <1>1, <2>1, <2>2
<1> QED
  BY <1>2, <1>3

LEMMA TaskTurns ==
    ASSUME FwTypes, TurnInv, OneCall, NEW t \in Task, InCall(t) \/ Call(t)
    PROVE  TurnInv'
<1>1. sched' = sched /\ sched \in SchedSet /\ (sched.at # "receive" => sched.item \in Task)
  BY TaskFrame DEF FwTypes
<1>2. /\ sem' \in [Task -> BOOLEAN]
      /\ \A u \in Task : Waiting(u) => Waiting(u)'
      /\ \A u \in Task : sem'[u] => pc'[u] \in {"send", "wait"}
      /\ \A u \in Task : req'[u].data \in Data \cup {<<>>}
      /\ list' # list => Add(t)
  BY TaskWaits
<1>3. CASE list' = list
  BY <1>1, <1>2, <1>3 DEF TurnInv
<1>4. CASE Add(t)
  <2>1. pc[t] = "add" /\ pc \in [Task -> PcSet] /\ sem \in [Task -> BOOLEAN]
    BY <1>4 DEF Add, FwTypes, TurnInv
  <2>2. \A u \in Task : ~Waiting(u)
    BY <2>1 DEF OneCall, Waiting
  <2>3. list = <<>>
    BY <2>2 DEF TurnInv
  <2>4. list' = <<t>> /\ pc' = [pc EXCEPT ![t] = "send"] /\ sem' = sem
    BY <1>4, <2>3 DEF Add, Goto
  <2>5. Waiting(t)'
    BY <2>1, <2>4 DEF Waiting, TurnInv
  <2>6. sched.at \in {"receive", "next"}
    BY <2>2, ServedWaits
  <2> QED
    BY <1>1, <1>2, <2>4, <2>5, <2>6 DEF TurnInv
<1> QED
  BY <1>2, <1>3, <1>4

\* A list of one request: no request follows it, and unlinking it empties the
\* list.
LEMMA SingleRequest ==
    ASSUME NEW u \in Task
    PROVE  After(u, <<u>>) = NoTask /\ Unlinked(u, <<u>>) = <<>>
<1>1. {k \in 2 .. Len(<<u>>) : <<u>>[k - 1] = u} = {}
  OBVIOUS
<1>2. {k \in DOMAIN <<u>> : <<u>>[k] = u} = {1}
  OBVIOUS
<1>3. (CHOOSE k \in {1} : TRUE) = 1
  OBVIOUS
<1>4. Unlinked(u, <<u>>) = RemoveAt(<<u>>, 1)
  BY <1>2, <1>3 DEF Unlinked
<1>5. RemoveAt(<<u>>, 1) = <<>>
  BY DEF RemoveAt
<1> QED
  BY <1>1, <1>4, <1>5 DEF After

\* How the scheduler takes a request, works on it, and leaves it.
LEMMA SchedulerMoves ==
    ASSUME FwTypes, TurnInv, Scheduler, ~Restart
    PROVE  /\ pc' = pc /\ sched'.next = NoTask
           /\ \A u \in Task : req'[u].data = req[u].data
           /\ \/ Receive /\ list = <<>> /\ UNCHANGED <<sched, list, sem, fw>>
              \/ /\ sched.at = "receive" /\ sched'.at = "take" /\ list = <<sched'.item>>
                 /\ UNCHANGED <<list, sem>>
              \/ /\ sched.at \in {"take", "data", "verify", "flag"}
                 /\ sched'.at \in {"data", "verify", "flag", "finish"}
                 /\ sched'.item = sched.item /\ UNCHANGED <<list, sem>>
              \/ /\ sched.at = "finish" /\ sched'.at = "complete"
                 /\ sched'.item = sched.item /\ list' = <<>> /\ sem' = sem
              \/ /\ sched.at = "complete" /\ sched'.at = "next" /\ list' = list
                 /\ sem' = [sem EXCEPT ![sched.item] = TRUE]
              \/ /\ sched.at = "next" /\ sched'.at = "receive" /\ ~UpdateOver
                 /\ UNCHANGED <<list, sem, fw>>
<1>1. /\ sched \in SchedSet /\ (sched.at # "receive" => sched.item \in Task)
      /\ req \in [Task -> ReqSet] /\ sched.next = NoTask
  BY DEF FwTypes, TurnInv
<1>2. ASSUME NEW s, SetStatus(s), sched.item \in Task
      PROVE  \A u \in Task : req'[u].data = req[u].data
  BY <1>1, <1>2 DEF SetStatus, ReqSet
<1>3. ASSUME NEW l, At(l)
      PROVE  sched'.at = l /\ sched'.item = sched.item /\ sched'.next = sched.next
  BY <1>1, <1>3 DEF At, SchedSet
<1>4. ASSUME NEW s, NEW b, FinishWith(s, b), sched.item \in Task
      PROVE  sched'.at = "finish" /\ sched'.item = sched.item /\ sched'.next = NoTask
             /\ \A u \in Task : req'[u].data = req[u].data
  BY <1>1, <1>2, <1>3, <1>4 DEF FinishWith
<1>5. CASE Receive
  <2>1. sched.at = "receive" /\ UNCHANGED <<list, req, sem, pc>>
    BY <1>5 DEF Receive
  <2>2. CASE list = <<>>
    BY <1>1, <1>5, <2>1, <2>2 DEF Receive
  <2>3. CASE list # <<>>
    <3>1. PICK u \in Task : list = <<u>>
      BY <2>3 DEF TurnInv
    <3>2. sched' = [SchedIdle EXCEPT !.at = "take", !.item = Head(list),
                                     !.next = After(Head(list), list)]
      BY <1>5, <2>3 DEF Receive
    <3>3. Head(list) = u /\ After(Head(list), list) = NoTask
      BY <3>1, SingleRequest
    <3>4. sched'.at = "take" /\ sched'.item = u /\ sched'.next = NoTask
      BY <3>2, <3>3 DEF SchedIdle
    <3> QED
      BY <2>1, <3>1, <3>4
  <2> QED
    BY <2>2, <2>3
<1>6. CASE Discard \/ SetFlag
  <2>1. \E s, b : FinishWith(s, b)
    BY <1>6 DEF Discard, SetFlag
  <2>2. sched.at \in {"take", "flag"} /\ UNCHANGED <<list, sem, pc>>
    BY <1>6 DEF Discard, SetFlag
  <2> QED
    BY <1>1, <1>4, <2>1, <2>2
<1>7. CASE TakeHeader
  <2>1. /\ sched.at = "take" /\ sched.item \in Task /\ UNCHANGED <<list, pc, sem>>
        /\ TakeOn \/ TakeRefused \/ TakeWritten
    BY <1>7, TakeCases DEF TakeHeader
  <2>2. CASE TakeOn \/ TakeWritten
    <3>1. sched' = [sched EXCEPT !.at = "data", !.buf = TakeRest] /\ req' = req
      BY <2>2 DEF TakeOn, TakeWritten
    <3>2. sched'.at = "data" /\ sched'.item = sched.item /\ sched'.next = sched.next
      BY <1>1, <3>1 DEF SchedSet
    <3> QED
      BY <1>1, <2>1, <3>1, <3>2
  <2>3. CASE TakeRefused
    BY <1>1, <1>2, <1>3, <2>1, <2>3 DEF TakeRefused
  <2> QED
    BY <2>1, <2>2, <2>3
<1>8. CASE WriteData
  <2>1. sched.at = "data" /\ sched.item \in Task /\ UNCHANGED <<list, pc, sem>>
        /\ \/ \E s, b : FinishWith(s, b)
           \/ DataWritten
    BY <1>8, DataCases DEF WriteData
  <2>2. CASE \E s, b : FinishWith(s, b)
    BY <1>4, <2>1, <2>2
  <2>3. CASE DataWritten
    <3>1. \E l \in {"verify", "finish"} : At(l)
      BY <2>3 DEF DataWritten
    <3>2. req' = req \/ SetStatus("SUCCESS")
      BY <2>3 DEF DataWritten
    <3>3. sched'.at \in {"verify", "finish"} /\ sched'.item = sched.item /\ sched'.next = NoTask
      BY <1>1, <1>3, <3>1
    <3>4. \A u \in Task : req'[u].data = req[u].data
      BY <1>2, <2>1, <3>2
    <3> QED
      BY <2>1, <3>3, <3>4
  <2> QED
    BY <2>1, <2>2, <2>3
<1>9. CASE VerifyImage
  <2>1. sched.at = "verify" /\ sched.item \in Task /\ UNCHANGED <<list, pc, sem>>
        /\ \/ \E s, b : FinishWith(s, b)
           \/ At("flag") /\ UNCHANGED req
    BY <1>9, VerifyCases DEF VerifyImage
  <2>2. CASE \E s, b : FinishWith(s, b)
    BY <1>4, <2>1, <2>2
  <2>3. CASE At("flag") /\ UNCHANGED req
    BY <1>1, <1>3, <2>1, <2>3
  <2> QED
    BY <2>1, <2>2, <2>3
<1>10. CASE Finish
  <2>1. sched.at = "finish" /\ At("complete") /\ UNCHANGED <<req, sem, pc>>
        /\ list' = Unlinked(sched.item, list) /\ list = <<sched.item>> /\ sched.item \in Task
    BY <1>1, <1>10 DEF Finish, TurnInv
  <2> QED
    BY <1>1, <1>3, <2>1, SingleRequest
<1>11. CASE Complete
  <2>1. sched.at = "complete" /\ At("next") /\ UNCHANGED <<req, list, pc>>
        /\ sem' = [sem EXCEPT ![sched.item] = TRUE]
    BY <1>11 DEF Complete
  <2> QED
    BY <1>1, <1>3, <2>1
<1>12. CASE NextRequest
  <2>1. /\ sched.at = "next" /\ ~UpdateOver /\ sched' = SchedIdle
        /\ UNCHANGED <<fw, list, pc, req, sem>>
    BY <1>1, <1>12 DEF NextRequest
  <2>2. sched'.at = "receive" /\ sched'.next = NoTask
    BY <2>1 DEF SchedIdle
  <2> QED
    BY <2>1, <2>2
<1> QED
  BY <1>5, <1>6, <1>7, <1>8, <1>9, <1>10, <1>11, <1>12 DEF Scheduler

LEMMA SchedulerTurns ==
    ASSUME FwTypes, TurnInv, Scheduler, ~Restart
    PROVE  TurnInv'
<1> DEFINE Kept == /\ sem' \in [Task -> BOOLEAN]
                   /\ \A u \in Task : sem'[u] => pc'[u] \in {"send", "wait"}
                   /\ \A u \in Task : req'[u].data \in Data \cup {<<>>}
                   /\ sched'.next = NoTask
<1>1. sched.at # "receive" => sched.item \in Task
  BY DEF FwTypes
<1>2. pc' = pc /\ sched'.next = NoTask /\ \A u \in Task : req'[u].data = req[u].data
  BY SchedulerMoves
<1>3. UNCHANGED sem => Kept
  BY <1>2 DEF TurnInv
<1>4. CASE UNCHANGED <<sched, list, sem>>
  BY <1>2, <1>3, <1>4 DEF TurnInv, Waiting
<1>5. CASE /\ sched'.at = "take" /\ list = <<sched'.item>>
           /\ UNCHANGED <<list, sem>>
  BY <1>2, <1>3, <1>5 DEF TurnInv, Waiting
<1>6. CASE /\ sched.at \in {"take", "data", "verify", "flag"}
           /\ sched'.at \in {"data", "verify", "flag", "finish"}
           /\ sched'.item = sched.item /\ UNCHANGED <<list, sem>>
  BY <1>2, <1>3, <1>6 DEF TurnInv, Waiting
<1>7. CASE /\ sched.at = "finish" /\ sched'.at = "complete"
           /\ sched'.item = sched.item /\ list' = <<>> /\ sem' = sem
  <2>1. Waiting(sched.item)
    BY <1>7, ServedWaits
  <2> QED
    BY <1>2, <1>3, <1>7, <2>1 DEF TurnInv, Waiting
<1>8. CASE /\ sched.at = "complete" /\ sched'.at = "next" /\ list' = list
           /\ sem' = [sem EXCEPT ![sched.item] = TRUE]
  <2>1. sched.item \in Task /\ Waiting(sched.item) /\ list = <<>> /\ sem \in [Task -> BOOLEAN]
    BY <1>1, <1>8 DEF TurnInv
  <2>2. sem' \in [Task -> BOOLEAN] /\ \A u \in Task : sem'[u] => u = sched.item \/ sem[u]
    BY <1>8, <2>1
  <2>3. Kept
    BY <1>2, <2>1, <2>2 DEF TurnInv, Waiting
  <2> QED
    BY <1>8, <2>1, <2>3 DEF TurnInv
<1>9. CASE sched'.at = "receive" /\ UNCHANGED <<list, sem>>
  BY <1>2, <1>3, <1>9 DEF TurnInv, Waiting
<1> QED
  BY <1>4, <1>5, <1>6, <1>7, <1>8, <1>9, SchedulerMoves

LEMMA RestartTurns ==
    ASSUME Restart
    PROVE  TurnInv'
<1>1. /\ list' = <<>> /\ sem' = [t \in Task |-> FALSE] /\ req' = [t \in Task |-> NoRequest]
      /\ sched'.at = "receive" /\ sched'.next = NoTask
  BY DEF Restart, SchedIdle
<1> QED
  BY <1>1 DEF TurnInv, NoRequest

LEMMA InitTurns == Init => TurnInv
<1> SUFFICES ASSUME Init PROVE TurnInv
  OBVIOUS
<1>1. /\ list = <<>> /\ sem = [t \in Task |-> FALSE] /\ req = [t \in Task |-> NoRequest]
      /\ sched.at = "receive" /\ sched.next = NoTask
  BY DEF Init, SchedIdle
<1> QED
  BY <1>1 DEF TurnInv, NoRequest

LEMMA NextTurns == FwTypes /\ TurnInv /\ OneCall /\ [Next]_vars => TurnInv'
<1> SUFFICES ASSUME FwTypes, TurnInv, OneCall, [Next]_vars PROVE TurnInv'
  OBVIOUS
<1>1. CASE Restart
  BY <1>1, RestartTurns
<1>2. CASE Scheduler /\ ~Restart
  BY <1>2, SchedulerTurns
<1>3. ASSUME NEW t \in Task, InCall(t) \/ Call(t) PROVE TurnInv'
  BY <1>3, TaskTurns
<1>4. CASE UNCHANGED vars
  BY <1>4 DEF vars, TurnInv, Waiting
<1> QED
  BY <1>1, <1>2, <1>3, <1>4 DEF Next

LEMMA TaskArea ==
    ASSUME FwTypes, TurnInv, AreaInv, OneCall, NEW t \in Task, InCall(t) \/ Call(t)
    PROVE  AreaInv'
<1>1. sched' = sched /\ area' = area /\ gsSector' = gsSector
  BY TaskFrame
<1>2. LengthInv'
  <2>1. CASE /\ pc[t] \in {"enter", "exit", "reset"}
             /\ fw'.total = 0 /\ fw'.updated = 0 /\ fw'.offset = 0 /\ fw'.received = 0
    <3>1. sched.at \in {"receive", "next"}
      BY <2>1, ServedWaits DEF OneCall, Waiting
    <3> QED
      BY <1>1, <2>1, <3>1 DEF LengthInv
  <2>2. CASE /\ fw'.total = fw.total /\ fw'.updated = fw.updated /\ fw'.offset = fw.offset
             /\ fw'.base = fw.base /\ fw'.received = fw.received
    BY <1>1, <2>2 DEF AreaInv, LengthInv
  <2> QED
    BY <2>1, <2>2, TaskSession
<1>3. SectorInv' /\ OnlyImageSectors'
  BY <1>1 DEF AreaInv, SectorInv, OnlyImageSectors
<1> QED
  BY <1>2, <1>3 DEF AreaInv

\* Ends of the work on a request that leave flash and lengths alone.
LEMMA FinishArea ==
    ASSUME FwTypes, AreaInv, sched.at # "receive", OnlyImageSectors', gsSector' = gsSector,
           NEW status \in Status, NEW bits \in SUBSET Bits, FinishWith(status, bits)
    PROVE  AreaInv'
<1>1. /\ fw'.total = fw.total /\ fw'.updated = fw.updated /\ fw'.received = fw.received
      /\ fw'.base = fw.base /\ fw'.offset = fw.offset /\ sched'.at = "finish"
  BY FinishFrame DEF FwTypes
<1> QED
  BY <1>1 DEF AreaInv, LengthInv, SectorInv

\* The steps of the scheduler that touch no flash.
LEMMA QuietArea ==
    ASSUME FwTypes, TurnInv, AreaInv,
           Receive \/ Discard \/ Finish \/ Complete \/ (NextRequest /\ ~UpdateOver)
    PROVE  AreaInv'
<1>1. fw \in FwSet /\ sched \in SchedSet
  BY DEF FwTypes
<1>2. UNCHANGED <<area, gsSector>>
  BY DEF Receive, Discard, Finish, Complete, NextRequest, fastVars
<1>3. CASE Discard
  <2>1. PICK status \in Status : FinishWith(status, {})
    BY <1>3 DEF Discard, Status
  <2>2. OnlyImageSectors' /\ sched.at # "receive"
    BY <1>2, <1>3 DEF AreaInv, OnlyImageSectors, Discard
  <2> QED
    BY <1>2, <2>1, <2>2, FinishArea
<1>4. ASSUME sched'.at \notin {"data", "verify"},
             fw'.total = fw.total, fw'.updated = fw.updated, fw'.received = fw.received,
             fw'.base = fw.base, fw'.offset = fw.offset,
             sched'.at \in {"receive", "take"} => sched.at = "receive" \/ ~UpdateOver
      PROVE  AreaInv'
  <2>1. LengthInv'
    BY <1>1, <1>4 DEF AreaInv, LengthInv, FwSet, UpdateOver
  <2>2. SectorInv' /\ OnlyImageSectors'
    BY <1>2, <1>4 DEF AreaInv, SectorInv, OnlyImageSectors
  <2> QED
    BY <2>1, <2>2 DEF AreaInv
<1>5. CASE Receive
  <2>1. fw' = fw \/ fw' = [fw EXCEPT !.bits = @ \cup {"BUSY"}]
    BY <1>5 DEF Receive
  <2>2. sched.at = "receive" /\ (sched' = sched \/ sched'.at = "take")
    BY <1>5 DEF Receive, SchedIdle
  <2>3. /\ fw'.total = fw.total /\ fw'.updated = fw.updated /\ fw'.received = fw.received
        /\ fw'.base = fw.base /\ fw'.offset = fw.offset
    BY <1>1, <2>1 DEF FwSet
  <2> QED
    BY <1>4, <2>2, <2>3
<1>6. CASE Finish \/ Complete
  <2>1. sched'.at \in {"complete", "next"}
    BY <1>1, <1>6 DEF Finish, Complete, At, SchedSet
  <2>2. fw' = fw \/ fw' = [fw EXCEPT !.bits = @ \ {"BUSY"}]
    BY <1>6 DEF Finish, Complete
  <2>3. /\ fw'.total = fw.total /\ fw'.updated = fw.updated /\ fw'.received = fw.received
        /\ fw'.base = fw.base /\ fw'.offset = fw.offset
    BY <1>1, <2>2 DEF FwSet
  <2> QED
    BY <1>4, <2>1, <2>3
<1>7. CASE NextRequest /\ ~UpdateOver
  <2>1. fw' = fw /\ sched' = SchedIdle
    BY <1>7 DEF NextRequest, TurnInv
  <2> QED
    BY <1>4, <1>7, <2>1 DEF SchedIdle
<1> QED
  BY <1>3, <1>5, <1>6, <1>7

LEMMA TakeArea ==
    ASSUME FwTypes, TurnInv, AreaInv, TakeHeader
    PROVE  AreaInv'
<1>1. fw \in FwSet /\ sched \in SchedSet /\ FastTypeOK
  BY DEF FwTypes
<1>2. /\ sched.at = "take" /\ sched.item \in Task
      /\ UNCHANGED <<list, queue, flag, pc>>
      /\ TakeOn \/ TakeRefused \/ TakeWritten
      /\ TakeData \in Seq(Byte) /\ TakeRoom \in Nat /\ TakeLen \in Nat
      /\ TakeRest \in Seq(Byte) /\ Len(TakeRest) \in Nat
      /\ TakeLen <= Len(TakeData) /\ Len(TakeRest) <= Len(TakeData)
  BY TakeCases
<1>3. TakeData \in Data \cup {<<>>} /\ Len(TakeData) \in Nat
  BY <1>2 DEF TurnInv, TakeData
<1>4. /\ fw.received \in Nat /\ fw.total \in Nat /\ fw.updated \in Nat /\ HdrLen = 2
      /\ IF fw.total = 0 THEN fw.received = 0 ELSE fw.updated < fw.total
  BY <1>1, <1>2 DEF FwSet, HdrLen, AreaInv, LengthInv
<1>5. TakeRest # <<>> => \E d \in Data : Len(TakeRest) <= Len(d)
  <2>1. TakeData = <<>> => TakeRest = <<>>
    BY <1>2
  <2> QED
    BY <1>2, <1>3, <2>1
<1>6. TakeOn \/ TakeWritten => sched'.at = "data" /\ sched'.buf = TakeRest
  BY <1>1 DEF TakeOn, TakeWritten, SchedSet
<1>7. CASE TakeOn
  <2>1. /\ fw'.total = fw.total /\ fw'.updated = fw.updated
        /\ fw'.base = fw.base /\ fw'.offset = fw.offset
    BY <1>1, <1>7 DEF TakeOn, FwSet
  <2>2. TakeRest # <<>> => fw.updated < fw.total
    BY <1>4, <1>7 DEF TakeOn, TakeRoom
  <2>3. LengthInv'
    BY <1>5, <1>6, <1>7, <2>1, <2>2 DEF AreaInv, LengthInv
  <2>4. SectorInv' /\ OnlyImageSectors'
    BY <1>6, <1>7 DEF TakeOn, fastVars, AreaInv, SectorInv, OnlyImageSectors
  <2> QED
    BY <2>3, <2>4 DEF AreaInv
<1>8. CASE TakeRefused
  <2>1. /\ fw'.total = fw.total /\ fw'.updated = fw.updated
        /\ fw'.base = fw.base /\ fw'.offset = fw.offset
    BY <1>1, <1>8 DEF TakeRefused, FwSet
  <2>2. sched'.at = "finish"
    BY <1>1, <1>8 DEF TakeRefused, At, SchedSet
  <2>3. LengthInv'
    BY <2>1, <2>2 DEF AreaInv, LengthInv
  <2>4. SectorInv' /\ OnlyImageSectors'
    BY <1>8, <2>2 DEF TakeRefused, fastVars, AreaInv, SectorInv, OnlyImageSectors
  <2> QED
    BY <2>3, <2>4 DEF AreaInv
<1>9. CASE TakeWritten
  <2>1. PICK i \in Image : i = ImageOf(TakeBuffer) /\ TakeBuffer = Header(i) /\ HeaderOk(Header(i))
    BY <1>9 DEF TakeWritten
  <2>2. /\ ImgBase[i] \in Nat /\ ImgSig[i] \in Nat /\ Len(ImgBody[i]) \in Nat
        /\ Len(ImgBody[i]) > 0
    BY ImageTypes, FwAssumption
  <2>3. TakeData \in Data
    BY <1>2, <1>3, <1>4, <1>9 DEF TakeWritten, TakeRoom
  <2>4. ImgBase[i] + HdrLen <= ImgBase[i] + HdrLen + Len(ImgBody[i]) + ImgSig[i] - 1 + Len(TakeData)
    BY <1>3, <1>4, <2>2
  <2>5. TakeBuffer \in Seq(Byte) /\ Len(TakeBuffer) = HdrLen
        /\ FastWriteTo(ImgBase[i], TakeBuffer)
    BY <1>9, <2>1, HeaderTypes DEF TakeWritten
  <2>6. gsSector = 0 \/ Reached(gsSector)
    BY DEF AreaInv, SectorInv
  <2>7. ImgBase[i] + Len(TakeBuffer)
          <= ImgBase[i] + HdrLen + Len(ImgBody[i]) + ImgSig[i] - 1 + Len(TakeData)
    BY <2>4, <2>5
  <2>8. ImgBase[i] >= ImgBase[i]
    BY <2>2
  <2>9. OnlyImageSectors' /\ Reached(gsSector') /\ gsSector' # 0
    BY <1>1, <2>1, <2>2, <2>3, <2>5, <2>6, <2>7, <2>8, WriteInImages DEF AreaInv
  <2>10. fw' = [fw EXCEPT !.received = fw.received + TakeLen + Len(TakeRest),
                          !.base = ImgBase[i], !.total = HdrLen + Len(ImgBody[i]) + ImgSig[i],
                          !.updated = HdrLen, !.offset = HdrLen]
    BY <1>9, <2>1 DEF TakeWritten
  <2>11. /\ fw'.base = ImgBase[i] /\ fw'.total = HdrLen + Len(ImgBody[i]) + ImgSig[i]
         /\ fw'.updated = HdrLen /\ fw'.offset = HdrLen
    BY <1>1, <2>10 DEF FwSet
  <2>12. fw'.total > 0 /\ fw'.updated < fw'.total
    BY <1>4, <2>2, <2>11
  <2>13. LengthInv'
    <3>1. \E j \in Image : /\ fw'.base = ImgBase[j] /\ HeaderOk(Header(j))
                           /\ fw'.total = HdrLen + Len(ImgBody[j]) + ImgSig[j]
      BY <2>1, <2>11
    <3>2. fw'.offset = fw'.updated /\ fw'.total # 0
      BY <1>4, <2>2, <2>11
    <3>3. sched'.at = "data" /\ (sched'.buf # <<>> => \E e \in Data : Len(sched'.buf) <= Len(e))
      BY <1>5, <1>6, <1>9
    <3> QED
      BY <2>12, <3>1, <3>2, <3>3 DEF LengthInv
  <2>14. SectorInv'
    BY <2>9 DEF SectorInv
  <2> QED
    BY <2>9, <2>13, <2>14 DEF AreaInv
<1> QED
  BY <1>2, <1>7, <1>8, <1>9

\* A piece that begins inside an image ends less than its own length behind it.
LEMMA PieceEnd ==
    ASSUME NEW base \in Nat, NEW hdr \in Nat, NEW body \in Nat, NEW sig \in Nat, NEW m \in Nat,
           NEW off \in Nat, NEW n \in Nat, off < hdr + body + sig, n <= m
    PROVE  base + off >= base /\ base + off + n <= base + hdr + body + sig - 1 + m
  OBVIOUS

LEMMA DataArea ==
    ASSUME FwTypes, AreaInv, WriteData
    PROVE  AreaInv'
<1>1. fw \in FwSet /\ sched \in SchedSet /\ FastTypeOK
  BY DEF FwTypes
<1>2. /\ sched.at = "data" /\ sched.item \in Task
      /\ UNCHANGED <<list, queue, booter, flag, pc>>
      /\ \/ FinishWith("SUCCESS", {}) /\ UNCHANGED fastVars
         \/ FinishWith("FIO", {"IO"}) /\ UNCHANGED fastVars
         \/ DataWritten
  BY DataCases
<1>3. ASSUME NEW status \in Status, NEW bits \in SUBSET Bits, FinishWith(status, bits),
             UNCHANGED fastVars
      PROVE  AreaInv'
  <2>1. OnlyImageSectors' /\ gsSector' = gsSector
    BY <1>3 DEF fastVars, AreaInv, OnlyImageSectors
  <2> QED
    BY <1>1, <1>2, <1>3, <2>1, FinishArea
<1>4. CASE DataWritten
  <2> DEFINE addr == fw.base + fw.offset
             n == Len(sched.buf)
  <2>1. /\ fw'.total = fw.total /\ fw'.base = fw.base
        /\ fw'.updated = fw.updated + n /\ fw'.offset = fw.offset + n
        /\ sched'.item = sched.item
        /\ sched'.at = IF DataDone THEN "verify" ELSE "finish"
    BY <1>2, <1>4, WrittenFrame
  <2>2. /\ sched.buf \in Seq(Byte) /\ n \in Nat /\ fw.base \in Nat /\ fw.offset \in Nat
        /\ addr \in Nat /\ fw.updated \in Nat /\ fw.total \in Nat /\ HdrLen = 2
        /\ FastWriteTo(addr, sched.buf) /\ n > 0
    BY <1>1, <1>4 DEF DataWritten, SchedSet, FwSet, HdrLen
  <2>3. fw.updated < fw.total /\ \E d \in Data : n <= Len(d)
    <3>1. sched.buf # <<>>
      BY <2>2
    <3> QED
      BY <1>2, <3>1 DEF AreaInv, LengthInv
  <2>4. PICK i \in Image : /\ fw.base = ImgBase[i] /\ HeaderOk(Header(i))
                           /\ fw.total = HdrLen + Len(ImgBody[i]) + ImgSig[i]
    BY <2>2, <2>3 DEF AreaInv, LengthInv
  <2>5. PICK d \in Data : n <= Len(d)
    BY <2>3
  <2>6. Len(d) \in Nat /\ ImgSig[i] \in Nat /\ Len(ImgBody[i]) \in Nat /\ fw.offset = fw.updated
    BY ImageTypes, FwAssumption DEF AreaInv, LengthInv
  <2>7. /\ addr >= ImgBase[i]
        /\ addr + n <= ImgBase[i] + HdrLen + Len(ImgBody[i]) + ImgSig[i] - 1 + Len(d)
    <3> DEFINE body == Len(ImgBody[i])
               sig == ImgSig[i]
               m == Len(d)
    <3>1. /\ fw.base \in Nat /\ HdrLen \in Nat /\ body \in Nat /\ sig \in Nat /\ m \in Nat
          /\ fw.offset \in Nat /\ n \in Nat
          /\ fw.offset < HdrLen + body + sig /\ n <= m
      BY <2>2, <2>3, <2>4, <2>5, <2>6
    <3> HIDE DEF n, body, sig, m
    <3>2. fw.base + fw.offset >= fw.base
          /\ fw.base + fw.offset + n <= fw.base + HdrLen + body + sig - 1 + m
      BY <3>1, PieceEnd
    <3> QED
      BY <2>4, <3>2 DEF body, sig, m
  <2> HIDE DEF addr, n
  <2>8. gsSector = 0 \/ Reached(gsSector)
    BY DEF AreaInv, SectorInv
  <2>9. OnlyImageSectors' /\ Reached(gsSector') /\ gsSector' # 0
    BY <1>1, <2>2, <2>4, <2>7, <2>8, WriteInImages DEF AreaInv, n
  <2>10. LengthInv'
    <3>1. fw'.total > 0 /\ fw'.offset = fw'.updated
      BY <2>1, <2>2, <2>3, <2>6
    <3>2. \E j \in Image : /\ fw'.base = ImgBase[j] /\ HeaderOk(Header(j))
                           /\ fw'.total = HdrLen + Len(ImgBody[j]) + ImgSig[j]
      BY <2>1, <2>4
    <3> QED
      BY <2>1, <3>1, <3>2 DEF LengthInv
  <2>11. SectorInv'
    BY <2>9 DEF SectorInv
  <2> QED
    BY <2>9, <2>10, <2>11 DEF AreaInv
<1>5. "SUCCESS" \in Status /\ "FIO" \in Status /\ {"IO"} \in SUBSET Bits /\ {} \in SUBSET Bits
  BY DEF Status, Bits, Errors
<1> QED
  BY <1>2, <1>3, <1>4, <1>5

LEMMA EndArea ==
    ASSUME FwTypes, AreaInv, VerifyImage \/ SetFlag
    PROVE  AreaInv'
<1>1. sched \in SchedSet /\ FastTypeOK
  BY DEF FwTypes
<1>2. CASE VerifyImage
  <2>1. /\ sched.at = "verify" /\ FastDestroy
        /\ \/ \E status \in Status, bits \in SUBSET Bits : FinishWith(status, bits)
           \/ At("flag") /\ UNCHANGED <<fw, req>>
    BY <1>2, VerifyCases
  <2>2. OnlyImageSectors' /\ gsSector' = gsSector
    BY <1>1, <2>1, DestroyInImages DEF AreaInv, SectorInv
  <2>3. CASE \E status \in Status, bits \in SUBSET Bits : FinishWith(status, bits)
    BY <2>1, <2>2, <2>3, FinishArea
  <2>4. CASE At("flag") /\ UNCHANGED <<fw, req>>
    <3>1. sched'.at = "flag"
      BY <1>1, <2>4 DEF At, SchedSet
    <3> QED
      BY <2>2, <2>4, <3>1 DEF AreaInv, LengthInv, SectorInv
  <2> QED
    BY <2>1, <2>3, <2>4
<1>3. CASE SetFlag
  <2>1. sched.at = "flag" /\ UNCHANGED fastVars /\ FinishWith("SUCCESS", {"COMPLETE"})
    BY <1>3 DEF SetFlag
  <2>2. "SUCCESS" \in Status /\ {"COMPLETE"} \in SUBSET Bits
    BY DEF Status, Bits
  <2>3. OnlyImageSectors' /\ gsSector' = gsSector
    BY <2>1 DEF fastVars, AreaInv, OnlyImageSectors
  <2> QED
    BY <2>1, <2>2, <2>3, FinishArea
<1> QED
  BY <1>2, <1>3

LEMMA RestartArea ==
    ASSUME AreaInv, Restart
    PROVE  AreaInv'
<1>1. /\ sched'.at = "receive" /\ gsSector' = 0 /\ area' = area
      /\ fw'.total = 0 /\ fw'.updated = 0 /\ fw'.offset = 0 /\ fw'.received = 0
  BY DEF Restart, FastRestart, SchedIdle, NoSession
<1> QED
  BY <1>1 DEF AreaInv, LengthInv, SectorInv, OnlyImageSectors

LEMMA InitArea == Init => AreaInv
<1> SUFFICES ASSUME Init PROVE AreaInv
  OBVIOUS
<1>1. /\ sched.at = "receive" /\ gsSector = 0 /\ area = [a \in Addr |-> Old]
      /\ fw.total = 0 /\ fw.updated = 0 /\ fw.offset = 0 /\ fw.received = 0
  BY DEF Init, FastInitState, SchedIdle, NoSession
<1> QED
  BY <1>1 DEF AreaInv, LengthInv, SectorInv, OnlyImageSectors

LEMMA NextArea ==
    FwTypes /\ TurnInv /\ AreaInv /\ OneCall /\ [Next]_vars => AreaInv'
<1> SUFFICES ASSUME FwTypes, TurnInv, AreaInv, OneCall, [Next]_vars PROVE AreaInv'
  OBVIOUS
<1>1. CASE Receive \/ Discard \/ Finish \/ Complete
  BY <1>1, QuietArea
<1>2. CASE TakeHeader
  BY <1>2, TakeArea
<1>3. CASE WriteData
  BY <1>3, DataArea
<1>4. CASE VerifyImage \/ SetFlag
  BY <1>4, EndArea
<1>5. CASE NextRequest
  BY <1>5, QuietArea, RestartArea DEF NextRequest
<1>6. CASE Restart
  BY <1>6, RestartArea
<1>7. ASSUME NEW t \in Task, InCall(t) \/ Call(t) PROVE AreaInv'
  BY <1>7, TaskArea
<1>8. CASE UNCHANGED vars
  BY <1>8 DEF vars, AreaInv, LengthInv, SectorInv, OnlyImageSectors
<1> QED
  BY <1>1, <1>2, <1>3, <1>4, <1>5, <1>6, <1>7, <1>8 DEF Next, Scheduler

\* The update erases and programs no sector but those an accepted image reaches:
\* for any number of tasks whose calls of the API do not overlap (OneCall), any
\* images, also ones that end behind the upgrade image area, any pieces, sessions
\* ended or reset at any point, any allocation that fails (the one of the write
\* cache too) and a power cut at any moment.
THEOREM UpdateStaysInImages == Spec /\ []OneCall => []OnlyImageSectors
<1>1. AreaInv => OnlyImageSectors
  BY DEF AreaInv
<1>2. Init => FwTypes /\ HeaderInv /\ TurnInv /\ AreaInv
  BY InitFw, InitTurns, InitArea
<1>3. FwTypes /\ HeaderInv /\ TurnInv /\ AreaInv /\ OneCall /\ [Next]_vars
        => (FwTypes /\ HeaderInv /\ TurnInv /\ AreaInv)'
  BY NextFwTypes, NextTurns, NextArea
<1> QED
  BY <1>1, <1>2, <1>3, PTL DEF Spec

\* A single task that updates the firmware needs no agreement with others.
THEOREM OneTaskStaysInImages ==
    ASSUME \A t, u \in Task : t = u
    PROVE  Spec => []OnlyImageSectors
<1>1. OneCall
  BY DEF OneCall
<1> QED
  BY <1>1, UpdateStaysInImages, PTL

\* What lies below the sector of CodeUpdStart is never erased: a power cut at
\* any moment of the update leaves the boot loader that is there.
BootSpared == \A a \in Addr : Sector(a) < Sector(CodeUpdStart) => area[a] = Old

\* tls_fwup_img_header_check keeps the update off the flash below the upgrade
\* area, whatever it lets pass at the other end.
THEOREM UpdateSparesBoot == Spec /\ []OneCall => []BootSpared
<1>1. OnlyImageSectors => BootSpared
  <2> SUFFICES ASSUME OnlyImageSectors, NEW a \in Addr, Sector(a) < Sector(CodeUpdStart),
                      area[a] # Old
               PROVE  FALSE
    BY DEF BootSpared
  <2>1. PICK i \in Image, d \in Data : HeaderOk(Header(i)) /\ Sector(a) \in ImageSectors(i, d)
    BY DEF OnlyImageSectors, Reached
  <2>2. Sector(a) >= Sector(ImgBase[i]) /\ Sector(a) \in Int
    BY <2>1, AcceptedBase DEF ImageSectors
  <2> QED
    BY <2>1, <2>2, AcceptedBase
<1> QED
  BY <1>1, UpdateStaysInImages, PTL

-----------------------------------------------------------------------------
(* Who wakes the tasks that wait.                                          *)

\* A task that is about to send the message counts as well.
ServedInv ==
    \A t \in Task : pc[t] \in {"send", "wait"} =>
        \/ sem[t]
        \/ sched.at \notin {"receive", "next"} /\ sched.item = t
        \/ list = <<t>> /\ (pc[t] = "send" \/ queue > 0)

LEMMA TaskServed ==
    ASSUME FwTypes, TurnInv, ServedInv, OneCall, NEW t \in Task, InCall(t) \/ Call(t)
    PROVE  ServedInv'
<1>1. sched' = sched /\ pc \in [Task -> PcSet] /\ sem \in [Task -> BOOLEAN] /\ queue \in Nat
      /\ QueueSize \in Nat \ {0}
  BY TaskFrame, FwAssumption DEF FwTypes, TurnInv
<1>2. CASE Return(t) \/ ReturnUnset(t)
  <2>1. PICK status : Returned(t, status)
    BY <1>2 DEF Return, ReturnUnset
  <2>2. pc' = [pc EXCEPT ![t] = "idle"] /\ sem' = [sem EXCEPT ![t] = FALSE]
        /\ UNCHANGED <<list, queue>>
    BY <1>2, <2>1 DEF Return, ReturnUnset, Returned, Goto
  <2>3. pc'[t] = "idle" /\ \A u \in Task : u # t => pc'[u] = pc[u] /\ sem'[u] = sem[u]
    BY <1>1, <2>2
  <2> QED
    BY <1>1, <2>2, <2>3 DEF ServedInv
<1>3. CASE Send(t)
  <2>1. pc[t] = "send" /\ pc' = [pc EXCEPT ![t] = "wait"] /\ UNCHANGED <<list, sem>>
        /\ queue' = IF queue < QueueSize THEN queue + 1 ELSE queue
    BY <1>3 DEF Send, Goto
  <2>2. queue' > 0
    BY <1>1, <2>1
  <2> QED
    BY <1>1, <2>1, <2>2 DEF ServedInv
<1>4. CASE Add(t)
  <2>1. pc[t] = "add" /\ UNCHANGED <<queue, sem>>
        /\ pc' = [pc EXCEPT ![t] = IF list = <<>> THEN "send" ELSE "wait"]
    BY <1>4 DEF Add, Goto
  <2>2. \A u \in Task : u # t => pc[u] = "idle"
    BY <2>1 DEF OneCall
  <2>3. list = <<>>
    BY <2>1, <2>2 DEF TurnInv, Waiting
  <2>4. list' = <<t>> /\ pc'[t] = "send" /\ \A u \in Task : u # t => pc'[u] = "idle"
    BY <1>1, <1>4, <2>1, <2>2, <2>3 DEF Add
  <2> QED
    BY <2>4 DEF ServedInv
<1>5. CASE ~(Return(t) \/ ReturnUnset(t) \/ Send(t) \/ Add(t))
  <2>1. UNCHANGED <<list, queue, sem>>
    BY <1>5 DEF InCall, Call, Enter, Control, Entered, Controlled, SetCrcError, Async, Request
  <2>2. pc' = pc \/ \E l \in PcSet \ {"send", "wait"} : pc' = [pc EXCEPT ![t] = l]
    BY <1>5 DEF InCall, Call, Enter, Control, Entered, Controlled, SetCrcError, Async, Request, Goto,
                PcSet
  <2>3. \A u \in Task : pc'[u] \in {"send", "wait"} => pc'[u] = pc[u]
    BY <1>1, <2>2
  <2> QED
    BY <1>1, <2>1, <2>3 DEF ServedInv
<1> QED
  BY <1>2, <1>3, <1>4, <1>5

LEMMA SchedulerServed ==
    ASSUME FwTypes, TurnInv, ServedInv, Scheduler, ~Restart
    PROVE  ServedInv'
<1>1. pc' = pc
  BY SchedulerMoves
<1>2. queue' = queue \/ Receive
  BY DEF Scheduler, Discard, TakeHeader, WriteData, VerifyImage, SetFlag, Finish, Complete,
         NextRequest
<1>3. CASE Receive /\ list = <<>> /\ UNCHANGED <<sched, list, sem, fw>>
  BY <1>1, <1>3 DEF ServedInv
<1>4. CASE /\ sched.at = "receive" /\ sched'.at = "take" /\ list = <<sched'.item>>
           /\ UNCHANGED <<list, sem>>
  <2>1. ASSUME NEW t \in Task, pc[t] \in {"send", "wait"}, ~sem[t]
        PROVE  sched'.item = t
    <3>1. list = <<t>>
      BY <1>4, <2>1 DEF ServedInv
    <3> QED
      BY <1>4, <3>1
  <2> QED
    BY <1>1, <1>4, <2>1 DEF ServedInv
<1>5. CASE sched.at # "receive"
  <2>1. queue' = queue
    BY <1>2, <1>5 DEF Receive
  <2>2. CASE /\ sched.at \in {"take", "data", "verify", "flag"}
             /\ sched'.at \in {"data", "verify", "flag", "finish"}
             /\ sched'.item = sched.item /\ UNCHANGED <<list, sem>>
    BY <1>1, <2>1, <2>2 DEF ServedInv
  <2>3. CASE /\ sched.at = "finish" /\ sched'.at = "complete"
             /\ sched'.item = sched.item /\ list' = <<>> /\ sem' = sem
    <3>1. list = <<sched.item>>
      BY <2>3 DEF TurnInv
    <3>2. \A t : list = <<t>> => t = sched.item
      BY <3>1
    <3> QED
      BY <1>1, <2>3, <3>2 DEF ServedInv
  <2>4. CASE /\ sched.at = "complete" /\ sched'.at = "next" /\ list' = list
             /\ sem' = [sem EXCEPT ![sched.item] = TRUE]
    <3>1. list = <<>> /\ sem \in [Task -> BOOLEAN] /\ \A t : list # <<t>>
      BY <2>4 DEF TurnInv
    <3>2. \A t \in Task : sem[t] \/ t = sched.item => sem'[t]
      BY <2>4, <3>1
    <3> QED
      BY <1>1, <2>4, <3>1, <3>2 DEF ServedInv
  <2>5. CASE /\ sched.at = "next" /\ sched'.at = "receive" /\ ~UpdateOver
             /\ UNCHANGED <<list, sem, fw>>
    BY <1>1, <2>1, <2>5 DEF ServedInv
  <2>6. sched.at # "receive" => ~Receive
    BY DEF Receive
  <2> QED
    BY <1>5, <2>2, <2>3, <2>4, <2>5, <2>6, SchedulerMoves
<1> QED
  BY <1>3, <1>4, <1>5, SchedulerMoves

LEMMA NextServed == FwTypes /\ TurnInv /\ ServedInv /\ OneCall /\ [Next]_vars => ServedInv'
<1> SUFFICES ASSUME FwTypes, TurnInv, ServedInv, OneCall, [Next]_vars PROVE ServedInv'
  OBVIOUS
<1>1. CASE Restart
  BY <1>1 DEF Restart, ServedInv
<1>2. CASE Scheduler /\ ~Restart
  BY <1>2, SchedulerServed
<1>3. ASSUME NEW t \in Task, InCall(t) \/ Call(t) PROVE ServedInv'
  BY <1>3, TaskServed
<1>4. CASE UNCHANGED vars
  BY <1>4 DEF vars, ServedInv
<1> QED
  BY <1>1, <1>2, <1>3, <1>4 DEF Next

\* No request is forgotten: for any number of tasks whose calls do not overlap,
\* any queue size, images, pieces and failures, a task that waits in
\* tls_fwup_request_sync has been woken, is being served or is still announced to
\* the scheduler.  When calls overlap this fails (run fwup_lost_wakeup).
THEOREM TurnsAreServed == Spec /\ []OneCall => []NoneForgotten
<1>1. FwTypes /\ ServedInv => NoneForgotten
  <2> SUFFICES ASSUME FwTypes, ServedInv, NEW t \in Task, pc[t] = "wait", ~sem[t],
                      ~(sched.at \notin {"receive", "next"} /\ sched.item = t)
               PROVE  queue > 0 /\ \E k \in DOMAIN list : list[k] = t
    BY DEF NoneForgotten
  <2>1. list = <<t>> /\ queue > 0
    BY DEF ServedInv
  <2>2. 1 \in DOMAIN list /\ list[1] = t
    BY <2>1
  <2> QED
    BY <2>1, <2>2
<1>2. Init => FwTypes /\ HeaderInv /\ TurnInv /\ ServedInv
  BY InitFw, InitTurns DEF Init, ServedInv
<1>3. FwTypes /\ HeaderInv /\ TurnInv /\ ServedInv /\ OneCall /\ [Next]_vars
        => (FwTypes /\ HeaderInv /\ TurnInv /\ ServedInv)'
  BY NextFwTypes, NextTurns, NextServed
<1> QED
  BY <1>1, <1>2, <1>3, PTL DEF Spec
=============================================================================
