-------------------------------- MODULE FwUp --------------------------------
(***************************************************************************)
(* The firmware update of platform/common/fwup/wm_fwup.c on top of the     *)
(* fast write path.  Tasks open a session, hand over the image piece by    *)
(* piece with tls_fwup_request_sync and wait; the fwup task (scheduler)    *)
(* writes the pieces to the update area, checks the CRC of the whole image *)
(* and, if it is right, sets the OTA flag for the boot loader and resets   *)
(* the system.  Power may be cut at any moment.                            *)
(*                                                                         *)
(* Data abstraction: an image is a header of HdrLen cells, a body and sig  *)
(* cells of signature; the header names the image, so that its checksum    *)
(* test accepts the cells of one header only, and org_checksum stands for  *)
(* the body it was computed over.  WiFi settings (one shot mode, power     *)
(* save) that enter and exit also change are left out.                     *)
(***************************************************************************)
EXTENDS FastWrite, SequencesExt

CONSTANTS
    Task,       \* tasks that call the API
    NoTask,
    CodeUpdStart, CodeRunStart,   \* the upgrade image area lies between them
    Image,      \* images with a right magic number, img_addr and hd_checksum
    ImgBase,    \* [Image -> Addr], upgrade_img_addr
    ImgBody,    \* [Image -> Seq(Byte)], the body of org_checksum and img_len
    ImgSig,     \* [Image -> Nat], cells of signature
    Sid,        \* session ids rand() may give
    NoFlag,     \* the OTA flag sector holds no checksum
    Data,       \* pieces a task may send
    QueueSize,  \* FWUP_MSG_QUEUE_SIZE
    MaxStarts,  \* bound: sessions opened or reset
    HeapFails   \* allocations that may fail, see FwHeapSite

HdrLen == 2
Header(i) == <<<<i, 1>>, <<i, 2>>>>
HeaderCell == UNION {{Header(i)[1], Header(i)[2]} : i \in Image}

\* The fast write cache, the buffer the image is read back with, and the sector
\* cache of the tls_fls_write of the OTA flag.
FwHeapSite == {"cache", "verify", "flag"}

ASSUME FwAssumption ==
    /\ NoTask \notin Task
    /\ 0 \notin Sid
    /\ HeaderCell \subseteq Byte
    /\ Data \subseteq Seq(Byte) \ {<<>>}
    /\ QueueSize \in Nat \ {0}
    /\ HeapFails \subseteq FwHeapSite
    /\ CodeUpdStart \in Addr /\ CodeRunStart \in Addr /\ CodeUpdStart >= SecSize
    /\ \A i \in Image : /\ ImgBase[i] \in Addr /\ ImgSig[i] \in Nat
                       /\ ImgBody[i] \in Seq(Byte) /\ Len(ImgBody[i]) > 0
                       /\ ImgBase[i] + HdrLen + Len(ImgBody[i]) + ImgSig[i] - 1 \in Addr

VARIABLES
    fw,       \* struct tls_fwup without the list
    list,     \* fwup->wait_list
    queue,    \* messages in fwup_msg_queue
    sched,    \* the fwup task: where it is, request, next request, rest of data
    booter,   \* its image header buffer
    flag,     \* the OTA flag in flash
    pc, req,  \* the tasks and their requests
    sem,      \* the semaphore of each request
    starts    \* sessions opened or reset so far, for the bound

vars == <<area, cache, gsSector, fw, list, queue, sched, booter, flag, pc, req,
          sem, starts>>

Errors == {"IO", "MEM", "CRC"}

NoSession == [busy |-> FALSE, bits |-> {}, sid |-> 0, received |-> 0, total |-> 0,
              updated |-> 0, base |-> 0, offset |-> 0]

SchedIdle == [at |-> "receive", item |-> NoTask, next |-> NoTask, buf |-> <<>>]

NoRequest == [sid |-> 0, data |-> <<>>, status |-> "IDLE"]

Init ==
    /\ FastInitState
    /\ fw = NoSession
    /\ list = <<>>
    /\ queue = 0
    /\ sched = SchedIdle
    /\ booter = [k \in 1 .. HdrLen |-> Junk]
    /\ flag = NoFlag
    /\ pc = [t \in Task |-> "idle"]
    /\ req = [t \in Task |-> NoRequest]
    /\ sem = [t \in Task |-> FALSE]
    /\ starts = 0

Heap(site) == IF site \in HeapFails THEN {TRUE, FALSE} ELSE {TRUE}

Goto(t, l) == pc' = [pc EXCEPT ![t] = l]

-----------------------------------------------------------------------------
(* Sessions.  Every function tests first and changes the session later, in *)
(* a critical section of its own.                                          *)

\* tls_fwup_enter up to the test of busy; a second session is refused.
Enter(t) ==
    /\ pc[t] = "idle"
    /\ ~fw.busy
    /\ starts < MaxStarts
    /\ Goto(t, "enter")
    /\ UNCHANGED <<fastVars, fw, list, queue, sched, booter, flag, req, sem, starts>>

\* Its critical section.
Entered(t) ==
    /\ pc[t] = "enter"
    /\ \E s \in Sid, heap \in Heap("cache") :
         /\ fw' = [NoSession EXCEPT !.busy = TRUE, !.sid = s]
         /\ FastInit(heap)
    /\ starts' = starts + 1
    /\ Goto(t, "idle")
    /\ UNCHANGED <<list, queue, sched, booter, flag, req, sem>>

\* The tests of tls_fwup_exit, tls_fwup_reset and tls_fwup_clear_error, for a
\* caller that passes the current session id (tls_fwup_get_current_session_id
\* gives it to every task).
Control(t, op) ==
    /\ pc[t] = "idle"
    /\ fw.busy
    /\ "BUSY" \notin fw.bits
    /\ op = "reset" => starts < MaxStarts
    /\ Goto(t, op)
    /\ UNCHANGED <<fastVars, fw, list, queue, sched, booter, flag, req, sem, starts>>

\* Fault: exit leaves the session id.
ControlledKeepsId(t) ==
    /\ pc[t] \in {"exit", "reset", "clear"}
    /\ fw' = [NoSession EXCEPT !.busy = pc[t] # "exit" /\ fw.busy, !.sid = fw.sid]
    /\ starts' = IF pc[t] = "reset" THEN starts + 1 ELSE starts
    /\ Goto(t, "idle")
    /\ UNCHANGED <<fastVars, list, queue, sched, booter, flag, req, sem>>

\* Their critical sections.
Controlled(t) ==
    /\ pc[t] \in {"exit", "reset", "clear"}
    /\ fw' = CASE pc[t] = "exit" -> NoSession
               [] pc[t] = "reset" -> [NoSession EXCEPT !.busy = fw.busy, !.sid = fw.sid]
               [] pc[t] = "clear" -> [fw EXCEPT !.bits = @ \ Errors]
    /\ starts' = IF pc[t] = "reset" THEN starts + 1 ELSE starts
    /\ Goto(t, "idle")
    /\ UNCHANGED <<fastVars, list, queue, sched, booter, flag, req, sem>>

\* tls_fwup_set_crc_error.
SetCrcError(t) ==
    /\ pc[t] = "idle"
    /\ fw.sid # 0
    /\ fw' = [fw EXCEPT !.bits = @ \cup {"CRC"}]
    /\ UNCHANGED <<fastVars, list, queue, sched, booter, flag, pc, req, sem, starts>>

-----------------------------------------------------------------------------
(* tls_fwup_request_sync, for a caller that passes the current session id  *)
(* (another one gets TLS_FWUP_STATUS_ESESSIONID at once; the callers test  *)
(* that the id is not 0).                                                  *)

\* request.status is not initialised.
Request(t, data) ==
    /\ pc[t] = "idle"
    /\ fw.sid # 0
    /\ req' = [req EXCEPT ![t] = [sid |-> fw.sid, data |-> data, status |-> "IDLE"]]
    /\ Goto(t, "async")
    /\ UNCHANGED <<fastVars, fw, list, queue, sched, booter, flag, sem, starts>>

\* tls_fwup_request_async tests the session id again.
Async(t) ==
    /\ pc[t] = "async"
    /\ Goto(t, IF req[t].sid = fw.sid THEN "add" ELSE "failed")
    /\ UNCHANGED <<fastVars, fw, list, queue, sched, booter, flag, req, sem, starts>>

\* Under list_lock: queue the request; the fwup task needs a message if the
\* list was empty.
Add(t) ==
    /\ pc[t] = "add"
    /\ list' = Append(list, t)
    /\ Goto(t, IF list = <<>> THEN "send" ELSE "wait")
    /\ UNCHANGED <<fastVars, fw, queue, sched, booter, flag, req, sem, starts>>

\* tls_os_queue_send does not wait; its result is ignored.
Send(t) ==
    /\ pc[t] = "send"
    /\ queue' = IF queue < QueueSize THEN queue + 1 ELSE queue
    /\ Goto(t, "wait")
    /\ UNCHANGED <<fastVars, fw, list, sched, booter, flag, req, sem, starts>>

Returned(t, status) ==
    /\ Goto(t, "idle")
    /\ req' = [req EXCEPT ![t] = [NoRequest EXCEPT !.status = status]]
    /\ sem' = [sem EXCEPT ![t] = FALSE]

\* The semaphore was released: the fwup task has set the status.
Return(t) ==
    /\ pc[t] = "wait"
    /\ sem[t]
    /\ Returned(t, req[t].status)
    /\ UNCHANGED <<fastVars, fw, list, queue, sched, booter, flag, starts>>

\* The request was never queued: the status is what the stack happens to hold,
\* for instance that of an earlier request.
ReturnUnset(t) ==
    /\ pc[t] = "failed"
    /\ \E status \in {"IDLE", "SUCCESS"} : Returned(t, status)
    /\ UNCHANGED <<fastVars, fw, list, queue, sched, booter, flag, starts>>

-----------------------------------------------------------------------------
(* fwup_scheduler                                                          *)

\* The request after t in the list, NoTask at its end.
After(t, l) ==
    LET later == {k \in 2 .. Len(l) : l[k - 1] = t}
    IN IF later = {} THEN NoTask ELSE l[CHOOSE k \in later : TRUE]

\* dl_list_del: the list without the request of t.
Unlinked(t, l) ==
    LET places == {k \in DOMAIN l : l[k] = t}
    IN IF places = {} THEN l ELSE RemoveAt(l, CHOOSE k \in places : TRUE)

At(l) == sched' = [sched EXCEPT !.at = l]

SetStatus(s) == req' = [req EXCEPT ![sched.item].status = s]

\* Go to request_finish with this status, and these bits added to the state.
FinishWith(status, bits) ==
    /\ SetStatus(status)
    /\ fw' = [fw EXCEPT !.bits = @ \cup bits]
    /\ At("finish")

\* A message: start on the list.  dl_list_for_each_safe has the next request
\* in hand before it works on this one.
Receive ==
    /\ sched.at = "receive"
    /\ queue > 0
    /\ queue' = queue - 1
    /\ IF list = <<>>
       THEN UNCHANGED <<fw, sched>>
       ELSE /\ fw' = [fw EXCEPT !.bits = @ \cup {"BUSY"}]
            /\ sched' = [SchedIdle EXCEPT !.at = "take", !.item = Head(list),
                                          !.next = After(Head(list), list)]
    /\ UNCHANGED <<fastVars, list, booter, flag, pc, req, sem, starts>>

\* After an error, or when the update is complete, requests are discarded.
Discard ==
    /\ sched.at = "take"
    /\ fw.bits \cap (Errors \cup {"COMPLETE"}) # {}
    /\ FinishWith(CASE "IO" \in fw.bits -> "FIO"
                     [] "IO" \notin fw.bits /\ "MEM" \in fw.bits -> "FMEM"
                     [] fw.bits \cap Errors = {"CRC"} -> "FCRC"
                     [] OTHER -> "FCOMPLETE", {})
    /\ UNCHANGED <<fastVars, list, queue, booter, flag, pc, sem, starts>>

\* tls_fwup_img_header_check.
HeaderOk(h) ==
    \E i \in Image :
        /\ h = Header(i)
        /\ ImgBase[i] >= CodeUpdStart
        /\ ImgBase[i] + Len(ImgBody[i]) < CodeRunStart

ImageOf(h) == CHOOSE i \in Image : h = Header(i)

\* Collect the header from the first pieces; when it is complete, check it,
\* set the lengths and write it to flash.
TakeHeader ==
    /\ sched.at = "take"
    /\ fw.bits \cap (Errors \cup {"COMPLETE"}) = {}
    /\ LET data == req[sched.item].data
           room == IF fw.received < HdrLen THEN HdrLen - fw.received ELSE 0
           n == IF Len(data) < room THEN Len(data) ELSE room
           rest == SubSeq(data, n + 1, Len(data))
           h == [k \in 1 .. HdrLen |-> IF k \in fw.received + 1 .. fw.received + n
                                       THEN data[k - fw.received] ELSE booter[k]]
           first == [fw EXCEPT !.received = @ + n]
           i == ImageOf(h)
       IN /\ booter' = h
          /\ IF n = 0 \/ n < room
             THEN /\ fw' = [first EXCEPT !.received = @ + Len(rest)]
                  /\ sched' = [sched EXCEPT !.at = "data", !.buf = rest]
                  /\ UNCHANGED <<fastVars, req>>
             ELSE IF ~HeaderOk(h)
             THEN /\ SetStatus("FIO")
                  /\ fw' = [first EXCEPT !.bits = @ \cup {"IO"}]
                  /\ At("finish")
                  /\ UNCHANGED fastVars
             ELSE /\ fw' = [first EXCEPT
                              !.received = @ + Len(rest), !.base = ImgBase[i],
                              !.total = HdrLen + Len(ImgBody[i]) + ImgSig[i],
                              !.updated = HdrLen, !.offset = HdrLen]
                  /\ sched' = [sched EXCEPT !.at = "data", !.buf = rest]
                  /\ FastWriteTo(ImgBase[i], h)
                  /\ UNCHANGED req
    /\ UNCHANGED <<list, queue, flag, pc, sem, starts>>

\* Write the rest of the piece behind what is there; the last piece leads to
\* the verification.
WriteData ==
    /\ sched.at = "data"
    /\ LET addr == fw.base + fw.offset
           n == Len(sched.buf)
           done == fw.updated + n >= fw.total
       IN \/ /\ n = 0
             /\ FinishWith("SUCCESS", {})
             /\ UNCHANGED fastVars
          \/ /\ n > 0 /\ addr \notin Addr
             /\ FinishWith("FIO", {"IO"})
             /\ UNCHANGED fastVars
          \/ /\ n > 0 /\ addr \in Addr
             /\ FastWriteTo(addr, sched.buf)
             /\ fw' = [fw EXCEPT !.offset = @ + n, !.updated = @ + n]
             /\ At(IF done THEN "verify" ELSE "finish")
             /\ IF done THEN UNCHANGED req ELSE SetStatus("SUCCESS")
    /\ UNCHANGED <<list, queue, booter, flag, pc, sem, starts>>

\* Fault: the checksum is not compared.
BodyNotRead(contents, i) == TRUE

\* The checksum of what the flash holds behind the header is org_checksum.
BodyOk(contents, i) ==
    \A k \in 1 .. Len(ImgBody[i]) : contents[fw.base + HdrLen + k - 1] = ImgBody[i][k]

\* Empty the cache and compare the checksum of the body in flash with the one
\* of the header.  When exit or reset has cleared total_len, the length left
\* wraps around and the reading runs out of the flash.
VerifyImage ==
    /\ sched.at = "verify"
    /\ FastDestroy
    /\ \/ FALSE \in Heap("verify") /\ FinishWith("FMEM", {"MEM"})
       \/ fw.total = 0 /\ FinishWith("FIO", {"IO"})
       \/ fw.total > 0 /\ ~BodyOk(area', ImageOf(booter)) /\ FinishWith("FCRC", {"CRC"})
       \/ /\ fw.total > 0 /\ BodyOk(area', ImageOf(booter))
          /\ At("flag")
          /\ UNCHANGED <<fw, req>>
    /\ UNCHANGED <<list, queue, booter, flag, pc, sem, starts>>

\* tls_fls_write of org_checksum for the boot loader; its result is ignored.
SetFlag ==
    /\ sched.at = "flag"
    /\ \E heap \in Heap("flag") : flag' = IF heap THEN ImageOf(booter) ELSE flag
    /\ FinishWith("SUCCESS", {"COMPLETE"})
    /\ UNCHANGED <<fastVars, list, queue, booter, pc, sem, starts>>

\* Fault: the request is not taken off the list.
FinishKeeps ==
    /\ sched.at = "finish"
    /\ At("complete")
    /\ UNCHANGED <<fastVars, fw, list, queue, booter, flag, pc, req, sem, starts>>

\* request_finish: take the request off the list, under list_lock.
Finish ==
    /\ sched.at = "finish"
    /\ list' = Unlinked(sched.item, list)
    /\ At("complete")
    /\ UNCHANGED <<fastVars, fw, queue, booter, flag, pc, req, sem, starts>>

\* BUSY is cleared when no request waits any more, and
\* fwup_request_complete wakes the task that waits for this request.
Complete ==
    /\ sched.at = "complete"
    /\ fw' = IF list = <<>> THEN [fw EXCEPT !.bits = @ \ {"BUSY"}] ELSE fw
    /\ sem' = [sem EXCEPT ![sched.item] = TRUE]
    /\ At("next")
    /\ UNCHANGED <<fastVars, list, queue, booter, flag, pc, req, starts>>

\* A reset or a power cut: everything in RAM is gone.  The boot loader installs
\* the image that the OTA flag announces and clears the flag.
Restart ==
    /\ FastRestart
    /\ fw' = NoSession
    /\ list' = <<>>
    /\ queue' = 0
    /\ sched' = SchedIdle
    /\ booter' = [k \in 1 .. HdrLen |-> Junk]
    /\ flag' = NoFlag
    /\ pc' = [t \in Task |-> "idle"]
    /\ req' = [t \in Task |-> NoRequest]
    /\ sem' = [t \in Task |-> FALSE]
    /\ UNCHANGED starts

\* Fault: the last byte is waited for once more.
UpdateOvershot == fw.updated > fw.total

\* The test before tls_sys_reset.
UpdateOver == fw.updated >= fw.total

\* The end of the loop body: reset, or go on with the request that was next
\* when this one was started, if there was one.
NextRequest ==
    /\ sched.at = "next"
    /\ IF UpdateOver
       THEN Restart
       ELSE /\ sched' = IF sched.next = NoTask THEN SchedIdle
                        ELSE [sched EXCEPT !.at = "take", !.item = sched.next,
                                           !.next = After(sched.next, list)]
            /\ UNCHANGED <<fastVars, fw, list, queue, booter, flag, pc, req, sem, starts>>

-----------------------------------------------------------------------------

Scheduler ==
    \/ Receive \/ Discard \/ TakeHeader \/ WriteData \/ VerifyImage \/ SetFlag
    \/ Finish \/ Complete \/ NextRequest

\* What a task does once it is inside a call.
InCall(t) ==
    \/ Entered(t) \/ Controlled(t) \/ Async(t) \/ Add(t) \/ Send(t)
    \/ Return(t) \/ ReturnUnset(t)

Call(t) ==
    \/ Enter(t)
    \/ \E op \in {"exit", "reset", "clear"} : Control(t, op)
    \/ SetCrcError(t)
    \/ \E data \in Data : Request(t, data)

Next ==
    \/ Scheduler
    \/ \E t \in Task : InCall(t) \/ Call(t)
    \/ Restart

Spec == Init /\ [][Next]_vars

\* The fwup task and a task inside a call get the processor again and again:
\* nobody holds it for ever.
FairSpec ==
    /\ Spec
    /\ WF_vars(Scheduler)
    /\ \A t \in Task : WF_vars(InCall(t))

-----------------------------------------------------------------------------

FwTypeOK ==
    /\ FastTypeOK
    /\ fw.bits \subseteq Errors \cup {"BUSY", "COMPLETE"}
    /\ fw.sid \in Sid \cup {0}
    /\ fw.busy <=> fw.sid # 0
    /\ list \in Seq(Task)
    /\ queue \in 0 .. QueueSize
    /\ sched.item \in Task \cup {NoTask} /\ sched.next \in Task \cup {NoTask}
    /\ booter \in [1 .. HdrLen -> Cell]
    /\ flag \in Image \cup {NoFlag}

\* The OTA flag that SetFlag writes announces an image that is complete in
\* flash, header and body, whatever pieces it came in, whatever sessions were
\* left half way before and whenever the power is cut.
FlagMeansImage ==
    flag # NoFlag =>
        LET cells == Header(flag) \o ImgBody[flag]
        IN \A k \in 1 .. Len(cells) : area[ImgBase[flag] + k - 1] = cells[k]

\* The sectors that an update with image i reaches when its last piece is cut
\* from data of the length of d: that piece begins inside header, body and
\* signature, and a write that ends at a sector boundary has gsSector name the
\* sector behind it, which is flushed as well.
ImageSectors(i, d) ==
    Sector(ImgBase[i]) ..
        Sector(ImgBase[i] + HdrLen + Len(ImgBody[i]) + ImgSig[i] - 1 + Len(d))

\* Sector s is one that an image accepted by tls_fwup_img_header_check reaches.
Reached(s) ==
    \E i \in Image, d \in Data : HeaderOk(Header(i)) /\ s \in ImageSectors(i, d)

\* The update erases and programs no other sectors: none below, where the boot
\* loader is and where a flush (FastWriteTo) of an unset gsSector would go, none
\* between images, where a stale one would go, and none above, although exit and
\* reset leave offset, lengths and cache half way, the caller may send more than
\* the image and the cache may be missing.
OnlyImageSectors == \A a \in Addr : area[a] # Old => Reached(Sector(a))

\* What the flash map suggests and the code does not ensure: the update writes to
\* the upgrade image area, not to the run-time image that begins where it ends.
\* It fails for an image that ends with the area or runs over its end.
UpdateAreaOnly ==
    \A a \in Addr \ (CodeUpdStart .. CodeRunStart - 1) : area[a] = Old

\* Once the OTA flag is set, the system restarts before the scheduler takes
\* another request: it is on its way to the test before tls_sys_reset, and the
\* lengths that it compares say that the update is over, although tasks end, reset
\* and begin sessions meanwhile, which sets the lengths to 0 under its hands.
AnnouncedRestarts ==
    flag # NoFlag => sched.at \in {"finish", "complete", "next"} /\ UpdateOver

\* No request is forgotten: a task that waits in tls_fwup_request_sync has been
\* woken, or the scheduler works on its request, or the request is in the list
\* and a message that makes the scheduler look at it is still in the queue
\* (tls_fwup_request_async sends one only when the list was empty, and ignores
\* that the queue may be full).
NoneForgotten ==
    \A t \in Task : pc[t] = "wait" =>
        \/ sem[t]
        \/ sched.at \notin {"receive", "next"} /\ sched.item = t
        \/ queue > 0 /\ \E k \in DOMAIN list : list[k] = t

\* Only the end of an image, good or bad, makes the scheduler reset the system
\* (NextRequest); a session that has not even its header does not.
ResetNeedsImage == sched.at = "next" /\ UpdateOver => fw.total > 0

\* tls_fwup_request_sync returns, unless the system restarts.
RequestsReturn == \A t \in Task : pc[t] = "wait" ~> pc[t] = "idle"

\* An image that was announced to the boot loader is installed: the system
\* restarts, even if the task that sent it ends the session, or begins another
\* one, before the scheduler comes to its test.
AnnouncedInstalls == flag # NoFlag ~> flag = NoFlag
=============================================================================
