# W800 SDK: a verification project

This directory holds TLA+ models of the WinnerMicro W800 SDK (`wm-sdk-w80x`),
the TLC configurations that check them and proofs that TLAPS checks. The SDK is
a firmware library for a WiFi/Bluetooth microcontroller: FreeRTOS tasks,
drivers, flash storage, firmware update and network services, linked with
binary radio libraries. Paths below are relative to the repository root.

## 1. Inventory

| Part | Source | State it keeps | What is hard about it |
|---|---|---|---|
| Parameter store | `platform/common/params/wm_param.c` | one struct in RAM, two flash partitions, user defaults in RAM and flash, `sys_param_lock`, `updp_mode` | power cuts anywhere in an update, several tasks, failed allocations, a 16 bit modify count |
| Internal flash driver | `platform/drivers/internalflash/wm_internal_fls.c` | flash contents, `fls_lock`, the fast write cache (`gsflscache`, `gsSector`) | read-erase-program of whole sectors, a cache that outlives its user |
| Firmware update | `platform/common/fwup/wm_fwup.c` | one session (`busy`, session id, lengths, state bits), a list of requests, a message queue and a task | requests of one task handled by another, session changes in between, power cuts before the boot flag is set |
| Tasks with mailbox and timers | `platform/common/task/*.c` | per task a mailbox and a delta list of timeouts; static messages with a counter | relative times, rounding to ticks, a task that posts to itself, bounded retries |
| UART | `platform/drivers/uart/wm_uart.c` | receive ring, list of messages to send and list to free, flow control state | interrupt handler and tasks share lists, ring and FIFO; events that are latched while others are handled |
| Transparent mode | `src/app/wm_atcmd/wm_uart_task.c` | the port's mode, the timer that passes on incomplete packets | wakeups, restarts of the timer through the task's own mailbox, a socket that asks to wait |
| DHCP server, system task | `src/app/dhcpserver/dhcp_server.c`, `platform/sys/tls_sys.c` | table of clients with state, MAC, lease and offer time; the queue of the system task | stations that repeat, give up or vanish, lost messages, start and stop by another task |
| SPI flash driver | `platform/drivers/flash/wm_fls.c` | `fls_lock`, sector cache | lock given back twice on an error path |
| HSPI slave | `platform/drivers/hspi/wm_hspi.c` | descriptor rings | interrupt handler and task share the rings |
| Timers, DMA, SPI | `platform/drivers/{timer,dma,spi}` | allocation bitmaps, rings, transfer state | interrupt handler and tasks, allocation without lock |
| OS layer | `src/os/rtos/wm_osal_rtos.c` | none of its own | thin wrapper over FreeRTOS |
| Network API | `src/network/api2.0.3` | table of connections and their client state | callbacks from the lwIP task |
| Applications | `src/app/{wm_atcmd,dnsserver,ota,ntp,ping,oneshotconfig,...}` | command buffers | mostly parsing and formatting |
| Vendored code | lwIP, FreeRTOS, mbedTLS, polarssl, NimBLE, bluedroid, libwebsockets, libcoap, FatFs, ... | - | not part of this project |

How they interact: `task_start` (`platform/sys/wm_main.c`) initialises the flash
driver, loads the factory parameters and runs `tls_param_init`; every other
component reads and writes its configuration with `tls_param_get`/`tls_param_set`
from its own task. The parameter store and the firmware update both use the
internal flash driver, which serialises them with `fls_lock`. The host interface
task is one of the tasks of `platform/common/task`; UART interrupts wake it with
static messages, and it passes bytes between the UART and the sockets. The soft
AP tells the system task when it comes and goes, which starts and stops the DHCP
server; the server itself runs in lwIP's TCP/IP thread.

What makes the parts correct:

* parameter store: an acknowledged write survives a power cut at any later
  moment; an interrupted write leaves the previous parameters; readers never
  see a torn struct; the locks are always given back;
* fast write: after the cache is flushed, flash holds what was written;
* firmware update: the boot loader is told of an image only when flash holds a
  complete one; every request is answered; a session that failed or was left
  does not harm the next one;
* timers: a timeout fires when its time has come, in order, and never after it
  was removed; messages do not starve timers;
* UART: every message that is accepted goes out, complete and in order, and its
  buffer is freed once; in transparent mode every byte that arrives is passed on;
* DHCP server: no two stations use the same address, a lease lasts as long as
  the station was told, and an address that is no longer used becomes free.

## 2. Modules

| Module | What it is |
|---|---|
| `AtomicParam` | abstract specification of the parameter store: one struct in memory, one durable struct that is replaced as a whole |
| `ParamStore` | `wm_param.c` and the `tls_fls_read`/`tls_fls_write` below it |
| `ParamProperties` | its properties, the refinement mapping to `AtomicParam` and the inductive invariant |
| `ParamProofs`, `ParamDurability` | proofs |
| `FastWrite` | the one-sector write cache of `wm_internal_fls.c` |
| `FastSession` | the cache as the firmware update drives it, with properties |
| `FwUp` | `wm_fwup.c` on top of `FastWrite` (EXTENDS) |
| `DhcpServer` | `dhcp_server.c` |
| `SoftAp` | `DhcpServer` (EXTENDS) with stations, their channel, the soft AP and the system task; properties |
| `AbstractTimers` | abstract specification of the timers of a task: a list of deadlines |
| `WlTask` | `platform/common/task`: mailbox, delta list, `task_thread`; the refinement mapping to `AbstractTimers` |
| `TransMode` | UART 1's receive interrupt and the transparent mode of `wm_uart_task.c` on top of `WlTask` (EXTENDS); properties |
| `UartTx` | the transmit side of `wm_uart.c`, its interrupt handler and the static message that frees buffers; properties |
| `FastLemmas`, `FastSessionProofs`, `FwUpProofs`, `SoftApProofs`, `UartTxProofs`, `TransModeProofs` | proofs about the modules they are named after; `FastLemmas` is what a fast write leaves in flash and cache, for the two that build on it |
| `MCParam`, `MCFastSession`, `MCFwUp`, `MCSoftAp`, `MCTransMode`, `MCUartTx` | constants for TLC |

Definitions whose comment begins with "Fault:" are deliberately wrong variants
of the definition that follows them. Nothing uses them; they serve to show that
a property notices the fault.

### Parameter store

`flash` holds the two partitions, `ram` is `flash_param`, `lock` and `flsLock`
are the holders of `sys_param_lock` and `fls_lock`, `updp`, `usrRam` and
`usrFlash` are `updp_mode`, `*user_default_param` and the sector of the user
defaults. `pc` and `call` are program counter and locals of the call a task is
making. A call is cut into steps at the points where another task or a power
cut makes a difference:

* `Boot`, `BootLoad`, `BootRepair`, `BootDefault`, `BootNoMem`: `tls_param_init`,
  which loads the valid partition with the larger modify count, rewrites the
  other one if it is damaged and writes the factory defaults to a new device;
* `SetCall`, `SetApply`: `tls_param_set`, outside and inside the lock;
  `SaveCall`, `Compare`: `tls_param_to_flash`; `GetCall`, `GetRead`, `GetCopy`:
  `tls_param_get`; `DefaultCall`: `tls_param_to_default`;
* `Seal`, `WriteErase`, `Program`, `Verify`: `param_to_flash`, with the erasure
  and the programming of `tls_fls_write` as separate steps; `WriteNoMem` is its
  failing allocation;
* `SetUpdpMode`, `SaveUser`, `SaveUserDefault`, `UserErase`, `UserProgram`,
  `UserNoMem`: the user defaults, written in three rounds;
* `Crash`: power cut, between any two steps, also during boot.

A partly programmed sector is represented by the erased one: both fail the
magic or CRC test. CRCs are injective: a CRC is the record it was computed over.

`CoreSpec` has boot, set, save, get and power cuts; `ResetSpec` adds the factory
reset, `UserSpec` the user defaults, `Spec` everything.

### Fast write and firmware update

`area`, `cache` and `gsSector` are the flash, `gsflscache` and `gsSector`. A
write is one action since it holds `fls_lock` throughout; the flash is only
looked at by the next session, or after a successful verification, so that a
power cut inside a flush adds nothing to one before or after it.

`fw` is `struct tls_fwup`, `list` its wait list, `queue` the number of messages,
`sched` where the scheduler task is (with the request it handles and the *next*
one, which `dl_list_for_each_safe` has fetched in advance), `booter` its header
buffer, `flag` the OTA flag. A request is the task that made it, since
`tls_fwup_request_sync` keeps one request on the caller's stack. `Enter`/`Entered`,
`Control`/`Controlled` and `Request`/`Async`/`Add`/`Send` separate the tests of a
function from the critical section that acts on them; `Receive`, `Discard`,
`TakeHeader`, `WriteData`, `VerifyImage`, `SetFlag`, `Finish`, `Complete`,
`NextRequest` are the stages of `fwup_scheduler`. An image header is two cells
that name the image, so that any other two cells fail the header checksum, and
the body checksum is the body.

The boot loader is external: a restart with the flag set installs the image and
clears the flag.

### DHCP server and soft AP

`slot` is the table of clients, `enable`, `socket` and `armed` are
`DhcpServer.Enable`, `DhcpServer.Socket` and the pending timeouts of
`_DhcpTickHandle`; `leaked` says that a pcb which a second start forgot still
holds the port, and `pooled` that the entries have addresses (`DHCPS_Stop`
clears them). `ClientTableLookup` is `_ClientTableLookup` with the pointers its
scan finds as operators of their own (`MyHistoryClient`, `ReqClient`, ...);
`ClientSMEHandle`, `TickHandle`, `Start`, `Stop`, `ClientDelete` are the
functions of those names. A handler is one step, since it runs to its end in
the TCP/IP thread.

`SoftAp` adds what is around it. Stations join and leave and run the client side
of DHCP: `Discover`, `Select`, `SelectOther` (an offer of another server),
`Reboot` (an address it had before), `Renew`, `GiveUp`. `Answer` delivers a
message and the reply to it, `Mute` loses the reply, `Drop` the message. `SysTask`
is `tls_sys_task`, which starts and stops the server some time after the AP came
up or closed. `hold` is what a station believes: the address it uses and for how
long.

### Host interface task and transparent mode

`tmo` is `next_timeout`, the delta list, with two history fields; `mbox` the
mailbox; `pc` and `job` where `task_thread` is. Time is what the code sees of it:
`waited` is the ticks since `tick_start`, and the counter may wrap once. `Fetch`,
`Receive` and `Fire` are the branches of `tls_timeouts_mbox_fetch_p`, `RunTimeout`
and `RunUntimeout` two of the messages; `Timeout`, `Untimeout` and `Waited`
compute on the delta list. `Rest` is
`timeout->time` along the walk of `tls_timeout_p`, `Passed` where the walk stops.
The refinement mapping (`TimeLeft`, `Timers`) takes the running sums of the delta
list as the times left. A timer's `age` counts ticks since it was armed, `ahead`
the timers before it that the task waited for in that time.

`TransMode` adds the ring (`buf`, `head`, `tail`), the static message of the port
(`cnt`), the interrupt handler (`RxIsr`), `uart_rx` (`RunRx`),
`uart_rx_timeout_handler` (`RunUartTimer`) and `uart_net_send` (`Send`,
`SendWaits`, `Sent`, `SentFlow`). Requests to arm and cancel timers are messages
of the task to itself, posted one at a time (`Request`), so that interrupts come
between them. Bytes are numbered; `out` is what the socket was given. An
application shares the task: callbacks that arm and cancel its own timers.

### UART transmission

`pending` and `sent` are `tx_msg_pending_list` and `tx_msg_to_be_freed_list`.
`Write` and `Start` are the two halves of `tls_uart_write_async` (and of
`uart_tx`), `IsrEnter` to `IsrExit` the transmit part of the interrupt handlers,
`Free` one round of `tls_uart_free_tx_sent_data`, which leaves its critical
section between rounds. `Check`, `Post`, `Load`, `Store` and `Fetch`, `CountOff`
are `tls_wl_task_callback_static` and its counterpart in `task_thread`, with the
read and the write of the counter as separate steps. `Drain` and `CtsToggle` are
the hardware; it latches an event when the FIFO falls to its trigger level or
runs empty, and when CTS changes. `ClearLate` selects `UART2_4_IRQHandler`, which
clears the events at its end. `order` is history: the messages in the order in
which `tls_uart_fill_buf` took them, each with the number of bytes before it.

## 3. Runs

| Run | Checks | Shows |
|---|---|---|
| `param_core` | `TypeOK`, `NeverLoseBoth`, `GetNeverTorn`, `NextWriteHitsOlder`, `IInv`, `SetDurable`, `SaveDurable`, `ImplementsAtomic` | two tasks, power cuts anywhere: no acknowledged write is lost, no read is torn, the store refines `AtomicParam` |
| `param_api` | `NeverLoseBoth`, `SaveDurable`, `DefaultDurable`, `UserSaveDurable` | one task and the whole API: the factory reset, which restarts the modify count, saves before and after it, and the user defaults, whose allocations may fail |
| `param_default_user` | `DefaultReadsUser` (violated) | the reset restores the factory settings although valid user defaults are in flash |
| `param_live` | `CallsReturn` | no call of the core or the reset waits for ever, with every allocation they make failing at will |
| `fast_session` | `NothingLost`, `AllWritten`, `BelowUntouched` | pieces of any length, sessions left half way: no byte is lost |
| `fwup_session` | `FwTypeOK`, `OnlyImageSectors`, `RequestsReturn` | one task, two images in any order of pieces, one of which passes the header check and ends behind the upgrade area: no sector is touched that no accepted image reaches; every allocation failing at will (also that of the fast write cache, after which pieces are copied to address 0), power cuts |
| `fwup_two_tasks` | `FlagMeansImage`, `AnnouncedInstalls` | two tasks that interfere with each other's sessions still never announce an incomplete image, nor keep an announced one from being installed; the allocations of the verification and of the flag write fail at will |
| `fwup_lost_wakeup` | `RequestsReturn` (violated) | two tasks: a request that is never looked at |
| `dhcp_lease` | `SoftApTypeOK`, `OneHolder`, `LeaseCovered`, `LookupRight` | three stations, two addresses, lost messages and replies, failing starts: no address is used twice |
| `dhcp_faults` | `OneSlot`, `AbandonedFreed` | every failure, a lagging system task, a second start: one negotiation per station, and addresses come back |
| `uart_tx` | `UartTxTypeOK`, `InOrder`, `FreedOnce`, `EverySent`, `DirectFreed` | two tasks, the handler, flow control: nothing is lost, mixed, freed twice or left half sent |
| `uart_trans` | `TransTypeOK`, `ForwardedInOrder`, `OneUartTimer`, `RxServed`, `ImplementsTimers`, `NeverEarly`, `AllForwarded`, `TimersFire` | the transparent mode with an application's timers beside it: bytes arrive once, in order, and none is forgotten |

### Bounds

* `MaxCount` stops new flash updates at that modify count. Four updates are
  enough for each partition to be written, cut short, repaired and written
  again. `CountMod` (65536 in the code) is 8, so the count does not wrap, except in
  `param_live`, where it is 2 and wraps.
* Two tasks: the properties relate one caller to what others do. Two parameter
  ids with two values: one that a call sets and one that it must not disturb.
* `fast_session`: sectors of three bytes, a sector aligned and an unaligned
  base, pieces up to four bytes (`MaxPiece`, longer than a sector) and sessions
  up to five (`MaxLen`), so that a piece ends before, at and after a boundary.
* `fwup_*`: sectors of two cells, a header of two, pieces of one to three;
  `MaxStarts` = 2 sessions opened or reset, one left half way and another after
  it; `QueueSize` is the code's 4, and no more than one message per task is
  ever in the queue. In `fwup_session` one image lies at the start of the
  upgrade area and one runs over its end, with a sector between what they reach and
  one above, so that `OnlyImageSectors` can fail below, between and above them; the
  first ends at a sector boundary, and pieces may be longer than what is left.
* `dhcp_*`: one station more than there are addresses in `dhcp_lease`, so that
  the table is full and history is taken over; the host mask is 6 and the
  server's address 4, so that the pool (5 and 1) wraps. A lease lasts two ticks,
  an offer one. Two messages in flight (`MaxFlight`): a message of another
  station, or a later one of the same, comes before it. `MaxSys` messages wait
  for the system task and `MaxArmed` ticks are pending. Stations are symmetric in
  `dhcp_lease`.
* `uart_tx`: a FIFO of two bytes, messages of none, one and three: one is longer
  than the FIFO and needs two interrupts, and the other comes before, during or
  after it. The host interface task writes the long one.
* `uart_trans`: a ring of eight bytes that starts near its end, packets of two,
  four bytes, a socket that asks to wait once (`MaxErrors`); or two timers of the
  application with one callback at a time; or one of each (`Load`). The tick is
  2 ms as in the SDK; the three timers take 3, 4 and 1 ms, so that they round
  differently and arm before, between and behind each other. `MaxWait` is the
  longest timer in ticks; `MaxAge` caps the history fields where `NeverEarly` is
  already true (`CountedFar`, which `MCTransMode` assumes and TLC evaluates).

### Fairness

`param_live` assumes strong fairness of every task: a task that is ready runs,
and one that waits for a semaphore that is released again and again gets it.
FreeRTOS gives a semaphore to the waiter of the highest priority, in order of
arrival among equals, so the assumption is that tasks of higher priority pause
between their calls. The firmware update needs weak fairness only, of the
scheduler and of tasks inside a call; no task is assumed to make a call.

`dhcp_faults`: weak fairness of the tick (lwIP's timeouts) and of the system
task. No station is assumed to do anything.

`uart_tx`: weak fairness of the interrupt handler and of the transmitter, strong
fairness of the tasks, which interrupts may disable again and again but not
starve. CTS is not assumed to become active: `EverySent` says what follows if it
does.

`uart_trans`: weak fairness of the task, and strong fairness of a tick while the
task waits with a timer armed: ticks do not for ever fall into the moments in
which the task works. Without it the timers would starve, because the code counts
a wait shorter than a tick as none.

### Disagreements between code and documentation

Two runs are violated (`findings` in `PROJECT.json`): `param_default_user`
(`include/platform/wm_params.h:592` says that `tls_param_to_default` reads the user
defaults first; `DefaultDurable` says what holds: whatever the reset loads is durable)
and `fwup_lost_wakeup`. Others met while modelling, without a run of their own:

* The update can leave the upgrade area, behind which
  `include/driver/wm_flash_map.h:21` has the "Run-time image header area":
  `UpdateAreaOnly` fails when added to `fwup_session`. `tls_fwup_img_header_check`
  leaves header and signature out of the length it compares with the end of the area
  (`wm_fwup.c:91`), and after a write that ends at a sector boundary
  `tls_fls_fast_write_destroy` flushes the sector behind it (`wm_internal_fls.c:1109`),
  for an image that ends with the area the first one of the running image.
  `OnlyImageSectors` says what holds: no sector is touched that no accepted image
  reaches.
* The 16 bit modify count wraps (`wm_param.c:331`), and `tls_param_init` then takes
  the older partition for the newer one, although `wm_param.c:443` says "Load the
  latest parameters". `LoadsLatest` fails for `CoreSpec` with `CountMod` = 4.
* A first piece of an image that is shorter than the header is answered with OK
  and resets the system, because `updated_len >= total_len` holds while both are 0
  (`wm_fwup.c:320`). `ResetNeedsImage` fails when added to `fwup_session`.
* `tls_param_to_default` takes no lock; `SetDurable` and `DefaultDurable` fail for
  `ResetSpec` with two tasks.
* `param_to_flash` leaves `partition_num` switched when the write fails, so that
  a later `tls_param_to_flash` may compare with the wrong partition and return
  OK without writing: `SaveDurable` fails for `CoreSpec` with `"write"` in `HeapFails`.
* `tls_param_save_user_default` computes the CRC after the struct was written,
  without a lock (`UserSaveDurable` fails with a second task), and ignores the
  results of its writes.
* A field set with `to_flash` = 0 is persisted by the next set of another field.
* `tls_fwup_exit`, `tls_fwup_reset`, `tls_fwup_clear_error` and `tls_fwup_enter`
  test before their critical section, so that a session can be cleared under a
  request that is being handled; it can then write to address 0.
  (`OnlyImageSectors` fails when added to `fwup_two_tasks`.)
* `tls_fwup_request_sync` returns by an uninitialised status when the session
  ended between its two tests (`ReturnUnset`).
* `_CheckMacIsValid` answers FALSE when it has no memory; in the tick this ends the
  lease of a station that is still there ("The client leave the wireless
  network.", `dhcp_server.c:209`). `OneHolder` fails with `Fails = {"tick"}`.
* A restart of the server forgets leases that stations still use: `OneHolder`
  fails with `Prompt = FALSE`, and with `Fails = {"sys"}`, where the server is also
  started twice, with two ticks and a port that a forgotten pcb keeps.
* In `_ClientTableLookup` the state is set to IDLE (line 342) before it is compared
  with BIND (line 347): a DISCOVER for another address always wipes the history.
* `cnt++` in `tls_wl_task_callback_static` and `cnt--` in `task_thread` are not
  atomic. After a lost update the counter stays above 0, no such message is posted
  any more, and buffers that `uart_tx` sent are never freed. `EveryFreed` fails
  with `Callback = {"posted"}`.
* `UART2_4_IRQHandler` clears at its end the events it read at its beginning; one
  that was latched meanwhile is lost. `EverySent` fails with `ClearLate = TRUE`.
* `uart_tx` accepts a message of no bytes; the one behind it waits for the next
  write. `EverySent` fails when `m0` is written by `t1`.
* `tls_fwup_enter` ignores the result of `tls_fls_fast_write_init`: without memory
  the session goes on with a NULL cache. `FlagMeansImage` fails when `"cache"` is
  added to `HeapFails`.
* A timer may fire early by almost one tick for itself and for each timer that was
  waited for before it, since every wait is rounded down; `tls_timeout_p` speaks of the
  "time in milliseconds after that the timer should expire". `NeverEarly` states
  the bound that holds.
* `tls_mbox_post` drops the message after ten attempts and its callers report
  success. A task that posts to its own full mailbox always ends like this.

### Further hazards

Besides those in `PROJECT.json`, which the properties are aimed at:

* parameter store: `tls_param_get` may return the image that was current when the
  call began; `updp_mode` is read twice by `tls_param_set`; a repair that fails at
  boot for want of memory leaves `partition_num` at the damaged partition; the
  result of `tls_param_init` is ignored; a power cut between the two writes of
  `tls_param_to_default` brings the old second partition back;
* firmware update: the result of the OTA flag write is ignored; after a failed
  `tls_fwup_init` the pointer to the freed struct stays; a read error during the
  verification leaks its buffer;
* DHCP server: `DHCPS_Start` and `DHCPS_Stop` change lwIP's lists from the system
  task; a REQUEST meant for another server is answered with a NAK; a station may
  count its lease up to one tick longer than the server; when the pool wraps
  (`dhcp_server.c:1038`) the two entries behind the end both get host 1, with a
  /24 mask if the server is .248 to .253 (`PoolDistinct` fails);
* tasks and timers: `timeout * HZ` overflows for more than 2.4 hours; a full
  mailbox stalls a task that posts to itself; `tls_wl_task_init` clears one of the
  static messages only; `TLS_MSG_ID_UART_SENT_FREE` is shared by all ports;
* UART: when the ring is full the handler moves `tail`, which `uart_net_send`
  updates too; `uart_net_send` strands bytes when it finds no memory for its
  buffer; `uart_tx` sends `tot_len` bytes from the payload of the first pbuf of a
  chain.

## 4. Proofs

`ParamProofs` proves `TypeCorrect`: `Spec => []TypeOK`, for the whole API, any
set of tasks and parameters, with any allocation failing and the count wrapping.
It needs `TypeInv`, which adds that a sector with the magic word holds a struct
and that `*user_default_param` is allocated where it is used.

`ParamDurability` proves, for `CoreSpec` and any tasks, parameters and values,
under two assumptions, `NoHeapFailure` (no allocation fails) and `NoWrap` (the
count stays below its modulus; section 3 says what happens otherwise):

* `Invariant`: `[]IInv`;
* `NeverLost`, `NeverTorn`, `OverwritesOlder`: the three safety invariants;
* `AckedSetIsDurable`, `AckedSaveIsDurable`: the two action properties;
* `StoreIsAtomic`: `CoreSpec` implements `AtomicParam!Spec`.

None of these is inductive by itself. `IInv` is the conjunction of `TypeInv`,
`LockInv` (who holds which lock at which stage), `SectorInv` (a partition that
passes the test was written whole and where it belongs, and equal counts mean
equal contents), `DurabilityInv` (for every stage of `param_to_flash`, what
flash and `flash_param` hold: *settled* between updates, *sealed* with a count
one above the partition a reboot would load during one), `BufInv` (what a reader
holds is whole) and `ArgInv` (the fields a set was given are still in RAM while
it writes). Each has its own step lemma, with one step per action. The key of the
argument is that the partition being erased is never the one `Recovered` loads:
it either is invalid, has the smaller count, or is a copy.

`ParamDurability` also proves what remains under weaker assumptions:

* `AckedSetSurvivesHeapFailures`: `CoreSpec => SetDurable` with every allocation
  failing that is made after `tls_param_init` has read flash (`BootReads`) and a count
  that does not wrap in a repair either (`RepairNoWrap`). A write without memory leaves
  `flash_param` a count and a partition ahead of flash, so `Settled` is lost, and with it
  `NeverLoseBoth`. `HeapInv` keeps `LockInv` and `ArgInv` (their lemmas do not need the
  heap) and replaces the rest by `CountInv`: no valid partition has a larger count than
  `flash_param`, and while it is written the others are smaller. With `"boot"` in
  `HeapFails` this fails: `tls_param_init` leaves the count at 0 and goes on. No run
  checks it; TLC agrees for two tasks, one parameter and `MaxCount` = 5.
* `AckedResetIsDurable` and `SavedDefaultsAreDurable`: `Spec => DefaultDurable` and
  `Spec => UserSaveDurable` for one task (`OneTask`), any heap and any count.
  `DefaultInv` and `UserInv` say how far the two writes of the one and the three of the
  other have come. With a second task both fail, since the code takes no lock (section 3).

`FastSessionProofs` proves `NothingLost`, `AllWritten` and `BelowUntouched` for any
sector size, base addresses, pieces and number of sessions, without assumptions
beyond the constants' types. Its invariant adds to them `OpenInv` (an open session's
cache is the one of the sector of the next byte), `SectorInv` (what a flush would
write lies in or above the sessions' sectors) and `SentInv` (all that was sent
is in cache or flash). `FastLemmas` carries the argument: `View(a)`, the
cache's cell if `a` lies in the cached sector and the flash's otherwise, changes
under `FastWriteTo` exactly where data is written; that needs `gsSector` to be the
sector of the next address (`WriteTypes`, `WriteView`).

`FwUpProofs` proves, for any tasks, images and pieces:

* `FwUpTypes`: `[]FwTypeOK`, with any allocation failing;
* `FlagAnnouncesImage`: `[]FlagMeansImage`, when the fast write cache can be
  allocated (`"cache" \notin HeapFails`; section 3 says why). Any number of tasks may
  enter, leave, reset and use each other's sessions between any two steps.

The body's checksum is read back from flash, but the header's is not: the flag is
right only if the header that was accepted is still where it was written when the
flag is set. The invariant says so: `HeaderInv` (once `total_len` is set the header
buffer holds an accepted header), `CacheInv` (without a cache the update is ending or
no session was opened), `HeaderStored` (from the header on, base, offset and
`gsSector` follow the writes without a gap, and cache or flash shows the header) and `FlagInv` (from a successful verification to the flag, flash
holds the image). A session change in between resets the lengths, and it is this that
keeps the scheduler from setting the flag for a mixture of two images.

It also proves what comes of the flag, where the update writes and who wakes waiters:

* `AnnouncedUpdateEnds`: `[]AnnouncedRestarts`, without assumptions. `OverInv`: from
  the last piece on `updated_len >= total_len`; tasks change the lengths only to 0 and
  0, which the test before `tls_sys_reset` takes for a finished update too.
* `UpdateStaysInImages`: `[]OnlyImageSectors`, with any allocation failing and for any
  images, also those that end behind the upgrade area, if calls of the API do not
  overlap (`[]OneCall`; section 3 says what a second task can do).
  `OneTaskStaysInImages` is the case of a single task, where `OneCall` holds by itself.
  `UpdateSparesBoot` follows: nothing below the upgrade area is ever erased. That
  nothing above it is would be wrong (section 3).
* `TurnsAreServed`: `[]NoneForgotten` under `[]OneCall`. The run `fwup_lost_wakeup`
  shows a request that is forgotten when two calls overlap.

The argument for calls in turn starts with `TurnInv`: at most one
request is queued, and its task waits, so that nobody changes the session while the
scheduler works on it. `LengthInv` says that the lengths are those of an accepted image
or all 0; in the latter case the end of the request resets the system before data could
go to address 0. `SectorInv` says that the cached sector, which a flush writes whole,
is one that an accepted image reaches (without a session it is 0); `AreaInv` is their conjunction with the property. `ServedInv`
follows the message in the queue, the request in the list and the semaphore.

`SoftApProofs` proves, for any stations, table size, lease and offer times:

* `SoftApTypes`, `OneEntryPerStation` (`[]OneSlot`), with every failure, restart and
  loss;
* `LeasesCovered`, `AddressesUnique`, `LookupsRight`, under `Reliable` (the system
  task keeps up, the tick finds memory, no message to the system task is lost) and
  `PoolDistinct` (the entries have addresses of their own, none the server's). The
  lemma `PoolFits` derives the latter from `ServerHost + NumClients < HostMask`, which
  the default address 192.168.0.1/24 (`wm_param.c:674`) satisfies. Section 3 says what happens without either.

Their invariant ties what stations believe to the table: `ServerInv` (starts and
stops of the server alternate, each with its change of the AP: no pcb leaks, one tick
is armed exactly while the server runs, the pool is set while it runs), `HoldInv`
(stations use addresses only while they are authenticated and the server runs) and
`ChanInv` (what a station that uses an address still has on its way are REQUESTs, not
for another server, that ask for that address or for none); `LeaseInv` adds
`LeaseCovered` itself.

`UartTxProofs` proves `UartTypes`, `BytesInOrder` (`[]InOrder`) and
`BuffersFreedOnce` (`[]FreedOnce`) for any tasks, messages and FIFO, and for every
choice of handler, callback and flow control, without further assumptions. `ListInv`
says that the pending messages are the last ones accepted, only the first is begun,
and its offset is what has left the list; that messages to be freed are done, distinct and not
freed; and where the next byte comes from. It also proves what keeps things moving:

* `TransmissionGoesOn`: `[]NotStranded`, under `Continues` (the handler clears events
  before it acts on them, and the host interface task writes no message without bytes;
  section 3 shows the stalls that follow otherwise). `BegunInv`: a
  pending message has bytes that were not moved yet, so that a burst that leaves one
  pending leaves bytes in the FIFO too. `FlowInv`: the transmitter is stopped only by
  flow control that is on or being switched off.
* `SentAreFreed`: `[]WillBeFreed`, without assumptions.

`TransModeProofs` proves, for any handlers, times, mailbox, ring and packet size:

* `TimersImplemented`: `Spec => ImplementsTimers`, the delta list refines
  `AbstractTimers`. The sums `TimeLeft` are recursive functions; what they are after
  an entry was inserted, removed or shortened is proved by induction over a set of
  numbers, without an operator parameter (`NatInSet`, `TimeLeftUnique`);
* `OneTimerArmed`: `[]OneUartTimer`. `TimerInv` looks at the mailbox as a word of
  cancel and arm requests: read from any state of the list it never arms twice;
* `ForwardedOnce`: `[]ForwardedInOrder`. `RingInv`: as long as nothing was thrown
  away, byte `k` of the ring is byte `k` behind what was sent, and the handler writes
  only to free places;
* `TransTypes`: `[]TransTypeOK`, which needs `WakeInv` (the static message is in the
  mailbox or in `task_thread`'s hands at most once, and only while its counter is 1);
* `FiresInTime`: `Spec => NeverEarly`, if a tick is a whole number of milliseconds
  (`WholeTicks`; `FreeRTOSConfig.h` sets 500 ticks a second) and
  the history fields count far enough (`CountedFar`, about the bound `MaxAge` only).
  `ClockInv`: ticks counted, what rounding may have lost and what is left to wait
  cover the time a timer was armed for;
* `BytesAreServed`: `[]RxServed`, for rings of at least three bytes (`LargeRing`;
  `TLS_UART_RX_BUF_SIZE` is 4096). Whether a timer will be armed depends on the order
  of requests that wait: `Armable` reads job, mailbox and list as one word, of which
  only the last request about the receive timer counts, and lemmas say what a post, a
  fetch and a handler do to it. `ServeControl` says that a counter of 1 means that the
  wakeup is really there; `ServeInv` that `uart_net_send` knows of all bytes or the
  wakeup is there for those that came later, and that what it leaves behind has the
  wakeup or the timer.

Only model-checked: liveness (`CallsReturn`, `RequestsReturn`,
`AnnouncedInstalls`, `AbandonedFreed`, `EverySent`, `DirectFreed`, `AllForwarded`,
`TimersFire`), which is out of the prover's reach. For five of them the safety half is
proved: `NoneForgotten` (of `RequestsReturn`), `AnnouncedRestarts` (`AnnouncedInstalls`),
`NotStranded` (`EverySent`), `WillBeFreed` (`DirectFreed`) and `RxServed`
(`AllForwarded`) say in every state that the step that leads on is enabled or still to
come; that fair schedules take it is what TLC checks. `RxServed` is an invariant of
`uart_trans`; the other four are stated by theorems alone, and TLC agrees when
`NoneForgotten` is added to `fwup_session`, `AnnouncedRestarts` to `fwup_two_tasks` and
`NotStranded` and `WillBeFreed` to `uart_tx`.

## 5. Plan

1. `FwUp`: the block numbers of `tls_fwup_set_update_numer` with the UART sender
   that repeats a block (duplicates and lost answers).
2. The lock protocol of `wm_fls.c`, the timer bitmap, DMA channel allocation; the
   HSPI rings; the `netconn` table.

## 6. Not modelled

`PROJECT.json` lists every part. By far the largest share of the repository is
third party code (lwIP, FreeRTOS, two TLS libraries, two Bluetooth hosts, FatFs,
mDNSResponder, ...), tables, demos and assets, so that the models cover a small
part of its lines: the SDK's own stateful code. Left out for good: vendored
stacks, demos and tools; peripherals that are register sequences; formatting and parsing of AT
commands; the binary radio libraries; numeric cryptography. Left out of the
modelled parts: the growth of an older parameter struct, failures of
initialisation (semaphores, queues, tasks), the WiFi flags that a firmware
update session saves and restores, and the non-atomic update of
`current_state` by two tasks; the layout of DHCP messages and a second DHCP
server; DMA and synchronous transmission of the UART, reception of UART 0 and 2-5,
receive errors, the escape sequence `+++` (the interrupt handler changes the mode
and the rest of the ring goes to the AT parser) and what becomes of the ring after
the handler has thrown bytes away.
