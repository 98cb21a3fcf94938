# A TLA+ model of the titan-mini firmware

`src/firmware/ra8p1-fw` is the firmware of a board with a Renesas RA8P1: a Cortex-M85 (CPU0) that
runs FreeRTOS with a handful of drivers and modules, and a Cortex-M33 (CPU1) that runs a bare loop
and shares a block of memory with it. About 4600 lines of the tree are the project's own; the rest
(`lib/ra_sdk`: FSP, FreeRTOS, CMSIS) is vendored. There are no tests. This directory models the
project's own concurrent and stateful code, checks it with TLC on small instances, and proves some
of the results with TLAPS for all values of the constants.

Paths below are relative to `src/firmware/ra8p1-fw/src/` unless they begin with `docs/`
(`src/firmware/docs/`).

## 1. Inventory

| Component | State | Operations | Talks to |
|---|---|---|---|
| Ring buffer, `common/core/qbuffer.c` | `in`, `out`, `len`, `size`, the slots | Write, Read, Available (Flush, Peek: no caller) | used by UART reception and the event bus, each time with a writer and a reader in different contexts |
| Event bus, `cm85/hw/driver/event.c` | the ring of events, the table of subscribers, `pub_cnt`, `drop_cnt` | eventSubFunc, eventPubFunc, eventUpdate | published to by apMain, the CLI and (by the documents) interrupts; calls the modules from the main loop |
| Dual-core start, `cm85/` and `cm33/hw/driver/ipc.c`, `cpu/shared/shared.h` | the shared block (magic, version, info, alive counter), which survives a reset; `ipc_state`, `last_alive`, `last_alive_ms` | ipcInit on both sides, ipcUpdate (CPU1), ipcIsRunning (CPU0) | two cores, no locks, stores ordered by `__DMB` |
| UART, `cm85/hw/driver/uart.c` on FSP's `r_sci_b_uart.c` | `tx_done`, the receive ring, counters; the driver's `tx_src_bytes`, `p_tx_src`; CCR0, TDR, shift register | uartWrite, uartRead, uartAvailable, the callback of the interrupts | log, CLI |
| Log, `cm85/hw/driver/log.c` | the mutex, the boot ring and the list ring (`buf_index`, `buf_length`, `line_index`) | logPrintf, `log boot`, `log list` | UART; called by every thread |
| Command line, `cm85/hw/driver/cli.c` | the line, the ring of lines entered, the escape state, argv, the table of commands | cliMain, cliUpdate, cliAdd, cliRunCmd, cliPrintf | UART; its thread runs every command |
| Status light, `cm85/ap/modules/common/indicator`, `led.c`, the idle hook of `rtos.c` | `indicator_state`, `is_link`, `is_on`, three LEDs | indicatorSetState, the event callback, the heartbeat | event bus above, idle task below |
| Modules and application, `module.c`, `ap.c`, `main.c`, `hw.c` | the section of modules | moduleInit, moduleUpdate, apMain | subscribes modules to the bus, creates the threads |
| Thread table, `osal/thread.c` | `thread_tbl`, `thread_cnt` | threadCreate, threadBegin | modules, FreeRTOS |
| Board support, `bsp.c`, `rtos.c` | the tick | millis, micros, delay, the kernel's hooks | everything |
| Utilities, `util_core.c` | none | CRC, byte order | no caller yet |

What is hard in it:

- **Preemption.** CPU0 has the CLI thread (priority 3) above the main thread (2) above the idle
  task, and interrupts above all. Only `logPrintf` takes a lock. The event bus, `uartWrite`, the
  status light and the dump of the log are shared without one.
- **Two cores and a memory that survives.** CPU0 must not believe what an earlier session left.
- **Time.** The wait for CPU1 at boot, the age of its alive counter, the timeout of `uartWrite`.
- **Boundaries.** Full rings, the end of the log ring, chunks of a dump, the end of a line.
- **Long sequences of legal calls.** The line editor, its history, the log ring after many laps.

What correctness means for each part is in the properties of section 4; the hazards they answer to
are listed, with their lines, under `hazards` in `PROJECT.json`.

## 2. Modules

| Module | Models | Kind |
|---|---|---|
| `BoundedFifo` | what a ring promises: a bounded FIFO | abstract |
| `QBuffer` | `qbuffer.c`, one load or store at a time | implements `BoundedFifo` |
| `EventBus` | `event.c` with its publishers and the main loop; the rings' steps are those of `QBuffer`, an item at a time | component |
| `Ipc` | `ipc.c` of both cores, the shared block, store buffers, resets, faults | component, both cores composed |
| `UartTx` | `uartWrite`, FSP's Write, TXI and TEI handlers, the transmitter, `logPrintf`'s mutex, `cliPrintf` | UART, log and CLI composed |
| `UartRx` | `uartOpen` at boot, the receiver, the RXI and ERI handlers with the callback, the receive ring, `cliMain` and the commands that loop until a key is pressed | UART, ring and CLI thread composed |
| `Boot` | `main`, `moduleBegin`, `threadCreate`, `threadBegin`, `apMain` and its loop, the hook for a failed allocation | modules, thread table, event bus and status light composed |
| `Log` | the list ring: `logBufPrintf` by main, `log list` by the CLI | component, two threads |
| `LineEditor` | what a line editor with a history promises | abstract |
| `Cli` | `cliUpdate`, `cliLineAdd`, `cliLineChange`, `cliParseArgs`, and the terminal | implements `LineEditor` |
| `Indicator` | `indicator.c`, `led.c`, the idle hook | component, three tasks |
| `*_proofs` | theorems about the module they extend; `Boot_proofs` extends `Boot` and `Indicator`, whose names differ (`LightInit`, `LightSpec`) | proofs |

Each component module is written so that TLC and TLAPS use the same definitions: a configuration
only gives values to its constants. Every run is a `.cfg` on the component module itself. The
definitions named "Mutant of ..." are wrong variants of an action; no behaviour of a specification
uses them, they serve to show that a property fails when the code is wrong in that way.

### How state and actions correspond to the code

Variables carry the names of the C variables they stand for; where a name has to change, the comment
at its declaration gives the C name. Variables marked "history" record what has happened; no
state of the program depends on them, but through a bound. `PROJECT.json` gives the lines of every definition.

- **QBuffer.** `WriteTest` is the comparison of `next_in` with `out`, `WriteByte` one round of the
  copy, `WritePublish` the store to `in`; `ReadPoll` the caller's `qbufferAvailable`, `ReadByte` and
  `ReadAdvance` the read. A slot is a function from byte positions to items, so a torn item is
  visible. `in` and `out` are not volatile, but the copies are stores through `uint8_t *`, which may
  alias the control block, so the compiler keeps their order; one core executes both sides, so no
  barrier is needed.
- **EventBus.** `PubTest`, `PubCopy`, `PubStore` are `qbufferWrite`; `LoadCount` and `StoreCount`
  the increment of a counter. `Runs(c)` is the priority order: a caller that was preempted goes on
  when those above it have returned. `SubFunc` and `BeginDone` are `moduleBegin`, the rest
  `eventUpdate`. The log line of the event switch is left out.
- **Ipc.** `pend0` and `pend1` are stores issued and not yet visible; they become visible in any
  order (`Drain0`, `Drain1`) and a `__DMB` waits for them. `FetchVersion` is a load of the version
  served before its turn. `Tick` is a millisecond of CPU0. `Reset` restarts both cores and keeps the
  block. The version word stands for what the program checks; name, version string and clock are one
  field, `info`. `boot_time_ms` and the getters are left out. `last_alive_ms` stands still when CPU1
  does and `millis()` goes round: `seenAge` counts past a turn of the clock (`Onward`, `WentRound`),
  and `Answer` compares it modulo `ClockMod`, as the 32-bit difference in the code does.
- **UartTx.** `Arm` sets `tx_done`; `Disable` to `Enable` are FSP's `R_SCI_B_UART_Write`, a step per
  register or variable; `StartTimer`, `TestDone`, `TestClock` the wait; `TxiIsr` and `TeiIsr` the
  handlers, `TeiIsr` with the callback. TXI is served as long as TIE is set and TDR is empty; a
  read-modify-write of CCR0 is one step, since an interrupt inside it changes only bits that the
  thread's store sets anyway; the TE and TIST bits are folded into the wait for TEND. The parameter
  checks of FSP are off in this build (`BSP_CFG_PARAM_CHECKING_ENABLE` 0), FIFO and DTC as well.
  `tx_cnt` is left out; `uartOpen` is in `UartRx`.
- **UartRx.** A handler runs to its end between two steps of a thread and is one action (`RxiIsr`,
  `EriIsr`, each with `uartCallback2`); `uartOpen` is four (`OpenCheck`, `CreateRing`, `DriverOpen`,
  `OpenDone`), the thread's `qbufferRead` two. A byte is the number of its arrival: what it says
  decides only what `cliUpdate` does, which `Update` leaves open. A byte that completes while the last
  one is still in RDR is an overrun, and none is taken until ERI has cleared it (`Arrive`). A byte
  may come with a framing or parity error (`bad`; a break is one): it raises ERI and not RXI, and
  `EriIsr` reads it, drops it and clears the flags. RXI and ERI have one priority, RXI the lower
  number: it goes first when both are pending. `rx_cnt` is unbounded.
- **Boot.** `Init` picks any section of module descriptors: any priority, in range or not, with no
  init, with one of its own result or one that ends in `threadCreate`, with or without a callback.
  `HwInit` is `hwInit` in one step, whose parts are the other modules' `Init`; `OutOfRange`, `Skip`
  and `InitModule` are one pass of the inner loop of `moduleBegin`; `CreateThread` one of
  `threadBegin`. A failing `xTaskCreate` ends in `vApplicationMallocFailedHook`, which never returns
  (`MallocHook` is the build's setting). Threads have priority over main, so one that has been created
  and has not yet slept stops main (`MainRuns`). `Pub` and one pass of `eventUpdate` are single steps
  here; `EventBus` takes them apart. A command of a thread publishes an event (`Turn`) or sets a light
  itself (`SetByHand`, `indicator state`). The boot log is a ring counted in lines: of those counted
  here `LogMax` fit, and a later one overwrites the oldest (`Logged`); `said` is what was given to
  `logPrintf`, which also goes to the terminal. Headlines and `hwInit`'s own lines are left out.
- **Log.** `Place`, `Put`, `Advance`, `Lengthen` are `logBufPrintf` up to each variable it changes;
  `DumpBegin`, `DumpMeasure`, `DumpLock`, `DumpChunk` the loop of `log list`. A byte of the ring is
  the number of the entry it belongs to, or 0. The CLI does not sleep in a dump, so main moves only
  while the CLI waits for the mutex (`MainRuns`). The boot ring has the same code and stops growing
  at `logBoot(false)`.
- **Cli.** One action per kind of byte and state of the escape sequence. The terminal is a VT100 and
  external: what an echo does to the row is modelled, its characters are not. Any byte may be
  typed: `Char` are those a terminal shows in one column, `Control` and NUL go through the same
  `default:` and get into the line, and what their echo does to the terminal is not followed (`Lose`).
  UP and DOWN print the recalled line as a format: only a line without `%` appears as it is
  (`Verbatim`, `Percent`).
- **Indicator.** `Heartbeat`, `ReadLink`, `SetMode` and one `Render` per LED are the idle hook;
  `SetState` and `SetLink` come in between any two of them. `indicator_state` is read twice and is
  not volatile: `LoadsOnce` lets the build use one load for both reads or not. `indicatorInit` is one
  step: it runs in the main thread, and the idle task cannot come in between. `Spin` and `KeyPressed`
  are `uart test` in the CLI thread, during which nothing below it runs.

## 3. Order of the work, and what is left

The modules were written in this order: `BoundedFifo` and `QBuffer` (everything that crosses a
context goes through it), `Ipc`, `EventBus`, `UartTx`, `Indicator`, `Log`, `LineEditor` and `Cli`,
`UartRx`, `Boot`. The proofs are in a module of their own for each component; those about
`Indicator` are in `Boot_proofs`, as main's events are what sets the light.

Left:

1. `qbufferFlush` and the Peek functions, `micros`, `delayUs` and the CRC of `util_core.c`, once the
   program calls them.
2. The table of commands (`cliAdd`), which is filled before the CLI thread runs, and `cliRunStr` and
   the CLI's own log, which have no caller.
3. An abstract specification of the event bus (what a publisher and a subscriber may rely on) that
   `EventBus` is shown to implement, as `QBuffer` implements `BoundedFifo`.

## 4. Runs

"pass" runs hold in every reachable state or behaviour of the instance. "violation" runs check one
statement of the code's own comments or documents that the code does not keep; section 5 says what
they show.

| Run | Properties | Instance |
|---|---|---|
| `qbuffer` | NoSlotShared, GuardedReadsAreWhole, ImplementsFifo, Drains | 3 slots of 2 bytes, 2 items |
| `event_bus` | NothingLost, SameOrderForAll, CountersExact, EventuallyDispatched | 3 slots (2 events), 2 subscribers of 3 that ask, main publishes once, CLI and interrupt twice each |
| `event_bus_isr` | NoSilentLoss (violated) | main and an interrupt |
| `ipc` | VerdictIsGenuine, TimeoutMeansLate, LivePeerIsSeen, PolledAnswerIsFresh, BootEnds, DeathIsNoticed | timeouts of 3 ms, a beat every 2 ms, asked every 3 ms, a counter of 4 values, a clock of 8, one reset, three images, any first contents of memory |
| `uart_tx` | WireIsMessages, BufferOutlivesTransfer, LogCallsExclude, CallsReturn | two threads, two calls each, up to 2 bytes, through the log or not, with and without a stalled transfer |
| `uart_tx_unlocked` | NeverOverwrites (violated) | one call each |
| `uart_rx` | BytesInOrder, EveryByteAccounted, RefusedOnlyWhenFull, KeptBytesAreRead, ReceptionResumes | a ring of 3, three `uartOpen`, 6 bytes at any moment, each whole or damaged |
| `log` | EntryFits, CompleteBeforeWrap, NewestKept, DumpEnds | a ring of 12, entries of 1 to 4, chunks of 5, 6 entries, any number of dumps |
| `cli` | ScreenShowsLine, LineIsString, ArgsFit, ImplementsEditor | lines of up to 2 bytes out of `%`, blank and NUL, a ring of 3 |
| `indicator` | RestIsTrue, LastingStateIsShown | every state and link, changing at any moment, commands that loop |
| `boot` | TypeOK, InitOrder, SubscribersReady, NothingSilent, BootDoneMeansThreads, ErrorLasts, BootShown | every section of 3 modules with priorities 0 to 3 (1 and 2 in range), 2 threads, 2 subscribers, 2 events in the queue, a boot log of 4 lines, 2 commands of the threads (an event or a light set by hand) |
| `boot_no_heap` | NoHeapIsSignalled (violated) | one module |

The type invariant of every component is a theorem (section 6). Only the run `boot` checks it too:
in `Boot` it says that no table outgrows its array, which depends on what the inits do.

**Why the bounds are enough.** A ring of 3 slots is empty, half full and full, and its indices wrap;
2 bytes are the least that can be torn. Five events fill a bus of 2 and pass it twice; three modules
for a table of 2 make one refused. In `Ipc` every timeout is longer than the period of what it waits
for by one tick and shorter by one tick than the bound of the ages, so that an answer can be just in
time and just late; one reset gives a session its predecessor, more give nothing new, for memory may
hold anything at first. A clock of 8 values is longer than every timeout and goes round; from its
second turn on the ages repeat. Two bytes are the least message of which the middle can be lost, two
calls the least with a call left over. The log ring takes three entries of the greatest length, six
entries pass its end; 5 does not divide 12, so that a chunk is cut there. In the real program the
number takes 5 characters of a reserve of 8; 1 of 3 leaves the same two to spare and more. Three
lines in a ring are the least in which back and forth differ; two characters are the least line with
a place in its middle; a control byte other than NUL is one more byte that is no character, which
the properties do not tell apart from it (it is in the theorems), and longer lines and rings are
covered by the theorems on the same properties. The receive ring of 3 is full with 2 bytes; 6 are
enough to fill it, to overrun the receiver, and to pass the end of the ring twice afterwards. Three
modules give two that share a priority and one before or behind them, and one more than the tables
hold; two commands of the threads fill the queue before EVENT_BOOT_DONE or follow it. Three modules
and two threads say up to five lines, one more than the boot log of 4 holds.

**Guards on history.** Several properties hold up to a named event: `~ overlapped` in `EventBus`
(one publication has preempted another), `~ disturbed` in `UartTx` (a `cliPrintf` has begun inside
another call, or a call has timed out), `clean` in `Log` (the dump did not begin inside a logPrintf),
`misled = "no"` in `Cli` (until the next prompt: HOME at the first column, UP or DOWN before any line
was entered; for good: a typed byte that is no character, a recalled line with `%`), `WentRound` in
`Ipc` (a turn of the clock since the counter was last seen to move), `byHand` in `Boot` (a command
has set this light since the ERROR was shown). They are not
there to make the properties hold: the runs `event_bus_isr` and `uart_tx_unlocked` show what happens
beyond the first two, section 5 says what happens beyond the others.

**Fairness.** Weak fairness of a thread's steps once it is inside a call, of interrupts that are
pending and of the transmitter: FreeRTOS runs the highest ready thread, no thread in the model waits
in a loop for one below it, and the hardware has a clock of its own. No fairness is assumed of anyone beginning
a call. `UartRx` assumes that `uartOpen` goes on, that a pending interrupt is served and that the CLI
thread, the highest, runs whenever it is awake; `Boot` that main goes on when no thread is ready.
`EventBus` uses that the threads above sleep between their turns (`delay(2)`), so those below get the
core; it and `Boot` assume that the CLI thread is not in `uart test`, which loops without a sleep until
a key is pressed (`uart.c:363`). In `Indicator` that loop is modelled (`spins`) and the idle task has
strong fairness: it need not run during the loop (`rtos.c:23` says that the blinking stops then), but
the thread sleeps (`delay(2)`) before it can take the next command. `LastingStateIsShown` therefore
has the condition that no command loops for ever. `Ipc` needs strong fairness of `Tick`: CPU0 may ask again
and again inside a millisecond, but the clock goes on. CPU1 may die (`Fault`) and then never moves,
and no fairness is assumed of faults, resets or early loads.

**Deadlock** is checked in `qbuffer`, `ipc`, `log`, `cli` and `indicator`. In the runs of `EventBus`
and `UartTx` the publishers and writers make a bounded number of calls, in `UartRx` a bounded number
of bytes arrives, and the system then rests; that nobody is stuck in the midst of something is
`EventuallyDispatched`, `CallsReturn` and `KeptBytesAreRead`. A boot may really stop, in the hook or
without a main thread; `BootShown` names those stops.

## 5. What the checks show

The ring, used as the program uses it (one writer, one reader, every read after a poll), is a FIFO.
The handshake with CPU1 is sound over resets, old memory and reordered stores: RUNNING is never said
on the word of an earlier session. `logPrintf` calls exclude each other and always return. Every
byte that arrives is read in order, or was refused by a full ring, lost to an overrun, or dropped by
the error interrupt because it came damaged, and reception goes on afterwards; opening the channel
three times at boot loses nothing. The dump of the log shows the newest lines, and all of them until
the ring wraps. The line editor does what its keys say, and a line is always a string that fits.
Between heartbeats the light shows one colour that was asked for. Modules start in their order, only
ready ones are called by events, and EVENT_BOOT_DONE is published only when every registered thread
runs: apMain looks at no result, and it is the hook of the heap that makes this true. An ERROR
published before EVENT_BOOT_DONE is dispatched is overwritten by RUN (`indicator.c:161`); one
published later stays until a command publishes EVENT_BOOT_DONE again or sets the state (`indicator
state`). A caller that keeps asking `ipcIsRunning` learns of the death of CPU1 in time; what happens
when the clock goes round is told below.

Where the code and its own words differ (`findings` in `PROJECT.json`):

- **event.c:80.** The documents let interrupts publish; a publication that preempts another takes
  the same slot, and one of two successful events is lost without being counted.
- **uart.c:249.** A `cliPrintf` that preempts the main thread in `uartWrite` replaces its transfer;
  main then reports success for bytes never sent.
- **main.c:25.** The comment lets the LED tell of a heap too small for the main thread; the hook for
  a failed allocation, which this build turns on, is called first and never returns.

Seen on the way, with no promise in the code to hold them against: HOME at the first column sends
`ESC[0D`, which moves a VT100's cursor into the prompt, and UP or DOWN before any line was entered
prints the current line a second time (`cli.c:420`, `:409`); UP and DOWN give the recalled line to
`uartPrintf` as its format, so a `%` in it prints something else (`cli.c:409`, `:415`); a byte that
is no key goes into the line and to the terminal whatever it is, and a NUL ends the command before
the line ends (`cli.c:335`); `buf_length` of a log ring may stop growing with almost a whole entry
free, so a dump of a later lap may begin inside a line (`log.c:143`). On a change to a colour that
comes earlier in its loop, `indicatorRender` lights the new LED before it puts the old one out, so
two are lit for a moment (`indicator.c:115`), longer if the idle task is preempted there;
`RestIsTrue` therefore speaks of the light between heartbeats. "Alive now" is judged by whether the
counter differs from the last call's, so a caller that has not asked for long is told that a dead
CPU1 runs (`ipc.c:123`, against `ipc.h:51`; the only caller is a CLI command). `millis() -
last_alive_ms` is 32 bits wide and `last_alive_ms` stands still when CPU1 does: every 2^32 ms after
its death CPU1 is said to run for HW_IPC_ALIVE_TIMEOUT_MS (`ipc.c:129`). A subscription that the
full table refuses is told to nobody: moduleBegin drops the result and logs OK (`event.c:60`,
`module.c:78`). After a wrap the gap at the end of the log ring is dumped with stale bytes between
newer lines, and a dump that begins inside a preempted `logPrintf` misses the newest line or part of
it (`log.c:248`). `module.c:56` says that a module with a priority out of range is never called, but
`moduleUpdate` would call its update, and that of a module whose init has failed; no module of the
tree has one. `uart test` on the only channel comes to its echo only for a byte that arrives between
`cliKeepLoop` and its own `uartAvailable` (`uart.c:367`). The comment of `thread.h` that threadBegin
starts the scheduler is older than `main.c`. `logPrintf` returns without giving the mutex back when
`is_init` is false, which only a call before `logInit` can meet.

## 6. Proofs

All proofs are checked by TLAPS 1.4.5 with Z3, Zenon and LS4, for all values of the constants that
satisfy the assumption named in the component module.

| Theorem | States | Assumptions | Argument |
|---|---|---|---|
| `QBuffer_proofs!SlotNeverShared`, `ReadsWhole`, `TypeCorrect` | NoSlotShared, GuardedReadsAreWhole, TypeOK | length >= 2, size >= 1 | The inductive invariant says which slots are full, that every full slot holds one item whole, how far the copy in the free slot and the copy out of the oldest one have come, and what a poll has promised. The properties alone are not inductive: that the reader's slot is not the writer's follows from where `in` and `out` stand when each copy began. |
| `QBuffer_proofs!Refinement` | the ring implements `BoundedFifo` | the same | The queue is the items between `out` and `in`. The store to `in` is the abstract put, the store to `out` the abstract take; every other step is a stutter, since the slots between are not touched. |
| `EventBus_proofs!NoEventLost`, `SubscribersAgree`, `TypeCorrect` | NothingLost, SameOrderForAll, TypeOK | the ring holds one event or more | `MainInv`: how far the dispatch of the event in hand has come, subscriber by subscriber. `RingInv`: while no publication has preempted another, at most one caller is between its test and its store, and the slots between `out` and `in` are what was accepted and not yet taken. |
| `EventBus_proofs!CountersAreExact` | CountersExact | the same | `CountInv`: the call that is under way is the one that has not been counted; what it has loaded is still the counter's value, because no other caller has come between, and whether its event is in the ring already depends on the step it is at. |
| `Boot_proofs!InitsInOrder` | InitOrder | priorities natural, at least one in range | `OrderInv`: the modules tried are those before the place where the two loops stand, as many as `inits` is long; the next one's rank is their number plus one. `LoopInv`: where the loops may stand, and that there is no thread as long as main is in them. |
| `Boot_proofs!SubscribersAreReady` | SubscribersReady | none on sizes | `NodeInv`: the i-th init's callback is at the place that the number of callbacks asked for so far gives it. `AskedGrows` says how that number goes on with an init. |
| `Boot_proofs!NothingIsSilent` | NothingSilent | the boot log holds a line or more | `LogInv`: while the boot log is open and has not overwritten, it is what was said. `ResultInv`: how often each module is named in what was said is what `inits` says of it and where the first round stands. `StartedInv`: of the threads, those that have run once have their line; `OrderInv` keeps a thread from being registered twice. |
| `Boot_proofs!BootDoneIsTrue` | BootDoneMeansThreads | `MallocHook`, which the build sets | The loop of threadBegin ends at the end of the table or in the hook, which does not return (`LoopInv`). Without the hook it is false; the mutant `CreateThreadGivesUp` shows it. |
| `Boot_proofs!ErrorsLast`, `BootTypeCorrect` | ErrorLasts, TypeOK | the event ring has 2 slots or more | `SentInv`: the queue is the end of what was accepted, and main publishes once. `ShownInv`: an ERROR among the events already served, with no BOOT_DONE served after it, is what each subscriber shows that no command has set since (`byHand`). |
| `Ipc_proofs!VerdictGenuine`, `TimeoutGenuine`, `TypeCorrect` | VerdictIsGenuine, TimeoutMeansLate, TypeOK | timeouts natural, the counter has 2 values or more | `HeldInv`: until CPU1 is started nothing of it is written and CPU0's clearing of magic has become visible. `OrderInv`: where magic of this session is visible, every earlier field is. `VerdictInv`: what CPU0 holds at each step after it has seen magic. `WaitInv`: magic was not there when the loop last looked. |
| `Ipc_proofs!PolledAnswersFresh` | PolledAnswerIsFresh | BootTimeout <= PollPeriod, as the first call may come as late after the peer's beat as the wait at boot lasted | `CallInv` ties each age to the step CPU0 is at, `BirthInv` ties the beat's age to the wait at boot. `FreshInv`: until the clock goes round, the last beat is never older than the last change CPU0 saw plus the time since the last call. |
| `Ipc_proofs!LivePeersSeen` | LivePeerIsSeen | `InTime`: a beat is shorter than the alive timeout, and fewer than AliveMod - 1 beats fit between two calls; the periods are below MaxAge, where the model's clocks stop | `LiveInv`: the counter is n beats past the last sample, n beats take (n - 1) periods and n < AliveMod, so a counter that has moved is seen to have moved, wrap included; where n = 0 the last change CPU0 saw is no older than the last beat. |
| `UartTx_proofs!WireCarriesMessages`, `BuffersOutlive`, `LogCallsApart`, `TypeCorrect` | WireIsMessages, BufferOutlivesTransfer, LogCallsExclude, TypeOK | none on sizes | `LockInv` and `CliInv`: who holds the mutex and who may be inside a call; this part holds whatever happens. `AloneInv`: undisturbed, one call has the driver. `SrcInv` and `FlightInv`: what has left the buffer is in the data register, the shift register or on the wire, in order, and `tx_done` says that nothing is left. |
| `UartRx_proofs!BytesAccounted`, `BytesStayInOrder`, `RefusesOnlyWhenFull`, `TypeCorrect` | EveryByteAccounted, BytesInOrder, RefusedOnlyWhenFull, TypeOK | length >= 2, one `uartOpen` or more | `OpenInv`: where uartOpen stands decides whether reception is on, and the ring is made before; a damaged byte is one in the data register. `ReadInv`: a reader inside qbufferRead has a byte due to it. `Count` and `Order`: as the properties, with the ring's arithmetic resolved into its two cases. |
| `Boot_proofs!RestTrue`, `LightTypeCorrect` | RestIsTrue, LightTypeOK | none on sizes | `Swept`: of the lamps the loop has passed only the picked colour can be lit. `Seen`: the picked colour is that of a state seen since the heartbeat began. `Steady`: if only one state was seen, both reads saw it. |
| `Log_proofs!EntriesFit`, `StaysFull` | EntryFits, RingStaysFull | the number is shorter than the reserve, two entries fit the ring | `Reserved`: from the test of the free space to the advance the space tested for is there. `FirstLap`: before the first wrap the length is the index, so at the wrap it is less than an entry short of the ring; it never shrinks. |
| `Log_proofs!DumpsAreComplete`, `DumpsKeepNewest`, `TypeCorrect` | CompleteBeforeWrap, NewestKept, TypeOK | the same | `Numbered` and `LapInRing`: the ring up to its index holds the newest lap. `Locks`: a dump only goes on where main is outside of the lock. `DumpBounds` and `DumpInv`: what the dump has shown so far is, byte for byte, the part of the ring it has passed, which the writer has not passed since. |
| `Cli_proofs!LineAlwaysString` | LineIsString | the line has 3 bytes or more, no character or control byte is NUL | Line and every line of the ring are `String(b, n)`: n bytes, any of them NUL, then a NUL, inside the buffer. `CStringOf`: as a C string such a line is its text up to the first NUL. One lemma per way a line is changed: insert, shift left, store, recall. |
| `Cli_proofs!ScreenIsLine`, `ArgvSuffices`, `TypeCorrect` | ScreenShowsLine, ArgsFit, TypeOK | argv has half as many places as the line has bytes | One lemma per echo says that it does to the row what the key does to the line, place by place; bytes the terminal does not show and a line that is not `Verbatim` end it (`Lose`). Of arguments: (k + 1) \div 2 maps the places where an argument begins one to one into half the line. |
| `Cli_proofs!EditorImplemented` | the editor implements `LineEditor` | the same | `RingInv` resolves the ring's remainders: until it wraps the lines are the first hist_count, afterwards the oldest is at hist_last. Entering appends to the past, or drops its head; UP and DOWN are a step in a circle of places. |

Only model-checked: everything that needs fairness (`Drains`, `EventuallyDispatched`, `BootEnds`,
`DeathIsNoticed`, `CallsReturn`, `KeptBytesAreRead`, `ReceptionResumes`, `DumpEnds`,
`LastingStateIsShown`, `BootShown`), since TLAPS proves neither liveness nor ENABLED. Every safety
property of a passing run is proved. Facts about what a recursive definition computes for every
input are out of the prover's reach; the modules declare none.

## 7. Not modelled

FreeRTOS, FSP and CMSIS are vendored, and most of the lines of the tree are theirs: priorities, the
mutex, the delay and the UART driver are modelled as far as this program uses them. `micros`,
`delayUs`, the CRC, `qbufferFlush` and the Peek functions have no caller. Number parsing,
upper-casing and the commands that only print keep no state. The hooks for a stack overflow and for
a failed assertion stop the system wherever it is. What `uartPrintf` prints for a directive without
an argument is undefined; it is taken to return, and its output is not followed. The bytes of the
boot log's ring are the code that `Log` models. `uartClose`, and `uartOpen` at another rate, have no
caller. Linker scripts, build files and documents were read for what they promise;
`docs/22-freertos.md` is quoted in the findings.
