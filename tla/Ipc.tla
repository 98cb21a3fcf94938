-------------------------------- MODULE Ipc --------------------------------
(***************************************************************************)
(* The start of the second core and the watch over it: ipc.c of both cores *)
(* and the block of memory they share.                                     *)
(*                                                                         *)
(* CPU0 (cm85) clears the magic word left by an earlier session, starts    *)
(* CPU1 (cm33) and waits a bounded time for the word to come back; later   *)
(* it judges CPU1 by its alive counter.  The block survives a reset.  A    *)
(* store becomes visible some time after it is issued, and stores become   *)
(* visible in any order, up to a __DMB; a load may be served early, up to  *)
(* a __DMB.  Ages are in milliseconds of CPU0.  Those that no code reads   *)
(* stop growing at MaxAge; last_alive_ms stands still when CPU1 does, and  *)
(* the 32-bit difference ipcIsRunning takes from it goes round, again and  *)
(* again.                                                                  *)
(***************************************************************************)
EXTENDS Naturals

CONSTANTS BootTimeout,    \* HW_IPC_BOOT_TIMEOUT_MS
          AliveTimeout,   \* HW_IPC_ALIVE_TIMEOUT_MS
          BeatPeriod,     \* the delay in CPU1's loop
          PollPeriod,     \* ipcIsRunning is called at least this often
          AliveMod,       \* number of values of the alive counter
          ClockMod,       \* number of values of millis(), a uint32_t
          MaxAge, MaxResets  \* bounds of the model

ASSUME TimeAssumption ==
  /\ BootTimeout \in Nat /\ AliveTimeout \in Nat /\ BeatPeriod \in Nat /\ PollPeriod \in Nat
  /\ MaxAge \in Nat /\ BootTimeout <= MaxAge /\ MaxResets \in Nat
  /\ AliveMod \in Nat /\ AliveMod > 1
  /\ ClockMod \in Nat /\ BootTimeout < ClockMod

VARIABLES
  magic, version, alive,     \* the shared block, as it is visible to both cores
  pend0,                     \* CPU0's store of 0 to magic is not visible yet
  pend1,                     \* fields CPU1 has stored that are not visible yet
  pc0, state, fetched, lastAlive, answer,
             \* CPU0: next step, ipc_state, a version loaded early, last_alive, last ipcIsRunning
  pc1,                       \* CPU1: next step
  elapsed, seenAge, beatAge, pollAge,
             \* time since pre_ms (read only in the wait, which ends before it goes round),
             \* last_alive_ms, CPU1's last beat, the last call of ipcIsRunning
  image, resets,             \* what CPU1's part of the MRAM holds; resets so far
  written, magicAt           \* history: fields CPU1 has written since the reset, and when magic

block  == <<magic, version, alive>>
cpu0   == <<pc0, state, fetched, lastAlive, answer>>
cpu1   == <<pc1, pend1>>
clocks == <<elapsed, seenAge, beatAge, pollAge>>
board  == <<image, resets>>
hist   == <<written, magicAt>>
vars   == <<block, pend0, cpu0, cpu1, clocks, board, hist>>

Early   == {"alive", "version", "info"}  \* stored before CPU1's __DMB; info: name, version, clock
Fields  == Early \cup {"magic"}
Version == {"good", "old"}               \* SHARED_VERSION of CPU0's build, any other
Image   == Version \cup {"none"}         \* an image built with that version, no image
Never   == MaxAge + 1
Age     == 0 .. MaxAge
Older(age) == IF age < MaxAge THEN age + 1 ELSE age

\* seenAge counts on past a turn of the clock; from the second turn on it repeats the second.
Laps == 0 .. 2 * ClockMod - 1
Onward(age) == IF age + 1 < 2 * ClockMod THEN age + 1 ELSE ClockMod
WentRound == seenAge >= ClockMod

TypeOK ==
  /\ magic \in BOOLEAN /\ version \in Version /\ alive \in 0 .. AliveMod - 1
  /\ pend0 \in BOOLEAN /\ pend1 \subseteq Fields
  /\ pc0 \in {"clear", "start", "poll", "look", "barrier", "version", "delay", "latch", "app", "answer"}
  /\ state \in {"DISABLED", "TIMEOUT", "BAD_VERSION", "RUNNING"}
  /\ fetched \in Image /\ lastAlive \in 0 .. AliveMod - 1 /\ answer \in BOOLEAN
  /\ pc1 \in {"held", "init", "barrier", "loop", "delay", "dead"}
  /\ elapsed \in Age /\ seenAge \in Laps /\ beatAge \in Age /\ pollAge \in Age
  /\ image \in Image /\ resets \in 0 .. MaxResets
  /\ written \subseteq Fields /\ magicAt \in Age \cup {Never}

-----------------------------------------------------------------------------
\* Both cores are out of reset and CPU1 is held.  The block is NOLOAD: it holds anything at first.
Init ==
  /\ magic \in BOOLEAN /\ version \in Version /\ alive \in 0 .. AliveMod - 1
  /\ pend0 = FALSE /\ pend1 = {}
  /\ pc0 = "clear" /\ state = "DISABLED" /\ fetched = "none" /\ lastAlive = 0 /\ answer = FALSE
  /\ pc1 = "held" /\ image \in Image
  /\ elapsed = 0 /\ seenAge = 0 /\ beatAge = 0 /\ pollAge = 0
  /\ written = {} /\ magicAt = Never /\ resets = 0

\* A reset takes both cores wherever they are, perhaps for a new image of CPU1, and the block
\* keeps what it held.
Reset ==
  /\ resets < MaxResets /\ resets' = resets + 1
  /\ pend0' = FALSE /\ pend1' = {}
  /\ pc0' = "clear" /\ state' = "DISABLED" /\ fetched' = "none" /\ lastAlive' = 0 /\ answer' = FALSE
  /\ pc1' = "held" /\ image' \in Image
  /\ elapsed' = 0 /\ seenAge' = 0 /\ beatAge' = 0 /\ pollAge' = 0
  /\ written' = {} /\ magicAt' = Never
  /\ UNCHANGED block

(***************************************************************************)
(* CPU0: ipcInit, then calls of ipcIsRunning.                              *)
(***************************************************************************)
\* Mutant of ClearMagic: the word of an earlier session is left standing.
ClearMagicForgets ==
  /\ pc0 = "clear" /\ pc0' = "start"
  /\ UNCHANGED <<block, pend0, state, fetched, lastAlive, answer, cpu1, clocks, board, hist>>

\* shared.magic = 0
ClearMagic ==
  /\ pc0 = "clear" /\ pc0' = "start"
  /\ pend0' = TRUE
  /\ UNCHANGED <<block, state, fetched, lastAlive, answer, cpu1, clocks, board, hist>>

\* The __DMB waits for the store; R_BSP_SecondaryCoreStart.  A core without an image faults.
StartPeer ==
  /\ pc0 = "start" /\ ~ pend0 /\ pc0' = "poll"
  /\ pc1 = "held" /\ pc1' = IF image = "none" THEN "dead" ELSE "init"
  /\ state' = "TIMEOUT"
  /\ elapsed' = 0
  /\ UNCHANGED <<block, pend0, fetched, lastAlive, answer, pend1, seenAge, beatAge, pollAge, board, hist>>

\* Mutants of PollTime: the loop gives up one look early; it never gives up.
PollTimeShort ==
  /\ pc0 = "poll" /\ pc0' = IF elapsed + 1 < BootTimeout THEN "look" ELSE "latch"
  /\ UNCHANGED <<block, pend0, state, fetched, lastAlive, answer, cpu1, clocks, board, hist>>

PollTimeForever ==
  /\ pc0 = "poll" /\ pc0' = "look"
  /\ UNCHANGED <<block, pend0, state, fetched, lastAlive, answer, cpu1, clocks, board, hist>>

\* while ((millis() - pre_ms) < HW_IPC_BOOT_TIMEOUT_MS)
PollTime ==
  /\ pc0 = "poll" /\ pc0' = IF elapsed < BootTimeout THEN "look" ELSE "latch"
  /\ UNCHANGED <<block, pend0, state, fetched, lastAlive, answer, cpu1, clocks, board, hist>>

\* The core loads shared.version before it has loaded shared.magic.
FetchVersion ==
  /\ pc0 = "look"
  /\ fetched' = version
  /\ UNCHANGED <<block, pend0, pc0, state, lastAlive, answer, cpu1, clocks, board, hist>>

\* if (shared.magic == SHARED_MAGIC), else delay(1)
LookForMagic ==
  /\ pc0 = "look" /\ pc0' = IF magic THEN "barrier" ELSE "delay"
  /\ UNCHANGED <<block, pend0, state, fetched, lastAlive, answer, cpu1, clocks, board, hist>>

\* __DMB: what was loaded early is loaded again.
Barrier0 ==
  /\ pc0 = "barrier" /\ pc0' = "version"
  /\ fetched' = "none"
  /\ UNCHANGED <<block, pend0, state, lastAlive, answer, cpu1, clocks, board, hist>>

\* if (shared.version == SHARED_VERSION), and the break
CheckVersion ==
  /\ pc0 = "version" /\ pc0' = "latch"
  /\ state' = IF (IF fetched = "none" THEN version ELSE fetched) = "good" THEN "RUNNING" ELSE "BAD_VERSION"
  /\ UNCHANGED <<block, pend0, fetched, lastAlive, answer, cpu1, clocks, board, hist>>

\* last_alive = shared.peer_alive; last_alive_ms = millis()
Latch ==
  /\ pc0 = "latch" /\ pc0' = "app"
  /\ lastAlive' = alive /\ seenAge' = 0 /\ pollAge' = 0
  /\ UNCHANGED <<block, pend0, state, fetched, answer, cpu1, elapsed, beatAge, board, hist>>

\* Mutants of AskAlive: the time of a change is not noted; it is noted without a change.
AskAliveForgetsTime ==
  /\ pc0 = "app"
  /\ IF state = "RUNNING" /\ magic
       THEN pc0' = "answer" /\ lastAlive' = alive /\ UNCHANGED <<answer, seenAge, pollAge>>
       ELSE answer' = FALSE /\ pollAge' = 0 /\ UNCHANGED <<pc0, lastAlive, seenAge>>
  /\ UNCHANGED <<block, pend0, state, fetched, cpu1, elapsed, beatAge, board, hist>>

AskAliveAlwaysSees ==
  /\ pc0 = "app"
  /\ IF state = "RUNNING" /\ magic
       THEN pc0' = "answer" /\ lastAlive' = alive /\ seenAge' = 0 /\ UNCHANGED <<answer, pollAge>>
       ELSE answer' = FALSE /\ pollAge' = 0 /\ UNCHANGED <<pc0, lastAlive, seenAge>>
  /\ UNCHANGED <<block, pend0, state, fetched, cpu1, elapsed, beatAge, board, hist>>

\* ipcIsRunning up to its update of last_alive: false at once, or on to the comparison of times.
AskAlive ==
  /\ pc0 = "app"
  /\ IF state = "RUNNING" /\ magic
       THEN /\ pc0' = "answer"
            /\ lastAlive' = alive
            /\ seenAge' = IF alive # lastAlive THEN 0 ELSE seenAge
            /\ UNCHANGED <<answer, pollAge>>
       ELSE answer' = FALSE /\ pollAge' = 0 /\ UNCHANGED <<pc0, lastAlive, seenAge>>
  /\ UNCHANGED <<block, pend0, state, fetched, cpu1, elapsed, beatAge, board, hist>>

\* return (millis() - last_alive_ms) < HW_IPC_ALIVE_TIMEOUT_MS, in 32 bits
Answer ==
  /\ pc0 = "answer" /\ pc0' = "app"
  /\ answer' = (seenAge % ClockMod < AliveTimeout) /\ pollAge' = 0
  /\ UNCHANGED <<block, pend0, state, fetched, lastAlive, cpu1, elapsed, seenAge, beatAge, board, hist>>

(***************************************************************************)
(* CPU1: ipcInit, then ipcUpdate in a loop; it may fault at any step.      *)
(***************************************************************************)
\* peer_alive, peer_tick, version, peer_clock, peer_name, peer_fw_ver
StoreFields ==
  /\ pc1 = "init" /\ pc1' = "barrier"
  /\ pend1' = Early
  /\ UNCHANGED <<block, pend0, cpu0, clocks, board, hist>>

\* The __DMB waits for them; then the store to magic, and the loop.
StoreMagic ==
  /\ pc1 = "barrier" /\ pend1 = {} /\ pc1' = "loop"
  /\ pend1' = {"magic"}
  /\ beatAge' = 0
  /\ UNCHANGED <<block, pend0, cpu0, elapsed, seenAge, pollAge, board, hist>>

\* ipcUpdate: shared.peer_alive++, shared.peer_tick; then delay(100)
Beat ==
  /\ pc1 = "loop" /\ pc1' = "delay"
  /\ alive' = (alive + 1) % AliveMod /\ beatAge' = 0
  /\ UNCHANGED <<magic, version, pend0, cpu0, pend1, elapsed, seenAge, pollAge, board, hist>>

Fault ==
  /\ pc1 \in {"init", "barrier", "loop", "delay"} /\ pc1' = "dead"
  /\ UNCHANGED <<block, pend0, cpu0, pend1, clocks, board, hist>>

(***************************************************************************)
(* Memory and time.                                                        *)
(***************************************************************************)
\* CPU0's store to magic becomes visible.
Drain0 ==
  /\ pend0 /\ pend0' = FALSE
  /\ magic' = FALSE
  /\ UNCHANGED <<version, alive, cpu0, cpu1, clocks, board, hist>>

\* One of CPU1's stores becomes visible.
Drain1(f) ==
  /\ f \in pend1 /\ pend1' = pend1 \ {f}
  /\ written' = written \cup {f}
  /\ magic'   = IF f = "magic" THEN TRUE ELSE magic
  /\ version' = IF f = "version" THEN image ELSE version
  /\ alive'   = IF f = "alive" THEN 0 ELSE alive
  /\ magicAt' = IF f = "magic" THEN elapsed ELSE magicAt
  /\ UNCHANGED <<pend0, cpu0, pc1, clocks, board>>

\* A tick ends CPU0's delay(1), and CPU1's delay when it is over.  Between two ticks CPU0 gets
\* through its loop or through ipcIsRunning, which run on their own or at the highest priority,
\* CPU1 gets through a beat that is due, and ipcIsRunning is called if it is time to.
Tick ==
  /\ pc0 = "delay" \/ (pc0 = "app" /\ pollAge < PollPeriod)
  /\ pc1 # "loop"
  /\ pc0' = IF pc0 = "delay" THEN "poll" ELSE pc0
  /\ pc1' = IF pc1 = "delay" /\ beatAge + 1 >= BeatPeriod THEN "loop" ELSE pc1
  /\ elapsed' = Older(elapsed) /\ seenAge' = Onward(seenAge)
  /\ beatAge' = Older(beatAge) /\ pollAge' = Older(pollAge)
  /\ UNCHANGED <<block, pend0, pend1, state, fetched, lastAlive, answer, board, hist>>

-----------------------------------------------------------------------------
Boot == ClearMagic \/ StartPeer \/ PollTime \/ LookForMagic \/ Barrier0 \/ CheckVersion \/ Latch
Watch == AskAlive \/ Answer
Cpu1 == StoreFields \/ StoreMagic \/ Beat
Drain == Drain0 \/ \E f \in Fields : Drain1(f)

Next == Boot \/ FetchVersion \/ Watch \/ Cpu1 \/ Fault \/ Drain \/ Tick \/ Reset

Spec == Init /\ [][Next]_vars

\* Both cores keep executing, stores reach memory, and time passes however often CPU0 asks.
FairSpec ==
  Spec /\ WF_vars(Boot) /\ WF_vars(Watch) /\ WF_vars(Cpu1) /\ WF_vars(Drain) /\ SF_vars(Tick)

-----------------------------------------------------------------------------
\* By the time RUNNING is reported, this session's CPU1 has written every field that ipcGetName,
\* ipcGetVersion and ipcGetClock hand out.
RunningIsGenuine == state = "RUNNING" => written = Fields

\* A version verdict is about the image that is really there.
VerdictMatchesImage ==
  /\ state = "RUNNING" => image = "good"
  /\ state = "BAD_VERSION" => image = "old"

\* What ipcInit reports is never taken from an earlier session's memory, nor from a load or a
\* store that was early or late: the verdict is about this session's CPU1 and what it has written.
VerdictIsGenuine == RunningIsGenuine /\ VerdictMatchesImage

\* TIMEOUT means that the magic word was not there in the last millisecond of the wait.
TimeoutMeansLate ==
  pc0 \in {"app", "answer"} /\ state = "TIMEOUT" => magicAt = Never \/ magicAt + 1 >= BootTimeout

\* While CPU1 beats, a caller of ipcIsRunning is never told that it has stopped.
LivePeerIsSeen == [][Answer /\ pc1 \in {"loop", "delay"} => answer']_vars

\* A caller that asks every PollPeriod is not told that a peer runs whose last beat is older than
\* AliveTimeout + PollPeriod, until the clock has gone round once since its counter was seen to
\* change: a CPU1 dead for 2^32 ms is said to run.
PolledAnswerIsFresh ==
  [][Answer /\ answer' => WentRound \/ beatAge < AliveTimeout + PollPeriod]_vars

\* ipcInit returns, whatever CPU1 does or fails to do.
BootEnds == (pc0 = "clear") ~> (pc0 = "app")

\* The death of CPU1 does not go unnoticed by a caller that keeps asking: it is told so again and
\* again, although not for ever, as every turn of the clock makes CPU1 run for AliveTimeout.
DeathIsNoticed == <>[](pc1 = "dead") => []<>(~ answer)
=============================================================================
