-------------------------------- MODULE Boot --------------------------------
(***************************************************************************)
(* The start of cm85: main.c creates the main thread, which runs hwInit,   *)
(* apInit (module.c: every module's init in the order of the priorities)   *)
(* and apMain (thread.c: the registered threads are created, ap.c: the     *)
(* boot log is closed, EVENT_BOOT_DONE published, the loop entered).       *)
(*                                                                         *)
(* The modules are what the linker has put in the section .module: Init    *)
(* picks any section.  An init that succeeds may have registered a thread; *)
(* threads have a priority above the main thread's, so one that is created *)
(* runs at once and whenever it is not asleep, at any point of the boot    *)
(* that is left and of the loop, and may publish events ("event pub") or   *)
(* set a light by hand ("indicator state").                                *)
(* A module's event callback is indicatorEvent, the only one there is.     *)
(*                                                                         *)
(* xTaskCreate fails for want of heap only, and then pvPortMalloc calls    *)
(* vApplicationMallocFailedHook of rtos.c, where this build sets           *)
(* configUSE_MALLOC_FAILED_HOOK.  The hook logs and does not return; before *)
(* logInit its logPrintf takes a mutex that is NULL, the kernel's assertion *)
(* of that calls logPrintf again, and nothing comes of either.             *)
(*                                                                         *)
(* eventPubFunc is one step here, and so is the dispatch of one event: what *)
(* happens inside them when they are preempted is the matter of EventBus.  *)
(* The boot log is counted in lines; its bytes are the matter of Log.      *)
(***************************************************************************)
EXTENDS Naturals, FiniteSets, SequencesExt

CONSTANTS Count,         \* modules in the section
          High, PriMax,  \* MODULE_PRI_HIGH, MODULE_PRI_MAX
          ThreadMax,     \* THREAD_MAX_CNT
          NodeMax,       \* EVENT_NODE_MAX
          QMax,          \* EVENT_Q_MAX
          LogMax,        \* HW_LOG_BOOT_BUF_MAX, in lines
          MallocHook,    \* configUSE_MALLOC_FAILED_HOOK
          MaxPub         \* bound: events the threads publish, and lights they have set by hand

ASSUME BootAssumption ==
  /\ Count \in Nat /\ High \in Nat \ {0} /\ PriMax \in Nat /\ High < PriMax
  /\ ThreadMax \in Nat /\ NodeMax \in Nat /\ QMax \in Nat /\ QMax >= 2 /\ MaxPub \in Nat
  /\ LogMax \in Nat \ {0} /\ MallocHook \in BOOLEAN

VARIABLES section,             \* the modules' descriptors, in the order of the section
          pc, pri, idx,        \* main: next step; the loop variables of moduleBegin and threadBegin
          ret,                 \* moduleBegin's result
          table, threads, fresh, \* thread_tbl; the threads created, and those yet to run first
          nodes,               \* event_node
          queue, round,        \* event_q; whether apMain's loop is in its delay
          isBootLog, bootLog,  \* is_boot_log; the lines the boot log's ring holds
          light,               \* each module's indicator_state, once its init has succeeded
          blinking,            \* main() signals on LED 1 that there is no main thread
          inits, sent,         \* history: calls of init with their results, events accepted,
          said, byHand         \* lines given to logPrintf, modules whose light a command has set
                               \* since an ERROR was shown

moduleVars == <<section, pri, ret, table, nodes, inits>>
threadVars == <<threads, fresh>>
eventVars  == <<queue, light, byHand, sent>>
logVars    == <<isBootLog, bootLog, said>>
vars == <<pc, idx, moduleVars, threadVars, eventVars, logVars, round, blinking>>

Module   == 1 .. Count
Codes    == {"BOOT_DONE", "ERROR", "ETH_LINK"}
Kinds    == {"none", "plain", "thread"}  \* init is NULL, has its own result, is threadCreate's
Descriptor == {d \in [priority : 0 .. PriMax, init : Kinds, event : BOOLEAN] : d.init = "none" => ~ d.event}
Stopped  == {"noMain", "noMutex", "hung"}  \* without a main thread, without the log's mutex, in the hook
Booted   == {"publish", "loop"}            \* after logBoot(false)
Entry    == {"range", "ok", "fail", "malloc", "nothread", "started"} \X (0 .. Count)  \* a line of the log

InRange(m) == section[m].priority \in High .. PriMax - 1
Eligible == {m \in Module : InRange(m) /\ section[m].init # "none"}

\* logPrintf, to the terminal and, while it is open, to the boot log, where a line that no longer
\* fits overwrites the oldest
Logged(line) ==
  /\ said' = Append(said, line)
  /\ bootLog' = IF ~ isBootLog THEN bootLog
                ELSE IF Len(bootLog) < LogMax THEN Append(bootLog, line) ELSE Append(Tail(bootLog), line)

TypeOK ==
  /\ section \in [Module -> Descriptor]
  /\ pc \in {"reset", "hw", "module", "thread", "logBoot"} \cup Stopped \cup Booted
  /\ pri \in 0 .. PriMax /\ idx \in 1 .. Count + ThreadMax + 1 /\ ret \in BOOLEAN
  /\ table \in Seq(Module) /\ Len(table) <= ThreadMax
  /\ fresh \subseteq threads /\ threads \subseteq Range(table)
  /\ nodes \in Seq(Module) /\ Len(nodes) <= NodeMax
  /\ queue \in Seq(Codes \X (0 .. Count)) /\ Len(queue) < QMax /\ round \in BOOLEAN
  /\ isBootLog \in BOOLEAN /\ said \in Seq(Entry) /\ bootLog \in Seq(Entry) /\ Len(bootLog) <= LogMax
  /\ light \in [Module -> {"none", "BOOT", "RUN", "BUSY", "ERROR"}] /\ byHand \subseteq Module
  /\ blinking \in BOOLEAN
  /\ inits \in Seq(Module \X BOOLEAN) /\ sent \in Seq(Codes \X (0 .. Count))

-----------------------------------------------------------------------------
Init ==
  /\ section \in [Module -> Descriptor]
  /\ pc = "reset" /\ pri = 0 /\ idx = 1 /\ ret = TRUE
  /\ table = <<>> /\ threads = {} /\ fresh = {} /\ nodes = <<>> /\ queue = <<>> /\ round = FALSE
  /\ isBootLog = TRUE /\ bootLog = <<>> /\ light = [m \in Module |-> "none"] /\ blinking = FALSE
  /\ inits = <<>> /\ sent = <<>> /\ said = <<>> /\ byHand = {}

\* main: xTaskCreate of the main thread, and the scheduler; or the LED, if xTaskCreate comes back.
Reset ==
  /\ pc = "reset"
  /\ \/ pc' = "hw" /\ UNCHANGED blinking
     \/ pc' = "noMain" /\ blinking' = (~ MallocHook)
  /\ UNCHANGED <<idx, moduleVars, threadVars, eventVars, logVars, round>>

\* mainThread: hwInit (logInit, threadInit, eventInit, then the drivers), moduleInit up to its loop.
HwInit ==
  /\ pc = "hw" /\ pc' = "module"
  /\ table' = <<>> /\ nodes' = <<>> /\ queue' = <<>>
  /\ pri' = High /\ idx' = 1 /\ ret' = TRUE
  /\ UNCHANGED <<section, threadVars, light, byHand, inits, sent, logVars, round, blinking>>

\* logInit's xSemaphoreCreateMutex; without the hook the first logPrintf meets the NULL.
NoMutex ==
  /\ pc = "hw" /\ pc' = "noMutex"
  /\ UNCHANGED <<idx, moduleVars, threadVars, eventVars, logVars, round, blinking>>

(***************************************************************************)
(* moduleBegin: for every priority, for every module of the section.       *)
(***************************************************************************)
\* Mutant of NextModule: the two loops are swapped.
NextModuleSwapped ==
  CASE pri < PriMax - 1 -> pri' = pri + 1 /\ UNCHANGED idx
    [] idx < Count      -> pri' = High /\ idx' = idx + 1
    [] OTHER            -> pri' = PriMax /\ idx' = 1

NextModule ==
  IF idx < Count THEN idx' = idx + 1 /\ UNCHANGED pri ELSE idx' = 1 /\ pri' = pri + 1

AtModule == pc = "module" /\ pri < PriMax /\ idx <= Count

\* A priority out of range is reported in the first round.
OutOfRange ==
  /\ AtModule /\ ~ InRange(idx) /\ NextModule
  /\ ret' = (ret /\ pri # High)
  /\ IF pri = High THEN Logged(<<"range", idx>>) ELSE UNCHANGED <<said, bootLog>>
  /\ UNCHANGED <<pc, section, table, nodes, inits, threadVars, eventVars, isBootLog, round, blinking>>

\* Another round's module, or one that has no init.
Skip ==
  /\ AtModule /\ InRange(idx) /\ ~ (section[idx].priority = pri /\ section[idx].init # "none") /\ NextModule
  /\ UNCHANGED <<pc, section, ret, table, nodes, inits, threadVars, eventVars, logVars, round, blinking>>

\* Mutant of Registers: the table is not checked.
RegistersUnbounded == section[idx].init = "thread"
\* threadCreate, where it is a step of p_mod->init(): refused when the table is full.
Registers == section[idx].init = "thread" /\ Len(table) < ThreadMax
Results == IF section[idx].init = "thread" THEN {Registers} ELSE BOOLEAN

\* Mutant of Subscribes: the result of init is not looked at.
SubscribesAll(ok) == section[idx].event /\ Len(nodes) < NodeMax
\* Only a module that is ready is subscribed, and eventSubFunc refuses it when the table is full.
Subscribes(ok) == ok /\ section[idx].event /\ Len(nodes) < NodeMax

\* init and what moduleBegin makes of its result
InitModule ==
  /\ AtModule /\ InRange(idx) /\ section[idx].priority = pri /\ section[idx].init # "none" /\ NextModule
  /\ \E ok \in Results :
       /\ ret' = (ret /\ ok) /\ inits' = Append(inits, <<idx, ok>>)
       /\ light' = IF ok THEN [light EXCEPT ![idx] = "BOOT"] ELSE light
       /\ nodes' = IF Subscribes(ok) THEN Append(nodes, idx) ELSE nodes
       /\ Logged(<<IF ok THEN "ok" ELSE "fail", idx>>)
  /\ table' = IF Registers THEN Append(table, idx) ELSE table
  /\ UNCHANGED <<pc, section, threadVars, queue, byHand, sent, isBootLog, round, blinking>>

\* apInit takes no notice of the result; apMain calls threadBegin.
ModulesDone ==
  /\ pc = "module" /\ (pri = PriMax \/ Count = 0) /\ pc' = "thread" /\ idx' = 1
  /\ UNCHANGED <<moduleVars, threadVars, eventVars, logVars, round, blinking>>

(***************************************************************************)
(* threadBegin, and apMain.                                                *)
(***************************************************************************)
\* Main runs when no thread of higher priority is ready.
MainRuns == fresh = {}

\* Mutants of CreateThread: a failure goes on to the next thread; threadBegin gives up and the
\* boot goes on, as it would if the hook returned.
CreateThreadSilent ==
  /\ pc = "thread" /\ MainRuns /\ idx <= Len(table)
  /\ \/ threads' = threads \cup {table[idx]} /\ fresh' = {table[idx]}
     \/ UNCHANGED threadVars
  /\ idx' = idx + 1
  /\ UNCHANGED <<pc, moduleVars, eventVars, logVars, round, blinking>>

CreateThreadGivesUp ==
  /\ pc = "thread" /\ MainRuns /\ idx <= Len(table)
  /\ \/ /\ threads' = threads \cup {table[idx]} /\ fresh' = {table[idx]}
        /\ idx' = idx + 1 /\ UNCHANGED <<pc, said, bootLog>>
     \/ /\ pc' = "logBoot" /\ Logged(<<"nothread", table[idx]>>)
        /\ UNCHANGED <<idx, threadVars>>
  /\ UNCHANGED <<moduleVars, eventVars, isBootLog, round, blinking>>

\* xTaskCreate, which succeeds or ends in the hook; threadBegin's own answer to a failure is to
\* log it and leave the threads behind it uncreated.
CreateThread ==
  /\ pc = "thread" /\ MainRuns /\ idx <= Len(table)
  /\ \/ /\ threads' = threads \cup {table[idx]} /\ fresh' = {table[idx]}
        /\ idx' = idx + 1 /\ UNCHANGED <<pc, said, bootLog>>
     \/ /\ pc' = IF MallocHook THEN "hung" ELSE "logBoot"
        /\ Logged(IF MallocHook THEN <<"malloc", 0>> ELSE <<"nothread", table[idx]>>)
        /\ UNCHANGED <<idx, threadVars>>
  /\ UNCHANGED <<moduleVars, eventVars, isBootLog, round, blinking>>

ThreadsDone ==
  /\ pc = "thread" /\ MainRuns /\ idx > Len(table)
  /\ pc' = "logBoot"
  /\ UNCHANGED <<idx, moduleVars, threadVars, eventVars, logVars, round, blinking>>

\* logBoot(false)
LogBoot ==
  /\ pc = "logBoot" /\ MainRuns
  /\ pc' = "publish" /\ isBootLog' = FALSE
  /\ UNCHANGED <<idx, moduleVars, threadVars, eventVars, bootLog, said, round, blinking>>

\* eventPubFunc: refused when the ring is full.
Pub(e) ==
  IF Len(queue) < QMax - 1 THEN queue' = Append(queue, e) /\ sent' = Append(sent, e)
                           ELSE UNCHANGED <<queue, sent>>

\* eventPub(EVENT_BOOT_DONE, 0), the result ignored
PubBootDone ==
  /\ pc = "publish" /\ MainRuns
  /\ pc' = "loop" /\ Pub(<<"BOOT_DONE", 0>>)
  /\ UNCHANGED <<idx, moduleVars, threadVars, light, byHand, logVars, round, blinking>>

\* indicatorEvent
After(state, code) == CASE code = "ERROR" -> "ERROR" [] code = "BOOT_DONE" -> "RUN" [] OTHER -> state

\* Mutant of EventUpdate: the last subscriber is left out.
EventUpdateShort ==
  /\ pc = "loop" /\ MainRuns /\ ~ round /\ queue # <<>>
  /\ queue' = Tail(queue)
  /\ light' = [m \in Module |->
                IF m \in Range(Front(nodes)) THEN After(light[m], Head(queue)[1]) ELSE light[m]]
  /\ UNCHANGED <<pc, idx, moduleVars, threadVars, byHand, sent, logVars, round, blinking>>

\* eventUpdate: the oldest event, to every subscriber, until there is none.
EventUpdate ==
  /\ pc = "loop" /\ MainRuns /\ ~ round /\ queue # <<>>
  /\ queue' = Tail(queue)
  /\ light' = [m \in Module |-> IF m \in Range(nodes) THEN After(light[m], Head(queue)[1]) ELSE light[m]]
  /\ byHand' = IF Head(queue)[1] = "ERROR" THEN byHand \ Range(nodes) ELSE byHand
  /\ UNCHANGED <<pc, idx, moduleVars, threadVars, sent, logVars, round, blinking>>

\* moduleUpdate, which finds no module that has an update, and delay(10)
ModuleUpdate ==
  /\ pc = "loop" /\ MainRuns /\ ~ round /\ queue = <<>>
  /\ round' = TRUE
  /\ UNCHANGED <<pc, idx, moduleVars, threadVars, eventVars, logVars, blinking>>

\* Mutant of Delay: apMain publishes EVENT_BOOT_DONE in every round.
DelayThenPublish ==
  /\ pc = "loop" /\ MainRuns /\ round
  /\ round' = FALSE /\ pc' = "publish"
  /\ UNCHANGED <<idx, moduleVars, threadVars, eventVars, logVars, blinking>>

Delay ==
  /\ pc = "loop" /\ MainRuns /\ round
  /\ round' = FALSE
  /\ UNCHANGED <<pc, idx, moduleVars, threadVars, eventVars, logVars, blinking>>

(***************************************************************************)
(* A thread, as cliThread does it.                                         *)
(***************************************************************************)
\* Its first line.
Start(t) ==
  /\ t \in fresh /\ fresh' = fresh \ {t}
  /\ Logged(<<"started", t>>)
  /\ UNCHANGED <<pc, idx, moduleVars, threads, eventVars, isBootLog, round, blinking>>

\* A turn in which it has a command to run.
HasCommand(t) ==
  /\ t \in threads \ fresh /\ MainRuns
  /\ Cardinality({i \in DOMAIN sent : sent[i][2] # 0}) + Cardinality(byHand) < MaxPub

\* "event pub"
Turn(t) ==
  /\ HasCommand(t)
  /\ \E code \in Codes : Pub(<<code, t>>)
  /\ UNCHANGED <<pc, idx, moduleVars, threadVars, light, byHand, logVars, round, blinking>>

\* "indicator state", which the init of a module with that callback has added
SetByHand(t) ==
  /\ HasCommand(t)
  /\ \E m \in Module, s \in {"BOOT", "RUN", "BUSY", "ERROR"} :
       /\ section[m].event /\ light[m] # "none"
       /\ light' = [light EXCEPT ![m] = s] /\ byHand' = byHand \cup {m}
  /\ UNCHANGED <<pc, idx, moduleVars, threadVars, queue, sent, logVars, round, blinking>>

Begin == Reset \/ HwInit \/ NoMutex \/ OutOfRange \/ Skip \/ InitModule \/ ModulesDone
Main  == CreateThread \/ ThreadsDone \/ LogBoot \/ PubBootDone \/ EventUpdate \/ ModuleUpdate \/ Delay
Thread(t) == Start(t) \/ Turn(t) \/ SetByHand(t)

Next == Begin \/ Main \/ \E t \in Module : Thread(t)

Spec == Init /\ [][Next]_vars

\* The threads sleep between their turns (delay(2)), so the main thread gets the core.
FairSpec == Spec /\ WF_vars(Begin) /\ WF_vars(Main) /\ \A t \in Module : WF_vars(Start(t))

-----------------------------------------------------------------------------
\* module.c: every module whose priority is in range has its init called exactly once, in the
\* order of the priorities and, among equals, of the section, and no thread runs before the last:
\* threadCreate only registers.
Rank(m) ==
  Cardinality({k \in Eligible : \/ section[k].priority < section[m].priority
                                \/ section[k].priority = section[m].priority /\ k <= m})
InitOrder ==
  /\ \A i \in DOMAIN inits : inits[i][1] \in Eligible /\ Rank(inits[i][1]) = i
  /\ pc \in {"thread", "logBoot", "hung"} \cup Booted \/ threads # {} => Len(inits) = Cardinality(Eligible)

\* The subscribers are the modules that are ready and have a callback, as many as the table
\* holds and in the order of their inits; no other module's state is ever touched by an event.
Asks(i) == inits[i][2] /\ section[inits[i][1]].event
Asked(i) == Cardinality({k \in 1 .. i : Asks(k)})  \* calls of eventSubFunc up to the i-th init
SubscribersReady ==
  /\ Len(nodes) = IF Asked(Len(inits)) < NodeMax THEN Asked(Len(inits)) ELSE NodeMax
  /\ \A i \in DOMAIN inits : Asks(i) /\ Asked(i) <= NodeMax => nodes[Asked(i)] = inits[i][1]
  /\ \A m \in Module : light[m] # "none" => <<m, TRUE>> \in Range(inits)

\* An init that fails, a priority out of range, a thread the table refused and a heap that is too
\* small are told, each module's result and each thread's first line once, and the boot log holds
\* all that was told as long as it fits.  A subscription that eventSubFunc refuses is not told.
Line(kind, m) == Cardinality({i \in DOMAIN said : said[i] = <<kind, m>>})
NothingSilent ==
  pc \in {"hung"} \cup Booted =>
    /\ Len(said) <= LogMax => bootLog = said
    /\ \A m \in Module :
         /\ Line("range", m) = (IF InRange(m) THEN 0 ELSE 1)
         /\ Line("ok", m) + Line("fail", m) = (IF m \in Eligible THEN 1 ELSE 0)
         /\ Line("ok", m) = 1 <=> <<m, TRUE>> \in Range(inits)
    /\ ret <=> \A m \in Module : Line("range", m) + Line("fail", m) = 0
    /\ \A t \in threads : Line("started", t) = 1
    /\ threads = Range(table) \/ Line("malloc", 0) = 1 \/ \E t \in Module : Line("nothread", t) = 1

\* EVENT_BOOT_DONE means that every thread that was registered runs.  apMain publishes it whatever
\* threadBegin returns; it is right because the hook does not return.
BootDoneMeansThreads == <<"BOOT_DONE", 0>> \in Range(sent) => threads = Range(table)

\* An ERROR published after main's EVENT_BOOT_DONE is shown by every subscriber once the queue has
\* been emptied, and goes only by a command: "event pub" of EVENT_BOOT_DONE, or "indicator state"
\* after the ERROR was shown.
ErrorAfterBoot ==
  \E i, j \in DOMAIN sent :
    /\ i < j /\ sent[i] = <<"BOOT_DONE", 0>> /\ sent[j][1] = "ERROR"
    /\ \A k \in DOMAIN sent : k > j /\ sent[k][1] = "BOOT_DONE" => sent[k][2] = 0
ErrorLasts == ErrorAfterBoot /\ queue = <<>> => \A m \in Range(nodes) : m \in byHand \/ light[m] = "ERROR"

\* Every boot ends, on the loop with every subscriber told, or in one of the stops.  The one
\* exception: threads have filled the queue before main comes to publish.
Crowded == Len(sent) >= QMax - 1 /\ \A i \in 1 .. QMax - 1 : sent[i][2] # 0
BootShown ==
  <>(pc \in Stopped \/ (pc = "loop" /\ (Crowded \/ \A m \in Range(nodes) : light[m] # "BOOT")))

\* main.c: when the main thread cannot be created the heap was too small; there is no log yet, so
\* the LED tells.
NoHeapIsSignalled == pc = "noMain" => blinking
=============================================================================
