---------------------------- MODULE Boot_proofs ----------------------------
(***************************************************************************)
(* The start of cm85 for every section of modules, every range of          *)
(* priorities and every size of the tables and of the event ring; and, at  *)
(* the end, the status light that the one event callback sets.             *)
(***************************************************************************)
EXTENDS Boot, Indicator, FiniteSetTheorems, SequenceTheorems, TLAPS

Early == {"reset", "hw", "noMain", "noMutex"}
Late  == {"thread", "logBoot", "hung"} \cup Booted

\* The modules whose init moduleBegin has called when it stands at module k of the round for
\* priority p, and those whose priority it has reported.
Before(p, k) == {m \in Eligible : section[m].priority < p \/ (section[m].priority = p /\ m < k)}
Tried ==
  IF pc \in Early THEN {} ELSE IF pc = "module" THEN Before(pri, idx) ELSE Eligible
Reported ==
  IF pc \in Early THEN {}
  ELSE {m \in Module : ~ InRange(m) /\ (pc = "module" => pri > High \/ m < idx)}

Times(s, x) == Cardinality({i \in DOMAIN s : s[i] = x})
Ready  == {m \in Module : <<m, TRUE>> \in Range(inits)}
Failed == {m \in Module : <<m, FALSE>> \in Range(inits)}

\* Before the first module is looked at.
EarlyInv ==
  pc \in Early =>
    /\ inits = <<>> /\ table = <<>> /\ nodes = <<>> /\ queue = <<>> /\ sent = <<>> /\ said = <<>>
    /\ threads = {} /\ ret /\ light = [m \in Module |-> "none"]

\* Where the loops of moduleBegin and threadBegin are.
LoopInv ==
  /\ pc = "module" => pri >= High /\ (idx <= Count \/ idx = 1) /\ (pri = PriMax => idx = 1)
                      /\ threads = {} /\ sent = <<>> /\ queue = <<>>
  /\ pc = "thread" => idx <= Len(table) + 1 /\ threads = {table[i] : i \in 1 .. idx - 1}
  /\ isBootLog <=> pc \notin Booted
  /\ pc \in Booted => fresh = {}
  /\ pc = "hung" => MallocHook /\ fresh = {}
  /\ MallocHook /\ pc \in {"logBoot"} \cup Booted => threads = Range(table)

\* Rank and Asked, of the sections and the calls they are about.
RankIn(f, E, m) ==
  Cardinality({k \in E : f[k].priority < f[m].priority \/ (f[k].priority = f[m].priority /\ k <= m)})
AsksIn(f, c) == c[2] /\ f[c[1]].event
AskedIn(f, s, i) == Cardinality({k \in 1 .. i : AsksIn(f, s[k])})

\* Every module tried is in inits once, at the place of its rank.
OrderInv ==
  /\ Len(inits) = Cardinality(Tried)
  /\ \A i \in DOMAIN inits : inits[i][1] \in Tried /\ RankIn(section, Eligible, inits[i][1]) = i
  /\ \A i \in DOMAIN table : table[i] \in Tried
  /\ \A i, j \in DOMAIN table : table[i] = table[j] => i = j

\* A subscriber is ready.
NodeInv ==
  /\ Len(nodes) = LET n == AskedIn(section, inits, Len(inits)) IN IF n < NodeMax THEN n ELSE NodeMax
  /\ \A i \in DOMAIN inits :
       AsksIn(section, inits[i]) /\ AskedIn(section, inits, i) <= NodeMax
         => nodes[AskedIn(section, inits, i)] = inits[i][1]
  /\ \A m \in Module : light[m] # "none" => <<m, TRUE>> \in Range(inits)
  /\ \A m \in Range(nodes) : <<m, TRUE>> \in Range(inits)

\* What is told of the modules ...
LinesInv == \A m \in Module :
  /\ Line("range", m) = IF m \in Reported THEN 1 ELSE 0
  /\ Line("ok", m) = IF m \in Ready THEN 1 ELSE 0
  /\ Line("fail", m) = IF m \in Failed THEN 1 ELSE 0
TriedInv == \A m \in Module :
  /\ m \in Tried <=> m \in Ready \cup Failed
  /\ m \notin Ready \cap Failed
RetInv == ret <=> Reported = {} /\ Failed = {}
ResultInv == LinesInv /\ TriedInv /\ RetInv

\* ... and of the threads.
StartedInv ==
  /\ \A m \in Module :
       /\ Line("started", m) = IF m \in threads \ fresh THEN 1 ELSE 0
       /\ pc \in Early \cup {"module", "thread", "hung"} => Line("nothread", m) = 0
  /\ Line("malloc", 0) = IF pc = "hung" THEN 1 ELSE 0
  /\ pc \in {"logBoot"} \cup Booted =>
       threads = Range(table) \/ \E t \in Module : Line("nothread", t) = 1

\* The boot log holds what was told as long as it fits.
LogInv == Len(bootLog) <= Len(said) /\ (Len(said) <= LogMax => bootLog = said)

\* The queue is the end of what was published; main publishes once.
Served == Len(sent) - Len(queue)
SentInv ==
  /\ Len(queue) <= Len(sent) /\ \A k \in DOMAIN queue : queue[k] = sent[Served + k]
  /\ \A i, j \in DOMAIN sent : sent[i] = <<"BOOT_DONE", 0>> /\ sent[j] = <<"BOOT_DONE", 0>> => i = j
  /\ <<"BOOT_DONE", 0>> \in Range(sent) => pc = "loop"

\* An ERROR that was dispatched is shown until a BOOT_DONE is dispatched or a command sets the light.
ShownInv ==
  \A m \in Range(nodes), j \in 1 .. Served :
    sent[j][1] = "ERROR" /\ (\A k \in j + 1 .. Served : sent[k][1] # "BOOT_DONE") 
      => m \in byHand \/ light[m] = "ERROR"

IInv == TypeOK /\ EarlyInv /\ LoopInv /\ OrderInv /\ NodeInv /\ ResultInv /\ StartedInv /\ LogInv
        /\ SentInv /\ ShownInv

-----------------------------------------------------------------------------
\* The constants are numbers.
LEMMA Numbers ==
  /\ Count \in Nat /\ High \in Nat /\ High > 0 /\ PriMax \in Nat /\ High < PriMax
  /\ ThreadMax \in Nat /\ NodeMax \in Nat /\ QMax \in Nat /\ QMax >= 2 /\ MaxPub \in Nat
  /\ LogMax \in Nat /\ LogMax > 0
BY BootAssumption

\* How often an element occurs in a sequence that grows, and what occurs.
LEMMA TimesAppend ==
  ASSUME NEW S, NEW s \in Seq(S), NEW e \in S, NEW x
  PROVE  /\ Times(s, x) \in Nat
         /\ Times(Append(s, e), x) = IF e = x THEN Times(s, x) + 1 ELSE Times(s, x)
<1> DEFINE at == {i \in DOMAIN s : s[i] = x}
<1>1. Len(s) \in Nat /\ DOMAIN s = 1 .. Len(s)
    OBVIOUS
<1>2. IsFiniteSet(at)
    <2>1. IsFiniteSet(1 .. Len(s))
        BY <1>1, FS_Interval
    <2>2. at \in SUBSET (1 .. Len(s))
        BY <1>1
    <2>3. QED
        BY <2>1, <2>2, FS_Subset
<1>3. /\ DOMAIN Append(s, e) = 1 .. Len(s) + 1 /\ Append(s, e)[Len(s) + 1] = e
      /\ \A i \in 1 .. Len(s) : Append(s, e)[i] = s[i]
    BY <1>1, AppendProperties
<1>4. {i \in DOMAIN Append(s, e) : Append(s, e)[i] = x} = IF e = x THEN at \cup {Len(s) + 1} ELSE at
    BY <1>1, <1>3
<1>5. Len(s) + 1 \notin at
    BY <1>1
<1>6. Cardinality(at) \in Nat
    BY <1>2, FS_CardinalityType
<1>7. Cardinality(at \cup {Len(s) + 1}) = Cardinality(at) + 1
    BY <1>2, <1>5, FS_AddElement
<1>8. QED
    BY <1>4, <1>6, <1>7 DEF Times

LEMMA TimesEmpty == \A x : Times(<<>>, x) = 0
<1> SUFFICES ASSUME NEW x PROVE Times(<<>>, x) = 0
    OBVIOUS
<1>1. {i \in DOMAIN <<>> : <<>>[i] = x} = {}
    OBVIOUS
<1>2. QED
    BY <1>1, FS_EmptySet DEF Times

LEMMA RangeAppend ==
  ASSUME NEW S, NEW s \in Seq(S), NEW e \in S
  PROVE  Range(Append(s, e)) = Range(s) \cup {e}
<1>1. /\ Len(s) \in Nat /\ DOMAIN s = 1 .. Len(s)
      /\ DOMAIN Append(s, e) = 1 .. Len(s) + 1 /\ Append(s, e)[Len(s) + 1] = e
      /\ \A i \in 1 .. Len(s) : Append(s, e)[i] = s[i]
    BY AppendProperties
<1>2. QED
    BY <1>1 DEF Range

LEMMA RangeEmpty == Range(<<>>) = {}
BY DEF Range

\* Sets of modules are finite.
LEMMA ModulesFinite == \A D \in SUBSET Module : IsFiniteSet(D) /\ Cardinality(D) \in Nat
<1>1. IsFiniteSet(Module)
    BY Numbers, FS_Interval DEF Module
<1>2. QED
    BY <1>1, FS_Subset, FS_CardinalityType

\* What was told grows by one line at a time.
LEMMA LineGrows ==
  ASSUME TypeOK, NEW k \in {"range", "ok", "fail", "malloc", "nothread", "started"}, NEW n \in 0 .. Count,
         Logged(<<k, n>>)
  PROVE  \A kind, m :
           /\ Line(kind, m) \in Nat
           /\ Line(kind, m)' = IF k = kind /\ n = m THEN Line(kind, m) + 1 ELSE Line(kind, m)
<1> SUFFICES ASSUME NEW kind, NEW m
             PROVE  /\ Line(kind, m) \in Nat
                    /\ Line(kind, m)' = IF k = kind /\ n = m THEN Line(kind, m) + 1 ELSE Line(kind, m)
    OBVIOUS
<1>1. said \in Seq(Entry) /\ <<k, n>> \in Entry
    BY DEF TypeOK, Entry
<1>2. Line(kind, m) = Times(said, <<kind, m>>) /\ Line(kind, m)' = Times(said', <<kind, m>>)
    BY DEF Line, Times
<1>3. <<k, n>> = <<kind, m>> <=> k = kind /\ n = m
    OBVIOUS
<1>4. /\ Times(said, <<kind, m>>) \in Nat
      /\ Times(Append(said, <<k, n>>), <<kind, m>>)
           = IF <<k, n>> = <<kind, m>> THEN Times(said, <<kind, m>>) + 1 ELSE Times(said, <<kind, m>>)
    BY <1>1, TimesAppend
<1>5. said' = Append(said, <<k, n>>)
    BY DEF Logged
<1>6. QED
    BY <1>2, <1>3, <1>4, <1>5

\* A step of moduleBegin's loops: module idx is done with, in this round.
LEMMA Advance ==
  ASSUME TypeOK, LoopInv, AtModule, NextModule, pc' = "module", section' = section
  PROVE  /\ pri' \in High .. PriMax /\ idx' \in 1 .. Count /\ (pri' = PriMax => idx' = 1)
         /\ Tried' = Tried \cup {m \in Eligible : m = idx /\ section[m].priority = pri}
         /\ Reported' = Reported \cup {m \in Module : m = idx /\ ~ InRange(m) /\ pri = High}
<1>1. /\ pc = "module" /\ idx \in 1 .. Count /\ pri \in High .. PriMax - 1
      /\ \/ idx < Count /\ idx' = idx + 1 /\ pri' = pri
         \/ idx = Count /\ idx' = 1 /\ pri' = pri + 1
    BY Numbers DEF TypeOK, LoopInv, AtModule, NextModule
<1>2. Eligible' = Eligible /\ \A m \in Module : InRange(m)' = InRange(m)
    BY DEF Eligible, InRange
<1>3. \A m \in Eligible : section[m].priority \in Nat /\ m \in 1 .. Count
    BY Numbers DEF Eligible, InRange, Module
<1>4. Before(pri, idx)' = Before(pri, idx) \cup {m \in Eligible : m = idx /\ section[m].priority = pri}
    BY <1>1, <1>2, <1>3, Numbers DEF Before
<1>5. Tried = Before(pri, idx) /\ Tried' = Before(pri, idx)'
    BY <1>1 DEF Tried, Early
<1>6. /\ Reported = {m \in Module : ~ InRange(m) /\ (pri > High \/ m < idx)}
      /\ Reported' = {m \in Module : ~ InRange(m)' /\ (pri' > High \/ m < idx')}
    BY <1>1 DEF Reported, Early
<1>7. Reported' = Reported \cup {m \in Module : m = idx /\ ~ InRange(m) /\ pri = High}
    BY <1>1, <1>2, <1>6, Numbers DEF Module
<1>8. QED
    BY <1>1, <1>4, <1>5, <1>7, Numbers

\* What main and the threads do once the modules are initialised leaves the modules alone.
LEMMA LateSteps ==
  ASSUME TypeOK, EarlyInv, LoopInv, Main \/ \E t \in Module : Thread(t)
  PROVE  UNCHANGED moduleVars /\ pc \in Late /\ pc' \in Late
<1>1. CASE Main
    BY <1>1 DEF Main, CreateThread, ThreadsDone, LogBoot, PubBootDone, EventUpdate, ModuleUpdate, Delay,
                Late, Booted
<1>2. CASE \E t \in Module : Thread(t)
    <2>1. threads # {} /\ pc' = pc /\ UNCHANGED moduleVars
        BY <1>2 DEF Thread, Start, Turn, SetByHand, HasCommand, TypeOK
    <2>2. QED
        BY <2>1 DEF TypeOK, EarlyInv, LoopInv, Early, Late, Booted, Stopped
<1>3. QED
    BY <1>1, <1>2
-----------------------------------------------------------------------------
\* Only a thread that was registered acts.
LEMMA ThreadIsModule == ASSUME TypeOK, NEW t \in threads PROVE t \in Module
BY DEF TypeOK, Range

LEMMA InitIInv == Init => IInv
<1> SUFFICES ASSUME Init PROVE IInv
    OBVIOUS
<1> USE Numbers DEF Init
<1>1. TypeOK
    <2>1. /\ table \in Seq(Module) /\ nodes \in Seq(Module) /\ queue \in Seq(Codes \X (0 .. Count))
          /\ sent \in Seq(Codes \X (0 .. Count)) /\ inits \in Seq(Module \X BOOLEAN)
          /\ said \in Seq(Entry) /\ bootLog \in Seq(Entry) /\ Len(bootLog) <= LogMax /\ byHand \subseteq Module
        OBVIOUS
    <2>2. light \in [Module -> {"none", "BOOT", "RUN", "BUSY", "ERROR"}] /\ pri \in 0 .. PriMax
          /\ idx \in 1 .. Count + ThreadMax + 1
        OBVIOUS
    <2>3. Len(table) <= ThreadMax /\ Len(nodes) <= NodeMax /\ Len(queue) < QMax
        OBVIOUS
    <2>4. QED
        BY <2>1, <2>2, <2>3 DEF TypeOK
<1>2. EarlyInv
    BY DEF EarlyInv
<1>3. LoopInv
    BY DEF LoopInv, Booted
<1>4. Tried = {} /\ Reported = {} /\ Ready = {} /\ Failed = {}
    BY DEF Tried, Reported, Early, Ready, Failed, Range
<1>5. OrderInv
    BY <1>4, FS_EmptySet DEF OrderInv
<1>6. NodeInv
    <2>1. AskedIn(section, inits, 0) = 0
        <3>1. {k \in 1 .. 0 : AsksIn(section, inits[k])} = {}
            OBVIOUS
        <3>2. QED
            BY <3>1, FS_EmptySet DEF AskedIn
    <2>2. Len(nodes) = 0 /\ Len(inits) = 0 /\ DOMAIN inits = {}
        OBVIOUS
    <2>3. /\ nodes = <<>> /\ inits = <<>> /\ Range(nodes) = {}
          /\ \A m \in Module : light[m] = "none"
        BY RangeEmpty
    <2>4. Len(nodes) = LET n == AskedIn(section, inits, Len(inits)) IN IF n < NodeMax THEN n ELSE NodeMax
        BY <2>1, <2>2
    <2>5. QED
        BY <2>2, <2>3, <2>4 DEF NodeInv
<1>7. ResultInv /\ StartedInv
    <2>1. \A k, m : Line(k, m) = 0
        BY TimesEmpty DEF Line, Times
    <2>2. QED
        BY <1>4, <2>1 DEF ResultInv, LinesInv, TriedInv, RetInv, StartedInv, Early, Booted
<1>8. SentInv /\ ShownInv /\ LogInv
    BY RangeEmpty DEF SentInv, ShownInv, LogInv
<1>9. QED
    BY <1>1, <1>2, <1>3, <1>5, <1>6, <1>7, <1>8 DEF IInv

-----------------------------------------------------------------------------
\* The types.
LEMMA TypeNext == TypeOK /\ EarlyInv /\ LoopInv /\ [Next]_vars => TypeOK'
<1> SUFFICES ASSUME TypeOK, EarlyInv, LoopInv, [Next]_vars PROVE TypeOK'
    OBVIOUS
<1> USE Numbers DEF moduleVars, threadVars, eventVars, logVars
<1> DEFINE Ev == Codes \X (0 .. Count)
<1>log. ASSUME NEW e \in Entry, Logged(e)
        PROVE  said' \in Seq(Entry) /\ bootLog' \in Seq(Entry) /\ Len(bootLog') <= LogMax
    <2>1. /\ said \in Seq(Entry) /\ bootLog \in Seq(Entry) /\ Len(bootLog) <= LogMax /\ Len(bootLog) \in Nat
          /\ LogMax \in Nat /\ LogMax > 0
        BY DEF TypeOK
    <2>2. said' \in Seq(Entry)
        BY <1>log, <2>1, AppendProperties DEF Logged
    <2>3. CASE bootLog' = bootLog
        BY <2>1, <2>2, <2>3
    <2>4. CASE Len(bootLog) < LogMax /\ bootLog' = Append(bootLog, e)
        BY <2>1, <2>2, <2>4, AppendProperties
    <2>5. CASE ~ (Len(bootLog) < LogMax) /\ bootLog' = Append(Tail(bootLog), e)
        <3>1. bootLog # <<>> /\ Len(bootLog) = LogMax
            BY <2>1, <2>5
        <3>2. Tail(bootLog) \in Seq(Entry) /\ Len(Tail(bootLog)) = LogMax - 1
            BY <2>1, <3>1, HeadTailProperties
        <3>3. QED
            BY <2>1, <2>2, <2>5, <3>2, AppendProperties
    <2>6. QED
        BY <1>log, <2>3, <2>4, <2>5 DEF Logged
<1>pub. ASSUME NEW e \in Ev, Pub(e)
        PROVE  queue' \in Seq(Ev) /\ Len(queue') < QMax /\ sent' \in Seq(Ev)
    <2>1. queue \in Seq(Ev) /\ sent \in Seq(Ev) /\ Len(queue) \in Nat /\ Len(queue) < QMax
        BY DEF TypeOK
    <2>2. CASE Len(queue) < QMax - 1
        <3>1. queue' = Append(queue, e) /\ sent' = Append(sent, e)
            BY <1>pub, <2>2 DEF Pub
        <3>2. QED
            BY <2>1, <2>2, <3>1, AppendProperties
    <2>3. CASE ~ (Len(queue) < QMax - 1)
        BY <1>pub, <2>1, <2>3 DEF Pub
    <2>4. QED
        BY <2>2, <2>3
<1> HIDE DEF Ev
<1>types. /\ section \in [Module -> Descriptor]
          /\ pc \in {"reset", "hw", "module", "thread", "logBoot"} \cup Stopped \cup Booted
          /\ pri \in 0 .. PriMax /\ idx \in 1 .. Count + ThreadMax + 1 /\ ret \in BOOLEAN
          /\ table \in Seq(Module) /\ Len(table) <= ThreadMax
          /\ fresh \subseteq threads /\ threads \subseteq Range(table)
          /\ nodes \in Seq(Module) /\ Len(nodes) <= NodeMax
          /\ queue \in Seq(Ev) /\ Len(queue) < QMax /\ round \in BOOLEAN
          /\ isBootLog \in BOOLEAN /\ said \in Seq(Entry) /\ bootLog \in Seq(Entry) /\ Len(bootLog) <= LogMax
          /\ light \in [Module -> {"none", "BOOT", "RUN", "BUSY", "ERROR"}] /\ byHand \subseteq Module
          /\ blinking \in BOOLEAN
          /\ inits \in Seq(Module \X BOOLEAN) /\ sent \in Seq(Ev)
    BY DEF TypeOK, Ev
<1>goal. ASSUME /\ section' \in [Module -> Descriptor]
                /\ pc' \in {"reset", "hw", "module", "thread", "logBoot"} \cup Stopped \cup Booted
                /\ pri' \in 0 .. PriMax /\ idx' \in 1 .. Count + ThreadMax + 1 /\ ret' \in BOOLEAN
                /\ table' \in Seq(Module) /\ Len(table') <= ThreadMax
                /\ fresh' \subseteq threads' /\ threads' \subseteq Range(table')
                /\ nodes' \in Seq(Module) /\ Len(nodes') <= NodeMax
                /\ queue' \in Seq(Ev) /\ Len(queue') < QMax /\ round' \in BOOLEAN
                /\ isBootLog' \in BOOLEAN /\ said' \in Seq(Entry) /\ bootLog' \in Seq(Entry)
                /\ Len(bootLog') <= LogMax
                /\ light' \in [Module -> {"none", "BOOT", "RUN", "BUSY", "ERROR"}] /\ byHand' \subseteq Module
                /\ blinking' \in BOOLEAN
                /\ inits' \in Seq(Module \X BOOLEAN) /\ sent' \in Seq(Ev)
         PROVE  TypeOK'
    BY <1>goal DEF TypeOK, Ev
<1>1. CASE Reset \/ NoMutex
    BY <1>1, <1>types, <1>goal DEF Reset, NoMutex, Stopped
<1>2. CASE HwInit
    <2>1. threads = {} /\ fresh = {}
        BY <1>2, <1>types DEF HwInit, EarlyInv, Early
    <2>2. UNCHANGED <<section, threads, fresh, light, byHand, inits, sent, isBootLog, bootLog, said, round,
                      blinking>>
          /\ pc' = "module" /\ table' = <<>> /\ nodes' = <<>> /\ queue' = <<>>
          /\ pri' = High /\ idx' = 1 /\ ret' = TRUE
        BY <1>2 DEF HwInit
    <2>3. <<>> \in Seq(Module) /\ <<>> \in Seq(Ev) /\ Len(<<>>) = 0
        OBVIOUS
    <2>4. QED
        BY <1>types, <1>goal, <2>1, <2>2, <2>3
<1>3. CASE OutOfRange \/ Skip \/ InitModule
    <2>1. AtModule /\ NextModule /\ pc' = pc /\ section' = section
        BY <1>3 DEF OutOfRange, Skip, InitModule
    <2>2. pri' \in 0 .. PriMax /\ idx' \in 1 .. Count + ThreadMax + 1 /\ idx \in Module /\ threads = {} /\ pc = "module"
        BY <2>1, <1>types, Advance DEF AtModule, LoopInv, Module
    <2>3. ASSUME NEW k \in {"range", "ok", "fail"} PROVE <<k, idx>> \in Entry
        BY <2>2 DEF Entry, Module
    <2>4. CASE OutOfRange
        <3>1. ret' \in BOOLEAN
            BY <2>4 DEF OutOfRange
        <3>2. said' \in Seq(Entry) /\ bootLog' \in Seq(Entry) /\ Len(bootLog') <= LogMax
            BY <2>4, <2>3, <1>log, <1>types DEF OutOfRange
        <3>3. QED
            BY <2>1, <2>2, <2>4, <3>1, <3>2, <1>types, <1>goal DEF OutOfRange
    <2>5. CASE Skip
        BY <2>1, <2>2, <2>5, <1>types, <1>goal DEF Skip
    <2>6. CASE InitModule
        <3>1. PICK ok \in Results :
                 /\ ret' = (ret /\ ok) /\ inits' = Append(inits, <<idx, ok>>)
                 /\ light' = IF ok THEN [light EXCEPT ![idx] = "BOOT"] ELSE light
                 /\ nodes' = IF Subscribes(ok) THEN Append(nodes, idx) ELSE nodes
                 /\ Logged(<<IF ok THEN "ok" ELSE "fail", idx>>)
            BY <2>6 DEF InitModule
        <3>2. ok \in BOOLEAN
            BY DEF Results, Registers
        <3>3. inits' \in Seq(Module \X BOOLEAN)
            BY <1>types, <2>2, <3>1, <3>2
        <3>4. nodes' \in Seq(Module) /\ Len(nodes') <= NodeMax
            <4>1. CASE Subscribes(ok)
                <5>1. Len(nodes) < NodeMax /\ nodes' = Append(nodes, idx)
                    BY <4>1, <3>1 DEF Subscribes
                <5>2. QED
                    BY <1>types, <2>2, <5>1, AppendProperties
            <4>2. QED
                BY <1>types, <3>1, <4>1
        <3>5. said' \in Seq(Entry) /\ bootLog' \in Seq(Entry) /\ Len(bootLog') <= LogMax
            <4>1. (IF ok THEN "ok" ELSE "fail") \in {"range", "ok", "fail"}
                OBVIOUS
            <4>2. QED
                BY <4>1, <2>3, <3>1, <1>log
        <3>6. table' \in Seq(Module) /\ Len(table') <= ThreadMax
            <4>1. CASE Registers
                <5>1. Len(table) < ThreadMax /\ table' = Append(table, idx)
                    BY <2>6, <4>1 DEF InitModule, Registers
                <5>2. QED
                    BY <1>types, <2>2, <5>1, AppendProperties
            <4>2. CASE ~ Registers
                BY <1>types, <2>6, <4>2 DEF InitModule
            <4>3. QED
                BY <4>1, <4>2
        <3>7. ret' \in BOOLEAN /\ light' \in [Module -> {"none", "BOOT", "RUN", "BUSY", "ERROR"}]
            BY <1>types, <3>1, <3>2, <2>2
        <3>8. UNCHANGED <<threads, fresh, queue, byHand, sent, isBootLog, round, blinking>>
            BY <2>6 DEF InitModule
        <3>9. QED
            BY <1>types, <1>goal, <2>1, <2>2, <3>3, <3>4, <3>5, <3>6, <3>7, <3>8
    <2>7. QED
        BY <1>3, <2>4, <2>5, <2>6
<1>4. CASE ModulesDone \/ ThreadsDone \/ LogBoot \/ ModuleUpdate \/ Delay
    <2>1. /\ pc' \in {"thread", "logBoot"} \cup Booted \/ pc' = pc
          /\ idx' = idx \/ idx' = 1
          /\ isBootLog' \in BOOLEAN /\ round' \in BOOLEAN
          /\ UNCHANGED <<section, pri, ret, table, nodes, inits, threads, fresh, queue, light, byHand, sent,
                         bootLog, said, blinking>>
        BY <1>4, <1>types DEF ModulesDone, ThreadsDone, LogBoot, ModuleUpdate, Delay, Booted
    <2>2. QED
        BY <1>types, <1>goal, <2>1
<1>5. CASE CreateThread
    <2>1. /\ pc = "thread" /\ idx \in 1 .. Len(table) /\ table[idx] \in Module /\ table[idx] \in Range(table)
          /\ Len(table) \in Nat
        BY <1>5, <1>types DEF CreateThread, Range
    <2>2. UNCHANGED <<section, pri, ret, table, nodes, inits, queue, light, byHand, sent, isBootLog, round,
                      blinking>>
        BY <1>5 DEF CreateThread
    <2>3. CASE /\ threads' = threads \cup {table[idx]} /\ fresh' = {table[idx]} /\ idx' = idx + 1
               /\ UNCHANGED <<pc, said, bootLog>>
        BY <1>types, <1>goal, <2>1, <2>2, <2>3
    <2>4. CASE /\ pc' = IF MallocHook THEN "hung" ELSE "logBoot"
               /\ Logged(IF MallocHook THEN <<"malloc", 0>> ELSE <<"nothread", table[idx]>>)
               /\ UNCHANGED <<idx, threads, fresh>>
        <3>1. <<"malloc", 0>> \in Entry /\ <<"nothread", table[idx]>> \in Entry
            BY <2>1 DEF Entry, Module
        <3>2. said' \in Seq(Entry) /\ bootLog' \in Seq(Entry) /\ Len(bootLog') <= LogMax
            BY <2>4, <3>1, <1>log
        <3>3. QED
            BY <1>types, <1>goal, <2>2, <2>4, <3>2 DEF Stopped
    <2>5. QED
        BY <1>5, <2>3, <2>4 DEF CreateThread
<1>6. CASE PubBootDone
    <2>1. <<"BOOT_DONE", 0>> \in Ev
        BY DEF Ev, Codes
    <2>2. QED
        BY <1>6, <1>types, <1>goal, <1>pub, <2>1 DEF PubBootDone, Booted
<1>7. CASE EventUpdate
    <2>1. light' \in [Module -> {"none", "BOOT", "RUN", "BUSY", "ERROR"}]
        BY <1>7, <1>types DEF EventUpdate, After
    <2>2. byHand' \subseteq Module
        BY <1>7, <1>types DEF EventUpdate
    <2>3. /\ queue' = Tail(queue) /\ queue # <<>>
          /\ UNCHANGED <<pc, idx, section, pri, ret, table, nodes, inits, threads, fresh, sent, isBootLog,
                         bootLog, said, round, blinking>>
        BY <1>7 DEF EventUpdate
    <2>4. queue' \in Seq(Ev) /\ Len(queue') < QMax
        BY <1>types, <2>3, HeadTailProperties
    <2>5. QED
        BY <1>types, <1>goal, <2>1, <2>2, <2>3, <2>4
<1>8. ASSUME NEW t \in Module, Start(t) PROVE TypeOK'
    <2>1. <<"started", t>> \in Entry
        BY DEF Entry, Module
    <2>2. QED
        BY <1>8, <2>1, <1>log, <1>types, <1>goal DEF Start
<1>9. ASSUME NEW t \in Module, Turn(t) PROVE TypeOK'
    <2>1. PICK code \in Codes : Pub(<<code, t>>)
        BY <1>9 DEF Turn
    <2>2. <<code, t>> \in Ev
        BY DEF Ev, Module
    <2>3. queue' \in Seq(Ev) /\ Len(queue') < QMax /\ sent' \in Seq(Ev)
        BY <1>pub, <2>1, <2>2
    <2>4. QED
        BY <1>9, <1>types, <1>goal, <2>3 DEF Turn
<1>10. ASSUME NEW t \in Module, SetByHand(t) PROVE TypeOK'
    <2>1. PICK m \in Module, st \in {"BOOT", "RUN", "BUSY", "ERROR"} :
            light' = [light EXCEPT ![m] = st] /\ byHand' = byHand \cup {m}
        BY <1>10 DEF SetByHand
    <2>2. /\ light' \in [Module -> {"none", "BOOT", "RUN", "BUSY", "ERROR"}]
          /\ byHand' \subseteq Module
        BY <1>types, <2>1
    <2>3. QED
        BY <1>10, <1>types, <1>goal, <2>2 DEF SetByHand
<1>11. CASE UNCHANGED vars
    BY <1>11, <1>types, <1>goal DEF vars
<1>12. QED
    BY <1>1, <1>2, <1>3, <1>4, <1>5, <1>6, <1>7, <1>8, <1>9, <1>10, <1>11 DEF Next, Begin, Main, Thread

-----------------------------------------------------------------------------
\* Before the first module nothing has happened that a later step could find.
LEMMA EarlyNext == TypeOK /\ EarlyInv /\ LoopInv /\ [Next]_vars => EarlyInv'
<1> SUFFICES ASSUME TypeOK, EarlyInv, LoopInv, [Next]_vars, pc' \in Early PROVE EarlyInv'
    BY DEF EarlyInv
<1> USE DEF moduleVars, threadVars, eventVars, logVars
<1>1. CASE Reset \/ NoMutex
    BY <1>1 DEF Reset, NoMutex, EarlyInv, Early
<1>2. CASE HwInit \/ OutOfRange \/ Skip \/ InitModule \/ ModulesDone
    BY <1>2 DEF HwInit, OutOfRange, Skip, InitModule, ModulesDone, AtModule, Early
<1>3. CASE Main \/ \E t \in Module : Thread(t)
    BY <1>3, LateSteps DEF Early, Late, Booted
<1>4. CASE UNCHANGED vars
    BY <1>4 DEF vars, EarlyInv
<1>5. QED
    BY <1>1, <1>2, <1>3, <1>4 DEF Next, Begin

\* The loops of moduleBegin and threadBegin.
LEMMA LoopNext == TypeOK /\ EarlyInv /\ LoopInv /\ [Next]_vars => LoopInv'
<1> SUFFICES ASSUME TypeOK, EarlyInv, LoopInv, [Next]_vars PROVE LoopInv'
    OBVIOUS
<1> USE Numbers DEF moduleVars, threadVars, eventVars, logVars
<1>a. /\ Len(table) \in Nat /\ idx \in Nat /\ fresh \subseteq threads /\ DOMAIN table = 1 .. Len(table)
      /\ pc \in {"reset", "hw", "module", "thread", "logBoot"} \cup Stopped \cup Booted
    BY DEF TypeOK
<1>1. CASE Reset \/ NoMutex
    BY <1>1 DEF Reset, NoMutex, LoopInv, Booted
<1>2. CASE HwInit
    BY <1>2 DEF HwInit, LoopInv, EarlyInv, Early, Booted
<1>3. CASE OutOfRange \/ Skip \/ InitModule
    <2>1. /\ AtModule /\ NextModule /\ pc = "module" /\ pc' = "module"
          /\ UNCHANGED <<section, threads, sent, queue, isBootLog>>
        BY <1>3 DEF OutOfRange, Skip, InitModule, AtModule
    <2>2. pri' \in High .. PriMax /\ idx' \in 1 .. Count /\ (pri' = PriMax => idx' = 1)
        BY <2>1, Advance
    <2>3. QED
        BY <2>1, <2>2 DEF LoopInv, Booted
<1>4. CASE ModulesDone
    <2>1. /\ pc = "module" /\ pc' = "thread" /\ idx' = 1 /\ UNCHANGED <<table, threads, isBootLog>>
        BY <1>4 DEF ModulesDone
    <2>2. {table[i] : i \in 1 .. 1 - 1} = {}
        OBVIOUS
    <2>3. QED
        BY <1>a, <2>1, <2>2 DEF LoopInv, Booted
<1>5. CASE CreateThread
    <2>1. /\ pc = "thread" /\ fresh = {} /\ idx \in 1 .. Len(table) /\ UNCHANGED <<table, isBootLog>>
        BY <1>5, <1>a DEF CreateThread, MainRuns, TypeOK
    <2>2. CASE threads' = threads \cup {table[idx]} /\ idx' = idx + 1 /\ pc' = pc
        <3>1. {table[i] : i \in 1 .. idx} = {table[i] : i \in 1 .. idx - 1} \cup {table[idx]}
            BY <2>1
        <3>2. idx' - 1 = idx
            BY <2>2, <1>a
        <3>3. QED
            BY <1>a, <2>1, <2>2, <3>1, <3>2 DEF LoopInv, Booted
    <2>3. CASE pc' = (IF MallocHook THEN "hung" ELSE "logBoot") /\ UNCHANGED <<idx, threads, fresh>>
        BY <2>1, <2>3 DEF LoopInv, Booted
    <2>4. QED
        BY <1>5, <2>2, <2>3 DEF CreateThread
<1>6. CASE ThreadsDone
    <2>1. /\ pc = "thread" /\ pc' = "logBoot" /\ UNCHANGED <<table, threads, isBootLog>>
          /\ idx = Len(table) + 1
        BY <1>6, <1>a DEF ThreadsDone, LoopInv
    <2>2. {table[i] : i \in 1 .. idx - 1} = Range(table)
        BY <1>a, <2>1 DEF Range
    <2>3. QED
        BY <2>1, <2>2 DEF LoopInv, Booted
<1>7. CASE LogBoot
    BY <1>7 DEF LogBoot, MainRuns, LoopInv, Booted
<1>8. CASE PubBootDone \/ EventUpdate \/ ModuleUpdate \/ Delay
    BY <1>8 DEF PubBootDone, EventUpdate, ModuleUpdate, Delay, LoopInv, Booted
<1>9. ASSUME NEW t \in Module, Start(t) \/ Turn(t) \/ SetByHand(t) PROVE LoopInv'
    <2>1. /\ t \in threads /\ UNCHANGED <<pc, idx, table, threads, isBootLog>> /\ fresh' \subseteq fresh
        BY <1>9, <1>a DEF Start, Turn, SetByHand, HasCommand
    <2>2. pc # "module"
        BY <2>1 DEF LoopInv
    <2>3. QED
        BY <2>1, <2>2 DEF LoopInv
<1>10. CASE UNCHANGED vars
    BY <1>10 DEF vars, LoopInv
<1>11. QED
    BY <1>1, <1>2, <1>3, <1>4, <1>5, <1>6, <1>7, <1>8, <1>9, <1>10 DEF Next, Begin, Main, Thread

-----------------------------------------------------------------------------
\* The order of the inits.
LEMMA OrderNext == TypeOK /\ EarlyInv /\ LoopInv /\ OrderInv /\ [Next]_vars => OrderInv'
<1> SUFFICES ASSUME TypeOK, EarlyInv, LoopInv, OrderInv, [Next]_vars PROVE OrderInv'
    OBVIOUS
<1> USE Numbers DEF moduleVars, threadVars, eventVars, logVars
<1>same. ASSUME UNCHANGED <<section, inits, table>>, Tried' = Tried PROVE OrderInv'
    BY <1>same DEF OrderInv, Eligible, InRange
<1>1. CASE Reset \/ NoMutex
    BY <1>1, <1>same DEF Reset, NoMutex, Tried, Early
<1>2. CASE HwInit
    <2>1. /\ pc' = "module" /\ inits' = <<>> /\ table' = <<>> /\ pri' = High /\ idx' = 1
        BY <1>2 DEF HwInit, EarlyInv, Early
    <2>2. \A m \in Eligible' : section'[m].priority >= High /\ section'[m].priority \in Nat /\ m \in Nat /\ m >= 1
        BY DEF Eligible, InRange, Module
    <2>3. Tried' = {}
        BY <2>1, <2>2 DEF Tried, Before, Early
    <2>4. Cardinality({}) = 0
        BY FS_EmptySet
    <2>5. QED
        BY <2>1, <2>3, <2>4 DEF OrderInv
<1>3. CASE OutOfRange \/ Skip
    <2>1. /\ AtModule /\ NextModule /\ pc' = "module" /\ UNCHANGED <<section, inits, table>>
          /\ ~ (idx \in Eligible /\ section[idx].priority = pri)
        BY <1>3 DEF OutOfRange, Skip, AtModule, Eligible
    <2>2. Tried' = Tried
        BY <2>1, Advance
    <2>3. QED
        BY <2>1, <2>2, <1>same
<1>4. CASE InitModule
    <2>1. /\ AtModule /\ NextModule /\ pc = "module" /\ pc' = "module" /\ section' = section
          /\ idx \in Eligible /\ section[idx].priority = pri /\ idx \in 1 .. Count
          /\ table' = IF Registers THEN Append(table, idx) ELSE table
        BY <1>4 DEF InitModule, AtModule, Eligible, Module, TypeOK
    <2>2. PICK ok \in BOOLEAN : inits' = Append(inits, <<idx, ok>>)
        BY <1>4 DEF InitModule, Results, Registers
    <2>3. Tried' = Tried \cup {idx} /\ Tried = Before(pri, idx)
        BY <2>1, Advance DEF Tried, Early
    <2>4. idx \notin Tried /\ IsFiniteSet(Tried) /\ Cardinality(Tried) \in Nat
        <3>1. Tried \in SUBSET Module
            BY <2>3 DEF Before, Eligible
        <3>2. idx \notin Tried
            BY <2>1, <2>3 DEF Before, Eligible, InRange
        <3>3. QED
            BY <3>1, <3>2, ModulesFinite
    <2>5. Cardinality(Tried') = Cardinality(Tried) + 1
        BY <2>3, <2>4, FS_AddElement
    <2>6. RankIn(section, Eligible, idx) = Cardinality(Tried')
        <3>1. {k \in Eligible : \/ section[k].priority < section[idx].priority
                                \/ section[k].priority = section[idx].priority /\ k <= idx}
                = Before(pri, idx) \cup {idx}
            BY <2>1 DEF Before, Eligible, InRange, Module
        <3>2. QED
            BY <2>3, <3>1 DEF RankIn
    <2>7. /\ Len(inits) \in Nat /\ Len(inits') = Len(inits) + 1 /\ DOMAIN inits' = 1 .. Len(inits) + 1
          /\ inits'[Len(inits) + 1] = <<idx, ok>>
          /\ \A i \in 1 .. Len(inits) : inits'[i] = inits[i]
        <3>1. inits \in Seq(Module \X BOOLEAN) /\ <<idx, ok>> \in Module \X BOOLEAN
            BY <2>1 DEF TypeOK, Module
        <3>2. QED
            BY <2>2, <3>1, AppendProperties
    <2>8. Eligible' = Eligible
        BY <2>1 DEF Eligible, InRange
    <2>9. ASSUME NEW i \in DOMAIN inits'
          PROVE  inits'[i][1] \in Tried' /\ RankIn(section', Eligible', inits'[i][1]) = i
        <3>1. CASE i = Len(inits) + 1
            BY <2>1, <2>3, <2>5, <2>6, <2>7, <2>8, <3>1 DEF OrderInv
        <3>2. CASE i \in 1 .. Len(inits)
            <4>1. i \in DOMAIN inits
                BY <3>2 DEF TypeOK
            <4>2. QED
                BY <2>1, <2>3, <2>7, <2>8, <3>2, <4>1 DEF OrderInv
        <3>3. QED
            BY <2>7, <2>9, <3>1, <3>2
    <2>10. /\ \A i \in DOMAIN table' : table'[i] \in Tried'
           /\ \A i, j \in DOMAIN table' : table'[i] = table'[j] => i = j
        <3>1. CASE Registers
            <4>1. /\ Len(table) \in Nat /\ DOMAIN table = 1 .. Len(table) /\ DOMAIN table' = 1 .. Len(table) + 1
                  /\ table'[Len(table) + 1] = idx /\ \A i \in 1 .. Len(table) : table'[i] = table[i]
                BY <2>1, <3>1, AppendProperties DEF TypeOK, Module
            <4>2. \A i \in 1 .. Len(table) : table[i] \in Tried /\ table[i] # idx
                BY <2>4, <4>1 DEF OrderInv
            <4>3. QED
                BY <2>3, <4>1, <4>2 DEF OrderInv
        <3>2. CASE ~ Registers
            BY <2>1, <2>3, <3>2 DEF OrderInv
        <3>3. QED
            BY <3>1, <3>2
    <2>11. QED
        BY <2>5, <2>7, <2>9, <2>10 DEF OrderInv
<1>5. CASE ModulesDone
    <2>1. /\ pc = "module" /\ pc' = "thread" /\ (pri = PriMax \/ Count = 0)
          /\ UNCHANGED <<section, inits, table>>
        BY <1>5 DEF ModulesDone
    <2>2. Before(pri, idx) = Eligible
        BY <2>1 DEF Before, Eligible, InRange, Module
    <2>3. Tried' = Tried
        BY <2>1, <2>2 DEF Tried, Early, Eligible, InRange
    <2>4. QED
        BY <2>1, <2>3, <1>same
<1>6. CASE Main \/ \E t \in Module : Thread(t)
    <2>1. UNCHANGED <<section, inits, table>> /\ pc \in Late /\ pc' \in Late
        BY <1>6, LateSteps
    <2>2. Tried' = Tried
        BY <2>1 DEF Tried, Early, Late, Booted, Eligible, InRange
    <2>3. QED
        BY <2>1, <2>2, <1>same
<1>7. CASE UNCHANGED vars
    BY <1>7, <1>same DEF vars, Tried, Before, Eligible, InRange
<1>8. QED
    BY <1>1, <1>2, <1>3, <1>4, <1>5, <1>6, <1>7 DEF Next, Begin

-----------------------------------------------------------------------------
\* The subscriptions asked for, one init later.
LEMMA AskedGrows ==
  ASSUME NEW f, NEW S, NEW s \in Seq(S), NEW e \in S
  PROVE  /\ \A i \in 0 .. Len(s) : /\ AskedIn(f, s, i) \in Nat /\ AskedIn(f, s, i) <= AskedIn(f, s, Len(s))
                                   /\ AskedIn(f, Append(s, e), i) = AskedIn(f, s, i)
         /\ \A i \in 1 .. Len(s) : AsksIn(f, s[i]) => AskedIn(f, s, i) >= 1
         /\ AskedIn(f, Append(s, e), Len(s) + 1)
              = IF AsksIn(f, e) THEN AskedIn(f, s, Len(s)) + 1 ELSE AskedIn(f, s, Len(s))
<1> DEFINE asks(i) == {k \in 1 .. i : AsksIn(f, s[k])}
           asksAfter(i) == {k \in 1 .. i : AsksIn(f, Append(s, e)[k])}
<1>1. /\ Len(s) \in Nat /\ Append(s, e)[Len(s) + 1] = e
      /\ \A i \in 1 .. Len(s) : Append(s, e)[i] = s[i]
    BY AppendProperties
<1>2. ASSUME NEW i \in 0 .. Len(s)
      PROVE  IsFiniteSet(asks(i)) /\ asks(i) \in SUBSET asks(Len(s)) /\ asksAfter(i) = asks(i)
    <2>1. IsFiniteSet(1 .. i) /\ asks(i) \in SUBSET (1 .. i)
        BY <1>1, FS_Interval
    <2>2. IsFiniteSet(asks(i))
        BY <2>1, FS_Subset
    <2>3. QED
        BY <1>1, <2>2
<1>3. /\ asksAfter(Len(s) + 1) = IF AsksIn(f, e) THEN asks(Len(s)) \cup {Len(s) + 1} ELSE asks(Len(s))
      /\ Len(s) + 1 \notin asks(Len(s))
    BY <1>1
<1>4. \A i : /\ AskedIn(f, s, i) = Cardinality(asks(i))
             /\ AskedIn(f, Append(s, e), i) = Cardinality(asksAfter(i))
    BY DEF AskedIn
<1>5. ASSUME NEW i \in 1 .. Len(s), AsksIn(f, s[i]) PROVE Cardinality(asks(i)) >= 1
    <2>1. i \in asks(i) /\ i \in 0 .. Len(s)
        BY <1>1, <1>5
    <2>2. IsFiniteSet(asks(i)) /\ asks(i) # {}
        BY <1>2, <2>1
    <2> HIDE DEF asks
    <2>3. QED
        BY <2>2, FS_EmptySet, FS_CardinalityType
<1> HIDE DEF asks, asksAfter
<1>6. ASSUME NEW i \in 0 .. Len(s)
      PROVE  Cardinality(asks(i)) \in Nat /\ Cardinality(asks(i)) <= Cardinality(asks(Len(s)))
    <2>1. IsFiniteSet(asks(Len(s)))
        BY <1>1, <1>2
    <2>2. QED
        BY <1>2, <2>1, FS_Subset, FS_CardinalityType
<1>7. Cardinality(asks(Len(s)) \cup {Len(s) + 1}) = Cardinality(asks(Len(s))) + 1
    <2>1. IsFiniteSet(asks(Len(s)))
        BY <1>1, <1>2
    <2>2. QED
        BY <1>3, <2>1, FS_AddElement
<1>8. QED
    BY <1>2, <1>3, <1>4, <1>5, <1>6, <1>7

\* The subscribers.
LEMMA NodeNext == TypeOK /\ EarlyInv /\ LoopInv /\ NodeInv /\ [Next]_vars => NodeInv'
<1> SUFFICES ASSUME TypeOK, EarlyInv, LoopInv, NodeInv, [Next]_vars PROVE NodeInv'
    OBVIOUS
<1> USE Numbers DEF moduleVars, threadVars, eventVars, logVars
<1>same. ASSUME UNCHANGED <<section, inits, nodes, light>> PROVE NodeInv'
    BY <1>same DEF NodeInv
<1>1. CASE Reset \/ NoMutex \/ OutOfRange \/ Skip \/ ModulesDone
    BY <1>1, <1>same DEF Reset, NoMutex, OutOfRange, Skip, ModulesDone
<1>2. CASE HwInit
    <2>1. nodes = <<>> /\ nodes' = <<>> /\ UNCHANGED <<section, inits, light>>
        BY <1>2 DEF HwInit, EarlyInv, Early
    <2>2. QED
        BY <2>1, <1>same
<1>3. CASE InitModule
    <2>1. idx \in Module /\ section' = section
        BY <1>3 DEF InitModule, AtModule, TypeOK, Module
    <2>2. PICK ok \in BOOLEAN :
            /\ inits' = Append(inits, <<idx, ok>>)
            /\ light' = IF ok THEN [light EXCEPT ![idx] = "BOOT"] ELSE light
            /\ nodes' = IF Subscribes(ok) THEN Append(nodes, idx) ELSE nodes
        BY <1>3 DEF InitModule, Results, Registers
    <2> DEFINE S == Module \X BOOLEAN
               c == <<idx, ok>>
               n == Len(inits)
               Count0(i) == AskedIn(section, inits, i)
               Count1(i) == AskedIn(section, inits', i)
    <2>3. inits \in Seq(S) /\ c \in S /\ inits' = Append(inits, c)
        BY <2>1, <2>2 DEF TypeOK
    <2>4. Subscribes(ok) <=> AsksIn(section, c) /\ Len(nodes) < NodeMax
        BY DEF Subscribes, AsksIn
    <2>5. c[1] = idx /\ c[2] = ok
        OBVIOUS
    <2> HIDE DEF S, c
    <2>6. /\ n \in Nat /\ Len(inits') = n + 1 /\ DOMAIN inits' = 1 .. n + 1 /\ DOMAIN inits = 1 .. n
          /\ inits'[n + 1] = c /\ \A i \in 1 .. n : inits'[i] = inits[i]
        BY <2>3, AppendProperties
    <2>7. /\ \A i \in 0 .. n : Count0(i) \in Nat /\ Count0(i) <= Count0(n) /\ Count1(i) = Count0(i)
          /\ \A i \in 1 .. n : AsksIn(section, inits[i]) => Count0(i) >= 1
          /\ Count1(n + 1) = IF AsksIn(section, c) THEN Count0(n) + 1 ELSE Count0(n)
        BY <2>3, AskedGrows
    <2>8. /\ Len(nodes) = IF Count0(n) < NodeMax THEN Count0(n) ELSE NodeMax
          /\ \A i \in 1 .. n : AsksIn(section, inits[i]) /\ Count0(i) <= NodeMax => nodes[Count0(i)] = inits[i][1]
          /\ \A m \in Module : light[m] # "none" => <<m, TRUE>> \in Range(inits)
          /\ \A m \in Range(nodes) : <<m, TRUE>> \in Range(inits)
        BY <2>6 DEF NodeInv
    <2> DEFINE N1 == Len(nodes') = IF Count1(n + 1) < NodeMax THEN Count1(n + 1) ELSE NodeMax
               N2 == \A i \in 1 .. n + 1 :
                       AsksIn(section, inits'[i]) /\ Count1(i) <= NodeMax => nodes'[Count1(i)] = inits'[i][1]
    <2>9. Range(inits') = Range(inits) \cup {c}
        BY <2>3, RangeAppend
    <2>10. n \in 0 .. n /\ Count0(n) \in Nat /\ \A i \in 1 .. n : i \in 0 .. n
        BY <2>6, <2>7
    <2> HIDE DEF Count0, Count1
    <2>11. ASSUME Subscribes(ok)
           PROVE  N1 /\ N2 /\ \A m \in Range(nodes') : <<m, TRUE>> \in Range(inits')
        <3>1. /\ nodes' = Append(nodes, idx) /\ AsksIn(section, c) /\ Len(nodes) = Count0(n) /\ Count0(n) < NodeMax
            BY <2>2, <2>4, <2>8, <2>10, <2>11
        <3>2. /\ Len(nodes') = Count0(n) + 1 /\ nodes'[Count0(n) + 1] = idx
              /\ \A r \in 1 .. Count0(n) : nodes'[r] = nodes[r]
              /\ Range(nodes') = Range(nodes) \cup {idx}
            <4>1. nodes \in Seq(Module)
                BY DEF TypeOK
            <4>2. Range(nodes') = Range(nodes) \cup {idx}
                BY <2>1, <3>1, <4>1, RangeAppend
            <4>3. QED
                BY <2>1, <3>1, <4>1, <4>2, AppendProperties
        <3>3. N1
            BY <2>7, <2>10, <3>1, <3>2
        <3>4. ASSUME NEW i \in 1 .. n + 1, AsksIn(section, inits'[i]), Count1(i) <= NodeMax
              PROVE  nodes'[Count1(i)] = inits'[i][1]
            <4>1. CASE i = n + 1
                BY <2>5, <2>6, <2>7, <3>1, <3>2, <4>1
            <4>2. CASE i \in 1 .. n
                <5>1. Count1(i) = Count0(i) /\ Count0(i) \in 1 .. Count0(n) /\ inits'[i] = inits[i]
                    BY <2>6, <2>7, <2>10, <3>4, <4>2
                <5>2. QED
                    BY <2>8, <3>2, <3>4, <4>2, <5>1
            <4>3. QED
                BY <2>6, <3>4, <4>1, <4>2
        <3>5. ok /\ \A m \in Range(nodes') : <<m, TRUE>> \in Range(inits')
            BY <2>4, <2>5, <2>8, <2>9, <2>11, <3>2 DEF Subscribes, c
        <3>6. QED
            BY <3>3, <3>4, <3>5
    <2>12. ASSUME ~ Subscribes(ok)
           PROVE  N1 /\ N2 /\ \A m \in Range(nodes') : <<m, TRUE>> \in Range(inits')
        <3>1. nodes' = nodes /\ (AsksIn(section, c) => Len(nodes) = NodeMax /\ Count0(n) >= NodeMax)
            <4>1. Len(nodes) \in Nat /\ Len(nodes) <= NodeMax
                BY DEF TypeOK
            <4>2. QED
                BY <2>2, <2>4, <2>8, <2>10, <2>12, <4>1
        <3>2. N1
            BY <2>7, <2>8, <2>10, <3>1
        <3>3. ASSUME NEW i \in 1 .. n + 1, AsksIn(section, inits'[i]), Count1(i) <= NodeMax
              PROVE  nodes'[Count1(i)] = inits'[i][1]
            <4>1. i # n + 1
                BY <2>6, <2>7, <2>10, <3>1, <3>3
            <4>2. i \in 1 .. n /\ Count1(i) = Count0(i) /\ inits'[i] = inits[i]
                BY <2>6, <2>7, <2>10, <4>1
            <4>3. QED
                BY <2>8, <3>1, <3>3, <4>2
        <3>4. \A m \in Range(nodes') : <<m, TRUE>> \in Range(inits')
            BY <2>8, <2>9, <3>1, Zenon
        <3>5. QED
            BY <3>2, <3>3, <3>4
    <2>13. N1 /\ N2 /\ \A m \in Range(nodes') : <<m, TRUE>> \in Range(inits')
        BY <2>11, <2>12
    <2>14. \A m \in Module : light'[m] # "none" => <<m, TRUE>> \in Range(inits')
        BY <2>2, <2>8, <2>9 DEF c, TypeOK
    <2>15. QED
        BY <2>1, <2>6, <2>13, <2>14 DEF NodeInv, Count1
<1>4. CASE EventUpdate
    <2>1. UNCHANGED <<section, inits, nodes>>
          /\ light' = [m \in Module |-> IF m \in Range(nodes) THEN After(light[m], Head(queue)[1]) ELSE light[m]]
        BY <1>4 DEF EventUpdate
    <2>2. \A m \in Module : light'[m] # "none" => <<m, TRUE>> \in Range(inits)
        BY <2>1 DEF NodeInv
    <2>3. QED
        BY <2>1, <2>2 DEF NodeInv
<1>5. CASE CreateThread \/ ThreadsDone \/ LogBoot \/ PubBootDone \/ ModuleUpdate \/ Delay
    BY <1>5, <1>same DEF CreateThread, ThreadsDone, LogBoot, PubBootDone, ModuleUpdate, Delay
<1>6. ASSUME NEW t \in Module, Thread(t) PROVE NodeInv'
    <2>1. CASE Start(t) \/ Turn(t)
        BY <2>1, <1>same DEF Start, Turn
    <2>2. CASE SetByHand(t)
        <3>1. UNCHANGED <<section, inits, nodes>>
            BY <2>2 DEF SetByHand
        <3>2. PICK m \in Module, st \in {"BOOT", "RUN", "BUSY", "ERROR"} :
                light[m] # "none" /\ light' = [light EXCEPT ![m] = st]
            BY <2>2 DEF SetByHand
        <3>3. \A k \in Module : light'[k] # "none" => light[k] # "none"
            BY <3>2 DEF TypeOK
        <3>4. QED
            BY <3>1, <3>3 DEF NodeInv
    <2>3. QED
        BY <1>6, <2>1, <2>2 DEF Thread
<1>7. CASE UNCHANGED vars
    BY <1>7, <1>same DEF vars
<1>8. QED
    BY <1>1, <1>2, <1>3, <1>4, <1>5, <1>6, <1>7 DEF Next, Begin, Main

-----------------------------------------------------------------------------
\* Past the modules, and at the end of moduleBegin, no module is left to try or to report.
LEMMA AllTried ==
  ASSUME TypeOK, EarlyInv, LoopInv, ModulesDone \/ Main \/ \E t \in Module : Thread(t)
  PROVE  Tried' = Tried /\ Reported' = Reported
<1> USE Numbers
<1>1. /\ UNCHANGED section /\ pc' \in Late
      /\ \/ pc \in Late
         \/ pc = "module" /\ (pri = PriMax \/ Count = 0)
    BY LateSteps DEF ModulesDone, Late, moduleVars
<1>2. CASE pc \in Late
    BY <1>1, <1>2 DEF Tried, Reported, Early, Late, Booted, Eligible, InRange
<1>3. CASE pc = "module" /\ (pri = PriMax \/ Count = 0)
    <2>1. Before(pri, idx) = Eligible
        BY <1>3 DEF Before, Eligible, InRange, Module
    <2>2. Tried = Eligible /\ Tried' = Eligible'
        BY <1>1, <1>3, <2>1 DEF Tried, Early, Late, Booted
    <2>3. Eligible' = Eligible /\ \A m : InRange(m)' = InRange(m)
        BY <1>1 DEF Eligible, InRange
    <2>4. /\ Reported = {m \in Module : ~ InRange(m) /\ (pri > High \/ m < idx)}
          /\ Reported' = {m \in Module : ~ InRange(m)'}
        BY <1>1, <1>3 DEF Reported, Early, Late, Booted
    <2>5. Reported' = Reported
        BY <1>3, <2>3, <2>4 DEF Module
    <2>6. QED
        BY <2>2, <2>3, <2>5
<1>4. QED
    BY <1>1, <1>2, <1>3

\* The results of the modules.
LEMMA ResultNext == TypeOK /\ EarlyInv /\ LoopInv /\ OrderInv /\ ResultInv /\ [Next]_vars => ResultInv'
<1> SUFFICES ASSUME TypeOK, EarlyInv, LoopInv, OrderInv, ResultInv, [Next]_vars PROVE ResultInv'
    OBVIOUS
<1> USE Numbers DEF moduleVars, threadVars, eventVars, logVars
<1>same. ASSUME Tried' = Tried, Reported' = Reported, inits' = inits, ret' = ret,
                \A m \in Module, kind \in {"range", "ok", "fail"} : Line(kind, m)' = Line(kind, m)
         PROVE  ResultInv'
    <2>1. Ready' = Ready /\ Failed' = Failed
        BY <1>same DEF Ready, Failed
    <2>2. LinesInv'
        BY <1>same, <2>1 DEF ResultInv, LinesInv
    <2>3. TriedInv' /\ RetInv'
        BY <1>same, <2>1 DEF ResultInv, TriedInv, RetInv
    <2>4. QED
        BY <2>2, <2>3 DEF ResultInv
<1>lines. ASSUME said' = said PROVE \A m, kind : Line(kind, m)' = Line(kind, m)
    BY <1>lines DEF Line
<1>1. CASE Reset \/ NoMutex
    <2>1. UNCHANGED <<inits, ret, said>> /\ Tried' = Tried /\ Reported' = Reported
        BY <1>1 DEF Reset, NoMutex, Tried, Reported, Early
    <2>2. QED
        BY <2>1, <1>same, <1>lines
<1>2. CASE HwInit
    <2>1. /\ UNCHANGED <<inits, said>> /\ ret /\ ret' = TRUE
          /\ pc' = "module" /\ pri' = High /\ idx' = 1 /\ Tried = {} /\ Reported = {}
        BY <1>2 DEF HwInit, EarlyInv, Tried, Reported, Early
    <2>2. Reported' = {}
        BY <2>1 DEF Reported, Early, Module
    <2>3. \A m \in Eligible' : section'[m].priority >= High /\ section'[m].priority \in Nat /\ m \in Nat /\ m >= 1
        BY DEF Eligible, InRange, Module
    <2>4. Tried' = {}
        BY <2>1, <2>3 DEF Tried, Before, Early
    <2>5. QED
        BY <2>1, <2>2, <2>4, <1>same, <1>lines
<1>3. CASE OutOfRange \/ Skip \/ InitModule
    <2>1. /\ AtModule /\ NextModule /\ pc = "module" /\ pc' = "module" /\ section' = section
          /\ idx \in Module /\ idx \in 0 .. Count
        BY <1>3 DEF OutOfRange, Skip, InitModule, AtModule, Module, TypeOK
    <2>2. /\ Tried' = Tried \cup {m \in Eligible : m = idx /\ section[m].priority = pri}
          /\ Reported' = Reported \cup {m \in Module : m = idx /\ ~ InRange(m) /\ pri = High}
        BY <2>1, Advance
    <2>3. CASE OutOfRange
        <3>1. /\ ~ InRange(idx) /\ UNCHANGED inits /\ ret' = (ret /\ pri # High)
              /\ IF pri = High THEN Logged(<<"range", idx>>) ELSE UNCHANGED <<said, bootLog>>
            BY <2>3 DEF OutOfRange
        <3>2. Tried' = Tried
            BY <2>2, <3>1 DEF Eligible
        <3>3. CASE pri = High
            <4>1. Reported' = Reported \cup {idx} /\ idx \notin Reported /\ ret' = FALSE
                <5>1. {m \in Module : m = idx /\ ~ InRange(m) /\ pri = High} = {idx}
                    BY <2>1, <3>1, <3>3
                <5>2. idx \notin Reported
                    BY <2>1, <3>3 DEF Reported, Early, Module
                <5>3. QED
                    BY <2>2, <3>1, <3>3, <5>1, <5>2
            <4>2. \A m \in Module :
                    /\ Line("range", m)' = IF m = idx THEN Line("range", m) + 1 ELSE Line("range", m)
                    /\ Line("ok", m)' = Line("ok", m) /\ Line("fail", m)' = Line("fail", m)
                <5>1. Logged(<<"range", idx>>)
                    BY <3>1, <3>3
                <5>2. QED
                    BY <2>1, <5>1, LineGrows
            <4>3. Ready' = Ready /\ Failed' = Failed
                BY <3>1 DEF Ready, Failed
            <4>4. QED
                <5>1. LinesInv'
                    BY <4>1, <4>2, <4>3 DEF ResultInv, LinesInv
                <5>2. TriedInv'
                    BY <3>2, <4>3 DEF ResultInv, TriedInv
                <5>3. RetInv'
                    <6>1. Reported' # {}
                        BY <4>1
                    <6>2. QED
                        BY <4>1, <6>1 DEF RetInv
                <5>4. QED
                    BY <5>1, <5>2, <5>3 DEF ResultInv
        <3>4. CASE pri # High
            <4>1. Reported' = Reported /\ ret' = ret /\ said' = said
                BY <2>2, <3>1, <3>4 DEF TypeOK
            <4>2. QED
                BY <3>1, <3>2, <4>1, <1>same, <1>lines
        <3>5. QED
            BY <3>3, <3>4
    <2>4. CASE Skip
        BY <2>2, <2>4, <1>same, <1>lines DEF Skip, Eligible
    <2>5. CASE InitModule
        <3>1. /\ idx \in Eligible /\ section[idx].priority = pri /\ InRange(idx)
            BY <2>1, <2>5 DEF InitModule, Eligible
        <3>2. PICK ok \in BOOLEAN :
                /\ ret' = (ret /\ ok) /\ inits' = Append(inits, <<idx, ok>>)
                /\ Logged(<<IF ok THEN "ok" ELSE "fail", idx>>)
            BY <2>5 DEF InitModule, Results, Registers
        <3>3. Tried' = Tried \cup {idx} /\ Reported' = Reported /\ idx \notin Tried
            <4>1. idx \notin Before(pri, idx)
                BY <3>1 DEF Before, Eligible, InRange, Module
            <4>2. QED
                BY <2>1, <2>2, <3>1, <4>1 DEF Tried, Early
        <3>4. /\ ok => Ready' = Ready \cup {idx} /\ Failed' = Failed
              /\ ~ ok => Failed' = Failed \cup {idx} /\ Ready' = Ready
            <4>1. inits \in Seq(Module \X BOOLEAN) /\ <<idx, ok>> \in Module \X BOOLEAN
                BY <2>1 DEF TypeOK
            <4>2. Range(inits') = Range(inits) \cup {<<idx, ok>>}
                BY <3>2, <4>1, RangeAppend
            <4>3. QED
                BY <2>1, <4>2 DEF Ready, Failed
        <3>5. idx \notin Ready \cup Failed
            BY <2>1, <3>3 DEF ResultInv, TriedInv
        <3>6. CASE ok
            <4>1. \A m \in Module :
                    /\ Line("ok", m)' = IF m = idx THEN Line("ok", m) + 1 ELSE Line("ok", m)
                    /\ Line("range", m)' = Line("range", m) /\ Line("fail", m)' = Line("fail", m)
                <5>1. Logged(<<"ok", idx>>)
                    BY <3>2, <3>6
                <5>2. QED
                    BY <2>1, <5>1, LineGrows
            <4>2. ret' = ret /\ Ready' = Ready \cup {idx} /\ Failed' = Failed
                BY <3>2, <3>4, <3>6 DEF TypeOK
            <4>3. QED
                <5>1. LinesInv'
                    BY <3>3, <3>5, <4>1, <4>2 DEF ResultInv, LinesInv
                <5>2. TriedInv'
                    BY <3>3, <3>5, <4>2 DEF ResultInv, TriedInv
                <5>3. RetInv'
                    BY <3>3, <4>2 DEF ResultInv, RetInv
                <5>4. QED
                    BY <5>1, <5>2, <5>3 DEF ResultInv
        <3>7. CASE ~ ok
            <4>1. \A m \in Module :
                    /\ Line("fail", m)' = IF m = idx THEN Line("fail", m) + 1 ELSE Line("fail", m)
                    /\ Line("range", m)' = Line("range", m) /\ Line("ok", m)' = Line("ok", m)
                <5>1. Logged(<<"fail", idx>>)
                    BY <3>2, <3>7
                <5>2. QED
                    BY <2>1, <5>1, LineGrows
            <4>2. ret' = FALSE /\ Failed' = Failed \cup {idx} /\ Ready' = Ready
                BY <3>2, <3>4, <3>7 DEF TypeOK
            <4>3. QED
                <5>1. LinesInv'
                    BY <3>3, <3>5, <4>1, <4>2 DEF ResultInv, LinesInv
                <5>2. TriedInv'
                    BY <3>3, <3>5, <4>2 DEF ResultInv, TriedInv
                <5>3. RetInv'
                    <6>1. Failed' # {}
                        BY <4>2
                    <6>2. QED
                        BY <4>2, <6>1 DEF RetInv
                <5>4. QED
                    BY <5>1, <5>2, <5>3 DEF ResultInv
        <3>8. QED
            BY <3>6, <3>7
    <2>6. QED
        BY <1>3, <2>3, <2>4, <2>5
<1>4. CASE ModulesDone \/ ThreadsDone \/ LogBoot \/ PubBootDone \/ EventUpdate \/ ModuleUpdate \/ Delay
    <2>1. UNCHANGED <<inits, ret, said>>
        BY <1>4 DEF ModulesDone, ThreadsDone, LogBoot, PubBootDone, EventUpdate, ModuleUpdate, Delay
    <2>2. QED
        BY <1>4, <2>1, AllTried, <1>same, <1>lines DEF Main
<1>5. CASE CreateThread
    <2>1. UNCHANGED <<inits, ret>> /\ table[idx] \in 0 .. Count
        BY <1>5 DEF CreateThread, TypeOK, Module
    <2>2. \/ said' = said
          \/ Logged(<<"malloc", 0>>)
          \/ Logged(<<"nothread", table[idx]>>)
        BY <1>5 DEF CreateThread
    <2>3. \A m \in Module, kind \in {"range", "ok", "fail"} : Line(kind, m)' = Line(kind, m)
        BY <2>1, <2>2, <1>lines, LineGrows
    <2>4. QED
        BY <1>5, <2>1, <2>3, AllTried, <1>same DEF Main
<1>6. ASSUME NEW t \in Module, Start(t) PROVE ResultInv'
    <2>1. UNCHANGED <<inits, ret>> /\ Logged(<<"started", t>>) /\ t \in 0 .. Count
        BY <1>6 DEF Start, Module
    <2>2. \A m \in Module, kind \in {"range", "ok", "fail"} : Line(kind, m)' = Line(kind, m)
        BY <2>1, LineGrows
    <2>3. QED
        BY <1>6, <2>1, <2>2, AllTried, <1>same DEF Thread
<1>7. ASSUME NEW t \in Module, Turn(t) \/ SetByHand(t) PROVE ResultInv'
    <2>1. UNCHANGED <<inits, ret, said>>
        BY <1>7 DEF Turn, SetByHand
    <2>2. QED
        BY <1>7, <2>1, AllTried, <1>same, <1>lines DEF Thread
<1>8. CASE UNCHANGED vars
    BY <1>8, <1>same, <1>lines DEF vars, Tried, Before, Reported, Eligible, InRange
<1>9. QED
    BY <1>1, <1>2, <1>3, <1>4, <1>5, <1>6, <1>7, <1>8 DEF Next, Begin, Main, Thread

-----------------------------------------------------------------------------
\* What is told of the threads.
LEMMA StartedNext == TypeOK /\ EarlyInv /\ LoopInv /\ OrderInv /\ StartedInv /\ [Next]_vars => StartedInv'
<1> SUFFICES ASSUME TypeOK, EarlyInv, LoopInv, OrderInv, StartedInv, [Next]_vars PROVE StartedInv'
    OBVIOUS
<1> USE Numbers DEF moduleVars, threadVars, eventVars, logVars
<1>a. /\ Len(table) \in Nat /\ idx \in Nat /\ fresh \subseteq threads /\ DOMAIN table = 1 .. Len(table)
      /\ pc \in {"reset", "hw", "module", "thread", "logBoot"} \cup Stopped \cup Booted
    BY DEF TypeOK
<1>lines. ASSUME said' = said PROVE \A m, kind : Line(kind, m)' = Line(kind, m)
    BY <1>lines DEF Line
<1>same. ASSUME UNCHANGED <<threads, fresh, table>>, pc' = "hung" <=> pc = "hung",
                pc' \in Early \cup {"module", "thread", "hung"} => pc \in Early \cup {"module", "thread", "hung"},
                pc' \in {"logBoot"} \cup Booted => pc \in {"logBoot"} \cup Booted,
                \A m \in Module, kind \in {"started", "nothread"} : Line(kind, m)' = Line(kind, m),
                Line("malloc", 0)' = Line("malloc", 0)
         PROVE  StartedInv'
    BY <1>same DEF StartedInv
<1>1. CASE Reset \/ NoMutex \/ Skip \/ ModulesDone
    <2>1. /\ UNCHANGED <<threads, fresh, table, said>> /\ pc \in Early \cup {"module"}
          /\ pc' \in Early \cup {"module", "thread"}
        BY <1>1 DEF Reset, NoMutex, Skip, ModulesDone, AtModule, Early
    <2>2. QED
        BY <2>1, <1>same, <1>lines DEF Early, Booted
<1>2. CASE HwInit
    <2>1. /\ UNCHANGED <<threads, fresh, said>> /\ pc = "hw" /\ pc' = "module" /\ table' = table
        BY <1>2 DEF HwInit, EarlyInv, Early
    <2>2. QED
        BY <2>1, <1>same, <1>lines DEF Early, Booted
<1>3. CASE OutOfRange \/ InitModule
    <2>1. /\ pc = "module" /\ pc' = "module" /\ UNCHANGED <<threads, fresh>> /\ idx \in 0 .. Count
        BY <1>3 DEF OutOfRange, InitModule, AtModule, TypeOK
    <2>2. \/ said' = said
          \/ \E k \in {"range", "ok", "fail"} : Logged(<<k, idx>>)
        BY <1>3 DEF OutOfRange, InitModule
    <2>3. \A m, kind : kind \in {"started", "nothread", "malloc"} => Line(kind, m)' = Line(kind, m)
        BY <2>1, <2>2, <1>lines, LineGrows
    <2>4. QED
        BY <2>1, <2>3 DEF StartedInv, Early, Booted
<1>4. CASE CreateThread
    <2>1. /\ pc = "thread" /\ fresh = {} /\ idx \in 1 .. Len(table) /\ table' = table
          /\ table[idx] \in Module /\ table[idx] \in 0 .. Count
        BY <1>4, <1>a DEF CreateThread, MainRuns, TypeOK, Module
    <2>2. CASE threads' = threads \cup {table[idx]} /\ fresh' = {table[idx]} /\ UNCHANGED <<pc, said>>
        <3>1. table[idx] \notin threads
            BY <1>a, <2>1 DEF LoopInv, OrderInv
        <3>2. threads' \ fresh' = threads \ fresh
            BY <2>1, <2>2, <3>1
        <3>3. QED
            BY <2>1, <2>2, <3>2, <1>lines DEF StartedInv, Booted
    <2>3. CASE MallocHook /\ pc' = "hung" /\ Logged(<<"malloc", 0>>) /\ UNCHANGED threadVars
        <3>1. /\ \A m, kind : kind \in {"started", "nothread"} => Line(kind, m)' = Line(kind, m)
              /\ Line("malloc", 0)' = Line("malloc", 0) + 1
            BY <2>1, <2>3, LineGrows
        <3>2. Line("malloc", 0) = 0
            BY <2>1 DEF StartedInv
        <3>3. QED
            BY <2>1, <2>3, <3>1, <3>2 DEF StartedInv, Early, Booted
    <2>4. CASE ~ MallocHook /\ pc' = "logBoot" /\ Logged(<<"nothread", table[idx]>>) /\ UNCHANGED threadVars
        <3>1. PICK t \in Module : t = table[idx] /\ t \in 0 .. Count
            BY <2>1
        <3>2. Logged(<<"nothread", t>>)
            BY <2>4, <3>1
        <3>3. /\ \A m, kind : kind \in {"started", "malloc"} => Line(kind, m)' = Line(kind, m)
              /\ Line("nothread", t)' = Line("nothread", t) + 1
            BY <2>1, <3>1, <3>2, LineGrows
        <3>4. Line("nothread", t)' = 1
            BY <2>1, <3>1, <3>3 DEF StartedInv
        <3>5. QED
            BY <2>1, <2>4, <3>3, <3>4 DEF StartedInv, Early, Booted
    <2>5. QED
        BY <1>4, <2>2, <2>3, <2>4 DEF CreateThread
<1>5. CASE ThreadsDone
    <2>1. /\ pc = "thread" /\ pc' = "logBoot" /\ UNCHANGED <<table, threads, fresh, said>>
          /\ idx = Len(table) + 1
        BY <1>5, <1>a DEF ThreadsDone, LoopInv
    <2>2. threads = Range(table)
        BY <1>a, <2>1 DEF LoopInv, Range
    <2>3. QED
        BY <2>1, <2>2, <1>lines DEF StartedInv, Early, Booted
<1>6. CASE LogBoot \/ PubBootDone \/ EventUpdate \/ ModuleUpdate \/ Delay
    <2>1. /\ UNCHANGED <<threads, fresh, table, said>> /\ pc \in {"logBoot"} \cup Booted
          /\ pc' \in {"logBoot"} \cup Booted
        BY <1>6 DEF LogBoot, PubBootDone, EventUpdate, ModuleUpdate, Delay, Booted
    <2>2. QED
        BY <2>1, <1>same, <1>lines DEF Early, Booted
<1>7. ASSUME NEW t \in Module, Start(t) PROVE StartedInv'
    <2>1. /\ t \in fresh /\ fresh' = fresh \ {t} /\ Logged(<<"started", t>>)
          /\ UNCHANGED <<pc, threads, table>> /\ t \in 0 .. Count
        BY <1>7 DEF Start, Module
    <2>2. \A m : /\ Line("started", m)' = IF m = t THEN Line("started", m) + 1 ELSE Line("started", m)
                 /\ Line("nothread", m)' = Line("nothread", m) /\ Line("malloc", m)' = Line("malloc", m)
        BY <2>1, LineGrows
    <2>3. ASSUME NEW m \in Module PROVE Line("started", m)' = IF m \in (threads \ fresh)' THEN 1 ELSE 0
        <3>1. Line("started", m) = IF m \in threads \ fresh THEN 1 ELSE 0
            BY DEF StartedInv
        <3>2. CASE m = t
            BY <1>a, <2>1, <2>2, <3>1, <3>2
        <3>3. CASE m # t
            BY <2>1, <2>2, <3>1, <3>3
        <3>4. QED
            BY <3>2, <3>3
    <2>4. QED
        BY <2>1, <2>2, <2>3 DEF StartedInv
<1>8. ASSUME NEW t \in Module, Turn(t) \/ SetByHand(t) PROVE StartedInv'
    BY <1>8, <1>same, <1>lines DEF Turn, SetByHand
<1>9. CASE UNCHANGED vars
    BY <1>9, <1>same, <1>lines DEF vars
<1>10. QED
    BY <1>1, <1>2, <1>3, <1>4, <1>5, <1>6, <1>7, <1>8, <1>9 DEF Next, Begin, Main, Thread

\* A line is told while the boot log is open, and nothing else touches either.
LEMMA LogNext == TypeOK /\ LoopInv /\ LogInv /\ [Next]_vars => LogInv'
<1> SUFFICES ASSUME TypeOK, LoopInv, LogInv, [Next]_vars PROVE LogInv'
    OBVIOUS
<1> USE Numbers DEF logVars
<1>1. CASE UNCHANGED <<said, bootLog>>
    BY <1>1 DEF LogInv
<1>2. ASSUME NEW line \in Entry, Logged(line), isBootLog PROVE LogInv'
    <2>1. said \in Seq(Entry) /\ bootLog \in Seq(Entry) /\ said' = Append(said, line)
        BY <1>2 DEF TypeOK, Logged
    <2>2. Len(said) \in Nat /\ Len(bootLog) \in Nat /\ Len(said') = Len(said) + 1
        BY <2>1, AppendProperties
    <2>3. CASE Len(bootLog) < LogMax
        <3>1. bootLog' = Append(bootLog, line) /\ Len(bootLog') = Len(bootLog) + 1
            BY <1>2, <2>1, <2>3, AppendProperties DEF Logged
        <3>2. QED
            BY <2>1, <2>2, <3>1 DEF LogInv
    <2>4. CASE ~ (Len(bootLog) < LogMax)
        <3>1. bootLog' = Append(Tail(bootLog), line) /\ bootLog # <<>>
            BY <1>2, <2>4 DEF Logged
        <3>2. Len(bootLog') = Len(bootLog)
            BY <2>1, <2>2, <3>1, HeadTailProperties, AppendProperties
        <3>3. QED
            BY <2>2, <2>4, <3>2 DEF LogInv
    <2>5. QED
        BY <2>3, <2>4
<1>3. CASE OutOfRange \/ InitModule
    <2>1. isBootLog /\ idx \in 0 .. Count
        BY <1>3 DEF OutOfRange, InitModule, AtModule, LoopInv, Booted, TypeOK
    <2>2. \/ UNCHANGED <<said, bootLog>>
          \/ \E k \in {"range", "ok", "fail"} : Logged(<<k, idx>>)
        BY <1>3 DEF OutOfRange, InitModule
    <2>3. ASSUME NEW k \in {"range", "ok", "fail"} PROVE <<k, idx>> \in Entry
        BY <2>1 DEF Entry
    <2>4. QED
        BY <1>1, <1>2, <2>1, <2>2, <2>3
<1>4. CASE CreateThread
    <2>1. isBootLog /\ table[idx] \in 0 .. Count
        BY <1>4 DEF CreateThread, LoopInv, Booted, TypeOK, Module
    <2>2. <<"malloc", 0>> \in Entry /\ <<"nothread", table[idx]>> \in Entry
        BY <2>1 DEF Entry
    <2>3. \/ UNCHANGED <<said, bootLog>>
          \/ Logged(<<"malloc", 0>>)
          \/ Logged(<<"nothread", table[idx]>>)
        BY <1>4 DEF CreateThread
    <2>4. QED
        BY <1>1, <1>2, <2>1, <2>2, <2>3
<1>5. ASSUME NEW t \in Module, Start(t) PROVE LogInv'
    <2>1. isBootLog /\ <<"started", t>> \in Entry /\ Logged(<<"started", t>>)
        BY <1>5 DEF Start, LoopInv, Entry, Module
    <2>2. QED
        BY <1>2, <2>1
<1>6. CASE Reset \/ HwInit \/ NoMutex \/ Skip \/ ModulesDone
    BY <1>1, <1>6 DEF Reset, HwInit, NoMutex, Skip, ModulesDone
<1>7. CASE ThreadsDone \/ LogBoot \/ PubBootDone \/ EventUpdate \/ ModuleUpdate \/ Delay
    BY <1>1, <1>7 DEF ThreadsDone, LogBoot, PubBootDone, EventUpdate, ModuleUpdate, Delay
<1>8. ASSUME NEW t \in Module, Turn(t) \/ SetByHand(t) PROVE LogInv'
    BY <1>1, <1>8 DEF Turn, SetByHand
<1>9. CASE UNCHANGED vars
    BY <1>1, <1>9 DEF vars
<1>10. QED
    BY <1>3, <1>4, <1>5, <1>6, <1>7, <1>8, <1>9 DEF Next, Begin, Main, Thread

-----------------------------------------------------------------------------
\* A publication extends the queue and what was sent by the same event, or is refused.
LEMMA PubKeeps ==
  ASSUME TypeOK, SentInv, NEW e \in Codes \X (0 .. Count), Pub(e)
  PROVE  /\ Served \in 0 .. Len(sent) /\ Served' = Served
         /\ Len(queue') <= Len(sent') /\ \A k \in DOMAIN queue' : queue'[k] = sent'[Served + k]
         /\ \A i \in DOMAIN sent : i \in DOMAIN sent' /\ sent'[i] = sent[i]
         /\ \A i \in DOMAIN sent' : i \in DOMAIN sent \/ (i = Len(sent) + 1 /\ sent'[i] = e)
<1> DEFINE Ev == Codes \X (0 .. Count)
<1>1. queue \in Seq(Ev) /\ sent \in Seq(Ev) /\ e \in Ev
    BY DEF TypeOK
<1> HIDE DEF Ev
<1>2. /\ Len(queue) \in Nat /\ Len(sent) \in Nat /\ DOMAIN queue = 1 .. Len(queue) /\ DOMAIN sent = 1 .. Len(sent)
      /\ Len(queue) <= Len(sent) /\ \A k \in 1 .. Len(queue) : queue[k] = sent[Served + k]
    BY <1>1 DEF SentInv
<1>3. CASE queue' = Append(queue, e) /\ sent' = Append(sent, e)
    <2>1. /\ Len(queue') = Len(queue) + 1 /\ DOMAIN queue' = 1 .. Len(queue) + 1
          /\ queue'[Len(queue) + 1] = e /\ \A k \in 1 .. Len(queue) : queue'[k] = queue[k]
        BY <1>1, <1>3, AppendProperties
    <2>2. /\ Len(sent') = Len(sent) + 1 /\ DOMAIN sent' = 1 .. Len(sent) + 1
          /\ sent'[Len(sent) + 1] = e /\ \A k \in 1 .. Len(sent) : sent'[k] = sent[k]
        BY <1>1, <1>3, AppendProperties
    <2>3. /\ Served' = Served /\ Served \in 0 .. Len(sent) /\ Served + (Len(queue) + 1) = Len(sent) + 1
          /\ \A k \in 1 .. Len(queue) : Served + k \in 1 .. Len(sent)
        BY <1>2, <2>1, <2>2 DEF Served
    <2>4. ASSUME NEW k \in DOMAIN queue' PROVE queue'[k] = sent'[Served + k]
        <3>1. CASE k = Len(queue) + 1
            BY <2>1, <2>2, <2>3, <3>1
        <3>2. CASE k \in 1 .. Len(queue)
            BY <1>2, <2>1, <2>2, <2>3, <3>2
        <3>3. QED
            BY <1>2, <2>1, <3>1, <3>2
    <2>5. QED
        BY <1>2, <2>1, <2>2, <2>3, <2>4
<1>4. CASE UNCHANGED <<queue, sent>>
    BY <1>2, <1>4 DEF Served
<1>5. QED
    BY <1>3, <1>4 DEF Pub

\* The events.
LEMMA SentNext == TypeOK /\ EarlyInv /\ LoopInv /\ SentInv /\ [Next]_vars => SentInv'
<1> SUFFICES ASSUME TypeOK, EarlyInv, LoopInv, SentInv, [Next]_vars PROVE SentInv'
    OBVIOUS
<1> USE Numbers DEF moduleVars, threadVars, eventVars, logVars
<1>a. /\ queue \in Seq(Codes \X (0 .. Count)) /\ Len(queue) \in Nat /\ Len(sent) \in Nat
      /\ DOMAIN queue = 1 .. Len(queue) /\ DOMAIN sent = 1 .. Len(sent)
    BY DEF TypeOK
<1>same. ASSUME UNCHANGED <<queue, sent>>, pc = "loop" => pc' = "loop" PROVE SentInv'
    BY <1>same DEF SentInv, Served
<1>1. CASE Reset \/ NoMutex \/ OutOfRange \/ Skip \/ InitModule \/ ModulesDone
    BY <1>1, <1>same DEF Reset, NoMutex, OutOfRange, Skip, InitModule, ModulesDone, AtModule
<1>2. CASE HwInit
    BY <1>2, <1>same DEF HwInit, EarlyInv, Early
<1>3. CASE CreateThread \/ ThreadsDone \/ LogBoot \/ ModuleUpdate \/ Delay
    BY <1>3, <1>same DEF CreateThread, ThreadsDone, LogBoot, ModuleUpdate, Delay
<1>4. CASE PubBootDone
    <2>1. Pub(<<"BOOT_DONE", 0>>) /\ <<"BOOT_DONE", 0>> \in Codes \X (0 .. Count) /\ pc = "publish" /\ pc' = "loop"
        BY <1>4 DEF PubBootDone, Codes
    <2>2. \A i \in DOMAIN sent : sent[i] # <<"BOOT_DONE", 0>>
        BY <2>1 DEF SentInv, Range
    <2>3. QED
        BY <2>1, <2>2, PubKeeps DEF SentInv
<1>5. CASE EventUpdate
    <2>1. queue # <<>> /\ queue' = Tail(queue) /\ sent' = sent /\ pc' = pc
        BY <1>5 DEF EventUpdate
    <2>2. /\ Len(queue) >= 1 /\ Len(queue') = Len(queue) - 1 /\ DOMAIN queue' = 1 .. Len(queue) - 1
          /\ \A k \in 1 .. Len(queue) - 1 : queue'[k] = queue[k + 1]
        BY <1>a, <2>1, HeadTailProperties
    <2>3. Served' = Served + 1 /\ Served \in Nat
        BY <1>a, <2>1, <2>2 DEF Served, SentInv
    <2>4. ASSUME NEW k \in DOMAIN queue' PROVE queue'[k] = sent'[Served' + k]
        <3>1. k + 1 \in DOMAIN queue /\ queue'[k] = queue[k + 1] /\ Served + (k + 1) = Served' + k
            BY <1>a, <2>2, <2>3, <2>4
        <3>2. queue[k + 1] = sent[Served + (k + 1)]
            BY <3>1 DEF SentInv
        <3>3. QED
            BY <2>1, <3>1, <3>2
    <2>5. Len(queue') <= Len(sent')
        BY <1>a, <2>1, <2>2 DEF SentInv
    <2>6. /\ \A i, j \in DOMAIN sent' : sent'[i] = <<"BOOT_DONE", 0>> /\ sent'[j] = <<"BOOT_DONE", 0>> => i = j
          /\ <<"BOOT_DONE", 0>> \in Range(sent') => pc' = "loop"
        BY <2>1 DEF SentInv
    <2>7. QED
        BY <2>4, <2>5, <2>6 DEF SentInv
<1>6. ASSUME NEW t \in Module, Start(t) \/ SetByHand(t) PROVE SentInv'
    BY <1>6, <1>same DEF Start, SetByHand
<1>7. ASSUME NEW t \in Module, Turn(t) PROVE SentInv'
    <2>1. PICK code \in Codes : Pub(<<code, t>>)
        BY <1>7 DEF Turn
    <2>2. /\ <<code, t>> \in Codes \X (0 .. Count) /\ <<code, t>> # <<"BOOT_DONE", 0>> /\ pc' = pc
        BY <1>7 DEF Module, Turn
    <2>3. /\ Len(queue') <= Len(sent') /\ \A k \in DOMAIN queue' : queue'[k] = sent'[Served' + k]
        BY <2>1, <2>2, PubKeeps
    <2>4. \A i \in DOMAIN sent' : sent'[i] = <<"BOOT_DONE", 0>> => i \in DOMAIN sent /\ sent[i] = <<"BOOT_DONE", 0>>
        BY <2>1, <2>2, PubKeeps
    <2>5. QED
        BY <2>2, <2>3, <2>4 DEF SentInv, Range
<1>8. CASE UNCHANGED vars
    BY <1>8, <1>same DEF vars
<1>9. QED
    BY <1>1, <1>2, <1>3, <1>4, <1>5, <1>6, <1>7, <1>8 DEF Next, Begin, Main, Thread

\* The state that the subscribers show.
LEMMA ShownNext == TypeOK /\ EarlyInv /\ LoopInv /\ SentInv /\ ShownInv /\ [Next]_vars => ShownInv'
<1> SUFFICES ASSUME TypeOK, EarlyInv, LoopInv, SentInv, ShownInv, [Next]_vars PROVE ShownInv'
    OBVIOUS
<1> USE Numbers DEF moduleVars, threadVars, eventVars, logVars
<1>a. /\ queue \in Seq(Codes \X (0 .. Count)) /\ Len(queue) \in Nat /\ Len(sent) \in Nat
      /\ DOMAIN queue = 1 .. Len(queue) /\ DOMAIN sent = 1 .. Len(sent)
    BY DEF TypeOK
<1>same. ASSUME UNCHANGED <<nodes, light, byHand, queue, sent>> PROVE ShownInv'
    BY <1>same DEF ShownInv, Served
<1>none. ASSUME UNCHANGED <<queue, sent>>, queue = <<>>, sent = <<>> PROVE ShownInv'
    <2>1. Served' = 0
        BY <1>none DEF Served
    <2>2. QED
        BY <2>1 DEF ShownInv
<1>pub. ASSUME NEW e \in Codes \X (0 .. Count), Pub(e), UNCHANGED <<nodes, light, byHand>> PROVE ShownInv'
    <2>1. /\ Served \in 0 .. Len(sent) /\ Served' = Served
          /\ \A i \in DOMAIN sent : i \in DOMAIN sent' /\ sent'[i] = sent[i]
        BY <1>pub, PubKeeps
    <2>2. \A i \in 1 .. Served : sent'[i] = sent[i]
        BY <1>a, <2>1
    <2>3. ASSUME NEW m \in Range(nodes), NEW j \in 1 .. Served, sent'[j][1] = "ERROR",
                 \A k \in j + 1 .. Served : sent'[k][1] # "BOOT_DONE"
          PROVE  m \in byHand \/ light[m] = "ERROR"
        <3>1. sent[j][1] = "ERROR"
            BY <2>2, <2>3
        <3>2. \A k \in j + 1 .. Served : k \in 1 .. Served
            BY <1>a, <2>1
        <3>3. \A k \in j + 1 .. Served : sent[k][1] # "BOOT_DONE"
            BY <2>2, <2>3, <3>2
        <3>4. QED
            BY <3>1, <3>3 DEF ShownInv
    <2>4. QED
        BY <1>pub, <2>1, <2>3 DEF ShownInv
<1>1. CASE Reset \/ NoMutex \/ OutOfRange \/ Skip \/ ModulesDone
    BY <1>1, <1>same DEF Reset, NoMutex, OutOfRange, Skip, ModulesDone
<1>2. CASE HwInit \/ InitModule
    <2>1. UNCHANGED <<queue, sent>> /\ queue = <<>> /\ sent = <<>>
        BY <1>2 DEF HwInit, InitModule, AtModule, EarlyInv, LoopInv, Early
    <2>2. QED
        BY <2>1, <1>none
<1>3. CASE CreateThread \/ ThreadsDone \/ LogBoot \/ ModuleUpdate \/ Delay
    BY <1>3, <1>same DEF CreateThread, ThreadsDone, LogBoot, ModuleUpdate, Delay
<1>4. CASE PubBootDone
    <2>1. Pub(<<"BOOT_DONE", 0>>) /\ <<"BOOT_DONE", 0>> \in Codes \X (0 .. Count)
          /\ UNCHANGED <<nodes, light, byHand>>
        BY <1>4 DEF PubBootDone, Codes
    <2>2. QED
        BY <2>1, <1>pub
<1>5. CASE EventUpdate
    <2>1. /\ queue # <<>> /\ queue' = Tail(queue) /\ UNCHANGED <<sent, nodes>>
          /\ light' = [m \in Module |-> IF m \in Range(nodes) THEN After(light[m], Head(queue)[1]) ELSE light[m]]
          /\ byHand' = IF Head(queue)[1] = "ERROR" THEN byHand \ Range(nodes) ELSE byHand
        BY <1>5 DEF EventUpdate
    <2>2. Len(queue) >= 1 /\ Len(queue') = Len(queue) - 1 /\ Head(queue) = queue[1]
        BY <1>a, <2>1, HeadTailProperties
    <2>3. Served' = Served + 1 /\ Served \in Nat /\ Head(queue) = sent[Served + 1]
        BY <1>a, <2>1, <2>2 DEF Served, SentInv
    <2>4. ASSUME NEW m \in Range(nodes), NEW j \in 1 .. Served + 1, sent[j][1] = "ERROR",
                 \A k \in j + 1 .. Served + 1 : sent[k][1] # "BOOT_DONE"
          PROVE  m \in byHand' \/ light'[m] = "ERROR"
        <3>1. light'[m] = After(light[m], sent[Served + 1][1])
            BY <2>1, <2>3 DEF TypeOK, Range
        <3>2. CASE j = Served + 1
            BY <2>4, <3>1, <3>2 DEF After
        <3>3. CASE j \in 1 .. Served
            <4>1. sent[Served + 1][1] # "BOOT_DONE" /\ \A k \in j + 1 .. Served : sent[k][1] # "BOOT_DONE"
                BY <2>3, <2>4, <3>3
            <4>2. m \in byHand \/ light[m] = "ERROR"
                BY <2>4, <3>3, <4>1 DEF ShownInv
            <4>3. CASE sent[Served + 1][1] = "ERROR"
                BY <3>1, <4>3 DEF After
            <4>4. CASE sent[Served + 1][1] # "ERROR"
                <5>1. byHand' = byHand
                    BY <2>1, <2>3, <4>4
                <5>2. QED
                    BY <3>1, <4>1, <4>2, <5>1 DEF After
            <4>5. QED
                BY <4>3, <4>4
        <3>4. QED
            BY <2>3, <3>2, <3>3
    <2>5. QED
        BY <2>1, <2>3, <2>4 DEF ShownInv
<1>6. ASSUME NEW t \in Module, Start(t) PROVE ShownInv'
    BY <1>6, <1>same DEF Start
<1>7. ASSUME NEW t \in Module, Turn(t) PROVE ShownInv'
    <2>1. PICK code \in Codes : Pub(<<code, t>>)
        BY <1>7 DEF Turn
    <2>2. <<code, t>> \in Codes \X (0 .. Count) /\ UNCHANGED <<nodes, light, byHand>>
        BY <1>7 DEF Module, Turn
    <2>3. QED
        BY <2>1, <2>2, <1>pub
<1>8. ASSUME NEW t \in Module, SetByHand(t) PROVE ShownInv'
    <2>1. PICK h \in Module, st \in {"BOOT", "RUN", "BUSY", "ERROR"} :
            light' = [light EXCEPT ![h] = st] /\ byHand' = byHand \cup {h}
        BY <1>8 DEF SetByHand
    <2>2. UNCHANGED <<nodes, queue, sent>> /\ Served' = Served
        BY <1>8 DEF SetByHand, Served
    <2>3. \A m : m \in byHand \/ light[m] = "ERROR" => m \in byHand' \/ light'[m] = "ERROR"
        BY <2>1 DEF TypeOK
    <2>4. QED
        BY <2>2, <2>3 DEF ShownInv
<1>9. CASE UNCHANGED vars
    BY <1>9, <1>same DEF vars
<1>10. QED
    BY <1>1, <1>2, <1>3, <1>4, <1>5, <1>6, <1>7, <1>8, <1>9 DEF Next, Begin, Main, Thread

-----------------------------------------------------------------------------
LEMMA Invariance == Spec => []IInv
<1>1. Init => IInv
    BY InitIInv
<1>2. IInv /\ [Next]_vars => IInv'
    <2> SUFFICES ASSUME IInv, [Next]_vars PROVE IInv'
        OBVIOUS
    <2> USE DEF IInv
    <2>1. TypeOK' /\ EarlyInv' /\ LoopInv'
        BY TypeNext, EarlyNext, LoopNext
    <2>2. OrderInv' /\ NodeInv'
        BY OrderNext, NodeNext
    <2>3. ResultInv' /\ StartedInv'
        BY ResultNext, StartedNext
    <2>4. LogInv' /\ SentInv' /\ ShownInv'
        BY LogNext, SentNext, ShownNext
    <2>5. QED
        BY <2>1, <2>2, <2>3, <2>4
<1>3. QED
    BY <1>1, <1>2, PTL DEF Spec

\* Once main is past the modules, every one of them that is eligible has been tried.
LEMMA Past ==
  ASSUME TypeOK, pc \in Late
  PROVE  Tried = Eligible /\ Reported = {m \in Module : ~ InRange(m)}
BY DEF Tried, Reported, Early, Late, Booted

\* The variables keep their types: no table outgrows its array, and the event ring never fills.
THEOREM BootTypeCorrect == Spec => []TypeOK
<1>1. IInv => TypeOK
    BY DEF IInv
<1>2. QED
    BY <1>1, Invariance, PTL

\* moduleBegin calls the init of every module of the section whose priority is in range, once, by
\* priority and then by place, and all of them before the first thread is created.
THEOREM InitsInOrder == Spec => []InitOrder
<1>1. IInv => InitOrder
    <2> SUFFICES ASSUME IInv PROVE InitOrder
        OBVIOUS
    <2> USE DEF IInv
    <2>1. \A m : RankIn(section, Eligible, m) = Rank(m)
        BY DEF RankIn, Rank
    <2>2. Tried \subseteq Eligible
        BY DEF Tried, Before
    <2>3. ASSUME pc \in {"thread", "logBoot", "hung"} \cup Booted \/ threads # {}
          PROVE  Len(inits) = Cardinality(Eligible)
        <3>1. pc \in Late
            BY <2>3 DEF TypeOK, EarlyInv, LoopInv, Early, Late, Booted, Stopped
        <3>2. QED
            BY <3>1, Past DEF OrderInv
    <2>4. QED
        BY <2>1, <2>2, <2>3 DEF OrderInv, InitOrder
<1>2. QED
    BY <1>1, Invariance, PTL

\* Exactly the modules that are ready and have a callback are subscribed, in the order of their
\* inits and as many as the table holds; only a ready module's state is ever set by an event.
THEOREM SubscribersAreReady == Spec => []SubscribersReady
<1>1. IInv => SubscribersReady
    <2> SUFFICES ASSUME IInv PROVE SubscribersReady
        OBVIOUS
    <2>1. NodeInv
        BY DEF IInv
    <2>2. \A i : AskedIn(section, inits, i) = Asked(i) /\ (AsksIn(section, inits[i]) <=> Asks(i))
        BY DEF AskedIn, AsksIn, Asked, Asks
    <2>3. Len(nodes) = IF Asked(Len(inits)) < NodeMax THEN Asked(Len(inits)) ELSE NodeMax
        BY <2>1, <2>2 DEF NodeInv
    <2>4. ASSUME NEW i \in DOMAIN inits, Asks(i), Asked(i) <= NodeMax PROVE nodes[Asked(i)] = inits[i][1]
        <3>1. AsksIn(section, inits[i]) /\ AskedIn(section, inits, i) = Asked(i)
            BY <2>2, <2>4
        <3>2. QED
            BY <2>1, <2>4, <3>1 DEF NodeInv
    <2>5. \A m \in Module : light[m] # "none" => <<m, TRUE>> \in Range(inits)
        BY <2>1 DEF NodeInv
    <2>6. QED
        BY <2>3, <2>4, <2>5 DEF SubscribersReady
<1>2. QED
    BY <1>1, Invariance, PTL

\* A failed init, a priority out of range, a refused thread and an exhausted heap are told, once,
\* as is every module's result and every thread's start; the boot log that main leaves behind holds
\* all of it as long as it fits.
THEOREM NothingIsSilent == Spec => []NothingSilent
<1>1. IInv => NothingSilent
    <2> SUFFICES ASSUME IInv, pc \in {"hung"} \cup Booted PROVE NothingSilent
        BY DEF NothingSilent
    <2> USE DEF IInv
    <2>1. Tried = Eligible /\ Reported = {m \in Module : ~ InRange(m)}
        BY Past DEF Late
    <2>2. fresh = {} /\ threads \subseteq Module
        BY ThreadIsModule DEF LoopInv
    <2>3. ASSUME NEW m \in Module
          PROVE  /\ Line("range", m) = (IF InRange(m) THEN 0 ELSE 1)
                 /\ Line("ok", m) + Line("fail", m) = (IF m \in Eligible THEN 1 ELSE 0)
                 /\ Line("ok", m) = 1 <=> <<m, TRUE>> \in Range(inits)
        <3>1. Line("range", m) = (IF InRange(m) THEN 0 ELSE 1)
            BY <2>1 DEF ResultInv, LinesInv
        <3>2. /\ Line("ok", m) = (IF m \in Ready THEN 1 ELSE 0)
              /\ Line("fail", m) = (IF m \in Failed THEN 1 ELSE 0)
            BY DEF ResultInv, LinesInv
        <3>3. (m \in Eligible <=> m \in Ready \cup Failed) /\ m \notin Ready \cap Failed
            BY <2>1 DEF ResultInv, TriedInv
        <3>4. Line("ok", m) + Line("fail", m) = (IF m \in Eligible THEN 1 ELSE 0)
            BY <3>2, <3>3
        <3>5. Line("ok", m) = 1 <=> <<m, TRUE>> \in Range(inits)
            BY <3>2 DEF Ready
        <3>6. QED
            BY <3>1, <3>4, <3>5
    <2>4. ret <=> \A m \in Module : Line("range", m) + Line("fail", m) = 0
        <3>1. \A m \in Module : /\ Line("range", m) = (IF m \in Reported THEN 1 ELSE 0)
                                /\ Line("fail", m) = (IF m \in Failed THEN 1 ELSE 0)
            BY DEF ResultInv, LinesInv
        <3>2. Reported \subseteq Module /\ Failed \subseteq Module
            BY <2>1 DEF Failed
        <3>3. (\A m \in Module : Line("range", m) + Line("fail", m) = 0) <=> Reported = {} /\ Failed = {}
            BY <3>1, <3>2
        <3>4. QED
            BY <3>3 DEF ResultInv, RetInv
    <2>5. \A t \in threads : Line("started", t) = 1
        BY <2>2 DEF StartedInv
    <2>6. threads = Range(table) \/ Line("malloc", 0) = 1 \/ \E t \in Module : Line("nothread", t) = 1
        BY DEF StartedInv
    <2>7. Len(said) <= LogMax => bootLog = said
        BY DEF LogInv
    <2>8. QED
        BY <2>3, <2>4, <2>5, <2>6, <2>7 DEF NothingSilent
<1>2. QED
    BY <1>1, Invariance, PTL

\* Where the malloc hook is set, as this build sets it, EVENT_BOOT_DONE is published only when
\* every thread that was registered has been created, although apMain drops threadBegin's result.
THEOREM BootDoneIsTrue == ASSUME MallocHook PROVE Spec => []BootDoneMeansThreads
<1>1. IInv => BootDoneMeansThreads
    BY DEF IInv, SentInv, LoopInv, BootDoneMeansThreads, Booted
<1>2. QED
    BY <1>1, Invariance, PTL

\* An ERROR published after main's EVENT_BOOT_DONE is what every subscriber shows when the queue
\* is empty, as long as nobody else publishes EVENT_BOOT_DONE and no command has set the light since.
THEOREM ErrorsLast == Spec => []ErrorLasts
<1>1. IInv => ErrorLasts
    <2> SUFFICES ASSUME IInv, ErrorAfterBoot, queue = <<>>, NEW m \in Range(nodes)
                 PROVE  m \in byHand \/ light[m] = "ERROR"
        BY DEF ErrorLasts
    <2> USE DEF IInv
    <2>1. PICK i, j \in DOMAIN sent :
            /\ i < j /\ sent[i] = <<"BOOT_DONE", 0>> /\ sent[j][1] = "ERROR"
            /\ \A k \in DOMAIN sent : k > j /\ sent[k][1] = "BOOT_DONE" => sent[k][2] = 0
        BY DEF ErrorAfterBoot
    <2>2. Served = Len(sent) /\ Len(sent) \in Nat /\ DOMAIN sent = 1 .. Len(sent)
        BY DEF Served, TypeOK
    <2>3. ASSUME NEW k \in j + 1 .. Served PROVE sent[k][1] # "BOOT_DONE"
        <3>1. k \in DOMAIN sent /\ k > j /\ sent[k] \in Codes \X (0 .. Count)
            BY <2>1, <2>2, <2>3 DEF TypeOK
        <3>2. SUFFICES ASSUME sent[k][1] = "BOOT_DONE" PROVE FALSE
            OBVIOUS
        <3>3. sent[k] = <<"BOOT_DONE", 0>>
            BY <2>1, <3>1, <3>2
        <3>4. k = i
            BY <2>1, <3>1, <3>3 DEF SentInv
        <3>5. QED
            BY <2>1, <2>2, <3>1, <3>4
    <2>4. j \in 1 .. Served /\ sent[j][1] = "ERROR"
        BY <2>1, <2>2
    <2>5. QED
        BY <2>3, <2>4 DEF ShownInv
<1>2. QED
    BY <1>1, Invariance, PTL

-----------------------------------------------------------------------------
(***************************************************************************)
(* The status light, which a module's event callback sets: what Indicator  *)
(* promises holds whichever way the compiler loads indicator_state.        *)
(***************************************************************************)

\* A colour is not arbitrary: some state and link state of this heartbeat ask for it.
Shade == \E s \in seenState, up \in seenLink : colour = PickColor(s, up)

Seen ==
  /\ state \in seenState /\ link \in seenLink
  /\ beatPc # "rest" => picked \in seenState
  /\ beatPc = "link" => picked = "RUN"
  /\ beatPc # "link" => Shade

\* The loop of indicatorRender has put out the lamps it has passed, but for the colour's.
Swept ==
  /\ beatPc = "GREEN" => ("RED" \in leds => colour = "RED")
  /\ beatPc = "BLUE" => ("RED" \in leds => colour = "RED") /\ ("GREEN" \in leds => colour = "GREEN")
  /\ beatPc = "rest" => leds \subseteq {colour}

Steady ==
  /\ beatPc \in Lamp /\ seenState \in {{"ERROR"}, {"BOOT"}} => isOn
  /\ beatPc \in {"GREEN", "BLUE", "rest"} /\ seenState = {"ERROR"} => "RED" \in leds
  /\ beatPc = "rest" /\ begun /\ seenState = {"BOOT"} => "BLUE" \in leds

Untouched == ~ begun => state = "BOOT" /\ colour = "BLUE" /\ seenState = {"BOOT"}

LightInv == LightTypeOK /\ Seen /\ Swept /\ Steady /\ Untouched

\* Every colour picked is a lamp's.
LEMMA PickColorType ==
  ASSUME NEW s \in State, NEW up \in BOOLEAN
  PROVE  PickColor(s, up) \in Lamp
BY DEF State, Lamp, PickColor

\* LightInv holds at first and every step keeps it.
LEMMA LightStarts == LightInit => LightInv
<1> SUFFICES ASSUME LightInit PROVE LightInv OBVIOUS
<1>1. LightTypeOK BY DEF LightInit, LightTypeOK, State, Lamp
<1>2. Shade BY DEF LightInit, Shade, PickColor
<1> QED BY <1>1, <1>2 DEF LightInit, LightInv, Seen, Swept, Steady, Untouched, Lamp

LEMMA LightGoesOn == LightInv /\ [LightNext]_lightVars => LightInv'
<1> SUFFICES ASSUME LightInv, [LightNext]_lightVars PROVE LightInv' OBVIOUS
<1> USE DEF LightInv
<1>1. CASE IndicatorInit
  <2>1. LightTypeOK' BY <1>1 DEF IndicatorInit, LightTypeOK, State, Lamp
  <2>2. seenState' = seenState /\ state' = state BY <1>1 DEF IndicatorInit, Untouched
  <2>3. Shade' = Shade BY <1>1, <2>2 DEF IndicatorInit, Shade
  <2>4. Seen' BY <1>1, <2>2, <2>3 DEF IndicatorInit, Seen
  <2>5. Swept' BY <1>1 DEF IndicatorInit, Swept, Untouched
  <2>6. Steady' BY <1>1, <2>2 DEF IndicatorInit, Steady, Untouched, Lamp
  <2>7. Untouched' BY <1>1 DEF IndicatorInit, Untouched
  <2> QED BY <2>1, <2>4, <2>5, <2>6, <2>7
<1>2. ASSUME NEW s \in State, SetState(s) PROVE LightInv'
  <2>1. LightTypeOK' BY <1>2 DEF SetState, beat, LightTypeOK
  <2>2. Shade => Shade' BY <1>2 DEF SetState, beat, Shade
  <2>3. Seen' BY <1>2, <2>2 DEF SetState, beat, Seen
  <2>4. ASSUME NEW t \in State, seenState' = {t} PROVE seenState = {t}
    BY <1>2, <2>4 DEF SetState, beat, Seen
  <2>5. Swept' BY <1>2 DEF SetState, beat, Swept
  <2>6. Steady' BY <1>2, <2>4 DEF SetState, beat, Steady, State
  <2>7. Untouched' BY <1>2 DEF SetState, beat, Untouched
  <2> QED BY <2>1, <2>3, <2>5, <2>6, <2>7
<1>3. ASSUME NEW up \in BOOLEAN, SetLink(up) PROVE LightInv'
  <2>1. LightTypeOK' BY <1>3 DEF SetLink, beat, LightTypeOK
  <2>2. Shade => Shade' BY <1>3 DEF SetLink, beat, Shade
  <2> QED BY <1>3, <2>1, <2>2 DEF SetLink, beat, Seen, Swept, Steady, Untouched
<1>4. CASE Heartbeat
  <2>1. colour' \in Lamp /\ (beatPc' = "mode" => colour' = PickColor(state, link))
    BY <1>4, PickColorType DEF Heartbeat, shared, LightTypeOK
  <2>2. LightTypeOK' BY <1>4, <2>1 DEF Heartbeat, shared, LightTypeOK, Lamp
  <2>3. Seen' BY <1>4, <2>1 DEF Heartbeat, shared, Seen, Shade, LightTypeOK
  <2>4. Untouched'
    BY <1>4 DEF Heartbeat, shared, Untouched, PickColor
  <2> QED BY <1>4, <2>2, <2>3, <2>4 DEF Heartbeat, shared, Swept, Steady, Lamp
<1>5. CASE ReadLink
  <2>1. colour' = PickColor(picked, link) /\ colour' \in Lamp
    BY <1>5, PickColorType DEF ReadLink, LightTypeOK
  <2>2. LightTypeOK' BY <1>5, <2>1 DEF ReadLink, shared, history, LightTypeOK, Lamp
  <2>3. Seen' BY <1>5, <2>1 DEF ReadLink, shared, history, Seen, Shade
  <2>4. Untouched' BY <1>5 DEF ReadLink, shared, history, Untouched, Seen
  <2> QED BY <1>5, <2>2, <2>3, <2>4 DEF ReadLink, shared, history, Swept, Steady, Lamp
<1>6. CASE SetMode
  <2>1. PICK s \in {state} \cup (IF LoadsOnce THEN {picked} ELSE {}) :
          isOn' = (s \in {"ERROR", "BOOT"} \/ ~ isOn)
    BY <1>6 DEF SetMode
  <2>2. s \in seenState BY <1>6, <2>1 DEF SetMode, Seen
  <2>3. LightTypeOK'
    <3>1. isOn' \in BOOLEAN BY <2>1
    <3> QED BY <1>6, <3>1 DEF SetMode, shared, history, LightTypeOK, Lamp
  <2>4. Shade => Shade' BY <1>6 DEF SetMode, shared, history, Shade
  <2>5. Seen' BY <1>6, <2>4 DEF SetMode, shared, history, Seen
  <2>6. seenState \in {{"ERROR"}, {"BOOT"}} => isOn' BY <2>1, <2>2
  <2> QED BY <1>6, <2>3, <2>5, <2>6 DEF SetMode, shared, history, Swept, Steady, Untouched, Lamp
<1>7. CASE Render
  <2>1. LightTypeOK' BY <1>7 DEF Render, shared, history, LightTypeOK, Lamp, Follows
  <2>2. Shade => Shade' BY <1>7 DEF Render, shared, history, Shade
  <2>3. Seen' BY <1>7, <2>2 DEF Render, shared, history, Seen, Lamp, Follows
  <2>4. Untouched' BY <1>7 DEF Render, shared, history, Untouched
  <2>5. /\ seenState = {"ERROR"} => colour = "RED"
        /\ seenState = {"BOOT"} => colour = "BLUE"
    BY <1>7 DEF Render, Lamp, Seen, Shade, PickColor
  <2>6. Swept' BY <1>7 DEF Render, shared, history, Swept, LightTypeOK, Lamp, Follows
  <2>7. Steady' BY <1>7, <2>5 DEF Render, shared, history, Steady, LightTypeOK, Lamp, Follows
  <2> QED BY <2>1, <2>3, <2>4, <2>6, <2>7
<1>8. CASE Spin \/ KeyPressed \/ UNCHANGED lightVars
  <2>1. LightTypeOK' BY <1>8 DEF Spin, KeyPressed, lightVars, shared, beat, history, LightTypeOK
  <2>2. Shade' = Shade BY <1>8 DEF Spin, KeyPressed, lightVars, shared, beat, history, Shade
  <2>3. Seen' BY <1>8, <2>2 DEF Spin, KeyPressed, lightVars, shared, beat, history, Seen
  <2>4. Swept' /\ Steady'
    BY <1>8 DEF Spin, KeyPressed, lightVars, shared, beat, history, Swept, Steady
  <2>5. Untouched' BY <1>8 DEF Spin, KeyPressed, lightVars, shared, beat, history, Untouched
  <2> QED BY <2>1, <2>3, <2>4, <2>5
<1> QED BY <1>1, <1>2, <1>3, <1>4, <1>5, <1>6, <1>7, <1>8 DEF LightNext, Idle

LEMMA LightInvariance == LightSpec => []LightInv
BY LightStarts, LightGoesOn, PTL DEF LightSpec

\* Between two heartbeats at most one lamp is lit, in a colour that was asked for, and a heartbeat
\* that has seen nothing but ERROR, or nothing but BOOT, leaves its lamp lit alone.
THEOREM RestTrue == LightSpec => []RestIsTrue
<1>1. ASSUME LightInv PROVE RestShowsOneColour
  <2> SUFFICES ASSUME beatPc = "rest"
               PROVE  /\ \A c, d \in leds : c = d
                      /\ \A c \in leds : \E s \in seenState, up \in seenLink : c = PickColor(s, up)
    BY DEF RestShowsOneColour
  <2>1. leds \subseteq {colour} BY <1>1 DEF LightInv, Swept
  <2> QED BY <1>1, <2>1 DEF LightInv, Seen, Shade
<1>2. ASSUME LightInv PROVE SteadyStatesAreLit
  <2> SUFFICES ASSUME beatPc = "rest", begun
               PROVE  /\ seenState = {"ERROR"} => leds = {"RED"}
                      /\ seenState = {"BOOT"} => leds = {"BLUE"}
    BY DEF SteadyStatesAreLit
  <2>1. leds \subseteq {colour} BY <1>2 DEF LightInv, Swept
  <2> QED BY <1>2, <2>1 DEF LightInv, Steady
<1>3. LightInv => RestIsTrue BY <1>1, <1>2 DEF RestIsTrue
<1> QED BY <1>3, LightInvariance, PTL

\* The variables of the heartbeat and of the lamps keep their types.
THEOREM LightTypeCorrect == LightSpec => []LightTypeOK
<1>1. LightInv => LightTypeOK BY DEF LightInv
<1> QED BY <1>1, LightInvariance, PTL
=============================================================================
