----------------------------- MODULE Ipc_proofs -----------------------------
(***************************************************************************)
(* The verdict of the handshake, and what ipcIsRunning answers later, for  *)
(* every choice of the time constants, every number of resets and every    *)
(* content of the retained memory.                                         *)
(***************************************************************************)
EXTENDS Ipc, TLAPS

\* While CPU1 is held nothing of this session is in the block, and the magic word goes before CPU1 runs.
HeldInv ==
  /\ pc0 \in {"clear", "start"} => pc1 = "held" /\ state = "DISABLED"
  /\ pc0 = "start" => pend0 \/ ~ magic
  /\ pc0 \notin {"clear", "start"} => ~ pend0 /\ (magic => "magic" \in written)
  /\ pc1 = "held" => pend1 = {} /\ written = {}

\* CPU1's stores reach the block in two groups, the magic word alone in the second.
OrderInv ==
  /\ pc1 = "init" => pend1 = {} /\ written = {}
  /\ pc1 = "barrier" => Early \subseteq pend1 \cup written /\ "magic" \notin pend1 \cup written
  /\ "magic" \in pend1 \cup written => Early \subseteq written
  /\ pc1 \in {"init", "barrier"} \/ "version" \in pend1 \cup written => image \in Version
  /\ "version" \in written => version = image /\ "version" \notin pend1
  /\ "magic" \in pend1 => pend1 = {"magic"}

\* What CPU0 knows of CPU1 at each step of its loop.
VerdictInv ==
  /\ pc0 \in {"barrier", "version"} => "magic" \in written
  /\ pc0 = "version" => fetched = "none"
  /\ state \in {"RUNNING", "BAD_VERSION"} => "magic" \in written
  /\ VerdictMatchesImage

\* How long CPU0 has waited at each step of its loop, and how late the magic word must then be: it
\* was not there at the last look, a millisecond before the next comparison of times.
WaitInv ==
  /\ magicAt = Never <=> "magic" \notin written
  /\ "magic" \in written => magic /\ ~ pend0
  /\ pc0 = "poll" => elapsed <= BootTimeout /\ (magicAt = Never \/ magicAt + 1 >= elapsed)
  /\ pc0 = "look" => elapsed < BootTimeout
  /\ pc0 = "delay" => elapsed < BootTimeout /\ (magicAt = Never \/ magicAt >= elapsed)
  /\ pc0 \in {"poll", "look", "barrier", "version", "delay"} => state = "TIMEOUT"
  /\ pc0 = "latch" /\ state = "TIMEOUT" => elapsed >= BootTimeout
  /\ pc0 \in {"latch", "app", "answer"} /\ state = "TIMEOUT"
       => magicAt = Never \/ magicAt + 1 >= BootTimeout
  /\ pc0 \in {"app", "answer"} /\ state = "TIMEOUT" => elapsed >= BootTimeout

IInv == TypeOK /\ HeldInv /\ OrderInv /\ VerdictInv /\ WaitInv

-----------------------------------------------------------------------------
LEMMA OlderAge == \A age \in Age : Older(age) \in Age
BY TimeAssumption DEF Age, Older

LEMMA ZeroAge == 0 \in Age /\ 0 \in Laps
BY TimeAssumption DEF Age, Laps

\* The time since the last change that was seen stays within two turns of the clock.
LEMMA OnwardLaps == \A age \in Laps : Onward(age) \in Laps
BY TimeAssumption DEF Laps, Onward

\* In the first turn the 32-bit difference is the time itself, and it is never more.
LEMMA Difference == ASSUME NEW age \in Nat
                    PROVE  /\ age < ClockMod => age % ClockMod = age
                           /\ age % ClockMod \in Nat /\ age % ClockMod <= age
<1>1. ClockMod \in Nat /\ ClockMod > 0
    BY TimeAssumption
<1>2. age % ClockMod \in 0 .. ClockMod - 1
    BY <1>1
<1>3. age < ClockMod => age % ClockMod = age
    BY <1>1
<1>4. QED
    BY <1>1, <1>2, <1>3

LEMMA InvInit == Init => IInv
<1> SUFFICES ASSUME Init PROVE IInv
    OBVIOUS
<1>1. TypeOK
    <2>1. resets \in 0 .. MaxResets /\ lastAlive \in 0 .. AliveMod - 1
        BY TimeAssumption DEF Init
    <2>2. QED
        BY <2>1, ZeroAge DEF Init, TypeOK, Image
<1>2. HeldInv /\ OrderInv /\ VerdictInv /\ WaitInv
    BY DEF Init, HeldInv, OrderInv, VerdictInv, VerdictMatchesImage, WaitInv, Early
<1>3. QED
    BY <1>1, <1>2 DEF IInv

LEMMA TypeNext == IInv /\ [Next]_vars => TypeOK'
<1> SUFFICES ASSUME IInv, [Next]_vars PROVE TypeOK'
    OBVIOUS
<1> USE DEF IInv, TypeOK, block, cpu0, cpu1, clocks, board, hist
<1>1. CASE ClearMagic
    BY <1>1 DEF ClearMagic
<1>2. CASE StartPeer
    BY <1>2, ZeroAge DEF StartPeer
<1>3. CASE PollTime
    BY <1>3 DEF PollTime
<1>4. CASE LookForMagic
    BY <1>4 DEF LookForMagic
<1>5. CASE Barrier0
    BY <1>5 DEF Barrier0, Image
<1>6. CASE CheckVersion
    BY <1>6 DEF CheckVersion
<1>7. CASE Latch
    BY <1>7, ZeroAge DEF Latch
<1>8. CASE FetchVersion
    BY <1>8 DEF FetchVersion, Image
<1>9. CASE AskAlive
    BY <1>9, ZeroAge DEF AskAlive
<1>10. CASE Answer
    BY <1>10, ZeroAge DEF Answer
<1>11. CASE StoreFields
    BY <1>11 DEF StoreFields, Fields
<1>12. CASE StoreMagic
    BY <1>12, ZeroAge DEF StoreMagic, Fields
<1>13. CASE Beat
    <2>1. (alive + 1) % AliveMod \in 0 .. AliveMod - 1
        BY TimeAssumption
    <2>2. QED
        BY <1>13, <2>1, ZeroAge DEF Beat
<1>14. CASE Fault
    BY <1>14 DEF Fault
<1>15. CASE Drain0
    BY <1>15 DEF Drain0
<1>16. ASSUME NEW f \in Fields, Drain1(f) PROVE TypeOK'
    <2>1. version' \in Version
        BY <1>16 DEF Drain1, OrderInv
    <2>2. alive' \in 0 .. AliveMod - 1
        BY <1>16, TimeAssumption DEF Drain1
    <2>3. pend1' \subseteq Fields /\ written' \subseteq Fields /\ magicAt' \in Age \cup {Never} /\ magic' \in BOOLEAN
        BY <1>16 DEF Drain1
    <2>4. QED
        BY <1>16, <2>1, <2>2, <2>3 DEF Drain1
<1>17. CASE Tick
    BY <1>17, OlderAge, OnwardLaps DEF Tick
<1>18. CASE Reset
    <2>1. resets' \in 0 .. MaxResets /\ lastAlive' \in 0 .. AliveMod - 1
        BY <1>18, TimeAssumption DEF Reset
    <2>2. QED
        BY <1>18, <2>1, ZeroAge DEF Reset, Image
<1>19. CASE UNCHANGED vars
    BY <1>19 DEF vars
<1>20. QED
    BY <1>1, <1>2, <1>3, <1>4, <1>5, <1>6, <1>7, <1>8, <1>9, <1>10, <1>11, <1>12, <1>13, <1>14,
       <1>15, <1>16, <1>17, <1>18, <1>19 DEF Next, Boot, Watch, Cpu1, Drain

LEMMA InvNext == IInv /\ [Next]_vars => HeldInv' /\ OrderInv' /\ VerdictInv'
<1> SUFFICES ASSUME IInv, [Next]_vars PROVE HeldInv' /\ OrderInv' /\ VerdictInv'
    OBVIOUS
<1> USE DEF IInv, TypeOK, HeldInv, OrderInv, VerdictInv, VerdictMatchesImage,
            block, cpu0, cpu1, clocks, board, hist
<1>1. CASE ClearMagic
    BY <1>1 DEF ClearMagic
<1>2. CASE StartPeer
    BY <1>2 DEF StartPeer, Image
<1>3. CASE PollTime
    BY <1>3 DEF PollTime
<1>4. CASE LookForMagic
    BY <1>4 DEF LookForMagic
<1>5. CASE Barrier0
    BY <1>5 DEF Barrier0
<1>6. CASE CheckVersion
    <2>1. "magic" \in written /\ "version" \in written /\ version = image /\ image \in Version
        BY <1>6 DEF CheckVersion, Early
    <2>2. QED
        BY <1>6, <2>1 DEF CheckVersion, Version
<1>7. CASE Latch
    BY <1>7 DEF Latch
<1>8. CASE FetchVersion
    BY <1>8 DEF FetchVersion
<1>9. CASE AskAlive
    BY <1>9 DEF AskAlive
<1>10. CASE Answer
    BY <1>10 DEF Answer
<1>11. CASE StoreFields
    BY <1>11 DEF StoreFields, Early
<1>12. CASE StoreMagic
    BY <1>12 DEF StoreMagic, Early
<1>13. CASE Beat
    BY <1>13 DEF Beat
<1>14. CASE Fault
    BY <1>14 DEF Fault
<1>15. CASE Drain0
    BY <1>15 DEF Drain0
<1>16. ASSUME NEW f \in Fields, Drain1(f) PROVE HeldInv' /\ OrderInv' /\ VerdictInv'
    <2>1. HeldInv'
        BY <1>16 DEF Drain1
    <2>2. OrderInv'
        BY <1>16 DEF Drain1, Early
    <2>3. VerdictInv'
        BY <1>16 DEF Drain1
    <2>4. QED
        BY <2>1, <2>2, <2>3
<1>17. CASE Tick
    BY <1>17 DEF Tick
<1>18. CASE Reset
    BY <1>18 DEF Reset
<1>19. CASE UNCHANGED vars
    BY <1>19 DEF vars
<1>20. QED
    BY <1>1, <1>2, <1>3, <1>4, <1>5, <1>6, <1>7, <1>8, <1>9, <1>10, <1>11, <1>12, <1>13, <1>14,
       <1>15, <1>16, <1>17, <1>18, <1>19 DEF Next, Boot, Watch, Cpu1, Drain

LEMMA WaitNext == IInv /\ [Next]_vars => WaitInv'
<1> SUFFICES ASSUME IInv, [Next]_vars PROVE WaitInv'
    OBVIOUS
<1>a. /\ elapsed \in Nat /\ elapsed <= MaxAge /\ magicAt \in Nat /\ Never = MaxAge + 1
      /\ MaxAge \in Nat /\ BootTimeout \in Nat /\ BootTimeout <= MaxAge /\ magicAt <= Never
    BY TimeAssumption DEF IInv, TypeOK, Age, Never
<1> USE DEF WaitInv
<1>b. WaitInv /\ HeldInv
    BY DEF IInv
<1>1. CASE ClearMagic
    <2>1. "magic" \notin written
        BY <1>1, <1>b DEF ClearMagic, HeldInv
    <2>2. QED
        BY <1>1, <1>b, <2>1 DEF ClearMagic, clocks, hist
<1>2. CASE StartPeer
    <2>1. "magic" \notin written /\ magicAt = Never
        BY <1>2, <1>b DEF StartPeer, HeldInv
    <2>2. QED
        BY <1>2, <1>a, <1>b, <2>1 DEF StartPeer, hist
<1>3. CASE PollTime
    BY <1>3, <1>a, <1>b DEF PollTime, block, clocks, hist
<1>4. CASE LookForMagic
    BY <1>4, <1>a, <1>b DEF LookForMagic, block, clocks, hist
<1>5. CASE Barrier0
    BY <1>5, <1>a, <1>b DEF Barrier0, block, clocks, hist
<1>6. CASE CheckVersion
    BY <1>6, <1>a, <1>b DEF CheckVersion, block, clocks, hist
<1>7. CASE Latch
    BY <1>7, <1>a, <1>b DEF Latch, block, clocks, hist
<1>8. CASE FetchVersion \/ AskAlive \/ Answer
    <2>1. UNCHANGED <<magic, pend0, state, elapsed, written, magicAt>>
        BY <1>8 DEF FetchVersion, AskAlive, Answer, block, clocks, hist
    <2>2. pc0' = pc0 \/ (pc0 \in {"app", "answer"} /\ pc0' \in {"app", "answer"})
        BY <1>8 DEF FetchVersion, AskAlive, Answer
    <2>3. QED
        BY <1>b, <2>1, <2>2
<1>9. CASE StoreFields \/ StoreMagic \/ Beat \/ Fault
    <2>1. UNCHANGED <<magic, pend0, pc0, state, elapsed, written, magicAt>>
        BY <1>9 DEF StoreFields, StoreMagic, Beat, Fault, block, cpu0, clocks, hist
    <2>2. QED
        BY <1>b, <2>1
<1>10. CASE Drain0
    BY <1>10, <1>b DEF Drain0, cpu0, clocks, hist
<1>11. ASSUME NEW f \in Fields, Drain1(f) PROVE WaitInv'
    <2>1. UNCHANGED <<pend0, pc0, state, elapsed>>
        BY <1>11 DEF Drain1, cpu0, clocks
    <2>2. CASE f = "magic"
        <3>1. magic' /\ magicAt' = elapsed /\ "magic" \in written'
            BY <1>11, <2>2 DEF Drain1
        <3>2. ~ pend0
            BY <1>11, <2>2, <1>b DEF IInv, OrderInv, Drain1, HeldInv
        <3>3. QED
            BY <1>a, <1>b, <2>1, <3>1, <3>2
    <2>3. CASE f # "magic"
        <3>1. magic' = magic /\ magicAt' = magicAt /\ ("magic" \in written' <=> "magic" \in written)
            BY <1>11, <2>3 DEF Drain1
        <3>2. QED
            BY <1>b, <2>1, <3>1
    <2>4. QED
        BY <2>2, <2>3
<1>12. CASE Tick
    <2>1. UNCHANGED <<magic, pend0, state, written, magicAt>>
        BY <1>12 DEF Tick, block, hist
    <2>2. elapsed' = IF elapsed < MaxAge THEN elapsed + 1 ELSE elapsed
        BY <1>12 DEF Tick, Older
    <2>3. (pc0 = "delay" /\ pc0' = "poll") \/ (pc0 = "app" /\ pc0' = "app")
        BY <1>12 DEF Tick
    <2>4. QED
        BY <1>a, <1>b, <2>1, <2>2, <2>3
<1>13. CASE Reset
    BY <1>13, <1>a DEF Reset
<1>14. CASE UNCHANGED vars
    BY <1>14, <1>b DEF vars, block, cpu0, clocks, hist
<1>15. QED
    BY <1>1, <1>2, <1>3, <1>4, <1>5, <1>6, <1>7, <1>8, <1>9, <1>10, <1>11, <1>12, <1>13, <1>14
       DEF Next, Boot, Watch, Cpu1, Drain

LEMMA Invariance == Spec => []IInv
<1>1. IInv /\ [Next]_vars => IInv'
    BY TypeNext, InvNext, WaitNext DEF IInv
<1>2. QED
    BY InvInit, <1>1, PTL DEF Spec

\* RUNNING and BAD_VERSION are verdicts on the image CPU1 really runs, and with RUNNING every
\* field is there.
THEOREM VerdictGenuine == Spec => []VerdictIsGenuine
<1>1. IInv => RunningIsGenuine
    BY DEF IInv, TypeOK, OrderInv, VerdictInv, RunningIsGenuine, Fields
<1>2. IInv => VerdictMatchesImage
    BY DEF IInv, VerdictInv
<1>3. IInv => VerdictIsGenuine
    BY <1>1, <1>2 DEF VerdictIsGenuine
<1>4. QED
    BY <1>3, Invariance, PTL

\* A TIMEOUT is one: the magic word was not visible in the last millisecond of the wait, whatever
\* the timeout is and wherever in it CPU1's store arrives.
THEOREM TimeoutGenuine == Spec => []TimeoutMeansLate
<1>1. IInv => TimeoutMeansLate
    BY DEF IInv, WaitInv, TimeoutMeansLate
<1>2. QED
    BY <1>1, Invariance, PTL

\* The variables of both cores keep their types: the ages stay in their bounds and no field of the
\* block is ever something CPU0 has no case for.
THEOREM TypeCorrect == Spec => []TypeOK
<1>1. IInv => TypeOK
    BY DEF IInv
<1>2. QED
    BY <1>1, Invariance, PTL

-----------------------------------------------------------------------------
(***************************************************************************)
(* The answers of ipcIsRunning.  They are about the time since a change of *)
(* the counter was seen; what follows relates that time to the time of     *)
(* CPU1's last beat.                                                       *)
(***************************************************************************)
\* What is left of CPU1's stores, and what is said only of a running peer.
CallInv ==
  /\ "magic" \in written => pend1 = {}
  /\ pc0 = "answer" => state = "RUNNING"
  /\ pc0 \in {"app", "answer"} => pollAge <= PollPeriod

\* The times of CPU1's life.
BirthInv ==
  /\ beatAge <= elapsed
  /\ pc0 \in {"clear", "start"} => beatAge = 0
  /\ pc0 \in {"barrier", "version"} \/ (pc0 = "latch" /\ state = "RUNNING") => elapsed < BootTimeout

\* A change of the counter that has not been seen is younger than the last call, and one that was
\* seen had been so.
FreshInv ==
  /\ pc0 \in {"app", "answer"} /\ state = "RUNNING"
       => /\ WentRound \/ beatAge <= seenAge + PollPeriod
          /\ alive # lastAlive => beatAge <= pollAge
  /\ pc0 = "answer" /\ alive # lastAlive => beatAge = 0

Calling == IInv /\ CallInv /\ BirthInv

\* When the program starts nobody has called.
LEMMA CallInit == Init => CallInv /\ BirthInv /\ FreshInv
BY DEF Init, CallInv, BirthInv, FreshInv, WentRound

\* The ages are numbers with a bound.
LEMMA AgesAre ==
  ASSUME TypeOK
  PROVE  /\ elapsed \in Nat /\ seenAge \in Nat /\ beatAge \in Nat /\ pollAge \in Nat /\ MaxAge \in Nat
         /\ elapsed <= MaxAge /\ seenAge < 2 * ClockMod /\ ClockMod \in Nat /\ beatAge <= MaxAge /\ pollAge <= MaxAge
         /\ BootTimeout \in Nat /\ AliveTimeout \in Nat /\ BeatPeriod \in Nat /\ PollPeriod \in Nat
BY TimeAssumption DEF TypeOK, Age, Laps

\* Every step but a tick, by what it does to what the answers depend on.
LEMMA StepKinds ==
  ASSUME IInv, [Next]_vars
  PROVE  \/ Tick
         \/ AskAlive
         \/ Answer
         \/ Latch
         \/ Beat
         \/ StoreMagic
         \/ Reset
         \/ StartPeer
         \/ CheckVersion
         \/ PollTime
         \/ LookForMagic
         \/ \E f \in Fields : Drain1(f)
         \/ ClearMagic \/ Barrier0 \/ FetchVersion \/ StoreFields \/ Fault \/ Drain0 \/ UNCHANGED vars
BY DEF Next, Boot, Watch, Cpu1, Drain

\* A step keeps the bookkeeping of the calls.
LEMMA CallNext == Calling /\ [Next]_vars => CallInv'
<1> SUFFICES ASSUME Calling, [Next]_vars PROVE CallInv'
    OBVIOUS
<1> USE DEF CallInv, block, cpu0, cpu1, clocks, board, hist
<1>0. /\ IInv /\ CallInv /\ TypeOK /\ OrderInv /\ HeldInv /\ VerdictInv
      /\ pollAge \in Nat /\ PollPeriod \in Nat /\ MaxAge \in Nat
    BY AgesAre DEF Calling, IInv
<1>1. CASE Tick
    BY <1>0, <1>1 DEF Tick, Older
<1>2. CASE AskAlive \/ Answer \/ Latch
    BY <1>0, <1>2 DEF AskAlive, Answer, Latch
<1>3. CASE Beat \/ StoreMagic \/ StoreFields
    BY <1>0, <1>3 DEF Beat, StoreMagic, StoreFields, OrderInv
<1>4. CASE Reset \/ StartPeer \/ CheckVersion \/ PollTime \/ LookForMagic
    BY <1>0, <1>4 DEF Reset, StartPeer, CheckVersion, PollTime, LookForMagic
<1>5. ASSUME NEW f \in Fields, Drain1(f) PROVE CallInv'
    BY <1>0, <1>5 DEF Drain1, OrderInv
<1>6. CASE ClearMagic \/ Barrier0 \/ FetchVersion \/ Fault \/ Drain0 \/ UNCHANGED vars
    BY <1>0, <1>6 DEF ClearMagic, Barrier0, FetchVersion, Fault, Drain0, vars
<1>7. QED
    BY <1>0, <1>1, <1>2, <1>3, <1>4, <1>5, <1>6, StepKinds

\* A step keeps what is known of CPU1's last beat.
LEMMA BirthNext == Calling /\ [Next]_vars => BirthInv'
<1> SUFFICES ASSUME Calling, [Next]_vars PROVE BirthInv'
    OBVIOUS
<1> USE DEF BirthInv, block, cpu0, cpu1, clocks, board, hist
<1>0. /\ IInv /\ BirthInv /\ TypeOK /\ WaitInv /\ HeldInv
      /\ elapsed \in Nat /\ beatAge \in Nat /\ MaxAge \in Nat /\ BootTimeout \in Nat
      /\ elapsed <= MaxAge /\ beatAge <= MaxAge
    BY AgesAre DEF Calling, IInv
<1>1. CASE Tick
    BY <1>0, <1>1 DEF Tick, Older
<1>2. CASE AskAlive \/ Answer \/ Latch
    BY <1>0, <1>2 DEF AskAlive, Answer, Latch
<1>3. CASE Beat \/ StoreMagic \/ StoreFields
    BY <1>0, <1>3 DEF Beat, StoreMagic, StoreFields, HeldInv
<1>4. CASE Reset \/ StartPeer \/ CheckVersion \/ PollTime \/ LookForMagic
    BY <1>0, <1>4 DEF Reset, StartPeer, CheckVersion, PollTime, LookForMagic, WaitInv
<1>5. ASSUME NEW f \in Fields, Drain1(f) PROVE BirthInv'
    BY <1>0, <1>5 DEF Drain1
<1>6. CASE ClearMagic \/ Barrier0 \/ FetchVersion \/ Fault \/ Drain0 \/ UNCHANGED vars
    BY <1>0, <1>6 DEF ClearMagic, Barrier0, FetchVersion, Fault, Drain0, vars
<1>7. QED
    BY <1>0, <1>1, <1>2, <1>3, <1>4, <1>5, <1>6, StepKinds

\* Both hold throughout, through resets and faults.
LEMMA Called == Spec => []Calling
<1>1. Init => CallInv /\ BirthInv
    BY CallInit
<1>2. IInv /\ CallInv /\ BirthInv /\ [Next]_vars => CallInv' /\ BirthInv'
    BY CallNext, BirthNext DEF Calling
<1>3. Calling <=> IInv /\ CallInv /\ BirthInv
    BY DEF Calling
<1>4. QED
    BY <1>1, <1>2, <1>3, Invariance, PTL DEF Spec

\* A step keeps the age of the last beat near the age of the last change CPU0 saw.
LEMMA FreshNext == ASSUME BootTimeout <= PollPeriod
                   PROVE  Calling /\ FreshInv /\ [Next]_vars => FreshInv'
<1> SUFFICES ASSUME Calling, FreshInv, [Next]_vars PROVE FreshInv'
    OBVIOUS
<1> USE DEF FreshInv, WentRound, block, cpu0, cpu1, clocks, board, hist
<1>0. /\ IInv /\ CallInv /\ BirthInv /\ TypeOK /\ VerdictInv
      /\ elapsed \in Nat /\ seenAge \in Nat /\ beatAge \in Nat /\ pollAge \in Nat /\ MaxAge \in Nat
      /\ elapsed <= MaxAge /\ seenAge < 2 * ClockMod /\ ClockMod \in Nat /\ beatAge <= MaxAge /\ pollAge <= MaxAge
      /\ PollPeriod \in Nat /\ BootTimeout \in Nat
    BY AgesAre DEF Calling, IInv
<1>1. CASE Tick
    BY <1>0, <1>1 DEF Tick, Older, Onward
<1>2. CASE AskAlive
    <2>1. state = "RUNNING" => magic
        BY <1>0 DEF IInv, VerdictInv, WaitInv
    <2>2. QED
        BY <1>0, <1>2, <2>1 DEF AskAlive, CallInv
<1>3. CASE Answer
    BY <1>0, <1>3 DEF Answer, CallInv
<1>4. CASE Latch
    BY <1>0, <1>4 DEF Latch, BirthInv
<1>5. CASE Beat \/ StoreMagic \/ StoreFields
    BY <1>0, <1>5 DEF Beat, StoreMagic, StoreFields
<1>6. CASE Reset \/ StartPeer \/ CheckVersion \/ PollTime \/ LookForMagic
    BY <1>0, <1>6 DEF Reset, StartPeer, CheckVersion, PollTime, LookForMagic
<1>7. ASSUME NEW f \in Fields, Drain1(f) PROVE FreshInv'
    BY <1>0, <1>7 DEF Drain1, CallInv, VerdictInv
<1>8. CASE ClearMagic \/ Barrier0 \/ FetchVersion \/ Fault \/ Drain0 \/ UNCHANGED vars
    BY <1>0, <1>8 DEF ClearMagic, Barrier0, FetchVersion, Fault, Drain0, vars
<1>9. QED
    BY <1>0, <1>1, <1>2, <1>3, <1>4, <1>5, <1>6, <1>7, <1>8, StepKinds

\* A dead peer is not said to run for longer than the timeout and the time between two calls, until
\* the clock has gone round, if the first call may come as late as the wait at boot can have lasted.
THEOREM PolledAnswersFresh == ASSUME BootTimeout <= PollPeriod PROVE Spec => PolledAnswerIsFresh
<1>1. Init => FreshInv
    BY CallInit
<1>2. Calling /\ FreshInv /\ [Next]_vars => FreshInv'
    BY FreshNext
<1>3. Calling /\ FreshInv /\ [Next]_vars => [Answer /\ answer' => WentRound \/ beatAge < AliveTimeout + PollPeriod]_vars
    <2> SUFFICES ASSUME Calling, FreshInv, Answer, answer', ~ WentRound
                 PROVE  beatAge < AliveTimeout + PollPeriod
        OBVIOUS
    <2>0. TypeOK /\ state = "RUNNING" /\ pc0 = "answer" /\ seenAge % ClockMod < AliveTimeout
        BY DEF Calling, IInv, CallInv, Answer
    <2>1. TypeOK /\ state = "RUNNING" /\ pc0 = "answer" /\ seenAge < AliveTimeout
        BY <2>0, AgesAre, Difference DEF WentRound
    <2>2. beatAge <= seenAge + PollPeriod
        BY <2>1 DEF FreshInv
    <2>3. QED
        BY <2>1, <2>2, AgesAre
<1>4. QED
    BY <1>1, <1>2, <1>3, Called, PTL DEF Spec, PolledAnswerIsFresh

(***************************************************************************)
(* A peer that lives.  What ipcIsRunning compares are two samples of a     *)
(* counter that wraps: n counts CPU1's beats since the last sample.        *)
(***************************************************************************)
\* The caller is called often enough for the width of the counter, and CPU1 beats in time.
InTime ==
  /\ BeatPeriod > 0 /\ BeatPeriod < AliveTimeout /\ BeatPeriod <= MaxAge /\ PollPeriod <= MaxAge
  /\ PollPeriod < (AliveMod - 1) * BeatPeriod

Spaced(n) ==
  /\ (n - 1) * BeatPeriod + beatAge <= pollAge
  /\ pc1 = "loop" => beatAge >= BeatPeriod
  /\ pc0 = "answer" => n = 1 /\ beatAge = 0

Beaten(n) ==
  /\ n < AliveMod
  /\ alive = IF lastAlive + n < AliveMod THEN lastAlive + n ELSE lastAlive + n - AliveMod
  /\ n = 0 => seenAge <= beatAge
  /\ n > 0 => Spaced(n)

\* CPU1 is never late by its own clock; while it lives its beats since the last call are counted.
LiveInv ==
  /\ pc1 = "delay" => beatAge < BeatPeriod
  /\ pc1 = "loop" => beatAge <= BeatPeriod
  /\ pc1 \in {"loop", "delay"} /\ pc0 \in {"app", "answer"} /\ state = "RUNNING"
       => \E n \in Nat : Beaten(n)
  /\ pc1 \in {"loop", "delay"} /\ pc0 = "answer" => seenAge < AliveTimeout

\* Products of the period.
LEMMA OneMore == ASSUME NEW n \in Nat, NEW p \in Nat, n > 0 PROVE n * p = (n - 1) * p + p
OBVIOUS

\* What takes less time than m beats is fewer than m beats.
LEMMA FewBeats == ASSUME NEW n \in Nat, NEW m \in Nat, NEW p \in Nat, p > 0, n * p < m * p PROVE n < m
<1>1. CASE n >= m
    <2>1. PICK d \in Nat : n = m + d
        <3>1. n - m \in Nat /\ n = m + (n - m)
            BY <1>1
        <3>2. QED
            BY <3>1
    <2>2. n * p = m * p + d * p /\ d * p \in Nat /\ m * p \in Nat
        BY <2>1
    <2>3. QED
        BY <2>2
<1>2. QED
    BY <1>1

\* One tick later the beats counted still fit in the time since the last call.
LEMMA Onwards == ASSUME NEW x \in Nat, NEW b \in Nat, NEW c \in Nat, NEW q \in Nat,
                        x + b <= q, c <= b + 1
                 PROVE  x + c <= q + 1
OBVIOUS

\* How the alive counter goes on from its last value.
LEMMA Wraps == ASSUME NEW a \in 0 .. AliveMod - 1
               PROVE  (a + 1) % AliveMod = IF a + 1 < AliveMod THEN a + 1 ELSE 0
<1>1. AliveMod \in Nat /\ AliveMod > 1
    BY TimeAssumption
<1>2. CASE a + 1 < AliveMod
    BY <1>1, <1>2
<1>3. CASE a + 1 = AliveMod
    BY <1>1, <1>3
<1>4. QED
    BY <1>1, <1>2, <1>3

\* Where the sample is the counter itself, no beat has come since.
LEMMA NoBeat == ASSUME alive' \in 0 .. AliveMod - 1, lastAlive' = alive', seenAge' <= beatAge'
                PROVE  \E n \in Nat : Beaten(n)'
<1>1. AliveMod \in Nat /\ AliveMod > 1
    BY TimeAssumption
<1>2. alive' \in Nat /\ alive' < AliveMod
    BY <1>1
<1>3. PICK n \in Nat : n = 0
    OBVIOUS
<1>4. ~(n > 0) /\ n < AliveMod
    BY <1>1, <1>3
<1>5. \A x \in Nat : x + n = x
    BY <1>3
<1>6. lastAlive' + n = lastAlive'
    BY <1>2, <1>5
<1>7. Beaten(n)'
    BY <1>2, <1>4, <1>6 DEF Beaten
<1>8. QED
    BY <1>7

\* A step keeps the count of CPU1's beats since the last call.
LEMMA LiveNext == ASSUME InTime PROVE Calling /\ LiveInv /\ [Next]_vars => LiveInv'
<1> SUFFICES ASSUME Calling, LiveInv, [Next]_vars PROVE LiveInv'
    OBVIOUS
<1> USE DEF LiveInv
<1>0. /\ IInv /\ CallInv /\ BirthInv /\ TypeOK /\ VerdictInv
      /\ elapsed \in Nat /\ seenAge \in Nat /\ beatAge \in Nat /\ pollAge \in Nat /\ MaxAge \in Nat
      /\ elapsed <= MaxAge /\ seenAge < 2 * ClockMod /\ ClockMod \in Nat /\ beatAge <= MaxAge /\ pollAge <= MaxAge
      /\ PollPeriod \in Nat /\ BeatPeriod \in Nat /\ AliveTimeout \in Nat
      /\ BeatPeriod > 0 /\ BeatPeriod < AliveTimeout /\ BeatPeriod <= MaxAge /\ PollPeriod <= MaxAge
      /\ AliveMod \in Nat /\ AliveMod > 1
      /\ alive \in 0 .. AliveMod - 1 /\ lastAlive \in 0 .. AliveMod - 1
    BY AgesAre, TimeAssumption DEF Calling, IInv, InTime, TypeOK
<1>m. state = "RUNNING" => magic /\ written = Fields /\ pend1 = {}
    <2>1. IInv => RunningIsGenuine
        BY DEF IInv, TypeOK, OrderInv, VerdictInv, RunningIsGenuine, Fields
    <2>2. QED
        BY <1>0, <2>1 DEF RunningIsGenuine, IInv, WaitInv, CallInv, Fields
\* A step after which the beats are counted as before.
<1>same. ASSUME UNCHANGED <<alive, lastAlive, seenAge, beatAge, pollAge>>,
                pc1' = pc1, pc0' = pc0, NEW n \in Nat, Beaten(n)
         PROVE  Beaten(n)'
    BY <1>same DEF Beaten, Spaced
<1>1. CASE Tick
    <2>1. /\ pc0' = pc0 \/ pc0' = "poll"
          /\ pc0' # "answer" /\ pc1 # "loop"
          /\ beatAge' = Older(beatAge) /\ seenAge' = Onward(seenAge) /\ pollAge' = Older(pollAge)
          /\ pc1' = IF pc1 = "delay" /\ beatAge + 1 >= BeatPeriod THEN "loop" ELSE pc1
          /\ alive' = alive /\ lastAlive' = lastAlive /\ state' = state
          /\ pc0' = "app" => pc0 = "app" /\ pollAge < PollPeriod
        BY <1>1 DEF Tick, block
    <2>2. /\ pc1' = "delay" => beatAge' < BeatPeriod
          /\ pc1' = "loop" => beatAge' <= BeatPeriod /\ beatAge' >= BeatPeriod /\ pc1 = "delay"
        BY <1>0, <2>1 DEF Older
    <2>3. ASSUME pc1' \in {"loop", "delay"}, pc0' = "app", state' = "RUNNING"
          PROVE  \E n \in Nat : Beaten(n)'
        <3>1. PICK n \in Nat : Beaten(n)
            BY <2>1, <2>2, <2>3
        <3>2. pollAge' = pollAge + 1 /\ beatAge' <= beatAge + 1 /\ beatAge' \in Nat
            BY <1>0, <2>1, <2>3 DEF Older
        <3>3. n = 0 => seenAge' <= beatAge'
            <4>1. pc1 = "delay" /\ beatAge < BeatPeriod
                BY <2>1, <2>3
            <4>2. beatAge' = beatAge + 1
                BY <1>0, <2>1, <4>1 DEF Older
            <4>3. seenAge' <= seenAge + 1
                BY <1>0, <2>1 DEF Onward
            <4>4. n = 0 => seenAge <= beatAge
                BY <3>1 DEF Beaten
            <4>5. seenAge' \in Nat
                BY <1>0, <2>1 DEF Onward
            <4>6. QED
                BY <1>0, <4>2, <4>3, <4>4, <4>5
        <3>4. n > 0 => (n - 1) * BeatPeriod + beatAge' <= pollAge'
            <4> SUFFICES ASSUME n > 0 PROVE (n - 1) * BeatPeriod + beatAge' <= pollAge'
                OBVIOUS
            <4>1. (n - 1) * BeatPeriod \in Nat
                BY <1>0
            <4>2. (n - 1) * BeatPeriod + beatAge <= pollAge
                BY <3>1 DEF Beaten, Spaced
            <4>3. QED
                BY <3>2, <4>1, <4>2, <1>0, Onwards
        <3>5. Beaten(n)'
            BY <2>1, <2>2, <2>3, <3>1, <3>3, <3>4 DEF Beaten, Spaced
        <3>6. QED
            BY <3>5
    <2>4. QED
        BY <2>1, <2>2, <2>3
<1>2. CASE AskAlive
    <2>1. UNCHANGED <<alive, state, pc1, beatAge>>
        BY <1>2 DEF AskAlive, block, cpu1
    <2>2. CASE state = "RUNNING"
        <3>1. /\ pc0 = "app" /\ pc0' = "answer" /\ lastAlive' = alive /\ pollAge' = pollAge
              /\ seenAge' = IF alive # lastAlive THEN 0 ELSE seenAge
            BY <1>m, <1>2, <2>2 DEF AskAlive
        <3>2. ASSUME pc1 \in {"loop", "delay"} PROVE seenAge' <= beatAge
            <4>1. PICK n \in Nat : Beaten(n)
                BY <2>2, <3>1, <3>2
            <4>2. n # 0 => alive # lastAlive
                BY <1>0, <4>1 DEF Beaten, Spaced
            <4>3. QED
                BY <1>0, <3>1, <4>1, <4>2 DEF Beaten, Spaced
        <3>3. ASSUME pc1 \in {"loop", "delay"} PROVE (\E n \in Nat : Beaten(n)') /\ seenAge' < AliveTimeout
            <4>1. seenAge' <= beatAge' /\ seenAge' \in Nat
                BY <1>0, <2>1, <3>1, <3>2, <3>3
            <4>2. alive' \in 0 .. AliveMod - 1 /\ lastAlive' = alive'
                BY <1>0, <2>1, <3>1
            <4>3. \E n \in Nat : Beaten(n)'
                BY <1>0, <4>1, <4>2, NoBeat
            <4>4. beatAge' <= BeatPeriod
                BY <1>0, <2>1, <3>3
            <4>5. QED
                BY <1>0, <2>1, <4>1, <4>3, <4>4
        <3>4. QED
            BY <2>1, <3>1, <3>3
    <2>3. CASE state # "RUNNING"
        BY <1>2, <2>1, <2>3 DEF AskAlive
    <2>4. QED
        BY <2>2, <2>3
<1>3. CASE Answer
    <2>1. /\ UNCHANGED <<alive, lastAlive, state, pc1, beatAge, seenAge>>
          /\ pc0 = "answer" /\ pc0' = "app" /\ pollAge' = 0
        BY <1>3 DEF Answer, block, cpu1
    <2>2. ASSUME NEW n \in Nat, Beaten(n) PROVE Beaten(n)'
        <3>1. n > 0 => (n - 1) * BeatPeriod + beatAge = 0
            BY <1>0, <2>1, <2>2 DEF Beaten, Spaced
        <3>2. QED
            BY <1>0, <2>1, <2>2, <3>1 DEF Beaten, Spaced
    <2>3. QED
        BY <2>1, <2>2
<1>4. CASE Latch
    <2>1. /\ UNCHANGED <<alive, state, pc1, beatAge>>
          /\ pc0' = "app" /\ lastAlive' = alive /\ seenAge' = 0
        BY <1>4 DEF Latch, block, cpu1
    <2>2. \E n \in Nat : Beaten(n)'
        <3>1. alive' \in 0 .. AliveMod - 1 /\ lastAlive' = alive' /\ seenAge' <= beatAge'
            BY <1>0, <2>1
        <3>2. QED
            BY <1>0, <3>1, NoBeat
    <2>3. QED
        BY <2>1, <2>2
<1>5. CASE Beat
    <2>1. /\ UNCHANGED <<lastAlive, state, pc0, seenAge, pollAge>>
          /\ pc1 = "loop" /\ pc1' = "delay" /\ beatAge' = 0
          /\ alive' = IF alive + 1 < AliveMod THEN alive + 1 ELSE 0
        BY <1>0, <1>5, Wraps DEF Beat, cpu0
    <2>2. ASSUME pc0 \in {"app", "answer"}, NEW n \in Nat, Beaten(n) PROVE Beaten(n + 1)'
        <3>1. n * BeatPeriod <= pollAge /\ n * BeatPeriod \in Nat
            <4>1. CASE n = 0
                BY <1>0, <4>1
            <4>2. CASE n > 0
                <5>1. (n - 1) * BeatPeriod + beatAge <= pollAge /\ beatAge >= BeatPeriod
                    BY <2>1, <2>2, <4>2 DEF Beaten, Spaced
                <5>2. n * BeatPeriod = (n - 1) * BeatPeriod + BeatPeriod
                    BY <1>0, <4>2, OneMore
                <5>3. (n - 1) * BeatPeriod \in Nat /\ n * BeatPeriod \in Nat
                    BY <1>0, <4>2
                <5>4. QED
                    BY <1>0, <5>1, <5>2, <5>3
            <4>3. QED
                BY <4>1, <4>2
        <3>2. n + 1 < AliveMod
            <4>1. pollAge <= PollPeriod /\ PollPeriod < (AliveMod - 1) * BeatPeriod
                BY <1>0, <2>2 DEF CallInv, InTime
            <4>2. AliveMod - 1 \in Nat /\ (AliveMod - 1) * BeatPeriod \in Nat
                BY <1>0
            <4>3. n * BeatPeriod < (AliveMod - 1) * BeatPeriod
                BY <1>0, <3>1, <4>1, <4>2
            <4>4. n < AliveMod - 1
                BY <1>0, <4>2, <4>3, FewBeats
            <4>5. QED
                BY <1>0, <4>4
        <3>3. alive' = IF lastAlive + (n + 1) < AliveMod THEN lastAlive + (n + 1)
                                                       ELSE lastAlive + (n + 1) - AliveMod
            BY <1>0, <2>1, <2>2, <3>2 DEF Beaten, Spaced
        <3>4. pc0 = "answer" => n = 0
            <4>1. pc0 = "answer" /\ n > 0 => beatAge = 0 /\ beatAge >= BeatPeriod
                BY <2>1, <2>2 DEF Beaten, Spaced
            <4>2. QED
                BY <1>0, <4>1
        <3>5. (n + 1) - 1 = n /\ n + 1 > 0
            OBVIOUS
        <3>6. QED
            BY <1>0, <2>1, <3>1, <3>2, <3>3, <3>4, <3>5 DEF Beaten, Spaced
    <2>3. QED
        BY <1>0, <2>1, <2>2
<1>6. CASE StoreMagic
    <2>1. pc1 = "barrier" /\ pc1' = "loop" /\ beatAge' = 0 /\ state' = state /\ pc0' = pc0
        BY <1>6 DEF StoreMagic, cpu0
    <2>2. "magic" \notin written
        BY <1>0, <2>1 DEF IInv, OrderInv
    <2>3. state # "RUNNING"
        BY <1>m, <2>2 DEF Fields
    <2>4. pc0 # "answer"
        BY <1>0, <2>3 DEF CallInv
    <2>5. QED
        BY <1>0, <2>1, <2>3, <2>4
<1>7. CASE Reset \/ StartPeer
    BY <1>7 DEF Reset, StartPeer
<1>8. CASE CheckVersion \/ PollTime \/ LookForMagic \/ ClearMagic \/ Barrier0 \/ FetchVersion
    BY <1>8 DEF CheckVersion, PollTime, LookForMagic, ClearMagic, Barrier0, FetchVersion, clocks, cpu1
<1>9. ASSUME NEW f \in Fields, Drain1(f) PROVE LiveInv'
    <2>1. /\ UNCHANGED <<lastAlive, seenAge, beatAge, pollAge, state, pc0, pc1>>
          /\ state = "RUNNING" => FALSE
        BY <1>m, <1>9 DEF Drain1, cpu0, clocks
    <2>2. QED
        BY <2>1
<1>10. CASE StoreFields \/ Fault \/ Drain0 \/ UNCHANGED vars
    <2>1. /\ UNCHANGED <<alive, lastAlive, seenAge, beatAge, pollAge, pc0, state>>
          /\ pc1' = pc1 \/ pc1' \notin {"loop", "delay"}
        BY <1>10 DEF StoreFields, Fault, Drain0, vars, block, cpu0, cpu1, clocks
    <2>2. CASE pc1' = pc1
        BY <1>same, <2>1, <2>2
    <2>3. CASE pc1' \notin {"loop", "delay"}
        BY <2>1, <2>3
    <2>4. QED
        BY <2>1, <2>2, <2>3
<1>11. QED
    BY <1>0, <1>1, <1>2, <1>3, <1>4, <1>5, <1>6, <1>7, <1>8, <1>9, <1>10, StepKinds

\* A peer that beats is never said to have stopped, wherever its beats and the calls fall, as long
\* as the counter cannot come back to the same value between two calls.
THEOREM LivePeersSeen == ASSUME InTime PROVE Spec => LivePeerIsSeen
<1>1. Init => LiveInv
    BY DEF Init, LiveInv
<1>2. Calling /\ LiveInv /\ [Next]_vars => LiveInv'
    BY LiveNext
<1>3. Calling /\ LiveInv /\ [Next]_vars => [Answer /\ pc1 \in {"loop", "delay"} => answer']_vars
    <2> SUFFICES ASSUME Calling, LiveInv, Answer, pc1 \in {"loop", "delay"} PROVE answer'
        OBVIOUS
    <2>1. seenAge < AliveTimeout /\ seenAge \in Nat /\ AliveTimeout \in Nat
        BY AgesAre DEF Calling, IInv, LiveInv, Answer
    <2>2. seenAge % ClockMod \in Nat /\ seenAge % ClockMod <= seenAge
        BY <2>1, Difference
    <2>3. seenAge % ClockMod < AliveTimeout
        BY <2>1, <2>2
    <2>4. answer' = (seenAge % ClockMod < AliveTimeout)
        BY DEF Answer
    <2>5. QED
        BY <2>3, <2>4
<1>4. QED
    BY <1>1, <1>2, <1>3, Called, PTL DEF Spec, LivePeerIsSeen
=============================================================================
