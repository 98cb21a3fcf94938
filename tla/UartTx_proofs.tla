---------------------------- MODULE UartTx_proofs ----------------------------
(***************************************************************************)
(* Transmission, for every length of a message and every number of calls:  *)
(* what reaches the wire and what the driver reads, up to the first call   *)
(* through cliPrintf that falls into another one and the first timeout;    *)
(* and what holds beyond them.                                             *)
(***************************************************************************)
EXTENDS UartTx, SequenceTheorems, TLAPS

\* A call has a message and a number; main writes through logPrintf only.
CallInv ==
  \A c \in Writers :
    /\ pc[c] # "idle" => len[c] >= 1 /\ calls[c] >= 1
    /\ c = "main" => via[c] = "log"

\* A call through logPrintf that has got past its lock holds the mutex.
LockInv == \A c \in Writers : via[c] = "log" /\ pc[c] \notin Outside => mutex = c

\* The CLI thread sets up its transfer without main or a transmit interrupt in between.
Setup == {"drain", "bytes", "src", "enable"}
CliSets == \E c \in Writers : c = "cli" /\ pc[c] = "src"
MainSets == \E c \in Writers : c = "main" /\ pc[c] = "src"
CliInv ==
  \A c \in Writers : c = "cli" =>
    /\ pc[c] \in Setup => ~ tie
    /\ pc[c] \in {"src", "enable"} => bytes = len[c]
    /\ pc[c] = "enable" => src = <<c, calls[c], 1>>

\* The source never runs further beyond a message than the bytes another call has put in its place,
\* and the transmit interrupt never reads through NULL.
SrcInv ==
  ~ CliSets =>
    /\ bytes # 0 => src # Null \/ (MainSets /\ ~ tie)
    /\ src # Null => src[3] + bytes <= MaxLen + 1 \/ (MainSets /\ src[3] + bytes <= 2 * MaxLen + 1)
    /\ \A c \in Writers : c = "main" /\ pc[c] \in {"drain", "bytes", "src"} => (tie => bytes # 0)

\* While nothing has disturbed a call: whoever is in the driver is alone there but for a call of
\* cliPrintf that has not touched it yet.
Inside(c) == pc[c] \notin Outside \cup {"arm"}
AloneInv ==
  ~ disturbed => \A c, d \in Writers :
    c # d /\ Inside(c) => pc[d] \in Outside \/ (pc[d] = "arm" /\ via[d] = "print")

\* The transmitter between transfers, before a transfer and in it: bytes left, the one in TDR, the
\* one in TSR, and those on the wire make up the message.
Quiet == bytes = 0 /\ src = Null /\ ~ tie /\ ~ teie /\ tdr = <<>> /\ tsr = <<>> /\ wire = sent
Preparing(c) ==
  /\ ~ tie /\ ~ teie /\ tdr = <<>> /\ tsr = <<>> /\ wire = sent /\ ~ txDone
  /\ bytes = (IF pc[c] \in {"src", "enable"} THEN len[c] ELSE 0)
  /\ src = (IF pc[c] = "enable" THEN <<c, calls[c], 1>> ELSE Null)
OnWire(c) == len[c] - bytes - Len(tdr) - Len(tsr)
Flying(c) ==
  /\ bytes <= len[c] /\ OnWire(c) >= 0
  /\ src = (IF bytes = 0 THEN Null ELSE <<c, calls[c], len[c] - bytes + 1>>)
  /\ (tie <=> bytes # 0) /\ (teie <=> bytes = 0 /\ ~ txDone)
  /\ txDone => bytes = 0 /\ tdr = <<>> /\ tsr = <<>>
  /\ tsr = <<>> \/ tsr = << <<c, calls[c], OnWire(c) + 1>> >>
  /\ tdr = <<>> \/ tdr = << <<c, calls[c], OnWire(c) + Len(tsr) + 1>> >>
  /\ wire = sent \o Message(c, OnWire(c))
FlightInv ==
  ~ disturbed =>
    /\ (\A c \in Writers : ~ Inside(c)) => Quiet
    /\ \A c \in Writers :
         /\ pc[c] \in {"disable", "drain", "bytes", "src", "enable"} => Preparing(c)
         /\ pc[c] \in {"time", "test", "clock"} => Flying(c)
         /\ pc[c] = "end" => Quiet

IInv == TypeOK /\ CallInv /\ LockInv /\ CliInv /\ SrcInv /\ AloneInv /\ FlightInv

-----------------------------------------------------------------------------
\* The next byte of a message, and a message as a sequence.
LEMMA NextByte ==
  \A c, k : \A i \in Nat : [<<c, k, i>> EXCEPT ![3] = @ + 1] = <<c, k, i + 1>>
OBVIOUS

Triple == Writers \X Nat \X Nat

LEMMA MessageType ==
  ASSUME TypeOK, NEW c \in Writers
  PROVE  \A n \in Nat : /\ Message(c, n) \in Seq(Triple) /\ Len(Message(c, n)) = n
                        /\ \A i \in 1 .. n : Message(c, n)[i] = <<c, calls[c], i>>
BY DEF TypeOK, Message, Triple

LEMMA MessageGrows ==
  ASSUME TypeOK, NEW c \in Writers, NEW n \in Nat
  PROVE  Message(c, n) \o << <<c, calls[c], n + 1>> >> = Message(c, n + 1)
<1> DEFINE last == << <<c, calls[c], n + 1>> >>
<1>1. /\ Message(c, n) \in Seq(Triple) /\ Len(Message(c, n)) = n
      /\ Message(c, n + 1) \in Seq(Triple) /\ Len(Message(c, n + 1)) = n + 1
      /\ \A i \in 1 .. n : Message(c, n)[i] = <<c, calls[c], i>>
      /\ \A i \in 1 .. n + 1 : Message(c, n + 1)[i] = <<c, calls[c], i>>
    BY MessageType
<1>2. last \in Seq(Triple) /\ Len(last) = 1 /\ last[1] = <<c, calls[c], n + 1>>
    BY DEF TypeOK, Triple
<1> HIDE DEF last
<1>3. /\ Message(c, n) \o last \in Seq(Triple) /\ Len(Message(c, n) \o last) = n + 1
      /\ \A i \in 1 .. n + 1 :
           (Message(c, n) \o last)[i] = IF i <= n THEN Message(c, n)[i] ELSE last[i - n]
    <2>1. /\ Message(c, n) \o last \in Seq(Triple)
          /\ Len(Message(c, n) \o last) = Len(Message(c, n)) + Len(last)
          /\ \A i \in 1 .. Len(Message(c, n)) + Len(last) : (Message(c, n) \o last)[i] =
                IF i <= Len(Message(c, n)) THEN Message(c, n)[i] ELSE last[i - Len(Message(c, n))]
        BY <1>1, <1>2, ConcatProperties
    <2>2. QED
        BY <1>1, <1>2, <2>1
<1>4. ASSUME NEW i \in 1 .. n + 1 PROVE (Message(c, n) \o last)[i] = Message(c, n + 1)[i]
    <2>1. CASE i <= n
        <3>1. i \in 1 .. n
            BY <2>1
        <3>2. QED
            BY <1>1, <1>3, <2>1, <3>1
    <2>2. CASE ~ (i <= n)
        <3>1. i = n + 1 /\ i - n = 1
            BY <2>2
        <3>2. QED
            BY <1>1, <1>2, <1>3, <2>2, <3>1
    <2>3. QED
        BY <2>1, <2>2
<1>5. QED
    BY <1>1, <1>3, <1>4, SeqEqual DEF last

\* Nothing of the message a caller has not begun is on the wire.
LEMMA EmptyMessage ==
  ASSUME NEW c \in Writers, NEW s \in Seq(Byte)
  PROVE  s \o Message(c, 0) = s
<1>1. Message(c, 0) = <<>>
    BY DEF Message
<1>2. QED
    BY <1>1, ConcatEmptySeq

LEMMA InitIInv == Init => IInv
<1> SUFFICES ASSUME Init PROVE IInv
    OBVIOUS
<1> USE UartAssumption DEF Init
<1>1. TypeOK
    <2>1. <<>> \in Seq(Byte)
        BY EmptySeq
    <2>2. /\ pc \in [Writers -> {"idle"}] /\ len \in [Writers -> 0 .. MaxLen]
          /\ calls \in [Writers -> 0 .. MaxCalls] /\ late \in [Writers -> BOOLEAN]
          /\ via \in [Writers -> {"log", "print"}] /\ bytes \in 0 .. MaxLen
        OBVIOUS
    <2>3. QED
        BY <2>1, <2>2 DEF TypeOK
<1>2. CallInv /\ LockInv /\ CliInv
    BY DEF CallInv, LockInv, CliInv, Outside, Setup
<1>3. SrcInv /\ AloneInv
    BY DEF SrcInv, AloneInv, Inside, Outside
<1>4. FlightInv
    BY DEF FlightInv, Quiet, Inside, Outside
<1>5. QED
    BY <1>1, <1>2, <1>3, <1>4 DEF IInv

\* The transmit interrupt comes only when the CLI thread is not setting up a transfer, and the byte
\* it reads belongs to a call.
LEMMA TxiReads ==
  ASSUME IInv, TxiIsr
  PROVE  /\ ~ CliSets
         /\ bytes # 0 => /\ src \in Byte /\ src[3] + bytes <= 2 * MaxLen + 1
                         /\ src[3] + bytes <= MaxLen + 1 \/ MainSets
                         /\ [src EXCEPT ![3] = @ + 1] = <<src[1], src[2], src[3] + 1>>
<1> USE UartAssumption DEF IInv, TxiIsr
<1>1. ~ CliSets
    BY DEF CliInv, CliSets, Setup
<1>2. ASSUME bytes # 0
      PROVE  /\ src \in Byte /\ src[3] + bytes <= 2 * MaxLen + 1
             /\ src[3] + bytes <= MaxLen + 1 \/ MainSets
             /\ [src EXCEPT ![3] = @ + 1] = <<src[1], src[2], src[3] + 1>>
    <2>1. src # Null /\ bytes \in Nat /\ bytes >= 1 /\ MaxLen \in Nat
        BY <1>1, <1>2 DEF SrcInv, TypeOK
    <2>2. src \in Writers \X (1 .. MaxCalls) \X (1 .. 2 * MaxLen + 1)
        BY <2>1 DEF TypeOK
    <2>3. /\ src = <<src[1], src[2], src[3]>> /\ src[1] \in Writers /\ src[2] \in 1 .. MaxCalls
          /\ src[3] \in Nat /\ src[3] >= 1
        BY <2>2
    <2>4. src[3] + bytes <= 2 * MaxLen + 1 /\ (src[3] + bytes <= MaxLen + 1 \/ MainSets)
        BY <1>1, <2>1, <2>3 DEF SrcInv
    <2>5. src[3] \in 1 .. 2 * MaxLen
        BY <2>1, <2>3, <2>4
    <2>6. src \in Byte
        BY <2>3, <2>5 DEF Byte
    <2>7. [src EXCEPT ![3] = @ + 1] = <<src[1], src[2], src[3] + 1>>
        BY <2>3, NextByte
    <2>8. QED
        BY <2>4, <2>6, <2>7
<1>3. QED
    BY <1>1, <1>2

LEMMA TypeNext == IInv /\ [Next]_vars => TypeOK'
<1> SUFFICES ASSUME IInv, [Next]_vars PROVE TypeOK'
    OBVIOUS
<1> USE UartAssumption DEF TypeOK, callers, driver, hardware, At, Goto
<1>a. TypeOK
    BY DEF IInv
<1>1. ASSUME NEW c \in Writers, NEW v \in {"log", "print"}, NEW n \in 1 .. MaxLen, Call(c, v, n)
      PROVE  TypeOK'
    <2>1. calls' \in [Writers -> 0 .. MaxCalls]
        BY <1>1, <1>a DEF Call
    <2>2. len' \in [Writers -> 0 .. MaxLen] /\ via' \in [Writers -> {"log", "print"}]
        BY <1>1, <1>a DEF Call
    <2>3. QED
        BY <1>1, <1>a, <2>1, <2>2 DEF Call
<1>2. ASSUME NEW c \in Writers, Lock(c) PROVE TypeOK'
    BY <1>2, <1>a DEF Lock
<1>3. ASSUME NEW c \in Writers, Arm(c) PROVE TypeOK'
    <2>1. disturbed' \in BOOLEAN
        BY <1>3, <1>a DEF Arm, Intrudes
    <2>2. QED
        BY <1>3, <1>a, <2>1 DEF Arm
<1>4. ASSUME NEW c \in Writers, Disable(c) \/ WaitTend(c) PROVE TypeOK'
    BY <1>4, <1>a DEF Disable, WaitTend
<1>5. ASSUME NEW c \in Writers, SetBytes(c) PROVE TypeOK'
    BY <1>5, <1>a DEF SetBytes
<1>6. ASSUME NEW c \in Writers, SetSource(c) PROVE TypeOK'
    <2>1. calls[c] \in 1 .. MaxCalls /\ 1 \in 1 .. 2 * MaxLen + 1
        BY <1>6, <1>a DEF SetSource, IInv, CallInv
    <2>2. src' \in Writers \X (1 .. MaxCalls) \X (1 .. 2 * MaxLen + 1)
        BY <1>6, <2>1 DEF SetSource
    <2>3. QED
        BY <1>6, <1>a, <2>2 DEF SetSource
<1>7. ASSUME NEW c \in Writers, Enable(c) \/ StartTimer(c) PROVE TypeOK'
    BY <1>7, <1>a DEF Enable, StartTimer
<1>8. ASSUME NEW c \in Writers, TestDone(c) PROVE TypeOK'
    <2>1. len[c] \in Nat /\ Len(Message(c, len[c])) = len[c]
        BY <1>a, MessageType
    <2>2. Message(c, len[c]) \in Seq(Byte)
        <3>1. txDone /\ ~ disturbed => calls[c] \in 1 .. MaxCalls
            BY <1>8, <1>a DEF TestDone, IInv, CallInv
        <3>2. calls[c] \in 1 .. MaxCalls
            BY <1>8, <1>a DEF TestDone, IInv, CallInv
        <3>3. \A i \in 1 .. len[c] : <<c, calls[c], i>> \in Byte
            BY <1>a, <3>2 DEF Byte
        <3>4. QED
            BY <1>a, <3>3 DEF Message
    <2>3. sent' \in Seq(Byte)
        BY <1>8, <1>a, <2>2, ConcatProperties DEF TestDone
    <2>4. QED
        BY <1>8, <1>a, <2>3 DEF TestDone
<1>9. ASSUME NEW c \in Writers, TestClock(c) PROVE TypeOK'
    <2>1. disturbed' \in BOOLEAN
        BY <1>9, <1>a DEF TestClock
    <2>2. QED
        BY <1>9, <1>a, <2>1 DEF TestClock
<1>10. ASSUME NEW c \in Writers, Return(c) PROVE TypeOK'
    BY <1>10, <1>a DEF Return
<1>11. ASSUME NEW c \in Writers, TimePasses(c) PROVE TypeOK'
    BY <1>11, <1>a DEF TimePasses
<1>12. CASE TxiIsr
    <2>1. CASE bytes = 0
        BY <1>12, <1>a, <2>1 DEF TxiIsr
    <2>2. CASE bytes # 0
        <3>1. /\ src \in Byte /\ src[3] + bytes <= 2 * MaxLen + 1
              /\ [src EXCEPT ![3] = @ + 1] = <<src[1], src[2], src[3] + 1>>
            BY <1>12, <2>2, TxiReads
        <3>2. /\ src[1] \in Writers /\ src[2] \in 1 .. MaxCalls /\ src[3] \in Nat /\ src[3] >= 1
              /\ bytes \in 1 .. MaxLen
            BY <1>a, <2>2, <3>1 DEF Byte
        <3>3. src' = Null \/ src' = <<src[1], src[2], src[3] + 1>>
            BY <1>12, <3>1 DEF TxiIsr
        <3>4. src[3] + 1 \in 1 .. 2 * MaxLen + 1
            BY <3>1, <3>2
        <3>5. src' = Null \/ src' \in Writers \X (1 .. MaxCalls) \X (1 .. 2 * MaxLen + 1)
            BY <3>2, <3>3, <3>4
        <3>6. tdr' \in {<<b>> : b \in Byte} /\ bytes' \in 0 .. MaxLen
            BY <1>12, <2>2, <3>1, <3>2 DEF TxiIsr
        <3>7. tie' \in BOOLEAN /\ teie' \in BOOLEAN
            BY <1>12, <1>a DEF TxiIsr
        <3>8. QED
            BY <1>12, <1>a, <3>5, <3>6, <3>7 DEF TxiIsr
    <2>3. QED
        BY <2>1, <2>2
<1>13. CASE TeiIsr
    BY <1>13, <1>a DEF TeiIsr
<1>14. CASE Load
    BY <1>14, <1>a DEF Load
<1>15. CASE ShiftOut
    <2>1. PICK b \in Byte : tsr = <<b>>
        BY <1>15, <1>a DEF ShiftOut
    <2>2. wire' \in Seq(Byte)
        <3>1. tsr \in Seq(Byte)
            BY <2>1
        <3>2. QED
            BY <1>15, <1>a, <3>1, ConcatProperties DEF ShiftOut
    <2>3. QED
        BY <1>15, <1>a, <2>2 DEF ShiftOut
<1>16. CASE UNCHANGED vars
    BY <1>16, <1>a DEF vars
<1>17. QED
    BY <1>1, <1>2, <1>3, <1>4, <1>5, <1>6, <1>7, <1>8, <1>9, <1>10, <1>11, <1>12, <1>13, <1>14,
       <1>15, <1>16 DEF Next, Write, Interrupt, Transmit

-----------------------------------------------------------------------------
Places == {"idle", "lock", "arm", "disable", "drain", "bytes", "src", "enable", "time", "test", "clock", "end"}

\* The types of what the writers keep.
LEMMA WriterTypes ==
  ASSUME TypeOK
  PROVE  /\ pc \in [Writers -> Places] /\ via \in [Writers -> {"log", "print"}]
         /\ len \in [Writers -> 0 .. MaxLen] /\ calls \in [Writers -> 0 .. MaxCalls]
         /\ bytes \in 0 .. MaxLen /\ MaxLen \in Nat /\ MaxCalls \in Nat
         /\ \A c \in Writers : c \in {"main", "cli"}
BY UartAssumption DEF TypeOK, Places

\* Between its lock and its return a call moves on alone, and keeps its message and its number.
Steps(c) ==
  Arm(c) \/ Disable(c) \/ WaitTend(c) \/ SetBytes(c) \/ SetSource(c) \/ Enable(c)
    \/ StartTimer(c) \/ TestDone(c) \/ TestClock(c)

LEMMA StepsStayInside ==
  ASSUME NEW c \in Writers, Steps(c)
  PROVE  /\ UNCHANGED <<mutex, len, calls, via>> /\ pc[c] \notin Outside
         /\ \E s : s \notin Outside \cup {"arm"} /\ pc' = [pc EXCEPT ![c] = s]
BY DEF Steps, Arm, Disable, WaitTend, SetBytes, SetSource, Enable, StartTimer, TestDone, TestClock,
       At, Goto, Outside

LEMMA OthersKeepCalls ==
  ASSUME Interrupt \/ Transmit \/ (\E c \in Writers : TimePasses(c)) \/ UNCHANGED vars
  PROVE  UNCHANGED <<mutex, pc, len, calls, via>>
BY DEF Interrupt, Transmit, TxiIsr, TeiIsr, Load, ShiftOut, TimePasses, vars, callers

LEMMA CallNext == IInv /\ [Next]_vars => CallInv' /\ LockInv'
<1> SUFFICES ASSUME IInv, [Next]_vars PROVE CallInv' /\ LockInv'
    OBVIOUS
<1> USE DEF CallInv, LockInv
<1>a. CallInv /\ LockInv
    BY DEF IInv
<1>b. /\ pc \in [Writers -> Places] /\ via \in [Writers -> {"log", "print"}]
      /\ len \in [Writers -> 0 .. MaxLen] /\ calls \in [Writers -> 0 .. MaxCalls]
      /\ MaxLen \in Nat /\ MaxCalls \in Nat
    BY WriterTypes DEF IInv
<1>1. ASSUME NEW c \in Writers, NEW v \in {"log", "print"}, NEW n \in 1 .. MaxLen, Call(c, v, n)
      PROVE  CallInv' /\ LockInv'
    <2>1. /\ pc[c] = "idle" /\ mutex' = mutex /\ (c = "main" => v = "log")
          /\ pc' = [pc EXCEPT ![c] = IF v = "log" THEN "lock" ELSE "arm"]
          /\ via' = [via EXCEPT ![c] = v] /\ len' = [len EXCEPT ![c] = n]
          /\ calls' = [calls EXCEPT ![c] = calls[c] + 1]
        BY <1>1 DEF Call, At, Goto
    <2>2. CallInv'
        BY <1>a, <1>b, <2>1
    <2>3. LockInv'
        BY <1>a, <1>b, <2>1 DEF Outside
    <2>4. QED
        BY <2>2, <2>3
<1>2. ASSUME NEW c \in Writers, Lock(c) PROVE CallInv' /\ LockInv'
    <2>1. /\ pc[c] = "lock" /\ pc' = [pc EXCEPT ![c] = "arm"] /\ UNCHANGED <<len, calls, via>>
          /\ mutex = None /\ mutex' = c
        BY <1>2 DEF Lock, At, Goto
    <2>2. None \notin Writers
        BY UartAssumption DEF None
    <2>3. QED
        BY <1>a, <1>b, <2>1, <2>2
<1>3. ASSUME NEW c \in Writers, Steps(c) PROVE CallInv' /\ LockInv'
    BY <1>3, <1>a, <1>b, StepsStayInside DEF Outside
<1>4. ASSUME NEW c \in Writers, Return(c) PROVE CallInv' /\ LockInv'
    <2>1. /\ pc[c] = "end" /\ pc' = [pc EXCEPT ![c] = "idle"] /\ len' = [len EXCEPT ![c] = 0]
          /\ calls' = calls /\ via' = [via EXCEPT ![c] = "log"]
          /\ mutex' = IF via[c] = "log" THEN None ELSE mutex
        BY <1>4 DEF Return, At, Goto
    <2>2. CallInv'
        BY <1>a, <1>b, <2>1
    <2>3. LockInv'
        BY <1>a, <1>b, <2>1 DEF Outside
    <2>4. QED
        BY <2>2, <2>3
<1>5. CASE Interrupt \/ Transmit \/ (\E c \in Writers : TimePasses(c)) \/ UNCHANGED vars
    BY <1>5, <1>a, OthersKeepCalls
<1>6. QED
    BY <1>1, <1>2, <1>3, <1>4, <1>5 DEF Next, Write, Steps

\* Whoever comes into the driver while another is there comes through cliPrintf, and disturbs it.
LEMMA AloneNext == IInv /\ [Next]_vars => AloneInv'
<1> SUFFICES ASSUME IInv, [Next]_vars, ~ disturbed'
             PROVE  \A c, d \in Writers :
                      (c # d /\ Inside(c))' => (pc[d] \in Outside \/ (pc[d] = "arm" /\ via[d] = "print"))'
    BY DEF AloneInv
<1> USE DEF Inside, Outside
<1>a. CallInv /\ LockInv
    BY DEF IInv
<1>b. /\ pc \in [Writers -> Places] /\ via \in [Writers -> {"log", "print"}]
      /\ \A c \in Writers : c \in {"main", "cli"}
    BY WriterTypes DEF IInv
<1>c. ~ disturbed
    BY DEF Next, Write, Call, Lock, Arm, Disable, WaitTend, SetBytes, SetSource, Enable, StartTimer, TestDone,
           TestClock, Return, TimePasses, Interrupt, Transmit, TxiIsr, TeiIsr, Load, ShiftOut, vars
<1>d. \A c, d \in Writers : c # d /\ Inside(c) => pc[d] \in Outside \/ (pc[d] = "arm" /\ via[d] = "print")
    BY <1>c DEF IInv, AloneInv
<1>e. \A c, d \in Writers : c = "main" /\ d # c /\ Runs(c) => pc[d] \in Outside
    BY DEF Runs
<1> DEFINE Goal == \A c, d \in Writers :
      (c # d /\ Inside(c))' => (pc[d] \in Outside \/ (pc[d] = "arm" /\ via[d] = "print"))'
<1>1. ASSUME NEW c \in Writers, NEW v \in {"log", "print"}, NEW n \in 1 .. MaxLen, Call(c, v, n)
      PROVE  Goal
    <2>1. /\ pc[c] = "idle" /\ via' = [via EXCEPT ![c] = v]
          /\ pc' = [pc EXCEPT ![c] = IF v = "log" THEN "lock" ELSE "arm"]
        BY <1>1 DEF Call, At, Goto
    <2>2. QED
        BY <1>b, <1>d, <2>1
<1>2. ASSUME NEW c \in Writers, Lock(c) PROVE Goal
    <2>1. /\ pc[c] = "lock" /\ pc' = [pc EXCEPT ![c] = "arm"] /\ via' = via
          /\ mutex = None /\ Runs(c)
        BY <1>2 DEF Lock, At, Goto
    <2>2. \A d \in Writers : d # c => ~ Inside(d)
        <3> SUFFICES ASSUME NEW d \in Writers, d # c, Inside(d) PROVE FALSE
            OBVIOUS
        <3>1. mutex # d
            BY <2>1, UartAssumption DEF None
        <3>2. via[d] = "print"
            BY <1>a, <1>b, <3>1 DEF LockInv
        <3>3. d # "main"
            BY <1>a, <3>2 DEF CallInv
        <3>4. c = "main"
            BY <1>b, <3>3
        <3>5. QED
            BY <1>e, <2>1, <3>4
    <2>3. QED
        BY <1>b, <2>1, <2>2
<1>3. ASSUME NEW c \in Writers, Arm(c) PROVE Goal
    <2>1. /\ pc[c] = "arm" /\ pc' = [pc EXCEPT ![c] = "disable"] /\ via' = via
          /\ ~ Intrudes(c) /\ Runs(c)
        BY <1>3 DEF Arm, At, Goto
    <2>2. \A d \in Writers : d # c => pc[d] \in Outside
        <3> SUFFICES ASSUME NEW d \in Writers, d # c, pc[d] \notin Outside PROVE FALSE
            OBVIOUS
        <3>1. via[c] = "log"
            BY <1>b, <2>1 DEF Intrudes
        <3>2. mutex = c
            BY <1>a, <2>1, <3>1 DEF LockInv
        <3>3. via[d] = "print"
            BY <1>a, <1>b, <3>2 DEF LockInv
        <3>4. c = "main"
            BY <1>a, <1>b, <3>3 DEF CallInv
        <3>5. QED
            BY <1>e, <2>1, <3>4
    <2>3. QED
        BY <1>b, <2>1, <2>2
<1>4. ASSUME NEW c \in Writers, Steps(c), ~ Arm(c) PROVE Goal
    <2>1. Inside(c)
        BY <1>4 DEF Steps, Disable, WaitTend, SetBytes, SetSource, Enable, StartTimer, TestDone, TestClock, At
    <2>2. via' = via /\ \E s : s \notin Outside \cup {"arm"} /\ pc' = [pc EXCEPT ![c] = s]
        BY <1>4, StepsStayInside
    <2>3. QED
        BY <1>b, <1>d, <2>1, <2>2
<1>5. ASSUME NEW c \in Writers, Return(c) PROVE Goal
    <2>1. pc[c] = "end" /\ pc' = [pc EXCEPT ![c] = "idle"] /\ via' = [via EXCEPT ![c] = "log"]
        BY <1>5 DEF Return, At, Goto
    <2>2. QED
        BY <1>b, <1>d, <2>1
<1>6. CASE Interrupt \/ Transmit \/ (\E c \in Writers : TimePasses(c)) \/ UNCHANGED vars
    BY <1>6, <1>d, OthersKeepCalls
<1>7. QED
    BY <1>1, <1>2, <1>3, <1>4, <1>5, <1>6 DEF Next, Write, Steps

\* A step of a call that touches neither the source nor the count of the driver.
MovesTo(c, s) ==
  /\ pc' = [pc EXCEPT ![c] = s] /\ s \notin {"drain", "src", "enable"}
  /\ s = "bytes" => pc[c] = "drain"

\* The CLI thread's set-up is its own, and what the transmit interrupt can read.
LEMMA SourceNext == IInv /\ [Next]_vars => CliInv' /\ SrcInv'
<1> SUFFICES ASSUME IInv, [Next]_vars PROVE CliInv' /\ SrcInv'
    OBVIOUS
<1> USE UartAssumption DEF CliInv, SrcInv, CliSets, MainSets, Setup, Null
<1>a. CliInv /\ SrcInv /\ CallInv
    BY DEF IInv
<1>b. /\ pc \in [Writers -> Places] /\ len \in [Writers -> 0 .. MaxLen]
      /\ calls \in [Writers -> 0 .. MaxCalls]
      /\ bytes \in 0 .. MaxLen /\ MaxLen \in Nat /\ \A c \in Writers : c \in {"main", "cli"}
    BY WriterTypes DEF IInv
<1>c. src # Null => src[3] \in Nat
    BY DEF IInv, TypeOK
<1>d. \A c, d \in Writers : c = "main" /\ d = "cli" /\ Runs(c) => pc[d] \in {"idle", "lock"}
    BY DEF Runs
<1>1. ASSUME NEW c \in Writers, \/ Lock(c) \/ Arm(c) \/ WaitTend(c) \/ StartTimer(c) \/ TestDone(c)
                                \/ TestClock(c) \/ Return(c)
                                \/ \E v \in {"log", "print"}, n \in 1 .. MaxLen : Call(c, v, n)
      PROVE  CliInv' /\ SrcInv'
    <2>1. UNCHANGED <<bytes, src, tie>>
        BY <1>1 DEF Lock, Arm, WaitTend, StartTimer, TestDone, TestClock, Return, Call, driver
    <2>2. /\ pc[c] \notin {"bytes", "src", "enable"}
          /\ \E s : MovesTo(c, s)
        <3>1. CASE Lock(c) \/ Arm(c) \/ WaitTend(c) \/ StartTimer(c) \/ Return(c)
            BY <3>1 DEF Lock, Arm, WaitTend, StartTimer, Return, At, Goto, MovesTo
        <3>2. CASE TestDone(c) \/ TestClock(c)
            BY <3>2 DEF TestDone, TestClock, At, Goto, MovesTo
        <3>3. ASSUME NEW v \in {"log", "print"}, NEW n \in 1 .. MaxLen, Call(c, v, n)
              PROVE  /\ pc[c] \notin {"bytes", "src", "enable"}
                     /\ \E s : MovesTo(c, s)
            <4>1. pc[c] = "idle" /\ MovesTo(c, IF v = "log" THEN "lock" ELSE "arm")
                BY <3>3 DEF Call, At, Goto, MovesTo
            <4>2. QED
                BY <4>1
        <3>4. QED
            BY <1>1, <3>1, <3>2, <3>3
    <2>3. \A d \in Writers : d # c => len'[d] = len[d] /\ calls'[d] = calls[d]
        BY <1>1, <1>b DEF Lock, Arm, WaitTend, StartTimer, TestDone, TestClock, Return, Call
    <2>4. PICK s : MovesTo(c, s)
        BY <2>2
    <2>5. pc'[c] = s /\ \A d \in Writers : d # c => pc'[d] = pc[d]
        BY <1>b, <2>4 DEF MovesTo
    <2>6. (CliSets' <=> CliSets) /\ (MainSets' <=> MainSets)
        BY <2>2, <2>4, <2>5 DEF MovesTo
    <2>7. CliInv'
        <3> SUFFICES ASSUME NEW d \in Writers, d = "cli"
                     PROVE  /\ pc'[d] \in Setup => ~ tie'
                            /\ pc'[d] \in {"src", "enable"} => bytes' = len'[d]
                            /\ pc'[d] = "enable" => src' = <<d, calls'[d], 1>>
            OBVIOUS
        <3>1. CASE d = c
            BY <1>a, <2>1, <2>4, <2>5, <3>1 DEF MovesTo
        <3>2. CASE d # c
            BY <1>a, <2>1, <2>3, <2>5, <3>2
        <3>3. QED
            BY <3>1, <3>2
    <2>8. SrcInv'
        <3> SUFFICES ASSUME ~ CliSets
                     PROVE  /\ bytes # 0 => src # Null \/ (MainSets /\ ~ tie)
                            /\ src # Null => \/ src[3] + bytes <= MaxLen + 1
                                             \/ MainSets /\ src[3] + bytes <= 2 * MaxLen + 1
                            /\ \A d \in Writers :
                                 d = "main" /\ pc'[d] \in {"drain", "bytes", "src"} => (tie => bytes # 0)
            BY <2>1, <2>6
        <3>1. SrcInv
            BY <1>a
        <3>2. \A d \in Writers : pc'[d] \in {"drain", "bytes", "src"} => pc[d] \in {"drain", "bytes", "src"}
            BY <2>4, <2>5 DEF MovesTo
        <3>3. QED
            BY <3>1, <3>2
    <2>9. QED
        BY <2>7, <2>8
<1>2. ASSUME NEW c \in Writers, Disable(c) PROVE CliInv' /\ SrcInv'
    <2>1. /\ ~ tie' /\ UNCHANGED <<bytes, src, len, calls>>
          /\ pc[c] = "disable" /\ pc' = [pc EXCEPT ![c] = "drain"]
        BY <1>2 DEF Disable, At, Goto
    <2>2. (CliSets' <=> CliSets) /\ (MainSets' <=> MainSets)
        BY <1>b, <2>1
    <2>3. CliInv'
        BY <1>a, <1>b, <2>1
    <2>4. SrcInv'
        BY <1>a, <1>b, <2>1, <2>2
    <2>5. QED
        BY <2>3, <2>4
<1>3. ASSUME NEW c \in Writers, SetBytes(c) PROVE CliInv' /\ SrcInv'
    <2>1. /\ bytes' = len[c] /\ UNCHANGED <<tie, src, len, calls>> /\ Runs(c)
          /\ pc[c] = "bytes" /\ pc' = [pc EXCEPT ![c] = "src"] /\ len[c] >= 1
        BY <1>3, <1>a DEF SetBytes, At, Goto, CallInv
    <2>2. CASE c = "cli"
        <3>1. CliSets' /\ CliInv'
            BY <1>a, <1>b, <2>1, <2>2
        <3>2. QED
            BY <3>1
    <2>3. CASE c = "main"
        <3>1. \A d \in Writers : d = "cli" => pc[d] \in {"idle", "lock"} /\ pc'[d] = pc[d]
            BY <1>b, <1>d, <2>1, <2>3
        <3>2. ~ CliSets /\ ~ MainSets /\ MainSets' /\ CliInv'
            BY <1>b, <2>1, <2>3, <3>1
        <3>3. (tie => bytes # 0) /\ (bytes # 0 => src # Null) /\ (src # Null => src[3] + bytes <= MaxLen + 1)
            BY <1>a, <2>1, <2>3, <3>2
        <3>4. src # Null => src[3] + len[c] <= 2 * MaxLen + 1
            BY <1>b, <1>c, <3>3
        <3>5. SrcInv'
            BY <1>b, <2>1, <2>3, <3>2, <3>3, <3>4
        <3>6. QED
            BY <3>2, <3>5
    <2>4. QED
        BY <1>b, <2>2, <2>3
<1>4. ASSUME NEW c \in Writers, SetSource(c) PROVE CliInv' /\ SrcInv'
    <2>1. /\ src' = <<c, calls[c], 1>> /\ UNCHANGED <<tie, bytes, len, calls>> /\ Runs(c)
          /\ pc[c] = "src" /\ pc' = [pc EXCEPT ![c] = "enable"]
        BY <1>4 DEF SetSource, At, Goto
    <2>2. src' # Null /\ src'[3] = 1 /\ src'[3] + bytes <= MaxLen + 1
        BY <1>b, <2>1
    <2>3. CliInv'
        <3>1. CASE c = "cli"
            BY <1>a, <1>b, <2>1, <3>1
        <3>2. CASE c = "main"
            <4>1. \A d \in Writers : d = "cli" => pc'[d] \in {"idle", "lock"}
                BY <1>b, <1>d, <2>1, <3>2
            <4>2. QED
                BY <4>1
        <3>3. QED
            BY <1>b, <3>1, <3>2
    <2>4. SrcInv'
        <3>1. CASE c = "cli"
            <4>1. ~ tie
                BY <1>a, <2>1, <3>1
            <4>2. QED
                BY <2>1, <2>2, <4>1
        <3>2. CASE c = "main"
            <4>1. \A d \in Writers : d = "main" => pc'[d] = "enable"
                BY <1>b, <2>1, <3>2
            <4>2. QED
                BY <2>1, <2>2, <4>1
        <3>3. QED
            BY <1>b, <3>1, <3>2
    <2>5. QED
        BY <2>3, <2>4
<1>5. ASSUME NEW c \in Writers, Enable(c) PROVE CliInv' /\ SrcInv'
    <2>1. /\ tie' /\ UNCHANGED <<src, bytes, len, calls>> /\ Runs(c)
          /\ pc[c] = "enable" /\ pc' = [pc EXCEPT ![c] = "time"] /\ len[c] >= 1
        BY <1>5, <1>a DEF Enable, At, Goto, CallInv
    <2>2. CASE c = "cli"
        <3>1. bytes = len[c] /\ bytes # 0 /\ src # Null /\ src[3] = 1
            BY <1>a, <2>1, <2>2
        <3>2. ~ CliSets /\ ~ CliSets' /\ (MainSets' <=> MainSets)
            BY <1>b, <2>1, <2>2
        <3>3. CliInv'
            BY <1>b, <2>1, <2>2
        <3>4. SrcInv'
            BY <1>b, <2>1, <3>1, <3>2
        <3>5. QED
            BY <3>3, <3>4
    <2>3. CASE c = "main"
        <3>1. \A d \in Writers : d = "cli" => pc[d] \in {"idle", "lock"} /\ pc'[d] = pc[d]
            BY <1>b, <1>d, <2>1, <2>3
        <3>2. ~ CliSets /\ ~ MainSets /\ CliInv' /\ \A d \in Writers : d = "main" => pc'[d] = "time"
            BY <1>b, <2>1, <2>3, <3>1
        <3>3. (bytes # 0 => src # Null) /\ (src # Null => src[3] + bytes <= MaxLen + 1)
            BY <1>a, <3>2
        <3>4. QED
            BY <2>1, <3>2, <3>3
    <2>4. QED
        BY <1>b, <2>2, <2>3
<1>6. CASE TxiIsr
    <2>1. ~ CliSets /\ tie /\ UNCHANGED <<pc, len, calls>>
        BY <1>6, TxiReads DEF TxiIsr, callers
    <2>2. CliInv'
        BY <1>a, <2>1
    <2>3. CASE bytes = 0
        <3>1. bytes' = 0 /\ src' = Null /\ ~ tie'
            BY <1>6, <2>3 DEF TxiIsr
        <3>2. QED
            BY <2>1, <2>2, <3>1
    <2>4. CASE bytes # 0
        <3>1. /\ bytes' = bytes - 1 /\ (tie' <=> bytes' # 0)
              /\ src' = (IF bytes' = 0 THEN Null ELSE <<src[1], src[2], src[3] + 1>>)
              /\ src[3] + bytes <= 2 * MaxLen + 1 /\ (src[3] + bytes <= MaxLen + 1 \/ MainSets)
              /\ src \in Byte
            BY <1>6, <2>4, TxiReads DEF TxiIsr
        <3>2. src[3] \in Nat /\ bytes \in Nat
            BY <1>b, <3>1 DEF Byte
        <3>3. src' # Null => src'[3] + bytes' = src[3] + bytes
            BY <3>1, <3>2
        <3>4. SrcInv'
            BY <1>b, <2>1, <3>1, <3>2, <3>3
        <3>5. QED
            BY <2>2, <3>4
    <2>5. QED
        BY <2>3, <2>4
<1>7. CASE TeiIsr
    <2>1. ~ tie' /\ UNCHANGED <<bytes, src, pc, len, calls>>
        BY <1>7 DEF TeiIsr, callers
    <2>2. QED
        BY <1>a, <2>1
<1>8. CASE Load \/ ShiftOut \/ (\E c \in Writers : TimePasses(c)) \/ UNCHANGED vars
    <2>1. UNCHANGED <<bytes, src, tie, pc, len, calls>>
        BY <1>8 DEF Load, ShiftOut, TimePasses, vars, callers, driver
    <2>2. QED
        BY <1>a, <2>1
<1>9. QED
    BY <1>1, <1>2, <1>3, <1>4, <1>5, <1>6, <1>7, <1>8 DEF Next, Write, Interrupt, Transmit

-----------------------------------------------------------------------------
\* What is under way between the driver and the wire while nothing has disturbed it.
LEMMA FlightNext == IInv /\ [Next]_vars => FlightInv'
<1> DEFINE Goal == /\ (\A c \in Writers : ~ Inside(c)') => Quiet'
                   /\ \A c \in Writers :
                        /\ pc'[c] \in {"disable", "drain", "bytes", "src", "enable"} => Preparing(c)'
                        /\ pc'[c] \in {"time", "test", "clock"} => Flying(c)'
                        /\ pc'[c] = "end" => Quiet'
<1> SUFFICES ASSUME IInv, [Next]_vars, ~ disturbed' PROVE Goal
    BY DEF FlightInv
<1>a. TypeOK /\ CallInv /\ AloneInv'
    BY AloneNext DEF IInv
<1>b. /\ pc \in [Writers -> Places] /\ len \in [Writers -> 0 .. MaxLen]
      /\ calls \in [Writers -> 0 .. MaxCalls] /\ bytes \in 0 .. MaxLen /\ MaxLen \in Nat
      /\ sent \in Seq(Byte) /\ wire \in Seq(Byte)
    BY <1>a, WriterTypes DEF TypeOK
<1>c. ~ disturbed
    BY DEF Next, Write, Call, Lock, Arm, Disable, WaitTend, SetBytes, SetSource, Enable, StartTimer, TestDone,
           TestClock, Return, TimePasses, Interrupt, Transmit, TxiIsr, TeiIsr, Load, ShiftOut, vars
<1>d. /\ (\A c \in Writers : ~ Inside(c)) => Quiet
      /\ \A c \in Writers :
           /\ pc[c] \in {"disable", "drain", "bytes", "src", "enable"} => Preparing(c)
           /\ pc[c] \in {"time", "test", "clock"} => Flying(c)
           /\ pc[c] = "end" => Quiet
    BY <1>c DEF IInv, FlightInv
<1>e. \A c \in Writers : Inside(c) <=> pc[c] \notin {"idle", "lock", "arm"}
    BY DEF Inside, Outside
<1>f. \A c, d \in Writers : c # d /\ Inside(c)' => ~ Inside(d)'
    BY <1>a DEF AloneInv, Inside, Outside
<1>g. \A c \in Writers : Inside(c)' <=> pc'[c] \notin {"idle", "lock", "arm"}
    BY DEF Inside, Outside
<1>h. ASSUME tie \/ teie \/ tdr # <<>> \/ tsr # <<>>
      PROVE  \E c \in Writers : /\ pc[c] \in {"time", "test", "clock"} /\ Flying(c)
                                 /\ \A d \in Writers : d # c => pc[d] \in {"idle", "lock", "arm"}
    <2>1. PICK c \in Writers : Inside(c)
        BY <1>d, <1>h DEF Quiet
    <2>2. pc[c] \in {"time", "test", "clock"}
        BY <1>b, <1>d, <1>e, <1>h, <2>1 DEF Quiet, Preparing, Places
    <2>3. \A d \in Writers : d # c => pc[d] \in {"idle", "lock", "arm"}
        BY <1>c, <2>1 DEF IInv, AloneInv, Outside
    <2>4. QED
        BY <1>d, <2>2, <2>3
\* The transmitter works for the call in flight: its step keeps that call's account.
<1>i. ASSUME NEW c \in Writers, pc[c] \in {"time", "test", "clock"}, Flying(c)', pc' = pc,
             \A d \in Writers : d # c => pc[d] \in {"idle", "lock", "arm"}
      PROVE  Goal
    BY <1>i, <1>g
<1>j. ASSUME NEW c \in Writers, Flying(c)
      PROVE  /\ len[c] \in Nat /\ bytes \in Nat /\ calls[c] \in Nat /\ OnWire(c) \in Nat
             /\ Len(tdr) = (IF tdr = <<>> THEN 0 ELSE 1) /\ Len(tsr) = (IF tsr = <<>> THEN 0 ELSE 1)
    <2>1. Len(tdr) = (IF tdr = <<>> THEN 0 ELSE 1) /\ Len(tsr) = (IF tsr = <<>> THEN 0 ELSE 1)
        BY <1>j DEF Flying
    <2>2. len[c] \in Nat /\ bytes \in Nat /\ calls[c] \in Nat
        BY <1>b
    <2>3. OnWire(c) \in Nat
        BY <1>j, <2>1, <2>2 DEF Flying, OnWire
    <2>4. QED
        BY <2>1, <2>2, <2>3
\* Where driver and transmitter stand still, so does what is said of a call that stands still.
<1>k. ASSUME NEW c \in Writers, pc'[c] = pc[c], len'[c] = len[c], calls'[c] = calls[c],
             UNCHANGED <<txDone, bytes, src, tie, teie, tdr, tsr, wire, sent>>
      PROVE  (Preparing(c) => Preparing(c)') /\ (Flying(c) => Flying(c)')
    <2>1. Preparing(c) => Preparing(c)'
        BY <1>k DEF Preparing
    <2>2. OnWire(c)' = OnWire(c)
        BY <1>k DEF OnWire
    <2>3. Message(c, OnWire(c))' = Message(c, OnWire(c))
        BY <1>k, <2>2 DEF Message
    <2>4. Flying(c) => Flying(c)'
        BY <1>k, <2>2, <2>3 DEF Flying
    <2>5. QED
        BY <2>1, <2>4
<1>1. ASSUME NEW c \in Writers,
             Lock(c) \/ \E v \in {"log", "print"}, n \in 1 .. MaxLen : Call(c, v, n)
      PROVE  Goal
    <2>1. UNCHANGED <<txDone, bytes, src, tie, teie, tdr, tsr, wire, sent>>
        BY <1>1 DEF Lock, Call, driver, hardware
    <2>2. /\ ~ Inside(c) /\ ~ Inside(c)'
          /\ \A d \in Writers : d # c => pc'[d] = pc[d] /\ len'[d] = len[d] /\ calls'[d] = calls[d]
        <3>1. CASE Lock(c)
            BY <3>1, <1>b, <1>e, <1>g DEF Lock, At, Goto
        <3>2. ASSUME NEW v \in {"log", "print"}, NEW n \in 1 .. MaxLen, Call(c, v, n)
              PROVE  /\ ~ Inside(c) /\ ~ Inside(c)'
                     /\ \A d \in Writers : d # c => pc'[d] = pc[d] /\ len'[d] = len[d] /\ calls'[d] = calls[d]
            BY <3>2, <1>b, <1>e, <1>g DEF Call, At, Goto
        <3>3. QED
            BY <1>1, <3>1, <3>2
    <2>3. \A d \in Writers : Inside(d)' => d # c /\ Inside(d) /\ pc'[d] = pc[d]
        BY <1>e, <1>g, <2>2
    <2>4. Quiet => Quiet'
        BY <2>1 DEF Quiet
    <2>5. \A d \in Writers : d # c => (Preparing(d) => Preparing(d)') /\ (Flying(d) => Flying(d)')
        BY <1>k, <2>1, <2>2
    <2>6. (\A d \in Writers : ~ Inside(d)') => Quiet'
        <3>1. (\A d \in Writers : ~ Inside(d)') => \A d \in Writers : ~ Inside(d)
            BY <1>e, <1>g, <2>2
        <3>2. QED
            BY <1>d, <2>4, <3>1
    <2>7. ASSUME NEW d \in Writers, Inside(d)'
          PROVE  /\ pc'[d] \in {"disable", "drain", "bytes", "src", "enable"} => Preparing(d)'
                 /\ pc'[d] \in {"time", "test", "clock"} => Flying(d)'
                 /\ pc'[d] = "end" => Quiet'
        BY <1>d, <2>3, <2>4, <2>5, <2>7
    <2>8. QED
        BY <1>g, <2>6, <2>7
<1>2. ASSUME NEW c \in Writers, Arm(c) PROVE Goal
    <2>1. /\ UNCHANGED <<bytes, src, tie, teie, tdr, tsr, wire, sent>> /\ ~ txDone'
          /\ pc[c] = "arm" /\ pc' = [pc EXCEPT ![c] = "disable"]
        BY <1>2 DEF Arm, At, Goto, driver, hardware
    <2>2. \A d \in Writers : d # c => ~ Inside(d) /\ ~ Inside(d)' /\ pc'[d] = pc[d]
        BY <1>b, <1>e, <1>f, <1>g, <2>1
    <2>3. Quiet
        BY <1>d, <1>e, <2>1, <2>2
    <2>4. pc'[c] = "disable" /\ Inside(c)'
        BY <1>b, <1>g, <2>1
    <2>5. Preparing(c)'
        BY <2>1, <2>3, <2>4 DEF Quiet, Preparing
    <2>6. QED
        BY <1>g, <2>2, <2>4, <2>5
<1>3. ASSUME NEW c \in Writers, pc[c] \in {"disable", "drain", "bytes", "src"},
             Disable(c) \/ WaitTend(c) \/ SetBytes(c) \/ SetSource(c)
      PROVE  Goal
    <2>1. /\ UNCHANGED <<tdr, tsr, wire, sent, txDone, len, calls, teie>> \/ Disable(c)
          /\ Preparing(c)
        BY <1>3, <1>d DEF WaitTend, SetBytes, SetSource, driver, hardware
    <2>2. /\ pc'[c] \in {"drain", "bytes", "src", "enable"} /\ Preparing(c)'
          /\ \A d \in Writers : d # c => pc'[d] = pc[d]
        <3>1. CASE Disable(c)
            BY <3>1, <1>b, <2>1 DEF Disable, At, Goto, Preparing, hardware
        <3>2. CASE WaitTend(c)
            BY <3>2, <1>b, <2>1 DEF WaitTend, At, Goto, Preparing, hardware, driver
        <3>3. CASE SetBytes(c)
            BY <3>3, <1>b, <2>1 DEF SetBytes, At, Goto, Preparing, hardware, driver
        <3>4. CASE SetSource(c)
            BY <3>4, <1>b, <2>1 DEF SetSource, At, Goto, Preparing, hardware, driver
        <3>5. QED
            BY <1>3, <3>1, <3>2, <3>3, <3>4
    <2>3. Inside(c)'
        BY <1>g, <2>2
    <2>4. \A d \in Writers : d # c => pc'[d] \in {"idle", "lock", "arm"}
        BY <1>f, <1>g, <2>3
    <2>5. QED
        BY <2>2, <2>3, <2>4
<1>4. ASSUME NEW c \in Writers, Enable(c) PROVE Goal
    <2>1. /\ UNCHANGED <<bytes, src, teie, tdr, tsr, wire, sent, txDone, len, calls>> /\ tie'
          /\ pc[c] = "enable" /\ pc' = [pc EXCEPT ![c] = "time"] /\ Preparing(c)
        BY <1>4, <1>d DEF Enable, At, Goto, hardware
    <2>2. len[c] \in Nat /\ len[c] >= 1 /\ bytes = len[c] /\ calls[c] \in Nat
        BY <1>a, <1>b, <2>1 DEF CallInv, Preparing
    <2>3. pc'[c] = "time" /\ Inside(c)'
        BY <1>b, <1>g, <2>1
    <2>4. OnWire(c) = 0 /\ OnWire(c)' = 0
        BY <2>1, <2>2 DEF Preparing, OnWire
    <2>5. Message(c, OnWire(c))' = Message(c, 0)
        BY <2>1, <2>4 DEF Message
    <2>6. wire' = sent' \o Message(c, OnWire(c))'
        BY <1>b, <2>1, <2>5, EmptyMessage DEF Preparing
    <2>7. Flying(c)'
        <3>1. src' = <<c, calls'[c], len'[c] - bytes' + 1>> /\ bytes' # 0 /\ bytes' <= len'[c]
            BY <2>1, <2>2 DEF Preparing
        <3>2. QED
            BY <2>1, <2>4, <2>6, <3>1 DEF Preparing, Flying
    <2>8. \A d \in Writers : d # c => pc'[d] \in {"idle", "lock", "arm"}
        BY <1>f, <1>g, <2>3
    <2>9. QED
        BY <2>3, <2>7, <2>8
<1>5. ASSUME NEW c \in Writers, StartTimer(c) \/ TestClock(c) PROVE Goal
    <2>1. /\ UNCHANGED <<bytes, src, tie, teie, tdr, tsr, wire, sent, txDone, len, calls>>
          /\ pc[c] \in {"time", "clock"} /\ pc' = [pc EXCEPT ![c] = "test"]
        BY <1>5 DEF StartTimer, TestClock, At, Goto, hardware, driver
    <2>2. pc'[c] = "test" /\ Inside(c)'
        BY <1>b, <1>g, <2>1
    <2>3. Flying(c)'
        <3>1. Flying(c)
            BY <1>d, <2>1
        <3>2. OnWire(c)' = OnWire(c)
            BY <2>1 DEF OnWire
        <3>3. Message(c, OnWire(c))' = Message(c, OnWire(c))
            BY <2>1, <3>2 DEF Message
        <3>4. QED
            BY <2>1, <3>1, <3>2, <3>3 DEF Flying
    <2>4. \A d \in Writers : d # c => pc'[d] \in {"idle", "lock", "arm"}
        BY <1>f, <1>g, <2>2
    <2>5. QED
        BY <2>2, <2>3, <2>4
<1>6. ASSUME NEW c \in Writers, TestDone(c) PROVE Goal
    <2>1. /\ UNCHANGED <<bytes, src, tie, teie, tdr, tsr, wire, txDone, len, calls>>
          /\ pc[c] = "test" /\ Flying(c)
        BY <1>6, <1>d DEF TestDone, At, hardware, driver
    <2>2. CASE txDone
        <3>1. pc' = [pc EXCEPT ![c] = "end"] /\ sent' = sent \o Message(c, len[c])
            BY <1>6, <1>c, <2>2 DEF TestDone, Goto
        <3>2. OnWire(c) = len[c]
            BY <1>b, <2>1, <2>2 DEF Flying, OnWire
        <3>3. Quiet'
            BY <2>1, <2>2, <3>1, <3>2 DEF Flying, Quiet
        <3>4. pc'[c] = "end" /\ Inside(c)'
            BY <1>b, <1>g, <3>1
        <3>5. \A d \in Writers : d # c => pc'[d] \in {"idle", "lock", "arm"}
            BY <1>f, <1>g, <3>4
        <3>6. QED
            BY <3>3, <3>4, <3>5
    <2>3. CASE ~ txDone
        <3>1. pc' = [pc EXCEPT ![c] = "clock"] /\ sent' = sent
            BY <1>6, <2>3 DEF TestDone, Goto
        <3>2. pc'[c] = "clock" /\ Inside(c)'
            BY <1>b, <1>g, <3>1
        <3>3. Flying(c)'
            BY <2>1, <3>1 DEF Flying, OnWire, Message
        <3>4. \A d \in Writers : d # c => pc'[d] \in {"idle", "lock", "arm"}
            BY <1>f, <1>g, <3>2
        <3>5. QED
            BY <3>2, <3>3, <3>4
    <2>4. QED
        BY <2>2, <2>3
<1>7. ASSUME NEW c \in Writers, Return(c) PROVE Goal
    <2>1. /\ UNCHANGED <<bytes, src, tie, teie, tdr, tsr, wire, sent>>
          /\ pc[c] = "end" /\ pc' = [pc EXCEPT ![c] = "idle"]
        BY <1>7 DEF Return, At, Goto, hardware, driver
    <2>2. Quiet'
        BY <1>d, <2>1 DEF Quiet
    <2>3. Inside(c)
        BY <1>e, <2>1
    <2>4. \A d \in Writers : pc'[d] \in {"idle", "lock", "arm"}
        <3>1. \A d \in Writers : d # c => pc[d] \in {"idle", "lock", "arm"}
            BY <1>c, <2>3 DEF IInv, AloneInv, Outside
        <3>2. QED
            BY <1>b, <2>1, <3>1
    <2>5. QED
        BY <2>2, <2>4
<1>8. CASE TxiIsr
    <2>1. tie /\ tdr = <<>> /\ UNCHANGED <<pc, len, calls, txDone, tsr, wire, sent>>
        BY <1>8 DEF TxiIsr, callers
    <2>2. PICK c \in Writers : /\ pc[c] \in {"time", "test", "clock"} /\ Flying(c)
                               /\ \A d \in Writers : d # c => pc[d] \in {"idle", "lock", "arm"}
        BY <1>h, <2>1
    <2>3. /\ len[c] \in Nat /\ bytes \in Nat /\ calls[c] \in Nat /\ OnWire(c) \in Nat
          /\ Len(tdr) = 0 /\ Len(tsr) = (IF tsr = <<>> THEN 0 ELSE 1)
        BY <1>j, <2>1, <2>2
    <2>4. bytes # 0 /\ src = <<c, calls[c], len[c] - bytes + 1>> /\ bytes <= len[c] /\ ~ txDone /\ ~ teie
        BY <2>1, <2>2 DEF Flying
    <2>5. /\ bytes' = bytes - 1 /\ tdr' = <<src>> /\ (tie' <=> bytes' # 0) /\ (teie' <=> bytes' = 0)
          /\ src' = (IF bytes' = 0 THEN Null ELSE <<c, calls[c], len[c] - bytes + 1 + 1>>)
        <3>1. /\ bytes' = bytes - 1 /\ tdr' = <<src>> /\ (tie' <=> bytes' # 0) /\ (teie' <=> bytes' = 0)
              /\ src' = (IF bytes' = 0 THEN Null ELSE [src EXCEPT ![3] = @ + 1])
            BY <1>8, <2>4 DEF TxiIsr
        <3>2. len[c] - bytes + 1 \in Nat
            BY <2>3, <2>4
        <3>3. [src EXCEPT ![3] = @ + 1] = <<c, calls[c], len[c] - bytes + 1 + 1>>
            BY <2>4, <3>2, NextByte
        <3>4. QED
            BY <3>1, <3>3
    <2>6. Len(tdr') = 1
        BY <2>5
    <2>7. OnWire(c)' = OnWire(c)
        BY <2>1, <2>3, <2>5, <2>6 DEF OnWire
    <2>8. tdr' = << <<c, calls[c], OnWire(c) + Len(tsr) + 1>> >>
        BY <2>3, <2>4, <2>5 DEF OnWire
    <2>9. src' = (IF bytes' = 0 THEN Null ELSE <<c, calls'[c], len'[c] - bytes' + 1>>)
        BY <2>1, <2>3, <2>5
    <2>10. Message(c, OnWire(c))' = Message(c, OnWire(c))
        BY <2>1, <2>7 DEF Message
    <2>11. bytes' <= len'[c] /\ OnWire(c)' >= 0
        BY <2>1, <2>3, <2>4, <2>5, <2>7
    <2>12. Flying(c)'
        BY <2>1, <2>2, <2>4, <2>5, <2>7, <2>8, <2>9, <2>10, <2>11 DEF Flying
    <2>13. QED
        BY <1>i, <2>1, <2>2, <2>12
<1>9. CASE TeiIsr
    <2>1. /\ teie /\ tdr = <<>> /\ tsr = <<>> /\ ~ tie' /\ ~ teie' /\ txDone'
          /\ UNCHANGED <<pc, len, calls, bytes, src, tdr, tsr, wire, sent>>
        BY <1>9 DEF TeiIsr, TEND, callers, hardware
    <2>2. PICK c \in Writers : /\ pc[c] \in {"time", "test", "clock"} /\ Flying(c)
                               /\ \A d \in Writers : d # c => pc[d] \in {"idle", "lock", "arm"}
        BY <1>h, <2>1
    <2>3. bytes = 0
        BY <2>1, <2>2 DEF Flying
    <2>4. OnWire(c)' = OnWire(c) /\ Message(c, OnWire(c))' = Message(c, OnWire(c))
        BY <2>1 DEF OnWire, Message
    <2>5. Flying(c)'
        BY <2>1, <2>2, <2>3, <2>4 DEF Flying
    <2>6. QED
        BY <1>i, <2>1, <2>2, <2>5
<1>10. CASE Load
    <2>1. /\ tdr # <<>> /\ tsr = <<>> /\ tsr' = tdr /\ tdr' = <<>>
          /\ UNCHANGED <<pc, len, calls, bytes, src, tie, teie, txDone, wire, sent>>
        BY <1>10 DEF Load, callers, driver
    <2>2. PICK c \in Writers : /\ pc[c] \in {"time", "test", "clock"} /\ Flying(c)
                               /\ \A d \in Writers : d # c => pc[d] \in {"idle", "lock", "arm"}
        BY <1>h, <2>1
    <2>3. /\ len[c] \in Nat /\ bytes \in Nat /\ OnWire(c) \in Nat /\ Len(tdr) = 1 /\ Len(tsr) = 0
        BY <1>j, <2>1, <2>2
    <2>4. Len(tdr') = 0 /\ Len(tsr') = 1
        BY <2>1, <2>3
    <2>5. OnWire(c)' = OnWire(c)
        BY <2>1, <2>3, <2>4 DEF OnWire
    <2>6. Message(c, OnWire(c))' = Message(c, OnWire(c))
        BY <2>1, <2>5 DEF Message
    <2>7. tsr' = << <<c, calls'[c], OnWire(c)' + 1>> >> /\ ~ txDone
        BY <2>1, <2>2, <2>3, <2>5 DEF Flying
    <2>8. Flying(c)'
        BY <2>1, <2>2, <2>5, <2>6, <2>7 DEF Flying
    <2>9. QED
        BY <1>i, <2>1, <2>2, <2>8
<1>11. CASE ShiftOut
    <2>1. /\ tsr # <<>> /\ tsr' = <<>> /\ wire' = wire \o tsr
          /\ UNCHANGED <<pc, len, calls, bytes, src, tie, teie, txDone, tdr, sent>>
        BY <1>11, <1>c DEF ShiftOut, callers, driver
    <2>2. PICK c \in Writers : /\ pc[c] \in {"time", "test", "clock"} /\ Flying(c)
                               /\ \A d \in Writers : d # c => pc[d] \in {"idle", "lock", "arm"}
        BY <1>h, <2>1
    <2>3. /\ len[c] \in Nat /\ bytes \in Nat /\ calls[c] \in Nat /\ OnWire(c) \in Nat
          /\ Len(tdr) = (IF tdr = <<>> THEN 0 ELSE 1) /\ Len(tsr) = 1
        BY <1>j, <2>1, <2>2
    <2>4. Len(tsr') = 0 /\ Len(tdr') = Len(tdr)
        BY <2>1
    <2>5. OnWire(c)' = OnWire(c) + 1
        BY <2>1, <2>3, <2>4 DEF OnWire
    <2>6. tsr = << <<c, calls[c], OnWire(c) + 1>> >> /\ wire = sent \o Message(c, OnWire(c)) /\ ~ txDone
        BY <2>1, <2>2 DEF Flying
    <2>7. wire' = sent' \o Message(c, OnWire(c))'
        <3>1. Message(c, OnWire(c)) \o tsr = Message(c, OnWire(c) + 1)
            BY <1>a, <2>3, <2>6, MessageGrows
        <3>2. Message(c, OnWire(c))' = Message(c, OnWire(c) + 1)
            BY <2>1, <2>5 DEF Message
        <3>3. /\ Message(c, OnWire(c)) \in Seq(Triple) /\ tsr \in Seq(Triple) /\ sent \in Seq(Triple)
            <4>1. Byte \subseteq Triple
                BY <1>b DEF Byte, Triple
            <4>2. sent \in Seq(Triple)
                BY <1>b, <4>1, SeqMonotonic
            <4>3. Message(c, OnWire(c)) \in Seq(Triple)
                BY <1>a, <2>3, MessageType
            <4>4. tsr \in Seq(Triple)
                BY <2>3, <2>6 DEF Triple
            <4>5. QED
                BY <4>2, <4>3, <4>4
        <3>4. (sent \o Message(c, OnWire(c))) \o tsr = sent \o (Message(c, OnWire(c)) \o tsr)
            BY <3>3, ConcatAssociative
        <3>5. QED
            BY <2>1, <2>6, <3>1, <3>2, <3>4
    <2>8. tdr' = <<>> \/ tdr' = << <<c, calls'[c], OnWire(c)' + Len(tsr') + 1>> >>
        BY <2>1, <2>2, <2>3, <2>4, <2>5 DEF Flying
    <2>9. OnWire(c)' >= 0
        BY <2>3, <2>5
    <2>10. Flying(c)'
        BY <2>1, <2>2, <2>6, <2>7, <2>8, <2>9 DEF Flying
    <2>11. QED
        BY <1>i, <2>1, <2>2, <2>10
<1>12. CASE (\E c \in Writers : TimePasses(c)) \/ UNCHANGED vars
    <2>1. UNCHANGED <<pc, len, calls, bytes, src, tie, teie, tdr, tsr, wire, sent, txDone>>
        BY <1>12 DEF TimePasses, vars, callers, driver, hardware
    <2>2. \A c \in Writers : /\ Inside(c)' = Inside(c)
                             /\ (Preparing(c) => Preparing(c)') /\ (Flying(c) => Flying(c)')
        BY <1>k, <2>1 DEF Inside
    <2>3. Quiet => Quiet'
        BY <2>1 DEF Quiet
    <2>4. (\A c \in Writers : ~ Inside(c)') => Quiet'
        BY <1>d, <2>2, <2>3
    <2>5. ASSUME NEW c \in Writers
          PROVE  /\ pc'[c] \in {"disable", "drain", "bytes", "src", "enable"} => Preparing(c)'
                 /\ pc'[c] \in {"time", "test", "clock"} => Flying(c)'
                 /\ pc'[c] = "end" => Quiet'
        BY <1>d, <2>1, <2>2, <2>3
    <2>6. QED
        BY <1>g, <2>4, <2>5
<1>13. QED
    <2>1. \A c \in Writers : /\ Disable(c) => pc[c] = "disable"
                             /\ WaitTend(c) => pc[c] = "drain"
                             /\ SetBytes(c) => pc[c] = "bytes"
                             /\ SetSource(c) => pc[c] = "src"
        BY DEF Disable, WaitTend, SetBytes, SetSource, At
    <2>2. QED
        BY <1>1, <1>2, <1>3, <1>4, <1>5, <1>6, <1>7, <1>8, <1>9, <1>10, <1>11, <1>12, <2>1
           DEF Next, Write, Interrupt, Transmit

LEMMA Invariance == Spec => []IInv
<1>1. IInv /\ [Next]_vars => IInv'
    BY TypeNext, CallNext, SourceNext, AloneNext, FlightNext DEF IInv
<1>2. QED
    BY InitIInv, <1>1, PTL DEF Spec

-----------------------------------------------------------------------------
\* The driver's count and source stay in their bounds, and the transmit interrupt never reads
\* through NULL, whatever calls fall into each other.
THEOREM TypeCorrect == Spec => []TypeOK
<1>1. IInv => TypeOK
    BY DEF IInv
<1>2. QED
    BY Invariance, <1>1, PTL

\* The mutex of log.c keeps two calls of logPrintf out of uartWrite.
THEOREM LogCallsApart == Spec => []LogCallsExclude
<1>1. IInv => LogCallsExclude
    BY DEF IInv, LockInv, LogCallsExclude
<1>2. QED
    BY Invariance, <1>1, PTL

\* No transfer reads a buffer that is no longer its caller's, until a call through cliPrintf falls
\* into another one or a call gives up.
THEOREM BuffersOutlive == Spec => []BufferOutlivesTransfer
<1>1. IInv => BufferOutlivesTransfer
    <2> SUFFICES ASSUME IInv, ~ disturbed, bytes # 0, src # Null
                 PROVE  pc[src[1]] \notin Outside /\ calls[src[1]] = src[2]
        BY DEF BufferOutlivesTransfer
    <2>1. PICK c \in Writers : Inside(c)
        BY DEF IInv, FlightInv, Quiet
    <2>2. pc[c] \in Places \ {"idle", "lock", "arm"}
        BY <2>1, WriterTypes DEF IInv, Inside, Outside
    <2>3. src[1] = c /\ src[2] = calls[c]
        BY <2>2 DEF IInv, FlightInv, Quiet, Preparing, Flying, Places
    <2>4. QED
        BY <2>1, <2>3 DEF Inside
<1>2. QED
    BY Invariance, <1>1, PTL

\* Until then the wire carries the messages of the calls that returned their length, whole and in
\* order, and a beginning of the one under way.
THEOREM WireCarriesMessages == Spec => []WireIsMessages
<1>1. IInv => WireIsMessages
    <2> SUFFICES ASSUME IInv, ~ disturbed
                 PROVE  \E c \in Writers, n \in 0 .. MaxLen :
                          wire = sent \o Message(c, n) /\ (n > 0 => pc[c] \notin Outside /\ n <= len[c])
        BY DEF WireIsMessages
    <2>1. /\ pc \in [Writers -> Places] /\ len \in [Writers -> 0 .. MaxLen] /\ bytes \in 0 .. MaxLen
          /\ MaxLen \in Nat /\ sent \in Seq(Byte)
        BY WriterTypes DEF IInv, TypeOK
    <2>2. CASE \E c \in Writers : pc[c] \in {"time", "test", "clock"}
        <3>1. PICK c \in Writers : pc[c] \in {"time", "test", "clock"}
            BY <2>2
        <3>2. Flying(c)
            BY <3>1 DEF IInv, FlightInv
        <3>3. OnWire(c) \in 0 .. MaxLen /\ OnWire(c) <= len[c]
            <4>1. Len(tdr) \in {0, 1} /\ Len(tsr) \in {0, 1}
                BY <3>2 DEF Flying
            <4>2. QED
                BY <2>1, <3>2, <4>1 DEF Flying, OnWire
        <3>4. wire = sent \o Message(c, OnWire(c)) /\ pc[c] \notin Outside
            BY <3>1, <3>2 DEF Flying, Outside
        <3>5. QED
            BY <3>3, <3>4
    <2>3. CASE ~ \E c \in Writers : pc[c] \in {"time", "test", "clock"}
        <3>1. wire = sent
            <4>1. CASE \A c \in Writers : ~ Inside(c)
                BY <4>1 DEF IInv, FlightInv, Quiet
            <4>2. ASSUME NEW c \in Writers, Inside(c) PROVE wire = sent
                BY <2>1, <2>3, <4>2 DEF IInv, FlightInv, Quiet, Preparing, Inside, Outside, Places
            <4>3. QED
                BY <4>1, <4>2
        <3>2. PICK c \in Writers : TRUE
            BY UartAssumption
        <3>3. wire = sent \o Message(c, 0)
            BY <2>1, <3>1, EmptyMessage
        <3>4. QED
            BY <2>1, <3>3
    <2>4. QED
        BY <2>2, <2>3
<1>2. QED
    BY Invariance, <1>1, PTL
=============================================================================
