---------------------------- MODULE UartRx_proofs ----------------------------
(***************************************************************************)
(* Reception, for every length of the ring, every number of calls of       *)
(* uartOpen and every number of bytes: the ring is there before the first  *)
(* byte, no byte is lost track of, and those the ring keeps are read in    *)
(* their order.                                                            *)
(***************************************************************************)
EXTENDS UartRx, TLAPS

\* How far the first uartOpen has got, and what there cannot be before it has opened the driver.
OpenInv ==
  /\ openPc \in {"create", "open"} => ~ rie
  /\ openPc \in {"open", "done"} => len = Length
  /\ openPc = "done" => rie
  /\ openPc \in {"create", "open", "done"} => ~ isOpen /\ opened < Opens
  /\ isOpen => rie
  /\ openPc = "check" /\ ~ isOpen => ~ rie
  /\ rie => len = Length
  /\ bad => rdr # 0
  /\ ~ rie => rdr = 0 /\ ~ orer /\ in = 0 /\ out = 0 /\ kept = <<>> /\ taken = 0 /\ cliPc = "sleep"

\* A read that has begun has a byte under it, which stays there.
ReadInv ==
  /\ cliPc \in {"copy", "advance"} => in # out
  /\ cliPc = "advance" => got = buf[out]

Count == IF in >= out THEN in - out ELSE Length + in - out

\* BytesInOrder, in parts
CountInv == Len(kept) = taken + Count
OrderInv == \A k \in 1 .. Len(kept) - taken : buf[At(k - 1)] = kept[taken + k]
GotInv   == cliPc \in {"update", "echo"} => taken > 0 /\ got = kept[taken]

IInv == TypeOK /\ OpenInv /\ ReadInv /\ CountInv /\ OrderInv /\ GotInv /\ EveryByteAccounted

-----------------------------------------------------------------------------
\* The step of an index, and the number of bytes in the ring, without remainders.
LEMMA NextIdxWraps ==
  ASSUME len = Length
  PROVE  \A i \in Slot : NextIdx(i) = (IF i + 1 = Length THEN 0 ELSE i + 1) /\ NextIdx(i) \in Slot
BY RxAssumption DEF Slot, NextIdx

LEMMA AvailableIsCount ==
  ASSUME len = Length, in \in Slot, out \in Slot
  PROVE  Available = Count
BY RxAssumption DEF Slot, Available, Count

LEMMA InitIInv == Init => IInv
<1> SUFFICES ASSUME Init PROVE IInv
    OBVIOUS
<1>1. 0 \in Slot /\ 0 \in 0 .. Opens
    BY RxAssumption DEF Slot
<1>2. TypeOK
    BY <1>1 DEF Init, TypeOK, Loops
<1>3. OpenInv /\ ReadInv /\ CountInv /\ OrderInv /\ GotInv /\ EveryByteAccounted
    BY <1>1 DEF Init, OpenInv, ReadInv, CountInv, Count, OrderInv, GotInv, EveryByteAccounted
<1>4. QED
    BY <1>2, <1>3 DEF IInv

\* A thread's calls find the ring that uartOpen has set up.
LEMMA ReaderHasRing == IInv /\ cliPc # "sleep" => rie /\ len = Length
BY DEF IInv, OpenInv

\* What the receive interrupt does with its byte.
RxiKeeps ==
  /\ NextIdx(in) # out
  /\ buf' = [buf EXCEPT ![in] = rdr] /\ in' = NextIdx(in)
  /\ kept' = Append(kept, rdr) /\ full' = full

RxiRefuses == NextIdx(in) = out /\ full' = full + 1 /\ buf' = buf /\ in' = in /\ kept' = kept

LEMMA RxiKeepsOrRefuses == RxiIsr => RxiKeeps \/ RxiRefuses
BY DEF RxiIsr, RxiKeeps, RxiRefuses

LEMMA TypeNext == IInv /\ [Next]_vars => TypeOK'
<1> SUFFICES ASSUME IInv, [Next]_vars PROVE TypeOK'
    OBVIOUS
<1> USE RxAssumption DEF IInv, TypeOK, ring, sci, opening, cli, history
<1>1. CASE OpenCheck
    BY <1>1 DEF OpenCheck
<1>2. CASE CreateRing
    <2>1. 0 \in Slot
        BY DEF Slot
    <2>2. QED
        BY <1>2, <2>1 DEF CreateRing
<1>3. CASE DriverOpen
    BY <1>3 DEF DriverOpen
<1>4. CASE OpenDone
    BY <1>4 DEF OpenDone, OpenInv
<1>5. CASE Arrive
    <2>1. rdr' \in Nat /\ overruns' \in Nat /\ arrived' \in Nat
        BY <1>5 DEF Arrive
    <2>2. orer' \in BOOLEAN /\ bad' \in BOOLEAN
        BY <1>5 DEF Arrive
    <2>3. QED
        BY <1>5, <2>1, <2>2 DEF Arrive
<1>6. CASE RxiIsr
    <2>1. NextIdx(in) \in Slot
        BY <1>6, NextIdxWraps DEF RxiIsr, OpenInv
    <2>2. buf' \in [Slot -> Nat] /\ in' \in Slot /\ kept' \in Seq(Nat) /\ full' \in Nat
        <3>1. CASE RxiKeeps
            BY <2>1, <3>1 DEF RxiKeeps
        <3>2. CASE RxiRefuses
            BY <3>2 DEF RxiRefuses
        <3>3. QED
            BY <1>6, <3>1, <3>2, RxiKeepsOrRefuses
    <2>3. QED
        BY <1>6, <2>2 DEF RxiIsr
<1>7. CASE EriIsr
    <2>1. damaged' \in Nat
        BY <1>7 DEF EriIsr
    <2>2. QED
        BY <1>7, <2>1 DEF EriIsr
<1>8. CASE CliMain
    BY <1>8 DEF CliMain
<1>9. CASE ReadCopy
    BY <1>9 DEF ReadCopy
<1>10. CASE ReadAdvance
    <2>1. NextIdx(out) \in Slot
        BY <1>10, NextIdxWraps, ReaderHasRing DEF ReadAdvance
    <2>2. QED
        BY <1>10, <2>1 DEF ReadAdvance
<1>11. CASE Update
    BY <1>11 DEF Update
<1>12. CASE KeepLoop
    BY <1>12 DEF KeepLoop, Loops
<1>13. CASE Look
    BY <1>13 DEF Look, Loops
<1>14. CASE Echo
    BY <1>14 DEF Echo, Loops
<1>15. CASE UNCHANGED vars
    BY <1>15 DEF vars
<1>16. QED
    BY <1>1, <1>2, <1>3, <1>4, <1>5, <1>6, <1>7, <1>8, <1>9, <1>10, <1>11, <1>12, <1>13, <1>14,
       <1>15 DEF Next, UartOpen, Interrupt, Cli

LEMMA ControlNext == IInv /\ [Next]_vars => OpenInv' /\ EveryByteAccounted'
<1> SUFFICES ASSUME IInv, [Next]_vars PROVE OpenInv' /\ EveryByteAccounted'
    OBVIOUS
<1> USE RxAssumption DEF IInv, TypeOK, OpenInv, EveryByteAccounted, ring, sci, opening, cli, history
<1>1. CASE OpenCheck
    BY <1>1 DEF OpenCheck
<1>2. CASE CreateRing
    BY <1>2 DEF CreateRing
<1>3. CASE DriverOpen
    BY <1>3 DEF DriverOpen
<1>4. CASE OpenDone
    BY <1>4 DEF OpenDone
<1>5. CASE Arrive
    <2>1. /\ arrived' = arrived + 1 /\ rxCnt' = rxCnt /\ kept' = kept /\ full' = full /\ rie
          /\ damaged' = damaged
        BY <1>5 DEF Arrive
    <2>2. CASE rdr = 0 /\ ~ orer
        <3>1. rdr' = arrived + 1 /\ overruns' = overruns
            BY <1>5, <2>2 DEF Arrive
        <3>2. QED
            BY <1>5, <2>1, <2>2, <3>1 DEF Arrive
    <2>3. CASE ~ (rdr = 0 /\ ~ orer)
        <3>1. rdr' = rdr /\ overruns' = overruns + 1 /\ bad' = bad
            BY <1>5, <2>3 DEF Arrive
        <3>2. QED
            BY <1>5, <2>1, <2>3, <3>1 DEF Arrive
    <2>4. QED
        BY <2>2, <2>3
<1>6. CASE RxiIsr
    <2>2. rie
        BY <1>6 DEF RxiIsr
    <2>3. Len(kept') + full' = Len(kept) + full + 1
        BY <1>6, RxiKeepsOrRefuses DEF RxiKeeps, RxiRefuses
    <2>4. QED
        BY <1>6, <2>2, <2>3 DEF RxiIsr
<1>7. CASE EriIsr
    <2>1. /\ rie' = rie /\ rdr' = 0 /\ orer' = FALSE /\ bad' = FALSE /\ rxCnt' = rxCnt
          /\ kept' = kept /\ full' = full /\ arrived' = arrived /\ overruns' = overruns
        BY <1>7 DEF EriIsr
    <2>2. damaged' = damaged + (IF rdr = 0 THEN 0 ELSE 1)
        BY <1>7 DEF EriIsr
    <2>3. EveryByteAccounted'
        BY <2>1, <2>2
    <2>4. OpenInv'
        BY <1>7, <2>1 DEF EriIsr
    <2>5. QED
        BY <2>3, <2>4
<1>8. CASE CliMain
    BY <1>8 DEF CliMain
<1>9. CASE ReadCopy \/ ReadAdvance
    <2>1. rie /\ len = Length
        BY <1>9, ReaderHasRing DEF ReadCopy, ReadAdvance
    <2>2. CASE ReadCopy
        BY <2>1, <2>2 DEF ReadCopy
    <2>3. CASE ReadAdvance
        BY <2>1, <2>3 DEF ReadAdvance
    <2>4. QED
        BY <1>9, <2>2, <2>3
<1>10. CASE Update \/ KeepLoop \/ Look \/ Echo
    <2>1. rie /\ UNCHANGED <<ring, rxCnt, sci, opening, history>>
        BY <1>10, ReaderHasRing DEF Update, KeepLoop, Look, Echo, Loops
    <2>2. QED
        BY <2>1
<1>11. CASE UNCHANGED vars
    BY <1>11 DEF vars
<1>12. QED
    BY <1>1, <1>2, <1>3, <1>4, <1>5, <1>6, <1>7, <1>8, <1>9, <1>10, <1>11 DEF Next, UartOpen, Interrupt, Cli

\* What the ring holds: a byte enters at in, one leaves at out, and nothing else moves.
LEMMA RingNext == IInv /\ [Next]_vars => ReadInv' /\ CountInv' /\ OrderInv' /\ GotInv'
<1> SUFFICES ASSUME IInv, [Next]_vars PROVE ReadInv' /\ CountInv' /\ OrderInv' /\ GotInv'
    OBVIOUS
<1> USE RxAssumption DEF IInv
<1>a. /\ in \in 0 .. Length - 1 /\ out \in 0 .. Length - 1 /\ taken \in Nat /\ kept \in Seq(Nat)
      /\ Len(kept) \in Nat /\ rdr \in Nat /\ buf \in [0 .. Length - 1 -> Nat]
    BY DEF TypeOK, Slot
<1>b. Count \in Nat /\ Count < Length /\ Len(kept) - taken = Count
    BY <1>a DEF Count, CountInv
<1>c. \A k \in 0 .. Length - 1 : At(k) \in 0 .. Length - 1
    BY <1>a DEF At
<1>1. CASE RxiIsr
    <2>1. rie /\ len = Length
        BY <1>1 DEF RxiIsr, OpenInv
    <2>2. cliPc' = cliPc /\ got' = got /\ out' = out /\ taken' = taken
        BY <1>1 DEF RxiIsr, cli
    <2>3. CASE RxiKeeps
        <3>1. in' = (IF in + 1 = Length THEN 0 ELSE in + 1) /\ in' # out
            BY <2>1, <2>3, <1>a, NextIdxWraps DEF RxiKeeps, Slot
        <3>2. kept' = Append(kept, rdr) /\ buf' = [buf EXCEPT ![in] = rdr]
            BY <2>3 DEF RxiKeeps
        <3>3. /\ Len(kept') = Len(kept) + 1 /\ kept'[Len(kept) + 1] = rdr
              /\ \A k \in 1 .. Len(kept) : kept'[k] = kept[k]
            BY <1>a, <3>2
        <3>4. Count' = Count + 1
            BY <1>a, <2>2, <3>1 DEF Count
        <3>5. CountInv'
            BY <1>a, <1>b, <2>2, <3>3, <3>4 DEF CountInv
        <3>6. At(Count) = in
            BY <1>a DEF At, Count
        <3>7. \A k \in 0 .. Count - 1 : At(k) # in
            BY <1>a DEF At, Count
        <3>8. OrderInv'
            <4> SUFFICES ASSUME NEW k \in 1 .. Count + 1
                         PROVE  buf'[At(k - 1)] = kept'[taken + k]
                BY <1>a, <1>b, <2>2, <3>3 DEF OrderInv, At
            <4>1. CASE k = Count + 1
                BY <4>1, <1>a, <1>b, <3>2, <3>3, <3>6
            <4>2. CASE k \in 1 .. Count
                <5>1. k - 1 \in 0 .. Count - 1 /\ taken + k \in 1 .. Len(kept)
                    BY <4>2, <1>a, <1>b
                <5>2. buf[At(k - 1)] = kept[taken + k]
                    BY <4>2, <1>b DEF OrderInv
                <5>3. At(k - 1) # in
                    BY <5>1, <3>7
                <5>4. At(k - 1) \in 0 .. Length - 1
                    <6>1. k - 1 \in 0 .. Length - 1
                        BY <5>1, <1>b
                    <6>2. QED
                        BY <6>1, <1>c
                <5>5. buf'[At(k - 1)] = buf[At(k - 1)]
                    BY <5>3, <5>4, <1>a, <3>2
                <5>6. QED
                    BY <5>1, <5>2, <5>5, <3>3
            <4>3. QED
                BY <4>1, <4>2, <1>b
        <3>9. ReadInv'
            <4>1. ReadInv
                OBVIOUS
            <4>2. cliPc = "advance" => got = buf'[out]
                BY <4>1, <1>a, <3>2 DEF ReadInv
            <4>3. QED
                BY <4>1, <4>2, <2>2, <3>1 DEF ReadInv
        <3>10. GotInv'
            <4>1. taken > 0 => taken \in 1 .. Len(kept)
                BY <1>a, <1>b
            <4>2. taken > 0 => kept'[taken] = kept[taken]
                BY <4>1, <3>3
            <4>3. GotInv
                OBVIOUS
            <4>4. QED
                BY <4>2, <4>3, <2>2 DEF GotInv
        <3>11. QED
            BY <3>5, <3>8, <3>9, <3>10
    <2>4. CASE RxiRefuses
        BY <2>2, <2>4 DEF RxiRefuses, ReadInv, CountInv, Count, OrderInv, At, GotInv
    <2>5. QED
        BY <1>1, <2>3, <2>4, RxiKeepsOrRefuses
<1>2. CASE ReadAdvance
    <2>1. len = Length /\ in # out /\ got = buf[out]
        BY <1>2, ReaderHasRing DEF ReadAdvance, ReadInv
    <2>2. /\ cliPc' \in {"update", "echo"} /\ got' = got /\ kept' = kept /\ buf' = buf /\ in' = in
          /\ taken' = taken + 1
        BY <1>2, <2>1 DEF ReadAdvance
    <2>3. out' = (IF out + 1 = Length THEN 0 ELSE out + 1)
        BY <1>2, <2>1, <1>a, NextIdxWraps DEF ReadAdvance, Slot
    <2>4. Count' = Count - 1 /\ Count >= 1
        BY <1>a, <2>1, <2>2, <2>3 DEF Count
    <2>5. CountInv'
        BY <1>a, <1>b, <2>2, <2>4 DEF CountInv
    <2>6. \A k \in 0 .. Count - 2 : At(k)' = At(k + 1)
        BY <1>a, <1>b, <2>3 DEF At
    <2>7. OrderInv'
        <3> SUFFICES ASSUME NEW k \in 1 .. Count - 1
                     PROVE  buf'[At(k - 1)'] = kept'[taken + 1 + k]
            BY <1>a, <1>b, <2>2 DEF OrderInv
        <3>1. k - 1 \in 0 .. Count - 2 /\ k + 1 \in 1 .. Count
            BY <1>b
        <3>2. At(k - 1)' = At(k)
            BY <2>6, <3>1
        <3>3. buf[At(k)] = kept[taken + (k + 1)]
            BY <1>b, <3>1 DEF OrderInv
        <3>4. QED
            BY <1>a, <2>2, <3>2, <3>3
    <2>8. At(0) = out
        BY <1>a DEF At
    <2>9. GotInv'
        <3>1. buf[At(1 - 1)] = kept[taken + 1]
            BY <1>b, <2>4 DEF OrderInv
        <3>2. QED
            BY <1>a, <2>1, <2>2, <2>8, <3>1 DEF GotInv
    <2>10. QED
        BY <2>2, <2>5, <2>7, <2>9 DEF ReadInv
<1>3. CASE CreateRing
    <2>1. in = 0 /\ out = 0 /\ kept = <<>> /\ taken = 0 /\ cliPc = "sleep"
        BY <1>3 DEF CreateRing, OpenInv
    <2>2. in' = 0 /\ out' = 0 /\ UNCHANGED <<buf, kept, taken, cliPc, got>>
        BY <1>3 DEF CreateRing, cli, history
    <2>3. QED
        BY <2>1, <2>2 DEF ReadInv, CountInv, Count, OrderInv, At, GotInv
<1>4. CASE ReadCopy
    BY <1>4, <1>a DEF ReadCopy, ring, history, ReadInv, CountInv, Count, OrderInv, At, GotInv
<1>5. CASE CliMain \/ Look
    <2>1. len = Length
        BY <1>5, ReaderHasRing DEF CliMain, Look, OpenInv
    <2>2. Available > 0 => in # out
        BY <1>a, <1>b, <2>1, AvailableIsCount DEF Slot, Count
    <2>3. QED
        BY <1>5, <2>2, <1>a
           DEF CliMain, Look, ring, history, ReadInv, CountInv, Count, OrderInv, At, GotInv
<1>6. CASE OpenCheck \/ DriverOpen \/ OpenDone \/ Arrive \/ EriIsr \/ UNCHANGED vars
    <2>1. UNCHANGED <<in, out, buf, cliPc, got, kept, taken>>
        BY <1>6 DEF OpenCheck, DriverOpen, OpenDone, Arrive, EriIsr, vars, ring, cli, history
    <2>2. QED
        BY <2>1 DEF ReadInv, CountInv, Count, OrderInv, At, GotInv
<1>7. CASE Update \/ KeepLoop \/ Echo
    <2>1. UNCHANGED <<in, out, buf, got, kept, taken>>
        BY <1>7 DEF Update, KeepLoop, Echo, ring, history
    <2>2. cliPc' \in {"sleep", "look", "test", "dump"}
        BY <1>7 DEF Update, KeepLoop, Echo, Loops
    <2>3. QED
        BY <2>1, <2>2 DEF ReadInv, CountInv, Count, OrderInv, At, GotInv
<1>8. QED
    BY <1>1, <1>2, <1>3, <1>4, <1>5, <1>6, <1>7 DEF Next, UartOpen, Interrupt, Cli

LEMMA Invariance == Spec => []IInv
<1>1. IInv /\ [Next]_vars => IInv'
    BY TypeNext, ControlNext, RingNext DEF IInv
<1>2. QED
    BY InitIInv, <1>1, PTL DEF Spec

-----------------------------------------------------------------------------
\* The variables keep their types, in particular the indices of the ring, whatever interrupts the
\* reader.
THEOREM TypeCorrect == Spec => []TypeOK
<1>1. IInv => TypeOK
    BY DEF IInv
<1>2. QED
    BY Invariance, <1>1, PTL

\* qbufferRead and the receive interrupt keep the bytes in the order they came, without a lock, in
\* a ring that uartOpen has set up before the driver turns reception on, and never again.
THEOREM BytesStayInOrder == Spec => []BytesInOrder
<1>1. IInv => RingBeforeBytes
    BY DEF IInv, OpenInv, RingBeforeBytes
<1>2. IInv => BytesInOrder
    BY <1>1 DEF IInv, CountInv, Count, OrderInv, GotInv, BytesInOrder
<1>3. QED
    BY Invariance, <1>2, PTL

\* A byte sent to the board is kept, refused, in the data register, lost to an overrun, or dropped
\* by the error interrupt because it came with a framing or parity error.
THEOREM BytesAccounted == Spec => []EveryByteAccounted
<1>1. IInv => EveryByteAccounted
    BY DEF IInv
<1>2. QED
    BY Invariance, <1>1, PTL

\* qbufferWrite refuses a received byte only when Length - 1 bytes wait in the ring.
THEOREM RefusesOnlyWhenFull == Spec => RefusedOnlyWhenFull
<1>1. IInv /\ [Next]_vars => (full' # full => Len(kept) - taken = Length - 1) \/ UNCHANGED vars
    <2> SUFFICES ASSUME IInv, [Next]_vars, full' # full PROVE Len(kept) - taken = Length - 1
        OBVIOUS
    <2> USE RxAssumption DEF IInv
    <2>1. RxiIsr
        BY DEF Next, UartOpen, Interrupt, Cli, OpenCheck, CreateRing, DriverOpen, OpenDone, Arrive, EriIsr,
           CliMain, ReadCopy, ReadAdvance, Update, KeepLoop, Look, Echo, vars, history
    <2>2. NextIdx(in) = out /\ len = Length
        BY <2>1, RxiKeepsOrRefuses DEF RxiKeeps, RxiRefuses, RxiIsr, OpenInv
    <2>3. /\ in \in 0 .. Length - 1 /\ out \in 0 .. Length - 1
          /\ out = (IF in + 1 = Length THEN 0 ELSE in + 1) /\ Len(kept) \in Nat /\ taken \in Nat
        BY <2>2, NextIdxWraps DEF TypeOK, Slot
    <2>4. QED
        BY <2>3 DEF CountInv, Count
<1>2. QED
    BY Invariance, <1>1, PTL DEF Spec, RefusedOnlyWhenFull
=============================================================================
