----------------------------- MODULE Log_proofs -----------------------------
(***************************************************************************)
(* For every length of the ring, every reserve and every length of text:   *)
(* an entry stays inside the ring, and a ring that has wrapped stays full  *)
(* up to one entry.                                                        *)
(***************************************************************************)
EXTENDS Log, SequenceTheorems, TLAPS

Types ==
  /\ index \in Nat /\ length \in Nat /\ line \in Nat /\ text \in 0 .. MaxText
  /\ said \in Seq(Nat) /\ lap \in Nat /\ lap <= Len(said)

\* Between the test of the free space and the advance, the space tested for is there.
Reserved == wpc \in {"put", "advance"} => index + text + Slack <= BufMax

\* On the first lap nothing has been lost.
FirstLap ==
  lap = 0 =>
    /\ wpc # "lengthen" => length = index
    /\ wpc = "lengthen" => length + Size = index
    /\ wpc # "advance" => Len(said) = index
    /\ wpc = "advance" => Len(said) = index + Size

\* The index of the first lap is a place for the next entry.
InRing == index <= BufMax

IInv == Types /\ Reserved /\ FirstLap /\ InRing /\ RingStaysFull

-----------------------------------------------------------------------------
\* An entry is a sequence of its size.
LEMMA EntrySeq == ASSUME line \in Nat, text \in 0 .. MaxText
                  PROVE  Entry \in Seq(Nat) /\ Len(Entry) = Size
  BY LogAssumption DEF Entry, Size

LEMMA InitIInv == Init => IInv
  BY LogAssumption DEF Init, IInv, Types, Reserved, FirstLap, InRing, RingStaysFull, ring

\* The writer, one step per action of logBufPrintf, and the dump, which leaves the ring alone.
LEMMA NextIInv == IInv /\ [Next]_vars => IInv'
<1> USE LogAssumption
<1> SUFFICES ASSUME IInv, [Next]_vars PROVE IInv'
  OBVIOUS
<1>1. ASSUME NEW n \in 0 .. MaxText, LogPrintf(n) PROVE IInv'
  BY <1>1 DEF LogPrintf, ring, IInv, Types, Reserved, FirstLap, InRing, RingStaysFull, Size
<1>2. CASE Place
  <2>1. CASE index + text + Slack <= BufMax
    BY <1>2, <2>1 DEF Place, IInv, Types, Reserved, FirstLap, InRing, RingStaysFull, Size
  <2>2. CASE ~(index + text + Slack <= BufMax)
    <3>1. lap' = Len(said) /\ index' = 0 /\ length' = length /\ text' = text /\ said' = said
          /\ wpc = "place" /\ line' = line /\ wpc' = "put"
      BY <1>2, <2>2 DEF Place
    <3>2. Types' /\ Reserved' /\ InRing'
      BY <3>1 DEF IInv, Types, Reserved, InRing
    <3>3. lap = 0 => Len(said) = index /\ length = index
      BY <3>1 DEF IInv, FirstLap
    <3>4. index > 0 /\ (lap > 0 => lap' > 0)
      BY <2>2, <3>1 DEF IInv, Types
    <3>5. lap' > 0
      BY <3>1, <3>3, <3>4 DEF IInv, Types
    <3>6. length + MaxText + Slack > BufMax
      BY <2>2, <3>3 DEF IInv, Types, RingStaysFull
    <3> QED BY <3>1, <3>2, <3>5, <3>6 DEF IInv, FirstLap, RingStaysFull
  <2> QED BY <2>1, <2>2
<1>3. CASE Put
  <2>1. line \in Nat /\ text \in 0 .. MaxText
    BY DEF IInv, Types
  <2>2. Entry \in Seq(Nat) /\ Len(Entry) = Size
    BY <2>1, EntrySeq
  <2>3. said \o Entry \in Seq(Nat) /\ Len(said \o Entry) = Len(said) + Size
    BY <2>2 DEF IInv, Types
  <2>4. Size' = Size /\ Size \in Nat
    BY <1>3, <2>1 DEF Put, Size
  <2> QED BY <1>3, <2>3, <2>4 DEF Put, IInv, Types, Reserved, FirstLap, InRing, RingStaysFull
<1>4. CASE Advance
  BY <1>4 DEF Advance, IInv, Types, Reserved, FirstLap, InRing, RingStaysFull, Size
<1>5. CASE Lengthen
  BY <1>5 DEF Lengthen, IInv, Types, Reserved, FirstLap, InRing, RingStaysFull, Size
<1>6. CASE Unlock
  BY <1>6 DEF Unlock, ring, IInv, Types, Reserved, FirstLap, InRing, RingStaysFull, Size
<1>7. CASE DumpBegin \/ DumpBreak \/ Dump
  BY <1>7 DEF DumpBegin, DumpBreak, Dump, DumpMeasure, DumpLock, DumpChunk, DumpEnd, ring, writer,
              IInv, Types, Reserved, FirstLap, InRing, RingStaysFull, Size
<1>8. CASE UNCHANGED vars
  BY <1>8 DEF vars, ring, writer, IInv, Types, Reserved, FirstLap, InRing, RingStaysFull, Size
<1> QED BY <1>1, <1>2, <1>3, <1>4, <1>5, <1>6, <1>7, <1>8 DEF Next, Write

LEMMA Inductive == Spec => []IInv
  BY InitIInv, NextIInv, PTL DEF Spec

-----------------------------------------------------------------------------
\* The mutex is held by main inside logPrintf and by the CLI thread while it writes a chunk.
Locks == (wpc # "idle" <=> mutex = "main") /\ (dpc = "chunk" <=> mutex = "cli")

\* An entry under way has a number left for it.
Numbered == wpc \in {"place", "put"} => line <= MaxLines

\* The bytes of the lap stand at the start of the ring in the order they were logged.
LapInRing ==
  /\ Len(said) - lap = (IF wpc = "advance" THEN index + Size ELSE index)
  /\ \A p \in Pos : p < Len(said) - lap => buf[p] = said[lap + p + 1]

\* A dump never goes beyond the bytes there are.
DumpBounds ==
  /\ dIndex <= length
  /\ dpc \in {"lock", "chunk"} => dLen > 0 /\ dIndex + dLen <= length
  /\ dpc = "end" => dIndex = length

\* A dump that began between two calls sees the ring stand still, and has written it from its
\* beginning on.
DumpInv ==
  clean /\ dpc # "rest" =>
    /\ wpc = "idle" /\ begin = BufMax + index - length
    /\ Len(dumped) = dIndex
    /\ \A i \in 1 .. dIndex : dumped[i] = buf[(begin + i - 1) % BufMax]

DInv == TypeOK /\ Locks /\ Numbered /\ LapInRing /\ DumpBounds /\ DumpInv

\* A remainder, for the numbers the dump takes it of.
LEMMA ModOf ==
  ASSUME NEW n \in Nat, n > 0, NEW a \in Nat, a < 2 * n
  PROVE  a % n = (IF a < n THEN a ELSE a - n) /\ a % n \in 0 .. n - 1
<1>1. CASE a < n
  BY <1>1
<1>2. CASE ~ (a < n)
  BY <1>2
<1> QED BY <1>1, <1>2

LEMMA ModSum ==
  ASSUME NEW n \in Nat, n > 0, NEW a \in Nat, NEW k \in Nat, (a % n) + k < n, a + k < 2 * n
  PROVE  (a + k) % n = (a % n) + k
<1>1. a % n = (IF a < n THEN a ELSE a - n)
  BY ModOf
<1>2. a + k \in Nat /\ (a + k) % n = (IF a + k < n THEN a + k ELSE a + k - n)
  BY ModOf
<1> QED BY <1>1, <1>2

LEMMA ModRange == ASSUME NEW a \in Nat, NEW n \in Nat, n > 0
                  PROVE  a % n \in 0 .. n - 1
  OBVIOUS

LEMMA InitDInv == Init => DInv
<1> SUFFICES ASSUME Init PROVE DInv
  OBVIOUS
<1> USE LogAssumption DEF Init
<1>1. TypeOK
  <2>1. <<>> \in Seq(0 .. MaxLines) /\ <<>> \in Seq(1 .. MaxLines) /\ Len(<<>>) = 0
    BY EmptySeq
  <2>2. buf \in [Pos -> 0 .. MaxLines]
    OBVIOUS
  <2> QED BY <2>1, <2>2 DEF TypeOK
<1>2. Locks /\ Numbered /\ DumpBounds /\ DumpInv
  BY DEF Locks, Numbered, DumpBounds, DumpInv, None
<1>3. LapInRing
  <2>1. Len(said) = 0
    BY EmptySeq
  <2> QED BY <2>1 DEF LapInRing, Pos
<1> QED BY <1>1, <1>2, <1>3 DEF DInv

\* The writer puts an entry behind those of the lap.
LEMMA PutDInv == ASSUME IInv, DInv, Put PROVE DInv'
<1> USE LogAssumption
<1>1. /\ wpc = "put" /\ wpc' = "advance" /\ MainRuns /\ line' = line + 1 /\ said' = said \o Entry
      /\ buf' = [p \in Pos |-> IF p \in index .. index + Size - 1 THEN line
                               ELSE IF p = index + Size THEN 0 ELSE buf[p]]
      /\ UNCHANGED <<index, length, mutex, text, dump, lap, clean>>
  BY DEF Put
<1>2. /\ index \in 0 .. BufMax /\ length \in 0 .. BufMax /\ line \in 1 .. MaxLines /\ text \in 0 .. MaxText
      /\ lap \in Nat /\ buf \in [Pos -> 0 .. MaxLines] /\ said \in Seq(1 .. MaxLines)
  BY <1>1 DEF DInv, TypeOK, Numbered
<1>3. Size \in Nat /\ Size' = Size /\ index + Size < BufMax
  BY <1>1, <1>2 DEF Size, IInv, Reserved
<1>4. Entry \in Seq(1 .. MaxLines) /\ Len(Entry) = Size /\ \A i \in 1 .. Size : Entry[i] = line
  BY <1>2, <1>3 DEF Entry
<1>5. /\ said' \in Seq(1 .. MaxLines) /\ Len(said') = Len(said) + Size /\ Len(said) \in Nat
      /\ \A i \in 1 .. Len(said) + Size : said'[i] = IF i <= Len(said) THEN said[i] ELSE line
  <2> HIDE DEF Entry
  <2>1. /\ said \o Entry \in Seq(1 .. MaxLines) /\ Len(said \o Entry) = Len(said) + Len(Entry)
        /\ \A i \in 1 .. Len(said) + Len(Entry) :
             (said \o Entry)[i] = IF i <= Len(said) THEN said[i] ELSE Entry[i - Len(said)]
    BY <1>2, <1>4, ConcatProperties
  <2>2. Len(said) \in Nat
    BY <1>2, LenProperties
  <2>3. ASSUME NEW i \in 1 .. Len(said) + Size
        PROVE  said'[i] = IF i <= Len(said) THEN said[i] ELSE line
    <3>1. said'[i] = IF i <= Len(said) THEN said[i] ELSE Entry[i - Len(said)]
      BY <1>1, <1>4, <2>1
    <3>2. ~ (i <= Len(said)) => i - Len(said) \in 1 .. Size
      BY <1>3, <2>2
    <3> QED BY <1>4, <3>1, <3>2
  <2> QED BY <1>1, <1>4, <2>1, <2>2, <2>3
<1>6. Len(said) - lap = index /\ lap <= Len(said)
  BY <1>1, <1>2 DEF DInv, LapInRing, TypeOK
<1>n. index \in Nat /\ lap \in Nat /\ Len(said) \in Nat /\ Size \in Nat /\ Len(said) = lap + index
  <2>1. index \in Nat
    BY <1>2
  <2>2. Len(said) \in Nat
    BY <1>5
  <2> QED BY <1>2, <1>3, <1>6, <2>1, <2>2
<1>7. TypeOK'
  <2>1. buf' \in [Pos -> 0 .. MaxLines]
    BY <1>1, <1>2
  <2>2. line' \in 1 .. MaxLines + 1 /\ lap' \in 0 .. Len(said')
    BY <1>1, <1>2, <1>3, <1>5, <1>6
  <2> QED BY <1>1, <1>5, <2>1, <2>2 DEF DInv, TypeOK, dump, Pos
<1>8. Locks' /\ Numbered' /\ DumpBounds' /\ DumpInv'
  BY <1>1 DEF DInv, Locks, Numbered, DumpBounds, DumpInv, MainRuns, dump
<1>9. LapInRing'
  <2>1. Len(said') - lap' = index' + Size'
    <3>1. Len(said') = Len(said) + Size
      BY <1>5
    <3> QED BY <1>1, <1>3, <1>n, <3>1
  <2>2. ASSUME NEW p \in Pos, p < Len(said') - lap' PROVE buf'[p] = said'[lap' + p + 1]
    <3>1. p \in Nat /\ p < index + Size /\ lap' = lap
      BY <1>1, <1>2, <1>3, <2>1, <2>2 DEF Pos
    <3>2. CASE p < index
      <4>1. buf'[p] = buf[p]
        BY <1>1, <1>2, <1>3, <3>1, <3>2
      <4>2. buf[p] = said[lap + p + 1]
        BY <1>6, <3>1, <3>2 DEF DInv, LapInRing
      <4>3. lap + p + 1 \in 1 .. Len(said) + Size /\ lap + p + 1 <= Len(said)
        BY <1>n, <3>1, <3>2
      <4>4. said'[lap + p + 1] = said[lap + p + 1]
        BY <1>5, <4>3
      <4> QED BY <3>1, <4>1, <4>2, <4>4
    <3>3. CASE ~ (p < index)
      <4>1. buf'[p] = line
        BY <1>1, <1>2, <1>3, <3>1, <3>3
      <4>2. lap + p + 1 \in 1 .. Len(said) + Size /\ ~ (lap + p + 1 <= Len(said))
        BY <1>n, <3>1, <3>3
      <4>3. said'[lap + p + 1] = line
        BY <1>5, <4>2, Zenon
      <4> QED BY <3>1, <4>1, <4>3
    <3> QED BY <3>2, <3>3
  <2> QED BY <1>1, <2>1, <2>2 DEF LapInRing, Pos
<1> QED BY <1>7, <1>8, <1>9 DEF DInv

\* A chunk of a dump carries on where the last one ended.
LEMMA ChunkDInv == ASSUME IInv, DInv, DumpChunk PROVE DInv'
<1> USE LogAssumption
<1> DEFINE pos == (begin + dIndex) % BufMax
           part == [i \in 1 .. Upto(pos) |-> buf[pos + i - 1]]
<1>1. /\ dpc = "chunk" /\ dpc' = "measure" /\ mutex' = None
      /\ dumped' = dumped \o part /\ dIndex' = dIndex + Upto(pos)
      /\ UNCHANGED <<ring, writer, begin, dLen, said, lap, clean>>
  BY DEF DumpChunk
<1>2. /\ begin \in 0 .. 2 * BufMax /\ dIndex \in 0 .. BufMax /\ dLen \in 0 .. Chunk
      /\ buf \in [Pos -> 0 .. MaxLines] /\ dumped \in Seq(0 .. MaxLines)
      /\ index \in 0 .. BufMax /\ length \in 0 .. BufMax /\ dLen > 0 /\ dIndex + dLen <= length
  BY <1>1 DEF DInv, TypeOK, DumpBounds
<1>3. pos \in Pos
  BY <1>2, ModRange DEF Pos
<1> HIDE DEF pos
<1>4. Upto(pos) \in 0 .. dLen /\ pos + Upto(pos) <= BufMax
  BY <1>2, <1>3 DEF Upto, Pos
<1>5. part \in Seq(0 .. MaxLines) /\ Len(part) = Upto(pos) /\ \A i \in 1 .. Upto(pos) : part[i] = buf[pos + i - 1]
  <2>1. \A i \in 1 .. Upto(pos) : pos + i - 1 \in Pos
    BY <1>2, <1>3, <1>4 DEF Pos
  <2> QED BY <1>2, <1>4, <2>1
<1> HIDE DEF part
<1>6. /\ dumped' \in Seq(0 .. MaxLines) /\ Len(dumped') = Len(dumped) + Upto(pos) /\ Len(dumped) \in Nat
      /\ \A i \in 1 .. Len(dumped) + Upto(pos) :
           dumped'[i] = IF i <= Len(dumped) THEN dumped[i] ELSE part[i - Len(dumped)]
  <2>1. Len(dumped) \in Nat
    BY <1>2, LenProperties
  <2>2. /\ dumped \o part \in Seq(0 .. MaxLines) /\ Len(dumped \o part) = Len(dumped) + Len(part)
        /\ \A i \in 1 .. Len(dumped) + Len(part) :
             (dumped \o part)[i] = IF i <= Len(dumped) THEN dumped[i] ELSE part[i - Len(dumped)]
    BY <1>2, <1>5, ConcatProperties
  <2> QED BY <1>1, <1>5, <2>1, <2>2
<1>7. TypeOK'
  <2>1. dIndex' \in 0 .. BufMax
    BY <1>1, <1>2, <1>4
  <2> QED BY <1>1, <1>6, <2>1 DEF DInv, TypeOK, ring, writer, Pos
<1>8. Locks' /\ Numbered' /\ LapInRing'
  BY <1>1 DEF DInv, Locks, Numbered, LapInRing, ring, writer, Pos, Size, None
<1>9. DumpBounds'
  BY <1>1, <1>2, <1>4 DEF DumpBounds, ring
<1>10. DumpInv'
  <2> SUFFICES ASSUME clean PROVE DumpInv'
    BY <1>1 DEF DumpInv
  <2>1. /\ wpc = "idle" /\ begin = BufMax + index - length /\ Len(dumped) = dIndex
        /\ \A i \in 1 .. dIndex : dumped[i] = buf[(begin + i - 1) % BufMax]
    BY <1>1 DEF DInv, DumpInv
  <2>2. ASSUME NEW i \in 1 .. dIndex' PROVE dumped'[i] = buf[(begin + i - 1) % BufMax]
    <3>1. CASE i <= dIndex
      BY <1>1, <1>2, <1>4, <1>6, <2>1, <2>2, <3>1
    <3>2. CASE ~ (i <= dIndex)
      <4>1. /\ i - dIndex \in 1 .. Upto(pos) /\ i \in 1 .. dIndex + Upto(pos)
            /\ begin + i - 1 \in Nat /\ begin + dIndex \in Nat
        BY <1>1, <1>2, <1>4, <2>2, <3>2
      <4>2. dumped'[i] = buf[pos + (i - dIndex) - 1]
        BY <1>5, <1>6, <2>1, <3>2, <4>1
      <4>3. begin + dIndex < 2 * BufMax /\ begin + i - 1 < 2 * BufMax
        BY <1>1, <1>2, <1>4, <2>1, <4>1
      <4>4. (i - dIndex) - 1 \in Nat /\ pos + ((i - dIndex) - 1) < BufMax
            /\ (begin + dIndex) + ((i - dIndex) - 1) < 2 * BufMax
            /\ (begin + dIndex) + ((i - dIndex) - 1) = begin + i - 1
        BY <1>2, <1>3, <1>4, <3>2, <4>1, <4>3 DEF Pos
      <4>5. ((begin + dIndex) + ((i - dIndex) - 1)) % BufMax = pos + ((i - dIndex) - 1)
        BY <4>1, <4>4, ModSum DEF pos
      <4>6. (begin + i - 1) % BufMax = pos + (i - dIndex) - 1
        <5>1. pos + ((i - dIndex) - 1) = pos + (i - dIndex) - 1
          BY <1>2, <1>3, <4>1 DEF Pos
        <5> QED BY <4>4, <4>5, <5>1
      <4> QED BY <4>2, <4>6
    <3> QED BY <3>1, <3>2
  <2>3. Len(dumped') = dIndex'
    BY <1>1, <1>6, <2>1
  <2> QED BY <1>1, <2>1, <2>2, <2>3 DEF DumpInv, ring, writer
<1> QED BY <1>7, <1>8, <1>9, <1>10 DEF DInv

LEMMA NextDInv == IInv /\ DInv /\ [Next]_vars => DInv'
<1> USE LogAssumption
<1> SUFFICES ASSUME IInv, DInv, [Next]_vars PROVE DInv'
  OBVIOUS
<1>t. TypeOK /\ Len(said) \in Nat
  BY LenProperties DEF DInv, TypeOK
<1>1. ASSUME NEW n \in 0 .. MaxText, LogPrintf(n) PROVE DInv'
  <2>1. /\ wpc = "idle" /\ wpc' = "place" /\ mutex = None /\ mutex' = "main" /\ text' = n /\ line <= MaxLines
        /\ dpc = "rest" /\ UNCHANGED <<ring, dump, said, lap, clean>>
    BY <1>1 DEF LogPrintf, MainRuns, None
  <2>2. TypeOK'
    BY <1>t, <2>1 DEF TypeOK, ring, dump, Pos
  <2>3. Locks' /\ Numbered' /\ LapInRing' /\ DumpBounds' /\ DumpInv'
    BY <2>1 DEF DInv, Locks, Numbered, LapInRing, DumpBounds, DumpInv, ring, dump, Pos, None
  <2> QED BY <2>2, <2>3 DEF DInv
<1>2. CASE Place
  <2>1. /\ wpc = "place" /\ wpc' = "put" /\ MainRuns
        /\ UNCHANGED <<buf, length, line, mutex, text, dump, said, clean>>
    BY <1>2 DEF Place
  <2>2. \/ index' = index /\ lap' = lap
        \/ index' = 0 /\ lap' = Len(said)
    BY <1>2 DEF Place
  <2>3. TypeOK'
    BY <1>t, <2>1, <2>2 DEF TypeOK, dump, Pos
  <2>4. Locks' /\ Numbered' /\ DumpBounds' /\ DumpInv'
    BY <2>1 DEF DInv, Locks, Numbered, DumpBounds, DumpInv, MainRuns, dump
  <2>5. LapInRing'
    BY <1>t, <2>1, <2>2 DEF DInv, LapInRing, Pos
  <2> QED BY <2>3, <2>4, <2>5 DEF DInv
<1>3. CASE Put
  BY <1>3, PutDInv
<1>4. CASE Advance
  <2>1. /\ wpc = "advance" /\ wpc' = "lengthen" /\ MainRuns /\ index' = index + Size
        /\ UNCHANGED <<buf, length, line, mutex, text, dump, said, lap, clean>>
    BY <1>4 DEF Advance
  <2>2. index' \in 0 .. BufMax
    BY <1>t, <2>1 DEF IInv, Reserved, TypeOK, Size
  <2>3. TypeOK'
    BY <1>t, <2>1, <2>2 DEF TypeOK, dump, Pos
  <2>4. Locks' /\ Numbered' /\ DumpBounds' /\ DumpInv'
    BY <2>1 DEF DInv, Locks, Numbered, DumpBounds, DumpInv, MainRuns, dump
  <2>5. LapInRing'
    BY <2>1 DEF DInv, LapInRing, Pos
  <2> QED BY <2>3, <2>4, <2>5 DEF DInv
<1>5. CASE Lengthen
  <2>1. /\ wpc = "lengthen" /\ wpc' = "unlock" /\ MainRuns
        /\ UNCHANGED <<buf, index, line, mutex, text, dump, said, lap, clean>>
    BY <1>5 DEF Lengthen
  <2>2. length' \in 0 .. BufMax /\ length' >= length
    BY <1>t, <1>5 DEF Lengthen, TypeOK, Size
  <2>3. TypeOK'
    BY <1>t, <2>1, <2>2 DEF TypeOK, dump, Pos
  <2>4. Locks' /\ Numbered' /\ LapInRing'
    BY <2>1 DEF DInv, Locks, Numbered, LapInRing, dump, Pos
  <2>5. DumpBounds'
    BY <1>t, <2>1, <2>2 DEF DInv, DumpBounds, MainRuns, dump, TypeOK
  <2>6. DumpInv'
    BY <2>1 DEF DInv, DumpInv, dump, MainRuns
  <2> QED BY <2>3, <2>4, <2>5, <2>6 DEF DInv
<1>6. CASE Unlock
  <2>1. /\ wpc = "unlock" /\ wpc' = "idle" /\ MainRuns /\ mutex' = None /\ text' = 0
        /\ UNCHANGED <<ring, dump, said, lap, clean>>
    BY <1>6 DEF Unlock
  <2>2. TypeOK'
    BY <1>t, <2>1 DEF TypeOK, ring, dump, Pos
  <2>3. Locks' /\ Numbered' /\ LapInRing' /\ DumpBounds'
    BY <2>1 DEF DInv, Locks, Numbered, LapInRing, DumpBounds, ring, dump, Pos, None
  <2>4. DumpInv'
    BY <2>1 DEF DInv, DumpInv, ring, dump, MainRuns
  <2> QED BY <2>2, <2>3, <2>4 DEF DInv
<1>7. CASE DumpBegin
  <2>1. /\ dpc = "rest" /\ dpc' = "measure" /\ begin' = BufMax + index - length /\ dIndex' = 0 /\ dumped' = <<>>
        /\ clean' = (wpc = "idle") /\ UNCHANGED <<ring, mutex, writer, dLen, said, lap>>
    BY <1>7 DEF DumpBegin
  <2>2. dumped' \in Seq(0 .. MaxLines) /\ Len(dumped') = 0
    BY <2>1, EmptySeq
  <2>3. TypeOK'
    BY <1>t, <2>1, <2>2 DEF TypeOK, ring, writer, Pos
  <2>4. Locks' /\ Numbered' /\ LapInRing'
    BY <2>1 DEF DInv, Locks, Numbered, LapInRing, ring, writer, Pos, Size
  <2>5. DumpBounds'
    BY <1>t, <2>1 DEF DumpBounds, ring, TypeOK
  <2>6. DumpInv'
    <3>1. wpc' = wpc /\ index' = index /\ length' = length
      BY <2>1 DEF ring, writer
    <3>2. clean' => wpc' = "idle"
      BY <2>1, <3>1
    <3>3. 1 .. dIndex' = {}
      BY <2>1
    <3> QED BY <2>1, <2>2, <3>1, <3>2, <3>3 DEF DumpInv
  <2> QED BY <2>3, <2>4, <2>5, <2>6 DEF DInv
<1>8. CASE DumpBreak \/ DumpEnd
  <2>1. /\ dpc \in {"measure", "end"} /\ dpc' = "rest" /\ begin' = 0 /\ dIndex' = 0 /\ dLen' = 0 /\ dumped' = <<>>
        /\ UNCHANGED <<ring, mutex, writer, said, lap, clean>>
    BY <1>8 DEF DumpBreak, DumpEnd
  <2>2. dumped' \in Seq(0 .. MaxLines)
    BY <2>1, EmptySeq
  <2>3. TypeOK'
    BY <1>t, <2>1, <2>2 DEF TypeOK, ring, writer, Pos
  <2>4. Locks' /\ Numbered' /\ LapInRing' /\ DumpBounds' /\ DumpInv'
    BY <1>t, <2>1 DEF DInv, Locks, Numbered, LapInRing, DumpBounds, DumpInv, ring, writer, Pos, Size, TypeOK
  <2> QED BY <2>3, <2>4 DEF DInv
<1>9. CASE DumpMeasure
  <2>1. /\ dpc = "measure" /\ dpc' = (IF length = dIndex THEN "end" ELSE "lock")
        /\ dLen' = (IF length - dIndex > Chunk THEN Chunk ELSE length - dIndex)
        /\ UNCHANGED <<ring, mutex, writer, begin, dIndex, dumped, said, lap, clean>>
    BY <1>9 DEF DumpMeasure
  <2>2. length \in Nat /\ dIndex \in Nat /\ dIndex <= length
    BY <1>t DEF DInv, DumpBounds, TypeOK
  <2>3. TypeOK'
    BY <1>t, <2>1, <2>2 DEF TypeOK, ring, writer, Pos
  <2>4. Locks' /\ Numbered' /\ LapInRing'
    BY <2>1 DEF DInv, Locks, Numbered, LapInRing, ring, writer, Pos, Size
  <2>5. DumpBounds' /\ DumpInv'
    BY <2>1, <2>2 DEF DInv, DumpBounds, DumpInv, ring, writer
  <2> QED BY <2>3, <2>4, <2>5 DEF DInv
<1>10. CASE DumpLock
  <2>1. /\ dpc = "lock" /\ mutex = None /\ dpc' = "chunk" /\ mutex' = "cli"
        /\ UNCHANGED <<ring, writer, begin, dIndex, dLen, dumped, said, lap, clean>>
    BY <1>10 DEF DumpLock
  <2>2. TypeOK'
    BY <1>t, <2>1 DEF TypeOK, ring, writer, Pos
  <2>3. Locks' /\ Numbered' /\ LapInRing' /\ DumpBounds' /\ DumpInv'
    BY <2>1 DEF DInv, Locks, Numbered, LapInRing, DumpBounds, DumpInv, ring, writer, Pos, Size, None
  <2> QED BY <2>2, <2>3 DEF DInv
<1>11. CASE DumpChunk
  BY <1>11, ChunkDInv
<1>12. CASE UNCHANGED vars
  BY <1>12 DEF vars, ring, writer, dump, DInv, TypeOK, Locks, Numbered, LapInRing, DumpBounds, DumpInv, Pos, Size
<1> QED BY <1>1, <1>2, <1>3, <1>4, <1>5, <1>6, <1>7, <1>8, <1>9, <1>10, <1>11, <1>12 DEF Next, Write, Dump

LEMMA DumpInvariance == Spec => [](IInv /\ DInv)
  BY InitIInv, NextIInv, InitDInv, NextDInv, PTL DEF Spec

-----------------------------------------------------------------------------
\* logBufPrintf never writes beyond the end of the ring, the NUL included.
THEOREM EntriesFit == Spec => []EntryFits
<1>1. IInv => EntryFits
  BY LogAssumption DEF IInv, Types, Reserved, EntryFits, Size
<1> QED BY <1>1, Inductive, PTL

\* What a dump can show of a ring that has wrapped is never more than an entry short of its length.
THEOREM StaysFull == Spec => []RingStaysFull
<1>1. IInv => RingStaysFull
  BY DEF IInv
<1> QED BY <1>1, Inductive, PTL

\* Index, length and the dump's own variables stay in their bounds, also when a dump has cut into
\* a call of logPrintf.
THEOREM TypeCorrect == Spec => []TypeOK
<1>1. DInv => TypeOK
  BY DEF DInv
<1> QED BY <1>1, DumpInvariance, PTL

\* Where a byte of the current lap stands in the dump.
LEMMA DumpedIsSaid ==
  ASSUME DInv, dpc = "end", clean, NEW j \in 0 .. index - 1, j < length
  PROVE  dumped[length - j] = said[Len(said) - j]
<1> USE LogAssumption
<1>1. /\ index \in 0 .. BufMax /\ length \in 0 .. BufMax /\ Len(said) \in Nat /\ lap \in Nat
      /\ wpc = "idle" /\ begin = BufMax + index - length /\ dIndex = length
      /\ \A i \in 1 .. length : dumped[i] = buf[(begin + i - 1) % BufMax]
  BY LenProperties DEF DInv, TypeOK, DumpInv, DumpBounds
<1>2. length - j \in 1 .. length /\ begin + (length - j) - 1 = BufMax + (index - 1 - j)
  BY <1>1
<1>3. (BufMax + (index - 1 - j)) % BufMax = index - 1 - j
  <2>1. BufMax + (index - 1 - j) \in Nat /\ BufMax + (index - 1 - j) < 2 * BufMax
        /\ ~ (BufMax + (index - 1 - j) < BufMax)
    BY <1>1
  <2> DEFINE a == BufMax + (index - 1 - j)
  <2> HIDE DEF a
  <2>2. BufMax \in Nat /\ BufMax > 0
    OBVIOUS
  <2>3. a \in Nat /\ a < 2 * BufMax /\ ~ (a < BufMax)
    BY <2>1 DEF a
  <2>4. a % BufMax = a - BufMax
    BY <2>2, <2>3, ModOf
  <2>5. a - BufMax = index - 1 - j
    BY <1>1 DEF a
  <2> QED BY <2>4, <2>5 DEF a
<1>4. dumped[length - j] = buf[index - 1 - j]
  BY <1>1, <1>2, <1>3
<1>5. Len(said) - lap = index /\ index - 1 - j \in Pos /\ index - 1 - j < Len(said) - lap
  BY <1>1 DEF DInv, LapInRing, Pos
<1>6. buf[index - 1 - j] = said[lap + (index - 1 - j) + 1]
  BY <1>5 DEF DInv, LapInRing
<1>7. lap + (index - 1 - j) + 1 = Len(said) - j
  BY <1>1, <1>5
<1> QED BY <1>4, <1>6, <1>7

\* Until the ring wraps, a dump between two calls of logPrintf is the whole log.
THEOREM DumpsAreComplete == Spec => []CompleteBeforeWrap
<1>1. IInv /\ DInv => CompleteBeforeWrap
  <2> SUFFICES ASSUME IInv, DInv, dpc = "end", clean, lap = 0 PROVE dumped = said
    BY DEF CompleteBeforeWrap
  <2>1. /\ wpc = "idle" /\ Len(dumped) = length /\ length \in Nat /\ Len(said) \in Nat
        /\ dumped \in Seq(Nat) /\ said \in Seq(Nat)
    <3>1. 0 .. MaxLines \subseteq Nat /\ 1 .. MaxLines \subseteq Nat
      BY LogAssumption
    <3>2. dumped \in Seq(Nat) /\ said \in Seq(Nat)
      BY <3>1, SeqMonotonic DEF DInv, TypeOK
    <3> QED BY <3>2, LenProperties DEF DInv, TypeOK, DumpInv, DumpBounds
  <2>2. Len(said) = index /\ length = index
    BY <2>1 DEF IInv, FirstLap
  <2>3. ASSUME NEW i \in 1 .. Len(dumped) PROVE dumped[i] = said[i]
    <3>1. length - i \in 0 .. index - 1 /\ length - i < length
          /\ length - (length - i) = i /\ Len(said) - (length - i) = i
      BY <2>1, <2>2
    <3> QED BY <3>1, DumpedIsSaid
  <2> QED BY <2>1, <2>2, <2>3, SeqEqual
<1> QED BY <1>1, DumpInvariance, PTL

\* A later dump ends with what was logged last.
THEOREM DumpsKeepNewest == Spec => []NewestKept
<1>1. IInv /\ DInv => NewestKept
  <2> DEFINE n == Min({Len(dumped), Len(said) - lap})
  <2> SUFFICES ASSUME IInv, DInv, dpc = "end", clean PROVE LastOf(dumped, n) = LastOf(said, n)
    BY DEF NewestKept
  <2>1. /\ wpc = "idle" /\ Len(dumped) = length /\ length \in Nat /\ Len(said) \in Nat /\ lap \in Nat
        /\ index \in Nat /\ Len(said) - lap = index
        /\ dumped \in Seq(Nat) /\ said \in Seq(Nat)
    <3>1. 0 .. MaxLines \subseteq Nat /\ 1 .. MaxLines \subseteq Nat
      BY LogAssumption
    <3>2. dumped \in Seq(Nat) /\ said \in Seq(Nat)
      BY <3>1, SeqMonotonic DEF DInv, TypeOK
    <3> QED BY <3>2, LenProperties DEF DInv, TypeOK, DumpInv, DumpBounds, LapInRing
  <2>2. n \in Nat /\ n <= length /\ n <= index
    <3>1. n = (IF length <= index THEN length ELSE index)
      BY <2>1 DEF Min
    <3> QED BY <2>1, <3>1
  <2> HIDE DEF n
  <2>3. ASSUME NEW s \in Seq(Nat), n <= Len(s), Len(s) \in Nat
        PROVE  /\ LastOf(s, n) \in Seq(Nat) /\ Len(LastOf(s, n)) = n
               /\ \A i \in 1 .. n : LastOf(s, n)[i] = s[Len(s) - n + i]
    <3> DEFINE a == Len(s) - n + 1
    <3>1. a \in Int /\ a >= 1 /\ Len(s) - a + 1 = n /\ (a <= Len(s) <=> n > 0)
      BY <2>2, <2>3
    <3>2. \A i \in a .. Len(s) : s[i] \in Nat
      BY <2>3, <3>1, ElementOfSeq
    <3> HIDE DEF a
    <3>3. /\ SubSeq(s, a, Len(s)) \in Seq(Nat)
          /\ Len(SubSeq(s, a, Len(s))) = (IF a <= Len(s) THEN Len(s) - a + 1 ELSE 0)
          /\ \A i \in 1 .. Len(s) - a + 1 : SubSeq(s, a, Len(s))[i] = s[a + i - 1]
      <4>1. a \in Int /\ Len(s) \in Int
        BY <2>3, <3>1
      <4> DEFINE b == Len(s)
      <4> HIDE DEF b
      <4>2. /\ SubSeq(s, a, b) \in Seq(Nat)
            /\ Len(SubSeq(s, a, b)) = (IF a <= b THEN b - a + 1 ELSE 0)
            /\ \A i \in 1 .. b - a + 1 : SubSeq(s, a, b)[i] = s[a + i - 1]
        BY <3>2, <4>1, SubSeqProperties, SMT DEF b
      <4> QED BY <4>2 DEF b
    <3>4. LastOf(s, n) = SubSeq(s, a, Len(s))
      BY DEF LastOf, a
    <3>5. Len(LastOf(s, n)) = n
      BY <2>2, <3>1, <3>3, <3>4
    <3>6. \A i \in 1 .. n : a + i - 1 = Len(s) - n + i
      BY <2>2, <2>3 DEF a
    <3> QED BY <3>1, <3>3, <3>4, <3>5, <3>6
  <2>4. n <= Len(said)
    BY <2>1, <2>2
  <2>5. /\ LastOf(dumped, n) \in Seq(Nat) /\ Len(LastOf(dumped, n)) = n
        /\ \A i \in 1 .. n : LastOf(dumped, n)[i] = dumped[Len(dumped) - n + i]
    BY <2>1, <2>2, <2>3
  <2>6. /\ LastOf(said, n) \in Seq(Nat) /\ Len(LastOf(said, n)) = n
        /\ \A i \in 1 .. n : LastOf(said, n)[i] = said[Len(said) - n + i]
    BY <2>1, <2>3, <2>4
  <2>7. ASSUME NEW i \in 1 .. n PROVE LastOf(dumped, n)[i] = LastOf(said, n)[i]
    <3>1. /\ n - i \in 0 .. index - 1 /\ n - i < length
          /\ length - (n - i) = length - n + i /\ Len(said) - (n - i) = Len(said) - n + i
      BY <2>1, <2>2
    <3>2. dumped[length - (n - i)] = said[Len(said) - (n - i)]
      BY <3>1, DumpedIsSaid
    <3> QED BY <2>1, <2>5, <2>6, <3>1, <3>2
  <2> QED BY <2>5, <2>6, <2>7, SeqEqual
<1> QED BY <1>1, DumpInvariance, PTL
=============================================================================
