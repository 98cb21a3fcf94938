--------------------------- MODULE QBuffer_proofs ---------------------------
(***************************************************************************)
(* What QBuffer promises, for a ring of any length, items of any size and  *)
(* any set of items.                                                       *)
(***************************************************************************)
EXTENDS QBuffer, SequenceTheorems, TLAPS

(***************************************************************************)
(* The inductive invariant.  Its parts say what each side has done so far  *)
(* of its copy, and that the two sides cannot meet: a writer in the middle *)
(* of a copy keeps a free slot ahead of it, a reader in the middle of one  *)
(* has an item under it.                                                   *)
(***************************************************************************)
WriterInv ==
  /\ wpc # "idle" => wItem \in Item /\ NextIdx(in) # out
  /\ wpc = "copy" => \A b \in Byte : b < wj => buf[in][b] = wItem
  /\ wpc = "publish" => buf[in] = Whole(wItem)

ReaderInv ==
  /\ rpc # "idle" => in # out
  /\ rpc = "copy" => \A b \in Byte : b < rj => rData[b] = buf[out][b]
  /\ rpc = "advance" => rData = buf[out]
  /\ rret

ContentsInv == \A s \in Occupied : \E v \in Item : buf[s] = Whole(v)

IInv == TypeOK /\ WriterInv /\ ReaderInv /\ ContentsInv /\ GuardedReadsAreWhole

-----------------------------------------------------------------------------
\* The step of an index: the remainder of the C code is a wrap at the end of the ring.
LEMMA NextIdxWraps ==
  \A i \in Slot : NextIdx(i) = IF i + 1 = Length THEN 0 ELSE i + 1
BY LengthAssumption DEF Slot, NextIdx

\* qbufferAvailable counts the occupied slots, although it subtracts unsigned numbers.
LEMMA AvailableIsCount ==
  ASSUME in \in Slot, out \in Slot
  PROVE  Available(in, out) = Count
BY LengthAssumption DEF Slot, Available, Count


\* An index never leaves the ring.
LEMMA NextIdxInRing == \A i \in Slot : NextIdx(i) \in Slot
BY NextIdxWraps, LengthAssumption DEF Slot

LEMMA TypeInit == Init => TypeOK
<1> SUFFICES ASSUME Init PROVE TypeOK
    OBVIOUS
<1>1. 0 \in Slot /\ 0 \in Byte
    BY LengthAssumption, SizeAssumption DEF Slot, Byte
<1>2. Whole(Blank) \in [Byte -> Cell]
    BY DEF Whole, Cell
<1>3. buf \in [Slot -> [Byte -> Cell]]
    BY <1>2 DEF Init
<1>4. QED
    BY <1>1, <1>2, <1>3 DEF Init, TypeOK, Cell

LEMMA TypeNext == TypeOK /\ [Next]_vars => TypeOK'
<1> SUFFICES ASSUME TypeOK, [Next]_vars PROVE TypeOK'
    OBVIOUS
<1> USE DEF TypeOK
<1>1. ASSUME NEW v \in Item, WriteTest(v) PROVE TypeOK'
    <2>1. UNCHANGED <<in, out, buf, rpc, rData, rj, rret, rGot>>
        BY <1>1 DEF WriteTest, readerVars
    <2>2. 0 \in Byte /\ v \in Cell
        BY SizeAssumption DEF Byte, Cell
    <2>3. wpc' \in {"idle", "copy", "publish"} /\ wItem' \in Cell /\ wj' \in Byte /\ wret' \in BOOLEAN
        BY <1>1, <2>2 DEF WriteTest
    <2>4. QED
        BY <2>1, <2>3
<1>2. CASE WriteByte
    <2>1. buf' \in [Slot -> [Byte -> Cell]]
        BY <1>2 DEF WriteByte
    <2>2. wj' \in Byte /\ wpc' \in {"idle", "copy", "publish"}
        BY <1>2, SizeAssumption DEF WriteByte, Byte
    <2>3. QED
        BY <1>2, <2>1, <2>2 DEF WriteByte, readerVars
<1>3. CASE WritePublish
    BY <1>3, NextIdxInRing DEF WritePublish, readerVars
<1>4. CASE ReadPoll
    BY <1>4, SizeAssumption DEF ReadPoll, writerVars, Byte
<1>5. CASE ReadByte
    <2>1. rData' \in [Byte -> Cell] /\ UNCHANGED <<in, out, buf, writerVars, rret, rGot>>
        BY <1>5 DEF ReadByte
    <2>2. rj' \in Byte /\ rpc' \in {"idle", "copy", "advance"}
        BY <1>5, SizeAssumption DEF ReadByte, Byte
    <2>3. QED
        BY <2>1, <2>2 DEF writerVars
<1>6. CASE ReadAdvance
    BY <1>6, NextIdxInRing DEF ReadAdvance, writerVars
<1>7. CASE UNCHANGED vars
    BY <1>7 DEF vars, readerVars, writerVars
<1>8. QED
    BY <1>1, <1>2, <1>3, <1>4, <1>5, <1>6, <1>7 DEF Next, Writer, Reader

\* Every variable keeps its type: no index ever leaves the ring.
THEOREM TypeCorrect == Spec => []TypeOK
<1>1. Init => TypeOK
    BY TypeInit
<1>2. TypeOK /\ [Next]_vars => TypeOK'
    BY TypeNext
<1>3. QED
    BY <1>1, <1>2, PTL DEF Spec

-----------------------------------------------------------------------------
\* The slot in points to is free, and a step of in or out moves one slot in or out of Occupied.
LEMMA OccupiedSteps ==
  ASSUME TypeOK
  PROVE  /\ in \notin Occupied
         /\ in # out => out \in Occupied
         /\ in' = NextIdx(in) /\ out' = out /\ NextIdx(in) # out
              => Occupied' = Occupied \cup {in}
         /\ in' = in /\ out' = NextIdx(out) /\ in # out
              => Occupied' = Occupied \ {out}
         /\ in' = in /\ out' = out => Occupied' = Occupied
<1> USE LengthAssumption, NextIdxWraps DEF TypeOK, Slot, Occupied
<1>1. in \notin Occupied
    OBVIOUS
<1>2. in # out => out \in Occupied
    OBVIOUS
<1>3. ASSUME in' = NextIdx(in), out' = out, NextIdx(in) # out
      PROVE  Occupied' = Occupied \cup {in}
    BY <1>3
<1>4. ASSUME in' = in, out' = NextIdx(out), in # out
      PROVE  Occupied' = Occupied \ {out}
    BY <1>4
<1>5. ASSUME in' = in, out' = out
      PROVE  Occupied' = Occupied
    BY <1>5
<1>6. QED
    BY <1>1, <1>2, <1>3, <1>4, <1>5

LEMMA InvInit == Init => IInv
<1> SUFFICES ASSUME Init PROVE IInv
    OBVIOUS
<1>1. TypeOK
    BY TypeInit
<1>2. Occupied = {}
    BY LengthAssumption DEF Init, Occupied, Slot
<1>3. WriterInv /\ ReaderInv /\ ContentsInv /\ GuardedReadsAreWhole
    BY <1>2 DEF Init, WriterInv, ReaderInv, ContentsInv, GuardedReadsAreWhole
<1>4. QED
    BY <1>1, <1>3 DEF IInv

LEMMA InvNext == IInv /\ [Next]_vars => IInv'
<1> SUFFICES ASSUME IInv, [Next]_vars PROVE IInv'
    OBVIOUS
<1>1. TypeOK /\ TypeOK'
    BY TypeNext DEF IInv
<1>2. ASSUME NEW v \in Item, WriteTest(v)
      PROVE  WriterInv' /\ ReaderInv' /\ ContentsInv' /\ GuardedReadsAreWhole'
    <2> USE <1>1, <1>2 DEF IInv, WriteTest, readerVars
    <2>1. WriterInv'
        BY DEF WriterInv, Byte, TypeOK, NextIdx
    <2>2. ReaderInv'
        BY DEF ReaderInv
    <2>3. ContentsInv'
        BY DEF ContentsInv, Occupied
    <2>4. GuardedReadsAreWhole'
        BY DEF GuardedReadsAreWhole
    <2>5. QED
        BY <2>1, <2>2, <2>3, <2>4
<1>3. CASE WriteByte
    <2> USE <1>1, <1>3 DEF IInv, WriteByte, readerVars
    <2>1. in \notin Occupied /\ Occupied' = Occupied
        BY OccupiedSteps
    <2>2. WriterInv'
        <3>1. CASE wj + 1 < Size
            BY <3>1 DEF WriterInv, TypeOK, Byte, NextIdx
        <3>2. CASE ~ (wj + 1 < Size)
            <4>1. \A b \in Byte : b < wj \/ b = wj
                BY <3>2, SizeAssumption DEF TypeOK, Byte
            <4>2. buf'[in] \in [Byte -> Cell] /\ \A b \in Byte : buf'[in][b] = wItem
                BY <4>1 DEF WriterInv, TypeOK
            <4>3. buf'[in] = Whole(wItem)
                BY <4>2 DEF Whole
            <4>4. QED
                BY <3>2, <4>3 DEF WriterInv, NextIdx
        <3>3. QED
            BY <3>1, <3>2
    <2>3. rpc # "idle" => in # out
        BY DEF ReaderInv
    <2>4. in # out => buf'[out] = buf[out]
        BY DEF TypeOK
    <2>5. ReaderInv'
        BY <2>3, <2>4 DEF ReaderInv
    <2>6. ContentsInv'
        <3>1. \A s \in Occupied : buf'[s] = buf[s]
            BY <2>1 DEF TypeOK, Occupied
        <3>2. QED
            BY <2>1, <3>1 DEF ContentsInv
    <2>7. GuardedReadsAreWhole'
        BY DEF GuardedReadsAreWhole
    <2>8. QED
        BY <2>2, <2>5, <2>6, <2>7
<1>4. CASE WritePublish
    <2> USE <1>1, <1>4 DEF IInv, WritePublish, readerVars
    <2>1. Occupied' = Occupied \cup {in}
        BY OccupiedSteps DEF WriterInv
    <2>2. WriterInv'
        BY DEF WriterInv
    <2>3. ReaderInv'
        BY DEF ReaderInv, WriterInv
    <2>4. ContentsInv'
        BY <2>1 DEF ContentsInv, WriterInv
    <2>5. GuardedReadsAreWhole'
        BY DEF GuardedReadsAreWhole
    <2>6. QED
        BY <2>2, <2>3, <2>4, <2>5
<1>5. CASE ReadPoll
    <2> USE <1>1, <1>5 DEF IInv, ReadPoll, writerVars
    <2>1. in # out
        BY AvailableIsCount, LengthAssumption DEF Count, TypeOK, Slot
    <2>2. WriterInv'
        BY DEF WriterInv, NextIdx
    <2>3. ReaderInv'
        BY <2>1 DEF ReaderInv, Byte
    <2>4. ContentsInv' /\ GuardedReadsAreWhole'
        BY DEF ContentsInv, GuardedReadsAreWhole, Occupied
    <2>5. QED
        BY <2>2, <2>3, <2>4
<1>6. CASE ReadByte
    <2> USE <1>1, <1>6 DEF IInv, ReadByte, writerVars
    <2>1. WriterInv'
        BY DEF WriterInv, NextIdx
    <2>2. ReaderInv'
        <3>1. CASE rj + 1 < Size
            BY <3>1 DEF ReaderInv, TypeOK, Byte
        <3>2. CASE ~ (rj + 1 < Size)
            <4>1. \A b \in Byte : b < rj \/ b = rj
                BY <3>2, SizeAssumption DEF TypeOK, Byte
            <4>2. \A b \in Byte : rData'[b] = buf[out][b]
                BY <4>1 DEF ReaderInv, TypeOK
            <4>3. rData' \in [Byte -> Cell] /\ buf[out] \in [Byte -> Cell]
                BY DEF TypeOK
            <4>4. rData' = buf[out]
                BY <4>2, <4>3
            <4>5. QED
                BY <3>2, <4>4 DEF ReaderInv
        <3>3. QED
            BY <3>1, <3>2
    <2>3. ContentsInv' /\ GuardedReadsAreWhole'
        BY DEF ContentsInv, GuardedReadsAreWhole, Occupied
    <2>4. QED
        BY <2>1, <2>2, <2>3
<1>7. CASE ReadAdvance
    <2> USE <1>1, <1>7 DEF IInv, ReadAdvance, writerVars
    <2>1. in # out /\ out \in Occupied /\ rData = buf[out]
        BY OccupiedSteps DEF ReaderInv
    <2>2. Occupied' = Occupied \ {out} /\ out' = NextIdx(out)
        BY <2>1, OccupiedSteps
    <2>3. WriterInv'
        BY <2>1, <2>2, NextIdxWraps, LengthAssumption DEF WriterInv, TypeOK, Slot
    <2>4. ReaderInv'
        BY <2>1 DEF ReaderInv
    <2>5. ContentsInv'
        BY <2>2 DEF ContentsInv
    <2>6. GuardedReadsAreWhole'
        BY <2>1 DEF GuardedReadsAreWhole, ContentsInv
    <2>7. QED
        BY <2>3, <2>4, <2>5, <2>6
<1>8. CASE UNCHANGED vars
    BY <1>1, <1>8 DEF vars, readerVars, writerVars, IInv, WriterInv, ReaderInv, ContentsInv,
                      GuardedReadsAreWhole, Occupied, NextIdx
<1>9. QED
    BY <1>1, <1>2, <1>3, <1>4, <1>5, <1>6, <1>7, <1>8 DEF Next, Writer, Reader, IInv

THEOREM Invariance == Spec => []IInv
<1>1. QED
    BY InvInit, InvNext, PTL DEF Spec

\* Whatever the interleaving, the writer never copies into the slot the reader copies from.
THEOREM SlotNeverShared == Spec => []NoSlotShared
<1>1. IInv => NoSlotShared
    BY DEF IInv, ReaderInv, NoSlotShared
<1>2. QED
    BY <1>1, Invariance, PTL

\* Whatever the interleaving, a read that qbufferAvailable allowed returns a complete item that
\* was written.
THEOREM ReadsWhole == Spec => []GuardedReadsAreWhole
<1>1. IInv => GuardedReadsAreWhole
    BY DEF IInv
<1>2. QED
    BY <1>1, Invariance, PTL

-----------------------------------------------------------------------------
(***************************************************************************)
(* The ring implements the bounded queue.  Contents, the mapped queue,     *)
(* changes at two steps only: the store to in of qbufferWrite appends, the *)
(* store to out of qbufferRead takes the head off.                         *)
(***************************************************************************)
LEMMA CountRange ==
  ASSUME TypeOK
  PROVE  /\ Count \in 0 .. Length - 1
         /\ Count = 0 <=> in = out
         /\ Count = Length - 1 <=> NextIdx(in) = out
BY LengthAssumption, NextIdxWraps DEF TypeOK, Slot, Count

LEMMA SlotAtOccupied ==
  ASSUME TypeOK, NEW k \in 0 .. Count - 1
  PROVE  SlotAt(k) \in Occupied /\ SlotAt(k) \in Slot
BY LengthAssumption DEF TypeOK, Slot, Count, SlotAt, Occupied

LEMMA ContentsSeq ==
  ASSUME TypeOK
  PROVE  /\ Contents \in Seq([Byte -> Cell])
         /\ Len(Contents) = Count
         /\ \A k \in 1 .. Count : Contents[k] = buf[SlotAt(k - 1)]
<1>1. Count \in Nat
    BY CountRange, LengthAssumption
<1>2. \A k \in 1 .. Count : buf[SlotAt(k - 1)] \in [Byte -> Cell]
    <2> TAKE k \in 1 .. Count
    <2>1. k - 1 \in 0 .. Count - 1
        BY <1>1
    <2>2. QED
        BY <2>1, SlotAtOccupied DEF TypeOK
<1>3. QED
    BY <1>1, <1>2 DEF Contents

\* Contents only depends on the occupied slots.
LEMMA ContentsUnchanged ==
  ASSUME TypeOK, in' = in, out' = out, \A s \in Occupied : buf'[s] = buf[s]
  PROVE  Contents' = Contents
<1>1. Count' = Count /\ Count \in Nat
    BY CountRange, LengthAssumption DEF Count
<1>2. \A k \in 1 .. Count : buf'[SlotAt(k - 1)'] = buf[SlotAt(k - 1)]
    <2> TAKE k \in 1 .. Count
    <2>1. k - 1 \in 0 .. Count - 1
        BY <1>1
    <2>2. SlotAt(k - 1) \in Occupied /\ SlotAt(k - 1)' = SlotAt(k - 1)
        BY <2>1, SlotAtOccupied DEF SlotAt
    <2>3. QED
        BY <2>2
<1>3. QED
    BY <1>1, <1>2 DEF Contents

LEMMA PublishAppends ==
  ASSUME IInv, WritePublish, TypeOK'
  PROVE  Contents' = Append(Contents, Whole(wItem)) /\ Len(Contents) < Length - 1
<1> USE LengthAssumption DEF IInv
<1>1. NextIdx(in) # out /\ in' = NextIdx(in) /\ out' = out /\ buf' = buf /\ buf[in] = Whole(wItem)
    BY DEF WritePublish, WriterInv
<1>2. Count' = Count + 1 /\ SlotAt(Count) = in /\ Count \in Nat /\ Count < Length - 1
    <2>1. in \in Slot /\ out \in Slot /\ NextIdx(in) = IF in + 1 = Length THEN 0 ELSE in + 1
        BY NextIdxWraps DEF TypeOK
    <2>2. Count \in Nat /\ Count < Length - 1
        BY <1>1, CountRange
    <2>3. SlotAt(Count) = in
        BY <2>1 DEF SlotAt, Count, Slot
    <2>4. Count' = Count + 1
        BY <1>1, <2>1 DEF Count, Slot
    <2>5. QED
        BY <2>2, <2>3, <2>4
<1>3. \A k : SlotAt(k)' = SlotAt(k)
    BY <1>1 DEF SlotAt
<1>4. Contents' = [k \in 1 .. Count + 1 |-> buf[SlotAt(k - 1)]]
    BY <1>1, <1>2, <1>3 DEF Contents
<1>5. buf[SlotAt((Count + 1) - 1)] = Whole(wItem)
    BY <1>1, <1>2
<1>6. Contents \in Seq([Byte -> Cell]) /\ Len(Contents) = Count
    BY ContentsSeq
<1>7. Contents' = Append(Contents, Whole(wItem))
    <2>1. Contents = [k \in 1 .. Count |-> buf[SlotAt(k - 1)]]
        BY DEF Contents
    <2>2. QED
        BY <1>2, <1>4, <1>5, <1>6, <2>1
<1>8. QED
    BY <1>2, <1>6, <1>7

LEMMA AdvanceTakesHead ==
  ASSUME IInv, ReadAdvance, TypeOK'
  PROVE  Contents # <<>> /\ rData = Head(Contents) /\ Contents' = Tail(Contents)
<1> USE LengthAssumption DEF IInv
<1>1. in # out /\ rData = buf[out] /\ in' = in /\ out' = NextIdx(out) /\ buf' = buf
    BY DEF ReadAdvance, ReaderInv
<1>2. Count' = Count - 1 /\ Count \in Nat /\ Count >= 1
    <2>1. in \in Slot /\ out \in Slot /\ NextIdx(out) = IF out + 1 = Length THEN 0 ELSE out + 1
        BY NextIdxWraps DEF TypeOK
    <2>2. Count \in Nat /\ Count >= 1
        BY <1>1, CountRange
    <2>3. Count' = Count - 1
        BY <1>1, <2>1 DEF Count, Slot
    <2>4. QED
        BY <2>2, <2>3
<1>3. \A k \in 1 .. Count - 1 : SlotAt(k - 1)' = SlotAt(k)
    <2> TAKE k \in 1 .. Count - 1
    <2>1. out \in Slot /\ NextIdx(out) = IF out + 1 = Length THEN 0 ELSE out + 1
        BY NextIdxWraps DEF TypeOK
    <2>2. k \in Nat /\ k >= 1 /\ k < Length
        BY <1>2, CountRange
    <2>3. QED
        BY <1>1, <2>1, <2>2 DEF SlotAt, Slot
<1>4. Contents' = [k \in 1 .. Count - 1 |-> buf[SlotAt(k)]]
    BY <1>1, <1>2, <1>3 DEF Contents
<1>5. SlotAt(0) = out
    BY DEF SlotAt, TypeOK, Slot
<1>6. Contents[1] = buf[out]
    BY <1>2, <1>5, ContentsSeq
<1>7. Contents \in Seq([Byte -> Cell]) /\ Len(Contents) = Count /\ Contents # <<>>
    BY <1>2, ContentsSeq
<1>8. Contents' = Tail(Contents)
    <2>1. \A k \in 1 .. Count - 1 : Contents[k + 1] = buf[SlotAt(k)]
        <3> TAKE k \in 1 .. Count - 1
        <3>1. k + 1 \in 1 .. Count /\ (k + 1) - 1 = k
            BY <1>2
        <3>2. QED
            BY <3>1, ContentsSeq
    <2>2. /\ Tail(Contents) \in Seq([Byte -> Cell]) /\ Len(Tail(Contents)) = Count - 1
          /\ \A k \in 1 .. Count - 1 : Tail(Contents)[k] = Contents[k + 1]
        BY <1>7, HeadTailProperties
    <2>3. /\ Contents' \in Seq([Byte -> Cell]) /\ Len(Contents') = Count - 1
          /\ \A k \in 1 .. Count - 1 : Contents'[k] = buf[SlotAt(k)]
        <3>1. \A k \in 1 .. Count - 1 : buf[SlotAt(k)] \in [Byte -> Cell]
            BY <2>1, <1>2, <1>7, ElementOfSeq
        <3>2. QED
            BY <1>2, <1>4, <3>1
    <2>4. QED
        BY <2>1, <2>2, <2>3, SeqEqual
<1>9. QED
    BY <1>1, <1>6, <1>7, <1>8

\* qbuffer.c implements a bounded first-in first-out queue of len - 1 items, for one writer and
\* one guarded reader whose memory accesses interleave in any order.
THEOREM Refinement == Spec => ImplementsFifo
<1>1. Init => Fifo!Init
    <2> SUFFICES ASSUME Init PROVE Fifo!Init
        OBVIOUS
    <2>1. Contents = <<>>
        BY TypeInit, CountRange, ContentsSeq DEF Init
    <2>2. QED
        BY <2>1 DEF Init, Fifo!Init
<1>2. IInv /\ IInv' /\ [Next]_vars => [Fifo!Next]_(Fifo!fifoVars)
    <2> SUFFICES ASSUME IInv, IInv', [Next]_vars PROVE [Fifo!Next]_(Fifo!fifoVars)
        OBVIOUS
    <2> USE DEF Fifo!fifoVars, Fifo!Next
    <2>1. TypeOK /\ TypeOK'
        BY DEF IInv
    <2>2. ASSUME NEW v \in Item, WriteTest(v) PROVE [Fifo!Next]_(Fifo!fifoVars)
        <3>1. Contents' = Contents /\ rGot' = rGot /\ rret' = rret
            BY <2>1, <2>2, ContentsUnchanged DEF WriteTest, readerVars
        <3>2. CASE NextIdx(in) # out
            BY <2>2, <3>1, <3>2 DEF WriteTest
        <3>3. CASE NextIdx(in) = out
            <4>1. Len(Contents) = Length - 1
                BY <2>1, <3>3, CountRange, ContentsSeq
            <4>2. Fifo!Refuse
                BY <2>2, <3>1, <3>3, <4>1 DEF WriteTest, Fifo!Refuse
            <4>3. QED
                BY <4>2
        <3>4. QED
            BY <3>2, <3>3
    <2>3. CASE WriteByte
        <3>1. \A s \in Occupied : buf'[s] = buf[s]
            BY <2>1, <2>3, OccupiedSteps DEF WriteByte, TypeOK, Occupied
        <3>2. QED
            BY <2>1, <2>3, <3>1, ContentsUnchanged DEF WriteByte, readerVars
    <2>4. CASE WritePublish
        <3>1. wItem \in Item
            BY <2>4 DEF IInv, WriterInv, WritePublish
        <3>2. Fifo!Put(Whole(wItem))
            BY <2>1, <2>4, PublishAppends DEF WritePublish, readerVars, Fifo!Put
        <3>3. QED
            BY <3>1, <3>2
    <2>5. CASE ReadPoll
        BY <2>1, <2>5, ContentsUnchanged DEF ReadPoll, writerVars
    <2>6. CASE ReadByte
        BY <2>1, <2>6, ContentsUnchanged DEF ReadByte, writerVars
    <2>7. CASE ReadAdvance
        <3>1. in # out
            BY <2>7 DEF IInv, ReaderInv, ReadAdvance
        <3>2. Fifo!Get
            BY <2>1, <2>7, <3>1, AdvanceTakesHead DEF ReadAdvance, writerVars, Fifo!Get
        <3>3. QED
            BY <3>2
    <2>8. CASE UNCHANGED vars
        BY <2>1, <2>8, ContentsUnchanged DEF vars, readerVars, writerVars
    <2>9. QED
        BY <2>2, <2>3, <2>4, <2>5, <2>6, <2>7, <2>8 DEF Next, Writer, Reader
<1>3. QED
    BY <1>1, <1>2, Invariance, PTL DEF Spec, Fifo!Spec, ImplementsFifo
=============================================================================
