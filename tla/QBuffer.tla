------------------------------ MODULE QBuffer ------------------------------
(***************************************************************************)
(* The ring of common/core/qbuffer.c, written one memory access at a time, *)
(* with one writer and one reader whose accesses interleave freely.        *)
(*                                                                         *)
(* The writer is a caller of qbufferWrite (the UART receive interrupt, or  *)
(* the publisher of events), the reader a caller of qbufferAvailable and,  *)
(* when that is positive, of qbufferRead (uart.c, event.c: every read in   *)
(* the program is guarded so).  On the target one of the two preempts the  *)
(* other and runs to completion; free interleaving covers both cases.      *)
(*                                                                         *)
(* Items are copied byte by byte, so a slot is a function from the bytes   *)
(* of an item to the item each byte belongs to: a slot or a destination    *)
(* whose bytes belong to different items is torn.  Both callers pass       *)
(* length 1, so the outer loop runs once.                                  *)
(*                                                                         *)
(* Neither in nor out is volatile in the C code.  The compiled order is    *)
(* the written order all the same: the copies are stores through uint8_t*, *)
(* which may alias the control block.                                      *)
(***************************************************************************)
EXTENDS Naturals, Sequences

CONSTANTS Length,   \* p_node->len, slots of the ring
          Size,     \* p_node->size, bytes of an item
          Item,     \* items that are written
          Blank     \* contents of memory nothing has been written to

ASSUME LengthAssumption == Length \in Nat /\ Length >= 2
ASSUME SizeAssumption   == Size \in Nat /\ Size >= 1
ASSUME BlankAssumption  == Blank \notin Item

VARIABLES in, out,      \* p_node->in, p_node->out
          buf,          \* p_node->p_buf
          wpc, wItem, wj,   \* qbufferWrite: next access, *p_data, j
          wret,             \* its last result
          rpc, rData, rj,   \* qbufferRead: next access, *p_data so far, j
          rret, rGot        \* its last result, the item it last returned

writerVars == <<wpc, wItem, wj, wret>>
readerVars == <<rpc, rData, rj, rret, rGot>>
vars == <<in, out, buf, writerVars, readerVars>>

Slot  == 0 .. Length - 1
Byte  == 0 .. Size - 1
Cell  == Item \cup {Blank}
Whole(v) == [b \in Byte |-> v]

NextIdx(i) == (i + 1) % Length

\* The number of items between the indices o and i, as qbufferAvailable computes it.
Available(i, o) == (Length + i - o) % Length

TypeOK ==
  /\ in \in Slot /\ out \in Slot
  /\ buf \in [Slot -> [Byte -> Cell]]
  /\ wpc \in {"idle", "copy", "publish"} /\ wItem \in Cell /\ wj \in Byte /\ wret \in BOOLEAN
  /\ rpc \in {"idle", "copy", "advance"} /\ rData \in [Byte -> Cell] /\ rj \in Byte
  /\ rret \in BOOLEAN /\ rGot \in [Byte -> Cell]

-----------------------------------------------------------------------------
\* qbufferCreateBySize on static, zeroed storage.
Init ==
  /\ in = 0 /\ out = 0
  /\ buf = [s \in Slot |-> Whole(Blank)]
  /\ wpc = "idle" /\ wItem = Blank /\ wj = 0 /\ wret = TRUE
  /\ rpc = "idle" /\ rData = Whole(Blank) /\ rj = 0 /\ rret = TRUE /\ rGot = Whole(Blank)

\* Mutants of WriteTest: no test for a full ring; a ring full one item too early.
WriteTestNoGap(v) ==
  /\ wpc = "idle"
  /\ wpc' = "copy" /\ wItem' = v /\ wj' = 0
  /\ UNCHANGED <<in, out, buf, wret, readerVars>>

WriteTestTwoGaps(v) ==
  /\ wpc = "idle"
  /\ IF NextIdx(in) # out /\ NextIdx(NextIdx(in)) # out
       THEN wpc' = "copy" /\ wItem' = v /\ wj' = 0 /\ UNCHANGED wret
       ELSE wret' = FALSE /\ UNCHANGED <<wpc, wItem, wj>>
  /\ UNCHANGED <<in, out, buf, readerVars>>

\* qbufferWrite is called with item v and compares next_in with out.
WriteTest(v) ==
  /\ wpc = "idle"
  /\ IF NextIdx(in) # out
       THEN wpc' = "copy" /\ wItem' = v /\ wj' = 0 /\ UNCHANGED wret
       ELSE wret' = FALSE /\ UNCHANGED <<wpc, wItem, wj>>
  /\ UNCHANGED <<in, out, buf, readerVars>>

\* p_buf[j] = p_data[j]
WriteByte ==
  /\ wpc = "copy"
  /\ buf' = [buf EXCEPT ![in][wj] = wItem]
  /\ IF wj + 1 < Size THEN wj' = wj + 1 /\ UNCHANGED wpc
                      ELSE wpc' = "publish" /\ UNCHANGED wj
  /\ UNCHANGED <<in, out, wItem, wret, readerVars>>

\* p_node->in = next_in, and qbufferWrite returns true.
WritePublish ==
  /\ wpc = "publish"
  /\ in' = NextIdx(in)
  /\ wret' = TRUE
  /\ wpc' = "idle"
  /\ UNCHANGED <<out, buf, wItem, wj, readerVars>>

\* Mutant of ReadPoll: the read is not guarded by qbufferAvailable.
ReadPollUnguarded ==
  /\ rpc = "idle"
  /\ rpc' = "copy" /\ rj' = 0
  /\ UNCHANGED <<in, out, buf, writerVars, rData, rret, rGot>>

\* The reader's caller goes on to qbufferRead when qbufferAvailable is positive.
ReadPoll ==
  /\ rpc = "idle"
  /\ Available(in, out) > 0
  /\ rpc' = "copy" /\ rj' = 0
  /\ UNCHANGED <<in, out, buf, writerVars, rData, rret, rGot>>

\* p_data[j] = p_buf[j]: qbufferRead copies the slot before it tests for one.
ReadByte ==
  /\ rpc = "copy"
  /\ rData' = [rData EXCEPT ![rj] = buf[out][rj]]
  /\ IF rj + 1 < Size THEN rj' = rj + 1 /\ UNCHANGED rpc
                      ELSE rpc' = "advance" /\ UNCHANGED rj
  /\ UNCHANGED <<in, out, buf, writerVars, rret, rGot>>

\* Mutant of ReadAdvance: out stays where it is.
ReadAdvanceForgets ==
  /\ rpc = "advance"
  /\ IF out # in THEN rret' = TRUE /\ rGot' = rData
                 ELSE rret' = FALSE /\ UNCHANGED rGot
  /\ rpc' = "idle"
  /\ UNCHANGED <<in, out, buf, writerVars, rData, rj>>

\* The test of out against in, and out's step to the next slot.
ReadAdvance ==
  /\ rpc = "advance"
  /\ IF out # in THEN out' = NextIdx(out) /\ rret' = TRUE /\ rGot' = rData
                 ELSE rret' = FALSE /\ UNCHANGED <<out, rGot>>
  /\ rpc' = "idle"
  /\ UNCHANGED <<in, buf, writerVars, rData, rj>>

Writer == (\E v \in Item : WriteTest(v)) \/ WriteByte \/ WritePublish
Reader == ReadPoll \/ ReadByte \/ ReadAdvance

Next == Writer \/ Reader

Spec == Init /\ [][Next]_vars

\* The reader's thread polls in a loop that never ends, and nothing else holds the core for good.
FairSpec == Spec /\ WF_vars(Reader)

-----------------------------------------------------------------------------
\* The items in the ring, oldest first.
Count == IF in >= out THEN in - out ELSE Length + in - out
SlotAt(k) == IF out + k < Length THEN out + k ELSE out + k - Length
Contents == [k \in 1 .. Count |-> buf[SlotAt(k - 1)]]
Occupied == {s \in Slot : IF in >= out THEN s >= out /\ s < in ELSE s >= out \/ s < in}

\* The writer is never copying into the slot the reader is copying from, although no lock
\* separates qbufferWrite from qbufferRead: the slot kept free between in and out does.
NoSlotShared == ~ (wpc \in {"copy", "publish"} /\ rpc \in {"copy", "advance"} /\ in = out)

\* A qbufferRead guarded by qbufferAvailable never fails, and hands out a complete item that some
\* call of qbufferWrite was given: what was there when it was counted is still there when it is
\* taken, and no interruption by the writer makes it a mixture of two items or memory that has
\* not been written.  (Before the first read, rGot is what Init gives it.)
GuardedReadsAreWhole == rret /\ (rGot = Whole(Blank) \/ \E v \in Item : rGot = Whole(v))

\* One writer and one reader see a first-in first-out queue that holds Length - 1 items: a write
\* is refused only when that many are waiting, and each read returns the oldest, unaltered.
Fifo == INSTANCE BoundedFifo WITH
          Value <- {Whole(v) : v \in Item}, Capacity <- Length - 1, NoValue <- Whole(Blank),
          queue <- Contents, putOk <- wret, got <- rGot, getOk <- rret
ImplementsFifo == Fifo!Spec

\* Every item accepted into the ring is taken out: the read index passes its slot.
Drains == \A s \in Slot : (s \in Occupied) ~> (out = NextIdx(s))
=============================================================================
