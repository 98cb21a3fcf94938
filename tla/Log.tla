-------------------------------- MODULE Log --------------------------------
(***************************************************************************)
(* The list ring of log.c: logPrintf of the main thread appends to it, the *)
(* CLI command "log list" dumps it.                                        *)
(*                                                                         *)
(* An entry takes Number characters for its number, then its text and a NUL, *)
(* which the next entry writes over; it is not split at the end of the     *)
(* ring but goes to its start, and leaves a gap.  The CLI thread is above  *)
(* the main thread and does not sleep during a dump: main goes on in it    *)
(* only when the CLI waits for the mutex, that is, to finish a call that   *)
(* the dump has cut into.  A byte of the ring is the number of its entry,  *)
(* or 0.  The ring of the boot log is the same code.                       *)
(***************************************************************************)
EXTENDS Naturals, SequencesExt

CONSTANTS BufMax,             \* LOG_LIST_BUF_MAX
          Number, Slack,     \* characters of the number and its tab; reserved beyond the text
          Chunk,           \* the 64 bytes the dump writes at once
          MaxText, MaxLines  \* bounds: characters of a text, entries written

ASSUME LogAssumption ==
  /\ BufMax \in Nat /\ Number \in Nat /\ Slack \in Nat /\ Number < Slack /\ Slack < BufMax
  /\ Chunk \in Nat /\ Chunk > 0 /\ MaxText \in Nat /\ MaxLines \in Nat
  /\ 2 * (MaxText + Slack) <= BufMax

VARIABLES buf, index, length, line,       \* log_buf_list
          mutex,                          \* holder of mutex_lock
          wpc, text,                      \* main: next step, characters of its message
          dpc, begin, dIndex, dLen, dumped,
                          \* the dump: next step, index_begin, index, buf_len, what it has written
          said, lap, clean  \* history: all bytes logged; those before the last wrap; whether
                            \* the dump began while main was not in logPrintf

ring   == <<buf, index, length, line>>
writer == <<wpc, text>>
dump   == <<dpc, begin, dIndex, dLen, dumped>>
vars   == <<ring, mutex, writer, dump, said, lap, clean>>

None == "none"
Pos  == 0 .. BufMax - 1
Size == Number + text
Entry == [i \in 1 .. Size |-> line]

\* Between its calls main waits for the CLI to sleep; within one it also runs when it is waited for.
MainRuns == dpc = "rest" \/ (dpc = "lock" /\ mutex = "main")

TypeOK ==
  /\ buf \in [Pos -> 0 .. MaxLines] /\ index \in 0 .. BufMax /\ length \in 0 .. BufMax
  /\ line \in 1 .. MaxLines + 1
  /\ mutex \in {None, "main", "cli"}
  /\ wpc \in {"idle", "place", "put", "advance", "lengthen", "unlock"} /\ text \in 0 .. MaxText
  /\ dpc \in {"rest", "measure", "lock", "chunk", "end"}
  /\ begin \in 0 .. 2 * BufMax /\ dIndex \in 0 .. BufMax /\ dLen \in 0 .. Chunk
  /\ dumped \in Seq(0 .. MaxLines) /\ said \in Seq(1 .. MaxLines) /\ lap \in 0 .. Len(said)
  /\ clean \in BOOLEAN

-----------------------------------------------------------------------------
\* logInit has run.  Entries are numbered from 1 here.
Init ==
  /\ buf = [p \in Pos |-> 0] /\ index = 0 /\ length = 0 /\ line = 1
  /\ mutex = None /\ wpc = "idle" /\ text = 0
  /\ dpc = "rest" /\ begin = 0 /\ dIndex = 0 /\ dLen = 0 /\ dumped = <<>>
  /\ said = <<>> /\ lap = 0 /\ clean = TRUE

(***************************************************************************)
(* The main thread: logPrintf and its logBufPrintf for the list.           *)
(***************************************************************************)
LogPrintf(n) ==
  /\ wpc = "idle" /\ MainRuns /\ mutex = None /\ line <= MaxLines
  /\ wpc' = "place" /\ mutex' = "main" /\ text' = n
  /\ UNCHANGED <<ring, dump, said, lap, clean>>

\* Mutant of Place: the reserve is left out of the test.
PlaceTight ==
  /\ wpc = "place" /\ MainRuns /\ wpc' = "put"
  /\ IF index + text <= BufMax THEN UNCHANGED <<index, lap>> ELSE index' = 0 /\ lap' = Len(said)
  /\ UNCHANGED <<buf, length, line, mutex, text, dump, said, clean>>

\* buf_last > buf_length_max: to the start of the ring
Place ==
  /\ wpc = "place" /\ MainRuns /\ wpc' = "put"
  /\ IF index + text + Slack <= BufMax THEN UNCHANGED <<index, lap>> ELSE index' = 0 /\ lap' = Len(said)
  /\ UNCHANGED <<buf, length, line, mutex, text, dump, said, clean>>

\* snprintf and line_index++
Put ==
  /\ wpc = "put" /\ MainRuns /\ wpc' = "advance"
  /\ buf' = [p \in Pos |-> IF p \in index .. index + Size - 1 THEN line
                           ELSE IF p = index + Size THEN 0 ELSE buf[p]]
  /\ line' = line + 1
  /\ said' = said \o Entry
  /\ UNCHANGED <<index, length, mutex, text, dump, lap, clean>>

\* buf_index += buf_len
Advance ==
  /\ wpc = "advance" /\ MainRuns /\ wpc' = "lengthen"
  /\ index' = index + Size
  /\ UNCHANGED <<buf, length, line, mutex, text, dump, said, lap, clean>>

\* buf_length grows until the next entry would take it over the length of the ring.
Lengthen ==
  /\ wpc = "lengthen" /\ MainRuns /\ wpc' = "unlock"
  /\ length' = IF Size + length <= BufMax THEN Size + length ELSE length
  /\ UNCHANGED <<buf, index, line, mutex, text, dump, said, lap, clean>>

Unlock ==
  /\ wpc = "unlock" /\ MainRuns /\ wpc' = "idle" /\ mutex' = None /\ text' = 0
  /\ UNCHANGED <<ring, dump, said, lap, clean>>

Write == Place \/ Put \/ Advance \/ Lengthen \/ Unlock

(***************************************************************************)
(* The CLI thread: "log list".                                             *)
(***************************************************************************)
\* Mutant of DumpBegin: the dump begins at the next place to write.
DumpBeginAtIndex ==
  /\ dpc = "rest" /\ dpc' = "measure"
  /\ begin' = BufMax + index /\ dIndex' = 0 /\ dumped' = <<>>
  /\ clean' = (wpc = "idle")
  /\ UNCHANGED <<ring, mutex, writer, dLen, said, lap>>

\* index_begin, outside the lock
DumpBegin ==
  /\ dpc = "rest" /\ dpc' = "measure"
  /\ begin' = BufMax + index - length /\ dIndex' = 0 /\ dumped' = <<>>
  /\ clean' = (wpc = "idle")
  /\ UNCHANGED <<ring, mutex, writer, dLen, said, lap>>

\* cliKeepLoop finds a key.
DumpBreak ==
  /\ dpc = "measure" /\ dpc' = "rest"
  /\ begin' = 0 /\ dIndex' = 0 /\ dLen' = 0 /\ dumped' = <<>>
  /\ UNCHANGED <<ring, mutex, writer, said, lap, clean>>

\* Mutant of DumpMeasure: the loop is not left.
DumpMeasureForever ==
  /\ dpc = "measure" /\ dpc' = "lock"
  /\ dLen' = IF length - dIndex > Chunk THEN Chunk ELSE length - dIndex
  /\ UNCHANGED <<ring, mutex, writer, begin, dIndex, dumped, said, lap, clean>>

\* buf_len = buf_length - index, at most a chunk; the end when there is nothing left
DumpMeasure ==
  /\ dpc = "measure" /\ dpc' = IF length = dIndex THEN "end" ELSE "lock"
  /\ dLen' = IF length - dIndex > Chunk THEN Chunk ELSE length - dIndex
  /\ UNCHANGED <<ring, mutex, writer, begin, dIndex, dumped, said, lap, clean>>

DumpLock ==
  /\ dpc = "lock" /\ mutex = None /\ dpc' = "chunk" /\ mutex' = "cli"
  /\ UNCHANGED <<ring, writer, begin, dIndex, dLen, dumped, said, lap, clean>>

Upto(pos) == IF pos + dLen > BufMax THEN BufMax - pos ELSE dLen

\* Mutant of DumpChunk: the cut is forgotten in the count.
DumpChunkUncut ==
  /\ dpc = "chunk" /\ dpc' = "measure" /\ mutex' = None
  /\ LET pos == (begin + dIndex) % BufMax IN
       /\ dumped' = dumped \o [i \in 1 .. Upto(pos) |-> buf[pos + i - 1]]
       /\ dIndex' = dIndex + dLen
  /\ UNCHANGED <<ring, writer, begin, dLen, said, lap, clean>>

\* cliWrite of the chunk, cut at the end of the ring, and unLock()
DumpChunk ==
  /\ dpc = "chunk" /\ dpc' = "measure" /\ mutex' = None
  /\ LET pos == (begin + dIndex) % BufMax IN
       /\ dumped' = dumped \o [i \in 1 .. Upto(pos) |-> buf[pos + i - 1]]
       /\ dIndex' = dIndex + Upto(pos)
  /\ UNCHANGED <<ring, writer, begin, dLen, said, lap, clean>>

DumpEnd ==
  /\ dpc = "end" /\ dpc' = "rest"
  /\ begin' = 0 /\ dIndex' = 0 /\ dLen' = 0 /\ dumped' = <<>>
  /\ UNCHANGED <<ring, mutex, writer, said, lap, clean>>

Dump == DumpMeasure \/ DumpLock \/ DumpChunk \/ DumpEnd

-----------------------------------------------------------------------------
Next == (\E n \in 0 .. MaxText : LogPrintf(n)) \/ Write \/ DumpBegin \/ DumpBreak \/ Dump

Spec == Init /\ [][Next]_vars

\* A call of logPrintf and a command come to their ends.
FairSpec == Spec /\ WF_vars(Write) /\ WF_vars(Dump)

-----------------------------------------------------------------------------
LastOf(s, n) == SubSeq(s, Len(s) - n + 1, Len(s))

\* An entry and its NUL stay inside the ring: snprintf is given length + 8, the test before it
\* asks for as much, and the number takes five characters.
EntryFits == wpc = "put" => index + Size < BufMax

\* log boot, log list: a dump that has not cut into a call of logPrintf shows every line, in order
\* and once, while the ring has not wrapped, however its chunks fall.
CompleteBeforeWrap == dpc = "end" /\ clean /\ lap = 0 => dumped = said

\* log boot, log list: and later it ends with what was logged last, the newest entry last and
\* whole: all of the last lap, or as much of it as the dump is long.
NewestKept ==
  dpc = "end" /\ clean =>
    LET n == Min({Len(dumped), Len(said) - lap}) IN LastOf(dumped, n) = LastOf(said, n)

\* logBufPrintf: a ring that has wrapped never shows less than one entry short of its length.
RingStaysFull == lap > 0 => length + MaxText + Slack > BufMax

\* cliCmd: the loop of a dump ends without a key, whatever it has cut into.
DumpEnds == (dpc # "rest") ~> (dpc = "rest")
=============================================================================
