------------------------------- MODULE UartRx -------------------------------
(***************************************************************************)
(* The receiving half of uart.c: the line, the receiver of the SCI with    *)
(* its one data register, the driver's receive and error interrupts, the   *)
(* ring they fill, and the CLI thread that empties it, through cliMain and *)
(* through the commands that run until a key is pressed.                   *)
(*                                                                         *)
(* A handler runs to the end between two steps of a thread, so a handler   *)
(* is one action; the thread's call of qbufferRead is two, its copy and    *)
(* its test.  A byte is the number of its arrival: its value decides only  *)
(* what cliUpdate does with it, which is a choice here.                    *)
(*                                                                         *)
(* The main thread opens the channel three times in a row (hwInit, logOpen *)
(* and cliOpen), all at the same rate, while bytes may arrive already; the *)
(* CLI thread does not exist before that.  R_SCI_B_UART_Open cannot fail   *)
(* in this build.                                                          *)
(***************************************************************************)
EXTENDS Naturals, Sequences

CONSTANTS Length,    \* UART_RX_BUF_LENGTH
          Opens,     \* calls of uartOpen at boot
          MaxBytes   \* bound: bytes that arrive

ASSUME RxAssumption ==
  /\ Length \in Nat /\ Length >= 2 /\ Opens \in Nat /\ Opens >= 1 /\ MaxBytes \in Nat

VARIABLES len, in, out, buf,      \* the ring: qbuffer of uart_tbl[ch] and rx_buf
          isOpen, rxCnt,          \* is_open, rx_cnt
          rie, rdr, orer,         \* CCR0: reception on; RDR, 0 when empty; CSR.ORER
          bad,                    \* CSR.FER or PER: the byte in RDR came with a framing or parity error
          openPc, opened,         \* uartOpen: next step; calls that have returned
          cliPc, reader, got,     \* CLI thread: next step, who reads, the byte read
          arrived, overruns, damaged, full, kept, taken  \* history: bytes sent to the board, lost in
                                  \* the receiver, dropped by the error interrupt, refused by the
                                  \* ring, kept by it, read from it

ring    == <<len, in, out, buf>>
sci     == <<rie, rdr, orer, bad>>
opening == <<isOpen, openPc, opened>>
cli     == <<cliPc, reader, got>>
history == <<arrived, overruns, damaged, full, kept, taken>>
vars    == <<ring, rxCnt, sci, opening, cli, history>>

Slot == 0 .. Length - 1
NextIdx(i) == (i + 1) % len
Available == (len + in - out) % len
Loops == {"test", "dump"}

TypeOK ==
  /\ len \in {0, Length} /\ in \in Slot /\ out \in Slot /\ buf \in [Slot -> Nat]
  /\ isOpen \in BOOLEAN /\ rxCnt \in Nat /\ rie \in BOOLEAN /\ rdr \in Nat
  /\ orer \in BOOLEAN /\ bad \in BOOLEAN
  /\ openPc \in {"check", "create", "open", "done"} /\ opened \in 0 .. Opens
  /\ cliPc \in {"sleep", "copy", "advance", "update", "look", "echo"} \cup Loops
  /\ reader \in {"cliMain", "test"} /\ got \in Nat
  /\ arrived \in Nat /\ overruns \in Nat /\ damaged \in Nat /\ full \in Nat
  /\ kept \in Seq(Nat) /\ taken \in Nat

-----------------------------------------------------------------------------
\* uartInit has run; uart_tbl is static storage, so the ring has no length yet.
Init ==
  /\ len = 0 /\ in = 0 /\ out = 0 /\ buf = [s \in Slot |-> 0]
  /\ isOpen = FALSE /\ rxCnt = 0 /\ rie = FALSE /\ rdr = 0 /\ orer = FALSE /\ bad = FALSE
  /\ openPc = "check" /\ opened = 0 /\ cliPc = "sleep" /\ reader = "cliMain" /\ got = 0
  /\ arrived = 0 /\ overruns = 0 /\ damaged = 0 /\ full = 0 /\ kept = <<>> /\ taken = 0

(***************************************************************************)
(* uartOpen, by the main thread.                                           *)
(***************************************************************************)
\* Mutant of OpenCheck: an open channel is set up again.
OpenCheckAlways ==
  /\ openPc = "check" /\ opened < Opens
  /\ openPc' = "create"
  /\ UNCHANGED <<ring, rxCnt, sci, isOpen, opened, cli, history>>

\* A channel that is open at this rate is left as it is.
OpenCheck ==
  /\ openPc = "check" /\ opened < Opens
  /\ IF isOpen THEN opened' = opened + 1 /\ UNCHANGED openPc
               ELSE openPc' = "create" /\ UNCHANGED opened
  /\ UNCHANGED <<ring, rxCnt, sci, isOpen, cli, history>>

\* qbufferCreate
CreateRing ==
  /\ openPc = "create" /\ openPc' = "open"
  /\ len' = Length /\ in' = 0 /\ out' = 0
  /\ UNCHANGED <<buf, rxCnt, sci, isOpen, opened, cli, history>>

\* R_SCI_B_UART_Open: the flags are cleared and reception is on.
DriverOpen ==
  /\ openPc = "open" /\ openPc' = "done"
  /\ rie' = TRUE /\ orer' = FALSE /\ bad' = FALSE
  /\ UNCHANGED <<ring, rxCnt, rdr, isOpen, opened, cli, history>>

OpenDone ==
  /\ openPc = "done" /\ openPc' = "check"
  /\ isOpen' = TRUE /\ opened' = opened + 1
  /\ UNCHANGED <<ring, rxCnt, sci, cli, history>>

UartOpen == OpenCheck \/ CreateRing \/ DriverOpen \/ OpenDone

(***************************************************************************)
(* The receiver and its interrupts.                                        *)
(***************************************************************************)
\* A byte is complete, whole or with a framing error (a break is one) or a parity error.  One that
\* finds the last one still in RDR is lost, and so is every byte until the flags are cleared.
Arrive ==
  /\ rie /\ arrived < MaxBytes
  /\ arrived' = arrived + 1
  /\ IF rdr = 0 /\ ~ orer
       THEN rdr' = arrived + 1 /\ bad' \in BOOLEAN /\ UNCHANGED <<orer, overruns>>
       ELSE orer' = TRUE /\ overruns' = overruns + 1 /\ UNCHANGED <<rdr, bad>>
  /\ UNCHANGED <<ring, rxCnt, rie, opening, cli, damaged, full, kept, taken>>

\* Mutant of RxiIsr: the ring counts as full an item too early.
RxiIsrTwoGaps ==
  /\ rdr # 0 /\ ~ bad
  /\ IF NextIdx(in) # out /\ NextIdx(NextIdx(in)) # out
       THEN /\ buf' = [buf EXCEPT ![in] = rdr] /\ in' = NextIdx(in)
            /\ kept' = Append(kept, rdr) /\ UNCHANGED full
       ELSE full' = full + 1 /\ UNCHANGED <<buf, in, kept>>
  /\ rxCnt' = rxCnt + 1 /\ rdr' = 0
  /\ UNCHANGED <<len, out, rie, orer, bad, opening, cli, arrived, overruns, damaged, taken>>

\* sci_b_uart_rxi_isr, and uartCallback2 with UART_EVENT_RX_CHAR: the ring's answer is not looked
\* at, and rx_cnt counts the byte whether it was kept or not.  A damaged byte does not raise RXI.
RxiIsr ==
  /\ rdr # 0 /\ ~ bad
  /\ IF NextIdx(in) # out
       THEN /\ buf' = [buf EXCEPT ![in] = rdr] /\ in' = NextIdx(in)
            /\ kept' = Append(kept, rdr) /\ UNCHANGED full
       ELSE full' = full + 1 /\ UNCHANGED <<buf, in, kept>>
  /\ rxCnt' = rxCnt + 1 /\ rdr' = 0
  /\ UNCHANGED <<len, out, rie, orer, bad, opening, cli, arrived, overruns, damaged, taken>>

\* Mutants of EriIsr: the flags are left set; RDR is read although RXI has not been served.
EriIsrForgets ==
  /\ orer \/ bad
  /\ rdr = 0 \/ bad
  /\ rdr' = 0 /\ damaged' = (IF rdr = 0 THEN damaged ELSE damaged + 1)
  /\ UNCHANGED <<ring, rxCnt, rie, orer, bad, opening, cli, arrived, overruns, full, kept, taken>>

EriIsrFirst ==
  /\ orer \/ bad
  /\ rdr' = 0 /\ orer' = FALSE /\ bad' = FALSE
  /\ damaged' = (IF bad THEN damaged + 1 ELSE damaged)
  /\ UNCHANGED <<ring, rxCnt, rie, opening, cli, arrived, overruns, full, kept, taken>>

\* sci_b_uart_eri_isr reads RDR, whatever the error is, and clears all three flags; the callback
\* ignores the event and the byte that came with it, so a damaged byte is dropped and rx_cnt does
\* not count it.  RXI, with the same priority and a lower number, comes first when both are pending.
EriIsr ==
  /\ orer \/ bad
  /\ rdr = 0 \/ bad
  /\ rdr' = 0 /\ orer' = FALSE /\ bad' = FALSE
  /\ damaged' = (IF bad THEN damaged + 1 ELSE damaged)
  /\ UNCHANGED <<ring, rxCnt, rie, opening, cli, arrived, overruns, full, kept, taken>>

Interrupt == RxiIsr \/ EriIsr

(***************************************************************************)
(* The CLI thread.                                                         *)
(***************************************************************************)
\* Mutant of CliMain: if (uartAvailable(ch) > 1)
CliMainLate ==
  /\ cliPc = "sleep" /\ opened = Opens /\ isOpen /\ Available > 1
  /\ cliPc' = "copy" /\ reader' = "cliMain"
  /\ UNCHANGED <<ring, rxCnt, sci, opening, got, history>>

\* cliMain, every 2 ms, on the open channel: if (uartAvailable(ch) > 0)
CliMain ==
  /\ cliPc = "sleep" /\ opened = Opens /\ isOpen /\ Available > 0
  /\ cliPc' = "copy" /\ reader' = "cliMain"
  /\ UNCHANGED <<ring, rxCnt, sci, opening, got, history>>

\* uartRead: qbufferRead copies the oldest byte, then tests that there was one.
ReadCopy ==
  /\ cliPc = "copy" /\ cliPc' = "advance"
  /\ got' = buf[out]
  /\ UNCHANGED <<ring, rxCnt, sci, opening, reader, history>>

ReadAdvance ==
  /\ cliPc = "advance" /\ cliPc' = (IF reader = "cliMain" THEN "update" ELSE "echo")
  /\ IF out # in THEN out' = NextIdx(out) /\ taken' = taken + 1
                 ELSE UNCHANGED <<out, taken>>
  /\ UNCHANGED <<len, in, buf, rxCnt, sci, opening, reader, got, arrived, overruns, damaged, full,
                 kept>>

\* cliUpdate: the byte edits the line, or ends it and runs a command, one that asks cliKeepLoop
\* ("uart test", a dump of the log) or one that does not.
Update ==
  /\ cliPc = "update" /\ cliPc' \in {"sleep"} \cup Loops
  /\ UNCHANGED <<ring, rxCnt, sci, opening, reader, got, history>>

\* while (cliKeepLoop()): a command loops as long as no byte is waiting; a dump also ends by itself.
KeepLoop ==
  /\ cliPc \in Loops
  /\ cliPc' \in CASE Available # 0   -> {"sleep"}
                  [] cliPc = "test"  -> {"look"}
                  [] OTHER           -> {"dump", "sleep"}
  /\ UNCHANGED <<ring, rxCnt, sci, opening, reader, got, history>>

\* "uart test": if (uartAvailable(ch) > 0), for a byte that came since cliKeepLoop
Look ==
  /\ cliPc = "look"
  /\ cliPc' = (IF Available > 0 THEN "copy" ELSE "test")
  /\ reader' = IF Available > 0 THEN "test" ELSE reader
  /\ UNCHANGED <<ring, rxCnt, sci, opening, got, history>>

\* uartPrintf(ch, "%c", ...)
Echo ==
  /\ cliPc = "echo" /\ cliPc' = "test"
  /\ UNCHANGED <<ring, rxCnt, sci, opening, reader, got, history>>

Cli == CliMain \/ ReadCopy \/ ReadAdvance \/ Update \/ KeepLoop \/ Look \/ Echo

Next == UartOpen \/ Arrive \/ Interrupt \/ Cli

Spec == Init /\ [][Next]_vars

\* The main thread gets through its boot, interrupts are served in the end, and the CLI thread,
\* the one of highest priority, runs whenever it is not asleep and wakes up every 2 ms.
FairSpec == Spec /\ WF_vars(UartOpen) /\ WF_vars(Interrupt) /\ WF_vars(Cli)

-----------------------------------------------------------------------------
\* No handler finds a ring without a length, which it would divide by, and none finds it being set
\* up: uartOpen creates the ring before it lets the driver turn reception on.
RingBeforeBytes == rie => len = Length /\ openPc \notin {"create", "open"}

\* The bytes in the ring are those that were kept and not yet read, in the order they came, from
\* the boot on and over every further uartOpen; the byte a reader holds is the one it is due, and
\* no byte comes to a ring that is not there.
At(k) == IF out + k < Length THEN out + k ELSE out + k - Length
BytesInOrder ==
  /\ Len(kept) = taken + (IF in >= out THEN in - out ELSE Length + in - out)
  /\ \A k \in 1 .. Len(kept) - taken : buf[At(k - 1)] = kept[taken + k]
  /\ cliPc \in {"update", "echo"} => taken > 0 /\ got = kept[taken]
  /\ RingBeforeBytes

\* Every byte sent to the board is in one place: rx_cnt has counted those the ring kept and those
\* it refused, the others are in the data register, were lost to an overrun, or came damaged and
\* were dropped by the error interrupt.
EveryByteAccounted ==
  /\ rxCnt = Len(kept) + full
  /\ arrived = rxCnt + overruns + damaged + (IF rdr = 0 THEN 0 ELSE 1)

\* The ring refuses a byte only when it holds all it can, Length - 1 bytes nobody has read.
RefusedOnlyWhenFull == [][full' # full => Len(kept) - taken = Length - 1]_vars

\* Every byte that was kept is read, whatever command is running: a command that loops leaves when
\* a byte is waiting and cliMain takes it.
KeptBytesAreRead == \A k \in 1 .. MaxBytes : (Len(kept) >= k) ~> (taken >= k)

\* Reception goes on after an overrun and after a damaged byte.
ReceptionResumes == []<>(~ orer /\ ~ bad)
=============================================================================
