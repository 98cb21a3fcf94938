------------------------------- MODULE UartTx -------------------------------
(***************************************************************************)
(* The sending half of uart.c on the FSP driver r_sci_b_uart.c: uartWrite  *)
(* starts an interrupt driven transfer and spins on tx_done until the      *)
(* callback of the transmit end interrupt sets it or a timeout is over.    *)
(*                                                                         *)
(* Writers are threads: main, which writes through logPrintf and so under  *)
(* the mutex of log.c, and above it in priority the CLI, which also writes *)
(* through logPrintf and, under no lock, through cliPrintf.  A thread may  *)
(* be preempted between any two of its steps; the interrupts preempt both  *)
(* and each other's handlers run to the end.  In this build the driver's   *)
(* parameter checks, FIFO and DTC are compiled out, so its Write does not  *)
(* look at whether a transfer is in progress.  A byte is the triple of the *)
(* caller, the number of its call and the position in the message.         *)
(***************************************************************************)
EXTENDS Naturals, SequencesExt

CONSTANTS Writers,     \* subset of {"main", "cli"}
          Ways,        \* how the CLI writes: subset of {"log", "print"}
          CanStall,    \* whether a transfer may outlast the timeout
          MaxLen, MaxCalls  \* bounds: bytes of a message, calls of each writer

ASSUME UartAssumption ==
  /\ Writers \subseteq {"main", "cli"} /\ Writers # {}
  /\ Ways \subseteq {"log", "print"} /\ CanStall \in BOOLEAN
  /\ MaxLen \in Nat /\ MaxCalls \in Nat

VARIABLES mutex,                   \* holder of log.c's mutex_lock
          pc, len, calls, late,    \* writers: next step, bytes to write, calls so far, timeout over
          via,                     \* the function each call came through
          txDone,                  \* tx_done
          bytes, src,              \* tx_src_bytes and p_tx_src of the driver
          tie, teie,               \* CCR0: transmit and transmit end interrupt enabled
          tdr, tsr,                \* the data and the shift register, empty or with a byte
          disturbed,               \* history: a call began inside another one, or gave up
          wire, sent               \* and up to then: bytes on the pin, bytes of successful calls

callers  == <<pc, len, calls, late, via>>
driver   == <<bytes, src, tie, teie>>
hardware == <<tdr, tsr, wire>>
vars     == <<mutex, callers, txDone, driver, hardware, sent, disturbed>>

None == "none"
Null == <<>>
\* A transfer disturbed in its midst may run beyond the end of its message, by a message at most.
Byte == Writers \X (1 .. MaxCalls) \X (1 .. 2 * MaxLen)
Outside == {"idle", "lock"}
Message(c, n) == [i \in 1 .. n |-> <<c, calls[c], i>>]
TEND == tdr = <<>> /\ tsr = <<>>

\* The thread has the core: only the CLI is above another, and it lets go of the core when it
\* waits for the mutex and between its calls.
Runs(c) == c = "main" =>
  \A d \in Writers \ {c} : pc[d] = "idle" \/ (pc[d] = "lock" /\ mutex # None)

At(c, step) == pc[c] = step /\ Runs(c)
Goto(c, step) == pc' = [pc EXCEPT ![c] = step]

TypeOK ==
  /\ mutex \in Writers \cup {None}
  /\ pc \in [Writers -> {"idle", "lock", "arm", "disable", "drain", "bytes", "src", "enable", "time",
                         "test", "clock", "end"}]
  /\ len \in [Writers -> 0 .. MaxLen] /\ calls \in [Writers -> 0 .. MaxCalls]
  /\ late \in [Writers -> BOOLEAN] /\ via \in [Writers -> {"log", "print"}]
  /\ txDone \in BOOLEAN /\ bytes \in 0 .. MaxLen
  /\ src = Null \/ src \in Writers \X (1 .. MaxCalls) \X (1 .. 2 * MaxLen + 1)
  /\ tie \in BOOLEAN /\ teie \in BOOLEAN
  /\ tdr \in {<<>>} \cup {<<b>> : b \in Byte} /\ tsr \in {<<>>} \cup {<<b>> : b \in Byte}
  /\ wire \in Seq(Byte) /\ sent \in Seq(Byte) /\ disturbed \in BOOLEAN

-----------------------------------------------------------------------------
\* uartOpen has returned: the channel is open, tx_done is true and the transmitter is idle.
Init ==
  /\ mutex = None
  /\ pc = [c \in Writers |-> "idle"] /\ len = [c \in Writers |-> 0]
  /\ calls = [c \in Writers |-> 0] /\ late = [c \in Writers |-> FALSE]
  /\ via = [c \in Writers |-> "log"]
  /\ txDone = TRUE /\ bytes = 0 /\ src = Null /\ tie = FALSE /\ teie = FALSE
  /\ tdr = <<>> /\ tsr = <<>> /\ wire = <<>> /\ sent = <<>> /\ disturbed = FALSE

(***************************************************************************)
(* The writers: logPrintf or cliPrintf, uartWrite, R_SCI_B_UART_Write.     *)
(***************************************************************************)
Call(c, v, n) ==
  /\ At(c, "idle") /\ calls[c] < MaxCalls
  /\ v \in IF c = "main" THEN {"log"} ELSE Ways
  /\ Goto(c, IF v = "log" THEN "lock" ELSE "arm")
  /\ via' = [via EXCEPT ![c] = v] /\ len' = [len EXCEPT ![c] = n]
  /\ calls' = [calls EXCEPT ![c] = @ + 1]
  /\ UNCHANGED <<mutex, late, txDone, driver, hardware, sent, disturbed>>

\* Mutant of Lock: the mutex is not waited for.
LockIgnored(c) ==
  /\ At(c, "lock") /\ Goto(c, "arm")
  /\ UNCHANGED <<mutex, len, calls, late, via, txDone, driver, hardware, sent, disturbed>>

\* lock() of logPrintf
Lock(c) ==
  /\ At(c, "lock") /\ mutex = None /\ Goto(c, "arm")
  /\ mutex' = c
  /\ UNCHANGED <<len, calls, late, via, txDone, driver, hardware, sent, disturbed>>

\* A call through cliPrintf that finds another writer inside uartWrite disturbs it.
Intrudes(c) == via[c] = "print" /\ \E d \in Writers \ {c} : pc[d] \notin Outside

\* Mutant of Arm: tx_done is left as the last call left it.
ArmForgets(c) ==
  /\ At(c, "arm") /\ Goto(c, "disable")
  /\ disturbed' = (disturbed \/ Intrudes(c))
  /\ UNCHANGED <<mutex, len, calls, late, via, txDone, driver, hardware, sent>>

\* uart_tbl[ch].tx_done = false
Arm(c) ==
  /\ At(c, "arm") /\ Goto(c, "disable")
  /\ txDone' = FALSE
  /\ disturbed' = (disturbed \/ Intrudes(c))
  /\ UNCHANGED <<mutex, len, calls, late, via, driver, hardware, sent>>

\* CCR0 &= ~(TIE | TEIE)
Disable(c) ==
  /\ At(c, "disable") /\ Goto(c, "drain")
  /\ tie' = FALSE /\ teie' = FALSE
  /\ UNCHANGED <<mutex, len, calls, late, via, txDone, bytes, src, hardware, sent, disturbed>>

\* FSP_HARDWARE_REGISTER_WAIT(TEND, 1); TE off and the wait for TIST
WaitTend(c) ==
  /\ At(c, "drain") /\ TEND /\ Goto(c, "bytes")
  /\ UNCHANGED <<mutex, len, calls, late, via, txDone, driver, hardware, sent, disturbed>>

SetBytes(c) ==
  /\ At(c, "bytes") /\ Goto(c, "src")
  /\ bytes' = len[c]
  /\ UNCHANGED <<mutex, len, calls, late, via, txDone, src, tie, teie, hardware, sent, disturbed>>

SetSource(c) ==
  /\ At(c, "src") /\ Goto(c, "enable")
  /\ src' = <<c, calls[c], 1>>
  /\ UNCHANGED <<mutex, len, calls, late, via, txDone, bytes, tie, teie, hardware, sent, disturbed>>

\* CCR0 |= TE | TIE, and the return to uartWrite
Enable(c) ==
  /\ At(c, "enable") /\ Goto(c, "time")
  /\ tie' = TRUE
  /\ UNCHANGED <<mutex, len, calls, late, via, txDone, bytes, src, teie, hardware, sent, disturbed>>

\* pre_time = millis()
StartTimer(c) ==
  /\ At(c, "time") /\ Goto(c, "test")
  /\ late' = [late EXCEPT ![c] = FALSE]
  /\ UNCHANGED <<mutex, len, calls, via, txDone, driver, hardware, sent, disturbed>>

\* Mutant of TestDone: the wait ends when the last byte is in the data register.
TestDoneEarly(c) ==
  /\ At(c, "test") /\ Goto(c, IF txDone \/ teie THEN "end" ELSE "clock")
  /\ sent' = IF (txDone \/ teie) /\ ~ disturbed THEN sent \o Message(c, len[c]) ELSE sent
  /\ UNCHANGED <<mutex, len, calls, late, via, txDone, driver, hardware, disturbed>>

\* while (tx_done == false); when it is true the call will return length
TestDone(c) ==
  /\ At(c, "test") /\ Goto(c, IF txDone THEN "end" ELSE "clock")
  /\ sent' = IF txDone /\ ~ disturbed THEN sent \o Message(c, len[c]) ELSE sent
  /\ UNCHANGED <<mutex, len, calls, late, via, txDone, driver, hardware, disturbed>>

\* if (millis() - pre_time >= timeout) return 0
TestClock(c) ==
  /\ At(c, "clock") /\ Goto(c, IF late[c] THEN "end" ELSE "test")
  /\ disturbed' = (disturbed \/ late[c])
  /\ UNCHANGED <<mutex, len, calls, late, via, txDone, driver, hardware, sent>>

\* Mutant of Return: logPrintf returns without unLock().
ReturnLocked(c) ==
  /\ At(c, "end") /\ Goto(c, "idle")
  /\ len' = [len EXCEPT ![c] = 0] /\ late' = [late EXCEPT ![c] = FALSE]
  /\ via' = [via EXCEPT ![c] = "log"]
  /\ UNCHANGED <<mutex, calls, txDone, driver, hardware, sent, disturbed>>

\* The return, through unLock() for logPrintf; the message's buffer is no longer the caller's.
Return(c) ==
  /\ At(c, "end") /\ Goto(c, "idle")
  /\ mutex' = IF via[c] = "log" THEN None ELSE mutex
  /\ len' = [len EXCEPT ![c] = 0] /\ late' = [late EXCEPT ![c] = FALSE]
  /\ via' = [via EXCEPT ![c] = "log"]
  /\ UNCHANGED <<calls, txDone, driver, hardware, sent, disturbed>>

Write(c) ==
  \/ Lock(c) \/ Arm(c) \/ Disable(c) \/ WaitTend(c) \/ SetBytes(c) \/ SetSource(c) \/ Enable(c)
  \/ StartTimer(c) \/ TestDone(c) \/ TestClock(c) \/ Return(c)

(***************************************************************************)
(* The interrupt handlers and the transmitter.                             *)
(***************************************************************************)
\* sci_b_uart_txi_isr: the next byte of the message goes to TDR; after the last one TEI takes over.
TxiIsr ==
  /\ tie /\ tdr = <<>>
  /\ tdr' = IF bytes # 0 THEN <<src>> ELSE tdr
  /\ bytes' = IF bytes # 0 THEN bytes - 1 ELSE 0
  /\ src' = IF bytes' = 0 THEN Null ELSE [src EXCEPT ![3] = @ + 1]
  /\ tie' = (bytes' # 0) /\ teie' = (teie \/ bytes' = 0)
  /\ UNCHANGED <<mutex, callers, txDone, tsr, wire, sent, disturbed>>

\* sci_b_uart_tei_isr and uartCallback2 with UART_EVENT_TX_COMPLETE
TeiIsr ==
  /\ teie /\ TEND
  /\ tie' = FALSE /\ teie' = FALSE
  /\ txDone' = TRUE
  /\ UNCHANGED <<mutex, callers, bytes, src, hardware, sent, disturbed>>

\* The transmitter takes the byte in TDR over into the shift register, and puts it on the pin.
Load ==
  /\ tdr # <<>> /\ tsr = <<>>
  /\ tsr' = tdr /\ tdr' = <<>>
  /\ UNCHANGED <<mutex, callers, txDone, driver, wire, sent, disturbed>>

ShiftOut ==
  /\ tsr # <<>>
  /\ wire' = IF disturbed THEN wire ELSE wire \o tsr
  /\ tsr' = <<>>
  /\ UNCHANGED <<mutex, callers, txDone, driver, tdr, sent, disturbed>>

\* The timeout of a waiting call is over before its transfer.
TimePasses(c) ==
  /\ CanStall /\ pc[c] \in {"test", "clock"} /\ ~ late[c]
  /\ late' = [late EXCEPT ![c] = TRUE]
  /\ UNCHANGED <<mutex, pc, len, calls, via, txDone, driver, hardware, sent, disturbed>>

Interrupt == TxiIsr \/ TeiIsr
Transmit == Load \/ ShiftOut

-----------------------------------------------------------------------------
Next ==
  \/ \E c \in Writers : Write(c) \/ TimePasses(c) \/ \E v \in {"log", "print"}, n \in 1 .. MaxLen : Call(c, v, n)
  \/ Interrupt \/ Transmit

Spec == Init /\ [][Next]_vars

\* Threads that have the core go on, interrupts are served, the transmitter has a clock of its own.
FairSpec == Spec /\ WF_vars(Interrupt) /\ WF_vars(Transmit) /\ \A c \in Writers : WF_vars(Write(c))

-----------------------------------------------------------------------------
\* Up to the first disturbance the bytes on the pin are those of the calls that returned their
\* length, whole and in the order of the calls, and then some of the call under way.
WireIsMessages ==
  ~ disturbed => \E c \in Writers, n \in 0 .. MaxLen :
    /\ wire = sent \o Message(c, n)
    /\ n > 0 => pc[c] \notin Outside /\ n <= len[c]

\* Up to the first disturbance a transfer never reads a buffer whose call is over: uartPrintf sends
\* from its stack, logPrintf and cliPrintf from buffers that their next call writes over.
BufferOutlivesTransfer ==
  ~ disturbed /\ bytes # 0 /\ src # Null => pc[src[1]] \notin Outside /\ calls[src[1]] = src[2]

\* Two calls through logPrintf are never inside uartWrite at once.
LogCallsExclude ==
  \A c, d \in Writers :
    c # d /\ via[c] = "log" /\ via[d] = "log" => pc[c] \in Outside \/ pc[d] \in Outside

\* Every call returns, also one that has lost its bytes to another.
CallsReturn == \A c \in Writers : (pc[c] # "idle") ~> (pc[c] = "idle")

\* uart.c: uartWrite waits for the end of the transfer so that the next call does not overwrite
\* one that is in progress: no call puts its message in place of bytes another still waits for.
NeverOverwrites ==
  [][\A c, d \in Writers :
       SetBytes(c) /\ c # d /\ pc[d] \in {"test", "clock"} => bytes = 0]_vars
=============================================================================
