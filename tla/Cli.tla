-------------------------------- MODULE Cli --------------------------------
(***************************************************************************)
(* The line editor of cli.c: cliUpdate, called by the CLI thread with each *)
(* byte received, the ring of lines entered, the splitting into arguments. *)
(*                                                                         *)
(* One action per kind of byte, by the state of the escape sequence.  The  *)
(* terminal at the other end is a VT100 whose row begins after the prompt; *)
(* the echoes are modelled by what they do there.  Any byte may arrive and *)
(* get into the line: a character the terminal shows in one column, or a   *)
(* byte it does something else with (NUL, TAB, other control bytes, bytes  *)
(* above 0x7E), which is echoed all the same.  The bytes behind the line's *)
(* end stay as they are; the cursor of a line in the ring is never read.   *)
(***************************************************************************)
EXTENDS Integers, SequencesExt

CONSTANTS Char,         \* bytes that are shown in one column
          Control,      \* bytes but NUL that are not, and are no key outside of a sequence
          Blank,        \* the space
          Space,        \* the bytes that separate arguments: delim of cliParseArgs
          Percent,      \* the byte that begins a directive of a format
          BufMax,       \* CLI_LINE_BUF_MAX
          HisMax,       \* CLI_LINE_HIS_MAX
          ArgsMax       \* CLI_ARGS_MAX

NUL == "NUL"

ASSUME CliAssumption ==
  /\ BufMax \in Nat /\ BufMax >= 3 /\ HisMax \in Nat /\ HisMax > 0 /\ ArgsMax \in Nat
  /\ 2 * ArgsMax >= BufMax - 1 /\ Blank \in Char /\ NUL \notin Char \cup Control

VARIABLES state,                     \* of the escape sequence
          buf, count, cursor,        \* line
          line_buf,                  \* the ring of lines
          hist_i, hist_last, hist_count, hist_new,
          ran, argc,                 \* the string given to cliRunCmd last; its arguments
          screen, col,               \* the terminal: what its row shows, the column of its cursor
          misled                     \* history: the terminal was sent what the line does not say,
                                     \* to be put right by the next prompt, or not for certain

line == <<buf, count, cursor>>
hist == <<line_buf, hist_i, hist_last, hist_count, hist_new>>
run  == <<ran, argc>>
term == <<screen, col, misled>>
vars == <<state, line, hist, run, term>>

Byte   == Char \cup Control \cup {NUL}
BufLen == BufMax - 1    \* buf_len, set by cliLineClean
Pos    == 0 .. BufMax - 1
TextIn(b, n) == [k \in 1 .. n |-> b[k - 1]]
Text   == TextIn(buf, count)

\* The C string in a buffer.
CString(b) == LET end == CHOOSE k \in Pos : b[k] = NUL /\ \A j \in 0 .. k - 1 : b[j] # NUL
              IN  [k \in 1 .. end |-> b[k - 1]]

TypeOK ==
  /\ state \in {"IDLE", "SP2", "SP3", "SP4"}
  /\ buf \in [Pos -> Byte] /\ count \in 0 .. BufLen - 1 /\ cursor \in 0 .. count
  /\ line_buf \in [0 .. HisMax - 1 -> [buf : [Pos -> Byte], count : 0 .. BufLen - 1]]
  /\ hist_i \in 0 .. HisMax - 1 /\ hist_last \in 0 .. HisMax - 1 /\ hist_count \in 0 .. HisMax
  /\ hist_new \in BOOLEAN
  /\ ran \in Seq(Byte) /\ argc \in Nat
  /\ screen \in Seq(Byte) /\ col \in Nat /\ misled \in {"no", "row", "session"}

-----------------------------------------------------------------------------
\* cliInit and the first prompt; memory that was never written is zero.
Init ==
  /\ state = "IDLE" /\ buf = [p \in Pos |-> NUL] /\ count = 0 /\ cursor = 0
  /\ line_buf = [i \in 0 .. HisMax - 1 |-> [buf |-> [p \in Pos |-> NUL], count |-> 0]]
  /\ hist_i = 0 /\ hist_last = 0 /\ hist_count = 0 /\ hist_new = FALSE
  /\ ran = <<>> /\ argc = 0 /\ screen = <<>> /\ col = 0 /\ misled = "no"

(***************************************************************************)
(* The terminal.  Once misled, it is not followed until the next prompt;   *)
(* what a control byte or a directive has sent it may outlast even that.   *)
(***************************************************************************)
Show(s, c) == IF misled # "no" THEN UNCHANGED term ELSE screen' = s /\ col' = c /\ UNCHANGED misled
Mislead    == misled' = (IF misled = "no" THEN "row" ELSE misled) /\ screen' = <<>> /\ col' = 0
Lose       == misled' = "session" /\ screen' = <<>> /\ col' = 0

\* What uartPrintf prints as it is, and a terminal shows.
Verbatim(t) == \A k \in DOMAIN t : t[k] \in Char \ {Percent}
Overwrite(s, p, t) == SubSeq(s, 1, p) \o t \o SubSeq(s, p + Len(t) + 1, Len(s))
InsertChar(s, p, c) == InsertAt(s, p + 1, c)
DeleteChars(s, p, n) == SubSeq(s, 1, p) \o SubSeq(s, p + n + 1, Len(s))

(***************************************************************************)
(* Bytes outside of an escape sequence.                                    *)
(***************************************************************************)
\* buf with the bytes from position p on moved by one to the right, or to the left over p - 1,
\* up to count.
ShiftRight(p) == [q \in Pos |-> IF q \in p + 1 .. count THEN buf[q - 1] ELSE buf[q]]
ShiftLeft(p)  == [q \in Pos |-> IF q \in p - 1 .. count - 2 THEN buf[q + 1] ELSE buf[q]]

\* Mutant of Put: a character is echoed without insert mode.
PutReplacing(c) ==
  /\ state = "IDLE"
  /\ IF count + 1 < BufLen
       THEN /\ buf' = [ShiftRight(cursor) EXCEPT ![cursor] = c, ![count + 1] = NUL]
            /\ count' = count + 1 /\ cursor' = cursor + 1
            /\ IF c \notin Char THEN Lose ELSE Show(Overwrite(screen, col, <<c>>), col + 1)
       ELSE UNCHANGED <<line, term>>
  /\ UNCHANGED <<state, hist, run>>

\* default: any other byte, at the end of the line (echoed as it is) or in it (in insert mode)
Put(c) ==
  /\ state = "IDLE"
  /\ IF count + 1 < BufLen
       THEN /\ buf' = [ShiftRight(cursor) EXCEPT ![cursor] = c, ![count + 1] = NUL]
            /\ count' = count + 1 /\ cursor' = cursor + 1
            /\ IF c \notin Char THEN Lose
               ELSE IF cursor = count THEN Show(Overwrite(screen, col, <<c>>), col + 1)
                                      ELSE Show(InsertChar(screen, col, c), col + 1)
       ELSE UNCHANGED <<line, term>>
  /\ UNCHANGED <<state, hist, run>>

\* CLI_KEY_BACK; the echo is \b, a blank, \b and the deletion of that blank
Back ==
  /\ state = "IDLE"
  /\ IF cursor > 0
       THEN /\ buf' = [IF cursor < count THEN ShiftLeft(cursor) ELSE buf EXCEPT ![count - 1] = NUL]
            /\ count' = count - 1 /\ cursor' = cursor - 1
            /\ Show(DeleteChars(Overwrite(screen, col - 1, <<Blank>>), col - 1, 1), col - 1)
       ELSE UNCHANGED <<line, term>>
  /\ UNCHANGED <<state, hist, run>>

\* Mutant of Del: no NUL behind the shorter line.
DelUnterminated ==
  /\ state = "IDLE"
  /\ IF cursor < count
       THEN /\ buf' = ShiftLeft(cursor + 1)
            /\ count' = count - 1
            /\ Show(DeleteChars(screen, col, 1), col)
       ELSE UNCHANGED <<buf, count, term>>
  /\ UNCHANGED <<state, cursor, hist, run>>

\* CLI_KEY_DEL
Del ==
  /\ state = "IDLE"
  /\ IF cursor < count
       THEN /\ buf' = [ShiftLeft(cursor + 1) EXCEPT ![count - 1] = NUL]
            /\ count' = count - 1
            /\ Show(DeleteChars(screen, col, 1), col)
       ELSE UNCHANGED <<buf, count, term>>
  /\ UNCHANGED <<state, cursor, hist, run>>

\* cliLineAdd
LineAdd ==
  /\ line_buf' = [line_buf EXCEPT ![hist_last] = [buf |-> buf, count |-> count]]
  /\ hist_count' = IF hist_count < HisMax THEN hist_count + 1 ELSE hist_count
  /\ hist_i' = hist_last
  /\ hist_last' = (hist_last + 1) % HisMax
  /\ hist_new' = TRUE

\* Mutant of Args: blanks are not taken together.
ArgsEmptyToo(s) == Cardinality({k \in 1 .. Len(s) : s[k] \in Space}) + 1

\* cliParseArgs of a string: the tokens between blanks
Args(s) == Cardinality({k \in 1 .. Len(s) : s[k] \notin Space /\ (k = 1 \/ s[k - 1] \in Space)})

\* cliRunCmd: the string it parses, the arguments it hands to the command
RunCmd == ran' = CString(buf) /\ argc' = Args(ran')

\* CLI_KEY_ENTER: cliLineAdd, cliRunCmd, the empty line, the prompt.  What strtok_r and cliToUpper
\* write into buf is behind the NUL afterwards.
Enter ==
  /\ state = "IDLE"
  /\ IF count > 0 THEN LineAdd /\ RunCmd
                  ELSE UNCHANGED <<hist, run>>
  /\ count' = 0 /\ cursor' = 0 /\ buf' = [buf EXCEPT ![0] = NUL]
  /\ screen' = <<>> /\ col' = 0 /\ misled' = IF misled = "session" THEN misled ELSE "no"
  /\ UNCHANGED state

(***************************************************************************)
(* Escape sequences.  ESC takes the state to SP1, and in the same call to  *)
(* SP2.                                                                    *)
(***************************************************************************)
Esc ==
  /\ state = "IDLE" /\ state' = "SP2"
  /\ UNCHANGED <<line, hist, run, term>>

\* Any byte: the bracket; the tilde behind HOME and END.
Skip ==
  /\ \/ state = "SP2" /\ state' = "SP3"
     \/ state = "SP4" /\ state' = "IDLE"
  /\ UNCHANGED <<line, hist, run, term>>

Left ==
  /\ state = "SP3" /\ state' = "IDLE"
  /\ IF cursor > 0 THEN cursor' = cursor - 1 /\ Show(screen, col - 1)
                   ELSE UNCHANGED <<cursor, term>>
  /\ UNCHANGED <<buf, count, hist, run>>

Right ==
  /\ state = "SP3" /\ state' = "IDLE"
  /\ IF cursor < count THEN cursor' = cursor + 1 /\ Show(screen, col + 1)
                       ELSE UNCHANGED <<cursor, term>>
  /\ UNCHANGED <<buf, count, hist, run>>

\* CLI_KEY_HOME.  At column 0 the terminal takes its 0 for a 1 and goes back into the prompt.
Home ==
  /\ state = "SP3" /\ state' = "SP4"
  /\ cursor' = 0
  /\ IF cursor > 0 THEN Show(screen, col - cursor) ELSE Mislead
  /\ UNCHANGED <<buf, count, hist, run>>

End ==
  /\ state = "SP3" /\ state' = "SP4"
  /\ cursor' = count
  /\ Show(screen, col + (count - cursor))
  /\ UNCHANGED <<buf, count, hist, run>>

\* Any other byte ends the sequence.
Unknown ==
  /\ state = "SP3" /\ state' = "IDLE"
  /\ UNCHANGED <<line, hist, run, term>>

\* Mutant of ChangeIndex: UP does not begin anew behind the newest line.
ChangeIndexResumes(up) ==
  IF up THEN (hist_i + hist_count - 1) % hist_count ELSE (hist_i + 1) % hist_count

\* The index of the line to show.
ChangeIndex(up) ==
  IF up THEN ((IF hist_new THEN hist_last ELSE hist_i) + hist_count - 1) % hist_count
        ELSE (hist_i + 1) % hist_count

\* cliLineChange and the printing of the line, which a ring without lines does not skip, and for
\* which the line is the format.
LineChange(up) ==
  /\ state = "SP3" /\ state' = "IDLE"
  /\ IF hist_count = 0
       THEN /\ IF ~ Verbatim(Text) THEN Lose ELSE IF count > 0 THEN Mislead ELSE UNCHANGED term
            /\ UNCHANGED <<line, hist>>
       ELSE /\ hist_i' = ChangeIndex(up)
            /\ buf' = line_buf[hist_i'].buf
            /\ count' = line_buf[hist_i'].count /\ cursor' = count'
            /\ hist_new' = FALSE
            /\ LET bare == DeleteChars(screen, col - cursor, count)
                   told == TextIn(buf', count')
               IN  IF Verbatim(told) THEN Show(Overwrite(bare, col - cursor, told), col - cursor + Len(told))
                                     ELSE Lose
            /\ UNCHANGED <<line_buf, hist_last, hist_count>>
  /\ UNCHANGED run

Up   == LineChange(TRUE)
Down == LineChange(FALSE)

-----------------------------------------------------------------------------
Next == (\E c \in Byte : Put(c)) \/ Back \/ Del \/ Enter \/ Esc \/ Skip
        \/ Left \/ Right \/ Home \/ End \/ Up \/ Down \/ Unknown

Spec == Init /\ [][Next]_vars

-----------------------------------------------------------------------------
\* cliUpdate: whatever the keys were, the row of the terminal shows the line and its cursor, unless
\* HOME was pressed at the first column or UP or DOWN in a line begun before any was entered (until
\* the next prompt), or a byte that is no character was typed or a line with a "%" recalled (for good).
ScreenShowsLine == misled = "no" => screen = Text /\ col = cursor

\* cliParseArgs: argv, which nothing bounds, is never overrun.
ArgsFit == argc <= ArgsMax

\* The ring's lines from the oldest to the newest, and the place in them of hist_i.
Past == [k \in 1 .. hist_count |->
          LET l == line_buf[(hist_last + HisMax - hist_count + k - 1) % HisMax] IN TextIn(l.buf, l.count)]
PlaceOf(i) == IF hist_count = 0 THEN 0 ELSE ((i + hist_count + HisMax - hist_last) % HisMax) + 1

Editor == INSTANCE LineEditor WITH Char <- Byte, End <- NUL, text <- Text, past <- Past, pos <- PlaceOf(hist_i),
                                   fresh <- hist_new, MaxText <- BufLen - 1

\* The string a command is parsed from is the line, no longer, and no shorter but for a NUL typed.
LineIsString == CString(buf) = Editor!Command(Text)

\* cliUpdate implements the line editor: every byte is one of its keys, or nothing.
ImplementsEditor == Editor!Spec
=============================================================================
