----------------------------- MODULE LineEditor -----------------------------
(***************************************************************************)
(* What the line editor of the command line promises: a line of text and a *)
(* cursor, edited key by key, and the last lines entered, to be recalled   *)
(* in a circle.                                                            *)
(***************************************************************************)
EXTENDS Integers, SequencesExt

CONSTANTS Char, End,     \* bytes of a line; the one of them that ends what is run of it
          MaxText, HisMax

VARIABLES text, cursor,  \* the line; characters to the left of the cursor
          past, pos,     \* lines entered, the oldest first; the one recalled last
          fresh,         \* none has been recalled since the last was entered
          ran            \* the command that was run last

vars == <<text, cursor, past, pos, fresh, ran>>

Init == text = <<>> /\ cursor = 0 /\ past = <<>> /\ pos = 0 /\ fresh = FALSE /\ ran = <<>>

\* What is run of a line: all of it up to the first End.
Command(t) ==
  LET n == CHOOSE n \in 0 .. Len(t) : (n = Len(t) \/ t[n + 1] = End) /\ \A k \in 1 .. n : t[k] # End
  IN  [k \in 1 .. n |-> t[k]]

Insert(c) ==
  /\ Len(text) < MaxText
  /\ text' = InsertAt(text, cursor + 1, c) /\ cursor' = cursor + 1
  /\ UNCHANGED <<past, pos, fresh, ran>>

Rubout ==
  /\ cursor > 0
  /\ text' = RemoveAt(text, cursor) /\ cursor' = cursor - 1
  /\ UNCHANGED <<past, pos, fresh, ran>>

Delete ==
  /\ cursor < Len(text)
  /\ text' = RemoveAt(text, cursor + 1)
  /\ UNCHANGED <<cursor, past, pos, fresh, ran>>

\* One character to the left or right, to the beginning, to the end.
Move ==
  /\ cursor' \in {cursor - 1, cursor + 1, 0, Len(text)} \cap 0 .. Len(text)
  /\ UNCHANGED <<text, past, pos, fresh, ran>>

Recall(k) ==
  /\ past # <<>> /\ pos' = k /\ fresh' = FALSE
  /\ text' = past[k] /\ cursor' = Len(past[k])
  /\ UNCHANGED <<past, ran>>

\* After a line was entered the first step back leads to it; the oldest is followed by the newest.
Older == Recall(IF fresh \/ pos = 1 THEN Len(past) ELSE pos - 1)
Newer == Recall(IF pos = Len(past) THEN 1 ELSE pos + 1)

Enter ==
  /\ text # <<>>
  /\ past' = IF Len(past) = HisMax THEN Append(Tail(past), text) ELSE Append(past, text)
  /\ pos' = Len(past') /\ fresh' = TRUE
  /\ ran' = Command(text) /\ text' = <<>> /\ cursor' = 0

Next == (\E c \in Char : Insert(c)) \/ Rubout \/ Delete \/ Move \/ Older \/ Newer \/ Enter

Spec == Init /\ [][Next]_vars
=============================================================================
