---------------------------- MODULE BoundedFifo ----------------------------
(***************************************************************************)
(* What a ring buffer promises to one writer and one reader: a queue of at *)
(* most Capacity items.  A write succeeds exactly when there is room, a    *)
(* read returns the oldest item and succeeds exactly when there is one.    *)
(***************************************************************************)
EXTENDS Naturals, Sequences

CONSTANTS Value,      \* items
          Capacity,   \* most items the queue holds
          NoValue     \* what the reader holds before its first read

VARIABLES queue,      \* the items, oldest first
          putOk,      \* result of the last write
          got,        \* item returned by the last successful read
          getOk       \* result of the last read

fifoVars == <<queue, putOk, got, getOk>>

Init == queue = <<>> /\ putOk = TRUE /\ got = NoValue /\ getOk = TRUE

Put(v) ==
  /\ Len(queue) < Capacity
  /\ queue' = Append(queue, v)
  /\ putOk' = TRUE
  /\ UNCHANGED <<got, getOk>>

Refuse ==
  /\ Len(queue) = Capacity
  /\ putOk' = FALSE
  /\ UNCHANGED <<queue, got, getOk>>

Get ==
  /\ queue # <<>>
  /\ got' = Head(queue)
  /\ queue' = Tail(queue)
  /\ getOk' = TRUE
  /\ UNCHANGED putOk

GetNothing ==
  /\ queue = <<>>
  /\ getOk' = FALSE
  /\ UNCHANGED <<queue, putOk, got>>

Next == (\E v \in Value : Put(v)) \/ Refuse \/ Get \/ GetNothing

Spec == Init /\ [][Next]_fifoVars
=============================================================================
