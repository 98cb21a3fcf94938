------------------------------ MODULE EventBus ------------------------------
(***************************************************************************)
(* The event bus of cm85 event.c: publishers put events into one ring,     *)
(* eventUpdate, called from the loop of the main thread, takes them out    *)
(* and calls every subscriber.                                             *)
(*                                                                         *)
(* eventPubFunc takes no lock.  Its callers preempt each other by priority *)
(* and a caller that was preempted goes on when all above it are done: the *)
(* main thread (apMain), above it the CLI thread ("event pub"), above both *)
(* interrupts, which the docs allow to publish.  A publisher's accesses to *)
(* the ring are the steps of qbufferWrite; in is loaded once for next_in   *)
(* and the slot, there being no store in between.  The copy of an event is *)
(* one step here and byte by byte in QBuffer.                              *)
(***************************************************************************)
EXTENDS Naturals, SequencesExt

CONSTANTS QMax,        \* EVENT_Q_MAX
          NodeMax,     \* EVENT_NODE_MAX
          Askers,      \* modules with an event_cb
          Publishers,  \* those of "cli", "isr" that publish
          MaxPub       \* events each of them publishes

ASSUME BusAssumption ==
  /\ QMax \in Nat /\ QMax >= 2 /\ NodeMax \in Nat /\ Askers \in Nat /\ MaxPub \in Nat
  /\ Publishers \subseteq {"cli", "isr"}

VARIABLES in, out, buf,          \* event_q and event_buf
          pubCnt, dropCnt,       \* pub_cnt, drop_cnt
          nodeCnt,               \* node_cnt
          pc,                    \* next step of each caller of eventPubFunc
          pubIn, pubOk, loaded,  \* its copies: in, qbufferWrite's result, the counter it adds to
          made,                  \* events each caller has begun to publish
          mainPc, asked, evt, node, \* the main thread: next step, modules begun, event, subscriber
          accepted, taken, delivered, \* history: stored in the ring, taken out, given to each node
          overlapped             \* history: a call of eventPubFunc has preempted another

ring    == <<in, out, buf>>
counts  == <<pubCnt, dropCnt>>
callers == <<pc, pubIn, pubOk, loaded, made>>
mainVars == <<mainPc, asked, nodeCnt, evt, node>>
hist    == <<accepted, taken, delivered, overlapped>>
vars    == <<ring, counts, callers, mainVars, hist>>

Ctx     == {"main"} \cup Publishers
Slot    == 0 .. QMax - 1
Limit(c) == IF c = "main" THEN 1 ELSE MaxPub
Event   == {e \in Ctx \X (1 .. MaxPub + 1) : e[2] <= Limit(e[1])}
NoEvent == <<"none", 0>>
Above(c) == CASE c = "main" -> Publishers [] c = "cli" -> Publishers \ {"cli"} [] OTHER -> {}

NextIdx(i) == (i + 1) % QMax
Available == (QMax + in - out) % QMax
Contents == [k \in 1 .. Available |-> buf[(out + k - 1) % QMax]]

\* The caller has the core: no caller of higher priority is in the middle of a call.
Runs(c) == \A d \in Above(c) : pc[d] = "idle"
MainRuns == Runs("main") /\ pc["main"] = "idle"

TypeOK ==
  /\ in \in Slot /\ out \in Slot /\ buf \in [Slot -> Event \cup {NoEvent}]
  /\ pubCnt \in Nat /\ dropCnt \in Nat /\ nodeCnt \in 0 .. NodeMax
  /\ pc \in [Ctx -> {"idle", "copy", "publish", "load", "store"}]
  /\ pubIn \in [Ctx -> Slot] /\ pubOk \in [Ctx -> BOOLEAN] /\ loaded \in [Ctx -> Nat]
  /\ made \in [Ctx -> 0 .. MaxPub + 1]
  /\ mainPc \in {"begin", "boot", "poll", "copy", "advance", "dispatch"}
  /\ asked \in 0 .. Askers /\ evt \in Event \cup {NoEvent} /\ node \in 0 .. NodeMax
  /\ accepted \in Seq(Event) /\ taken \in Seq(Event \cup {NoEvent})
  /\ delivered \in [1 .. NodeMax -> Seq(Event \cup {NoEvent})] /\ overlapped \in BOOLEAN

-----------------------------------------------------------------------------
\* eventInit has run; the modules have not begun.
Init ==
  /\ in = 0 /\ out = 0 /\ buf = [s \in Slot |-> NoEvent]
  /\ pubCnt = 0 /\ dropCnt = 0 /\ nodeCnt = 0
  /\ pc = [c \in Ctx |-> "idle"] /\ pubIn = [c \in Ctx |-> 0] /\ pubOk = [c \in Ctx |-> TRUE]
  /\ loaded = [c \in Ctx |-> 0] /\ made = [c \in Ctx |-> 0]
  /\ mainPc = "begin" /\ asked = 0 /\ evt = NoEvent /\ node = 0
  /\ accepted = <<>> /\ taken = <<>> /\ delivered = [n \in 1 .. NodeMax |-> <<>>]
  /\ overlapped = FALSE

(***************************************************************************)
(* eventPubFunc, by caller c.                                              *)
(***************************************************************************)
\* apMain publishes EVENT_BOOT_DONE once, before its loop; the CLI thread exists by then.
MayPublish(c) ==
  /\ pc[c] = "idle" /\ Runs(c) /\ made[c] < Limit(c)
  /\ c = "main" => mainPc = "boot"
  /\ c = "cli" => mainPc # "begin"

\* Mutant of PubTest: the ring is never found full.
PubTestNoGap(c) ==
  /\ MayPublish(c)
  /\ made' = [made EXCEPT ![c] = @ + 1]
  /\ pc' = [pc EXCEPT ![c] = "copy"] /\ pubIn' = [pubIn EXCEPT ![c] = in]
  /\ overlapped' = (overlapped \/ \E d \in Ctx : pc[d] # "idle")
  /\ UNCHANGED <<ring, counts, pubOk, loaded, mainVars, accepted, taken, delivered>>

\* The call, up to the comparison of next_in with out.
PubTest(c) ==
  /\ MayPublish(c)
  /\ made' = [made EXCEPT ![c] = @ + 1]
  /\ IF NextIdx(in) # out
       THEN pc' = [pc EXCEPT ![c] = "copy"] /\ pubIn' = [pubIn EXCEPT ![c] = in] /\ UNCHANGED pubOk
       ELSE pc' = [pc EXCEPT ![c] = "load"] /\ pubOk' = [pubOk EXCEPT ![c] = FALSE] /\ UNCHANGED pubIn
  /\ overlapped' = (overlapped \/ \E d \in Ctx : pc[d] # "idle")
  /\ UNCHANGED <<ring, counts, loaded, mainVars, accepted, taken, delivered>>

PubCopy(c) ==
  /\ pc[c] = "copy" /\ Runs(c) /\ pc' = [pc EXCEPT ![c] = "publish"]
  /\ buf' = [buf EXCEPT ![pubIn[c]] = <<c, made[c]>>]
  /\ UNCHANGED <<in, out, counts, pubIn, pubOk, loaded, made, mainVars, hist>>

\* p_node->in = next_in
PubStore(c) ==
  /\ pc[c] = "publish" /\ Runs(c) /\ pc' = [pc EXCEPT ![c] = "load"]
  /\ in' = NextIdx(pubIn[c])
  /\ pubOk' = [pubOk EXCEPT ![c] = TRUE]
  /\ accepted' = Append(accepted, <<c, made[c]>>)
  /\ UNCHANGED <<out, buf, counts, pubIn, loaded, made, mainVars, taken, delivered, overlapped>>

\* pub_cnt++ or drop_cnt++: the load ...
LoadCount(c) ==
  /\ pc[c] = "load" /\ Runs(c) /\ pc' = [pc EXCEPT ![c] = "store"]
  /\ loaded' = [loaded EXCEPT ![c] = IF pubOk[c] THEN pubCnt ELSE dropCnt]
  /\ UNCHANGED <<ring, counts, pubIn, pubOk, made, mainVars, hist>>

\* Mutant of StoreCount: a refused event is not counted.
StoreCountSilent(c) ==
  /\ pc[c] = "store" /\ Runs(c) /\ pc' = [pc EXCEPT ![c] = "idle"]
  /\ pubCnt' = IF pubOk[c] THEN loaded[c] + 1 ELSE pubCnt
  /\ mainPc' = IF c = "main" THEN "poll" ELSE mainPc
  /\ UNCHANGED <<ring, dropCnt, pubIn, pubOk, loaded, made, asked, nodeCnt, evt, node, hist>>

\* ... and the store, and the return.
StoreCount(c) ==
  /\ pc[c] = "store" /\ Runs(c) /\ pc' = [pc EXCEPT ![c] = "idle"]
  /\ pubCnt'  = IF pubOk[c] THEN loaded[c] + 1 ELSE pubCnt
  /\ dropCnt' = IF pubOk[c] THEN dropCnt ELSE loaded[c] + 1
  /\ mainPc' = IF c = "main" THEN "poll" ELSE mainPc
  /\ UNCHANGED <<ring, pubIn, pubOk, loaded, made, asked, nodeCnt, evt, node, hist>>

Publish(c) == PubTest(c) \/ PubCopy(c) \/ PubStore(c) \/ LoadCount(c) \/ StoreCount(c)

(***************************************************************************)
(* The main thread: moduleBegin's calls of eventSubFunc, then eventUpdate. *)
(***************************************************************************)
\* eventSubFunc for the next module, refused when the table is full.
SubFunc ==
  /\ mainPc = "begin" /\ MainRuns /\ asked < Askers
  /\ asked' = asked + 1
  /\ nodeCnt' = IF nodeCnt >= NodeMax THEN nodeCnt ELSE nodeCnt + 1
  /\ UNCHANGED <<ring, counts, callers, mainPc, evt, node, hist>>

BeginDone ==
  /\ mainPc = "begin" /\ MainRuns /\ asked = Askers
  /\ mainPc' = "boot"
  /\ UNCHANGED <<ring, counts, callers, asked, nodeCnt, evt, node, hist>>

\* while (qbufferAvailable(&event_q) > 0)
Poll ==
  /\ mainPc = "poll" /\ MainRuns /\ Available > 0
  /\ mainPc' = "copy"
  /\ UNCHANGED <<ring, counts, callers, asked, nodeCnt, evt, node, hist>>

TakeCopy ==
  /\ mainPc = "copy" /\ MainRuns
  /\ mainPc' = "advance"
  /\ evt' = buf[out]
  /\ UNCHANGED <<ring, counts, callers, asked, nodeCnt, node, hist>>

\* qbufferRead's step of out; the break when it finds the ring empty after all.
TakeAdvance ==
  /\ mainPc = "advance" /\ MainRuns
  /\ IF out # in
       THEN /\ out' = NextIdx(out) /\ taken' = Append(taken, evt)
            /\ IF nodeCnt = 0 THEN mainPc' = "poll" /\ UNCHANGED node
                              ELSE mainPc' = "dispatch" /\ node' = 1
       ELSE mainPc' = "poll" /\ UNCHANGED <<out, taken, node>>
  /\ UNCHANGED <<in, buf, counts, callers, asked, nodeCnt, evt, accepted, delivered, overlapped>>

\* Mutant of Dispatch: the loop ends one subscriber early.
DispatchShort ==
  /\ mainPc = "dispatch" /\ MainRuns
  /\ delivered' = [delivered EXCEPT ![node] = Append(@, evt)]
  /\ IF node + 1 < nodeCnt THEN node' = node + 1 /\ UNCHANGED mainPc ELSE mainPc' = "poll" /\ UNCHANGED node
  /\ UNCHANGED <<ring, counts, callers, asked, nodeCnt, evt, accepted, taken, overlapped>>

\* event_node[i].func(&evt)
Dispatch ==
  /\ mainPc = "dispatch" /\ MainRuns
  /\ delivered' = [delivered EXCEPT ![node] = Append(@, evt)]
  /\ IF node < nodeCnt THEN node' = node + 1 /\ UNCHANGED mainPc ELSE mainPc' = "poll" /\ UNCHANGED node
  /\ UNCHANGED <<ring, counts, callers, asked, nodeCnt, evt, accepted, taken, overlapped>>

EventUpdate == Poll \/ TakeCopy \/ TakeAdvance \/ Dispatch

Main == SubFunc \/ BeginDone \/ EventUpdate \/ Publish("main")

Next == Main \/ \E c \in Publishers : Publish(c)

Spec == Init /\ [][Next]_vars

\* Calls end, and the main thread's loop gets the core whenever no one above it is in a call.
FairSpec == Spec /\ WF_vars(Main) /\ \A c \in Publishers : WF_vars(pc[c] # "idle" /\ Publish(c))

-----------------------------------------------------------------------------
\* Every event whose publication succeeded is taken out exactly once and in the order of the
\* stores to the ring, as long as no call of eventPubFunc has preempted another.
NothingLost == ~ overlapped => accepted = taken \o Contents

\* Every subscriber is called with every event taken, in the same order; one that comes later in
\* the table is behind by no more than the event being dispatched.
SameOrderForAll ==
  \A n \in 1 .. nodeCnt :
    delivered[n] = IF mainPc = "dispatch" /\ node <= n THEN Front(taken) ELSE taken

Made(c) == IF c \in Ctx THEN made[c] ELSE 0

\* event.c: an event that finds the ring full is not dropped silently but counted.  Between calls
\* the counters add up to the calls, unless calls have preempted each other.
CountersExact ==
  ~ overlapped /\ (\A c \in Ctx : pc[c] = "idle") =>
    /\ pubCnt = Len(accepted)
    /\ pubCnt + dropCnt = Made("main") + Made("cli") + Made("isr")

\* An event that was published successfully reaches the last subscriber.
EventuallyDispatched ==
  \A e \in Event : e \in Range(accepted) ~>
    (nodeCnt > 0 /\ e \in Range(delivered[nodeCnt])) \/ nodeCnt = 0 \/ overlapped

\* docs/22-freertos.md: an interrupt may publish too.  So no successful publication is undone by
\* another one.
NoSilentLoss == \A i \in DOMAIN accepted : accepted[i] \in Range(taken) \cup Range(Contents)
=============================================================================
