-------------------------- MODULE EventBus_proofs --------------------------
(***************************************************************************)
(* The bus for every size of the ring and of the subscriber table, every   *)
(* number of modules and of publications: nothing is lost or reordered     *)
(* while no publication preempts another, and all subscribers are called   *)
(* with the same events in the same order whether it does or not.          *)
(***************************************************************************)
EXTENDS EventBus, SequenceTheorems, TLAPS

Item == Event \cup {NoEvent}

\* Where the main thread is: its own publication lies between moduleBegin and the loop.
MainInv ==
  /\ mainPc = "begin" => taken = <<>> /\ delivered = [n \in 1 .. NodeMax |-> <<>>]
  /\ pc["main"] # "idle" => mainPc = "boot"
  /\ mainPc = "dispatch" => node \in 1 .. nodeCnt /\ taken # <<>> /\ evt = taken[Len(taken)]

\* A caller inside qbufferWrite is publishing one of its events.
MadeInv == \A c \in Ctx : pc[c] \in {"copy", "publish"} => made[c] \in 1 .. Limit(c)

Count == IF in >= out THEN in - out ELSE QMax + in - out
At(k) == IF out + k < QMax THEN out + k ELSE out + k - QMax

\* While no call has preempted another: there is one caller at most, the slot it writes is free and
\* the ring holds what was accepted and not yet taken.
Alone  == \A c, d \in Ctx : pc[c] # "idle" /\ pc[d] # "idle" => c = d
Writes ==
  \A c \in Ctx :
    /\ pc[c] \in {"copy", "publish"} => pubIn[c] = in /\ NextIdx(in) # out
    /\ pc[c] = "publish" => buf[in] = <<c, made[c]>>
Takes ==
  /\ mainPc \in {"copy", "advance"} => in # out
  /\ mainPc = "advance" => evt = buf[out]
Kept ==
  /\ Len(accepted) = Len(taken) + Count
  /\ \A i \in 1 .. Len(taken) : accepted[i] = taken[i]
  /\ \A k \in 1 .. Count : accepted[Len(taken) + k] = buf[At(k - 1)]
RingInv == ~ overlapped => Alone /\ Writes /\ Takes /\ Kept

IInv == TypeOK /\ MainInv /\ MadeInv /\ SameOrderForAll /\ RingInv

-----------------------------------------------------------------------------
\* An index, and the number of items, without remainders.
LEMMA NextIdxWraps ==
  \A i \in Slot : NextIdx(i) = (IF i + 1 = QMax THEN 0 ELSE i + 1) /\ NextIdx(i) \in Slot
BY BusAssumption DEF Slot, NextIdx

LEMMA AvailableIsCount ==
  ASSUME in \in Slot, out \in Slot
  PROVE  Available = Count /\ Count \in Nat /\ Count < QMax
BY BusAssumption DEF Slot, Available, Count

LEMMA AtWraps ==
  ASSUME out \in Slot
  PROVE  \A k \in 0 .. QMax - 1 : At(k) = (out + k) % QMax /\ At(k) \in Slot
BY BusAssumption DEF Slot, At

LEMMA CtxLimit == "main" \in Ctx /\ \A c \in Ctx : Limit(c) \in Nat /\ Limit(c) <= MaxPub + 1
BY BusAssumption DEF Ctx, Limit

LEMMA EventType == \A c \in Ctx, n \in Nat : n \in 1 .. Limit(c) => <<c, n>> \in Event
BY CtxLimit, BusAssumption DEF Event

\* Appending an element and cutting off the last one undo each other.
LEMMA FrontOfAppend ==
  ASSUME NEW S, NEW s \in Seq(S), NEW e \in S
  PROVE  Front(Append(s, e)) = s
<1>1. /\ Append(s, e) \in Seq(S) /\ Len(Append(s, e)) = Len(s) + 1 /\ Len(s) \in Nat
      /\ \A i \in 1 .. Len(s) : Append(s, e)[i] = s[i]
    OBVIOUS
<1>2. \A i \in 1 .. Len(s) : Append(s, e)[i] \in S
    BY <1>1
<1>3. /\ Front(Append(s, e)) \in Seq(S) /\ Len(Front(Append(s, e))) = Len(s)
      /\ \A i \in 1 .. Len(s) : Front(Append(s, e))[i] = Append(s, e)[i]
    BY <1>1, <1>2 DEF Front
<1>4. QED
    BY <1>1, <1>3, SeqEqual

\* The last element of a sequence that has just grown.
LEMMA LastOfAppend ==
  ASSUME NEW S, NEW s \in Seq(S), NEW e \in S
  PROVE  Append(s, e) # <<>> /\ e = Append(s, e)[Len(Append(s, e))]
BY AppendProperties

LEMMA AppendToFront ==
  ASSUME NEW S, NEW s \in Seq(S), s # <<>>
  PROVE  Append(Front(s), s[Len(s)]) = s
<1>1. Len(s) \in Nat /\ Len(s) >= 1 /\ \A i \in 1 .. Len(s) : s[i] \in S
    OBVIOUS
<1>2. /\ Front(s) \in Seq(S) /\ Len(Front(s)) = Len(s) - 1
      /\ \A i \in 1 .. Len(s) - 1 : Front(s)[i] = s[i]
    <2> DEFINE n == Len(s) - 1
    <2>1. n \in Nat /\ \A i \in 1 .. n : s[i] \in S
        BY <1>1
    <2>2. /\ SubSeq(s, 1, n) \in Seq(S)
          /\ Len(SubSeq(s, 1, n)) = (IF 1 <= n THEN n - 1 + 1 ELSE 0)
          /\ \A i \in 1 .. n - 1 + 1 : SubSeq(s, 1, n)[i] = s[1 + i - 1]
        BY <2>1, SubSeqProperties
    <2> HIDE DEF n
    <2>3. Len(SubSeq(s, 1, n)) = n /\ \A i \in 1 .. n : SubSeq(s, 1, n)[i] = s[i]
        BY <2>1, <2>2
    <2>4. QED
        BY <2>2, <2>3 DEF Front, n
<1>3. /\ Append(Front(s), s[Len(s)]) \in Seq(S) /\ Len(Append(Front(s), s[Len(s)])) = Len(s)
      /\ \A i \in 1 .. Len(s) : Append(Front(s), s[Len(s)])[i] = s[i]
    BY <1>1, <1>2
<1>4. QED
    BY <1>3, SeqEqual

-----------------------------------------------------------------------------
LEMMA InitIInv == Init => IInv
<1> SUFFICES ASSUME Init PROVE IInv
    OBVIOUS
<1> USE BusAssumption, CtxLimit DEF Init
<1>1. 0 \in Slot /\ 0 \in 0 .. NodeMax /\ 0 \in 0 .. Askers /\ 0 \in 0 .. MaxPub + 1
    BY DEF Slot
<1>2. TypeOK
    <2>1. /\ pc \in [Ctx -> {"idle", "copy", "publish", "load", "store"}]
          /\ pubIn \in [Ctx -> Slot] /\ pubOk \in [Ctx -> BOOLEAN] /\ loaded \in [Ctx -> Nat]
          /\ made \in [Ctx -> 0 .. MaxPub + 1]
        BY <1>1
    <2>2. accepted \in Seq(Event) /\ taken \in Seq(Item) /\ delivered \in [1 .. NodeMax -> Seq(Item)]
        BY EmptySeq
    <2>3. buf \in [Slot -> Item] /\ evt \in Item
        BY DEF Item
    <2>4. QED
        BY <1>1, <2>1, <2>2, <2>3 DEF TypeOK, Item
<1>3. MainInv /\ MadeInv /\ SameOrderForAll
    BY DEF MainInv, MadeInv, SameOrderForAll
<1>4. RingInv
    BY DEF RingInv, Alone, Writes, Takes, Kept, Count
<1>5. QED
    BY <1>2, <1>3, <1>4 DEF IInv

-----------------------------------------------------------------------------
LEMMA TypeNext == IInv /\ [Next]_vars => TypeOK'
<1> SUFFICES ASSUME IInv, [Next]_vars PROVE TypeOK'
    OBVIOUS
<1> USE BusAssumption, CtxLimit, NextIdxWraps
        DEF IInv, TypeOK, ring, counts, callers, mainVars, hist
<1>1. ASSUME NEW c \in Ctx, PubTest(c) PROVE TypeOK'
    <2>1. made' \in [Ctx -> 0 .. MaxPub + 1]
        BY <1>1 DEF PubTest, MayPublish
    <2>2. pc' \in [Ctx -> {"idle", "copy", "publish", "load", "store"}]
        BY <1>1 DEF PubTest
    <2>3. pubIn' \in [Ctx -> Slot]
        BY <1>1 DEF PubTest
    <2>4. pubOk' \in [Ctx -> BOOLEAN]
        BY <1>1 DEF PubTest
    <2>5. overlapped' \in BOOLEAN
        BY <1>1 DEF PubTest
    <2>6. QED
        BY <1>1, <2>1, <2>2, <2>3, <2>4, <2>5 DEF PubTest
<1>2. ASSUME NEW c \in Ctx, PubCopy(c) PROVE TypeOK'
    <2>1. <<c, made[c]>> \in Event
        BY <1>2, EventType DEF PubCopy, MadeInv
    <2>2. buf' \in [Slot -> Event \cup {NoEvent}]
        BY <1>2, <2>1 DEF PubCopy
    <2>3. QED
        BY <1>2, <2>2 DEF PubCopy
<1>3. ASSUME NEW c \in Ctx, PubStore(c) PROVE TypeOK'
    <2>1. <<c, made[c]>> \in Event
        BY <1>3, EventType DEF PubStore, MadeInv
    <2>2. accepted' \in Seq(Event)
        BY <1>3, <2>1 DEF PubStore
    <2>3. in' \in Slot
        BY <1>3 DEF PubStore
    <2>4. pubOk' \in [Ctx -> BOOLEAN]
        BY <1>3 DEF PubStore
    <2>5. QED
        BY <1>3, <2>2, <2>3, <2>4 DEF PubStore
<1>4. ASSUME NEW c \in Ctx, LoadCount(c) PROVE TypeOK'
    <2>1. loaded' \in [Ctx -> Nat]
        BY <1>4 DEF LoadCount
    <2>2. QED
        BY <1>4, <2>1 DEF LoadCount
<1>5. ASSUME NEW c \in Ctx, StoreCount(c) PROVE TypeOK'
    <2>1. pubCnt' \in Nat
        BY <1>5 DEF StoreCount
    <2>2. dropCnt' \in Nat
        BY <1>5 DEF StoreCount
    <2>3. mainPc' \in {"begin", "boot", "poll", "copy", "advance", "dispatch"}
        BY <1>5 DEF StoreCount
    <2>4. QED
        BY <1>5, <2>1, <2>2, <2>3 DEF StoreCount
<1>6. CASE SubFunc
    BY <1>6 DEF SubFunc
<1>7. CASE BeginDone
    BY <1>7 DEF BeginDone
<1>8. CASE Poll
    BY <1>8 DEF Poll
<1>9. CASE TakeCopy
    <2>1. evt' \in Event \cup {NoEvent}
        BY <1>9 DEF TakeCopy
    <2>2. QED
        BY <1>9, <2>1 DEF TakeCopy
<1>10. CASE TakeAdvance
    <2>1. CASE out # in
        <3>1. out' \in Slot /\ taken' \in Seq(Event \cup {NoEvent})
            <4>1. out' = NextIdx(out) /\ taken' = Append(taken, evt)
                BY <1>10, <2>1 DEF TakeAdvance
            <4>2. Append(taken, evt) \in Seq(Event \cup {NoEvent})
                OBVIOUS
            <4>3. QED
                BY <4>1, <4>2
        <3>2. CASE nodeCnt = 0
            BY <1>10, <2>1, <3>1, <3>2 DEF TakeAdvance
        <3>3. CASE nodeCnt # 0
            <4>1. node' = 1 /\ mainPc' = "dispatch"
                BY <1>10, <2>1, <3>3 DEF TakeAdvance
            <4>2. QED
                BY <1>10, <3>1, <3>3, <4>1 DEF TakeAdvance
        <3>4. QED
            BY <3>2, <3>3
    <2>2. CASE out = in
        BY <1>10, <2>2 DEF TakeAdvance
    <2>3. QED
        BY <2>1, <2>2
<1>11. CASE Dispatch
    <2>1. node \in 1 .. nodeCnt /\ node \in 1 .. NodeMax
        BY <1>11 DEF Dispatch, MainInv
    <2>2. delivered' \in [1 .. NodeMax -> Seq(Event \cup {NoEvent})]
        BY <1>11, <2>1 DEF Dispatch
    <2>3. node' \in 0 .. NodeMax /\ mainPc' \in {"poll", "dispatch"}
        BY <1>11, <2>1 DEF Dispatch
    <2>4. QED
        BY <1>11, <2>2, <2>3 DEF Dispatch
<1>12. CASE UNCHANGED vars
    BY <1>12 DEF vars
<1>13. QED
    BY <1>1, <1>2, <1>3, <1>4, <1>5, <1>6, <1>7, <1>8, <1>9, <1>10, <1>11, <1>12
       DEF Next, Main, EventUpdate, Publish, Ctx

\* Where the main thread is, and what a caller publishes.
LEMMA MainNext == IInv /\ [Next]_vars => MainInv' /\ MadeInv'
<1> SUFFICES ASSUME IInv, [Next]_vars PROVE MainInv' /\ MadeInv'
    OBVIOUS
<1> USE CtxLimit DEF IInv, MainInv, MadeInv, ring, counts, callers, mainVars, hist
<1>a. /\ taken \in Seq(Item) /\ evt \in Item /\ nodeCnt \in Nat /\ made \in [Ctx -> 0 .. MaxPub + 1]
      /\ pc \in [Ctx -> {"idle", "copy", "publish", "load", "store"}]
    BY DEF TypeOK, Item
<1>1. ASSUME NEW c \in Ctx, PubTest(c) PROVE MainInv' /\ MadeInv'
    <2>1. UNCHANGED <<mainPc, taken, delivered, evt, node, nodeCnt>>
        BY <1>1 DEF PubTest
    <2>2. made' = [made EXCEPT ![c] = @ + 1] /\ made[c] < Limit(c) /\ made[c] \in Nat
        BY <1>1, <1>a DEF PubTest, MayPublish
    <2>3. pc' = [pc EXCEPT ![c] = "copy"] \/ pc' = [pc EXCEPT ![c] = "load"]
        BY <1>1 DEF PubTest
    <2>4. pc'["main"] # "idle" => mainPc = "boot"
        BY <1>1, <1>a, <2>3 DEF PubTest, MayPublish
    <2>5. MadeInv'
        BY <1>a, <2>2, <2>3
    <2>6. QED
        BY <2>1, <2>4, <2>5
<1>2. ASSUME NEW c \in Ctx, PubCopy(c) \/ PubStore(c) \/ LoadCount(c) PROVE MainInv' /\ MadeInv'
    <2>1. UNCHANGED <<mainPc, taken, delivered, evt, node, nodeCnt, made>>
        BY <1>2 DEF PubCopy, PubStore, LoadCount
    <2>2. pc[c] # "idle" /\ \E s \in {"publish", "load", "store"} :
            pc' = [pc EXCEPT ![c] = s] /\ (s = "publish" => pc[c] = "copy")
        BY <1>2, <1>a DEF PubCopy, PubStore, LoadCount
    <2>3. MadeInv'
        BY <1>a, <2>1, <2>2
    <2>4. pc'["main"] # "idle" => pc["main"] # "idle"
        BY <1>a, <2>2
    <2>5. QED
        BY <2>1, <2>3, <2>4
<1>3. ASSUME NEW c \in Ctx, StoreCount(c) PROVE MainInv' /\ MadeInv'
    <2>1. UNCHANGED <<taken, delivered, evt, node, nodeCnt, made>> /\ pc' = [pc EXCEPT ![c] = "idle"]
        BY <1>3 DEF StoreCount
    <2>2. MadeInv'
        BY <1>a, <2>1
    <2>3. CASE c = "main"
        <3>1. mainPc' = "poll" /\ pc'["main"] = "idle"
            BY <1>3, <1>a, <2>1, <2>3 DEF StoreCount
        <3>2. QED
            BY <2>2, <3>1
    <2>4. CASE c # "main"
        <3>1. mainPc' = mainPc /\ pc'["main"] = pc["main"]
            BY <1>3, <1>a, <2>1, <2>4 DEF StoreCount
        <3>2. QED
            BY <2>1, <2>2, <3>1
    <2>5. QED
        BY <2>3, <2>4
<1>4. CASE SubFunc \/ BeginDone \/ Poll \/ TakeCopy
    <2>1. UNCHANGED <<pc, made, taken, delivered>> /\ pc["main"] = "idle"
        BY <1>4 DEF SubFunc, BeginDone, Poll, TakeCopy, MainRuns
    <2>2. mainPc' = "begin" => mainPc = "begin"
        BY <1>4 DEF SubFunc, BeginDone, Poll, TakeCopy
    <2>3. mainPc' # "dispatch"
        BY <1>4 DEF SubFunc, BeginDone, Poll, TakeCopy
    <2>4. QED
        BY <2>1, <2>2, <2>3
<1>5. CASE TakeAdvance
    <2>1. UNCHANGED <<pc, made, nodeCnt, evt>> /\ pc["main"] = "idle"
        BY <1>5 DEF TakeAdvance, MainRuns
    <2>2. CASE out # in /\ nodeCnt # 0
        <3>1. mainPc' = "dispatch" /\ node' = 1 /\ taken' = Append(taken, evt)
            BY <1>5, <2>2 DEF TakeAdvance
        <3>2. taken' # <<>> /\ evt = taken'[Len(taken')]
            BY <3>1, <1>a, LastOfAppend
        <3>3. node' \in 1 .. nodeCnt' /\ pc'["main"] = "idle"
            BY <1>a, <2>1, <2>2, <3>1
        <3>4. MainInv'
            BY <3>1, <3>2, <3>3, <2>1
        <3>5. MadeInv'
            BY <2>1
        <3>6. QED
            BY <3>4, <3>5
    <2>3. CASE out = in \/ nodeCnt = 0
        <3>1. mainPc' = "poll"
            BY <1>5, <2>3 DEF TakeAdvance
        <3>2. QED
            BY <2>1, <3>1
    <2>4. QED
        BY <2>2, <2>3
<1>6. CASE Dispatch
    <2>1. UNCHANGED <<pc, made, nodeCnt, evt, taken>> /\ pc["main"] = "idle" /\ mainPc = "dispatch"
        BY <1>6 DEF Dispatch, MainRuns
    <2>2. CASE node < nodeCnt
        <3>1. mainPc' = "dispatch" /\ node' = node + 1
            BY <1>6, <2>2 DEF Dispatch
        <3>2. QED
            BY <1>a, <2>1, <2>2, <3>1
    <2>3. CASE ~ (node < nodeCnt)
        <3>1. mainPc' = "poll"
            BY <1>6, <2>3 DEF Dispatch
        <3>2. QED
            BY <2>1, <3>1
    <2>4. QED
        BY <2>2, <2>3
<1>7. CASE UNCHANGED vars
    BY <1>7 DEF vars
<1>8. QED
    BY <1>1, <1>2, <1>3, <1>4, <1>5, <1>6, <1>7 DEF Next, Main, EventUpdate, Publish, Ctx

\* What the subscribers have been called with.
LEMMA SameNext == IInv /\ [Next]_vars => SameOrderForAll'
<1> SUFFICES ASSUME IInv, [Next]_vars PROVE SameOrderForAll'
    OBVIOUS
<1> USE DEF IInv, MainInv, ring, counts, callers, mainVars, hist
<1>a. /\ taken \in Seq(Item) /\ evt \in Item /\ nodeCnt \in 0 .. NodeMax /\ node \in 0 .. NodeMax
      /\ delivered \in [1 .. NodeMax -> Seq(Item)]
    BY DEF TypeOK, Item
<1>b. NodeMax \in Nat
    BY BusAssumption
<1>1. ASSUME NEW c \in Ctx, Publish(c) PROVE SameOrderForAll'
    <2>1. UNCHANGED <<taken, delivered, node, nodeCnt>>
        BY <1>1 DEF Publish, PubTest, PubCopy, PubStore, LoadCount, StoreCount
    <2>2. mainPc' = mainPc \/ (mainPc = "boot" /\ mainPc' = "poll")
        BY <1>1 DEF Publish, PubTest, PubCopy, PubStore, LoadCount, StoreCount
    <2>3. QED
        BY <2>1, <2>2 DEF SameOrderForAll
<1>2. CASE SubFunc
    <2>1. mainPc = "begin" /\ mainPc' = "begin" /\ UNCHANGED <<taken, delivered>> /\ nodeCnt' \in 0 .. NodeMax
        BY <1>2, <1>a, <1>b DEF SubFunc
    <2>2. QED
        BY <1>a, <1>b, <2>1 DEF SameOrderForAll
<1>3. CASE BeginDone \/ Poll \/ TakeCopy
    <2>1. UNCHANGED <<taken, delivered, node, nodeCnt>> /\ mainPc # "dispatch" /\ mainPc' # "dispatch"
        BY <1>3 DEF BeginDone, Poll, TakeCopy
    <2>2. QED
        BY <2>1 DEF SameOrderForAll
<1>4. CASE TakeAdvance
    <2>1. UNCHANGED <<delivered, nodeCnt>> /\ mainPc = "advance"
        BY <1>4 DEF TakeAdvance
    <2>2. \A n \in 1 .. nodeCnt : delivered[n] = taken
        BY <2>1 DEF SameOrderForAll
    <2>3. CASE out # in /\ nodeCnt # 0
        <3>1. mainPc' = "dispatch" /\ node' = 1 /\ taken' = Append(taken, evt)
            BY <1>4, <2>3 DEF TakeAdvance
        <3>2. Front(taken') = taken
            BY <3>1, <1>a, FrontOfAppend
        <3>3. QED
            BY <1>a, <2>1, <2>2, <3>1, <3>2 DEF SameOrderForAll
    <2>4. CASE nodeCnt = 0
        BY <2>1, <2>4 DEF SameOrderForAll
    <2>5. CASE out = in
        <3>1. mainPc' = "poll" /\ taken' = taken
            BY <1>4, <2>5 DEF TakeAdvance
        <3>2. QED
            BY <2>1, <2>2, <3>1 DEF SameOrderForAll
    <2>6. QED
        BY <2>3, <2>4, <2>5
<1>5. CASE Dispatch
    <2>1. /\ mainPc = "dispatch" /\ UNCHANGED <<taken, nodeCnt>> /\ node \in 1 .. nodeCnt
          /\ taken # <<>> /\ evt = taken[Len(taken)]
          /\ delivered' = [delivered EXCEPT ![node] = Append(@, evt)]
        BY <1>5 DEF Dispatch
    <2>2. delivered[node] = Front(taken)
        BY <2>1 DEF SameOrderForAll
    <2>3. Append(Front(taken), evt) = taken
        BY <2>1, <1>a, AppendToFront
    <2>4. delivered'[node] = taken /\ \A n \in 1 .. nodeCnt : n # node => delivered'[n] = delivered[n]
        BY <1>a, <2>1, <2>2, <2>3
    <2>5. CASE node < nodeCnt
        <3>1. mainPc' = "dispatch" /\ node' = node + 1 /\ nodeCnt' = nodeCnt /\ taken' = taken
            BY <1>5, <2>1, <2>5 DEF Dispatch
        <3>2. \A n \in 1 .. nodeCnt : delivered[n] = IF node <= n THEN Front(taken) ELSE taken
            BY <2>1 DEF SameOrderForAll
        <3>3. \A n \in 1 .. nodeCnt : delivered'[n] = IF node + 1 <= n THEN Front(taken) ELSE taken
            <4> SUFFICES ASSUME NEW n \in 1 .. nodeCnt
                         PROVE  delivered'[n] = IF node + 1 <= n THEN Front(taken) ELSE taken
                OBVIOUS
            <4>1. n \in Nat /\ node \in Nat
                BY <1>a
            <4>2. CASE n = node
                BY <4>1, <4>2, <2>4
            <4>3. CASE n # node
                <5>1. (node <= n) <=> (node + 1 <= n)
                    BY <4>1, <4>3
                <5>2. QED
                    BY <4>3, <5>1, <2>4, <3>2
            <4>4. QED
                BY <4>2, <4>3
        <3>4. QED
            BY <3>1, <3>3 DEF SameOrderForAll
    <2>6. CASE node = nodeCnt
        <3>1. mainPc' = "poll"
            BY <1>5, <2>6, <1>a DEF Dispatch
        <3>2. QED
            BY <1>a, <2>1, <2>4, <2>6, <3>1 DEF SameOrderForAll
    <2>7. QED
        BY <1>a, <2>1, <2>5, <2>6
<1>6. CASE UNCHANGED vars
    BY <1>6 DEF vars, SameOrderForAll
<1>7. QED
    BY <1>1, <1>2, <1>3, <1>4, <1>5, <1>6, CtxLimit DEF Next, Main, EventUpdate, Ctx

-----------------------------------------------------------------------------
\* While no call preempts another: the ring holds what was accepted and not yet taken.
LEMMA RingNext == IInv /\ [Next]_vars => RingInv'
<1> SUFFICES ASSUME IInv, [Next]_vars, ~ overlapped'
             PROVE  Alone' /\ Writes' /\ Takes' /\ Kept'
    BY DEF RingInv
<1> USE BusAssumption DEF IInv, ring, counts, callers, mainVars, hist
<1>a. /\ in \in Slot /\ out \in Slot /\ in \in 0 .. QMax - 1 /\ out \in 0 .. QMax - 1 /\ QMax \in Nat /\ QMax >= 2
      /\ buf \in [Slot -> Item] /\ evt \in Item
      /\ accepted \in Seq(Item) /\ taken \in Seq(Item) /\ Len(accepted) \in Nat /\ Len(taken) \in Nat
    BY DEF TypeOK, Item, Slot
<1>b. /\ pc \in [Ctx -> {"idle", "copy", "publish", "load", "store"}]
      /\ pubIn \in [Ctx -> Slot] /\ made \in [Ctx -> 0 .. MaxPub + 1]
    BY DEF TypeOK
<1>c. \A i \in Slot : NextIdx(i) = (IF i + 1 = QMax THEN 0 ELSE i + 1) /\ NextIdx(i) \in Slot
    BY NextIdxWraps
<1>d. Count \in Nat /\ Count < QMax /\ \A k \in 0 .. QMax - 1 : At(k) \in Slot
    BY <1>a, AvailableIsCount, AtWraps
<1>e. ~ overlapped
    BY DEF Next, Main, EventUpdate, Publish, SubFunc, BeginDone, Poll, TakeCopy, TakeAdvance, Dispatch,
           PubTest, PubCopy, PubStore, LoadCount, StoreCount, vars
<1>f. Alone /\ Writes /\ Takes /\ Kept
    BY <1>e DEF RingInv
<1>1. ASSUME NEW c \in Ctx, PubTest(c) PROVE Alone' /\ Writes' /\ Takes' /\ Kept'
    <2>1. UNCHANGED <<in, out, buf, mainPc, evt, taken, accepted>>
        BY <1>1 DEF PubTest
    <2>2. \A d \in Ctx : pc[d] = "idle"
        BY <1>1 DEF PubTest
    <2>3. \/ pc' = [pc EXCEPT ![c] = "copy"] /\ pubIn' = [pubIn EXCEPT ![c] = in] /\ NextIdx(in) # out
          \/ pc' = [pc EXCEPT ![c] = "load"] /\ pubIn' = pubIn
        BY <1>1 DEF PubTest
    <2>4. Alone'
        BY <1>b, <2>2, <2>3 DEF Alone
    <2>5. Writes'
        BY <1>b, <2>1, <2>2, <2>3 DEF Writes, NextIdx
    <2>6. QED
        BY <1>f, <2>1, <2>4, <2>5 DEF Takes, Kept, Count, At
<1>2. ASSUME NEW c \in Ctx, PubCopy(c) PROVE Alone' /\ Writes' /\ Takes' /\ Kept'
    <2>1. UNCHANGED <<in, out, pubIn, made, mainPc, evt, taken, accepted>>
        BY <1>2 DEF PubCopy
    <2>2. /\ pc[c] = "copy" /\ pc' = [pc EXCEPT ![c] = "publish"]
          /\ buf' = [buf EXCEPT ![in] = <<c, made[c]>>] /\ NextIdx(in) # out
        BY <1>2, <1>f DEF PubCopy, Writes
    <2>3. \A k \in 0 .. Count - 1 : At(k) # in
        BY <1>a, <1>c, <2>2 DEF Count, At
    <2>4. \A k \in 1 .. Count : buf'[At(k - 1)] = buf[At(k - 1)]
        <3> SUFFICES ASSUME NEW k \in 1 .. Count PROVE buf'[At(k - 1)] = buf[At(k - 1)]
            OBVIOUS
        <3>1. k - 1 \in 0 .. Count - 1 /\ k - 1 \in 0 .. QMax - 1
            BY <1>a, <1>d
        <3>2. At(k - 1) # in /\ At(k - 1) \in Slot
            BY <3>1, <2>3, <1>d
        <3>3. QED
            BY <1>a, <2>2, <3>2
    <2>5. Kept'
        BY <1>f, <2>1, <2>4 DEF Kept, Count, At
    <2>6. Alone'
        BY <1>b, <1>f, <2>2 DEF Alone
    <2>7. Writes'
        BY <1>a, <1>b, <1>f, <2>1, <2>2 DEF Writes, Alone, NextIdx
    <2>8. Takes'
        BY <1>a, <1>f, <2>1, <2>2 DEF Takes
    <2>9. QED
        BY <2>5, <2>6, <2>7, <2>8
<1>3. ASSUME NEW c \in Ctx, PubStore(c) PROVE Alone' /\ Writes' /\ Takes' /\ Kept'
    <2>1. UNCHANGED <<out, buf, pubIn, made, mainPc, evt, taken>>
        BY <1>3 DEF PubStore
    <2>2. /\ pc[c] = "publish" /\ pc' = [pc EXCEPT ![c] = "load"]
          /\ in' = NextIdx(in) /\ NextIdx(in) # out
          /\ accepted' = Append(accepted, <<c, made[c]>>) /\ buf[in] = <<c, made[c]>>
        BY <1>3, <1>f DEF PubStore, Writes
    <2>3. Count' = Count + 1 /\ At(Count) = in
        <3>1. in' = (IF in + 1 = QMax THEN 0 ELSE in + 1) /\ in' # out /\ out' = out
            BY <1>a, <1>c, <2>1, <2>2
        <3>2. QED
            BY <1>a, <3>1 DEF Count, At
    <2>4. /\ Len(accepted') = Len(accepted) + 1 /\ accepted'[Len(accepted) + 1] = buf[in]
          /\ \A i \in 1 .. Len(accepted) : accepted'[i] = accepted[i]
        BY <1>a, <2>2
    <2>5. Kept'
        <3>1. Len(accepted) = Len(taken) + Count
            BY <1>f DEF Kept
        <3>2. \A i \in 1 .. Len(taken) : accepted'[i] = taken[i]
            BY <1>a, <1>d, <1>f, <2>4, <3>1 DEF Kept
        <3>3. ASSUME NEW k \in 1 .. Count + 1 PROVE accepted'[Len(taken) + k] = buf[At(k - 1)]
            <4>1. CASE k = Count + 1
                <5>1. Len(taken) + k = Len(accepted) + 1 /\ k - 1 = Count
                    BY <4>1, <1>a, <1>d, <3>1
                <5>2. QED
                    BY <5>1, <2>3, <2>4
            <4>2. CASE k \in 1 .. Count
                <5>1. Len(taken) + k \in 1 .. Len(accepted)
                    BY <4>2, <1>a, <1>d, <3>1
                <5>2. QED
                    BY <4>2, <5>1, <1>f, <2>4 DEF Kept
            <4>3. QED
                BY <4>1, <4>2, <1>d
        <3>4. QED
            BY <1>a, <1>d, <2>1, <2>3, <2>4, <3>1, <3>2, <3>3 DEF Kept, At
    <2>6. Alone'
        BY <1>b, <1>f, <2>2 DEF Alone
    <2>7. Writes'
        BY <1>a, <1>b, <1>f, <2>1, <2>2 DEF Writes, Alone
    <2>8. Takes'
        BY <1>f, <2>1, <2>2 DEF Takes
    <2>9. QED
        BY <2>5, <2>6, <2>7, <2>8
<1>4. ASSUME NEW c \in Ctx, LoadCount(c) \/ StoreCount(c) PROVE Alone' /\ Writes' /\ Takes' /\ Kept'
    <2>1. UNCHANGED <<in, out, buf, pubIn, made, evt, taken, accepted>>
        BY <1>4 DEF LoadCount, StoreCount
    <2>2. \E s \in {"store", "idle"} : pc' = [pc EXCEPT ![c] = s] /\ pc[c] # "idle"
        BY <1>4 DEF LoadCount, StoreCount
    <2>3. mainPc' = mainPc \/ mainPc' = "poll"
        BY <1>4 DEF LoadCount, StoreCount
    <2>4. Alone'
        BY <1>b, <1>f, <2>2 DEF Alone
    <2>5. Writes'
        BY <1>b, <1>f, <2>1, <2>2 DEF Writes, NextIdx
    <2>6. Takes' /\ Kept'
        BY <1>f, <2>1, <2>3 DEF Takes, Kept, Count, At
    <2>7. QED
        BY <2>4, <2>5, <2>6
<1>5. CASE TakeAdvance
    <2>1. /\ UNCHANGED <<in, buf, pc, pubIn, made, evt, accepted>> /\ mainPc = "advance"
          /\ \A d \in Ctx : pc[d] = "idle"
        BY <1>5 DEF TakeAdvance, MainRuns, Runs, Above, Ctx
    <2>2. in # out /\ evt = buf[out]
        BY <1>f, <2>1 DEF Takes
    <2>3. out' = NextIdx(out) /\ taken' = Append(taken, buf[out]) /\ mainPc' \in {"poll", "dispatch"}
        BY <1>5, <2>2 DEF TakeAdvance
    <2>4. out' = (IF out + 1 = QMax THEN 0 ELSE out + 1)
        BY <1>a, <1>c, <2>3
    <2>5. Count' = Count - 1 /\ Count >= 1 /\ At(0) = out
        BY <1>a, <2>1, <2>2, <2>4 DEF Count, At
    <2>6. \A k \in 0 .. Count - 2 : At(k)' = At(k + 1)
        BY <1>a, <1>d, <2>4 DEF At
    <2>7. /\ Len(taken') = Len(taken) + 1 /\ taken'[Len(taken) + 1] = buf[out]
          /\ \A i \in 1 .. Len(taken) : taken'[i] = taken[i]
        BY <1>a, <2>3
    <2>8. Kept'
        <3>1. accepted[Len(taken) + 1] = buf[out]
            <4>1. accepted[Len(taken) + 1] = buf[At(1 - 1)]
                BY <1>d, <1>f, <2>5 DEF Kept
            <4>2. QED
                BY <4>1, <2>5
        <3>2. \A i \in 1 .. Len(taken) + 1 : accepted[i] = taken'[i]
            BY <1>a, <1>f, <2>7, <3>1 DEF Kept
        <3>3. ASSUME NEW k \in 1 .. Count - 1 PROVE accepted[Len(taken) + 1 + k] = buf[At(k - 1)']
            <4>1. k - 1 \in 0 .. Count - 2 /\ k + 1 \in 1 .. Count /\ k \in Nat
                BY <1>d
            <4>2. At(k - 1)' = At(k)
                BY <2>6, <4>1
            <4>3. accepted[Len(taken) + (k + 1)] = buf[At((k + 1) - 1)]
                BY <1>f, <4>1 DEF Kept
            <4>4. QED
                BY <1>a, <4>1, <4>2, <4>3
        <3>4. Len(accepted) = Len(taken) + Count
            BY <1>f DEF Kept
        <3>5. /\ Len(accepted') = Len(taken') + Count'
              /\ Len(taken') = Len(taken) + 1 /\ Count' = Count - 1
            BY <1>a, <1>d, <2>1, <2>5, <2>7, <3>4
        <3>6. \A i \in 1 .. Len(taken') : accepted'[i] = taken'[i]
            BY <2>1, <3>2, <3>5
        <3>7. \A k \in 1 .. Count' : accepted'[Len(taken') + k] = buf'[At(k - 1)']
            BY <2>1, <3>3, <3>5
        <3>8. QED
            BY <3>5, <3>6, <3>7 DEF Kept
    <2>9. Alone' /\ Writes' /\ Takes'
        BY <2>1, <2>3 DEF Alone, Writes, Takes
    <2>10. QED
        BY <2>8, <2>9
<1>6. CASE Poll \/ TakeCopy
    <2>1. UNCHANGED <<in, out, buf, pc, pubIn, made, accepted, taken>>
        BY <1>6 DEF Poll, TakeCopy
    <2>2. Takes'
        <3>1. CASE Poll
            <4>1. Count > 0 /\ mainPc' = "copy"
                BY <3>1, <1>a, AvailableIsCount DEF Poll
            <4>2. in # out
                BY <4>1, <1>a DEF Count
            <4>3. QED
                BY <4>1, <4>2, <2>1 DEF Takes
        <3>2. CASE TakeCopy
            BY <3>2, <1>f DEF TakeCopy, Takes
        <3>3. QED
            BY <1>6, <3>1, <3>2
    <2>3. QED
        BY <1>f, <2>1, <2>2 DEF Alone, Writes, NextIdx, Kept, Count, At
<1>7. CASE SubFunc \/ BeginDone \/ Dispatch
    <2>1. UNCHANGED <<in, out, buf, pc, pubIn, made, evt, accepted, taken>>
        BY <1>7 DEF SubFunc, BeginDone, Dispatch
    <2>2. mainPc' \notin {"copy", "advance"}
        BY <1>7 DEF SubFunc, BeginDone, Dispatch
    <2>3. QED
        BY <1>f, <2>1, <2>2 DEF Alone, Writes, Takes, NextIdx, Kept, Count, At
<1>8. CASE UNCHANGED vars
    BY <1>8, <1>f DEF vars, Alone, Writes, Takes, NextIdx, Kept, Count, At
<1>9. QED
    BY <1>1, <1>2, <1>3, <1>4, <1>5, <1>6, <1>7, <1>8, CtxLimit DEF Next, Main, EventUpdate, Publish, Ctx

LEMMA Invariance == Spec => []IInv
<1>1. IInv /\ [Next]_vars => IInv'
    BY TypeNext, MainNext, SameNext, RingNext DEF IInv
<1>2. QED
    BY InitIInv, <1>1, PTL DEF Spec

-----------------------------------------------------------------------------
\* The indices stay inside the ring and the subscribers inside their table, however publications
\* preempt each other.
THEOREM TypeCorrect == Spec => []TypeOK
<1>1. IInv => TypeOK
    BY DEF IInv
<1>2. QED
    BY Invariance, <1>1, PTL

\* eventUpdate calls every subscriber with every event it takes, in the same order.
THEOREM SubscribersAgree == Spec => []SameOrderForAll
<1>1. IInv => SameOrderForAll
    BY DEF IInv
<1>2. QED
    BY Invariance, <1>1, PTL

\* Events whose publication succeeded are taken once and in order, as long as no call of
\* eventPubFunc has preempted another: that is all the bus needs of its callers.
THEOREM NoEventLost == Spec => []NothingLost
<1>1. IInv => NothingLost
    <2> SUFFICES ASSUME IInv, ~ overlapped PROVE accepted = taken \o Contents
        BY DEF NothingLost
    <2>1. /\ in \in Slot /\ out \in Slot /\ buf \in [Slot -> Item] /\ taken \in Seq(Item)
          /\ accepted \in Seq(Item)
        BY DEF IInv, TypeOK, Item
    <2>2. Available = Count /\ Count \in Nat /\ Count < QMax
        BY <2>1, AvailableIsCount
    <2>3. \A k \in 1 .. Count : At(k - 1) = (out + k - 1) % QMax /\ At(k - 1) \in Slot
        <3> SUFFICES ASSUME NEW k \in 1 .. Count
                     PROVE  At(k - 1) = (out + k - 1) % QMax /\ At(k - 1) \in Slot
            OBVIOUS
        <3>1. k - 1 \in 0 .. QMax - 1 /\ out + (k - 1) = out + k - 1
            BY <2>1, <2>2, BusAssumption DEF Slot
        <3>2. QED
            BY <2>1, <3>1, AtWraps
    <2>4. Contents = [k \in 1 .. Count |-> buf[At(k - 1)]]
        BY <2>2, <2>3 DEF Contents
    <2>5. Contents \in Seq(Item) /\ Len(Contents) = Count
        BY <2>1, <2>2, <2>3, <2>4
    <2>6. Kept
        BY DEF IInv, RingInv
    <2>7. /\ taken \o Contents \in Seq(Item) /\ Len(taken \o Contents) = Len(accepted)
          /\ \A i \in 1 .. Len(accepted) : (taken \o Contents)[i] =
                IF i <= Len(taken) THEN taken[i] ELSE Contents[i - Len(taken)]
        BY <2>1, <2>5, <2>6, ConcatProperties DEF Kept
    <2>8. ASSUME NEW i \in 1 .. Len(accepted) PROVE accepted[i] = (taken \o Contents)[i]
        <3>1. CASE i <= Len(taken)
            BY <2>1, <2>6, <2>7, <3>1 DEF Kept
        <3>2. CASE ~ (i <= Len(taken))
            <4>1. i - Len(taken) \in 1 .. Count /\ Len(taken) + (i - Len(taken)) = i
                BY <2>1, <2>2, <2>6, <3>2 DEF Kept
            <4>2. accepted[i] = buf[At(i - Len(taken) - 1)]
                BY <2>6, <4>1 DEF Kept
            <4>3. Contents[i - Len(taken)] = buf[At(i - Len(taken) - 1)]
                BY <2>4, <4>1
            <4>4. QED
                BY <2>7, <3>2, <4>2, <4>3
        <3>3. QED
            BY <3>1, <3>2
    <2>9. QED
        BY <2>1, <2>7, <2>8, SeqEqual
<1>2. QED
    BY Invariance, <1>1, PTL

-----------------------------------------------------------------------------
(***************************************************************************)
(* The counters.  They are exact because a caller that is alone loads and  *)
(* stores the same counter with nobody in between.                         *)
(***************************************************************************)
Calls == Made("main") + Made("cli") + Made("isr")

CountInv ==
  ~ overlapped =>
    /\ (\A c \in Ctx : pc[c] = "idle") => pubCnt = Len(accepted) /\ pubCnt + dropCnt = Calls
    /\ \A c \in Ctx :
         /\ pc[c] # "idle" => pubCnt + dropCnt + 1 = Calls
         /\ pc[c] \in {"copy", "publish"} => pubCnt = Len(accepted)
         /\ pc[c] \in {"load", "store"} => Len(accepted) = IF pubOk[c] THEN pubCnt + 1 ELSE pubCnt
         /\ pc[c] = "store" => loaded[c] = IF pubOk[c] THEN pubCnt ELSE dropCnt

\* A call is counted once, whoever makes it.
LEMMA OneCall ==
  ASSUME NEW c \in Ctx, made \in [Ctx -> Nat], made' = [made EXCEPT ![c] = @ + 1]
  PROVE  Calls' = Calls + 1 /\ Calls \in Nat
<1>1. c = "main" \/ c = "cli" \/ c = "isr"
    BY BusAssumption DEF Ctx
<1>2. /\ Made("main") \in Nat /\ Made("cli") \in Nat /\ Made("isr") \in Nat
      /\ Made("main")' = IF c = "main" THEN Made("main") + 1 ELSE Made("main")
      /\ Made("cli")' = IF c = "cli" THEN Made("cli") + 1 ELSE Made("cli")
      /\ Made("isr")' = IF c = "isr" THEN Made("isr") + 1 ELSE Made("isr")
    BY DEF Made
<1>3. QED
    BY <1>1, <1>2 DEF Calls

\* The counters keep up with the calls and with the ring.
LEMMA CountNext == IInv /\ CountInv /\ [Next]_vars => CountInv'
<1> SUFFICES ASSUME IInv, CountInv, [Next]_vars, ~ overlapped' PROVE CountInv'
    BY DEF CountInv
<1> USE DEF ring, counts, callers, mainVars, hist
<1>a. /\ pc \in [Ctx -> {"idle", "copy", "publish", "load", "store"}] /\ pubOk \in [Ctx -> BOOLEAN]
      /\ loaded \in [Ctx -> Nat] /\ made \in [Ctx -> Nat]
      /\ pubCnt \in Nat /\ dropCnt \in Nat /\ accepted \in Seq(Event) /\ Len(accepted) \in Nat
    BY BusAssumption DEF IInv, TypeOK
<1>b. ~ overlapped
    BY DEF Next, Main, EventUpdate, Publish, SubFunc, BeginDone, Poll, TakeCopy, TakeAdvance, Dispatch,
           PubTest, PubCopy, PubStore, LoadCount, StoreCount, vars
<1>c. \A c, d \in Ctx : pc[c] # "idle" /\ pc[d] # "idle" => c = d
    BY <1>b DEF IInv, RingInv, Alone
<1>d. made' = made => Calls' = Calls
    BY DEF Calls, Made
<1>1. ASSUME NEW c \in Ctx, PubTest(c) PROVE CountInv'
    <2>1. /\ \A d \in Ctx : pc[d] = "idle"
          /\ made' = [made EXCEPT ![c] = @ + 1] /\ UNCHANGED <<pubCnt, dropCnt, accepted>>
          /\ \/ pc' = [pc EXCEPT ![c] = "copy"]
             \/ pc' = [pc EXCEPT ![c] = "load"] /\ pubOk' = [pubOk EXCEPT ![c] = FALSE]
        BY <1>1 DEF PubTest
    <2>2. Calls' = Calls + 1 /\ Calls \in Nat
        BY <1>a, <2>1, OneCall
    <2>3. pubCnt = Len(accepted) /\ pubCnt + dropCnt = Calls
        BY <1>b, <2>1 DEF CountInv
    <2>4. QED
        BY <1>a, <2>1, <2>2, <2>3 DEF CountInv
<1>2. ASSUME NEW c \in Ctx, PubCopy(c) PROVE CountInv'
    <2>1. /\ pc[c] = "copy" /\ pc' = [pc EXCEPT ![c] = "publish"]
          /\ UNCHANGED <<pubCnt, dropCnt, accepted, made, pubOk, loaded>>
        BY <1>2 DEF PubCopy
    <2>2. QED
        BY <1>a, <1>b, <1>c, <1>d, <2>1 DEF CountInv
<1>3. ASSUME NEW c \in Ctx, PubStore(c) PROVE CountInv'
    <2>1. /\ pc[c] = "publish" /\ pc' = [pc EXCEPT ![c] = "load"]
          /\ pubOk' = [pubOk EXCEPT ![c] = TRUE]
          /\ UNCHANGED <<pubCnt, dropCnt, made, loaded>>
          /\ Len(accepted') = Len(accepted) + 1
        BY <1>3, <1>a DEF PubStore
    <2>2. QED
        BY <1>a, <1>b, <1>c, <1>d, <2>1 DEF CountInv
<1>4. ASSUME NEW c \in Ctx, LoadCount(c) PROVE CountInv'
    <2>1. /\ pc[c] = "load" /\ pc' = [pc EXCEPT ![c] = "store"]
          /\ loaded' = [loaded EXCEPT ![c] = IF pubOk[c] THEN pubCnt ELSE dropCnt]
          /\ UNCHANGED <<pubCnt, dropCnt, accepted, made, pubOk>>
        BY <1>4 DEF LoadCount
    <2>2. QED
        BY <1>a, <1>b, <1>c, <1>d, <2>1 DEF CountInv
<1>5. ASSUME NEW c \in Ctx, StoreCount(c) PROVE CountInv'
    <2>1. /\ pc[c] = "store" /\ pc' = [pc EXCEPT ![c] = "idle"]
          /\ pubCnt' = IF pubOk[c] THEN loaded[c] + 1 ELSE pubCnt
          /\ dropCnt' = IF pubOk[c] THEN dropCnt ELSE loaded[c] + 1
          /\ UNCHANGED <<accepted, made, pubOk, loaded>>
        BY <1>5 DEF StoreCount
    <2>2. /\ pubCnt + dropCnt + 1 = Calls /\ Len(accepted) = IF pubOk[c] THEN pubCnt + 1 ELSE pubCnt
          /\ loaded[c] = IF pubOk[c] THEN pubCnt ELSE dropCnt
        BY <1>b, <2>1 DEF CountInv
    <2>3. pubCnt' = Len(accepted') /\ pubCnt' + dropCnt' = Calls'
        BY <1>a, <1>d, <2>1, <2>2
    <2>4. \A d \in Ctx : pc'[d] = "idle"
        BY <1>a, <1>c, <2>1
    <2>5. QED
        BY <2>3, <2>4 DEF CountInv
<1>6. CASE SubFunc \/ BeginDone \/ EventUpdate \/ UNCHANGED vars
    <2>1. UNCHANGED <<pc, pubOk, loaded, made, pubCnt, dropCnt, accepted>>
        BY <1>6 DEF SubFunc, BeginDone, EventUpdate, Poll, TakeCopy, TakeAdvance, Dispatch, vars
    <2>2. QED
        BY <1>b, <1>d, <2>1 DEF CountInv
<1>7. QED
    BY <1>1, <1>2, <1>3, <1>4, <1>5, <1>6, CtxLimit DEF Next, Main, Publish, Ctx

\* No event is dropped silently: between calls, as long as none has preempted another, pub_cnt
\* counts the events stored in the ring and the two counters together the calls.
THEOREM CountersAreExact == Spec => []CountersExact
<1>1. Init => CountInv
    <2>1. Init => Calls = 0
        BY DEF Init, Calls, Made
    <2>2. QED
        BY <2>1 DEF Init, CountInv
<1>2. CountInv => CountersExact
    BY DEF CountInv, CountersExact, Calls
<1>3. QED
    BY <1>1, <1>2, CountNext, Invariance, PTL DEF Spec
=============================================================================
