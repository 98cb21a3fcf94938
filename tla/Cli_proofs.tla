----------------------------- MODULE Cli_proofs -----------------------------
(***************************************************************************)
(* For every length of the line and of the ring, and whatever bytes come:  *)
(* behind the line and the lines entered there is a NUL where the editor   *)
(* counts, and the cursor is in the line.                                  *)
(***************************************************************************)
EXTENDS Cli, SequenceTheorems, FiniteSetTheorems, WellFoundedInduction, TLAPS

\* A buffer of n bytes and a NUL.
String(b, n) == b \in [Pos -> Byte] /\ n \in 0 .. BufLen - 1 /\ b[n] = NUL

HistOK ==
  /\ line_buf \in [0 .. HisMax - 1 -> [buf : [Pos -> Byte], count : 0 .. BufLen - 1]]
  /\ \A i \in 0 .. HisMax - 1 : String(line_buf[i].buf, line_buf[i].count)
  /\ hist_i \in 0 .. HisMax - 1 /\ hist_last \in 0 .. HisMax - 1 /\ hist_count \in 0 .. HisMax

IInv == String(buf, count) /\ cursor \in 0 .. count /\ HistOK

-----------------------------------------------------------------------------
\* A remainder is less than its divisor.
LEMMA ModRange == ASSUME NEW a \in Nat, NEW n \in Nat, n > 0
                  PROVE  a % n \in 0 .. n - 1
  OBVIOUS

\* Of the NULs of a buffer one is the first.
LEMMA FirstNul ==
  ASSUME NEW b, NEW n \in Nat, b[n] = NUL
  PROVE  \E k \in 0 .. n : b[k] = NUL /\ \A j \in 0 .. k - 1 : b[j] # NUL
<1> DEFINE R == OpToRel(<, Nat)
           T == {k \in Nat : b[k] = NUL}
<1>1. IsWellFoundedOn(R, Nat) /\ T \subseteq Nat /\ n \in T
  BY NatLessThanWellFounded
<1>2. PICK k \in T : \A j \in T : ~ (<<j, k>> \in R)
  <2> HIDE DEF R, T
  <2> QED BY <1>1, WFMin
<1>3. ASSUME NEW j \in T PROVE ~ (j < k)
  BY <1>2, <1>3 DEF OpToRel
<1>4. k \in 0 .. n
  <2>1. k \in Nat /\ ~ (n < k)
    BY <1>1, <1>3
  <2> QED BY <2>1
<1>5. ASSUME NEW j \in 0 .. k - 1 PROVE b[j] # NUL
  BY <1>3, <1>4, <1>5
<1> QED BY <1>2, <1>4, <1>5

\* The string in a buffer is the command of the bytes before any NUL of it.
LEMMA CStringOf == ASSUME NEW b, NEW n, String(b, n)
                   PROVE  /\ CString(b) = Editor!Command(TextIn(b, n))
                          /\ CString(b) \in Seq(Byte) /\ Len(CString(b)) <= n
<1> DEFINE t == TextIn(b, n)
           IsEnd(k) == b[k] = NUL /\ \A j \in 0 .. k - 1 : b[j] # NUL
           Ends(m)  == (m = Len(t) \/ t[m + 1] = NUL) /\ \A k \in 1 .. m : t[k] # NUL
<1>0. /\ n \in Nat /\ n \in Pos /\ 0 .. n \subseteq Pos /\ b[n] = NUL /\ b \in [Pos -> Byte]
      /\ \A k \in Pos : k \in Nat
  BY CliAssumption DEF String, Pos, BufLen
<1>1. Len(t) = n /\ \A k \in 1 .. n : t[k] = b[k - 1]
  BY <1>0 DEF TextIn
<1> HIDE DEF t
<1>2. PICK e \in 0 .. n : IsEnd(e)
  BY <1>0, FirstNul
<1>3. (CHOOSE k \in Pos : IsEnd(k)) = e
  <2>1. ASSUME NEW k \in Pos, IsEnd(k) PROVE k = e
    BY <1>0, <1>2, <2>1
  <2> QED BY <1>0, <1>2, <2>1
<1>4. (CHOOSE m \in 0 .. Len(t) : Ends(m)) = e
  <2>1. Ends(e)
    <3>1. e = Len(t) \/ t[e + 1] = NUL
      <4>1. CASE e < n
        <5>1. e + 1 \in 1 .. n /\ (e + 1) - 1 = e
          BY <1>0, <4>1
        <5> QED BY <1>1, <1>2, <5>1
      <4> QED BY <1>0, <1>1, <4>1
    <3>2. ASSUME NEW k \in 1 .. e PROVE t[k] # NUL
      <4>1. k \in 1 .. n /\ k - 1 \in 0 .. e - 1
        BY <1>0
      <4> QED BY <1>1, <1>2, <4>1
    <3> QED BY <3>1, <3>2
  <2>2. ASSUME NEW m \in 0 .. Len(t), Ends(m) PROVE m = e
    <3>1. CASE m < e
      <4>1. m + 1 \in 1 .. e /\ m # Len(t)
        BY <1>0, <1>1, <3>1
      <4> QED BY <2>1, <2>2, <4>1
    <3>2. CASE e < m
      <4>1. e + 1 \in 1 .. m /\ e # Len(t)
        BY <1>0, <1>1, <3>2
      <4> QED BY <2>1, <2>2, <4>1
    <3> QED BY <1>0, <1>1, <3>1, <3>2
  <2> QED BY <1>1, <2>1, <2>2
<1>5. CString(b) = [k \in 1 .. e |-> b[k - 1]]
  BY <1>3 DEF CString
<1>6. Editor!Command(t) = [k \in 1 .. e |-> t[k]]
  BY <1>4 DEF Editor!Command
<1>7. \A k \in 1 .. e : t[k] = b[k - 1] /\ b[k - 1] \in Byte
  BY <1>0, <1>1
<1>8. CString(b) \in Seq(Byte) /\ Len(CString(b)) = e
  BY <1>0, <1>5, <1>7
<1> QED BY <1>0, <1>5, <1>6, <1>7, <1>8 DEF t

\* The two shifts of the editor leave a NUL behind the line.
LEMMA ShiftRightChars ==
  ASSUME IInv, NEW c \in Byte, count + 1 < BufLen
  PROVE  String([ShiftRight(cursor) EXCEPT ![cursor] = c, ![count + 1] = NUL], count + 1)
<1> DEFINE s == ShiftRight(cursor)
           b == [s EXCEPT ![cursor] = c, ![count + 1] = NUL]
<1>1. count \in Nat /\ cursor \in 0 .. count /\ count + 1 \in 0 .. BufLen - 1 /\ BufLen = BufMax - 1
      /\ BufMax \in Nat /\ buf \in [Pos -> Byte]
  BY CliAssumption DEF IInv, String, BufLen
<1>2. s \in [Pos -> Byte]
      /\ \A q \in Pos : s[q] = IF q \in cursor + 1 .. count THEN buf[q - 1] ELSE buf[q]
  BY <1>1 DEF ShiftRight, Pos
<1>3. b \in [Pos -> Byte]
  <2>1. NUL \in Byte
    BY DEF Byte
  <2> QED BY <1>2, <2>1
<1>4. \A q \in Pos : b[q] = IF q = count + 1 THEN NUL ELSE IF q = cursor THEN c ELSE s[q]
  BY <1>1, <1>2 DEF Pos
<1>5. b[count + 1] = NUL
  <2>1. count + 1 \in Pos
    BY <1>1 DEF Pos
  <2> HIDE DEF b
  <2> QED BY <1>4, <2>1
<1> HIDE DEF b
<1>8. String(b, count + 1)
  BY <1>1, <1>3, <1>5 DEF String
<1> QED BY <1>8 DEF b

LEMMA ShiftLeftChars ==
  ASSUME IInv, NEW p \in 1 .. count
  PROVE  String([ShiftLeft(p) EXCEPT ![count - 1] = NUL], count - 1)
  BY CliAssumption DEF IInv, String, ShiftLeft, Pos, BufLen

LEMMA InitIInv == Init => IInv
<1>1. NUL \in Byte
  BY DEF Byte
<1> QED BY <1>1, CliAssumption DEF Init, IInv, HistOK, String, Pos, BufLen

\* What leaves the ring alone keeps it.
LEMMA SameHist == ASSUME HistOK, UNCHANGED hist PROVE HistOK'
  BY DEF HistOK, hist, String, Pos, BufLen

\* cliLineAdd puts the line into the ring.
LEMMA LineAddHist == ASSUME IInv, LineAdd PROVE HistOK'
<1> USE CliAssumption
<1>1. hist_last' \in 0 .. HisMax - 1
  BY ModRange DEF IInv, HistOK, LineAdd
<1>2. hist_i' \in 0 .. HisMax - 1 /\ hist_count' \in 0 .. HisMax
  BY DEF IInv, HistOK, LineAdd
<1>3. [buf |-> buf, count |-> count] \in [buf : [Pos -> Byte], count : 0 .. BufLen - 1]
  BY DEF IInv, String
<1>4. line_buf' \in [0 .. HisMax - 1 -> [buf : [Pos -> Byte], count : 0 .. BufLen - 1]]
  BY <1>3 DEF IInv, HistOK, LineAdd
<1>5. ASSUME NEW i \in 0 .. HisMax - 1 PROVE String(line_buf'[i].buf, line_buf'[i].count)
  <2>1. CASE i = hist_last
    BY <2>1 DEF IInv, HistOK, LineAdd
  <2>2. CASE i # hist_last
    BY <2>2 DEF IInv, HistOK, LineAdd
  <2> QED BY <2>1, <2>2
<1> QED BY <1>1, <1>2, <1>4, <1>5 DEF HistOK, String, Pos, BufLen

\* cliLineChange stays in the ring.
LEMMA ChangeInRing ==
  ASSUME IInv, hist_count # 0, NEW up \in BOOLEAN
  PROVE  ChangeIndex(up) \in 0 .. HisMax - 1
<1> DEFINE from == IF hist_new THEN hist_last ELSE hist_i
<1>1. from + hist_count - 1 \in Nat /\ hist_i + 1 \in Nat /\ hist_count \in Nat /\ hist_count > 0
  BY DEF IInv, HistOK
<1>2. ChangeIndex(up) \in 0 .. hist_count - 1
  BY <1>1, ModRange DEF ChangeIndex
<1> QED BY <1>2, CliAssumption DEF IInv, HistOK

-----------------------------------------------------------------------------
LEMMA NextIInv == IInv /\ [Next]_vars => IInv'
<1> USE CliAssumption
<1> SUFFICES ASSUME IInv, [Next]_vars PROVE IInv'
  OBVIOUS
<1>1. ASSUME NEW c \in Byte, Put(c) PROVE IInv'
  <2>1. HistOK'
    BY <1>1, SameHist DEF Put, IInv
  <2>2. CASE count + 1 < BufLen
    <3>1. /\ buf' = [ShiftRight(cursor) EXCEPT ![cursor] = c, ![count + 1] = NUL]
          /\ count' = count + 1 /\ cursor' = cursor + 1
      BY <1>1, <2>2 DEF Put
    <3>2. String(buf', count')
      BY <2>2, <3>1, ShiftRightChars
    <3>3. cursor' \in 0 .. count'
      BY <3>1 DEF IInv, String
    <3> QED BY <2>1, <3>2, <3>3 DEF IInv, String, Pos, BufLen
  <2>3. CASE ~(count + 1 < BufLen)
    BY <1>1, <2>1, <2>3 DEF Put, line, IInv, String, Pos, BufLen
  <2> QED BY <2>2, <2>3
<1>2. CASE Back
  <2>1. HistOK'
    BY <1>2, SameHist DEF Back, IInv
  <2>2. CASE cursor > 0 /\ cursor < count
    <3>1. buf' = [ShiftLeft(cursor) EXCEPT ![count - 1] = NUL]
      BY <1>2, <2>2 DEF Back
    <3>2. cursor \in 1 .. count
      BY <2>2 DEF IInv, String
    <3>3. String(buf', count - 1)
      BY <3>1, <3>2, ShiftLeftChars
    <3> QED BY <1>2, <2>1, <2>2, <3>3 DEF Back, IInv, String, Pos, BufLen
  <2>3. CASE cursor > 0 /\ ~(cursor < count)
    BY <1>2, <2>1, <2>3 DEF Back, IInv, String, Pos, BufLen
  <2>4. CASE ~(cursor > 0)
    BY <1>2, <2>1, <2>4 DEF Back, line, IInv, String, Pos, BufLen
  <2> QED BY <2>2, <2>3, <2>4
<1>3. CASE Del
  <2>1. HistOK'
    BY <1>3, SameHist DEF Del, IInv
  <2>2. CASE cursor < count
    <3>1. buf' = [ShiftLeft(cursor + 1) EXCEPT ![count - 1] = NUL]
      BY <1>3, <2>2 DEF Del
    <3>2. cursor + 1 \in 1 .. count
      BY <2>2 DEF IInv, String
    <3>3. String(buf', count - 1)
      BY <3>1, <3>2, ShiftLeftChars
    <3> QED BY <1>3, <2>1, <2>2, <3>3 DEF Del, IInv, String, Pos, BufLen
  <2>3. CASE ~(cursor < count)
    BY <1>3, <2>1, <2>3 DEF Del, IInv, String, Pos, BufLen
  <2> QED BY <2>2, <2>3
<1>4. CASE Enter
  <2>1. HistOK'
    <3>1. CASE count > 0
      BY <1>4, <3>1, LineAddHist DEF Enter
    <3>2. CASE ~(count > 0)
      BY <1>4, <3>2, SameHist DEF Enter, IInv
    <3> QED BY <3>1, <3>2
  <2>2. String(buf', 0)
    BY <1>4 DEF Enter, IInv, String, Pos, BufLen
  <2> QED BY <1>4, <2>1, <2>2 DEF Enter, IInv, String, Pos, BufLen
<1>5. CASE Esc \/ Skip \/ Unknown
  BY <1>5 DEF Esc, Skip, Unknown, line, hist, IInv, HistOK, String, Pos, BufLen
<1>6. CASE Left \/ Right
  <2>1. HistOK' /\ buf' = buf /\ count' = count
    BY <1>6, SameHist DEF Left, Right, IInv
  <2>2. cursor' \in 0 .. count
    BY <1>6 DEF Left, Right, IInv, String
  <2> QED BY <2>1, <2>2 DEF IInv, String, Pos, BufLen
<1>7. CASE Home \/ End
  <2>1. HistOK' /\ buf' = buf /\ count' = count
    BY <1>7, SameHist DEF Home, End, IInv
  <2>2. cursor' \in 0 .. count
    BY <1>7 DEF Home, End, IInv, String
  <2> QED BY <2>1, <2>2 DEF IInv, String, Pos, BufLen
<1>8. ASSUME NEW up \in BOOLEAN, LineChange(up) PROVE IInv'
  <2>1. CASE hist_count = 0
    BY <1>8, <2>1 DEF LineChange, line, hist, IInv, HistOK, String, Pos, BufLen
  <2>2. CASE hist_count # 0
    <3>1. hist_i' \in 0 .. HisMax - 1
      BY <1>8, <2>2, ChangeInRing DEF LineChange
    <3>2. String(line_buf[hist_i'].buf, line_buf[hist_i'].count)
      BY <3>1 DEF IInv, HistOK
    <3>3. buf' = line_buf[hist_i'].buf /\ count' = line_buf[hist_i'].count /\ cursor' = count'
          /\ line_buf' = line_buf /\ hist_last' = hist_last /\ hist_count' = hist_count
      BY <1>8, <2>2 DEF LineChange
    <3> QED BY <3>1, <3>2, <3>3 DEF IInv, HistOK, String, Pos, BufLen
  <2> QED BY <2>1, <2>2
<1>9. CASE UNCHANGED vars
  BY <1>9 DEF vars, line, hist, IInv, HistOK, String, Pos, BufLen
<1> QED BY <1>1, <1>2, <1>3, <1>4, <1>5, <1>6, <1>7, <1>8, <1>9 DEF Next, Up, Down

\* What is run is the line that was edited, or its part before a NUL that was typed: the string
\* never goes on behind the count.
THEOREM LineAlwaysString == Spec => []LineIsString
<1>1. IInv => LineIsString
  <2> SUFFICES ASSUME IInv PROVE CString(buf) = Editor!Command(Text)
    BY DEF LineIsString
  <2> QED BY CStringOf DEF IInv, Text
<1> QED BY <1>1, InitIInv, NextIInv, PTL DEF Spec

LEMMA Inductive == Spec => []IInv
  BY InitIInv, NextIInv, PTL DEF Spec

-----------------------------------------------------------------------------
(***************************************************************************)
(* The terminal: what each key sends does to its row what the key does to  *)
(* the line.                                                               *)
(***************************************************************************)
LEMMA TextType ==
  ASSUME NEW b, NEW n, String(b, n)
  PROVE  /\ TextIn(b, n) \in Seq(Byte) /\ Len(TextIn(b, n)) = n /\ n \in Nat
         /\ \A k \in 1 .. n : TextIn(b, n)[k] = b[k - 1]
<1>1. n \in Nat
  BY CliAssumption DEF String, BufLen
<1>2. \A k \in 1 .. n : b[k - 1] \in Byte
  BY <1>1, CliAssumption DEF String, Pos, BufLen
<1> QED BY <1>1, <1>2 DEF TextIn

\* Places of a text put together, of its first p and of its last characters.
LEMMA Joined ==
  ASSUME NEW s \in Seq(Byte), NEW t \in Seq(Byte)
  PROVE  /\ s \o t \in Seq(Byte) /\ Len(s \o t) = Len(s) + Len(t)
         /\ \A i \in 1 .. Len(s) : (s \o t)[i] = s[i]
         /\ \A i \in 1 .. Len(t) : (s \o t)[Len(s) + i] = t[i]
<1>1. Len(s) \in Nat /\ Len(t) \in Nat
  BY LenProperties
<1>2. /\ s \o t \in Seq(Byte) /\ Len(s \o t) = Len(s) + Len(t)
      /\ \A i \in 1 .. Len(s) + Len(t) : (s \o t)[i] = IF i <= Len(s) THEN s[i] ELSE t[i - Len(s)]
  BY ConcatProperties
<1>3. ASSUME NEW i \in 1 .. Len(s) PROVE (s \o t)[i] = s[i]
  BY <1>1, <1>2
<1>4. ASSUME NEW i \in 1 .. Len(t) PROVE (s \o t)[Len(s) + i] = t[i]
  <2>1. Len(s) + i \in 1 .. Len(s) + Len(t) /\ ~ (Len(s) + i <= Len(s)) /\ Len(s) + i - Len(s) = i
    BY <1>1
  <2> QED BY <1>2, <2>1
<1> QED BY <1>2, <1>3, <1>4

LEMMA FirstPart ==
  ASSUME NEW s \in Seq(Byte), NEW p \in 0 .. Len(s)
  PROVE  /\ SubSeq(s, 1, p) \in Seq(Byte) /\ Len(SubSeq(s, 1, p)) = p
         /\ \A i \in 1 .. p : SubSeq(s, 1, p)[i] = s[i]
<1>1. Len(s) \in Nat /\ \A i \in 1 .. Len(s) : s[i] \in Byte
  BY LenProperties, ElementOfSeq
<1>2. 1 \in Int /\ p \in Int /\ \A i \in 1 .. p : s[i] \in Byte
  BY <1>1
<1>3. /\ SubSeq(s, 1, p) \in Seq(Byte) /\ Len(SubSeq(s, 1, p)) = (IF 1 <= p THEN p - 1 + 1 ELSE 0)
      /\ \A i \in 1 .. p - 1 + 1 : SubSeq(s, 1, p)[i] = s[1 + i - 1]
  BY <1>2, SubSeqProperties
<1> QED BY <1>1, <1>2, <1>3

LEMMA LastPart ==
  ASSUME NEW s \in Seq(Byte), NEW p \in 0 .. Len(s)
  PROVE  /\ SubSeq(s, p + 1, Len(s)) \in Seq(Byte) /\ Len(SubSeq(s, p + 1, Len(s))) = Len(s) - p
         /\ \A i \in 1 .. Len(s) - p : SubSeq(s, p + 1, Len(s))[i] = s[p + i]
<1>1. Len(s) \in Nat /\ \A i \in 1 .. Len(s) : s[i] \in Byte
  BY LenProperties, ElementOfSeq
<1> DEFINE z == SubSeq(s, p + 1, Len(s))
<1>2. p + 1 \in Int /\ Len(s) \in Int /\ p \in Int /\ \A i \in p + 1 .. Len(s) : s[i] \in Byte
  BY <1>1
<1>3. /\ z \in Seq(Byte) /\ Len(z) = (IF p + 1 <= Len(s) THEN Len(s) - (p + 1) + 1 ELSE 0)
      /\ \A i \in 1 .. Len(s) - (p + 1) + 1 : z[i] = s[p + 1 + i - 1]
  BY <1>2, SubSeqProperties
<1> HIDE DEF z
<1>4. Len(z) = Len(s) - p
  BY <1>1, <1>2, <1>3
<1>5. ASSUME NEW i \in 1 .. Len(s) - p PROVE z[i] = s[p + i]
  <2>1. i \in 1 .. Len(s) - (p + 1) + 1 /\ p + 1 + i - 1 = p + i
    BY <1>1, <1>2
  <2> QED BY <1>3, <2>1
<1> QED BY <1>3, <1>4, <1>5 DEF z

\* What the operators of the terminal do, place by place.
LEMMA InsertPlaces ==
  ASSUME NEW s \in Seq(Byte), NEW p \in 0 .. Len(s), NEW c \in Byte
  PROVE  /\ InsertChar(s, p, c) \in Seq(Byte) /\ Len(InsertChar(s, p, c)) = Len(s) + 1
         /\ \A i \in 1 .. p : InsertChar(s, p, c)[i] = s[i]
         /\ InsertChar(s, p, c)[p + 1] = c
         /\ \A i \in p + 1 .. Len(s) : InsertChar(s, p, c)[i + 1] = s[i]
<1> DEFINE a == SubSeq(s, 1, p)
           m == <<c>>
           z == SubSeq(s, p + 1, Len(s))
<1>1. Len(s) \in Nat /\ p \in Nat
  BY LenProperties
<1>2. InsertChar(s, p, c) = (a \o m) \o z
  <2>1. (p + 1) - 1 = p
    BY <1>1
  <2>2. InsertChar(s, p, c) = SubSeq(s, 1, (p + 1) - 1) \o <<c>> \o SubSeq(s, p + 1, Len(s))
    BY DEF InsertChar, InsertAt
  <2> QED BY <2>1, <2>2
<1>3. a \in Seq(Byte) /\ Len(a) = p /\ \A i \in 1 .. p : a[i] = s[i]
  BY FirstPart
<1>4. m \in Seq(Byte) /\ Len(m) = 1 /\ m[1] = c
  OBVIOUS
<1>5. z \in Seq(Byte) /\ Len(z) = Len(s) - p /\ \A i \in 1 .. Len(s) - p : z[i] = s[p + i]
  BY LastPart
<1> HIDE DEF a, m, z
<1>6. /\ a \o m \in Seq(Byte) /\ Len(a \o m) = Len(a) + Len(m)
      /\ \A i \in 1 .. Len(a) : (a \o m)[i] = a[i]
      /\ \A i \in 1 .. Len(m) : (a \o m)[Len(a) + i] = m[i]
  BY <1>3, <1>4, Joined
<1>7. Len(a \o m) = p + 1 /\ (a \o m)[p + 1] = c /\ \A i \in 1 .. p : (a \o m)[i] = s[i]
  BY <1>1, <1>3, <1>4, <1>6
<1> DEFINE x == a \o m
<1> HIDE DEF x
<1>8. /\ x \o z \in Seq(Byte) /\ Len(x \o z) = Len(x) + Len(z)
      /\ \A i \in 1 .. Len(x) : (x \o z)[i] = x[i]
      /\ \A i \in 1 .. Len(z) : (x \o z)[Len(x) + i] = z[i]
  BY <1>5, <1>6, Joined DEF x
<1>9. Len(x) = p + 1 /\ x[p + 1] = c /\ \A i \in 1 .. p : x[i] = s[i]
  BY <1>7 DEF x
<1>10. Len(x \o z) = Len(s) + 1 /\ (x \o z)[p + 1] = c
  BY <1>1, <1>5, <1>8, <1>9
<1>11. ASSUME NEW i \in 1 .. p PROVE (x \o z)[i] = s[i]
  BY <1>1, <1>8, <1>9
<1>12. ASSUME NEW i \in p + 1 .. Len(s) PROVE (x \o z)[i + 1] = s[i]
  <2>1. i - p \in 1 .. Len(s) - p /\ p + 1 + (i - p) = i + 1 /\ p + (i - p) = i
    BY <1>1
  <2>2. (x \o z)[p + 1 + (i - p)] = z[i - p] /\ z[i - p] = s[p + (i - p)]
    BY <1>5, <1>8, <1>9, <2>1
  <2> QED BY <2>1, <2>2
<1> QED BY <1>2, <1>8, <1>10, <1>11, <1>12 DEF x

LEMMA DeletePlaces ==
  ASSUME NEW s \in Seq(Byte), NEW p \in Nat, NEW n \in Nat, p + n <= Len(s)
  PROVE  /\ DeleteChars(s, p, n) \in Seq(Byte) /\ Len(DeleteChars(s, p, n)) = Len(s) - n
         /\ \A i \in 1 .. p : DeleteChars(s, p, n)[i] = s[i]
         /\ \A i \in p + 1 .. Len(s) - n : DeleteChars(s, p, n)[i] = s[i + n]
<1> DEFINE a == SubSeq(s, 1, p)
           z == SubSeq(s, p + n + 1, Len(s))
<1>1. Len(s) \in Nat /\ p \in 0 .. Len(s) /\ p + n \in 0 .. Len(s)
  BY LenProperties
<1>2. DeleteChars(s, p, n) = a \o z
  BY DEF DeleteChars
<1>3. a \in Seq(Byte) /\ Len(a) = p /\ \A i \in 1 .. p : a[i] = s[i]
  BY <1>1, FirstPart
<1>4. z \in Seq(Byte) /\ Len(z) = Len(s) - (p + n) /\ \A i \in 1 .. Len(s) - (p + n) : z[i] = s[p + n + i]
  BY <1>1, LastPart
<1> HIDE DEF a, z
<1>5. /\ a \o z \in Seq(Byte) /\ Len(a \o z) = Len(a) + Len(z)
      /\ \A i \in 1 .. Len(a) : (a \o z)[i] = a[i]
      /\ \A i \in 1 .. Len(z) : (a \o z)[Len(a) + i] = z[i]
  BY <1>3, <1>4, Joined
<1>6. Len(a \o z) = Len(s) - n /\ \A i \in 1 .. p : (a \o z)[i] = s[i]
  BY <1>1, <1>3, <1>4, <1>5
<1>7. ASSUME NEW i \in p + 1 .. Len(s) - n PROVE (a \o z)[i] = s[i + n]
  <2>1. i - p \in 1 .. Len(s) - (p + n) /\ p + (i - p) = i /\ p + n + (i - p) = i + n
    BY <1>1
  <2>2. (a \o z)[p + (i - p)] = z[i - p] /\ z[i - p] = s[p + n + (i - p)]
    BY <1>3, <1>4, <1>5, <2>1
  <2> QED BY <2>1, <2>2
<1> QED BY <1>2, <1>5, <1>6, <1>7

LEMMA OverwritePlaces ==
  ASSUME NEW s \in Seq(Byte), NEW p \in 0 .. Len(s) - 1, NEW c \in Byte
  PROVE  /\ Overwrite(s, p, <<c>>) \in Seq(Byte) /\ Len(Overwrite(s, p, <<c>>)) = Len(s)
         /\ \A i \in 1 .. p : Overwrite(s, p, <<c>>)[i] = s[i]
         /\ \A i \in p + 2 .. Len(s) : Overwrite(s, p, <<c>>)[i] = s[i]
<1> DEFINE a == SubSeq(s, 1, p)
           m == <<c>>
           z == SubSeq(s, (p + 1) + 1, Len(s))
<1>1. Len(s) \in Nat /\ p \in Nat /\ p \in 0 .. Len(s) /\ p + 1 \in 0 .. Len(s)
  BY LenProperties
<1>2. Overwrite(s, p, <<c>>) = (a \o m) \o z
  <2>1. p + Len(m) + 1 = (p + 1) + 1
    BY <1>1
  <2>2. Overwrite(s, p, <<c>>) = SubSeq(s, 1, p) \o m \o SubSeq(s, p + Len(m) + 1, Len(s))
    BY DEF Overwrite
  <2> QED BY <2>1, <2>2
<1>3. a \in Seq(Byte) /\ Len(a) = p /\ \A i \in 1 .. p : a[i] = s[i]
  BY <1>1, FirstPart
<1>4. m \in Seq(Byte) /\ Len(m) = 1
  OBVIOUS
<1>5. z \in Seq(Byte) /\ Len(z) = Len(s) - (p + 1) /\ \A i \in 1 .. Len(s) - (p + 1) : z[i] = s[(p + 1) + i]
  BY <1>1, LastPart
<1> HIDE DEF a, m, z
<1>6. /\ a \o m \in Seq(Byte) /\ Len(a \o m) = Len(a) + Len(m)
      /\ \A i \in 1 .. Len(a) : (a \o m)[i] = a[i]
  BY <1>3, <1>4, Joined
<1> DEFINE x == a \o m
<1>7. x \in Seq(Byte) /\ Len(x) = p + 1 /\ \A i \in 1 .. p : x[i] = s[i]
  BY <1>1, <1>3, <1>4, <1>6
<1> HIDE DEF x
<1>8. /\ x \o z \in Seq(Byte) /\ Len(x \o z) = Len(x) + Len(z)
      /\ \A i \in 1 .. Len(x) : (x \o z)[i] = x[i]
      /\ \A i \in 1 .. Len(z) : (x \o z)[Len(x) + i] = z[i]
  BY <1>5, <1>7, Joined
<1>9. Len(x \o z) = Len(s)
  BY <1>1, <1>5, <1>7, <1>8
<1>10. ASSUME NEW i \in 1 .. p PROVE (x \o z)[i] = s[i]
  BY <1>1, <1>7, <1>8
<1>11. ASSUME NEW i \in p + 2 .. Len(s) PROVE (x \o z)[i] = s[i]
  <2>1. i - (p + 1) \in 1 .. Len(s) - (p + 1) /\ (p + 1) + (i - (p + 1)) = i
    BY <1>1
  <2>2. (x \o z)[(p + 1) + (i - (p + 1))] = z[i - (p + 1)] /\ z[i - (p + 1)] = s[(p + 1) + (i - (p + 1))]
    BY <1>5, <1>7, <1>8, <2>1
  <2> QED BY <2>1, <2>2
<1> QED BY <1>2, <1>8, <1>9, <1>10, <1>11 DEF x

\* A character sent at the end of the row.
LEMMA OverwriteEnd ==
  ASSUME NEW s \in Seq(Byte), NEW c \in Byte
  PROVE  Overwrite(s, Len(s), <<c>>) = InsertChar(s, Len(s), c)
<1>1. Len(s) \in Nat /\ (Len(s) + 1) - 1 = Len(s) /\ Len(s) + Len(<<c>>) + 1 = Len(s) + 2
  BY LenProperties
<1>2. SubSeq(s, Len(s) + 2, Len(s)) = <<>> /\ SubSeq(s, Len(s) + 1, Len(s)) = <<>>
  BY <1>1
<1>3. Overwrite(s, Len(s), <<c>>) = SubSeq(s, 1, Len(s)) \o <<c>> \o SubSeq(s, Len(s) + Len(<<c>>) + 1, Len(s))
  BY DEF Overwrite
<1>4. InsertChar(s, Len(s), c) = SubSeq(s, 1, (Len(s) + 1) - 1) \o <<c>> \o SubSeq(s, Len(s) + 1, Len(s))
  BY DEF InsertChar, InsertAt
<1> QED BY <1>1, <1>2, <1>3, <1>4

\* Backspace: what was overwritten before it is deleted does not matter.
LEMMA OverwriteDelete ==
  ASSUME NEW s \in Seq(Byte), NEW p \in 0 .. Len(s) - 1, NEW c \in Byte
  PROVE  DeleteChars(Overwrite(s, p, <<c>>), p, 1) = DeleteChars(s, p, 1)
<1> DEFINE t == Overwrite(s, p, <<c>>)
<1>1. Len(s) \in Nat /\ p \in Nat /\ p + 1 <= Len(s) /\ 1 \in Nat
  BY LenProperties
<1>2. /\ t \in Seq(Byte) /\ Len(t) = Len(s)
      /\ \A i \in 1 .. p : t[i] = s[i]
      /\ \A i \in p + 2 .. Len(s) : t[i] = s[i]
  BY OverwritePlaces
<1> HIDE DEF t
<1> DEFINE d == DeleteChars(t, p, 1)
           e == DeleteChars(s, p, 1)
<1>3. /\ e \in Seq(Byte) /\ Len(e) = Len(s) - 1
      /\ \A i \in 1 .. p : e[i] = s[i]
      /\ \A i \in p + 1 .. Len(s) - 1 : e[i] = s[i + 1]
  BY <1>1, DeletePlaces
<1>4. /\ d \in Seq(Byte) /\ Len(d) = Len(s) - 1
      /\ \A i \in 1 .. p : d[i] = t[i]
      /\ \A i \in p + 1 .. Len(s) - 1 : d[i] = t[i + 1]
  <2>1. p + 1 <= Len(t)
    BY <1>1, <1>2
  <2>2. /\ d \in Seq(Byte) /\ Len(d) = Len(t) - 1
        /\ \A i \in 1 .. p : d[i] = t[i]
        /\ \A i \in p + 1 .. Len(t) - 1 : d[i] = t[i + 1]
    BY <1>1, <1>2, <2>1, DeletePlaces
  <2> QED BY <1>2, <2>2
<1> HIDE DEF d, e
<1>5. ASSUME NEW i \in 1 .. Len(d) PROVE d[i] = e[i]
  <2>1. CASE i <= p
    BY <1>1, <1>2, <1>3, <1>4, <2>1
  <2>2. CASE i > p
    <3>1. i \in p + 1 .. Len(s) - 1 /\ i + 1 \in p + 2 .. Len(s)
      BY <1>1, <1>4, <2>2
    <3> QED BY <1>2, <1>3, <1>4, <3>1
  <2> QED BY <1>1, <2>1, <2>2
<1>6. d = e
  BY <1>3, <1>4, <1>5, SeqEqual
<1> QED BY <1>6 DEF d, e, t

\* UP and DOWN: the row is emptied and written anew.
LEMMA Rewrite ==
  ASSUME NEW s \in Seq(Byte), NEW t \in Seq(Byte)
  PROVE  Overwrite(DeleteChars(s, 0, Len(s)), 0, t) = t
<1>1. Len(s) \in Nat /\ 0 \in Nat /\ 0 + Len(s) <= Len(s) /\ Len(t) \in Nat
  BY LenProperties
<1>2. DeleteChars(s, 0, Len(s)) \in Seq(Byte) /\ Len(DeleteChars(s, 0, Len(s))) = Len(s) - Len(s)
  BY <1>1, DeletePlaces
<1>3. DeleteChars(s, 0, Len(s)) = <<>>
  BY <1>1, <1>2
<1>4. Overwrite(<<>>, 0, t) = SubSeq(<<>>, 1, 0) \o t \o SubSeq(<<>>, 0 + Len(t) + 1, 0)
  BY DEF Overwrite
<1>5. SubSeq(<<>>, 1, 0) = <<>> /\ SubSeq(<<>>, 0 + Len(t) + 1, 0) = <<>>
  BY <1>1
<1>6. <<>> \o t \o <<>> = t
  OBVIOUS
<1> QED BY <1>3, <1>4, <1>5, <1>6

-----------------------------------------------------------------------------
\* What the keys do to the line, as what the terminal does to a row.
LEMMA PutText ==
  ASSUME IInv, NEW c \in Byte, count + 1 < BufLen
  PROVE  TextIn([ShiftRight(cursor) EXCEPT ![cursor] = c, ![count + 1] = NUL], count + 1)
           = InsertChar(Text, cursor, c)
<1> DEFINE s == ShiftRight(cursor)
           b == [s EXCEPT ![cursor] = c, ![count + 1] = NUL]
<1>1. /\ count \in Nat /\ cursor \in 0 .. count /\ count + 1 \in 0 .. BufLen - 1 /\ BufLen = BufMax - 1
      /\ BufMax \in Nat /\ buf \in [Pos -> Byte] /\ String(buf, count)
  BY CliAssumption DEF IInv, String, BufLen
<1>2. s \in [Pos -> Byte]
      /\ \A q \in Pos : s[q] = IF q \in cursor + 1 .. count THEN buf[q - 1] ELSE buf[q]
  BY <1>1 DEF ShiftRight, Pos
<1>3. \A q \in Pos : b[q] = IF q = count + 1 THEN NUL ELSE IF q = cursor THEN c ELSE s[q]
  BY <1>1, <1>2 DEF Pos
<1>4. String(b, count + 1)
  BY ShiftRightChars
<1> HIDE DEF b, s
<1>5. /\ Text \in Seq(Byte) /\ Len(Text) = count /\ \A k \in 1 .. count : Text[k] = buf[k - 1]
  BY <1>1, TextType DEF Text, TextIn
<1> DEFINE t == TextIn(b, count + 1)
           r == InsertChar(Text, cursor, c)
<1>6. /\ t \in Seq(Byte) /\ Len(t) = count + 1 /\ \A k \in 1 .. count + 1 : t[k] = b[k - 1]
  BY <1>4, TextType
<1>7. /\ r \in Seq(Byte) /\ Len(r) = count + 1
      /\ \A i \in 1 .. cursor : r[i] = Text[i]
      /\ r[cursor + 1] = c
      /\ \A i \in cursor + 1 .. count : r[i + 1] = Text[i]
  <2>1. cursor \in 0 .. Len(Text)
    BY <1>1, <1>5
  <2>2. /\ r \in Seq(Byte) /\ Len(r) = Len(Text) + 1
        /\ \A i \in 1 .. cursor : r[i] = Text[i]
        /\ r[cursor + 1] = c
        /\ \A i \in cursor + 1 .. Len(Text) : r[i + 1] = Text[i]
    BY <1>5, <2>1, InsertPlaces
  <2> QED BY <1>5, <2>2
<1> HIDE DEF t, r
<1>8. ASSUME NEW i \in 1 .. Len(t) PROVE t[i] = r[i]
  <2>1. i \in 1 .. count + 1 /\ i - 1 \in Pos /\ i - 1 # count + 1
    BY <1>1, <1>6 DEF Pos
  <2>2. t[i] = IF i - 1 = cursor THEN c ELSE s[i - 1]
    BY <1>3, <1>6, <2>1
  <2>3. CASE i <= cursor
    <3>1. i \in 1 .. cursor /\ i \in 1 .. count /\ i - 1 # cursor /\ i - 1 \notin cursor + 1 .. count
      BY <1>1, <2>1, <2>3
    <3> QED BY <1>2, <1>5, <1>7, <2>1, <2>2, <3>1
  <2>4. CASE i = cursor + 1
    <3>1. i - 1 = cursor
      BY <1>1, <2>4
    <3> QED BY <1>7, <2>2, <2>4, <3>1
  <2>5. CASE i > cursor + 1
    <3>1. /\ i - 1 \in cursor + 1 .. count /\ i - 1 # cursor /\ (i - 1) + 1 = i /\ i - 1 \in 1 .. count
      BY <1>1, <2>1, <2>5
    <3>2. r[(i - 1) + 1] = Text[i - 1] /\ Text[i - 1] = buf[(i - 1) - 1]
      BY <1>5, <1>7, <3>1
    <3> QED BY <1>2, <2>1, <2>2, <3>1, <3>2
  <2> QED BY <1>1, <2>1, <2>3, <2>4, <2>5
<1>9. t = r
  BY <1>6, <1>7, <1>8, SeqEqual
<1> QED BY <1>9 DEF t, r, b, s

LEMMA EraseText ==
  ASSUME IInv, NEW p \in 1 .. count
  PROVE  TextIn([ShiftLeft(p) EXCEPT ![count - 1] = NUL], count - 1) = DeleteChars(Text, p - 1, 1)
<1> DEFINE s == ShiftLeft(p)
           b == [s EXCEPT ![count - 1] = NUL]
<1>1. /\ count \in Nat /\ count >= 1 /\ p \in Nat /\ p - 1 \in Nat /\ BufLen = BufMax - 1 /\ count <= BufMax - 2
      /\ BufMax \in Nat /\ buf \in [Pos -> Byte] /\ String(buf, count)
  BY CliAssumption DEF IInv, String, BufLen
<1>2. s \in [Pos -> Byte]
      /\ \A q \in Pos : s[q] = IF q \in p - 1 .. count - 2 THEN buf[q + 1] ELSE buf[q]
  BY <1>1 DEF ShiftLeft, Pos
<1>3. \A q \in Pos : b[q] = IF q = count - 1 THEN NUL ELSE s[q]
  BY <1>1, <1>2 DEF Pos
<1>4. String(b, count - 1)
  BY ShiftLeftChars
<1> HIDE DEF b, s
<1>5. /\ Text \in Seq(Byte) /\ Len(Text) = count /\ \A k \in 1 .. count : Text[k] = buf[k - 1]
  BY <1>1, TextType DEF Text, TextIn
<1> DEFINE t == TextIn(b, count - 1)
           r == DeleteChars(Text, p - 1, 1)
<1>6. /\ t \in Seq(Byte) /\ Len(t) = count - 1 /\ \A k \in 1 .. count - 1 : t[k] = b[k - 1]
  BY <1>4, TextType
<1>7. /\ r \in Seq(Byte) /\ Len(r) = count - 1
      /\ \A i \in 1 .. p - 1 : r[i] = Text[i]
      /\ \A i \in p .. count - 1 : r[i] = Text[i + 1]
  <2>1. (p - 1) + 1 <= Len(Text) /\ 1 \in Nat /\ (p - 1) + 1 = p
    BY <1>1, <1>5
  <2>2. /\ r \in Seq(Byte) /\ Len(r) = Len(Text) - 1
        /\ \A i \in 1 .. p - 1 : r[i] = Text[i]
        /\ \A i \in (p - 1) + 1 .. Len(Text) - 1 : r[i] = Text[i + 1]
    BY <1>1, <1>5, <2>1, DeletePlaces
  <2> QED BY <1>5, <2>1, <2>2
<1> HIDE DEF t, r
<1>8. ASSUME NEW i \in 1 .. Len(t) PROVE t[i] = r[i]
  <2>1. i \in 1 .. count - 1 /\ i - 1 \in Pos /\ i - 1 # count - 1
    BY <1>1, <1>6 DEF Pos
  <2>2. t[i] = s[i - 1]
    BY <1>3, <1>6, <2>1
  <2>3. CASE i <= p - 1
    <3>1. i \in 1 .. p - 1 /\ i \in 1 .. count /\ i - 1 \notin p - 1 .. count - 2
      BY <1>1, <2>1, <2>3
    <3> QED BY <1>2, <1>5, <1>7, <2>1, <2>2, <3>1
  <2>4. CASE i > p - 1
    <3>1. i \in p .. count - 1 /\ i - 1 \in p - 1 .. count - 2 /\ i + 1 \in 1 .. count /\ (i + 1) - 1 = (i - 1) + 1
      BY <1>1, <2>1, <2>4
    <3>2. r[i] = Text[i + 1] /\ Text[i + 1] = buf[(i + 1) - 1]
      BY <1>5, <1>7, <3>1
    <3> QED BY <1>2, <2>1, <2>2, <3>1, <3>2
  <2> QED BY <1>1, <2>1, <2>3, <2>4
<1>9. t = r
  BY <1>6, <1>7, <1>8, SeqEqual
<1> QED BY <1>9 DEF t, r, b, s

\* Nothing is shifted at the end of the line.
LEMMA ShiftNothing == ASSUME IInv, count > 0 PROVE ShiftLeft(count) = buf
  BY CliAssumption DEF IInv, String, ShiftLeft, Pos, BufLen

LEMMA TextIs ==
  ASSUME IInv
  PROVE  /\ Text = TextIn(buf, count) /\ Text \in Seq(Byte) /\ Len(Text) = count /\ count \in Nat
         /\ CString(buf) = Editor!Command(Text) /\ CString(buf) \in Seq(Byte) /\ Len(CString(buf)) <= count
         /\ cursor \in 0 .. count /\ count <= BufLen - 1
<1>1. String(buf, count) /\ cursor \in 0 .. count
  BY DEF IInv
<1>2. Text = TextIn(buf, count)
  BY DEF Text
<1>3. /\ CString(buf) = Editor!Command(Text)
      /\ CString(buf) \in Seq(Byte) /\ Len(CString(buf)) <= count
  BY <1>1, <1>2, CStringOf
<1> QED BY <1>1, <1>2, <1>3, TextType DEF String

LEMMA PutEdits ==
  ASSUME IInv, NEW c \in Byte, Put(c), count + 1 < BufLen
  PROVE  Text' = InsertChar(Text, cursor, c) /\ cursor' = cursor + 1 /\ count' = count + 1
<1>1. /\ buf' = [ShiftRight(cursor) EXCEPT ![cursor] = c, ![count + 1] = NUL]
      /\ count' = count + 1 /\ cursor' = cursor + 1
  BY DEF Put
<1>2. Text' = TextIn(buf', count + 1)
  BY <1>1 DEF Text, TextIn
<1> QED BY <1>1, <1>2, PutText

LEMMA BackEdits ==
  ASSUME IInv, Back, cursor > 0
  PROVE  Text' = DeleteChars(Text, cursor - 1, 1) /\ cursor' = cursor - 1 /\ count' = count - 1
<1>1. cursor \in 1 .. count /\ count > 0 /\ count \in Nat /\ cursor \in Nat
  BY TextIs
<1>2. count' = count - 1 /\ cursor' = cursor - 1
  BY DEF Back
<1>3. buf' = [ShiftLeft(cursor) EXCEPT ![count - 1] = NUL]
  <2>1. CASE cursor < count
    BY <2>1 DEF Back
  <2>2. CASE cursor = count
    BY <1>1, <2>2, ShiftNothing DEF Back
  <2> QED BY <1>1, <2>1, <2>2
<1>4. Text' = TextIn(buf', count - 1)
  BY <1>2 DEF Text, TextIn
<1> QED BY <1>1, <1>2, <1>3, <1>4, EraseText

LEMMA DelEdits ==
  ASSUME IInv, Del, cursor < count
  PROVE  Text' = DeleteChars(Text, cursor, 1) /\ cursor' = cursor /\ count' = count - 1
<1>1. cursor + 1 \in 1 .. count /\ (cursor + 1) - 1 = cursor
  BY TextIs
<1>2. count' = count - 1 /\ cursor' = cursor /\ buf' = [ShiftLeft(cursor + 1) EXCEPT ![count - 1] = NUL]
  BY DEF Del
<1>3. Text' = TextIn(buf', count - 1)
  BY <1>2 DEF Text, TextIn
<1>4. TextIn(buf', count - 1) = DeleteChars(Text, (cursor + 1) - 1, 1)
  BY <1>1, <1>2, EraseText
<1> QED BY <1>1, <1>2, <1>3, <1>4

LEMMA RecallEdits ==
  ASSUME IInv, NEW up \in BOOLEAN, LineChange(up), hist_count # 0
  PROVE  /\ Text' = TextIn(line_buf[ChangeIndex(up)].buf, line_buf[ChangeIndex(up)].count)
         /\ Text' = TextIn(buf', count') /\ Text' \in Seq(Byte)
         /\ cursor' = Len(Text') /\ count' = Len(Text')
         /\ hist_i' = ChangeIndex(up)
<1>1. hist_i' = ChangeIndex(up) /\ hist_i' \in 0 .. HisMax - 1
  BY ChangeInRing DEF LineChange
<1>2. buf' = line_buf[hist_i'].buf /\ count' = line_buf[hist_i'].count /\ cursor' = count'
  BY DEF LineChange
<1>3. String(buf', count')
  BY <1>1, <1>2 DEF IInv, HistOK
<1>4. Text' = TextIn(buf', count')
  BY DEF Text, TextIn
<1> QED BY <1>1, <1>2, <1>3, <1>4, TextType

LEMMA EnterEdits ==
  ASSUME IInv, Enter
  PROVE  Text' = <<>> /\ cursor' = 0 /\ count' = 0
  BY DEF Enter, Text, TextIn

LEMMA SameText == ASSUME UNCHANGED <<buf, count>> PROVE Text' = Text
  BY DEF Text

\* The terminal, the string that was run, and the types of what is left.
Shown == /\ misled \in {"no", "row", "session"}
         /\ IF misled # "no" THEN screen = <<>> /\ col = 0 ELSE screen = Text /\ col = cursor
Ran   == ran \in Seq(Byte) /\ argc \in Nat /\ argc <= ArgsMax
Rest  == state \in {"IDLE", "SP2", "SP3", "SP4"} /\ hist_new \in BOOLEAN

LEMMA ShownNext == IInv /\ Shown /\ [Next]_vars => Shown'
<1> SUFFICES ASSUME IInv, Shown, [Next]_vars PROVE Shown'
  OBVIOUS
<1>0. /\ Text \in Seq(Byte) /\ Len(Text) = count /\ count \in Nat /\ cursor \in 0 .. count
      /\ Blank \in Byte
  BY TextIs, CliAssumption DEF Byte
<1>l. ASSUME Lose PROVE Shown'
  BY <1>l DEF Lose, Shown
<1>m. ASSUME misled # "no", UNCHANGED term PROVE Shown'
  BY <1>m DEF Shown, term
<1>s. ASSUME NEW s, NEW p, misled = "no", Show(s, p), s = Text', p = cursor' PROVE Shown'
  BY <1>s DEF Shown, Show
<1>1. ASSUME NEW c \in Byte, Put(c) PROVE Shown'
  <2>1. CASE ~ (count + 1 < BufLen)
    BY <1>1, <2>1, SameText DEF Put, Shown, line, term
  <2>4. CASE count + 1 < BufLen /\ c \notin Char
    <3>1. Lose
      BY <1>1, <2>4 DEF Put
    <3> QED BY <1>l, <3>1
  <2>2. CASE count + 1 < BufLen /\ misled # "no" /\ c \in Char
    <3>1. UNCHANGED term
      BY <1>1, <2>2 DEF Put, Show
    <3> QED BY <1>m, <2>2, <3>1
  <2>3. CASE count + 1 < BufLen /\ misled = "no" /\ c \in Char
    <3>1. screen = Text /\ col = cursor
      BY <2>3 DEF Shown
    <3>2. Text' = InsertChar(Text, cursor, c) /\ cursor' = cursor + 1
      BY <1>1, <2>3, PutEdits
    <3>3. CASE cursor = count
      <4>1. Show(Overwrite(screen, col, <<c>>), col + 1)
        BY <1>1, <2>3, <3>3 DEF Put
      <4>2. Overwrite(Text, cursor, <<c>>) = InsertChar(Text, cursor, c)
        BY <1>0, <3>3, OverwriteEnd
      <4> QED BY <1>s, <2>3, <3>1, <3>2, <4>1, <4>2
    <3>4. CASE cursor # count
      <4>1. Show(InsertChar(screen, col, c), col + 1)
        BY <1>1, <2>3, <3>4 DEF Put
      <4> QED BY <1>s, <2>3, <3>1, <3>2, <4>1
    <3> QED BY <3>3, <3>4
  <2> QED BY <2>1, <2>2, <2>3, <2>4 DEF Shown
<1>2. CASE Back
  <2>1. CASE ~ (cursor > 0)
    BY <1>2, <2>1, SameText DEF Back, Shown, line, term
  <2>2. CASE cursor > 0 /\ misled # "no"
    <3>1. UNCHANGED term
      BY <1>2, <2>2 DEF Back, Show
    <3> QED BY <1>m, <2>2, <3>1
  <2>3. CASE cursor > 0 /\ misled = "no"
    <3>1. screen = Text /\ col = cursor /\ cursor - 1 \in 0 .. Len(Text) - 1
      BY <1>0, <2>3 DEF Shown
    <3>2. Text' = DeleteChars(Text, cursor - 1, 1) /\ cursor' = cursor - 1
      BY <1>2, <2>3, BackEdits
    <3>3. Show(DeleteChars(Overwrite(screen, col - 1, <<Blank>>), col - 1, 1), col - 1)
      BY <1>2, <2>3 DEF Back
    <3>4. DeleteChars(Overwrite(Text, cursor - 1, <<Blank>>), cursor - 1, 1) = DeleteChars(Text, cursor - 1, 1)
      BY <1>0, <3>1, OverwriteDelete
    <3> QED BY <1>s, <2>3, <3>1, <3>2, <3>3, <3>4
  <2> QED BY <2>1, <2>2, <2>3
<1>3. CASE Del
  <2>1. CASE ~ (cursor < count)
    BY <1>3, <2>1, SameText DEF Del, Shown, term
  <2>2. CASE cursor < count /\ misled # "no"
    <3>1. UNCHANGED term
      BY <1>3, <2>2 DEF Del, Show
    <3> QED BY <1>m, <2>2, <3>1
  <2>3. CASE cursor < count /\ misled = "no"
    <3>1. screen = Text /\ col = cursor
      BY <2>3 DEF Shown
    <3>2. Text' = DeleteChars(Text, cursor, 1) /\ cursor' = cursor
      BY <1>3, <2>3, DelEdits
    <3>3. Show(DeleteChars(screen, col, 1), col)
      BY <1>3, <2>3 DEF Del
    <3> QED BY <1>s, <2>3, <3>1, <3>2, <3>3
  <2> QED BY <2>1, <2>2, <2>3
<1>4. CASE Enter
  BY <1>4, EnterEdits DEF Enter, Shown
<1>5. CASE Esc \/ Skip \/ Unknown
  BY <1>5, SameText DEF Esc, Skip, Unknown, Shown, line, term
<1>6. CASE Left \/ Right
  <2>1. Text' = Text
    BY <1>6, SameText DEF Left, Right
  <2> QED BY <1>0, <1>6, <2>1 DEF Left, Right, Shown, Show, term
<1>7. CASE Home \/ End
  <2>1. Text' = Text
    BY <1>7, SameText DEF Home, End
  <2>2. CASE misled # "no"
    BY <1>7, <2>2 DEF Home, End, Shown, Show, Mislead, term
  <2>3. CASE misled = "no" /\ Home
    <3>1. CASE cursor > 0
      <4>1. Show(screen, col - cursor) /\ cursor' = 0 /\ col - cursor = 0
        BY <1>0, <2>3, <3>1 DEF Home, Shown
      <4> QED BY <1>s, <2>1, <2>3, <4>1 DEF Shown
    <3>2. CASE ~ (cursor > 0)
      BY <2>3, <3>2 DEF Home, Mislead, Shown
    <3> QED BY <3>1, <3>2
  <2>4. CASE misled = "no" /\ End
    <3>1. Show(screen, col + (count - cursor)) /\ cursor' = count /\ col + (count - cursor) = count
      BY <1>0, <2>4 DEF End, Shown
    <3> QED BY <1>s, <2>1, <2>4, <3>1 DEF Shown
  <2> QED BY <1>7, <2>2, <2>3, <2>4
<1>8. ASSUME NEW up \in BOOLEAN, LineChange(up) PROVE Shown'
  <2> DEFINE told == TextIn(buf', count')
             row  == Show(Overwrite(DeleteChars(screen, col - cursor, count), col - cursor, told),
                          col - cursor + Len(told))
  <2>1. CASE hist_count = 0
    <3>1. Lose \/ Mislead \/ UNCHANGED term
      BY <1>8, <2>1 DEF LineChange
    <3>2. Text' = Text /\ cursor' = cursor
      BY <1>8, <2>1, SameText DEF LineChange, line
    <3>3. Mislead => Shown'
      BY DEF Mislead, Shown
    <3> QED BY <1>l, <3>1, <3>2, <3>3 DEF Shown, term
  <2>4. CASE hist_count # 0 /\ Lose
    BY <1>l, <2>4
  <2>5. hist_count # 0 => (Lose \/ row)
    <3>1. hist_count # 0 => IF Verbatim(told) THEN row ELSE Lose
      BY <1>8 DEF LineChange
    <3> HIDE DEF row
    <3> QED BY <3>1
  <2>2. CASE hist_count # 0 /\ misled # "no" /\ row
    <3>1. UNCHANGED term
      BY <2>2 DEF Show
    <3> QED BY <1>m, <2>2, <3>1
  <2>3. CASE hist_count # 0 /\ misled = "no" /\ row
    <3>1. screen = Text /\ col = cursor /\ col - cursor = 0 /\ count = Len(Text)
      BY <1>0, <2>3 DEF Shown
    <3>2. Text' = told /\ Text' \in Seq(Byte) /\ cursor' = Len(Text') /\ cursor' \in Nat
      BY <1>8, <2>3, RecallEdits, LenProperties
    <3>4. Show(Overwrite(DeleteChars(Text, 0, Len(Text)), 0, Text'), 0 + Len(Text'))
      BY <2>3, <3>1, <3>2
    <3>5. Overwrite(DeleteChars(Text, 0, Len(Text)), 0, Text') = Text'
      BY <1>0, <3>2, Rewrite
    <3>6. 0 + Len(Text') = cursor'
      BY <3>2
    <3> QED BY <1>s, <2>3, <3>4, <3>5, <3>6
  <2> HIDE DEF row
  <2> QED BY <2>1, <2>2, <2>3, <2>4, <2>5
<1>9. CASE UNCHANGED vars
  BY <1>9, SameText DEF vars, Shown, line, term
<1> QED BY <1>1, <1>2, <1>3, <1>4, <1>5, <1>6, <1>7, <1>8, <1>9 DEF Next, Up, Down

-----------------------------------------------------------------------------
\* Between the beginnings of two arguments there is a blank: of n characters at most (n + 1) \div 2
\* begin one.
LEMMA ArgsBound ==
  ASSUME NEW s \in Seq(Byte)
  PROVE  Args(s) \in Nat /\ 2 * Args(s) <= Len(s) + 1
<1> DEFINE B == {k \in 1 .. Len(s) : s[k] \notin Space /\ (k = 1 \/ s[k - 1] \in Space)}
           half == (Len(s) + 1) \div 2
           f == [k \in B |-> (k + 1) \div 2]
<1>1. Len(s) \in Nat
  BY LenProperties
<1>2. half \in Nat /\ 2 * half <= Len(s) + 1
  BY <1>1
<1>3. IsFiniteSet(1 .. half) /\ Cardinality(1 .. half) = half
  BY <1>2, FS_Interval
<1>4. ASSUME NEW k \in B PROVE (k + 1) \div 2 \in 1 .. half
  BY <1>1
<1>5. ASSUME NEW k \in B, NEW l \in B, k < l PROVE (k + 1) \div 2 # (l + 1) \div 2
  <2>1. k \in Nat /\ l \in Nat /\ l # 1
    BY <1>1, <1>5
  <2>2. l # k + 1
    <3>1. s[k] \notin Space /\ s[l - 1] \in Space
      BY <2>1
    <3>2. (k + 1) - 1 = k
      BY <2>1
    <3> QED BY <3>1, <3>2
  <2>3. l >= k + 2
    BY <1>5, <2>1, <2>2
  <2>4. (l + 1) \div 2 >= (k + 1) \div 2 + 1
    BY <2>1, <2>3
  <2> QED BY <2>1, <2>4
<1>6. f \in Injection(B, 1 .. half)
  <2>1. f \in [B -> 1 .. half]
    BY <1>4
  <2>2. ASSUME NEW k \in B, NEW l \in B, f[k] = f[l] PROVE k = l
    <3>1. k \in Nat /\ l \in Nat /\ (k + 1) \div 2 = (l + 1) \div 2
      BY <1>1, <2>2
    <3> QED BY <1>5, <3>1
  <2> QED BY <2>1, <2>2 DEF Injection, IsInjective
<1>7. IsFiniteSet(B) /\ Cardinality(B) <= half
  BY <1>3, <1>6, FS_Injection
<1>8. Cardinality(B) \in Nat
  BY <1>7, FS_CardinalityType
<1>9. Args(s) = Cardinality(B)
  BY DEF Args
<1> QED BY <1>1, <1>2, <1>7, <1>8, <1>9

LEMMA RanNext == IInv /\ Ran /\ [Next]_vars => Ran'
<1> SUFFICES ASSUME IInv, Ran, [Next]_vars PROVE Ran'
  OBVIOUS
<1>1. ASSUME Enter, count > 0 PROVE Ran'
  <2> DEFINE s == CString(buf)
  <2>1. ran' = s /\ argc' = Args(s) /\ s \in Seq(Byte) /\ Len(s) <= count
    BY <1>1, TextIs DEF Enter, RunCmd
  <2> HIDE DEF s
  <2>2. Args(s) \in Nat /\ 2 * Args(s) <= Len(s) + 1 /\ Len(s) \in Nat /\ count + 1 <= BufMax - 1
    BY <2>1, TextIs, ArgsBound, LenProperties, CliAssumption DEF BufLen
  <2>3. Args(s) <= ArgsMax
    BY <2>1, <2>2, TextIs, CliAssumption
  <2> QED BY <2>1, <2>2, <2>3, TextIs DEF Ran
<1>2. ASSUME Enter, ~ (count > 0) PROVE Ran'
  BY <1>2 DEF Enter, run, Ran
<1>3. CASE ~ Enter
  BY <1>3 DEF Next, Put, Back, Del, Esc, Skip, Left, Right, Home, End, Unknown, Up, Down, LineChange,
              vars, run, Ran
<1> QED BY <1>1, <1>2, <1>3

LEMMA RestNext == Rest /\ [Next]_vars => Rest'
  BY DEF Next, Put, Back, Del, Enter, LineAdd, Esc, Skip, Left, Right, Home, End, Unknown, Up, Down,
         LineChange, vars, line, hist, Rest

LEMMA Invariance == Spec => [](IInv /\ Shown /\ Ran /\ Rest)
<1>1. Init => IInv /\ Shown /\ Ran /\ Rest
  <2> SUFFICES ASSUME Init PROVE IInv /\ Shown /\ Ran /\ Rest
    OBVIOUS
  <2>1. Text = <<>> /\ <<>> \in Seq(Byte)
    BY DEF Init, Text, TextIn
  <2> QED BY <2>1, InitIInv, CliAssumption DEF Init, Shown, Ran, Rest
<1>2. IInv /\ Shown /\ Ran /\ Rest /\ [Next]_vars => (IInv /\ Shown /\ Ran /\ Rest)'
  BY NextIInv, ShownNext, RanNext, RestNext
<1> QED BY <1>1, <1>2, PTL DEF Spec

\* The terminal shows the line and its cursor, whatever bytes have come, unless HOME at the first
\* column, UP or DOWN before any line was entered (until the next prompt), a byte that is no
\* character or a recalled "%" (for good) has misled it: the echoes undo and repeat what the key
\* did to the buffer.
THEOREM ScreenIsLine == Spec => []ScreenShowsLine
<1>1. Shown => ScreenShowsLine
  BY DEF Shown, ScreenShowsLine
<1> QED BY <1>1, Invariance, PTL

\* A line never has more arguments than argv has places, because it is shorter than twice as many.
THEOREM ArgvSuffices == Spec => []ArgsFit
<1>1. Ran => ArgsFit
  BY DEF Ran, ArgsFit
<1> QED BY <1>1, Invariance, PTL

\* Line, ring and terminal keep their types: no index leaves the buffer or the ring.
THEOREM TypeCorrect == Spec => []TypeOK
<1>1. ASSUME IInv, Shown, Ran, Rest PROVE TypeOK
  <2>1. screen \in Seq(Byte) /\ col \in Nat /\ misled \in {"no", "row", "session"}
    <3>1. <<>> \in Seq(Byte) /\ cursor \in Nat /\ Text \in Seq(Byte)
      BY <1>1, TextIs
    <3>2. (screen = <<>> /\ col = 0) \/ (screen = Text /\ col = cursor)
      BY <1>1 DEF Shown
    <3>3. misled \in {"no", "row", "session"}
      BY <1>1 DEF Shown
    <3>4. CASE screen = <<>> /\ col = 0
      BY <3>1, <3>3, <3>4
    <3>5. CASE screen = Text /\ col = cursor
      BY <3>1, <3>3, <3>5
    <3> QED BY <3>2, <3>4, <3>5
  <2> QED BY <1>1, <2>1 DEF IInv, HistOK, String, Ran, Rest, TypeOK
<1> QED BY <1>1, Invariance, PTL

-----------------------------------------------------------------------------
(***************************************************************************)
(* The ring of lines implements the editor's past.  Until it has wrapped   *)
(* its lines are the first hist_count; then the oldest is at hist_last.    *)
(***************************************************************************)
RingInv ==
  /\ hist_count < HisMax => hist_last = hist_count
  /\ hist_count > 0 => hist_i < hist_count

\* The index of the k-th line, and the place of the line with index i, of a ring with hc lines
\* whose next index is hl.
SlotOf(hl, hc, k) == IF hc < HisMax THEN k - 1
                     ELSE IF hl + k - 1 < HisMax THEN hl + k - 1 ELSE hl + k - 1 - HisMax
PosOf(hl, hc, i)  == IF hc < HisMax THEN i + 1
                     ELSE IF i >= hl THEN i - hl + 1 ELSE i + HisMax - hl + 1

\* A remainder of a sum of two numbers below the divisor, and of three.
LEMMA ModTwo ==
  ASSUME NEW n \in Nat, n > 0, NEW a \in Nat, a < 2 * n
  PROVE  a % n = IF a < n THEN a ELSE a - n
<1>1. CASE a < n
  BY <1>1
<1>2. CASE ~ (a < n)
  BY <1>2
<1> QED BY <1>1, <1>2

LEMMA ModThree ==
  ASSUME NEW n \in Nat, n > 0, NEW a \in Nat, a >= 2 * n, a < 3 * n
  PROVE  a % n = a - 2 * n
  OBVIOUS

LEMMA SlotIs ==
  ASSUME NEW hl \in 0 .. HisMax - 1, NEW hc \in 0 .. HisMax, hc < HisMax => hl = hc, NEW k \in 1 .. hc
  PROVE  /\ (hl + HisMax - hc + k - 1) % HisMax = SlotOf(hl, hc, k)
         /\ SlotOf(hl, hc, k) \in 0 .. HisMax - 1
<1>1. /\ HisMax \in Nat /\ HisMax > 0 /\ hl + HisMax - hc + k - 1 \in Nat
      /\ hl + HisMax - hc + k - 1 < 2 * HisMax
  BY CliAssumption
<1>2. (hl + HisMax - hc + k - 1) % HisMax
        = IF hl + HisMax - hc + k - 1 < HisMax THEN hl + HisMax - hc + k - 1
                                               ELSE hl + HisMax - hc + k - 1 - HisMax
  BY <1>1, ModTwo
<1> QED BY <1>1, <1>2 DEF SlotOf

LEMMA PlaceIs ==
  ASSUME NEW hl \in 0 .. HisMax - 1, NEW hc \in 1 .. HisMax, hc < HisMax => hl = hc, NEW i \in 0 .. hc - 1
  PROVE  /\ ((i + hc + HisMax - hl) % HisMax) + 1 = PosOf(hl, hc, i)
         /\ PosOf(hl, hc, i) \in 1 .. hc
         /\ SlotOf(hl, hc, PosOf(hl, hc, i)) = i
<1>1. HisMax \in Nat /\ HisMax > 0 /\ i + hc + HisMax - hl \in Nat /\ i + hc + HisMax - hl < 3 * HisMax
  BY CliAssumption
<1>2. CASE i + hc + HisMax - hl < 2 * HisMax
  <2>1. (i + hc + HisMax - hl) % HisMax
          = IF i + hc + HisMax - hl < HisMax THEN i + hc + HisMax - hl ELSE i + hc + HisMax - hl - HisMax
    BY <1>1, <1>2, ModTwo
  <2> QED BY <1>1, <1>2, <2>1 DEF PosOf, SlotOf
<1>3. CASE i + hc + HisMax - hl >= 2 * HisMax
  <2>1. (i + hc + HisMax - hl) % HisMax = i + hc + HisMax - hl - 2 * HisMax
    BY <1>1, <1>3, ModThree
  <2> QED BY <1>1, <1>3, <2>1 DEF PosOf, SlotOf
<1> QED BY <1>1, <1>2, <1>3

LEMMA RingNext == IInv /\ RingInv /\ [Next]_vars => RingInv'
<1> SUFFICES ASSUME IInv, RingInv, [Next]_vars PROVE RingInv'
  OBVIOUS
<1>0. /\ HisMax \in Nat /\ HisMax > 0 /\ hist_i \in 0 .. HisMax - 1 /\ hist_last \in 0 .. HisMax - 1
      /\ hist_count \in 0 .. HisMax
  BY CliAssumption DEF IInv, HistOK
<1>1. ASSUME LineAdd PROVE RingInv'
  <2>1. hist_last' = IF hist_last + 1 < HisMax THEN hist_last + 1 ELSE hist_last + 1 - HisMax
    BY <1>0, <1>1, ModTwo DEF LineAdd
  <2> QED BY <1>0, <1>1, <2>1 DEF LineAdd, RingInv
<1>2. ASSUME NEW up \in BOOLEAN, LineChange(up), hist_count # 0 PROVE RingInv'
  <2>1. ChangeIndex(up) \in 0 .. hist_count - 1
    <3>1. (IF hist_new THEN hist_last ELSE hist_i) + hist_count - 1 \in Nat /\ hist_i + 1 \in Nat
      BY <1>0, <1>2
    <3> QED BY <1>0, <1>2, <3>1, ModRange DEF ChangeIndex
  <2> QED BY <1>0, <1>2, <2>1 DEF LineChange, RingInv
<1>3. ASSUME UNCHANGED hist PROVE RingInv'
  BY <1>3 DEF hist, RingInv
<1>4. UNCHANGED hist \/ LineAdd \/ \E up \in BOOLEAN : LineChange(up) /\ hist_count # 0
  BY DEF Next, Put, Back, Del, Enter, Esc, Skip, Left, Right, Home, End, Unknown, Up, Down, LineChange,
         vars, hist
<1> QED BY <1>1, <1>2, <1>3, <1>4

\* The past of a ring lb of lines, taken by the two numbers.
LineAt(lb, i) == TextIn(lb[i].buf, lb[i].count)
PastOf(lb, hl, hc) == [k \in 1 .. hc |-> LineAt(lb, (hl + HisMax - hc + k - 1) % HisMax)]

LEMMA PastOfIs ==
  ASSUME NEW lb, NEW hl \in 0 .. HisMax - 1, NEW hc \in 0 .. HisMax, hc < HisMax => hl = hc,
         \A i \in 0 .. HisMax - 1 : String(lb[i].buf, lb[i].count)
  PROVE  /\ PastOf(lb, hl, hc) \in Seq(Seq(Byte)) /\ Len(PastOf(lb, hl, hc)) = hc
         /\ \A k \in 1 .. hc : PastOf(lb, hl, hc)[k] = LineAt(lb, SlotOf(hl, hc, k))
<1>0. hc \in Nat
  BY CliAssumption
<1>1. ASSUME NEW k \in 1 .. hc
      PROVE  /\ (hl + HisMax - hc + k - 1) % HisMax = SlotOf(hl, hc, k)
             /\ SlotOf(hl, hc, k) \in 0 .. HisMax - 1
  BY SlotIs
<1>2. ASSUME NEW i \in 0 .. HisMax - 1 PROVE LineAt(lb, i) \in Seq(Byte)
  <2>1. String(lb[i].buf, lb[i].count)
    OBVIOUS
  <2> QED BY <2>1, TextType DEF LineAt
<1>3. PastOf(lb, hl, hc) = [k \in 1 .. hc |-> LineAt(lb, SlotOf(hl, hc, k))]
  BY <1>1 DEF PastOf
<1> QED BY <1>0, <1>1, <1>2, <1>3

LEMMA PastIs ==
  ASSUME IInv, RingInv
  PROVE  /\ Past \in Seq(Seq(Byte)) /\ Len(Past) = hist_count
         /\ \A k \in 1 .. hist_count : Past[k] = LineAt(line_buf, SlotOf(hist_last, hist_count, k))
<1>1. Past = PastOf(line_buf, hist_last, hist_count)
  BY DEF Past, PastOf, LineAt
<1>2. /\ hist_last \in 0 .. HisMax - 1 /\ hist_count \in 0 .. HisMax
      /\ hist_count < HisMax => hist_last = hist_count
      /\ \A i \in 0 .. HisMax - 1 : String(line_buf[i].buf, line_buf[i].count)
  BY DEF IInv, HistOK, RingInv
<1> QED BY <1>1, <1>2, PastOfIs

LEMMA PlaceOfIs ==
  ASSUME IInv, RingInv, hist_count # 0, NEW i \in 0 .. hist_count - 1
  PROVE  /\ PlaceOf(i) = PosOf(hist_last, hist_count, i) /\ PlaceOf(i) \in 1 .. hist_count
         /\ Past[PlaceOf(i)] = LineAt(line_buf, i)
<1>0. hist_last \in 0 .. HisMax - 1 /\ hist_count \in 1 .. HisMax
  BY CliAssumption DEF IInv, HistOK
<1>1. PlaceOf(i) = ((i + hist_count + HisMax - hist_last) % HisMax) + 1
  BY DEF PlaceOf
<1>2. /\ PlaceOf(i) = PosOf(hist_last, hist_count, i) /\ PlaceOf(i) \in 1 .. hist_count
      /\ SlotOf(hist_last, hist_count, PlaceOf(i)) = i
  BY <1>0, <1>1, PlaceIs DEF RingInv
<1> QED BY <1>2, PastIs

\* cliLineAdd: the line becomes the newest of the past, of a full one in the place of the oldest.
LEMMA Entered ==
  ASSUME IInv, RingInv, LineAdd
  PROVE  /\ Past' = IF Len(Past) = HisMax THEN Append(Tail(Past), Text) ELSE Append(Past, Text)
         /\ PlaceOf(hist_i)' = Len(Past')
<1>0. /\ HisMax \in Nat /\ HisMax > 0 /\ hist_last \in 0 .. HisMax - 1 /\ hist_count \in 0 .. HisMax
      /\ hist_count \in Nat /\ hist_last \in Nat
      /\ hist_count < HisMax => hist_last = hist_count
  BY CliAssumption DEF IInv, HistOK, RingInv
<1>1. /\ hist_last' = IF hist_last + 1 < HisMax THEN hist_last + 1 ELSE hist_last + 1 - HisMax
      /\ hist_count' = IF hist_count < HisMax THEN hist_count + 1 ELSE hist_count
      /\ hist_i' = hist_last
  BY <1>0, ModTwo DEF LineAdd
<1>2. /\ hist_last' \in 0 .. HisMax - 1 /\ hist_count' \in 1 .. HisMax
      /\ hist_count' < HisMax => hist_last' = hist_count'
      /\ hist_last \in 0 .. hist_count' - 1
  BY <1>0, <1>1
<1>3. \A i \in 0 .. HisMax - 1 : String(line_buf'[i].buf, line_buf'[i].count)
  <2>1. HistOK'
    BY LineAddHist
  <2> QED BY <2>1 DEF HistOK, String, Pos, BufLen
<1>4. Past' = PastOf(line_buf', hist_last', hist_count')
  BY DEF Past, PastOf, LineAt, TextIn
<1>5. /\ Past' \in Seq(Seq(Byte)) /\ Len(Past') = hist_count'
      /\ \A k \in 1 .. hist_count' : Past'[k] = LineAt(line_buf', SlotOf(hist_last', hist_count', k))
  BY <1>2, <1>3, <1>4, PastOfIs
<1>6. ASSUME NEW i \in 0 .. HisMax - 1
      PROVE  LineAt(line_buf', i) = IF i = hist_last THEN Text ELSE LineAt(line_buf, i)
  <2>1. line_buf'[i] = IF i = hist_last THEN [buf |-> buf, count |-> count] ELSE line_buf[i]
    BY DEF LineAdd, IInv, HistOK
  <2> QED BY <2>1, TextIs DEF LineAt
<1>7. /\ Past \in Seq(Seq(Byte)) /\ Len(Past) = hist_count /\ Text \in Seq(Byte)
      /\ \A k \in 1 .. hist_count : Past[k] = LineAt(line_buf, SlotOf(hist_last, hist_count, k))
  BY PastIs, TextIs
<1>8. PlaceOf(hist_i)' = Len(Past')
  <2>1. PlaceOf(hist_i)' = ((hist_i' + hist_count' + HisMax - hist_last') % HisMax) + 1
    BY <1>2 DEF PlaceOf
  <2>2. PlaceOf(hist_i)' = PosOf(hist_last', hist_count', hist_last)
    BY <1>1, <1>2, <2>1, PlaceIs
  <2>3. PosOf(hist_last', hist_count', hist_last) = hist_count'
    BY <1>0, <1>1 DEF PosOf
  <2> QED BY <1>5, <2>2, <2>3
<1>9. CASE hist_count < HisMax
  <2>1. Past' = Append(Past, Text)
    <3> DEFINE t == Append(Past, Text)
    <3>1. /\ t \in Seq(Seq(Byte)) /\ Len(t) = hist_count + 1
          /\ \A k \in 1 .. hist_count : t[k] = Past[k]
          /\ t[hist_count + 1] = Text
      BY <1>7, AppendProperties
    <3>2. ASSUME NEW k \in 1 .. hist_count' PROVE Past'[k] = t[k]
      <4>1. SlotOf(hist_last', hist_count', k) = k - 1 /\ k - 1 \in 0 .. HisMax - 1
        BY <1>0, <1>1, <1>9 DEF SlotOf
      <4>2. CASE k = hist_count + 1
        <5>1. k - 1 = hist_last
          BY <1>0, <1>9, <4>2
        <5>2. Past'[k] = Text
          BY <1>5, <1>6, <4>1, <5>1
        <5> QED BY <3>1, <4>2, <5>2
      <4>3. CASE k # hist_count + 1
        <5>1. k \in 1 .. hist_count /\ k - 1 # hist_last /\ SlotOf(hist_last, hist_count, k) = k - 1
          BY <1>0, <1>1, <1>9, <4>3 DEF SlotOf
        <5>2. Past'[k] = LineAt(line_buf, k - 1)
          BY <1>5, <1>6, <4>1, <5>1
        <5> QED BY <1>7, <3>1, <5>1, <5>2
      <4> QED BY <4>2, <4>3
    <3>3. Len(Past') = Len(t)
      BY <1>1, <1>5, <1>9, <3>1
    <3> HIDE DEF t
    <3>4. Past' = t
      BY <1>5, <3>1, <3>2, <3>3, SeqEqual
    <3> QED BY <3>4 DEF t
  <2>2. Len(Past) # HisMax
    BY <1>0, <1>7, <1>9
  <2> QED BY <1>8, <2>1, <2>2
<1>10. CASE hist_count = HisMax
  <2>1. Past' = Append(Tail(Past), Text)
    <3> DEFINE r == Tail(Past)
               t == Append(r, Text)
    <3>1. /\ r \in Seq(Seq(Byte)) /\ Len(r) = HisMax - 1
          /\ \A k \in 1 .. HisMax - 1 : r[k] = Past[k + 1]
      BY <1>0, <1>7, <1>10, HeadTailProperties, EmptySeq
    <3>2. /\ t \in Seq(Seq(Byte)) /\ Len(t) = HisMax
          /\ \A k \in 1 .. HisMax - 1 : t[k] = r[k]
          /\ t[HisMax] = Text
      BY <1>0, <1>7, <3>1, AppendProperties
    <3>3. ASSUME NEW k \in 1 .. hist_count' PROVE Past'[k] = t[k]
      <4>1. k \in 1 .. HisMax /\ hist_count' = HisMax
        BY <1>0, <1>1, <1>10
      <4>2. CASE k = HisMax
        <5>1. SlotOf(hist_last', hist_count', k) = hist_last
          BY <1>0, <1>1, <4>1, <4>2 DEF SlotOf
        <5>2. Past'[k] = Text
          BY <1>0, <1>5, <1>6, <5>1
        <5> QED BY <3>2, <4>2, <5>2
      <4>3. CASE k # HisMax
        <5>1. /\ k + 1 \in 1 .. hist_count /\ k \in 1 .. HisMax - 1
              /\ SlotOf(hist_last', hist_count', k) = SlotOf(hist_last, hist_count, k + 1)
              /\ SlotOf(hist_last, hist_count, k + 1) \in 0 .. HisMax - 1
              /\ SlotOf(hist_last, hist_count, k + 1) # hist_last
          BY <1>0, <1>1, <1>10, <4>1, <4>3 DEF SlotOf
        <5>2. Past'[k] = LineAt(line_buf, SlotOf(hist_last, hist_count, k + 1))
          BY <1>5, <1>6, <5>1
        <5> QED BY <1>7, <3>1, <3>2, <5>1, <5>2
      <4> QED BY <4>2, <4>3
    <3>4. Len(Past') = Len(t)
      BY <1>0, <1>1, <1>5, <1>10, <3>2
    <3> HIDE DEF t
    <3>5. Past' = t
      BY <1>5, <3>2, <3>3, <3>4, SeqEqual
    <3> QED BY <3>5 DEF t
  <2>2. Len(Past) = HisMax
    BY <1>7, <1>10
  <2> QED BY <1>8, <2>1, <2>2
<1> QED BY <1>0, <1>9, <1>10

\* cliLineChange: the line before or behind in the circle of lines.
LEMMA Recalled ==
  ASSUME IInv, RingInv, Rest, NEW up \in BOOLEAN, LineChange(up), hist_count # 0
  PROVE  /\ Past' = Past
         /\ PlaceOf(hist_i)' = IF up
              THEN (IF hist_new \/ PlaceOf(hist_i) = 1 THEN Len(Past) ELSE PlaceOf(hist_i) - 1)
              ELSE (IF PlaceOf(hist_i) = Len(Past) THEN 1 ELSE PlaceOf(hist_i) + 1)
         /\ Text' = Past[PlaceOf(hist_i)']
<1>0. /\ HisMax \in Nat /\ HisMax > 0 /\ hist_last \in 0 .. HisMax - 1 /\ hist_count \in 1 .. HisMax
      /\ hist_i \in 0 .. hist_count - 1
      /\ hist_count < HisMax => hist_last = hist_count
      /\ hist_new \in BOOLEAN /\ hist_count \in Nat
  BY CliAssumption DEF IInv, HistOK, RingInv, Rest
<1>1. /\ hist_i' = ChangeIndex(up) /\ Text' = LineAt(line_buf, hist_i')
      /\ line_buf' = line_buf /\ hist_last' = hist_last /\ hist_count' = hist_count
  BY RecallEdits DEF LineChange, LineAt
<1>2. Past' = Past /\ PlaceOf(hist_i)' = PlaceOf(hist_i')
  BY <1>1 DEF Past, PlaceOf, TextIn
<1>3. Len(Past) = hist_count
  BY PastIs
<1>4. PlaceOf(hist_i) = PosOf(hist_last, hist_count, hist_i)
  BY <1>0, PlaceOfIs
<1> DEFINE n == hist_count
           from == IF hist_new THEN hist_last ELSE hist_i
<1>5. hist_i' = IF up THEN (IF from = 0 THEN n - 1 ELSE from - 1)
                      ELSE (IF hist_i + 1 < n THEN hist_i + 1 ELSE 0)
  <2>1. (from + n - 1) % n = IF from = 0 THEN n - 1 ELSE from - 1
    <3>1. from \in 0 .. n
      BY <1>0
    <3>2. from + n - 1 \in Nat /\ from + n - 1 < 2 * n
      BY <1>0, <3>1
    <3>3. (from + n - 1) % n = IF from + n - 1 < n THEN from + n - 1 ELSE from + n - 1 - n
      BY <1>0, <3>2, ModTwo
    <3> QED BY <1>0, <3>1, <3>3
  <2>2. (hist_i + 1) % n = IF hist_i + 1 < n THEN hist_i + 1 ELSE 0
    <3>1. (hist_i + 1) % n = IF hist_i + 1 < n THEN hist_i + 1 ELSE hist_i + 1 - n
      BY <1>0, ModTwo
    <3> QED BY <1>0, <3>1
  <2> QED BY <1>1, <2>1, <2>2 DEF ChangeIndex
<1>6. hist_i' \in 0 .. n - 1
  BY <1>0, <1>5
<1>7. /\ PlaceOf(hist_i') = PosOf(hist_last, n, hist_i') /\ Past[PlaceOf(hist_i')] = LineAt(line_buf, hist_i')
  BY <1>0, <1>6, PlaceOfIs
<1>8. PosOf(hist_last, n, hist_i') = IF up
        THEN (IF hist_new \/ PosOf(hist_last, n, hist_i) = 1 THEN n ELSE PosOf(hist_last, n, hist_i) - 1)
        ELSE (IF PosOf(hist_last, n, hist_i) = n THEN 1 ELSE PosOf(hist_last, n, hist_i) + 1)
  <2>1. CASE n < HisMax
    BY <1>0, <1>5, <2>1 DEF PosOf
  <2>2. CASE n = HisMax
    BY <1>0, <1>5, <2>2 DEF PosOf
  <2> QED BY <1>0, <2>1, <2>2
<1> QED BY <1>1, <1>2, <1>3, <1>4, <1>7, <1>8

\* What leaves the ring alone leaves the past alone; what leaves the line alone too is no key.
LEMMA SamePast ==
  ASSUME UNCHANGED hist
  PROVE  Past' = Past /\ PlaceOf(hist_i)' = PlaceOf(hist_i) /\ hist_new' = hist_new
  BY DEF hist, Past, PlaceOf, TextIn

LEMMA NoKey ==
  ASSUME UNCHANGED <<line, hist, ran>>
  PROVE  UNCHANGED Editor!vars
<1>1. Text' = Text /\ cursor' = cursor /\ ran' = ran
  BY SameText DEF line
<1> QED BY <1>1, SamePast DEF Editor!vars

LEMMA EditorInit == Init => Editor!Init
<1> SUFFICES ASSUME Init PROVE Editor!Init
  OBVIOUS
<1>1. Text = <<>> /\ Past = <<>> /\ PlaceOf(hist_i) = 0
  BY DEF Init, Text, TextIn, Past, PlaceOf
<1> QED BY <1>1 DEF Init, Editor!Init

\* The keys that edit the line.
LEMMA EditStep ==
  ASSUME IInv, [Next]_vars,
         (\E c \in Byte : Put(c)) \/ Back \/ Del \/ Left \/ Right \/ Home \/ End
  PROVE  [Editor!Next]_(Editor!vars)
<1> USE DEF Editor!Next
<1>0. /\ Text \in Seq(Byte) /\ Len(Text) = count /\ count \in Nat /\ cursor \in 0 .. count
      /\ count <= BufLen - 1 /\ BufLen = BufMax - 1 /\ BufMax \in Nat
  BY TextIs, CliAssumption DEF BufLen
<1>1. ASSUME UNCHANGED <<hist, run>>
      PROVE  Past' = Past /\ PlaceOf(hist_i)' = PlaceOf(hist_i) /\ hist_new' = hist_new /\ ran' = ran
  BY <1>1, SamePast DEF run
<1>2. ASSUME NEW c \in Byte, Put(c) PROVE [Editor!Next]_(Editor!vars)
  <2>1. UNCHANGED <<hist, run>>
    BY <1>2 DEF Put
  <2>2. CASE count + 1 < BufLen
    <3>1. Text' = InsertChar(Text, cursor, c) /\ cursor' = cursor + 1
      BY <1>2, <2>2, PutEdits
    <3>2. Len(Text) < BufLen - 1
      BY <1>0, <2>2
    <3>3. Editor!Insert(c)
      BY <1>1, <2>1, <3>1, <3>2 DEF Editor!Insert, InsertChar, InsertAt, Editor!InsertAt
    <3> QED BY <3>3
  <2>3. CASE ~ (count + 1 < BufLen)
    <3>1. UNCHANGED line
      BY <1>2, <2>3 DEF Put
    <3> QED BY <2>1, <3>1, NoKey DEF run
  <2> QED BY <2>2, <2>3
<1>3. CASE Back
  <2>1. UNCHANGED <<hist, run>>
    BY <1>3 DEF Back
  <2>2. CASE cursor > 0
    <3>1. Text' = DeleteChars(Text, cursor - 1, 1) /\ cursor' = cursor - 1
      BY <1>3, <2>2, BackEdits
    <3>2. DeleteChars(Text, cursor - 1, 1) = Editor!RemoveAt(Text, cursor)
      <4>1. (cursor - 1) + 1 + 1 = cursor + 1
        BY <1>0
      <4> QED BY <4>1 DEF DeleteChars, Editor!RemoveAt
    <3>3. Editor!Rubout
      BY <1>1, <2>1, <2>2, <3>1, <3>2 DEF Editor!Rubout
    <3> QED BY <3>3
  <2>3. CASE ~ (cursor > 0)
    <3>1. UNCHANGED line
      BY <1>3, <2>3 DEF Back
    <3> QED BY <2>1, <3>1, NoKey DEF run
  <2> QED BY <2>2, <2>3
<1>4. CASE Del
  <2>1. UNCHANGED <<hist, run>>
    BY <1>4 DEF Del
  <2>2. CASE cursor < count
    <3>1. Text' = DeleteChars(Text, cursor, 1) /\ cursor' = cursor
      BY <1>4, <2>2, DelEdits
    <3>2. DeleteChars(Text, cursor, 1) = Editor!RemoveAt(Text, cursor + 1)
      <4>1. (cursor + 1) - 1 = cursor
        BY <1>0
      <4> QED BY <4>1 DEF DeleteChars, Editor!RemoveAt
    <3>3. Editor!Delete
      BY <1>0, <1>1, <2>1, <2>2, <3>1, <3>2 DEF Editor!Delete
    <3> QED BY <3>3
  <2>3. CASE ~ (cursor < count)
    <3>1. UNCHANGED line
      BY <1>4, <2>3 DEF Del, line
    <3> QED BY <2>1, <3>1, NoKey DEF run
  <2> QED BY <2>2, <2>3
<1>5. CASE Left \/ Right \/ Home \/ End
  <2>1. UNCHANGED <<hist, run>> /\ Text' = Text
    BY <1>5, SameText DEF Left, Right, Home, End
  <2>2. cursor' \in {cursor - 1, cursor + 1, 0, Len(Text)} \cap 0 .. Len(Text) \/ cursor' = cursor
    BY <1>0, <1>5 DEF Left, Right, Home, End
  <2>3. CASE cursor' = cursor
    BY <1>1, <2>1, <2>3 DEF Editor!vars
  <2>4. CASE cursor' \in {cursor - 1, cursor + 1, 0, Len(Text)} \cap 0 .. Len(Text)
    <3>1. Editor!Move
      BY <1>1, <2>1, <2>4 DEF Editor!Move
    <3> QED BY <3>1
  <2> QED BY <2>2, <2>3, <2>4
<1> QED BY <1>2, <1>3, <1>4, <1>5

\* The keys that use the ring of lines.
LEMMA RingStep ==
  ASSUME IInv, RingInv, Rest, Enter \/ Up \/ Down
  PROVE  [Editor!Next]_(Editor!vars)
<1> USE DEF Editor!Next
<1>0. Text \in Seq(Byte) /\ Len(Text) = count /\ count \in Nat /\ cursor \in 0 .. count
  BY TextIs
<1>1. CASE Enter /\ count > 0
  <2>1. LineAdd /\ ran' = CString(buf) /\ hist_new' = TRUE
    BY <1>1 DEF Enter, RunCmd, LineAdd
  <2>2. Text' = <<>> /\ cursor' = 0 /\ ran' = Editor!Command(Text) /\ Text # <<>>
    BY <1>0, <1>1, <2>1, EnterEdits, TextIs
  <2>3. Editor!Enter
    BY <2>1, <2>2, Entered DEF Editor!Enter
  <2> QED BY <2>3
<1>2. CASE Enter /\ ~ (count > 0)
  <2>1. UNCHANGED <<hist, run>> /\ Text' = Text /\ cursor' = cursor
    <3>1. Text' = <<>> /\ cursor' = 0 /\ count = 0 /\ cursor = 0
      BY <1>0, <1>2, EnterEdits
    <3>2. Text = <<>>
      BY <3>1 DEF Text, TextIn
    <3> QED BY <1>2, <3>1, <3>2 DEF Enter
  <2> QED BY <2>1, SamePast DEF Editor!vars, run
<1>3. ASSUME NEW up \in BOOLEAN, LineChange(up), hist_count = 0
      PROVE  [Editor!Next]_(Editor!vars)
  <2>1. UNCHANGED <<line, hist, run>>
    BY <1>3 DEF LineChange
  <2> QED BY <2>1, NoKey DEF run
<1>4. ASSUME NEW up \in BOOLEAN, LineChange(up), hist_count # 0
      PROVE  [Editor!Next]_(Editor!vars)
  <2>1. cursor' = Len(Text') /\ hist_new' = FALSE /\ ran' = ran
    BY <1>4, RecallEdits DEF LineChange, run
  <2>2. Past # <<>>
    <3>1. Len(Past) = hist_count
      BY PastIs
    <3> QED BY <1>4, <3>1
  <2>3. CASE up
    <3>1. Editor!Older
      BY <1>4, <2>1, <2>2, <2>3, Recalled DEF Editor!Older, Editor!Recall
    <3> QED BY <3>1
  <2>4. CASE ~ up
    <3>1. Editor!Newer
      BY <1>4, <2>1, <2>2, <2>4, Recalled DEF Editor!Newer, Editor!Recall
    <3> QED BY <3>1
  <2> QED BY <2>3, <2>4
<1> QED BY <1>1, <1>2, <1>3, <1>4 DEF Up, Down

LEMMA EditorStep == IInv /\ RingInv /\ Rest /\ [Next]_vars => [Editor!Next]_(Editor!vars)
<1> SUFFICES ASSUME IInv, RingInv, Rest, [Next]_vars PROVE [Editor!Next]_(Editor!vars)
  OBVIOUS
<1>1. CASE (\E c \in Byte : Put(c)) \/ Back \/ Del \/ Left \/ Right \/ Home \/ End
  BY <1>1, EditStep
<1>2. CASE Enter \/ Up \/ Down
  BY <1>2, RingStep
<1>3. CASE Esc \/ Skip \/ Unknown \/ UNCHANGED vars
  <2>1. UNCHANGED <<line, hist, ran>>
    BY <1>3 DEF Esc, Skip, Unknown, vars, run
  <2> QED BY <2>1, NoKey
<1> QED BY <1>1, <1>2, <1>3 DEF Next

\* cliUpdate, byte by byte, implements the line editor: its shifts are insertions and removals, its
\* ring of lines is the past and UP and DOWN go round in it.
THEOREM EditorImplemented == Spec => ImplementsEditor
<1>1. Init => RingInv
  BY CliAssumption DEF Init, RingInv
<1>2. Spec => []RingInv
  BY <1>1, RingNext, Inductive, PTL DEF Spec
<1> QED BY <1>2, EditorInit, EditorStep, Invariance, PTL DEF Spec, Editor!Spec, ImplementsEditor
=============================================================================
