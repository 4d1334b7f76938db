---------------------------- MODULE FrontEndsProofs ----------------------------
(***************************************************************************)
(* What is proved of the two front ends: the row of the screen shows the   *)
(* prompt and the line, the history's cursor recalls the last line, what   *)
(* can halt the kernel, and that wrapping loses no byte.                   *)
(***************************************************************************)
EXTENDS FrontEnds, Facts

(***************************************************************************)
(* The rows of a terminal window                                           *)
(***************************************************************************)
Row == {s \in Seq(Byte) : Len(s) <= COLS}

RowsOf(text) == Max({1, (Len(text) + COLS - 1) \div COLS})

\* The rows of a line end where the line does.
LEMMA RowCount ==
  ASSUME NEW text \in Seq(Byte)
  PROVE  /\ RowsOf(text) \in Nat \ {0}
         /\ Len(text) <= RowsOf(text) * COLS
         /\ \A k \in 1..RowsOf(text) :
              k * COLS \in Nat /\ (k - 1) * COLS \in Nat /\ (k - 1) * COLS <= Len(text)
              /\ k * COLS = (k - 1) * COLS + COLS
<1> DEFINE L == Len(text)
           d == (L + COLS - 1) \div COLS
           n == RowsOf(text)
<1>1. L \in Nat /\ COLS \in Nat \ {0}
  BY LenProperties, TerminalAssumption
<1> HIDE DEF L
<1>2. d \in Nat /\ COLS * d <= L + COLS - 1 /\ L + COLS - 1 < COLS * d + COLS
  BY <1>1
<1> HIDE DEF d
<1>3. n = IF 1 >= d THEN 1 ELSE d
  BY <1>2, MaxOfTwo DEF RowsOf, d, L
<1> HIDE DEF n
<1>4. n \in Nat \ {0} /\ L <= n * COLS /\ (n - 1) * COLS <= L
  <2>1. CASE 1 >= d
    <3>1. n = 1 /\ (d = 0 \/ d = 1)
      BY <1>2, <1>3, <2>1
    <3> QED BY <1>1, <1>2, <3>1
  <2>2. CASE ~ (1 >= d)
    <3>1. n = d /\ (d - 1) * COLS = COLS * d - COLS /\ d * COLS = COLS * d
      BY <1>1, <1>2, <1>3, <2>2
    <3> QED BY <1>1, <1>2, <2>2, <3>1
  <2> QED BY <2>1, <2>2
<1>5. ASSUME NEW k \in 1..n
      PROVE  /\ k * COLS \in Nat /\ (k - 1) * COLS \in Nat /\ (k - 1) * COLS <= L
             /\ k * COLS = (k - 1) * COLS + COLS
  <2>1. (k - 1) * COLS <= (n - 1) * COLS
    BY <1>1, <1>4
  <2> QED BY <1>1, <1>4, <2>1
<1> QED BY <1>4, <1>5 DEF n, L

LEMMA WrappedType ==
  ASSUME NEW text \in Seq(Byte)
  PROVE  /\ Wrapped(text) \in Seq(Row) /\ Wrapped(text) \in Seq(Seq(Byte))
         /\ Len(Wrapped(text)) = RowsOf(text)
<1> DEFINE W == [k \in 1..RowsOf(text) |->
                   SubSeq(text, (k - 1) * COLS + 1, Min({k * COLS, Len(text)}))]
<1>1. Wrapped(text) = W
  BY DEF Wrapped, RowsOf
<1>2. RowsOf(text) \in Nat
  BY RowCount
<1>3. \A k \in 1..RowsOf(text) :
        SubSeq(text, (k - 1) * COLS + 1, Min({k * COLS, Len(text)})) \in Row
  <2> TAKE k \in 1..RowsOf(text)
  <2>1. /\ k * COLS \in Nat /\ (k - 1) * COLS \in Nat /\ (k - 1) * COLS <= Len(text)
        /\ k * COLS = (k - 1) * COLS + COLS
    BY RowCount
  <2> DEFINE a == (k - 1) * COLS
             e == Min({k * COLS, Len(text)})
  <2>2. Len(text) \in Nat /\ COLS \in Nat \ {0}
    BY LenProperties, TerminalAssumption
  <2>3. a \in Nat /\ e = IF k * COLS <= Len(text) THEN k * COLS ELSE Len(text)
    BY <2>1, <2>2, MinOfTwo
  <2>4. a + 1 \in Nat \ {0} /\ e \in Int /\ e <= Len(text) /\ e - (a + 1) + 1 <= COLS
    BY <2>1, <2>2, <2>3
  <2> HIDE DEF a, e
  <2>5. /\ SubSeq(text, a + 1, e) \in Seq(Byte)
        /\ Len(SubSeq(text, a + 1, e)) = IF a + 1 <= e THEN e - (a + 1) + 1 ELSE 0
    BY <2>4, PartOf
  <2>6. Len(SubSeq(text, a + 1, e)) <= COLS
    BY <2>2, <2>3, <2>4, <2>5
  <2> QED BY <2>5, <2>6 DEF Row, a, e
<1>4. W \in [1..RowsOf(text) -> Row]
  BY <1>3
<1> HIDE DEF W
<1>5. W \in Seq(Row) /\ Len(W) = RowsOf(text)
  BY <1>2, <1>4, FunctionIsSeq
<1>6. W \in Seq(Seq(Byte))
  <2>1. Row \subseteq Seq(Byte)
    BY DEF Row
  <2> QED BY <1>5, <2>1, SeqMonotonic
<1> QED BY <1>1, <1>5, <1>6

\* Put together, the rows of a line are the line.
LEMMA WrappedText ==
  ASSUME NEW text \in Seq(Byte)
  PROVE  FlattenSeq(Wrapped(text)) = text
<1> DEFINE n == RowsOf(text)
           upto(k) == Min({k * COLS, Len(text)})
           W == Wrapped(text)
           f == [k \in 1..n |-> SubSeq(text, 1, upto(k))]
<1>1. Len(text) \in Nat /\ COLS \in Nat \ {0}
  BY LenProperties, TerminalAssumption
<1>2. /\ n \in Nat \ {0} /\ Len(text) <= n * COLS
      /\ \A k \in 1..n :
           k * COLS \in Nat /\ (k - 1) * COLS \in Nat /\ (k - 1) * COLS <= Len(text)
           /\ k * COLS = (k - 1) * COLS + COLS
  BY RowCount
<1>3. \A k \in 1..n : W[k] = SubSeq(text, (k - 1) * COLS + 1, upto(k))
  BY DEF Wrapped, RowsOf
<1>4. Len(W) = n /\ W \in Seq(Seq(Byte))
  BY WrappedType
<1>5. \A k \in 1..n : upto(k) = IF k * COLS <= Len(text) THEN k * COLS ELSE Len(text)
  BY <1>1, <1>2, MinOfTwo
<1> HIDE DEF n, upto, W
<1>6. ASSUME NEW k \in 1..n
      PROVE  f[k] = IF k = 1 THEN W[k] ELSE f[k - 1] \o W[k]
  <2>1. CASE k = 1
    <3>1. (k - 1) * COLS + 1 = 1
      BY <1>1, <2>1
    <3> QED BY <1>3, <2>1, <3>1
  <2>2. CASE k # 1
    <3>1. k - 1 \in 1..n
      BY <1>2, <2>2
    <3>2. upto(k - 1) = (k - 1) * COLS
      BY <1>2, <1>5, <3>1
    <3> DEFINE a == (k - 1) * COLS
               e == upto(k)
    <3>3. a \in 0..Len(text) /\ e \in a..Len(text)
      BY <1>1, <1>2, <1>5
    <3> HIDE DEF a, e
    <3>4. 1 \in 1..(Len(text) + 1) /\ a \in (1 - 1)..Len(text)
      BY <1>1, <3>3
    <3>5. SubSeq(text, 1, a) \o SubSeq(text, a + 1, e) = SubSeq(text, 1, e)
      BY <3>3, <3>4, ConcatAdjacentSubSeq
    <3>6. f[k - 1] = SubSeq(text, 1, a) /\ f[k] = SubSeq(text, 1, e) /\ W[k] = SubSeq(text, a + 1, e)
      BY <1>3, <3>1, <3>2 DEF a, e
    <3> QED BY <2>2, <3>5, <3>6, Zenon
  <2> QED BY <2>1, <2>2
<1>7. Joins(W, f)
  <2>1. f = [k \in 1..n |-> f[k]]
    OBVIOUS
  <2> HIDE DEF f
  <2>2. f = [k \in 1..n |-> IF k = 1 THEN W[k] ELSE f[k - 1] \o W[k]]
    BY <1>6, <2>1
  <2> QED BY <1>4, <2>2, Zenon DEF Joins
<1>8. FlattenSeq(W) = f[Len(W)]
  <2>1. Len(W) # 0
    BY <1>2, <1>4
  <2> HIDE DEF f
  <2> QED BY <1>4, <1>7, <2>1, FlattenIs, Zenon
<1>9. f[Len(W)] = SubSeq(text, 1, Len(text))
  <2>1. n \in 1..n /\ upto(n) = Len(text)
    BY <1>1, <1>2, <1>5
  <2> QED BY <1>4, <2>1
<1>10. SubSeq(text, 1, Len(text)) = text
  BY SubSeqFull
<1> QED BY <1>8, <1>9, <1>10, Zenon DEF W

(***************************************************************************)
(* What push_line leaves                                                   *)
(***************************************************************************)
RowsOfAll(texts) == FlattenSeq([i \in DOMAIN texts |-> Wrapped(texts[i])])

LEMMA RowsOfAllFacts ==
  ASSUME NEW texts \in Seq(Seq(Byte))
  PROVE  RowsOfAll(texts) \in Seq(Row) /\ FlattenSeq(RowsOfAll(texts)) = FlattenSeq(texts)
<1> DEFINE n == Len(texts)
           W == [i \in DOMAIN texts |-> Wrapped(texts[i])]
<1>1. n \in Nat /\ DOMAIN texts = 1..n /\ \A i \in 1..n : texts[i] \in Seq(Byte)
  BY LenProperties, ElementOfSeq
<1>2. \A i \in 1..n : /\ Wrapped(texts[i]) \in Seq(Row) /\ Wrapped(texts[i]) \in Seq(Seq(Byte))
                      /\ FlattenSeq(Wrapped(texts[i])) = texts[i]
  BY <1>1, WrappedType, WrappedText
<1>3. \A i \in 1..n : /\ W[i] \in Seq(Row) /\ W[i] \in Seq(Seq(Byte))
                      /\ FlattenSeq(W[i]) = texts[i]
  BY <1>1, <1>2
<1>4. W \in Seq(Seq(Row)) /\ Len(W) = n
  <2>1. W \in [1..n -> Seq(Row)]
    BY <1>1, <1>2
  <2> HIDE DEF W
  <2> QED BY <1>1, <2>1, FunctionIsSeq
<1>5. RowsOfAll(texts) = FlattenSeq(W)
  BY DEF RowsOfAll
<1> HIDE DEF W
<1>6. FlattenSeq(W) \in Seq(Row)
  BY <1>4, FlattenType
<1>7. CASE n = 0
  <2>1. texts = <<>> /\ W = <<>>
    BY <1>4, <1>7, EmptySeq
  <2> QED BY <1>5, <1>6, <2>1, FlattenEmpty
<1>8. CASE n # 0
  <2>1. PICK f \in [1..Len(W) -> Seq(Row)] : Joins(W, f)
    BY <1>4, JoinExists
  <2>2. PICK g \in [1..n -> Seq(Byte)] : Joins(texts, g)
    BY JoinExists
  <2> DEFINE S == {m \in Nat : m \in 1..n => FlattenSeq(f[m]) = g[m]}
  <2>3. 0 \in S
    OBVIOUS
  <2>4. ASSUME NEW m \in Nat, m \in S
        PROVE  m + 1 \in S
    <3>1. SUFFICES ASSUME m + 1 \in 1..n
                   PROVE  FlattenSeq(f[m + 1]) = g[m + 1]
      <4>1. m + 1 \in Nat
        OBVIOUS
      <4> QED BY <4>1, Zenon
    <3>2. CASE m = 0
      <4>1. f[1] = W[1] /\ g[1] = texts[1]
        BY <1>1, <1>4, <1>8, <2>1, <2>2, JoinAt, Zenon
      <4>2. m + 1 = 1 /\ 1 \in 1..n
        BY <1>1, <1>8, <3>2
      <4> QED BY <1>3, <4>1, <4>2, Zenon
    <3>3. CASE m # 0
      <4>1. m < n /\ m \in 1..n
        BY <1>1, <3>1, <3>3
      <4>2. f[m + 1] = f[m] \o W[m + 1]
        BY <1>1, <1>4, <2>1, <3>3, <4>1, JoinAt, Zenon
      <4>3. g[m + 1] = g[m] \o texts[m + 1]
        BY <1>1, <2>2, <3>3, <4>1, JoinAt, Zenon
      <4> DEFINE a == f[m]
                 b == W[m + 1]
      <4>4. a \in Seq(Seq(Byte)) /\ b \in Seq(Seq(Byte))
        <5>1. f[m] \in Seq(Row)
          BY <1>4, <2>1, <4>1
        <5>2. Row \subseteq Seq(Byte)
          BY DEF Row
        <5>3. f[m] \in Seq(Seq(Byte))
          BY <5>1, <5>2, SeqMonotonic
        <5> QED BY <1>3, <3>1, <5>3
      <4>5. FlattenSeq(a) = g[m] /\ FlattenSeq(b) = texts[m + 1]
        BY <1>3, <2>4, <3>1, <4>1, Zenon
      <4> HIDE DEF a, b
      <4>6. FlattenSeq(a \o b) = FlattenSeq(a) \o FlattenSeq(b)
        BY <4>4, FlattenConcat
      <4> QED BY <4>2, <4>3, <4>5, <4>6, Zenon DEF a, b
    <3> QED BY <3>2, <3>3
  <2>5. \A m \in Nat : m \in S
    <3> HIDE DEF S
    <3> QED BY <2>3, <2>4, SetInduction, Zenon
  <2>6. FlattenSeq(f[n]) = g[n]
    <3>1. n \in 1..n
      BY <1>1, <1>8
    <3> QED BY <1>1, <2>5, <3>1, Zenon
  <2>7. FlattenSeq(W) = f[Len(W)]
    BY <1>4, <1>8, <2>1, FlattenIs, Zenon
  <2>8. FlattenSeq(texts) = g[n]
    BY <1>8, <2>2, FlattenIs, Zenon
  <2> QED BY <1>4, <1>5, <1>6, <2>6, <2>7, <2>8, Zenon
<1> QED BY <1>7, <1>8

LEMMA PushedFacts ==
  ASSUME NEW old \in Seq(Row), NEW texts \in Seq(Seq(Byte))
  PROVE  LET new == Pushed(old, texts)
             all == FlattenSeq(old) \o FlattenSeq(texts)
         IN  /\ new \in Seq(Row) /\ Len(new) <= MAX_SCROLLBACK
             /\ IsSuffix(FlattenSeq(new), all)
             /\ Len(new) < MAX_SCROLLBACK => FlattenSeq(new) = all
<1> DEFINE A == old \o RowsOfAll(texts)
           d == Max({0, Len(A) - MAX_SCROLLBACK})
           new == SubSeq(A, d + 1, Len(A))
           gone == SubSeq(A, 1, d)
<1>1. Pushed(old, texts) = new
  BY DEF Pushed, RowsOfAll
<1>2. RowsOfAll(texts) \in Seq(Row) /\ FlattenSeq(RowsOfAll(texts)) = FlattenSeq(texts)
  BY RowsOfAllFacts
<1>3. A \in Seq(Row) /\ Len(A) \in Nat /\ MAX_SCROLLBACK \in Nat
  BY <1>2, ConcatProperties, LenProperties, TerminalAssumption
<1>4. Row \subseteq Seq(Byte)
  BY DEF Row
<1>5. FlattenSeq(A) = FlattenSeq(old) \o FlattenSeq(texts)
  <2>1. old \in Seq(Seq(Byte)) /\ RowsOfAll(texts) \in Seq(Seq(Byte))
    BY <1>2, <1>4, SeqMonotonic
  <2>2. FlattenSeq(A) = FlattenSeq(old) \o FlattenSeq(RowsOfAll(texts))
    BY <2>1, FlattenConcat
  <2> QED BY <1>2, <2>2, Zenon
<1> HIDE DEF A
<1>6. d \in 0..Len(A) /\ d >= Len(A) - MAX_SCROLLBACK /\ (d # 0 => Len(A) - d = MAX_SCROLLBACK)
  <2>1. 0 \in Int /\ Len(A) - MAX_SCROLLBACK \in Int
    BY <1>3
  <2>2. d = IF 0 >= Len(A) - MAX_SCROLLBACK THEN 0 ELSE Len(A) - MAX_SCROLLBACK
    BY <2>1, MaxOfTwo
  <2> HIDE DEF d
  <2> QED BY <1>3, <2>2
<1> HIDE DEF d
<1>7. new \in Seq(Row) /\ Len(new) = Len(A) - d /\ gone \in Seq(Row)
  <2>1. d + 1 \in Nat \ {0} /\ 1 \in Nat \ {0} /\ Len(A) \in Int /\ d \in Int /\ d <= Len(A)
        /\ Len(A) <= Len(A)
    BY <1>3, <1>6
  <2>2. new \in Seq(Row) /\ Len(new) = IF d + 1 <= Len(A) THEN Len(A) - (d + 1) + 1 ELSE 0
    BY <1>3, <2>1, PartOf
  <2>3. gone \in Seq(Row)
    BY <1>3, <2>1, PartOf
  <2>4. Len(new) = Len(A) - d
    BY <1>3, <1>6, <2>2
  <2> QED BY <2>2, <2>3, <2>4
<1>8. A = gone \o new
  BY <1>3, <1>6, CutInTwo
<1>9. d = 0 => new = A
  BY <1>3, SubSeqFull
<1> HIDE DEF new, gone
<1>10. IsSuffix(FlattenSeq(new), FlattenSeq(A))
  <2>1. gone \in Seq(Seq(Byte)) /\ new \in Seq(Seq(Byte))
    BY <1>4, <1>7, SeqMonotonic
  <2>2. FlattenSeq(A) = FlattenSeq(gone) \o FlattenSeq(new)
    BY <1>8, <2>1, FlattenConcat
  <2>3. FlattenSeq(gone) \in Seq(Byte) /\ FlattenSeq(new) \in Seq(Byte)
    BY <2>1, FlattenType
  <2> DEFINE x == FlattenSeq(gone)
             y == FlattenSeq(new)
  <2> HIDE DEF x, y
  <2>4. x \in Seq(Byte) /\ y \in Seq(Byte)
    BY <2>3 DEF x, y
  <2>5. IsSuffix(y, x \o y)
    BY <2>4, SuffixOfConcat
  <2> QED BY <2>2, <2>5, Zenon DEF x, y
<1>11. Len(new) <= MAX_SCROLLBACK /\ (Len(new) < MAX_SCROLLBACK => new = A)
  BY <1>3, <1>6, <1>7, <1>9
<1> QED BY <1>1, <1>5, <1>7, <1>10, <1>11, Zenon

(***************************************************************************)
(* The line that is typed                                                  *)
(***************************************************************************)
LEMMA PopFacts ==
  ASSUME NEW s \in Seq(Byte)
  PROVE  /\ Pop(s) \in Seq(Byte) /\ Len(Pop(s)) <= Len(s)
         /\ Pop(s) = SubSeq(s, 1, Len(Pop(s)))
<1>1. Len(s) \in Nat
  BY LenProperties
<1>2. CASE s = <<>>
  <2>1. Pop(s) = s /\ Len(s) <= Len(s)
    BY <1>1, <1>2 DEF Pop
  <2> QED BY <2>1, SubSeqFull
<1>3. CASE s # <<>>
  <2> DEFINE I == {i \in 1..Len(s) : s[i] \notin Continuation}
             k == IF I # {} THEN Max(I) ELSE 0
  <2>1. Pop(s) = SubSeq(s, 1, k - 1)
    BY <1>3 DEF Pop, SelectLastInSeq
  <2>2. k \in 0..Len(s)
    <3>1. I \in SUBSET (0..Len(s))
      BY <1>1
    <3>2. I # {} => Max(I) \in I
      BY <1>1, <3>1, GreatestOf, Zenon
    <3> QED BY <1>1, <3>1, <3>2
  <2> HIDE DEF k
  <2>3. k - 1 \in Int /\ k - 1 <= Len(s) /\ 1 \in Nat \ {0}
    BY <1>1, <2>2
  <2>4. /\ SubSeq(s, 1, k - 1) \in Seq(Byte)
        /\ Len(SubSeq(s, 1, k - 1)) = IF 1 <= k - 1 THEN k - 1 - 1 + 1 ELSE 0
    BY <2>3, PartOf
  <2>5. CASE k >= 1
    BY <1>1, <2>1, <2>2, <2>4, <2>5
  <2>6. CASE k = 0
    <3>1. Pop(s) = <<>> /\ Len(Pop(s)) = 0 /\ k - 1 < 1 /\ 0 < 1
      BY <2>1, <2>3, <2>4, <2>6, SubSeqEmpty
    <3>2. SubSeq(s, 1, 0) = <<>>
      BY SubSeqEmpty
    <3> QED BY <1>1, <3>1, <3>2, EmptySeq
  <2> QED BY <2>2, <2>5, <2>6
<1> QED BY <1>2, <1>3

LEMMA TrimType ==
  ASSUME NEW s \in Seq(Byte)
  PROVE  trim(s) \in Seq(Byte)
<1> DEFINE P == {i \in DOMAIN s : s[i] # Blank}
<1>1. Len(s) \in Nat /\ DOMAIN s = 1..Len(s)
  BY LenProperties
<1>2. CASE P = {}
  BY <1>2, EmptySeq DEF trim
<1>3. CASE P # {}
  <2>1. P \subseteq Nat /\ P \in SUBSET (0..Len(s)) /\ P \subseteq 1..Len(s)
    BY <1>1
  <2>2. trim(s) = SubSeq(s, Min(P), Max(P))
    BY <1>3 DEF trim
  <2> HIDE DEF P
  <2>3. Min(P) \in P /\ Max(P) \in P
    BY <1>1, <1>3, <2>1, LeastOf, GreatestOf
  <2>4. Min(P) \in 1..Len(s) /\ Max(P) \in 1..Len(s)
    BY <2>1, <2>3, Zenon
  <2>5. Min(P) \in Nat \ {0} /\ Max(P) \in Int /\ Max(P) <= Len(s)
    BY <1>1, <2>4
  <2> QED BY <2>2, <2>5, PartOf
<1> QED BY <1>2, <1>3

(***************************************************************************)
(* The terminal window                                                     *)
(***************************************************************************)
LineInv == halted \in BOOLEAN /\ prompt \in Prompts

TerminalInv ==
  /\ lines \in Seq(Row) /\ Len(lines) <= MAX_SCROLLBACK
  /\ input_buf \in Seq(Byte)

LEMMA TerminalInitially ==
  ASSUME TerminalInit PROVE TerminalInv
<1>1. <<>> \in Seq(Row) /\ <<>> \in Seq(Byte) /\ Banner \in Seq(Seq(Byte))
  BY EmptySeq, TerminalAssumption
<1>2. Pushed(<<>>, Banner) \in Seq(Row) /\ Len(Pushed(<<>>, Banner)) <= MAX_SCROLLBACK
  BY <1>1, PushedFacts
<1> QED BY <1>1, <1>2 DEF TerminalInit, TerminalInv

LEMMA RowsAreLines == \A s \in Seq(Row) : s \in Seq(Seq(Byte))
<1>1. Row \subseteq Seq(Byte)
  BY DEF Row
<1> QED BY <1>1, SeqMonotonic

\* What Enter gives to push_line: the line shown, then the output.
LEMMA Pushes ==
  ASSUME TerminalInv, LineInv, NEW output \in Outputs
  PROVE  LET shown == <<prompt \o input_buf>>
         IN  /\ output \in Seq(Seq(Byte)) /\ prompt \in Seq(Byte)
             /\ prompt \o input_buf \in Seq(Byte)
             /\ shown \in Seq(Seq(Byte)) /\ shown \o output \in Seq(Seq(Byte))
             /\ FlattenSeq(shown) = prompt \o input_buf
             /\ FlattenSeq(shown \o output) = (prompt \o input_buf) \o FlattenSeq(output)
<1> DEFINE x == prompt \o input_buf
           shown == <<x>>
<1>1. output \in Seq(Seq(Byte)) /\ prompt \in Seq(Byte) /\ input_buf \in Seq(Byte)
  BY TerminalAssumption, TextAssumption DEF LineInv, TerminalInv
<1>2. x \in Seq(Byte)
  BY <1>1, ConcatProperties
<1> HIDE DEF x
<1>3. shown \in Seq(Seq(Byte)) /\ FlattenSeq(shown) = x
  BY <1>2, FlattenOne
<1> HIDE DEF shown
<1>4. shown \o output \in Seq(Seq(Byte))
  BY <1>1, <1>3, ConcatProperties
<1>5. FlattenSeq(shown \o output) = FlattenSeq(shown) \o FlattenSeq(output)
  BY <1>1, <1>3, FlattenConcat
<1> QED BY <1>1, <1>2, <1>3, <1>4, <1>5, Zenon DEF x, shown

LEMMA TerminalSteps ==
  ASSUME TerminalInv, LineInv, TerminalNext
  PROVE  TerminalInv' /\ LineInv'
<1>1. CASE \E c \in Chars : KeyChar(c)
  <2>1. PICK c \in Chars : KeyChar(c)
    BY <1>1
  <2>2. input_buf \in Seq(Byte) /\ c \in Seq(Byte)
    BY TextAssumption DEF TerminalInv
  <2>3. input_buf \o c \in Seq(Byte)
    BY <2>2, ConcatProperties
  <2> QED BY <2>1, <2>3 DEF KeyChar, TerminalInv, LineInv
<1>2. CASE KeyBackspace
  <2>1. Pop(input_buf) \in Seq(Byte)
    BY PopFacts DEF TerminalInv
  <2> QED BY <1>2, <2>1 DEF KeyBackspace, TerminalInv, LineInv
<1>3. ASSUME NEW cleared \in BOOLEAN, NEW output \in Outputs, execute_command(cleared, output)
      PROVE  TerminalInv' /\ LineInv'
  <2> DEFINE shown == <<prompt \o input_buf>>
             run == trim(input_buf) # <<>>
             all == IF run THEN shown \o output ELSE shown
  <2>1. output \in Seq(Seq(Byte)) /\ shown \in Seq(Seq(Byte)) /\ shown \o output \in Seq(Seq(Byte))
    BY Pushes
  <2>2. LineInv' /\ input_buf' = <<>>
    BY <1>3 DEF execute_command, LineInv, Panic
  <2>3. lines' = lines \/ lines' = Pushed(<<>>, output) \/ lines' = Pushed(lines, all)
    BY <1>3 DEF execute_command
  <2>4. all \in Seq(Seq(Byte))
    BY <2>1, Zenon
  <2> HIDE DEF all
  <2>5. <<>> \in Seq(Row) /\ <<>> \in Seq(Byte) /\ lines \in Seq(Row)
    BY EmptySeq DEF TerminalInv
  <2>6. /\ Pushed(<<>>, output) \in Seq(Row) /\ Len(Pushed(<<>>, output)) <= MAX_SCROLLBACK
        /\ Pushed(lines, all) \in Seq(Row) /\ Len(Pushed(lines, all)) <= MAX_SCROLLBACK
    BY <2>1, <2>4, <2>5, PushedFacts
  <2> QED BY <2>2, <2>3, <2>5, <2>6 DEF TerminalInv
<1> QED BY <1>1, <1>2, <1>3 DEF TerminalNext, KeyEnter

LEMMA ExecuteKeepsText ==
  ASSUME TerminalInv, LineInv, NEW cleared \in BOOLEAN, NEW output \in Outputs,
         execute_command(cleared, output), ~halted'
  PROVE  LET run   == trim(input_buf) # <<>>
             typed == IF run /\ cleared THEN <<>>
                      ELSE FlattenSeq(lines) \o prompt \o input_buf
             all   == typed \o (IF run THEN FlattenSeq(output) ELSE <<>>)
         IN  /\ IsSuffix(FlattenSeq(lines'), all)
             /\ Len(lines') < MAX_SCROLLBACK => FlattenSeq(lines') = all
<1> DEFINE run == trim(input_buf) # <<>>
           shown == <<prompt \o input_buf>>
           all == IF run THEN shown \o output ELSE shown
           o == FlattenSeq(output)
           l == FlattenSeq(lines)
           Kept(new, text) == /\ IsSuffix(FlattenSeq(new), text)
                              /\ Len(new) < MAX_SCROLLBACK => FlattenSeq(new) = text
<1>1. /\ output \in Seq(Seq(Byte)) /\ shown \in Seq(Seq(Byte)) /\ shown \o output \in Seq(Seq(Byte))
      /\ FlattenSeq(shown) = prompt \o input_buf
      /\ FlattenSeq(shown \o output) = (prompt \o input_buf) \o o
      /\ prompt \in Seq(Byte)
  BY Pushes
<1>2. lines \in Seq(Row) /\ lines \in Seq(Seq(Byte)) /\ <<>> \in Seq(Row) /\ input_buf \in Seq(Byte)
  BY RowsAreLines, EmptySeq DEF TerminalInv
<1>3. o \in Seq(Byte) /\ l \in Seq(Byte)
  BY <1>1, <1>2, FlattenType
<1>4. lines' = IF run /\ cleared THEN Pushed(<<>>, output) ELSE Pushed(lines, all)
  BY DEF execute_command, Panic
<1> HIDE DEF o, l, shown
<1>5. CASE run /\ cleared
  <2>1. Kept(Pushed(<<>>, output), FlattenSeq(<<>>) \o o)
    BY <1>1, <1>2, PushedFacts, Zenon DEF o
  <2>2. Kept(lines', <<>> \o o)
    BY <1>4, <1>5, <2>1, FlattenEmpty, Zenon
  <2> QED BY <1>5, <2>2, Zenon DEF o
<1>6. CASE run /\ ~cleared
  <2>1. Kept(Pushed(lines, shown \o output), l \o ((prompt \o input_buf) \o o))
    BY <1>1, <1>2, PushedFacts, Zenon DEF l
  <2>2. l \o ((prompt \o input_buf) \o o) = ((l \o prompt) \o input_buf) \o o
    <3> DEFINE p == prompt
               i == input_buf
    <3>1. p \in Seq(Byte) /\ i \in Seq(Byte)
      BY <1>1, <1>2
    <3> HIDE DEF p, i
    <3>2. p \o i \in Seq(Byte) /\ l \o p \in Seq(Byte)
      BY <1>3, <3>1, ConcatProperties
    <3> DEFINE q == p \o i
    <3>3. l \o (q \o o) = (l \o q) \o o
      <4>1. q \in Seq(Byte)
        BY <3>2
      <4> HIDE DEF q
      <4> QED BY <1>3, <4>1, ConcatAssociative
    <3>4. l \o (p \o i) = (l \o p) \o i
      BY <1>3, <3>1, ConcatAssociative
    <3> QED BY <3>3, <3>4, Zenon DEF p, i
  <2>3. Kept(lines', ((l \o prompt) \o input_buf) \o o)
    BY <1>4, <1>6, <2>1, <2>2, Zenon
  <2> QED BY <1>6, <2>3, Zenon DEF o, l
<1>7. CASE ~run
  <2>1. Kept(Pushed(lines, shown), l \o (prompt \o input_buf))
    BY <1>1, <1>2, PushedFacts, Zenon DEF l
  <2>2. l \o (prompt \o input_buf) = ((l \o prompt) \o input_buf) \o <<>>
    <3> DEFINE p == prompt
               i == input_buf
    <3>1. p \in Seq(Byte) /\ i \in Seq(Byte)
      BY <1>1, <1>2
    <3> HIDE DEF p, i
    <3>2. l \o p \in Seq(Byte)
      BY <1>3, <3>1, ConcatProperties
    <3>3. (l \o p) \o i \in Seq(Byte)
      BY <3>1, <3>2, ConcatProperties
    <3>4. ((l \o p) \o i) \o <<>> = (l \o p) \o i
      BY <3>3, ConcatEmptySeq
    <3>5. l \o (p \o i) = (l \o p) \o i
      BY <1>3, <3>1, ConcatAssociative
    <3> QED BY <3>4, <3>5, Zenon DEF p, i
  <2>3. Kept(lines', ((l \o prompt) \o input_buf) \o <<>>)
    BY <1>4, <1>7, <2>1, <2>2, Zenon
  <2> QED BY <1>7, <2>3, Zenon DEF l
<1> QED BY <1>5, <1>6, <1>7

LEMMA WideConcat ==
  ASSUME NEW R, NEW a \in Seq(R), NEW b \in Seq(R)
  PROVE  IsWide(a \o b) <=> IsWide(a) \/ IsWide(b)
<1>1. /\ DOMAIN a = 1..Len(a) /\ DOMAIN b = 1..Len(b)
      /\ DOMAIN (a \o b) = 1..(Len(a) + Len(b))
      /\ Len(a) \in Nat /\ Len(b) \in Nat
      /\ \A i \in 1..(Len(a) + Len(b)) :
           (a \o b)[i] = IF i <= Len(a) THEN a[i] ELSE b[i - Len(a)]
  BY ConcatProperties, LenProperties
<1>2. ASSUME NEW i \in 1..(Len(a) + Len(b)), (a \o b)[i] \in Wide
      PROVE  IsWide(a) \/ IsWide(b)
  <2>1. CASE i <= Len(a)
    BY <1>1, <1>2, <2>1 DEF IsWide
  <2>2. CASE ~ (i <= Len(a))
    BY <1>1, <1>2, <2>2 DEF IsWide
  <2> QED BY <2>1, <2>2
<1>3. ASSUME NEW i \in 1..Len(a), a[i] \in Wide
      PROVE  IsWide(a \o b)
  <2>1. i \in 1..(Len(a) + Len(b)) /\ (a \o b)[i] = a[i]
    BY <1>1
  <2> QED BY <1>1, <1>3, <2>1 DEF IsWide
<1>4. ASSUME NEW i \in 1..Len(b), b[i] \in Wide
      PROVE  IsWide(a \o b)
  <2> DEFINE j == i + Len(a)
  <2>1. j \in 1..(Len(a) + Len(b)) /\ ~ (j <= Len(a)) /\ j - Len(a) = i
    BY <1>1
  <2> HIDE DEF j
  <2>2. (a \o b)[j] = b[i]
    BY <1>1, <2>1
  <2> QED BY <1>1, <1>4, <2>1, <2>2 DEF IsWide
<1> QED BY <1>1, <1>2, <1>3, <1>4 DEF IsWide

\* A row ends inside a character only where a byte is wide.
LEMMA CutIsWide ==
  ASSUME NEW text \in Seq(Byte), CutsInside(text)
  PROVE  IsWide(text)
<1>1. PICK k \in 1..Len(text) : k * COLS < Len(text) /\ ~IsBoundary(text, k * COLS)
  BY DEF CutsInside
<1>2. Len(text) \in Nat /\ COLS \in Nat \ {0} /\ DOMAIN text = 1..Len(text)
  BY LenProperties, TerminalAssumption
<1>3. k * COLS \in Nat
  BY <1>2
<1>4. k * COLS + 1 \in 1..Len(text)
  BY <1>1, <1>2, <1>3
<1>5. text[k * COLS + 1] \in Wide
  BY <1>1, ConsoleAssumption DEF IsBoundary
<1> QED BY <1>2, <1>4, <1>5 DEF IsWide

LEMMA WindowPanics ==
  ASSUME TerminalInv, LineInv, TerminalNext, ~halted, halted', buf \in Seq(Byte)
  PROVE  \/ IsWide(prompt \o buf \o input_buf)
         \/ \E o \in Outputs : \E i \in DOMAIN o : IsWide(o[i])
<1>1. PICK cleared \in BOOLEAN, output \in Outputs : execute_command(cleared, output)
  BY DEF TerminalNext, KeyEnter, KeyChar, KeyBackspace
<1> DEFINE x == prompt \o input_buf
           shown == <<x>>
           all == IF trim(input_buf) # <<>> THEN shown \o output ELSE shown
<1>2. PICK i \in DOMAIN all : CutsInside(all[i])
  BY <1>1 DEF execute_command
<1>3. /\ output \in Seq(Seq(Byte)) /\ x \in Seq(Byte) /\ prompt \in Seq(Byte)
      /\ input_buf \in Seq(Byte)
  BY Pushes DEF TerminalInv
<1>4. CASE all[i] = x
  <2>1. IsWide(x)
    BY <1>2, <1>3, <1>4, CutIsWide
  <2>2. IsWide(prompt) \/ IsWide(input_buf)
    BY <1>3, <2>1, WideConcat
  <2>3. prompt \o buf \in Seq(Byte)
    BY <1>3, ConcatProperties
  <2> QED BY <1>3, <2>2, <2>3, WideConcat
<1>5. CASE all[i] # x
  <2>1. PICK j \in DOMAIN output : all[i] = output[j]
    <3> HIDE DEF x
    <3>1. shown \in Seq(Seq(Byte)) /\ Len(shown) = 1 /\ shown[1] = x /\ DOMAIN shown = 1..1
      BY <1>3
    <3> HIDE DEF shown
    <3> DEFINE u == shown \o output
    <3>5. /\ u \in Seq(Seq(Byte)) /\ Len(u) = 1 + Len(output)
          /\ \A k \in 1..(1 + Len(output)) : u[k] = IF k <= 1 THEN shown[k] ELSE output[k - 1]
      <4>1. /\ u \in Seq(Seq(Byte)) /\ Len(u) = Len(shown) + Len(output)
            /\ \A k \in 1..(Len(shown) + Len(output)) :
                 u[k] = IF k <= Len(shown) THEN shown[k] ELSE output[k - Len(shown)]
        BY <1>3, <3>1, ConcatProperties, Zenon
      <4> HIDE DEF u
      <4> QED BY <3>1, <4>1
    <3> HIDE DEF u
    <3>6. DOMAIN u = 1..Len(u) /\ DOMAIN output = 1..Len(output) /\ Len(output) \in Nat
      BY <1>3, <3>5, LenProperties
    <3>2. /\ DOMAIN output = 1..Len(output) /\ Len(output) \in Nat
          /\ DOMAIN (shown \o output) = 1..(1 + Len(output))
          /\ \A k \in 1..(1 + Len(output)) :
               (shown \o output)[k] = IF k <= 1 THEN shown[k] ELSE output[k - 1]
      BY <3>5, <3>6 DEF u
    <3>3. CASE trim(input_buf) # <<>>
      <4>1. all = shown \o output
        BY <3>3
      <4> HIDE DEF all
      <4>2. i \in 1..(1 + Len(output)) /\ i # 1
        BY <1>5, <3>1, <3>2, <4>1
      <4>3. i - 1 \in 1..Len(output) /\ all[i] = output[i - 1]
        BY <3>2, <4>1, <4>2
      <4> QED BY <3>2, <4>3
    <3>4. CASE trim(input_buf) = <<>>
      BY <1>5, <3>1, <3>4
    <3> QED BY <3>3, <3>4
  <2>2. output[j] \in Seq(Byte)
    BY <1>3, <2>1, LenProperties, ElementOfSeq
  <2>3. IsWide(output[j])
    BY <1>2, <2>1, <2>2, CutIsWide
  <2> QED BY <2>1, <2>3
<1> QED BY <1>4, <1>5

(***************************************************************************)
(* The row of the screen                                                   *)
(***************************************************************************)
Cell == Byte \cup {Other}

LEMMA CellsFacts ==
  ASSUME NEW s \in Seq(Byte)
  PROVE  Cells(s) \in Seq(Cell) /\ Len(Cells(s)) = Len(s)
<1>1. Len(s) \in Nat /\ DOMAIN s = 1..Len(s) /\ \A i \in 1..Len(s) : s[i] \in Byte
  BY LenProperties, ElementOfSeq
<1>2. Cells(s) \in [1..Len(s) -> Cell]
  BY <1>1 DEF Cells, Cell
<1> QED BY <1>1, <1>2, FunctionIsSeq

LEMMA CellsConcat ==
  ASSUME NEW a \in Seq(Byte), NEW b \in Seq(Byte)
  PROVE  Cells(a \o b) = Cells(a) \o Cells(b)
<1> DEFINE u == a \o b
           ca == Cells(a)
           cb == Cells(b)
<1>1. /\ u \in Seq(Byte) /\ Len(u) = Len(a) + Len(b)
      /\ \A i \in 1..(Len(a) + Len(b)) : u[i] = IF i <= Len(a) THEN a[i] ELSE b[i - Len(a)]
  BY ConcatProperties
<1> HIDE DEF u
<1>2. /\ Len(a) \in Nat /\ DOMAIN a = 1..Len(a) /\ Len(b) \in Nat /\ DOMAIN b = 1..Len(b)
      /\ DOMAIN u = 1..Len(u)
  BY <1>1, LenProperties
<1>3. /\ ca \in Seq(Cell) /\ Len(ca) = Len(a) /\ cb \in Seq(Cell) /\ Len(cb) = Len(b)
      /\ Cells(u) \in Seq(Cell) /\ Len(Cells(u)) = Len(u)
  BY <1>1, CellsFacts
<1>4. /\ \A i \in 1..Len(a) : ca[i] = IF a[i] \in Wide THEN Other ELSE a[i]
      /\ \A i \in 1..Len(b) : cb[i] = IF b[i] \in Wide THEN Other ELSE b[i]
      /\ \A i \in 1..Len(u) : Cells(u)[i] = IF u[i] \in Wide THEN Other ELSE u[i]
  BY <1>2 DEF Cells
<1> HIDE DEF ca, cb
<1>5. /\ ca \o cb \in Seq(Cell) /\ Len(ca \o cb) = Len(ca) + Len(cb)
      /\ \A i \in 1..(Len(ca) + Len(cb)) :
           (ca \o cb)[i] = IF i <= Len(ca) THEN ca[i] ELSE cb[i - Len(ca)]
  BY <1>3, ConcatProperties
<1> DEFINE cu == Cells(u)
           cc == ca \o cb
<1>6. cu \in Seq(Cell) /\ cc \in Seq(Cell) /\ Len(cu) = Len(cc) /\ Len(cu) = Len(a) + Len(b)
  BY <1>1, <1>3, <1>5
<1>7. ASSUME NEW i \in 1..Len(cu)
      PROVE  cu[i] = cc[i]
  <2>1. i \in 1..(Len(a) + Len(b)) /\ i \in 1..Len(u)
    BY <1>1, <1>6
  <2>2. cu[i] = IF u[i] \in Wide THEN Other ELSE u[i]
    BY <1>4, <2>1
  <2>3. cc[i] = IF i <= Len(a) THEN ca[i] ELSE cb[i - Len(a)]
    BY <1>3, <1>5, <2>1
  <2> HIDE DEF cu, cc
  <2>4. CASE i <= Len(a)
    <3>1. i \in 1..Len(a)
      BY <1>2, <2>1, <2>4
    <3> QED BY <1>1, <1>4, <2>1, <2>2, <2>3, <2>4, <3>1
  <2>5. CASE ~ (i <= Len(a))
    <3>1. i - Len(a) \in 1..Len(b)
      BY <1>2, <2>1, <2>5
    <3>2. u[i] = b[i - Len(a)]
      BY <1>1, <2>1, <2>5
    <3> QED BY <1>4, <2>2, <2>3, <2>5, <3>1, <3>2
  <2> QED BY <2>4, <2>5
<1> HIDE DEF cu, cc
<1>8. cu = cc
  BY <1>6, <1>7, SeqEqual
<1> QED BY <1>8 DEF cu, cc, ca, cb, u

LEMMA CellsPart ==
  ASSUME NEW s \in Seq(Byte), NEW n \in 0..Len(s)
  PROVE  Cells(SubSeq(s, 1, n)) = SubSeq(Cells(s), 1, n)
<1> DEFINE c == Cells(s)
           p == SubSeq(s, 1, n)
           q == SubSeq(c, 1, n)
           cp == Cells(p)
<1>1. Len(s) \in Nat /\ DOMAIN s = 1..Len(s)
  BY LenProperties
<1>2. c \in Seq(Cell) /\ Len(c) = Len(s)
  BY CellsFacts
<1>3. \A i \in 1..Len(s) : c[i] = IF s[i] \in Wide THEN Other ELSE s[i]
  BY <1>1 DEF Cells
<1> HIDE DEF c
<1>4. n \in Int /\ n <= Len(s) /\ n <= Len(c) /\ 1 \in Nat \ {0}
  BY <1>1, <1>2
<1>5. /\ p \in Seq(Byte) /\ Len(p) = IF 1 <= n THEN n - 1 + 1 ELSE 0
      /\ \A i \in 1..(n - 1 + 1) : p[i] = s[1 + i - 1]
  BY <1>4, PartOf
<1>6. /\ q \in Seq(Cell) /\ Len(q) = IF 1 <= n THEN n - 1 + 1 ELSE 0
      /\ \A i \in 1..(n - 1 + 1) : q[i] = c[1 + i - 1]
  BY <1>2, <1>4, PartOf
<1> HIDE DEF p, q
<1>7. cp \in Seq(Cell) /\ Len(cp) = Len(p)
  BY <1>5, CellsFacts
<1>8. \A i \in 1..Len(p) : cp[i] = IF p[i] \in Wide THEN Other ELSE p[i]
  <2>1. DOMAIN p = 1..Len(p)
    BY <1>5, LenProperties
  <2> QED BY <2>1 DEF Cells
<1> HIDE DEF cp
<1>9. Len(cp) = Len(q) /\ Len(cp) = n
  BY <1>1, <1>5, <1>6, <1>7
<1>10. ASSUME NEW i \in 1..Len(cp)
       PROVE  cp[i] = q[i]
  <2>1. i \in 1..(n - 1 + 1) /\ i \in 1..Len(p) /\ 1 + i - 1 = i /\ i \in 1..Len(s)
    BY <1>1, <1>7, <1>9
  <2> QED BY <1>3, <1>5, <1>6, <1>8, <2>1
<1>11. cp = q
  BY <1>6, <1>7, <1>9, <1>10, SeqEqual
<1> QED BY <1>11 DEF cp, q, p, c

LEMMA PrintedFacts ==
  ASSUME NEW on \in Seq(Cell), NEW text \in Seq(Byte)
  PROVE  /\ Printed(on, text) \in Seq(Cell) /\ Len(Printed(on, text)) <= BUFFER_WIDTH
         /\ Len(on) + Len(text) <= BUFFER_WIDTH => Printed(on, text) = on \o Cells(text)
<1> DEFINE all == on \o Cells(text)
           n == ((Len(all) - 1) % BUFFER_WIDTH) + 1
<1>1. Len(on) \in Nat /\ Len(text) \in Nat /\ BUFFER_WIDTH \in Nat \ {0}
  BY LenProperties, ConsoleAssumption
<1>2. all \in Seq(Cell) /\ Len(all) = Len(on) + Len(text)
  <2> DEFINE c == Cells(text)
  <2>1. c \in Seq(Cell) /\ Len(c) = Len(text)
    BY CellsFacts
  <2> HIDE DEF c
  <2>2. on \o c \in Seq(Cell) /\ Len(on \o c) = Len(on) + Len(c)
    BY <2>1, ConcatProperties
  <2> QED BY <2>1, <2>2 DEF c
<1>3. Printed(on, text) = IF all = <<>> THEN all ELSE SubSeq(all, Len(all) - n + 1, Len(all))
  BY DEF Printed, Rightmost
<1> HIDE DEF all, n
<1>4. CASE all = <<>>
  <2>1. Printed(on, text) = all /\ Len(all) = 0
    BY <1>3, <1>4, EmptySeq
  <2> QED BY <1>1, <1>2, <2>1 DEF all
<1>5. CASE all # <<>>
  <2>1. Len(all) \in Nat \ {0}
    BY <1>2, <1>5, EmptySeq
  <2>2. n \in 1..BUFFER_WIDTH /\ n <= Len(all)
    <3> DEFINE m == Len(all) - 1
    <3>1. m \in Nat /\ m + 1 = Len(all)
      BY <2>1
    <3>2. n = (m % BUFFER_WIDTH) + 1
      BY DEF n
    <3> HIDE DEF m
    <3>3. m % BUFFER_WIDTH \in 0..(BUFFER_WIDTH - 1) /\ m % BUFFER_WIDTH <= m
      BY <1>1, <3>1
    <3> QED BY <1>1, <3>1, <3>2, <3>3
  <2>3. Len(all) - n + 1 \in Nat \ {0} /\ Len(all) \in Int /\ Len(all) <= Len(all)
    BY <2>1, <2>2
  <2>4. Printed(on, text) = SubSeq(all, Len(all) - n + 1, Len(all))
    BY <1>3, <1>5
  <2>5. /\ Printed(on, text) \in Seq(Cell)
        /\ Len(Printed(on, text)) = IF Len(all) - n + 1 <= Len(all)
                                    THEN Len(all) - (Len(all) - n + 1) + 1 ELSE 0
    BY <1>2, <2>3, <2>4, PartOf
  <2>6. Len(Printed(on, text)) <= BUFFER_WIDTH
    BY <1>1, <2>1, <2>2, <2>5
  <2>7. ASSUME Len(on) + Len(text) <= BUFFER_WIDTH
        PROVE  Printed(on, text) = all
    <3> DEFINE m == Len(all) - 1
    <3>1. m \in Nat /\ m < BUFFER_WIDTH /\ n = (m % BUFFER_WIDTH) + 1 /\ m + 1 = Len(all)
      BY <1>1, <1>2, <2>1, <2>7 DEF n
    <3> HIDE DEF m
    <3>2. m % BUFFER_WIDTH = m
      BY <1>1, <3>1
    <3>3. Len(all) - n + 1 = 1
      BY <3>1, <3>2
    <3> QED BY <1>2, <2>4, <3>3, SubSeqFull
  <2> QED BY <2>5, <2>6, <2>7 DEF all
<1> QED BY <1>4, <1>5

LEMMA ErasedFacts ==
  ASSUME NEW on \in Seq(Cell), NEW n \in Nat
  PROVE  /\ Erased(on, n) \in Seq(Cell) /\ Len(Erased(on, n)) <= Len(on)
         /\ n <= Len(on) => Erased(on, n) = SubSeq(on, 1, Len(on) - n)
<1> DEFINE k == Max({0, Len(on) - n})
<1>1. Len(on) \in Nat
  BY LenProperties
<1>2. k = IF 0 >= Len(on) - n THEN 0 ELSE Len(on) - n
  <2>1. 0 \in Int /\ Len(on) - n \in Int
    BY <1>1
  <2> QED BY <2>1, MaxOfTwo
<1>3. Erased(on, n) = SubSeq(on, 1, k)
  BY DEF Erased
<1> HIDE DEF k
<1>4. k \in Int /\ k >= 0 /\ k <= Len(on) /\ 1 \in Nat \ {0} /\ (n <= Len(on) => k = Len(on) - n)
  BY <1>1, <1>2
<1>5. /\ SubSeq(on, 1, k) \in Seq(Cell)
      /\ Len(SubSeq(on, 1, k)) = IF 1 <= k THEN k - 1 + 1 ELSE 0
  BY <1>4, PartOf
<1>6. Len(SubSeq(on, 1, k)) <= Len(on)
  BY <1>1, <1>4, <1>5
<1> QED BY <1>3, <1>4, <1>5, <1>6

\* The prompt and a line are shown: what is printed behind them is shown too.
LEMMA PrintedLine ==
  ASSUME NEW p \in Seq(Byte), NEW a \in Seq(Byte), NEW b \in Seq(Byte),
         Len(p) + Len(a \o b) <= BUFFER_WIDTH
  PROVE  Printed(Cells(p \o a), b) = Cells(p \o (a \o b))
<1> DEFINE u == p \o a
           on == Cells(u)
<1>1. u \in Seq(Byte) /\ Len(u) = Len(p) + Len(a) /\ Len(a \o b) = Len(a) + Len(b)
  BY ConcatProperties
<1>2. u \o b = p \o (a \o b)
  BY ConcatAssociative
<1>3. Len(p) \in Nat /\ Len(a) \in Nat /\ Len(b) \in Nat
  BY LenProperties
<1>4. BUFFER_WIDTH \in Nat
  BY ConsoleAssumption
<1> HIDE DEF u
<1>5. on \in Seq(Cell) /\ Len(on) = Len(u)
  BY <1>1, CellsFacts
<1>6. Cells(u \o b) = on \o Cells(b)
  BY <1>1, CellsConcat
<1> HIDE DEF on
<1>7. Len(on) + Len(b) <= BUFFER_WIDTH
  BY <1>1, <1>3, <1>4, <1>5
<1>8. Printed(on, b) = on \o Cells(b)
  BY <1>5, <1>7, PrintedFacts
<1> QED BY <1>2, <1>6, <1>8, Zenon DEF on, u

\* They are shown: when cells of the line are erased, what it begins with is shown.
LEMMA ErasedLine ==
  ASSUME NEW p \in Seq(Byte), NEW a \in Seq(Byte), NEW n \in 0..Len(a)
  PROVE  Erased(Cells(p \o a), n) = Cells(p \o SubSeq(a, 1, Len(a) - n))
<1> DEFINE u == p \o a
           on == Cells(u)
           a1 == SubSeq(a, 1, Len(a) - n)
           a2 == SubSeq(a, Len(a) - n + 1, Len(a))
           m == Len(p) + (Len(a) - n)
<1>1. u \in Seq(Byte) /\ Len(u) = Len(p) + Len(a)
  BY ConcatProperties
<1>2. Len(p) \in Nat /\ Len(a) \in Nat
  BY LenProperties
<1> HIDE DEF u
<1>3. on \in Seq(Cell) /\ Len(on) = Len(u)
  BY <1>1, CellsFacts
<1>4. n \in Nat /\ n <= Len(on) /\ Len(on) - n = m /\ m \in 0..Len(u)
  BY <1>1, <1>2, <1>3
<1>5. Erased(on, n) = SubSeq(on, 1, m)
  BY <1>3, <1>4, ErasedFacts
<1>6. SubSeq(on, 1, m) = Cells(SubSeq(u, 1, m))
  BY <1>1, <1>4, CellsPart
<1>7. SubSeq(u, 1, m) = p \o a1
  <2>1. /\ Len(a) - n \in Int /\ Len(a) - n <= Len(a) /\ 1 \in Nat \ {0}
        /\ Len(a) - n >= 0
    BY <1>2
  <2>2. /\ a1 \in Seq(Byte) /\ Len(a1) = IF 1 <= Len(a) - n THEN Len(a) - n - 1 + 1 ELSE 0
        /\ \A i \in 1..(Len(a) - n - 1 + 1) : a1[i] = a[1 + i - 1]
    BY <2>1, PartOf
  <2> HIDE DEF a1
  <2>3. Len(a1) = Len(a) - n /\ \A i \in 1..Len(a1) : a1[i] = a[i]
    BY <1>2, <2>1, <2>2
  <2> DEFINE v == p \o a1
             w == SubSeq(u, 1, m)
  <2>4. /\ v \in Seq(Byte) /\ Len(v) = Len(p) + Len(a1)
        /\ \A i \in 1..(Len(p) + Len(a1)) : v[i] = IF i <= Len(p) THEN p[i] ELSE a1[i - Len(p)]
    BY <2>2, ConcatProperties
  <2>5. m \in Int /\ m <= Len(u) /\ m >= 0
    BY <1>1, <1>2, <1>4
  <2>6. /\ w \in Seq(Byte) /\ Len(w) = IF 1 <= m THEN m - 1 + 1 ELSE 0
        /\ \A i \in 1..(m - 1 + 1) : w[i] = u[1 + i - 1]
    <3> HIDE DEF m
    <3> QED BY <1>1, <2>1, <2>5, PartOf
  <2> HIDE DEF v, w
  <2>7. Len(v) = Len(w) /\ Len(v) = m
    BY <1>2, <2>1, <2>3, <2>4, <2>5, <2>6
  <2>8. \A i \in 1..(Len(p) + Len(a)) : u[i] = IF i <= Len(p) THEN p[i] ELSE a[i - Len(p)]
    BY ConcatProperties DEF u
  <2>9. ASSUME NEW i \in 1..Len(v)
        PROVE  v[i] = w[i]
    <3>1. i \in 1..(m - 1 + 1) /\ 1 + i - 1 = i /\ i \in 1..(Len(p) + Len(a)) /\ i \in 1..(Len(p) + Len(a1))
      BY <1>2, <2>3, <2>4, <2>7
    <3>2. w[i] = u[i]
      BY <2>6, <3>1
    <3>3. CASE i <= Len(p)
      BY <2>4, <2>8, <3>1, <3>2, <3>3
    <3>4. CASE ~ (i <= Len(p))
      <4>1. i - Len(p) \in 1..Len(a1)
        BY <1>2, <2>3, <3>1, <3>4
      <4>2. v[i] = a1[i - Len(p)] /\ u[i] = a[i - Len(p)]
        BY <2>4, <2>8, <3>1, <3>4
      <4> QED BY <2>3, <3>2, <4>1, <4>2
    <3> QED BY <3>3, <3>4
  <2>10. v = w
    BY <2>4, <2>6, <2>7, <2>9, SeqEqual
  <2> QED BY <2>10 DEF v, w
<1> QED BY <1>5, <1>6, <1>7, Zenon DEF on, u, a1

(***************************************************************************)
(* The text console                                                        *)
(***************************************************************************)
NoRepeats(e) == \A i \in 1..(Len(e) - 1) : e[i] # e[i + 1]

\* What holds of the console in every state.  FirstUpRecallsLast needs the last
\* part: until an arrow key is pressed the cursor is behind the last entry.
ConsoleInv ==
  /\ buf \in Seq(Byte) /\ names \in NameSets
  /\ entries \in Seq(Seq(Byte)) /\ Len(entries) <= HISTORY_MAX /\ NoRepeats(entries)
  /\ history_cursor \in 0..Len(entries)
  /\ row \in Seq(Cell) /\ Len(row) <= BUFFER_WIDTH
  /\ erasing \in Nat /\ printing \in Seq(Byte)
  /\ executing => buf = <<>> /\ erasing = 0 /\ printing = <<>>
  /\ ~browsed => history_cursor = Len(entries)

\* ScreenShowsInput needs what the row becomes when all is erased and printed that
\* the console has still to draw, and that the line is not longer than the row, or
\* else what is printed next would leave it.
RowInv ==
  exact => IF executing THEN row = <<>>
           ELSE /\ Len(prompt) + Len(buf) <= BUFFER_WIDTH
                /\ Erased(row, erasing) \o Cells(printing) = Cells(prompt \o buf)

LEMMA ErasedNone ==
  ASSUME NEW on \in Seq(Cell) PROVE Erased(on, 0) = on
<1>1. Len(on) \in Nat /\ 0 <= Len(on) /\ Len(on) - 0 = Len(on)
  BY LenProperties
<1>2. Erased(on, 0) = SubSeq(on, 1, Len(on) - 0)
  BY <1>1, ErasedFacts
<1> QED BY <1>1, <1>2, SubSeqFull

\* Nothing is left to be drawn.
LEMMA Settled ==
  ASSUME NEW on \in Seq(Cell) PROVE Erased(on, 0) \o Cells(<<>>) = on
<1>1. Erased(on, 0) = on
  BY ErasedNone
<1>2. <<>> \in Seq(Byte) /\ Len(<<>>) = 0
  BY EmptySeq
<1>3. Cells(<<>>) \in Seq(Cell) /\ Len(Cells(<<>>)) = 0
  BY <1>2, CellsFacts
<1>4. Cells(<<>>) = <<>>
  BY <1>3, EmptySeq
<1> QED BY <1>1, <1>4, ConcatEmptySeq

\* A row is begun, and text is to be printed on it.
LEMMA NewRow ==
  ASSUME NEW text \in Seq(Byte)
  PROVE  Erased(<<>>, 0) \o Cells(text) = Cells(text)
<1>1. <<>> \in Seq(Cell) /\ Cells(text) \in Seq(Cell)
  BY EmptySeq, CellsFacts
<1>2. Erased(<<>>, 0) = <<>>
  BY <1>1, ErasedNone
<1> QED BY <1>1, <1>2, ConcatEmptySeq

LEMMA ErasedTwice ==
  ASSUME NEW on \in Seq(Cell), NEW n \in Nat \ {0}
  PROVE  Erased(Erased(on, 1), n - 1) = Erased(on, n)
<1> DEFINE l == Len(on)
           m == Max({0, l - 1})
           j == Max({0, l - n})
           part == SubSeq(on, 1, m)
           i == Max({0, Len(part) - (n - 1)})
<1>1. l \in Nat
  BY LenProperties
<1>2. Erased(on, n) = SubSeq(on, 1, j) /\ Erased(Erased(on, 1), n - 1) = SubSeq(part, 1, i)
  BY DEF Erased
<1> HIDE DEF l
<1>3. m = (IF 0 >= l - 1 THEN 0 ELSE l - 1) /\ j = (IF 0 >= l - n THEN 0 ELSE l - n)
  <2>1. 0 \in Int /\ l - 1 \in Int /\ l - n \in Int
    BY <1>1
  <2> QED BY <2>1, MaxOfTwo
<1> HIDE DEF m, j
<1>4. m \in Nat /\ j \in Nat /\ m <= l /\ j <= m
  BY <1>1, <1>3
<1>5. part \in Seq(Cell) /\ Len(part) = m
  <2>1. m \in Int /\ m <= Len(on) /\ 1 \in Nat \ {0}
    BY <1>4 DEF l
  <2>2. part \in Seq(Cell) /\ Len(part) = IF 1 <= m THEN m - 1 + 1 ELSE 0
    BY <2>1, PartOf
  <2> QED BY <1>4, <2>2
<1>6. i = j
  <2>1. 0 \in Int /\ m - (n - 1) \in Int
    BY <1>4
  <2>2. i = IF 0 >= m - (n - 1) THEN 0 ELSE m - (n - 1)
    BY <1>5, <2>1, MaxOfTwo
  <2> HIDE DEF i
  <2> QED BY <1>1, <1>3, <2>2
<1>7. SubSeq(part, 1, j) = SubSeq(on, 1, j)
  <2> DEFINE a == SubSeq(part, 1, j)
             b == SubSeq(on, 1, j)
  <2>1. 1 \in Nat \ {0} /\ j \in Int /\ j <= Len(part) /\ j <= Len(on) /\ m <= Len(on) /\ m \in Int
    BY <1>1, <1>4, <1>5 DEF l
  <2>2. /\ a \in Seq(Cell) /\ Len(a) = IF 1 <= j THEN j - 1 + 1 ELSE 0
        /\ \A k \in 1..(j - 1 + 1) : a[k] = part[1 + k - 1]
    BY <1>5, <2>1, PartOf
  <2>3. /\ b \in Seq(Cell) /\ Len(b) = IF 1 <= j THEN j - 1 + 1 ELSE 0
        /\ \A k \in 1..(j - 1 + 1) : b[k] = on[1 + k - 1]
    BY <2>1, PartOf
  <2>4. \A k \in 1..(m - 1 + 1) : part[k] = on[1 + k - 1]
    BY <2>1, PartOf
  <2> HIDE DEF a, b, part
  <2>5. ASSUME NEW k \in 1..Len(a) PROVE a[k] = b[k]
    <3>1. k \in 1..(j - 1 + 1) /\ k \in 1..(m - 1 + 1) /\ 1 + k - 1 = k
      BY <1>4, <2>2
    <3> QED BY <2>2, <2>3, <2>4, <3>1
  <2>6. a = b
    BY <2>2, <2>3, <2>5, SeqEqual
  <2> QED BY <2>6 DEF a, b
<1> QED BY <1>2, <1>6, <1>7

\* While the loop waits for a key the row shows the line, and if it does RowInv
\* holds of it.
LEMMA Shown ==
  ASSUME ConsoleInv, RowInv, Idle, exact
  PROVE  row = Cells(prompt \o buf) /\ Len(prompt) + Len(buf) <= BUFFER_WIDTH
<1>1. ~executing /\ erasing = 0 /\ printing = <<>>
  BY DEF Idle
<1>2. row \in Seq(Cell)
  BY DEF ConsoleInv
<1>3. /\ Len(prompt) + Len(buf) <= BUFFER_WIDTH
      /\ Erased(row, 0) \o Cells(<<>>) = Cells(prompt \o buf)
  BY <1>1, Zenon DEF RowInv
<1> QED BY <1>2, <1>3, Settled

LEMMA ShownAgain ==
  ASSUME Idle, UNCHANGED <<erasing, printing, executing>>, row' \in Seq(Cell),
         exact' => /\ row' = Cells(prompt' \o buf')
                   /\ Len(prompt') + Len(buf') <= BUFFER_WIDTH
  PROVE  RowInv'
<1>1. ~executing' /\ erasing' = 0 /\ printing' = <<>>
  BY DEF Idle
<1>2. Erased(row', 0) \o Cells(<<>>) = row'
  BY Settled
<1> SUFFICES ASSUME exact'
             PROVE  /\ Len(prompt') + Len(buf') <= BUFFER_WIDTH
                    /\ Erased(row', erasing') \o Cells(printing') = Cells(prompt' \o buf')
  BY <1>1, Zenon DEF RowInv
<1> QED BY <1>1, <1>2, Zenon

\* The prompt and the line are to be drawn on a new row.
LEMMA DrawnAnew ==
  ASSUME ~executing', erasing' = 0, prompt' \in Seq(Byte), buf' \in Seq(Byte),
         printing' = prompt' \o buf',
         exact' => row' = <<>> /\ Len(prompt' \o buf') <= BUFFER_WIDTH
  PROVE  RowInv'
<1>1. prompt' \o buf' \in Seq(Byte) /\ Len(prompt' \o buf') = Len(prompt') + Len(buf')
  BY ConcatProperties
<1> SUFFICES ASSUME exact'
             PROVE  /\ Len(prompt') + Len(buf') <= BUFFER_WIDTH
                    /\ Erased(row', erasing') \o Cells(printing') = Cells(prompt' \o buf')
  BY Zenon DEF RowInv
<1>2. Erased(<<>>, 0) \o Cells(prompt' \o buf') = Cells(prompt' \o buf')
  BY <1>1, NewRow
<1> QED BY <1>1, <1>2, Zenon

LEMMA TypedStep ==
  ASSUME LineInv, ConsoleInv, RowInv, Idle, NEW c \in Seq(Byte), prompt' = prompt,
         executing' = executing, Typed(c)
  PROVE  /\ buf' \in Seq(Byte) /\ row' \in Seq(Cell) /\ Len(row') <= BUFFER_WIDTH
         /\ UNCHANGED <<erasing, printing>> /\ RowInv'
<1>1. buf \in Seq(Byte) /\ prompt \in Seq(Byte) /\ row \in Seq(Cell)
  BY TextAssumption DEF LineInv, ConsoleInv
<1>2. Printed(row, c) \in Seq(Cell) /\ Len(Printed(row, c)) <= BUFFER_WIDTH
  BY <1>1, PrintedFacts
<1>3. buf \o c \in Seq(Byte)
  BY <1>1, ConcatProperties
<1>4. ASSUME exact, Len(prompt) + Len(buf \o c) <= BUFFER_WIDTH
      PROVE  Printed(row, c) = Cells(prompt \o (buf \o c))
  <2>1. row = Cells(prompt \o buf)
    BY <1>4, Shown
  <2> DEFINE p == prompt
             a == buf
  <2>2. p \in Seq(Byte) /\ a \in Seq(Byte) /\ Len(p) + Len(a \o c) <= BUFFER_WIDTH
    BY <1>1, <1>4
  <2> HIDE DEF p, a
  <2>3. Printed(Cells(p \o a), c) = Cells(p \o (a \o c))
    BY <2>2, PrintedLine
  <2> QED BY <2>1, <2>3, Zenon DEF p, a
<1>5. buf' = buf \o c /\ row' = Printed(row, c) /\ UNCHANGED <<erasing, printing>>
  BY DEF Typed
<1>6. exact' => exact /\ Len(prompt) + Len(buf') <= BUFFER_WIDTH
  BY Zenon DEF Typed, Fits
<1>7. exact' => /\ row' = Cells(prompt' \o buf')
                /\ Len(prompt') + Len(buf') <= BUFFER_WIDTH
  BY <1>4, <1>5, <1>6, Zenon
<1>8. row' \in Seq(Cell)
  BY <1>2, <1>5
<1>9. RowInv'
  BY <1>5, <1>7, <1>8, ShownAgain
<1> QED BY <1>2, <1>3, <1>5, <1>9

LEMMA RecalledStep ==
  ASSUME LineInv, ConsoleInv, RowInv, Idle, NEW entry \in Seq(Byte), prompt' = prompt,
         executing' = executing, Recalled(entry)
  PROVE  /\ buf' \in Seq(Byte) /\ row' = row /\ erasing' \in Nat /\ printing' \in Seq(Byte)
         /\ RowInv'
<1>1. buf \in Seq(Byte) /\ prompt \in Seq(Byte) /\ row \in Seq(Cell) /\ Len(buf) \in Nat
  BY TextAssumption, LenProperties DEF LineInv, ConsoleInv
<1>2. buf' = entry /\ erasing' = Len(buf) /\ printing' = entry /\ row' = row
  BY DEF Recalled
<1>3. exact' => exact /\ Len(prompt) + Len(entry) <= BUFFER_WIDTH
  BY Zenon DEF Recalled, Fits
<1>4. ASSUME exact
      PROVE  Erased(row, Len(buf)) \o Cells(entry) = Cells(prompt \o entry)
  <2> DEFINE p == prompt
             a == buf
             e == <<>>
  <2>1. p \in Seq(Byte) /\ a \in Seq(Byte) /\ Len(a) \in 0..Len(a) /\ Len(a) - Len(a) = 0
    BY <1>1
  <2>2. row = Cells(p \o a)
    BY <1>4, Shown
  <2>3. e \in Seq(Byte) /\ SubSeq(a, 1, 0) = e /\ p \o e = p
    BY <2>1, EmptySeq, ConcatEmptySeq, SubSeqEmpty
  <2> HIDE DEF p, a, e
  <2>4. Erased(Cells(p \o a), Len(a)) = Cells(p \o SubSeq(a, 1, Len(a) - Len(a)))
    BY <2>1, ErasedLine
  <2>5. Cells(p \o entry) = Cells(p) \o Cells(entry)
    BY <2>1, CellsConcat
  <2>6. Erased(row, Len(a)) = Cells(p)
    BY <2>1, <2>2, <2>3, <2>4, Zenon
  <2> QED BY <2>5, <2>6, Zenon DEF p, a
<1>5. ~executing'
  BY DEF Idle
<1>6. RowInv'
  <2> SUFFICES ASSUME exact'
               PROVE  /\ Len(prompt') + Len(buf') <= BUFFER_WIDTH
                      /\ Erased(row', erasing') \o Cells(printing') = Cells(prompt' \o buf')
    BY <1>5, Zenon DEF RowInv
  <2> QED BY <1>2, <1>3, <1>4, Zenon
<1> QED BY <1>1, <1>2, <1>6

LEMMA PushStep ==
  ASSUME ConsoleInv, NEW cmd \in Seq(Byte), push(cmd)
  PROVE  /\ entries' \in Seq(Seq(Byte)) /\ Len(entries') <= HISTORY_MAX /\ NoRepeats(entries')
         /\ history_cursor' = Len(entries')
<1> DEFINE kept == IF Len(entries) >= HISTORY_MAX THEN Tail(entries) ELSE entries
           d == IF Len(entries) >= HISTORY_MAX THEN 1 ELSE 0
<1>1. /\ entries \in Seq(Seq(Byte)) /\ Len(entries) \in Nat /\ Len(entries) <= HISTORY_MAX
      /\ HISTORY_MAX \in Nat \ {0} /\ NoRepeats(entries)
  BY LenProperties, ConsoleAssumption DEF ConsoleInv
<1>2. CASE entries # <<>> /\ entries[Len(entries)] = cmd
  BY <1>1, <1>2 DEF push
<1>3. CASE ~ (entries # <<>> /\ entries[Len(entries)] = cmd)
  <2>1. entries' = Append(kept, cmd) /\ history_cursor' = Len(entries')
    BY <1>3 DEF push
  <2>2. /\ kept \in Seq(Seq(Byte)) /\ d \in Nat /\ Len(kept) = Len(entries) - d /\ Len(kept) < HISTORY_MAX
        /\ Len(kept) \in Nat /\ \A i \in 1..Len(kept) : kept[i] = entries[i + d]
    <3>1. CASE Len(entries) >= HISTORY_MAX
      <4>1. entries # <<>> /\ kept = Tail(entries) /\ d = 1
        BY <1>1, <3>1, EmptySeq
      <4> HIDE DEF kept, d
      <4>2. /\ kept \in Seq(Seq(Byte)) /\ Len(kept) = Len(entries) - 1
            /\ \A i \in 1..Len(kept) : kept[i] = entries[i + 1]
        BY <1>1, <4>1, HeadTailProperties
      <4>3. Len(entries) # 0
        BY <1>1, <3>1
      <4> QED BY <1>1, <4>1, <4>2, <4>3
    <3>2. CASE ~ (Len(entries) >= HISTORY_MAX)
      <4>1. kept = entries /\ d = 0
        BY <3>2
      <4> HIDE DEF kept, d
      <4> QED BY <1>1, <3>2, <4>1
    <3> QED BY <3>1, <3>2
  <2> HIDE DEF kept, d
  <2> DEFINE e == Append(kept, cmd)
  <2>3. /\ e \in Seq(Seq(Byte)) /\ Len(e) = Len(kept) + 1 /\ e[Len(kept) + 1] = cmd
        /\ \A i \in 1..Len(kept) : e[i] = kept[i]
    BY <2>2, AppendProperties
  <2> HIDE DEF e
  <2>4. ASSUME NEW i \in 1..(Len(e) - 1)
        PROVE  e[i] # e[i + 1]
    <3>0. i \in 1..Len(kept)
      <4>1. Len(e) - 1 = Len(kept)
        BY <2>2, <2>3
      <4> QED BY <4>1, Zenon
    <3>1. i \in 1..Len(kept) /\ e[i] = kept[i] /\ kept[i] = entries[i + d]
      BY <2>2, <2>3, <3>0, Zenon
    <3>2. CASE i = Len(kept)
      <4>1. i + d = Len(entries) /\ Len(entries) # 0
        BY <1>1, <2>2, <3>1, <3>2
      <4>2. entries # <<>> /\ e[i + 1] = cmd
        BY <2>3, <3>2, <4>1, EmptySeq
      <4> QED BY <1>3, <3>1, <4>1, <4>2, Zenon
    <3>3. CASE i # Len(kept)
      <4>1. i + 1 \in 1..Len(kept) /\ i + d \in 1..(Len(entries) - 1) /\ (i + 1) + d = (i + d) + 1
        <5>1. Len(kept) = Len(entries) - d /\ Len(kept) \in Nat /\ Len(entries) \in Nat /\ d \in Nat
          BY <1>1, <2>2
        <5> QED BY <3>0, <3>3, <5>1
      <4>2. e[i + 1] = entries[(i + d) + 1]
        <5>1. e[i + 1] = kept[i + 1] /\ kept[i + 1] = entries[(i + 1) + d]
          BY <2>2, <2>3, <4>1, Zenon
        <5> QED BY <4>1, <5>1, Zenon
      <4>3. entries[i + d] # entries[(i + d) + 1]
        BY <1>1, <4>1, Zenon DEF NoRepeats
      <4> QED BY <3>1, <4>2, <4>3, Zenon
    <3> QED BY <3>2, <3>3
  <2>5. NoRepeats(e)
    BY <2>4 DEF NoRepeats
  <2>6. entries' = e
    BY <2>1 DEF e
  <2>7. Len(e) <= HISTORY_MAX
    BY <1>1, <2>2, <2>3
  <2> QED BY <2>1, <2>3, <2>5, <2>6, <2>7
<1> QED BY <1>2, <1>3

\* What tab completion adds to the line, and where it can cut a character.
LEMMA TabFacts ==
  ASSUME ConsoleInv, Completions # {}
  PROVE  LET prefix == common_prefix(Completions)
             suffix == Rightmost(prefix, Len(prefix) - Len(partial))
         IN  /\ suffix \in Seq(Byte)
             /\ \A c \in Completions :
                  ~IsBoundary(c, Len(prefix)) => \E n \in names : IsWide(n)
<1> DEFINE S == Completions
           one == CHOOSE s \in S : TRUE
           K == {k \in 0..Len(one) : \A s \in S : IsPrefix(SubSeq(one, 1, k), s)}
           n == Max(K)
           prefix == SubSeq(one, 1, n)
           suffix == Rightmost(prefix, Len(prefix) - Len(partial))
<1>1. /\ buf \in Seq(Byte) /\ names \in NameSets /\ names \subseteq Seq(Byte)
      /\ Commands \subseteq Seq(Byte \ Wide) /\ Len(buf) \in Nat
  BY ConsoleAssumption, LenProperties DEF ConsoleInv
<1>2. /\ S \subseteq Seq(Byte) /\ S # {}
      /\ \A c \in S : c \in Commands \/ c \in names
  <2>1. \A s : s \in Seq(Byte \ Wide) => s \in Seq(Byte)
    <3> TAKE s
    <3>1. Byte \ Wide \subseteq Byte
      OBVIOUS
    <3> QED BY <3>1, SeqMonotonic
  <2>2. \A c \in S : c \in Commands \/ c \in names
    BY DEF Completions
  <2> QED BY <1>1, <2>1, <2>2
<1>3. partial \in Seq(Byte) /\ Len(partial) \in Nat
  <2> DEFINE I == {i \in 1..Len(buf) : buf[i] = Blank}
             w == IF I # {} THEN Max(I) ELSE 0
  <2>1. word_start = w
    BY DEF word_start, SelectLastInSeq
  <2>2. w \in Nat
    <3>1. I \in SUBSET (0..Len(buf))
      BY <1>1
    <3>2. I # {} => Max(I) \in I
      BY <1>1, <3>1, GreatestOf, Zenon
    <3> QED BY <1>1, <3>1, <3>2
  <2> HIDE DEF w
  <2>3. w + 1 \in Nat \ {0} /\ Len(buf) \in Int /\ Len(buf) <= Len(buf)
    BY <1>1, <2>2
  <2>4. SubSeq(buf, w + 1, Len(buf)) \in Seq(Byte)
    BY <1>1, <2>3, PartOf
  <2>5. partial \in Seq(Byte)
    BY <2>1, <2>4, Zenon DEF partial
  <2> QED BY <2>5, LenProperties
<1>4. common_prefix(S) = prefix
  BY DEF common_prefix
<1> HIDE DEF S
<1>5. one \in S /\ one \in Seq(Byte) /\ Len(one) \in Nat
  BY <1>2, LenProperties
<1> HIDE DEF one
<1>6. n \in K
  <2>1. SubSeq(one, 1, 0) = <<>> /\ Len(<<>>) = 0 /\ SubSeq(<<>>, 1, 0) = <<>>
    BY SubSeqEmpty, EmptySeq
  <2>2. ASSUME NEW s \in S
        PROVE  IsPrefix(<<>>, s)
    <3>1. SubSeq(s, 1, 0) = <<>> /\ Len(s) \in Nat
      BY <1>2, SubSeqEmpty, LenProperties
    <3>2. 0 <= Len(s)
      BY <3>1
    <3> QED BY <2>1, <3>1, <3>2, Zenon DEF IsPrefix
  <2>3. 0 \in K
    <3>1. 0 \in 0..Len(one)
      BY <1>5
    <3> QED BY <2>1, <2>2, <3>1, Zenon
  <2>4. K \in SUBSET (0..Len(one))
    BY Zenon
  <2> HIDE DEF K
  <2> QED BY <1>5, <2>3, <2>4, GreatestOf, Zenon
<1>7. n \in 0..Len(one) /\ \A s \in S : IsPrefix(prefix, s)
  <2> HIDE DEF n
  <2> QED BY <1>6, Zenon
<1> HIDE DEF n
<1>8. prefix \in Seq(Byte) /\ Len(prefix) \in Nat
  <2>1. n \in Int /\ n <= Len(one) /\ 1 \in Nat \ {0}
    BY <1>5, <1>7
  <2>2. prefix \in Seq(Byte)
    BY <1>5, <2>1, PartOf
  <2> QED BY <2>2, LenProperties
<1> HIDE DEF prefix
<1>9. suffix \in Seq(Byte)
  <2> DEFINE m == Len(prefix) - (Len(prefix) - Len(partial)) + 1
  <2>1. m \in Nat \ {0} /\ Len(prefix) \in Int /\ Len(prefix) <= Len(prefix)
    BY <1>3, <1>8
  <2> HIDE DEF m
  <2>2. SubSeq(prefix, m, Len(prefix)) \in Seq(Byte)
    BY <1>8, <2>1, PartOf
  <2> QED BY <2>2, Zenon DEF Rightmost, m
<1>10. ASSUME NEW c \in S, ~IsBoundary(c, Len(prefix))
       PROVE  \E x \in names : IsWide(x)
  <2>1. /\ Len(prefix) <= Len(c) /\ Len(prefix) # Len(c)
        /\ c[Len(prefix) + 1] \in Wide
    BY <1>7, <1>10, ConsoleAssumption DEF IsPrefix, IsBoundary
  <2>2. c \in Seq(Byte) /\ Len(c) \in Nat /\ DOMAIN c = 1..Len(c)
    BY <1>2, LenProperties
  <2>3. Len(prefix) + 1 \in 1..Len(c)
    BY <1>8, <2>1, <2>2
  <2>4. c \notin Commands
    <3> SUFFICES ASSUME c \in Seq(Byte \ Wide) PROVE FALSE
      BY <1>1
    <3>1. c[Len(prefix) + 1] \in Byte \ Wide
      BY <2>3, ElementOfSeq
    <3> QED BY <2>1, <3>1
  <2>5. IsWide(c)
    BY <2>1, <2>2, <2>3 DEF IsWide
  <2> QED BY <1>2, <2>4, <2>5
<1> QED BY <1>4, <1>9, <1>10, Zenon DEF S

LEMMA ConsoleInitially ==
  ASSUME LineInit, ConsoleInit PROVE ConsoleInv /\ RowInv /\ LineInv
<1>1. prompt \in Seq(Byte) /\ <<>> \in Seq(Byte) /\ Len(prompt) \in Nat
  BY EmptySeq, TextAssumption, LenProperties DEF LineInit
<1>2. LineInv
  BY DEF LineInv, LineInit
<1>3. ConsoleInv
  <2>1. row \in Seq(Cell) /\ Len(row) <= BUFFER_WIDTH
    BY EmptySeq, ConsoleAssumption DEF ConsoleInit
  <2>2. <<>> \in Seq(Seq(Byte)) /\ Len(<<>>) = 0 /\ 0 <= HISTORY_MAX /\ HISTORY_MAX \in Nat
    BY EmptySeq, ConsoleAssumption
  <2>3. NoRepeats(<<>>)
    BY <2>2 DEF NoRepeats
  <2> QED BY <1>1, <2>1, <2>2, <2>3 DEF ConsoleInv, ConsoleInit
<1>4. RowInv
  <2>1. exact => Len(prompt) + Len(<<>>) <= BUFFER_WIDTH
    BY Zenon DEF ConsoleInit, Fits
  <2>2. /\ row = <<>> /\ erasing = 0 /\ printing = prompt /\ buf = <<>> /\ ~executing
    BY DEF ConsoleInit
  <2>3. prompt \o <<>> = prompt
    BY <1>1, ConcatEmptySeq
  <2>4. Erased(<<>>, 0) \o Cells(prompt) = Cells(prompt)
    BY <1>1, NewRow
  <2> QED BY <2>1, <2>2, <2>3, <2>4, Zenon DEF RowInv
<1> QED BY <1>2, <1>3, <1>4

LEMMA EnterStep ==
  ASSUME LineInv, ConsoleInv, Enter
  PROVE  LineInv' /\ ConsoleInv' /\ RowInv'
<1> DEFINE cmd == trim(buf)
<1>1. cmd \in Seq(Byte)
  BY TrimType DEF ConsoleInv
<1> HIDE DEF cmd
<1>2. /\ buf' = <<>> /\ row' = <<>> /\ UNCHANGED <<names, erasing, halted, prompt>>
      /\ erasing = 0 /\ ~executing
  BY DEF Enter, Idle
<1>3. /\ prompt' \in Seq(Byte) /\ <<>> \in Seq(Byte) /\ <<>> \in Seq(Cell)
      /\ Len(<<>>) <= BUFFER_WIDTH
  BY <1>2, TextAssumption, ConsoleAssumption, EmptySeq DEF LineInv
<1>4. CASE cmd = <<>>
  <2>1. Redrawn(prompt) /\ UNCHANGED <<entries, history_cursor, executing, browsed>>
    BY <1>4 DEF Enter, cmd
  <2>2. prompt' \o buf' = prompt'
    BY <1>2, <1>3, ConcatEmptySeq
  <2>3. printing' = prompt' \o buf'
    BY <1>2, <2>1, <2>2 DEF Redrawn
  <2>4. exact' => row' = <<>> /\ Len(prompt' \o buf') <= BUFFER_WIDTH
    BY <1>2, <2>1, <2>2, Zenon DEF Redrawn
  <2>5. ~executing' /\ erasing' = 0 /\ buf' \in Seq(Byte)
    BY <1>2, <1>3, <2>1
  <2>6. RowInv'
    BY <1>3, <2>3, <2>4, <2>5, DrawnAnew
  <2>7. printing' \in Seq(Byte)
    BY <1>3, <2>2, <2>3
  <2> QED BY <1>2, <1>3, <2>1, <2>5, <2>6, <2>7 DEF LineInv, ConsoleInv
<1>5. CASE cmd # <<>>
  <2>1. push(cmd) /\ executing' = TRUE /\ browsed' = FALSE /\ printing' = <<>>
    BY <1>5 DEF Enter, cmd
  <2>2. /\ entries' \in Seq(Seq(Byte)) /\ Len(entries') <= HISTORY_MAX /\ NoRepeats(entries')
        /\ history_cursor' = Len(entries')
    BY <1>1, <2>1, PushStep
  <2>3. Len(entries') \in 0..Len(entries')
    BY <2>2, LenProperties
  <2>4. RowInv'
    BY <1>2, <2>1, Zenon DEF RowInv
  <2> QED BY <1>2, <1>3, <2>1, <2>2, <2>3, <2>4 DEF LineInv, ConsoleInv
<1> QED BY <1>4, <1>5

\* The command is done: nothing was printed on the row, by the console or, if
\* exact, by a program, or a new row was begun.
LEMMA ExecuteStep ==
  ASSUME LineInv, ConsoleInv, RowInv, execute_line
  PROVE  LineInv' /\ ConsoleInv' /\ RowInv'
<1>1. /\ executing /\ executing' = FALSE /\ names' \in NameSets /\ prompt' \in Prompts
      /\ UNCHANGED <<buf, entries, history_cursor, erasing, browsed, halted>>
      /\ printing' = prompt'
  BY DEF execute_line, Redrawn
<1>2. buf = <<>> /\ erasing = 0 /\ row \in Seq(Cell) /\ Len(row) <= BUFFER_WIDTH
  BY <1>1 DEF ConsoleInv
<1>3. prompt' \in Seq(Byte) /\ buf' \in Seq(Byte) /\ <<>> \in Seq(Cell) /\ Len(<<>>) <= BUFFER_WIDTH
  BY <1>1, <1>2, TextAssumption, ConsoleAssumption, EmptySeq
<1>4. prompt' \o buf' = prompt'
  BY <1>1, <1>2, <1>3, ConcatEmptySeq
<1>5. row' = <<>> \/ row' = row
  BY DEF execute_line
<1>6. exact' => row' = <<>> /\ Len(prompt' \o buf') <= BUFFER_WIDTH
  <2>1. exact => row = <<>>
    BY <1>1, Zenon DEF RowInv
  <2>2. CASE row' = <<>> /\ Redrawn(prompt')
    BY <1>4, <2>2, Zenon DEF Redrawn
  <2>3. CASE row' = row /\ exact' = (exact /\ Len(prompt') <= BUFFER_WIDTH)
    BY <1>4, <2>1, <2>3, Zenon
  <2> QED BY <2>2, <2>3 DEF execute_line
<1>7. RowInv'
  BY <1>1, <1>2, <1>3, <1>4, <1>6, DrawnAnew
<1>8. LineInv'
  BY <1>1 DEF LineInv
<1>9. row' \in Seq(Cell) /\ Len(row') <= BUFFER_WIDTH
  BY <1>2, <1>3, <1>5
<1> QED BY <1>1, <1>2, <1>3, <1>7, <1>8, <1>9 DEF ConsoleInv

\* The keys that only edit or recall the line.
LEMMA EditingSteps ==
  ASSUME LineInv, ConsoleInv, RowInv,
         (\E c \in Chars : TypeChar(c)) \/ Backspace \/ ArrowDown
  PROVE  LineInv' /\ ConsoleInv' /\ RowInv'
<1>1. CASE \E c \in Chars : TypeChar(c)
  <2>1. PICK c \in Chars : TypeChar(c)
    BY <1>1
  <2>2. /\ c \in Seq(Byte) /\ prompt' = prompt /\ executing' = executing /\ Idle /\ Typed(c)
        /\ UNCHANGED <<entries, history_cursor, names, executing, browsed, halted>>
    BY <2>1, TextAssumption DEF TypeChar
  <2>3. /\ buf' \in Seq(Byte) /\ row' \in Seq(Cell) /\ Len(row') <= BUFFER_WIDTH
        /\ UNCHANGED <<erasing, printing>> /\ RowInv'
    BY <2>2, TypedStep
  <2> QED BY <2>2, <2>3 DEF LineInv, ConsoleInv, Idle
<1>2. CASE Backspace
  <2>1. buf \in Seq(Byte) /\ prompt \in Seq(Byte) /\ row \in Seq(Cell) /\ Len(buf) \in Nat
    BY TextAssumption, LenProperties DEF LineInv, ConsoleInv
  <2>2. /\ Pop(buf) \in Seq(Byte) /\ Len(Pop(buf)) <= Len(buf)
        /\ Pop(buf) = SubSeq(buf, 1, Len(Pop(buf)))
    BY <2>1, PopFacts
  <2>3. Erased(row, 1) \in Seq(Cell) /\ Len(Erased(row, 1)) <= Len(row)
    BY <2>1, ErasedFacts
  <2>4. Len(Erased(row, 1)) <= BUFFER_WIDTH
    <3>1. Len(Erased(row, 1)) \in Nat /\ Len(row) \in Nat /\ Len(row) <= BUFFER_WIDTH
          /\ BUFFER_WIDTH \in Nat
      BY <2>1, <2>3, LenProperties, ConsoleAssumption DEF ConsoleInv
    <3> QED BY <2>3, <3>1
  <2>5. /\ buf' = Pop(buf) /\ row' = Erased(row, 1)
        /\ exact' = (exact /\ Len(Pop(buf)) = Len(buf) - 1)
        /\ UNCHANGED <<entries, history_cursor, names, erasing, printing, executing, browsed,
                       halted, prompt>>
        /\ Idle
    BY <1>2 DEF Backspace
  <2>6. ASSUME exact'
        PROVE  row' = Cells(prompt' \o buf') /\ Len(prompt') + Len(buf') <= BUFFER_WIDTH
    <3>1. exact /\ Len(Pop(buf)) = Len(buf) - 1
      BY <2>5, <2>6, Zenon
    <3>2. row = Cells(prompt \o buf) /\ Len(prompt) + Len(buf) <= BUFFER_WIDTH
      BY <2>5, <3>1, Shown
    <3> DEFINE p == prompt
               a == buf
    <3>3. p \in Seq(Byte) /\ a \in Seq(Byte) /\ Len(a) \in Nat /\ Len(p) \in Nat
      BY <2>1, LenProperties
    <3>4. 1 \in 0..Len(a)
      <4>1. Len(Pop(buf)) \in Nat
        BY <2>2, LenProperties
      <4> QED BY <2>1, <3>1, <4>1
    <3>5. Pop(a) = SubSeq(a, 1, Len(a) - 1)
      BY <2>2, <3>1, Zenon
    <3>6. Len(p) + Len(Pop(a)) <= BUFFER_WIDTH
      <4>1. BUFFER_WIDTH \in Nat
        BY ConsoleAssumption
      <4> QED BY <3>1, <3>2, <3>3, <4>1
    <3> HIDE DEF p, a
    <3>7. Erased(Cells(p \o a), 1) = Cells(p \o SubSeq(a, 1, Len(a) - 1))
      BY <3>3, <3>4, ErasedLine
    <3>8. row' = Cells(p \o Pop(a))
      BY <2>5, <3>2, <3>5, <3>7, Zenon DEF p, a
    <3> QED BY <2>5, <3>6, <3>8, Zenon DEF p, a
  <2>7. RowInv'
    BY <2>3, <2>5, <2>6, ShownAgain
  <2> QED BY <2>2, <2>3, <2>4, <2>5, <2>7 DEF LineInv, ConsoleInv, Idle
<1>3. CASE ArrowDown
  <2> DEFINE entry == IF down < Len(entries) THEN entries[down + 1] ELSE <<>>
  <2>1. /\ entries \in Seq(Seq(Byte)) /\ Len(entries) \in Nat
        /\ history_cursor \in 0..Len(entries)
    BY LenProperties DEF ConsoleInv
  <2>2. down \in 0..Len(entries)
    BY <2>1 DEF down
  <2>3. entry \in Seq(Byte)
    <3>1. CASE down < Len(entries)
      <4>1. down + 1 \in 1..Len(entries)
        BY <2>1, <2>2, <3>1
      <4> QED BY <2>1, <3>1, <4>1, ElementOfSeq
    <3>2. CASE ~ (down < Len(entries))
      BY <3>2, EmptySeq
    <3> QED BY <3>1, <3>2
  <2>4. /\ history_cursor' = down /\ Recalled(entry) /\ browsed' = TRUE /\ Idle
        /\ UNCHANGED <<entries, names, executing, halted, prompt>>
    BY <1>3 DEF ArrowDown
  <2> HIDE DEF entry
  <2>5. /\ buf' \in Seq(Byte) /\ row' = row /\ erasing' \in Nat /\ printing' \in Seq(Byte)
        /\ RowInv'
    BY <2>3, <2>4, RecalledStep
  <2> QED BY <2>2, <2>4, <2>5 DEF LineInv, ConsoleInv, Idle
<1> QED BY <1>1, <1>2, <1>3

\* The cursor is never behind the last entry when an arrow up has read it: the
\* vector is never read behind its end.
LEMMA ArrowUpStep ==
  ASSUME LineInv, ConsoleInv, RowInv, ArrowUp
  PROVE  /\ LineInv' /\ ConsoleInv' /\ RowInv' /\ UNCHANGED halted
         /\ ~browsed => buf' = entries[Len(entries)]
<1> DEFINE cursor == IF history_cursor > 0 THEN history_cursor - 1 ELSE 0
<1>1. /\ entries \in Seq(Seq(Byte)) /\ Len(entries) \in Nat
      /\ history_cursor \in 0..Len(entries) /\ Len(entries) # 0
  BY LenProperties, EmptySeq DEF ConsoleInv, ArrowUp
<1>2. cursor \in 0..(Len(entries) - 1) /\ cursor + 1 \in 1..Len(entries)
  BY <1>1
<1>3. cursor < Len(entries) /\ cursor \in 0..Len(entries)
  BY <1>1, <1>2
<1>4. entries[cursor + 1] \in Seq(Byte)
  BY <1>1, <1>2, ElementOfSeq
<1>5. /\ history_cursor' = cursor /\ Recalled(entries[cursor + 1]) /\ UNCHANGED halted
      /\ browsed' = TRUE /\ UNCHANGED <<entries, names, executing, prompt>> /\ Idle
  BY <1>3 DEF ArrowUp
<1>6. ~browsed => cursor + 1 = Len(entries)
  BY <1>1 DEF ConsoleInv
<1>7. buf' = entries[cursor + 1]
  BY <1>5 DEF Recalled
<1> HIDE DEF cursor
<1>8. /\ buf' \in Seq(Byte) /\ row' = row /\ erasing' \in Nat /\ printing' \in Seq(Byte)
      /\ RowInv'
  BY <1>4, <1>5, RecalledStep
<1> QED BY <1>3, <1>5, <1>6, <1>7, <1>8 DEF LineInv, ConsoleInv, Idle

LEMMA TabStep ==
  ASSUME LineInv, ConsoleInv, RowInv, Tab
  PROVE  /\ LineInv' /\ ConsoleInv' /\ RowInv'
         /\ UNCHANGED halted \/ \E n \in names : IsWide(n)
<1> DEFINE prefix == common_prefix(Completions)
           suffix == Rightmost(prefix, Len(prefix) - Len(partial))
           safe == \A c \in Completions : IsBoundary(c, Len(prefix))
<1>1. /\ suffix \in Seq(Byte)
      /\ ~safe => \E n \in names : IsWide(n)
  BY TabFacts DEF Tab
<1>2. UNCHANGED <<entries, history_cursor, names, executing, browsed, prompt>> /\ Idle
  BY DEF Tab
<1>3. \/ ~safe /\ Panic /\ UNCHANGED <<buf, row, printing, erasing, exact>>
      \/ UNCHANGED halted /\ Typed(suffix)
      \/ /\ UNCHANGED <<halted, buf, erasing>>
         /\ row' = <<>> /\ Redrawn(prompt \o buf)
  BY Zenon DEF Tab
<1> HIDE DEF suffix, safe
<1>4. CASE ~safe /\ Panic /\ UNCHANGED <<buf, row, printing, erasing, exact>>
  <2>1. halted' = TRUE /\ UNCHANGED <<buf, row, printing, erasing, exact>>
    BY <1>4 DEF Panic
  <2>2. RowInv'
    BY <1>2, <2>1, Zenon DEF RowInv
  <2> QED BY <1>1, <1>2, <1>4, <2>1, <2>2 DEF LineInv, ConsoleInv
<1>5. CASE UNCHANGED halted /\ Typed(suffix)
  <2>1. prompt' = prompt /\ executing' = executing /\ Typed(suffix)
    BY <1>2, <1>5
  <2>2. /\ buf' \in Seq(Byte) /\ row' \in Seq(Cell) /\ Len(row') <= BUFFER_WIDTH
        /\ UNCHANGED <<erasing, printing>> /\ RowInv'
    BY <1>1, <1>2, <2>1, TypedStep
  <2> QED BY <1>2, <1>5, <2>2 DEF LineInv, ConsoleInv, Idle
<1>6. CASE /\ UNCHANGED <<halted, buf, erasing>>
           /\ row' = <<>> /\ Redrawn(prompt \o buf)
  <2>1. prompt \in Seq(Byte) /\ buf \in Seq(Byte) /\ prompt \o buf \in Seq(Byte)
    BY TextAssumption, ConcatProperties DEF LineInv, ConsoleInv
  <2>2. printing' = prompt' \o buf' /\ prompt' = prompt /\ buf' = buf
    BY <1>2, <1>6 DEF Redrawn
  <2>3. exact' => row' = <<>> /\ Len(prompt' \o buf') <= BUFFER_WIDTH
    BY <1>6, <2>2, Zenon DEF Redrawn
  <2>4. ~executing' /\ erasing' = 0
    BY <1>2, <1>6 DEF Idle
  <2>5. RowInv'
    BY <2>1, <2>2, <2>3, <2>4, DrawnAnew
  <2>6. row' \in Seq(Cell) /\ Len(row') <= BUFFER_WIDTH /\ printing' \in Seq(Byte)
    BY <1>6, <2>1, <2>2, EmptySeq, ConsoleAssumption
  <2> QED BY <1>2, <1>6, <2>4, <2>5, <2>6 DEF LineInv, ConsoleInv
<1> QED BY <1>3, <1>4, <1>5, <1>6

\* The row while it is drawn: one cell less, one piece more.
LEMMA DrawSteps ==
  ASSUME LineInv, ConsoleInv, RowInv, EraseCell \/ PrintNext
  PROVE  LineInv' /\ ConsoleInv' /\ RowInv'
<1>1. /\ row \in Seq(Cell) /\ Len(row) <= BUFFER_WIDTH /\ erasing \in Nat
      /\ printing \in Seq(Byte) /\ Len(printing) \in Nat /\ Len(row) \in Nat
      /\ BUFFER_WIDTH \in Nat
  BY LenProperties, ConsoleAssumption DEF ConsoleInv
<1>2. CASE EraseCell
  <2>1. /\ erasing > 0 /\ erasing' = erasing - 1 /\ row' = Erased(row, 1)
        /\ UNCHANGED <<buf, entries, history_cursor, names, printing, executing, exact, browsed,
                       halted, prompt>>
    BY <1>2 DEF EraseCell
  <2>2. ~executing
    BY <1>1, <2>1 DEF ConsoleInv
  <2>3. Erased(row, 1) \in Seq(Cell) /\ Len(Erased(row, 1)) <= Len(row)
    BY <1>1, ErasedFacts
  <2>4. Len(row') <= BUFFER_WIDTH
    <3>1. Len(Erased(row, 1)) \in Nat
      BY <2>3, LenProperties
    <3> QED BY <1>1, <2>1, <2>3, <3>1
  <2>5. erasing \in Nat \ {0} /\ erasing - 1 \in Nat
    BY <1>1, <2>1
  <2>6. Erased(Erased(row, 1), erasing - 1) = Erased(row, erasing)
    BY <1>1, <2>5, ErasedTwice
  <2>7. RowInv'
    BY <2>1, <2>2, <2>6, Zenon DEF RowInv
  <2> QED BY <2>1, <2>2, <2>3, <2>4, <2>5, <2>7 DEF LineInv, ConsoleInv
<1>3. CASE PrintNext
  <2>1. /\ erasing = 0
        /\ UNCHANGED <<buf, entries, history_cursor, names, erasing, executing, exact, browsed,
                       halted, prompt>>
    BY <1>3 DEF PrintNext
  <2>2. PICK k \in 1..Len(printing) :
          /\ row' = Printed(row, SubSeq(printing, 1, k))
          /\ printing' = SubSeq(printing, k + 1, Len(printing))
    BY <1>3 DEF PrintNext
  <2> DEFINE all == printing
             one == SubSeq(all, 1, k)
             rest == SubSeq(all, k + 1, Len(all))
  <2>3. all \in Seq(Byte) /\ k \in 0..Len(all) /\ Len(all) \in Nat
    BY <1>1
  <2>4. ~executing
    <3>1. Len(printing) # 0
      BY <1>1
    <3> QED BY <3>1, EmptySeq DEF ConsoleInv
  <2>5. row' = Printed(row, one) /\ printing' = rest
    BY <2>2
  <2>6. exact => /\ Len(prompt) + Len(buf) <= BUFFER_WIDTH
                 /\ row \o Cells(all) = Cells(prompt \o buf)
    <3>1. Erased(row, 0) = row
      BY <1>1, ErasedNone
    <3> QED BY <2>1, <2>4, <3>1, Zenon DEF RowInv
  <2> HIDE DEF all
  <2>7. all = one \o rest
    BY <2>3, CutInTwo
  <2>8. /\ one \in Seq(Byte) /\ rest \in Seq(Byte) /\ Len(one) \in Nat /\ Len(rest) \in Nat
        /\ Len(one) + Len(rest) = Len(all)
    <3>1. /\ 1 \in Nat \ {0} /\ k \in Int /\ k <= Len(all) /\ k + 1 \in Nat \ {0}
          /\ Len(all) \in Int /\ Len(all) <= Len(all)
      BY <2>3
    <3>2. one \in Seq(Byte) /\ rest \in Seq(Byte)
      BY <2>3, <3>1, PartOf
    <3> HIDE DEF one, rest
    <3>3. Len(one \o rest) = Len(one) + Len(rest)
      BY <3>2, ConcatProperties
    <3> QED BY <2>7, <3>2, <3>3, LenProperties
  <2> HIDE DEF one, rest
  <2>9. row' \in Seq(Cell) /\ Len(row') <= BUFFER_WIDTH
    BY <1>1, <2>5, <2>8, PrintedFacts
  <2>10. ASSUME exact PROVE row' \o Cells(rest) = Cells(prompt \o buf)
    <3> DEFINE ca == Cells(all)
               co == Cells(one)
               cr == Cells(rest)
    <3>1. /\ ca \in Seq(Cell) /\ co \in Seq(Cell) /\ cr \in Seq(Cell)
          /\ Len(ca) = Len(all) /\ ca = co \o cr
      BY <2>3, <2>7, <2>8, CellsFacts, CellsConcat
    <3> HIDE DEF ca, co, cr
    <3>2. Len(row \o ca) = Len(prompt) + Len(buf)
      <4> DEFINE u == prompt \o buf
      <4>1. u \in Seq(Byte) /\ Len(u) = Len(prompt) + Len(buf)
        <5>1. prompt \in Seq(Byte) /\ buf \in Seq(Byte)
          BY TextAssumption DEF LineInv, ConsoleInv
        <5> QED BY <5>1, ConcatProperties
      <4>2. row \o ca = Cells(u)
        BY <2>6, <2>10, Zenon DEF ca
      <4> HIDE DEF u
      <4> QED BY <4>1, <4>2, CellsFacts
    <3>3. Len(row \o ca) = Len(row) + Len(ca)
      BY <1>1, <3>1, ConcatProperties
    <3>4. Len(prompt) + Len(buf) <= BUFFER_WIDTH
      BY <2>6, <2>10
    <3>5. Len(row) + Len(one) <= BUFFER_WIDTH
      <4> DEFINE pb == Len(prompt) + Len(buf)
      <4>1. pb = Len(row) + Len(all) /\ pb <= BUFFER_WIDTH
        BY <3>1, <3>2, <3>3, <3>4
      <4> HIDE DEF pb
      <4> QED BY <1>1, <2>8, <4>1
    <3>6. row' = row \o co
      BY <1>1, <2>5, <2>8, <3>5, PrintedFacts DEF co
    <3>7. (row \o co) \o cr = row \o (co \o cr)
      <4> DEFINE r == row
      <4>1. r \in Seq(Cell) /\ co \in Seq(Cell) /\ cr \in Seq(Cell)
        BY <1>1, <3>1
      <4> HIDE DEF r
      <4>2. (r \o co) \o cr = r \o (co \o cr)
        BY <4>1, ConcatAssociative
      <4> QED BY <4>2 DEF r
    <3>8. row' \o cr = row \o ca
      BY <3>1, <3>6, <3>7, Zenon
    <3> QED BY <2>6, <2>10, <3>8, Zenon DEF ca, cr
  <2>11. RowInv'
    <3>1. Erased(row', 0) = row'
      BY <2>9, ErasedNone
    <3> QED BY <2>1, <2>4, <2>5, <2>6, <2>10, <3>1, Zenon DEF RowInv
  <2> QED BY <2>1, <2>4, <2>5, <2>8, <2>9, <2>11 DEF LineInv, ConsoleInv
<1> QED BY <1>2, <1>3

\* A program prints on whatever is there; the row is no longer the console's.
LEMMA WriteStep ==
  ASSUME LineInv, ConsoleInv, NEW text \in Written, NEW newline \in BOOLEAN,
         sys_write(text, newline)
  PROVE  LineInv' /\ ConsoleInv' /\ RowInv'
<1> DEFINE on == IF newline THEN <<>> ELSE row
<1>1. on \in Seq(Cell) /\ text \in Seq(Byte)
  BY EmptySeq, ConsoleAssumption DEF ConsoleInv
<1>2. row' = Printed(on, text)
  BY DEF sys_write
<1> HIDE DEF on
<1>3. row' \in Seq(Cell) /\ Len(row') <= BUFFER_WIDTH
  BY <1>1, <1>2, PrintedFacts
<1>4. UNCHANGED <<buf, entries, history_cursor, names, erasing, printing, executing, browsed,
                  halted, prompt>>
  BY DEF sys_write
<1>5. RowInv'
  BY Zenon DEF sys_write, RowInv
<1> QED BY <1>3, <1>4, <1>5 DEF LineInv, ConsoleInv

LEMMA ConsoleSteps ==
  ASSUME LineInv, ConsoleInv, RowInv, ConsoleNext
  PROVE  /\ LineInv' /\ ConsoleInv' /\ RowInv'
         /\ UNCHANGED halted \/ \E n \in names : IsWide(n)
<1>1. CASE (\E c \in Chars : TypeChar(c)) \/ Backspace \/ ArrowDown
  BY <1>1, EditingSteps DEF TypeChar, Backspace, ArrowDown
<1>2. CASE Enter
  BY <1>2, EnterStep DEF Enter
<1>3. CASE execute_line
  BY <1>3, ExecuteStep DEF execute_line
<1>4. CASE Tab
  BY <1>4, TabStep
<1>5. CASE ArrowUp
  BY <1>5, ArrowUpStep
<1>6. CASE EraseCell \/ PrintNext
  BY <1>6, DrawSteps DEF EraseCell, PrintNext
<1>7. CASE \E text \in Written, newline \in BOOLEAN : sys_write(text, newline)
  BY <1>7, WriteStep DEF sys_write
<1> QED BY <1>1, <1>2, <1>3, <1>4, <1>5, <1>6, <1>7 DEF ConsoleNext

(***************************************************************************)
(* A machine with one of the two                                           *)
(***************************************************************************)
FrontInv ==
  /\ LineInv /\ ConsoleInv /\ TerminalInv
  /\ front = "text" => RowInv

LEMMA FrontInitially == Init => FrontInv
BY ConsoleInitially, TerminalInitially DEF Init, FrontInv

LEMMA FrontSteps == FrontInv /\ [Next]_vars => FrontInv'
<1> SUFFICES ASSUME FrontInv, [Next]_vars
             PROVE  FrontInv'
  OBVIOUS
<1>1. CASE ConsoleStep
  <2>1. /\ LineInv /\ ConsoleInv /\ RowInv /\ TerminalInv
        /\ ConsoleNext /\ UNCHANGED tvars /\ UNCHANGED front
    BY <1>1 DEF ConsoleStep, FrontInv
  <2>2. LineInv' /\ ConsoleInv' /\ RowInv'
    BY <2>1, ConsoleSteps
  <2>3. TerminalInv'
    BY <2>1 DEF TerminalInv, tvars
  <2> QED BY <2>2, <2>3 DEF FrontInv
<1>2. CASE WindowStep
  <2>1. /\ LineInv /\ ConsoleInv /\ TerminalInv /\ front = "gui"
        /\ TerminalNext /\ UNCHANGED cvars /\ UNCHANGED front
    BY <1>2 DEF WindowStep, FrontInv
  <2>2. LineInv' /\ TerminalInv'
    BY <2>1, TerminalSteps
  <2>3. ConsoleInv'
    BY <2>1 DEF ConsoleInv, cvars, NoRepeats
  <2>4. front' # "text"
    BY <2>1
  <2> QED BY <2>2, <2>3, <2>4 DEF FrontInv
<1>3. CASE UNCHANGED vars
  <2>1. UNCHANGED <<halted, prompt, front, buf, entries, history_cursor, names, row, erasing,
                    printing, executing, exact, browsed, lines, input_buf>>
    BY <1>3 DEF vars, cvars, tvars
  <2>2. RowInv => RowInv'
    BY <2>1, Zenon DEF RowInv
  <2>3. LineInv' /\ ConsoleInv' /\ TerminalInv'
    BY <2>1 DEF LineInv, ConsoleInv, TerminalInv, NoRepeats, FrontInv
  <2> QED BY <2>1, <2>2, <2>3 DEF FrontInv
<1> QED BY <1>1, <1>2, <1>3 DEF Next, hlt_loop

LEMMA FrontInvariant == Spec => []FrontInv
BY FrontInitially, FrontSteps, PTL DEF Spec

\* TypeOK in every state: the row, the history and the rows of the window keep to
\* their sizes, whatever is typed, completed, recalled and printed.
THEOREM FrontEndsTypes == Spec => []TypeOK
<1>1. FrontInv => TypeOK
  <2> SUFFICES ASSUME FrontInv PROVE TypeOK
    OBVIOUS
  <2>1. ConsoleTypeOK
    BY DEF FrontInv, ConsoleInv, NoRepeats, ConsoleTypeOK
  <2>2. \A i \in DOMAIN lines : Len(lines[i]) <= COLS
    <3>1. lines \in Seq(Row)
      BY DEF FrontInv, TerminalInv
    <3>2. DOMAIN lines = 1..Len(lines) /\ \A i \in 1..Len(lines) : lines[i] \in Row
      BY <3>1, LenProperties, ElementOfSeq
    <3> QED BY <3>2 DEF Row
  <2> QED BY <2>1, <2>2 DEF FrontInv, LineInv, TerminalInv, TerminalTypeOK, TypeOK
<1> QED BY <1>1, FrontInvariant, PTL

\* ScreenShowsInput in every state: what the user sees on the row is what Enter
\* would execute, for prompts, lines and rows of any length.
THEOREM TheScreenShowsInput == Spec => []ScreenShowsInput
<1>1. FrontInv => ScreenShowsInput
  BY Shown, Zenon DEF FrontInv, ScreenShowsInput
<1> QED BY <1>1, FrontInvariant, PTL

\* FirstUpRecallsLast of every step: the history's cursor is behind the last entry
\* whenever browsing begins, also after a repeated line.
THEOREM UpRecallsLast == Spec => FirstUpRecallsLast
<1>1. FrontInv /\ [Next]_vars
        => [ArrowUp /\ ~browsed /\ ~halted' => buf' = entries[Len(entries)]]_cvars
  <2> SUFFICES ASSUME FrontInv, [Next]_vars, ~ UNCHANGED cvars, ArrowUp, ~browsed
               PROVE  buf' = entries[Len(entries)]
    BY Zenon
  <2>1. CASE ConsoleStep
    <3>1. LineInv /\ ConsoleInv /\ RowInv
      BY <2>1 DEF ConsoleStep, FrontInv
    <3> QED BY <3>1, ArrowUpStep
  <2>2. CASE ~ConsoleStep
    BY <2>2 DEF Next, WindowStep, hlt_loop, vars
  <2> QED BY <2>1, <2>2
<1> QED BY <1>1, FrontInvariant, PTL DEF Spec, FirstUpRecallsLast

\* WrappingKeepsText of every step: whatever the width, the cuts and what has
\* scrolled away, the rows put together are the end of the text.
THEOREM WrappingKeeps == Spec => WrappingKeepsText
<1> DEFINE Kept ==
      \A cleared \in BOOLEAN, output \in Outputs :
        execute_command(cleared, output) /\ ~halted' =>
          LET run   == trim(input_buf) # <<>>
              typed == IF run /\ cleared THEN <<>>
                       ELSE FlattenSeq(lines) \o prompt \o input_buf
              all   == typed \o (IF run THEN FlattenSeq(output) ELSE <<>>)
          IN  /\ IsSuffix(FlattenSeq(lines'), all)
              /\ Len(lines') < MAX_SCROLLBACK => FlattenSeq(lines') = all
<1>1. FrontInv => Kept
  BY ExecuteKeepsText, Zenon DEF FrontInv
<1> HIDE DEF Kept
<1>2. Spec => [][Kept]_tvars
  BY <1>1, FrontInvariant, PTL
<1> QED BY <1>2 DEF WrappingKeepsText, Kept

\* PanicNeedsWideChar of every step: nothing that is typed, completed or recalled
\* halts the kernel, unless a character of several bytes is about.
THEOREM PanicsNeedWideChars == Spec => PanicNeedsWideChar
<1>1. FrontInv /\ [Next]_vars =>
        [~halted /\ halted' =>
           \/ IsWide(prompt \o buf \o input_buf)
           \/ front = "text" /\ \E n \in names : IsWide(n)
           \/ front = "gui" /\ \E o \in Outputs : \E i \in DOMAIN o : IsWide(o[i])]_vars
  <2> SUFFICES ASSUME FrontInv, Next, ~halted, halted'
               PROVE  \/ IsWide(prompt \o buf \o input_buf)
                      \/ front = "text" /\ \E n \in names : IsWide(n)
                      \/ front = "gui" /\ \E o \in Outputs : \E i \in DOMAIN o : IsWide(o[i])
    BY Zenon
  <2>1. CASE ConsoleStep
    <3>1. LineInv /\ ConsoleInv /\ RowInv /\ ConsoleNext /\ front = "text"
      BY <2>1 DEF ConsoleStep, FrontInv
    <3>2. UNCHANGED halted \/ \E n \in names : IsWide(n)
      BY <3>1, ConsoleSteps
    <3>3. ~ UNCHANGED halted
      BY Zenon
    <3> QED BY <3>1, <3>2, <3>3
  <2>2. CASE WindowStep
    <3>1. LineInv /\ TerminalInv /\ TerminalNext /\ front = "gui" /\ buf \in Seq(Byte)
      BY <2>2 DEF WindowStep, FrontInv, ConsoleInv
    <3> QED BY <3>1, WindowPanics
  <2>3. CASE hlt_loop
    BY <2>3 DEF hlt_loop
  <2> QED BY <2>1, <2>2, <2>3 DEF Next
<1> QED BY <1>1, FrontInvariant, PTL DEF Spec, PanicNeedsWideChar

===============================================================================
