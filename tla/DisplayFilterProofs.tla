------------------------- MODULE DisplayFilterProofs -------------------------
(***************************************************************************)
(* Theorems about DisplayFilter.                                           *)
(***************************************************************************)
EXTENDS DisplayFilter, RecursionLemmas, SequenceTheorems

-------------------------------------------------------------------------------
(* Keep *)

\* InOrder is its recursive definition.
LEMMA InOrderSteps ==
  ASSUME NEW P, NEW n \in Nat
  PROVE  \E f \in [0..n -> Seq(1..n)] :
           /\ InOrder(P, n) = f[n]
           /\ f[0] = << >>
           /\ \A i \in 1..n : f[i] = IF i \in P THEN Append(f[i-1], i) ELSE f[i-1]
PROOF
<1> DEFINE T == Seq(1..n)
           Value(i, t) == IF i \in P THEN Append(t, i) ELSE t
           step == [x \in (1..n) \X T |-> Value(x[1], x[2])]
<1>1. << >> \in T
      OBVIOUS
<1>2. \A i \in 1..n, t \in T : Value(i, t) \in T
  <2> TAKE i \in 1..n, t \in T
  <2>1. Append(t, i) \in Seq(1..n)
        OBVIOUS
  <2> QED BY <2>1
<1> HIDE DEF T, Value
<1>3. step \in [(1..n) \X T -> T]
      BY <1>2
<1>4. \A i \in 1..n, t \in T : step[<<i, t>>] = Value(i, t)
      OBVIOUS
<1> HIDE DEF step
<1>5. PICK f \in [0..n -> T] : Built(f, << >>, step, n)
      BY <1>1, <1>3, Recursion
<1>6. \A i \in 1..n : i - 1 \in 0..n /\ f[i] = Value(i, f[i-1])
  <2> TAKE i \in 1..n
  <2>1. i - 1 \in 0..n
        OBVIOUS
  <2>2. f[i-1] \in T
        BY <2>1
  <2> QED BY <1>4, <1>5, <2>1, <2>2 DEF Built
<1> DEFINE Def(g) == [i \in 0..n |-> IF i = 0 THEN << >> ELSE Value(i, g[i-1])]
           kept == CHOOSE g : g = Def(g)
<1>7. f = Def(f)
      BY <1>5, <1>6 DEF Built
<1>8. kept = Def(kept)
  <2> HIDE DEF Def
  <2> QED BY <1>7
<1>9. InOrder(P, n) = kept[n]
      BY DEF InOrder, Value
<1> HIDE DEF kept
<1>10. kept[0] = << >> /\ \A i \in 1..n : kept[i] = Value(i, kept[i-1])
       BY <1>8
<1> DEFINE Same == {i \in 0..n : kept[i] = f[i]}
<1>11. 0 \in Same
       BY <1>5, <1>10 DEF Built
<1>12. ASSUME NEW i \in 0..n, i \in Same, i < n PROVE i + 1 \in Same
  <2>1. i + 1 \in 1..n /\ i + 1 \in 0..n /\ (i + 1) - 1 = i
        BY <1>12
  <2>2. kept[i+1] = Value(i + 1, kept[i]) /\ f[i+1] = Value(i + 1, f[i])
        BY <1>6, <1>10, <2>1
  <2> QED BY <1>12, <2>1, <2>2
<1>13. kept[n] = f[n]
  <2> HIDE DEF Same
  <2>1. 0..n \subseteq Same
        BY <1>11, <1>12, Counting
  <2> QED BY <2>1 DEF Same
<1> QED BY <1>5, <1>6, <1>9, <1>13 DEF Built, T, Value

\* The positions of P up to n, each once and in order.
Orders(at, P, n) ==
  /\ at \in Seq(1..n)
  /\ \A i, j \in DOMAIN at : i < j => at[i] < at[j]
  /\ \A i \in DOMAIN at : at[i] \in P
  /\ \A p \in 1..n : p \in P => \E i \in DOMAIN at : at[i] = p

\* InOrder lists the positions in order.
LEMMA InOrderOrders ==
  ASSUME NEW P, NEW n \in Nat
  PROVE  Orders(InOrder(P, n), P, n)
PROOF
<1>1. PICK f \in [0..n -> Seq(1..n)] :
        /\ InOrder(P, n) = f[n]
        /\ f[0] = << >>
        /\ \A i \in 1..n : f[i] = IF i \in P THEN Append(f[i-1], i) ELSE f[i-1]
      BY InOrderSteps
<1> DEFINE Right == {k \in 0..n : Orders(f[k], P, k)}
<1>2. 0 \in Right
      BY <1>1 DEF Orders
<1>3. ASSUME NEW k \in 0..n, k \in Right, k < n PROVE k + 1 \in Right
  <2>1. k \in Nat /\ k + 1 \in 0..n /\ k + 1 \in 1..n /\ (k + 1) - 1 = k
        BY <1>3
  <2>2. f[k+1] = IF k + 1 \in P THEN Append(f[k], k + 1) ELSE f[k]
        BY <1>1, <2>1
  <2>3. Orders(f[k], P, k)
        BY <1>3
  <2>4. f[k] \in Seq(1..k) /\ Len(f[k]) \in Nat /\ DOMAIN f[k] = 1..Len(f[k])
        BY <2>3 DEF Orders
  <2>5. CASE k + 1 \notin P
    <3>1. f[k] \in Seq(1..k+1)
          BY <2>4
    <3>2. \A p \in 1..k+1 : p \in P => p \in 1..k
      <4> SUFFICES ASSUME NEW p \in 1..k+1, p \in P PROVE p \in 1..k
          OBVIOUS
      <4>1. p # k + 1
            BY <2>5
      <4> QED BY <2>1, <4>1
    <3> QED BY <2>1, <2>2, <2>3, <2>5, <3>1, <3>2 DEF Orders
  <2>6. CASE k + 1 \in P
    <3> DEFINE at == Append(f[k], k + 1)
    <3>1. at \in Seq(1..k+1)
      <4>1. f[k] \in Seq(1..k+1) /\ k + 1 \in 1..k+1
            BY <2>4
      <4> QED BY <4>1
    <3>2. /\ DOMAIN at = 1..Len(f[k])+1
          /\ \A i \in 1..Len(f[k]) : at[i] = f[k][i] /\ f[k][i] \in 1..k
          /\ at[Len(f[k])+1] = k + 1
          BY <2>4
    <3> HIDE DEF at
    <3>3. \A i, j \in DOMAIN at : i < j => at[i] < at[j]
      <4> SUFFICES ASSUME NEW i \in DOMAIN at, NEW j \in DOMAIN at, i < j
                   PROVE  at[i] < at[j]
          OBVIOUS
      <4>1. i \in 1..Len(f[k])
            BY <3>2, <2>4
      <4>2. CASE j = Len(f[k]) + 1
        <5>1. at[i] \in 1..k
              BY <3>2, <4>1
        <5>2. at[j] = k + 1
              BY <3>2, <4>2
        <5> QED BY <2>1, <5>1, <5>2
      <4>3. CASE j \in 1..Len(f[k])
            BY <2>3, <2>4, <3>2, <4>1, <4>3 DEF Orders
      <4> QED BY <3>2, <2>4, <4>2, <4>3
    <3>4. \A i \in DOMAIN at : at[i] \in P
      <4> SUFFICES ASSUME NEW i \in DOMAIN at PROVE at[i] \in P
          OBVIOUS
      <4>1. CASE i = Len(f[k]) + 1
            BY <2>6, <3>2, <4>1
      <4>2. CASE i # Len(f[k]) + 1
        <5>1. i \in 1..Len(f[k])
              BY <2>4, <3>2, <4>2
        <5>2. at[i] = f[k][i] /\ f[k][i] \in P
              BY <2>3, <2>4, <3>2, <5>1 DEF Orders
        <5> QED BY <5>2
      <4> QED BY <4>1, <4>2
    <3>5. \A p \in 1..k+1 : p \in P => \E i \in DOMAIN at : at[i] = p
      <4> SUFFICES ASSUME NEW p \in 1..k+1, p \in P
                   PROVE  \E i \in DOMAIN at : at[i] = p
          OBVIOUS
      <4>1. CASE p = k + 1
        <5>1. Len(f[k]) + 1 \in DOMAIN at
              BY <2>4, <3>2
        <5> QED BY <3>2, <4>1, <5>1
      <4>2. CASE p \in 1..k
        <5>1. PICK i \in DOMAIN f[k] : f[k][i] = p
              BY <2>3, <4>2 DEF Orders
        <5>2. i \in DOMAIN at
              BY <2>4, <3>2
        <5> QED BY <2>4, <3>2, <5>1, <5>2
      <4> QED BY <4>1, <4>2
    <3>6. f[k+1] = at
          BY <2>2, <2>6 DEF at
    <3> QED BY <2>1, <3>1, <3>3, <3>4, <3>5, <3>6 DEF Orders
  <2> QED BY <2>5, <2>6
<1>4. n \in Right
  <2> HIDE DEF Right
  <2>1. 0..n \subseteq Right
        BY <1>2, <1>3, Counting
  <2> QED BY <2>1
<1> QED BY <1>1, <1>4

\* What Keep keeps, it keeps in order; between two pieces that are side by side
\* then, it has dropped all.
LEMMA KeepIs ==
  ASSUME NEW T, NEW t \in Seq(T), NEW P
  PROVE  \E at \in Seq(1..Len(t)) :
           /\ Orders(at, P, Len(t))
           /\ Keep(t, P) = [j \in DOMAIN at |-> t[at[j]]]
           /\ Keep(t, P) \in Seq(T)
           /\ Len(Keep(t, P)) = Len(at)
PROOF
<1> DEFINE at == InOrder(P, Len(t))
<1>1. Len(t) \in Nat
      OBVIOUS
<1>2. Orders(at, P, Len(t))
      BY <1>1, InOrderOrders
<1>3. Keep(t, P) = [j \in DOMAIN at |-> t[at[j]]]
      BY DEF Keep
<1> HIDE DEF at
<1>4. at \in Seq(1..Len(t)) /\ DOMAIN at = 1..Len(at) /\ Len(at) \in Nat
      BY <1>2 DEF Orders
<1>5. \A j \in 1..Len(at) : at[j] \in 1..Len(t)
      BY <1>4
<1>6. \A j \in 1..Len(at) : t[at[j]] \in T
      BY <1>5
<1>7. Keep(t, P) \in Seq(T) /\ Len(Keep(t, P)) = Len(at)
      BY <1>3, <1>4, <1>6
<1> QED BY <1>2, <1>3, <1>4, <1>7

\* No position is between two that follow each other.
LEMMA NothingBetween ==
  ASSUME NEW P, NEW n \in Nat, NEW at, Orders(at, P, n),
         NEW i \in 1..Len(at)-1, NEW p \in 1..n, at[i] < p, p < at[i+1]
  PROVE  p \notin P
PROOF
<1> SUFFICES ASSUME p \in P PROVE FALSE
    OBVIOUS
<1>1. at \in Seq(1..n) /\ Len(at) \in Nat /\ DOMAIN at = 1..Len(at)
      BY DEF Orders
<1>2. PICK j \in 1..Len(at) : at[j] = p
      BY <1>1 DEF Orders
<1>3. i \in 1..Len(at) /\ i + 1 \in 1..Len(at)
      BY <1>1
<1>4. at[i] \in 1..n /\ at[i+1] \in 1..n
      BY <1>1, <1>3
<1>5. CASE j < i
  <2>1. at[j] < at[i]
        BY <1>1, <1>2, <1>3, <1>5 DEF Orders
  <2> QED BY <1>2, <1>4, <2>1
<1>6. CASE j > i + 1
  <2>1. at[i+1] < at[j]
        BY <1>1, <1>2, <1>3, <1>6 DEF Orders
  <2> QED BY <1>2, <1>4, <2>1
<1>7. CASE j = i \/ j = i + 1
      BY <1>2, <1>4, <1>7
<1> QED BY <1>3, <1>5, <1>6, <1>7

-------------------------------------------------------------------------------
(* Runs of line ends *)

NoRun(t) == \A i \in 1..Len(t)-2 : ~(t[i] = NL /\ t[i+1] = NL /\ t[i+2] = NL)

\* _BLANK_LINES_RE leaves no three line ends in a row.
LEMMA FoldedHasNoRun ==
  ASSUME NEW T, NEW t \in Seq(T)
  PROVE  FoldBlankLines(t) \in Seq(T) /\ NoRun(FoldBlankLines(t))
PROOF
<1> DEFINE n == Len(t)
           P == {i \in DOMAIN t : ~(i > 2 /\ t[i] = NL /\ t[i-1] = NL /\ t[i-2] = NL)}
           folded == Keep(t, P)
<1>1. FoldBlankLines(t) = folded
      BY DEF FoldBlankLines
<1>2. PICK at \in Seq(1..n) : /\ Orders(at, P, n)
                              /\ folded = [j \in DOMAIN at |-> t[at[j]]]
                              /\ folded \in Seq(T)
                              /\ Len(folded) = Len(at)
  <2> HIDE DEF P
  <2> QED BY KeepIs
<1>3. n \in Nat /\ DOMAIN t = 1..n
      OBVIOUS
<1>4. \A p \in 1..n : p \notin P => p > 2 /\ t[p] = NL /\ t[p-1] = NL /\ t[p-2] = NL
      BY <1>3
<1>5. \A p \in P : ~(p > 2 /\ t[p] = NL /\ t[p-1] = NL /\ t[p-2] = NL)
      OBVIOUS
<1> HIDE DEF P, folded, n
<1>6. ASSUME NEW i \in 1..Len(folded)-2,
             folded[i] = NL, folded[i+1] = NL, folded[i+2] = NL
      PROVE  FALSE
  <2>1. /\ Len(at) \in Nat /\ DOMAIN at = 1..Len(at)
        /\ i \in 1..Len(at) /\ i + 1 \in 1..Len(at) /\ i + 2 \in 1..Len(at)
        /\ at \in Seq(1..n)
        BY <1>2, <1>6 DEF Orders
  <2> DEFINE a == at[i]
             b == at[i+1]
             c == at[i+2]
  <2>2. a \in 1..n /\ b \in 1..n /\ c \in 1..n
    <3>1. \A j \in 1..Len(at) : at[j] \in 1..n
          BY <1>3, <2>1
    <3> HIDE DEF a, b, c
    <3> QED BY <2>1, <3>1 DEF a, b, c
  <2>3. a < b /\ b < c /\ c \in P
        BY <1>2, <2>1 DEF Orders
  <2>4. t[a] = NL /\ t[b] = NL /\ t[c] = NL
        BY <1>2, <1>6, <2>1
  <2>5. \A p \in 1..n : a < p /\ p < b => p \notin P
        BY <1>2, <1>3, <2>1, NothingBetween DEF n
  <2>6. \A p \in 1..n : b < p /\ p < c => p \notin P
    <3>1. i + 1 \in 1..Len(at)-1 /\ (i + 1) + 1 = i + 2
          BY <2>1
    <3> QED BY <1>2, <1>3, <3>1, NothingBetween DEF n
  <2> HIDE DEF a, b, c
  <2>7. c > 2 /\ c - 1 \in 1..n /\ c - 2 \in 1..n
        BY <1>3, <2>2, <2>3
  <2>8. t[c-1] = NL
    <3>1. CASE c - 1 = b
          BY <2>4, <3>1
    <3>2. CASE c - 1 # b
      <4>1. b < c - 1 /\ c - 1 < c
            BY <2>2, <2>3, <3>2
      <4> QED BY <1>4, <2>6, <2>7, <4>1
    <3> QED BY <3>1, <3>2
  <2>9. t[c-2] = NL
    <3>1. CASE c - 2 = b \/ c - 2 = a
          BY <2>4, <3>1
    <3>2. CASE b < c - 2
      <4>1. c - 2 < c
            BY <2>2
      <4> QED BY <1>4, <2>6, <2>7, <3>2, <4>1
    <3>3. CASE a < c - 2 /\ c - 2 < b
          BY <1>4, <2>5, <2>7, <3>3
    <3> QED BY <2>2, <2>3, <3>1, <3>2, <3>3
  <2> QED BY <1>5, <2>3, <2>4, <2>7, <2>8, <2>9
<1> QED BY <1>1, <1>2, <1>6 DEF NoRun

-------------------------------------------------------------------------------
(* Every step of strip_display_noise makes a text of a text.               *)

\* What is shown: the pieces that arrive and the character an entity stands for.
Glyph == Piece \cup {Greater}

\* What arrives can be shown.
LEMMA PieceIsGlyph == Seq(Piece) \subseteq Seq(Glyph)
BY DEF Glyph

\* What is kept of a text is a text.
LEMMA KeepIsText ==
  ASSUME NEW t \in Seq(Glyph), NEW P
  PROVE  Keep(t, P) \in Seq(Glyph)
BY KeepIs

\* What is left without tags and entities is a text.
LEMMA StripIsText ==
  ASSUME NEW t \in Seq(Glyph)
  PROVE  StripTagsAndEntities(t) \in Seq(Glyph)
PROOF
<1>1. \A block : \A u \in Seq(Glyph) : Erase(u, block) \in Seq(Glyph)
      BY KeepIsText DEF Erase
<1>2. EraseBlocks(t) \in Seq(Glyph)
      BY <1>1 DEF EraseBlocks
<1>3. \A u \in Seq(Glyph) : EraseTags(u) \in Seq(Glyph)
      BY KeepIsText DEF EraseTags
<1>4. ASSUME NEW u \in Seq(Glyph) PROVE Unescape(u) \in Seq(Glyph)
  <2> DEFINE Entity(i) == i \in 1..Len(u)-1 /\ u[i] = Amp /\ u[i+1] = Semi
             seen == [i \in 1..Len(u) |-> IF Entity(i) THEN Greater ELSE u[i]]
  <2>1. \A i \in 1..Len(u) : u[i] \in Glyph
        OBVIOUS
  <2>2. seen \in Seq(Glyph)
    <3> HIDE DEF Entity
    <3>1. \A i \in 1..Len(u) : (IF Entity(i) THEN Greater ELSE u[i]) \in Glyph
          BY <2>1 DEF Glyph
    <3> QED BY <3>1
  <2>3. Unescape(u) = Keep(seen, {i \in DOMAIN u : ~Entity(i-1)})
        BY DEF Unescape
  <2> HIDE DEF seen
  <2> QED BY <2>2, <2>3, KeepIsText
<1> QED BY <1>2, <1>3, <1>4 DEF StripTagsAndEntities

\* A normalized text is a text.
LEMMA NormalizeIsText ==
  ASSUME NEW t \in Seq(Glyph)
  PROVE  Normalize(t) \in Seq(Glyph)
BY KeepIsText DEF Normalize

\* What strip_display_noise returns is a text without a run of line ends.
LEMMA StrippedHasNoRun ==
  ASSUME NEW t \in Seq(Glyph)
  PROVE  StripDisplayNoise(t) \in Seq(Glyph) /\ NoRun(StripDisplayNoise(t))
PROOF
<1>1. StripTagsAndEntities(Normalize(t)) \in Seq(Glyph)
      BY NormalizeIsText, StripIsText
<1>2. FoldWhitespaceLines(StripTagsAndEntities(Normalize(t))) \in Seq(Glyph)
      BY <1>1, KeepIsText DEF FoldWhitespaceLines
<1> QED BY <1>2, FoldedHasNoRun DEF StripDisplayNoise

-------------------------------------------------------------------------------
(* The cutoff lies in the text.                                            *)

\* One piece in _first_unclosed_position: the openings that wait after it.
Walk(t, block, open, i) == IF IsTagIn(t, i, block.opens) THEN Append(open, i)
                           ELSE IF IsTagIn(t, i, block.shuts) /\ open # << >> THEN Tail(open)
                           ELSE open

\* f is what waits after each piece of t.
Openings(f, t, block, n) == /\ StillOpen(t, block) = f[n]
                            /\ f[0] = << >>
                            /\ \A i \in 1..n : f[i] = Walk(t, block, f[i-1], i)

\* The positions still open are found piece by piece.
LEMMA StillOpenSteps ==
  ASSUME NEW t \in Seq(Glyph), NEW block, NEW n, n = Len(t)
  PROVE  \E f \in [0..n -> Seq(1..n)] : Openings(f, t, block, n)
PROOF
<1> DEFINE T == Seq(1..n)
           step == [x \in (1..n) \X T |-> Walk(t, block, x[2], x[1])]
<1>1. n \in Nat /\ << >> \in T
      OBVIOUS
<1>2. \A i \in 1..n, open \in T : Walk(t, block, open, i) \in T
  <2> TAKE i \in 1..n, open \in T
  <2>1. Append(open, i) \in Seq(1..n)
        OBVIOUS
  <2>2. open # << >> => Tail(open) \in Seq(1..n)
        OBVIOUS
  <2> QED BY <2>1, <2>2 DEF Walk
<1> HIDE DEF T
<1>3. step \in [(1..n) \X T -> T]
      BY <1>2
<1>4. \A i \in 1..n, open \in T : step[<<i, open>>] = Walk(t, block, open, i)
      OBVIOUS
<1> HIDE DEF step
<1>5. PICK f \in [0..n -> T] : Built(f, << >>, step, n)
      BY <1>1, <1>3, Recursion
<1>6. \A i \in 1..n : i - 1 \in 0..n /\ f[i] = Walk(t, block, f[i-1], i)
  <2> TAKE i \in 1..n
  <2>1. i - 1 \in 0..n
        BY <1>1
  <2>2. f[i-1] \in T
        BY <2>1
  <2> QED BY <1>4, <1>5, <2>1, <2>2 DEF Built
<1> DEFINE Def(g) == [i \in 0..n |-> IF i = 0 THEN << >> ELSE Walk(t, block, g[i-1], i)]
           after == CHOOSE g : g = Def(g)
<1>7. f = Def(f)
      BY <1>5, <1>6 DEF Built
<1>8. after = Def(after)
  <2> HIDE DEF Def
  <2> QED BY <1>7
<1>9. StillOpen(t, block) = after[n]
      BY DEF StillOpen, Walk
<1> HIDE DEF after
<1>13. after[0] = << >> /\ \A i \in 1..n : after[i] = Walk(t, block, after[i-1], i)
       BY <1>1, <1>8
<1> DEFINE Same == {i \in 0..n : after[i] = f[i]}
<1>10. 0 \in Same
       BY <1>1, <1>5, <1>13 DEF Built
<1>11. ASSUME NEW i \in 0..n, i \in Same, i < n PROVE i + 1 \in Same
  <2>1. i + 1 \in 1..n /\ i + 1 \in 0..n /\ (i + 1) - 1 = i
        BY <1>1, <1>11
  <2>2. /\ after[i+1] = Walk(t, block, after[i], i + 1)
        /\ f[i+1] = Walk(t, block, f[i], i + 1)
        BY <1>6, <1>13, <2>1
  <2> QED BY <1>11, <2>1, <2>2
<1>12. after[n] = f[n]
  <2> HIDE DEF Same
  <2>1. 0..n \subseteq Same
        BY <1>1, <1>10, <1>11, Counting
  <2> QED BY <1>1, <2>1 DEF Same
<1>14. Openings(f, t, block, n)
       BY <1>5, <1>6, <1>9, <1>12 DEF Built, Openings
<1> QED BY <1>14 DEF T

\* The openings that _first_unclosed_position leaves are positions of the text.
LEMMA StillOpenAreThere ==
  ASSUME NEW t \in Seq(Glyph), NEW block
  PROVE  StillOpen(t, block) \in Seq(1..Len(t))
PROOF
<1>1. PICK f \in [0..Len(t) -> Seq(1..Len(t))] : Openings(f, t, block, Len(t))
      BY StillOpenSteps
<1>2. Len(t) \in 0..Len(t)
      OBVIOUS
<1> QED BY <1>1, <1>2 DEF Openings

\* Each of the five holdbacks, given the cutoff the one before it left, leaves one
\* within the text, so feed() parts its buffer in two whatever is in it.
THEOREM CutoffIsThere ==
  ASSUME NEW t \in Seq(Glyph)
  PROVE  Cutoff(t) \in 0..Len(t)
PROOF
<1> DEFINE n == Len(t)
<1>1. n \in Nat
      OBVIOUS
<1>2. \A block : FirstUnclosed(t, block) \subseteq 1..n
  <2> TAKE block
  <2>1. StillOpen(t, block) \in Seq(1..n)
        BY StillOpenAreThere
  <2>2. StillOpen(t, block) # << >> => StillOpen(t, block)[1] \in 1..n
        BY <2>1
  <2> QED BY <2>2 DEF FirstUnclosed
<1>3. EarliestUnclosed(t) \in 0..n
  <2> DEFINE S == {n + 1} \cup UNION {FirstUnclosed(t, Dropped[k]) : k \in DOMAIN Dropped}
  <2>1. S \subseteq 1..n+1 /\ S # {}
        BY <1>1, <1>2
  <2>2. EarliestUnclosed(t) = Min(S) - 1
        BY DEF EarliestUnclosed
  <2> HIDE DEF S, n
  <2>3. S \in SUBSET Nat
        BY <1>1, <2>1
  <2>4. Min(S) \in 1..n+1
        BY <2>1, <2>3, MinIs
  <2> QED BY <1>1, <2>2, <2>4
<1> HIDE DEF n
<1>4. \A c \in 0..n : HoldBackTag(t, c) \in 0..n
      BY <1>1 DEF HoldBackTag, HoldBackLast
<1>5. \A c \in 0..n : HoldBackEntity(t, c) \in 0..n
      BY <1>1 DEF HoldBackEntity, HoldBackLast
<1>6. \A c \in 0..n : HoldBackCR(t, c) \in 0..n
      BY <1>1 DEF HoldBackCR, HoldBackLast
<1>7. ASSUME NEW c \in 0..n PROVE HoldBackRiskyLine(t, c) \in 0..n
  <2> DEFINE S == {0} \cup {i \in 1..c : t[i] = NL}
  <2>1. S \in SUBSET (0..n) /\ S # {}
        BY <1>1
  <2>2. HoldBackRiskyLine(t, c) \in {Max(S), c}
        BY DEF HoldBackRiskyLine
  <2> HIDE DEF S
  <2>3. Max(S) \in 0..n
        BY <1>1, <2>1, MaxIs
  <2> QED BY <2>2, <2>3
<1> QED BY <1>3, <1>4, <1>5, <1>6, <1>7 DEF Cutoff, n

-------------------------------------------------------------------------------
(* Line ends at the beginning and at the end of a text                     *)

Begins(t, k)   == /\ k \in 0..Len(t)
                  /\ \A i \in 1..k : t[i] = NL
                  /\ k = Len(t) \/ t[k+1] # NL
Finishes(t, k) == /\ k \in 0..Len(t)
                  /\ \A i \in Len(t)-k+1..Len(t) : t[i] = NL
                  /\ k = Len(t) \/ t[Len(t)-k] # NL

\* A text begins with its leading line ends.
LEMMA LeadingIs ==
  ASSUME NEW T, NEW t \in Seq(T)
  PROVE  Begins(t, Leading(t))
PROOF
<1> DEFINE Stops == {k \in 0..Len(t) : k = Len(t) \/ t[k+1] # NL}
<1>1. Len(t) \in Nat
      OBVIOUS
<1>2. PICK k \in Stops : \A m \in Stops : k <= m
  <2>1. Stops \in SUBSET Nat /\ Len(t) \in Stops
        OBVIOUS
  <2> HIDE DEF Stops
  <2> QED BY <2>1, LeastOf
<1>3. \A i \in 1..k : t[i] = NL
  <2> SUFFICES ASSUME NEW i \in 1..k, t[i] # NL PROVE FALSE
      OBVIOUS
  <2>1. i - 1 \in 0..Len(t) /\ (i - 1) + 1 = i /\ i - 1 < k
        BY <1>1, <1>2
  <2>2. i - 1 \in Stops
        BY <2>1
  <2> QED BY <1>2, <2>1, <2>2
<1>4. \E m \in 0..Len(t) : (\A i \in 1..m : t[i] = NL) /\ (m = Len(t) \/ t[m+1] # NL)
      BY <1>2, <1>3
<1> DEFINE First(m) == (\A i \in 1..m : t[i] = NL) /\ (m = Len(t) \/ t[m+1] # NL)
<1>5. Leading(t) = CHOOSE m \in 0..Len(t) : First(m)
      BY DEF Leading
<1>6. \E m \in 0..Len(t) : First(m)
      BY <1>4
<1>7. Leading(t) \in 0..Len(t) /\ First(Leading(t))
  <2> HIDE DEF First
  <2> QED BY <1>5, <1>6
<1> QED BY <1>7 DEF Begins

\* A text ends with its trailing line ends.
LEMMA TrailingIs ==
  ASSUME NEW T, NEW t \in Seq(T)
  PROVE  Finishes(t, Trailing(t))
PROOF
<1> DEFINE r == Reverse(t)
           k == Trailing(t)
           n == Len(t)
<1>1. n \in Nat /\ \A i \in 1..n : t[i] \in T
      OBVIOUS
<1>2. r = [i \in 1..n |-> t[(n - i) + 1]]
      BY DEF Reverse
<1>3. r \in Seq(T) /\ Len(r) = n
  <2>1. \A i \in 1..n : t[(n - i) + 1] \in T
    <3> TAKE i \in 1..n
    <3>1. (n - i) + 1 \in 1..n
          BY <1>1
    <3> QED BY <1>1, <3>1
  <2> HIDE DEF r, n
  <2> QED BY <1>1, <1>2, <2>1
<1>4. Begins(r, k)
      BY <1>3, LeadingIs DEF Trailing
<1> HIDE DEF r, k, n
<1>5. k \in 0..n
      BY <1>3, <1>4 DEF Begins
<1>6. \A i \in n-k+1..n : t[i] = NL
  <2> TAKE i \in n-k+1..n
  <2>1. (n - i) + 1 \in 1..k /\ (n - i) + 1 \in 1..n /\ n - ((n - i) + 1) + 1 = i
        BY <1>1, <1>5
  <2>2. r[(n - i) + 1] = NL
        BY <1>4, <2>1 DEF Begins
  <2>3. r[(n - i) + 1] = t[i]
        BY <1>2, <2>1
  <2> QED BY <2>2, <2>3
<1>7. k = n \/ t[n-k] # NL
  <2> SUFFICES ASSUME k # n PROVE t[n-k] # NL
      OBVIOUS
  <2>1. k + 1 \in 1..n /\ (n - (k + 1)) + 1 = n - k
        BY <1>1, <1>5
  <2>2. r[k+1] # NL
        BY <1>3, <1>4 DEF Begins
  <2>3. r[k+1] = t[n-k]
        BY <1>2, <2>1
  <2> QED BY <2>2, <2>3
<1> QED BY <1>5, <1>6, <1>7 DEF Finishes, k, n

-------------------------------------------------------------------------------
(* _collapse_across_chunks                                                 *)

\* After text s, which ends with a line ends, a text r may follow that begins with
\* b line ends and then something else, unless the line ends are too many.
LEMMA JoinHasNoRun ==
  ASSUME NEW T, NEW s \in Seq(T), NEW r \in Seq(T), NoRun(s), NoRun(r),
         NEW a \in 0..2, Finishes(s, a), NEW b \in 0..2, Begins(r, b), a + b <= 2
  PROVE  NoRun(s \o r)
PROOF
<1> DEFINE j == s \o r
           m == Len(s)
           n == Len(r)
<1>1. /\ m \in Nat /\ n \in Nat /\ Len(j) = m + n
      /\ \A i \in 1..m : j[i] = s[i]
      /\ \A i \in 1..n : j[m+i] = r[i]
      OBVIOUS
<1> HIDE DEF j
<1> SUFFICES ASSUME NEW i \in 1..(m+n)-2, j[i] = NL, j[i+1] = NL, j[i+2] = NL
             PROVE  FALSE
    BY <1>1 DEF NoRun, j
<1>2. CASE i + 2 <= m
  <2>1. i \in 1..m-2 /\ i \in 1..m /\ i + 1 \in 1..m /\ i + 2 \in 1..m
        BY <1>1, <1>2
  <2>2. s[i] = NL /\ s[i+1] = NL /\ s[i+2] = NL
        BY <1>1, <2>1
  <2> QED BY <2>1, <2>2 DEF NoRun
<1>3. CASE i > m
  <2> DEFINE k == i - m
  <2>1. /\ k \in 1..n-2 /\ k \in 1..n /\ k + 1 \in 1..n /\ k + 2 \in 1..n
        /\ m + k = i /\ m + (k + 1) = i + 1 /\ m + (k + 2) = i + 2
        BY <1>1, <1>3
  <2> HIDE DEF k
  <2>2. r[k] = NL /\ r[k+1] = NL /\ r[k+2] = NL
        BY <1>1, <2>1
  <2> QED BY <2>1, <2>2 DEF NoRun
<1>4. CASE i + 1 = m
  <2>1. i \in 1..m /\ m \in 1..m /\ 1 \in 1..n /\ i + 2 = m + 1 /\ m - 1 = i
        BY <1>1, <1>4
  <2>2. s[m-1] = NL /\ s[m] = NL /\ r[1] = NL
        BY <1>1, <1>4, <2>1
  <2>3. a = 2
    <3>1. a # 0
          BY <1>1, <2>1, <2>2 DEF Finishes
    <3>2. a # 1
          BY <1>1, <2>1, <2>2 DEF Finishes
    <3> QED BY <3>1, <3>2
  <2>4. b = 0
        BY <2>3
  <2>5. r[0+1] # NL
        BY <1>1, <2>1, <2>4 DEF Begins
  <2> QED BY <2>2, <2>5
<1>5. CASE i = m
  <2>1. m \in 1..m /\ 1 \in 1..n /\ 2 \in 1..n /\ i + 1 = m + 1 /\ i + 2 = m + 2
        BY <1>1, <1>5
  <2>2. s[m] = NL /\ r[1] = NL /\ r[2] = NL
        BY <1>1, <1>5, <2>1
  <2>3. a # 0
        BY <1>1, <2>1, <2>2 DEF Finishes
  <2>4. b = 0 \/ b = 1
        BY <2>3
  <2>5. b # n
        BY <1>1, <2>1, <2>4
  <2>6. r[b+1] # NL
        BY <2>5 DEF Begins
  <2> QED BY <2>2, <2>4, <2>6
<1> QED BY <1>1, <1>2, <1>3, <1>4, <1>5

\* A text without a run of line ends ends with two at most.
LEMMA AtMostTwo ==
  ASSUME NEW T, NEW t \in Seq(T), NoRun(t), NEW k \in 0..Len(t), Finishes(t, k)
  PROVE  k \in 0..2
PROOF
<1> SUFFICES ASSUME k > 2 PROVE FALSE
    OBVIOUS
<1> DEFINE n == Len(t)
<1>1. n \in Nat
      OBVIOUS
<1> HIDE DEF n
<1>2. k \in 0..n
      BY DEF n
<1>3. /\ n - 2 \in n-k+1..n /\ n - 1 \in n-k+1..n /\ n \in n-k+1..n /\ n - 2 \in 1..n-2
      /\ (n - 2) + 1 = n - 1 /\ (n - 2) + 2 = n
      BY <1>1, <1>2
<1>4. t[n-2] = NL /\ t[n-1] = NL /\ t[n] = NL
      BY <1>3 DEF Finishes, n
<1> QED BY <1>3, <1>4 DEF NoRun, n

\* _collapse_across_chunks keeps the count of line ends exact.
LEMMA CollapseKeepsCount ==
  ASSUME shown \in Seq(Glyph), NoRun(shown),
         trailingNewlines \in 0..2, Finishes(shown, trailingNewlines),
         NEW text \in Seq(Glyph), NoRun(text), CollapseAcrossChunks(text)
  PROVE  /\ shown' \in Seq(Glyph) /\ NoRun(shown')
         /\ trailingNewlines' \in 0..2 /\ Finishes(shown', trailingNewlines')
PROOF
<1> DEFINE a == trailingNewlines
           n == Len(text)
           lead == Leading(text)
           kept == Smaller(lead, Allowed)
           result == SubSeq(text, 1 + lead - kept, n)
           r == Len(result)
<1>1. n \in Nat /\ \A i \in 1..n : text[i] \in Glyph
      OBVIOUS
<1>2. Begins(text, lead) /\ lead \in 0..n
      BY LeadingIs DEF Begins
<1>3. kept \in 0..2 /\ kept <= lead /\ a + kept <= 2
      BY <1>2 DEF Smaller, Allowed
<1>4. /\ shown' = shown \o result
      /\ trailingNewlines' = IF lead = n THEN a + kept ELSE Trailing(result)
      BY DEF CollapseAcrossChunks
<1> HIDE DEF lead, kept, n
<1>5. /\ result \in Seq(Glyph) /\ r \in Nat /\ r = (n - lead) + kept
      /\ \A i \in 1..r : /\ result[i] = text[i + (lead - kept)]
                          /\ i + (lead - kept) \in 1..n
  <2>1. 1 + lead - kept \in 1..n+1 /\ 1 + lead - kept \in Int /\ kept \in Int /\ lead \in Int
        BY <1>1, <1>2, <1>3
  <2>2. result = [i \in 1..(n - (1 + lead - kept)) + 1 |-> text[(i + (1 + lead - kept)) - 1]]
        BY <1>1, <2>1
  <2>3. (n - (1 + lead - kept)) + 1 = (n - lead) + kept /\ (n - lead) + kept \in Nat
        BY <1>1, <1>2, <2>1
  <2>4. \A i \in 1..(n - lead) + kept :
          (i + (1 + lead - kept)) - 1 = i + (lead - kept) /\ i + (lead - kept) \in 1..n
        BY <1>1, <1>2, <1>3, <2>1
  <2>5. result = [i \in 1..(n - lead) + kept |-> text[i + (lead - kept)]]
        BY <2>2, <2>3, <2>4
  <2> DEFINE len == (n - lead) + kept
             from(i) == i + (lead - kept)
  <2>6. len \in Nat /\ \A i \in 1..len : from(i) \in 1..n
        BY <2>3, <2>4
  <2>7. result = [i \in 1..len |-> text[from(i)]]
        BY <2>5
  <2> HIDE DEF result, len, from
  <2>8. \A i \in 1..len : text[from(i)] \in Glyph
        BY <1>1, <2>6
  <2>9. result \in Seq(Glyph) /\ Len(result) = len
        BY <2>6, <2>7, <2>8
  <2> QED BY <2>6, <2>7, <2>9 DEF len, from
<1> HIDE DEF result, r
<1>6. NoRun(result)
  <2> SUFFICES ASSUME NEW i \in 1..r-2, result[i] = NL, result[i+1] = NL, result[i+2] = NL
               PROVE  FALSE
      BY DEF NoRun, r
  <2> DEFINE k == i + (lead - kept)
  <2>1. i \in 1..r /\ i + 1 \in 1..r /\ i + 2 \in 1..r
        BY <1>5
  <2>2. /\ k \in 1..n-2
        /\ (i + 1) + (lead - kept) = k + 1 /\ (i + 2) + (lead - kept) = k + 2
        BY <1>1, <1>2, <1>3, <1>5, <2>1
  <2>3. text[k] = NL /\ text[k+1] = NL /\ text[k+2] = NL
        BY <1>5, <2>1, <2>2
  <2> HIDE DEF k
  <2> QED BY <2>2, <2>3 DEF NoRun, n
<1>7. Begins(result, kept)
  <2>1. kept \in 0..r /\ (kept = r <=> lead = n)
        BY <1>1, <1>2, <1>3, <1>5
  <2>2. \A i \in 1..kept : result[i] = NL
    <3> TAKE i \in 1..kept
    <3>1. i \in 1..r /\ i + (lead - kept) \in 1..lead
          BY <1>1, <1>2, <1>3, <1>5, <2>1
    <3> QED BY <1>2, <1>5, <3>1 DEF Begins
  <2>3. ASSUME kept # r PROVE result[kept+1] # NL
    <3>1. kept + 1 \in 1..r /\ (kept + 1) + (lead - kept) = lead + 1
          BY <1>2, <1>3, <1>5, <2>1, <2>3
    <3>2. text[lead+1] # NL
          BY <1>2, <2>1, <2>3 DEF Begins, n
    <3> QED BY <1>5, <3>1, <3>2
  <2> QED BY <2>1, <2>2, <2>3 DEF Begins, r
<1>8. NoRun(shown \o result)
      BY <1>3, <1>5, <1>6, <1>7, JoinHasNoRun
<1>9. shown \o result \in Seq(Glyph)
      BY <1>5
<1> DEFINE m == Len(shown)
           whole == shown \o result
<1>10. /\ m \in Nat /\ Len(whole) = m + r
       /\ \A i \in 1..m : whole[i] = shown[i]
       /\ \A i \in 1..r : whole[m+i] = result[i]
       BY <1>5 DEF r
<1> HIDE DEF m, whole
<1>11. Finishes(whole, trailingNewlines')
  <2>1. CASE lead = n
    <3> DEFINE b == a + kept
    <3>1. trailingNewlines' = b /\ r = kept /\ b \in 0..m+r /\ a \in 0..m
          BY <1>1, <1>2, <1>3, <1>4, <1>5, <1>10, <2>1 DEF Finishes, m
    <3>2. \A i \in (m+r)-b+1..m+r : whole[i] = NL
      <4> TAKE i \in (m+r)-b+1..m+r
      <4>1. CASE i <= m
        <5>1. i \in m-a+1..m /\ i \in 1..m
              BY <1>3, <1>10, <3>1, <4>1
        <5> QED BY <1>10, <5>1 DEF Finishes, m
      <4>2. CASE i > m
        <5>1. i - m \in 1..kept /\ i - m \in 1..r /\ m + (i - m) = i
              BY <1>3, <1>10, <3>1, <4>2
        <5>2. result[i-m] = NL
              BY <1>7, <5>1 DEF Begins
        <5> QED BY <1>10, <5>1, <5>2
      <4> QED BY <1>10, <3>1, <4>1, <4>2
    <3>3. ASSUME b # m + r PROVE whole[(m+r)-b] # NL
      <4>1. a # m /\ (m + r) - b = m - a /\ m - a \in 1..m
            BY <1>3, <1>10, <3>1, <3>3
      <4>2. shown[m-a] # NL
            BY <4>1 DEF Finishes, m
      <4> QED BY <1>10, <4>1, <4>2
    <3> QED BY <1>10, <3>1, <3>2, <3>3 DEF Finishes
  <2>2. CASE lead # n
    <3> DEFINE k == Trailing(result)
    <3>1. trailingNewlines' = k /\ Finishes(result, k) /\ k \in 0..r
          BY <1>4, <1>5, <2>2, TrailingIs DEF Finishes, r
    <3> HIDE DEF k
    <3>2. kept + 1 \in 1..r /\ result[kept+1] # NL
      <4>1. kept # r /\ kept \in 0..r
            BY <1>1, <1>2, <1>3, <1>5, <2>2
      <4> QED BY <1>5, <1>7, <4>1 DEF Begins, r
    <3>3. k # r
      <4> SUFFICES ASSUME k = r PROVE FALSE
          OBVIOUS
      <4>1. kept + 1 \in r-k+1..r
            BY <1>5, <3>2
      <4> QED BY <3>1, <3>2, <4>1 DEF Finishes, r
    <3>4. k \in 0..m+r /\ k # m + r
          BY <1>5, <1>10, <3>1, <3>3
    <3>5. \A i \in (m+r)-k+1..m+r : whole[i] = NL
      <4> TAKE i \in (m+r)-k+1..m+r
      <4>1. i - m \in r-k+1..r /\ i - m \in 1..r /\ m + (i - m) = i
            BY <1>5, <1>10, <3>1
      <4>2. result[i-m] = NL
            BY <3>1, <4>1 DEF Finishes, r
      <4> QED BY <1>10, <4>1, <4>2
    <3>6. whole[(m+r)-k] # NL
      <4>1. r - k \in 1..r /\ m + (r - k) = (m + r) - k
            BY <1>5, <1>10, <3>1, <3>3
      <4>2. result[r-k] # NL
            BY <3>1, <3>3 DEF Finishes, r
      <4> QED BY <1>10, <4>1, <4>2
    <3> QED BY <1>10, <3>1, <3>4, <3>5, <3>6 DEF Finishes
  <2> QED BY <2>1, <2>2
<1>12. trailingNewlines' \in 0..2
  <2>1. trailingNewlines' \in 0..Len(whole)
        BY <1>11 DEF Finishes
  <2>2. whole \in Seq(Glyph) /\ NoRun(whole)
        BY <1>8, <1>9 DEF whole
  <2> QED BY <1>11, <2>1, <2>2, AtMostTwo
<1> QED BY <1>4, <1>8, <1>9, <1>11, <1>12 DEF whole

-------------------------------------------------------------------------------
(* How many blocks of a kind are open                                      *)

\* What a piece does to the number of openings that wait for their closing.
After(n, p, block) == IF p.form # "char" /\ p \in block.opens THEN n + 1
                      ELSE IF p.form # "char" /\ p \in block.shuts /\ n # 0 THEN n - 1
                      ELSE n

\* The number after text t that began with k.
Depth(k, t, block) ==
  LET d[i \in 0..Len(t)] == IF i = 0 THEN k ELSE After(d[i-1], t[i], block)
  IN d[Len(t)]

\* A number of open blocks is a natural number.
LEMMA AfterIsNat ==
  ASSUME NEW n \in Nat, NEW p, NEW block
  PROVE  After(n, p, block) \in Nat
BY DEF After

\* f is the number after each piece of t.
Depths(f, k, t, block, n) == /\ Depth(k, t, block) = f[n]
                             /\ f[0] = k
                             /\ \A i \in 1..n : f[i] = After(f[i-1], t[i], block)

\* The open blocks are counted piece by piece.
LEMMA DepthSteps ==
  ASSUME NEW k \in Nat, NEW t \in Seq(Piece), NEW block, NEW n, n = Len(t)
  PROVE  \E f \in [0..n -> Nat] : Depths(f, k, t, block, n)
PROOF
<1> DEFINE step == [x \in (1..n) \X Nat |-> After(x[2], t[x[1]], block)]
<1>1. n \in Nat
      OBVIOUS
<1>2. step \in [(1..n) \X Nat -> Nat]
      BY AfterIsNat
<1>3. \A i \in 1..n, m \in Nat : step[<<i, m>>] = After(m, t[i], block)
      OBVIOUS
<1> HIDE DEF step
<1>4. PICK f \in [0..n -> Nat] : Built(f, k, step, n)
      BY <1>1, <1>2, Recursion
<1>5. \A i \in 1..n : i - 1 \in 0..n /\ f[i] = After(f[i-1], t[i], block)
  <2> TAKE i \in 1..n
  <2>1. i - 1 \in 0..n
        BY <1>1
  <2>2. f[i-1] \in Nat
        BY <2>1
  <2> QED BY <1>3, <1>4, <2>1, <2>2 DEF Built
<1> DEFINE Def(g) == [i \in 0..n |-> IF i = 0 THEN k ELSE After(g[i-1], t[i], block)]
           d == CHOOSE g : g = Def(g)
<1>6. f = Def(f)
      BY <1>4, <1>5 DEF Built
<1>7. d = Def(d)
  <2> HIDE DEF Def
  <2> QED BY <1>6
<1>8. Depth(k, t, block) = d[n]
      BY DEF Depth
<1> HIDE DEF d
<1>9. d[0] = k /\ \A i \in 1..n : d[i] = After(d[i-1], t[i], block)
      BY <1>1, <1>7
<1> DEFINE Same == {i \in 0..n : d[i] = f[i]}
<1>10. 0 \in Same
       BY <1>1, <1>4, <1>9 DEF Built
<1>11. ASSUME NEW i \in 0..n, i \in Same, i < n PROVE i + 1 \in Same
  <2>1. i + 1 \in 1..n /\ i + 1 \in 0..n /\ (i + 1) - 1 = i
        BY <1>1, <1>11
  <2>2. d[i+1] = After(d[i], t[i+1], block) /\ f[i+1] = After(f[i], t[i+1], block)
        BY <1>5, <1>9, <2>1
  <2> QED BY <1>11, <2>1, <2>2
<1>12. d[n] = f[n]
  <2> HIDE DEF Same
  <2>1. 0..n \subseteq Same
        BY <1>1, <1>10, <1>11, Counting
  <2> QED BY <1>1, <2>1 DEF Same
<1>13. Depths(f, k, t, block, n)
       BY <1>4, <1>5, <1>8, <1>12 DEF Built, Depths
<1> QED BY <1>13

\* The number of open blocks is a natural number.
LEMMA DepthIsNat ==
  ASSUME NEW k \in Nat, NEW t \in Seq(Piece), NEW block
  PROVE  Depth(k, t, block) \in Nat
PROOF
<1>1. PICK f \in [0..Len(t) -> Nat] : Depths(f, k, t, block, Len(t))
      BY DepthSteps
<1>2. Len(t) \in 0..Len(t)
      OBVIOUS
<1> QED BY <1>1, <1>2 DEF Depths

\* An empty text opens and closes nothing.
LEMMA DepthNothing ==
  ASSUME NEW k \in Nat, NEW block
  PROVE  Depth(k, << >>, block) = k
PROOF
<1>1. << >> \in Seq(Piece) /\ 0 = Len(<< >>)
      OBVIOUS
<1>2. PICK f \in [0..0 -> Nat] : Depths(f, k, << >>, block, 0)
      BY <1>1, DepthSteps
<1> QED BY <1>2 DEF Depths

\* One piece more is counted.
LEMMA DepthAppend ==
  ASSUME NEW k \in Nat, NEW t \in Seq(Piece), NEW p \in Piece, NEW block
  PROVE  /\ Depth(k, t, block) \in Nat
         /\ Depth(k, Append(t, p), block) = After(Depth(k, t, block), p, block)
PROOF
<1> DEFINE n == Len(t)
           more == Append(t, p)
<1>1. n \in Nat /\ more \in Seq(Piece) /\ Len(more) = n + 1 /\ more[n+1] = p
      /\ \A i \in 1..n : more[i] = t[i]
      BY AppendProperties
<1> HIDE DEF n, more
<1>2. PICK f \in [0..n -> Nat] : Depths(f, k, t, block, n)
      BY DepthSteps DEF n
<1>3. PICK g \in [0..n+1 -> Nat] : Depths(g, k, more, block, n + 1)
      BY <1>1, DepthSteps
<1> DEFINE Same == {i \in 0..n : g[i] = f[i]}
<1>4. 0 \in Same
      BY <1>1, <1>2, <1>3 DEF Depths
<1>5. ASSUME NEW i \in 0..n, i \in Same, i < n PROVE i + 1 \in Same
  <2>1. i + 1 \in 1..n /\ i + 1 \in 1..n+1 /\ i + 1 \in 0..n /\ (i + 1) - 1 = i
        BY <1>1, <1>5
  <2>2. f[i+1] = After(f[i], t[i+1], block) /\ g[i+1] = After(g[i], t[i+1], block)
        BY <1>1, <1>2, <1>3, <2>1 DEF Depths
  <2> QED BY <1>5, <2>1, <2>2
<1>6. g[n] = f[n]
  <2> HIDE DEF Same
  <2>1. 0..n \subseteq Same
        BY <1>1, <1>4, <1>5, Counting
  <2> QED BY <1>1, <2>1 DEF Same
<1>7. n + 1 \in 1..n+1 /\ (n + 1) - 1 = n /\ n \in 0..n
      BY <1>1
<1>8. g[n+1] = After(g[n], p, block)
      BY <1>1, <1>3, <1>7 DEF Depths
<1> QED BY <1>2, <1>3, <1>6, <1>7, <1>8 DEF more, Depths

\* One text after the other.
LEMMA DepthConcat ==
  ASSUME NEW k \in Nat, NEW u \in Seq(Piece), NEW v \in Seq(Piece), NEW block
  PROVE  Depth(k, u \o v, block) = Depth(Depth(k, u, block), v, block)
PROOF
<1> DEFINE P == Piece
           l == Depth(k, u, block)
           G == {w \in Seq(P) : Depth(k, u \o w, block) = Depth(l, w, block)}
<1>1. l \in Nat
      BY DepthIsNat
<1> HIDE DEF l
<1>2. << >> \in G
  <2>1. u \o << >> = u /\ << >> \in Seq(P)
        OBVIOUS
  <2>2. Depth(l, << >>, block) = l
        BY <1>1, DepthNothing
  <2> QED BY <2>1, <2>2 DEF l
<1>3. ASSUME NEW w \in Seq(P), NEW p \in P, w \in G PROVE Append(w, p) \in G
  <2>1. /\ u \o Append(w, p) = Append(u \o w, p) /\ u \o w \in Seq(Piece)
        /\ Append(w, p) \in Seq(P)
        OBVIOUS
  <2>2. Depth(k, Append(u \o w, p), block) = After(Depth(k, u \o w, block), p, block)
        BY <2>1, DepthAppend
  <2>3. Depth(l, Append(w, p), block) = After(Depth(l, w, block), p, block)
        BY <1>1, DepthAppend
  <2>4. Depth(k, u \o w, block) = Depth(l, w, block)
        BY <1>3
  <2>5. Depth(k, u \o Append(w, p), block) = Depth(l, Append(w, p), block)
        BY <2>1, <2>2, <2>3, <2>4
  <2> QED BY <2>1, <2>5
<1> HIDE DEF G, P
<1>4. Seq(P) \subseteq G
      BY <1>2, <1>3, Spelling
<1>5. v \in G
      BY <1>4 DEF P
<1> QED BY <1>5 DEF G, l

\* With more open before, there is not less open after.
LEMMA DepthMonotone ==
  ASSUME NEW k \in Nat, NEW l \in Nat, k <= l, NEW t \in Seq(Piece), NEW block
  PROVE  Depth(k, t, block) <= Depth(l, t, block)
PROOF
<1> DEFINE P == Piece
           G == {w \in Seq(P) : Depth(k, w, block) <= Depth(l, w, block)}
<1>1. << >> \in G
      BY DepthNothing
<1>2. ASSUME NEW w \in Seq(P), NEW p \in P, w \in G PROVE Append(w, p) \in G
  <2> DEFINE m == Depth(k, w, block)
             n == Depth(l, w, block)
  <2>1. m \in Nat /\ Depth(k, Append(w, p), block) = After(m, p, block)
        BY DepthAppend
  <2>2. n \in Nat /\ Depth(l, Append(w, p), block) = After(n, p, block)
        BY DepthAppend
  <2>3. m <= n /\ Append(w, p) \in Seq(P)
        BY <1>2
  <2> HIDE DEF m, n
  <2>4. After(m, p, block) <= After(n, p, block)
        BY <2>1, <2>2, <2>3 DEF After
  <2> QED BY <2>1, <2>2, <2>3, <2>4
<1> HIDE DEF G, P
<1>3. Seq(P) \subseteq G
      BY <1>1, <1>2, Spelling
<1>4. t \in G
      BY <1>3 DEF P
<1> QED BY <1>4 DEF G

\* What is cut off at the beginning of a text that leaves nothing open cannot
\* leave something open in the rest.
LEMMA DepthOfEnd ==
  ASSUME NEW u \in Seq(Piece), NEW v \in Seq(Piece), NEW block, Depth(0, u \o v, block) = 0
  PROVE  Depth(0, v, block) = 0
PROOF
<1> DEFINE l == Depth(0, u, block)
           m == Depth(0, v, block)
<1>2. l \in Nat /\ m \in Nat
      BY DepthIsNat
<1>3. Depth(l, v, block) = 0
      BY DepthConcat
<1> HIDE DEF l
<1>4. m <= Depth(l, v, block)
      BY <1>2, DepthMonotone
<1> HIDE DEF m
<1>5. m = 0
      BY <1>2, <1>3, <1>4
<1> QED BY <1>5 DEF m

\* Characters that are taken away leave it as it is.
LEMMA DepthOfKept ==
  ASSUME NEW k \in Nat, NEW t \in Seq(Piece), NEW P, NEW block,
         \A i \in 1..Len(t) : i \notin P => t[i].form = "char"
  PROVE  Depth(k, Keep(t, P), block) = Depth(k, t, block)
PROOF
<1> DEFINE n == Len(t)
           Text(s) == [j \in DOMAIN s |-> t[s[j]]]
           Read(i) == SubSeq(t, 1, i)
<1>1. /\ n \in Nat /\ Read(0) = << >> /\ Read(n) = t
      /\ \A i \in 0..n : Read(i) \in Seq(Piece)
      /\ \A i \in 0..n : i < n => t[i+1] \in Piece /\ Read(i+1) = Append(Read(i), t[i+1])
      BY OneByOne
<1>2. PICK f \in [0..n -> Seq(1..n)] :
        /\ InOrder(P, n) = f[n]
        /\ f[0] = << >>
        /\ \A i \in 1..n : f[i] = IF i \in P THEN Append(f[i-1], i) ELSE f[i-1]
      BY <1>1, InOrderSteps
<1>3. Keep(t, P) = Text(f[n])
      BY <1>2 DEF Keep
<1>4. Text(<< >>) = << >>
      OBVIOUS
<1>5. ASSUME NEW s \in Seq(1..n), NEW i \in 1..n
      PROVE  Text(s) \in Seq(Piece) /\ Text(Append(s, i)) = Append(Text(s), t[i])
  <2>1. Text(s) \in Seq(Piece) /\ Len(Text(s)) = Len(s)
    <3> DEFINE m == Len(s)
    <3>1. m \in Nat /\ \A j \in 1..m : s[j] \in 1..n
          OBVIOUS
    <3>2. \A j \in 1..m : t[s[j]] \in Piece
          BY <3>1
    <3>3. Text(s) = [j \in 1..m |-> t[s[j]]]
          OBVIOUS
    <3> HIDE DEF m, Text
    <3>4. Text(s) \in Seq(Piece) /\ Len(Text(s)) = m
          BY <3>1, <3>2, <3>3
    <3> QED BY <3>4 DEF m
  <2>2. Text(Append(s, i)) = [j \in 1..Len(s) + 1 |-> IF j <= Len(s) THEN t[s[j]] ELSE t[i]]
        OBVIOUS
  <2>3. Append(Text(s), t[i]) = [j \in 1..Len(s) + 1 |-> IF j <= Len(s) THEN t[s[j]] ELSE t[i]]
        BY <2>1
  <2> QED BY <2>1, <2>2, <2>3
<1>6. \A i \in 1..n : i \notin P => t[i].form = "char"
      OBVIOUS
<1> HIDE DEF n, Text, Read
<1> DEFINE Same == {i \in 0..n : Depth(k, Text(f[i]), block) = Depth(k, Read(i), block)}
<1>7. 0 \in Same
      BY <1>1, <1>2, <1>4
<1>8. ASSUME NEW i \in 0..n, i \in Same, i < n PROVE i + 1 \in Same
  <2> DEFINE s == f[i]
             u == Read(i)
             p == t[i+1]
             old == Depth(k, u, block)
  <2>1. i + 1 \in 1..n /\ i + 1 \in 0..n /\ (i + 1) - 1 = i
        BY <1>1, <1>8
  <2>2. s \in Seq(1..n) /\ f[i+1] = IF i + 1 \in P THEN Append(s, i + 1) ELSE s
        BY <1>2, <2>1
  <2>3. u \in Seq(Piece) /\ p \in Piece /\ Read(i+1) = Append(u, p)
        BY <1>1, <1>8
  <2>4. Text(s) \in Seq(Piece) /\ Text(Append(s, i + 1)) = Append(Text(s), p)
        BY <1>5, <2>1, <2>2
  <2>5. Depth(k, Text(s), block) = old
        BY <1>8
  <2>6. i + 1 \notin P => p.form = "char"
        BY <1>6, <2>1
  <2> HIDE DEF s, u, p
  <2>7. Depth(k, Read(i+1), block) = After(old, p, block)
    <3>1. Depth(k, Append(u, p), block) = After(Depth(k, u, block), p, block)
          BY <2>3, DepthAppend
    <3> QED BY <2>3, <3>1
  <2> HIDE DEF old
  <2>8. CASE i + 1 \in P
    <3>1. Depth(k, Append(Text(s), p), block) = After(Depth(k, Text(s), block), p, block)
          BY <2>3, <2>4, DepthAppend
    <3> QED BY <2>1, <2>2, <2>4, <2>5, <2>7, <2>8, <3>1
  <2>9. CASE i + 1 \notin P
    <3>1. After(old, p, block) = old
          BY <2>6, <2>9 DEF After
    <3> QED BY <2>1, <2>2, <2>5, <2>7, <2>9, <3>1
  <2> QED BY <2>8, <2>9
<1>9. n \in Same
  <2> HIDE DEF Same
  <2>1. 0..n \subseteq Same
        BY <1>1, <1>7, <1>8, Counting
  <2> QED BY <1>1, <2>1
<1> QED BY <1>1, <1>3, <1>9

\* In a text that ends after a tag, _first_unclosed_position counts every tag.
LEMMA StillOpenIsDepth ==
  ASSUME NEW t \in Seq(Piece), t # << >>, t[Len(t)].form = "char", NEW block
  PROVE  Len(StillOpen(t, block)) = Depth(0, t, block)
PROOF
<1> DEFINE n == Len(t)
           Read(i) == SubSeq(t, 1, i)
<1>1. /\ n \in Nat /\ Read(0) = << >> /\ Read(n) = t
      /\ \A i \in 0..n : Read(i) \in Seq(Piece)
      /\ \A i \in 0..n : i < n => t[i+1] \in Piece /\ Read(i+1) = Append(Read(i), t[i+1])
      BY OneByOne
<1>2. PICK f \in [0..n -> Seq(1..n)] : Openings(f, t, block, n)
  <2>1. t \in Seq(Glyph)
        BY PieceIsGlyph
  <2> QED BY <2>1, StillOpenSteps
<1>3. /\ n \in 1..n /\ t[n].form = "char"
      /\ \A i \in 1..n : IsTag(t, i) <=> t[i].form # "char"
      BY DEF IsTag
<1> HIDE DEF n, Read
<1> DEFINE Same == {i \in 0..n : Len(f[i]) = Depth(0, Read(i), block)}
<1>4. 0 \in Same
      BY <1>1, <1>2, DepthNothing DEF Openings
<1>5. ASSUME NEW i \in 0..n, i \in Same, i < n PROVE i + 1 \in Same
  <2> DEFINE s == f[i]
             u == Read(i)
             p == t[i+1]
             old == Depth(0, u, block)
  <2>1. i + 1 \in 1..n /\ i + 1 \in 0..n /\ (i + 1) - 1 = i
        BY <1>1, <1>5
  <2>2. s \in Seq(1..n) /\ f[i+1] = Walk(t, block, s, i + 1)
        BY <1>2, <2>1 DEF Openings
  <2>3. u \in Seq(Piece) /\ p \in Piece /\ Read(i+1) = Append(u, p) /\ Len(s) = old
        BY <1>1, <1>5
  <2>4. IsTag(t, i + 1) <=> p.form # "char"
        BY <1>3, <2>1
  <2>5. Walk(t, block, s, i + 1) = IF p.form # "char" /\ p \in block.opens THEN Append(s, i + 1)
                                   ELSE IF p.form # "char" /\ p \in block.shuts /\ s # << >>
                                        THEN Tail(s) ELSE s
        BY <2>4 DEF Walk, IsTagIn
  <2> HIDE DEF s, u, p
  <2>6. Depth(0, Append(u, p), block) = After(old, p, block)
        BY <2>3, DepthAppend
  <2> HIDE DEF old
  <2>7. /\ Len(Append(s, i + 1)) = Len(s) + 1
        /\ s # << >> <=> Len(s) # 0
        /\ s # << >> => Len(Tail(s)) = Len(s) - 1
        BY <2>2
  <2>8. Len(Walk(t, block, s, i + 1)) = After(old, p, block)
        BY <2>3, <2>5, <2>7 DEF After
  <2> QED BY <2>1, <2>2, <2>3, <2>6, <2>8
<1>6. n \in Same
  <2> HIDE DEF Same
  <2>1. 0..n \subseteq Same
        BY <1>1, <1>4, <1>5, Counting
  <2> QED BY <1>1, <2>1
<1> QED BY <1>1, <1>2, <1>6 DEF Openings

-------------------------------------------------------------------------------
(* The invariant                                                           *)

\* One text after the other is a text.
LEMMA FlatIsText ==
  ASSUME NEW n \in Nat, NEW items \in [1..n -> Seq(Piece)]
  PROVE  FlattenSeq(items) \in Seq(Piece)
PROOF
<1> DEFINE P == Piece
<1>1. items \in [1..n -> Seq(P)]
      OBVIOUS
<1> HIDE DEF P
<1>2. \A g \in [1..n -> Seq(P)] : \E f \in [0..n -> Seq(P)] :
         /\ FlattenSeq(g) = f[n]
         /\ f[0] = << >>
         /\ \A i \in 1..n : f[i] = f[i-1] \o g[i]
      BY FlatSteps
<1>3. PICK f \in [0..n -> Seq(P)] : FlattenSeq(items) = f[n]
      BY <1>1, <1>2
<1> QED BY <1>3 DEF P

\* The count of line ends is exact, and what is shown has no run of them.
CountIsExact == /\ shown \in Seq(Glyph)
                /\ NoRun(shown)
                /\ Finishes(shown, trailingNewlines)

Inv == /\ TypeOK
       /\ buffer \in Seq(Piece)
       /\ CountIsExact

\* Nothing has been shown yet.
LEMMA InitInv == Init => Inv
PROOF
<1> SUFFICES ASSUME Init PROVE Inv
    OBVIOUS
<1>1. arriving \in Seq(Piece)
  <2>1. PICK n \in 0..MaxItems : \E items \in [1..n -> Items] : arriving = FlattenSeq(items)
        BY DEF Init
  <2>2. PICK items \in [1..n -> Items] : arriving = FlattenSeq(items)
        BY <2>1
  <2>3. n \in Nat /\ items \in [1..n -> Seq(Piece)]
        BY ItemsAssumption
  <2> QED BY <2>2, <2>3, FlatIsText
<1>2. /\ buffer = << >> /\ shown = << >> /\ trailingNewlines = 0 /\ flushed = FALSE
      BY DEF Init
<1>3. flushed \in BOOLEAN
      BY <1>2, Zenon
<1>4. buffer \in Seq(Piece) /\ shown \in Seq(Glyph) /\ NoRun(shown)
      BY <1>2 DEF NoRun
<1>5. Finishes(shown, trailingNewlines)
      BY <1>2 DEF Finishes
<1>6. trailingNewlines \in 0..2
      BY <1>2
<1> QED BY <1>1, <1>2, <1>3, <1>4, <1>5, <1>6 DEF Inv, TypeOK, CountIsExact

\* feed() and flush() show what strip_display_noise makes of a text.
LEMMA ShowingKeepsCount ==
  ASSUME Inv, NEW t \in Seq(Piece), CollapseAcrossChunks(StripDisplayNoise(t))
  PROVE  CountIsExact' /\ trailingNewlines' \in 0..2
PROOF
<1>1. t \in Seq(Glyph)
      BY PieceIsGlyph
<1>2. StripDisplayNoise(t) \in Seq(Glyph) /\ NoRun(StripDisplayNoise(t))
      BY <1>1, StrippedHasNoRun
<1>3. /\ shown \in Seq(Glyph) /\ NoRun(shown)
      /\ trailingNewlines \in 0..2 /\ Finishes(shown, trailingNewlines)
      BY DEF Inv, TypeOK, CountIsExact
<1> QED BY <1>2, <1>3, CollapseKeepsCount DEF CountIsExact

\* Every operation keeps the count exact.
LEMMA NextInv == Inv /\ [Next]_vars => Inv'
PROOF
<1> SUFFICES ASSUME Inv, [Next]_vars PROVE Inv'
    OBVIOUS
<1>1. CASE Feed
  <2>1. PICK n \in 1..Len(arriving) :
          LET chunk == SubSeq(arriving, 1, n)
              held  == Normalize(buffer \o chunk)
              cut   == Cutoff(held)
          IN /\ CollapseAcrossChunks(StripDisplayNoise(SubSeq(held, 1, cut)))
             /\ buffer' = SubSeq(held, cut + 1, Len(held))
             /\ arriving' = SubSeq(arriving, n + 1, Len(arriving))
        BY <1>1 DEF Feed
  <2> DEFINE chunk == SubSeq(arriving, 1, n)
             held  == Normalize(buffer \o chunk)
             cut   == Cutoff(held)
  <2>2. arriving \in Seq(Piece) /\ buffer \in Seq(Piece)
        BY DEF Inv, TypeOK
  <2>3. chunk \in Seq(Piece) /\ SubSeq(arriving, n + 1, Len(arriving)) \in Seq(Piece)
        BY <2>2
  <2>4. held \in Seq(Piece)
    <3>1. buffer \o chunk \in Seq(Piece)
          BY <2>2, <2>3
    <3> QED BY <3>1, KeepIs DEF Normalize
  <2>5. cut \in 0..Len(held)
        BY <2>4, PieceIsGlyph, CutoffIsThere
  <2> HIDE DEF chunk, held, cut
  <2>6. SubSeq(held, 1, cut) \in Seq(Piece) /\ SubSeq(held, cut + 1, Len(held)) \in Seq(Piece)
        BY <2>4, <2>5
  <2>7. /\ CollapseAcrossChunks(StripDisplayNoise(SubSeq(held, 1, cut)))
        /\ buffer' = SubSeq(held, cut + 1, Len(held))
        /\ arriving' = SubSeq(arriving, n + 1, Len(arriving))
        BY <2>1 DEF chunk, held, cut
  <2>8. CountIsExact' /\ trailingNewlines' \in 0..2
        BY <2>6, <2>7, ShowingKeepsCount
  <2>9. flushed' = flushed /\ ~flushed /\ flushed \in BOOLEAN
        BY <1>1 DEF Feed, Inv, TypeOK
  <2> QED BY <2>3, <2>6, <2>7, <2>8, <2>9 DEF Inv, TypeOK
<1>2. CASE Flush
  <2>1. /\ CollapseAcrossChunks(StripDisplayNoise(buffer))
        /\ flushed' = TRUE /\ buffer' = << >> /\ arriving' = arriving
        BY <1>2 DEF Flush
  <2>2. buffer \in Seq(Piece) /\ arriving \in Seq(Piece)
        BY DEF Inv, TypeOK
  <2>3. CountIsExact' /\ trailingNewlines' \in 0..2
        BY <2>1, <2>2, ShowingKeepsCount
  <2>4. flushed' \in BOOLEAN
        BY <2>1, Zenon
  <2>5. << >> \in Seq(Piece)
        OBVIOUS
  <2> QED BY <2>1, <2>2, <2>3, <2>4, <2>5 DEF Inv, TypeOK
<1>3. CASE UNCHANGED vars
      BY <1>3 DEF vars, Inv, TypeOK, CountIsExact
<1> QED BY <1>1, <1>2, <1>3 DEF Next, Terminated

\* In every behaviour, for all units a server may send and all their cuts, the text
\* shown has no run of line ends and _trailing_newlines is the number of those at
\* its end.
THEOREM Invariance == Spec => []Inv
BY InitInv, NextInv, PTL DEF Spec

\* The types of what is shown, held and counted: a count of 0, 1 or 2, and nothing
\* held once flush() has returned.
THEOREM TypeCorrect == Spec => []TypeOK
PROOF
<1>1. Inv => TypeOK
      BY DEF Inv
<1> QED BY <1>1, Invariance, PTL

\* The player never sees more than one blank line in a row, wherever the text is
\* cut and whichever calls show the line ends (_collapse_across_chunks).
THEOREM NoBlankRunIsShown == Spec => []NoBlankRuns
PROOF
<1>1. Inv => NoBlankRuns
  <2> SUFFICES ASSUME Inv, NEW i \in 1..Len(shown)-2, \A j \in i..i+2 : shown[j] = NL
               PROVE  FALSE
      BY DEF NoBlankRuns
  <2>1. Len(shown) \in Nat /\ NoRun(shown)
        BY DEF Inv, CountIsExact
  <2>2. i \in i..i+2 /\ i + 1 \in i..i+2 /\ i + 2 \in i..i+2
        BY <2>1
  <2> QED BY <2>1, <2>2 DEF NoRun
<1> QED BY <1>1, Invariance, PTL

-------------------------------------------------------------------------------
(* NothingWithheld: no block is open at the end of what is held and to come. *)

NoneOpen(t) == \A k \in DOMAIN Dropped : Depth(0, t, Dropped[k]) = 0

\* The last piece, when it is kept.
LEMMA KeepLast ==
  ASSUME NEW t \in Seq(Piece), t # << >>, NEW P, Len(t) \in P
  PROVE  Ends(Keep(t, P), t[Len(t)])
PROOF
<1> DEFINE n == Len(t)
<1>1. n \in Nat /\ n \in 1..n /\ n - 1 \in 0..n
      OBVIOUS
<1>2. PICK f \in [0..n -> Seq(1..n)] :
        /\ InOrder(P, n) = f[n]
        /\ f[0] = << >>
        /\ \A i \in 1..n : f[i] = IF i \in P THEN Append(f[i-1], i) ELSE f[i-1]
      BY <1>1, InOrderSteps
<1> DEFINE s == f[n-1]
<1>3. s \in Seq(1..n) /\ f[n] = Append(s, n)
      BY <1>1, <1>2
<1>4. Keep(t, P) = [j \in DOMAIN f[n] |-> t[f[n][j]]]
      BY <1>2 DEF Keep
<1> HIDE DEF s, n
<1>5. Keep(t, P) = [j \in 1..Len(s) + 1 |-> t[Append(s, n)[j]]]
      BY <1>3, <1>4
<1>6. Len(s) \in Nat /\ Append(s, n)[Len(s) + 1] = n
      BY <1>1, <1>3
<1>7. Len(Keep(t, P)) = Len(s) + 1 /\ Keep(t, P) # << >>
      BY <1>5, <1>6
<1> QED BY <1>5, <1>6, <1>7 DEF Ends, n

\* Two texts end as the second one does.
LEMMA EndOfConcat ==
  ASSUME NEW u \in Seq(Piece), NEW v \in Seq(Piece), v # << >>, NEW p
  PROVE  Ends(u \o v, p) <=> Ends(v, p)
PROOF
<1>1. /\ Len(u \o v) = Len(u) + Len(v) /\ Len(v) > 0 /\ Len(u) \in Nat
      /\ (u \o v)[Len(u) + Len(v)] = v[Len(v)]
      OBVIOUS
<1>2. u \o v # << >>
      BY <1>1
<1> QED BY <1>1, <1>2 DEF Ends

\* The CRs that are taken out open and close nothing.
LEMMA DepthOfNormalized ==
  ASSUME NEW k \in Nat, NEW t \in Seq(Piece), NEW block
  PROVE  Depth(k, Normalize(t), block) = Depth(k, t, block)
PROOF
<1> DEFINE P == {i \in DOMAIN t : ~(t[i] = CR /\ i < Len(t) /\ t[i+1] = NL)}
<1>1. \A i \in 1..Len(t) : i \notin P => t[i].form = "char"
      BY DEF CR, Char
<1> HIDE DEF P
<1>2. Depth(k, Keep(t, P), block) = Depth(k, t, block)
      BY <1>1, DepthOfKept
<1> QED BY <1>2 DEF Normalize, P

\* A line end stays at the end of a text without its CRs.
LEMMA NormalizedEnds ==
  ASSUME NEW t \in Seq(Piece), Ends(t, NL)
  PROVE  Ends(Normalize(t), NL)
PROOF
<1> DEFINE P == {i \in DOMAIN t : ~(t[i] = CR /\ i < Len(t) /\ t[i+1] = NL)}
<1>1. t # << >> /\ t[Len(t)] = NL /\ Len(t) \in P
      BY DEF Ends
<1> HIDE DEF P
<1>2. Ends(Keep(t, P), NL)
      BY <1>1, KeepLast
<1> QED BY <1>2 DEF Normalize, P

\* A text that leaves no block open and ends a line is released as a whole.
LEMMA CutoffIsTheEnd ==
  ASSUME NEW t \in Seq(Piece), Ends(t, NL), NoneOpen(t)
  PROVE  Cutoff(t) = Len(t)
PROOF
<1> DEFINE n == Len(t)
<1>1. n \in Nat /\ n > 0 /\ t[n] = NL /\ t # << >>
      BY DEF Ends
<1>2. NL.form = "char" /\ NL # Amp /\ NL # CR
      BY DEF NL, Amp, CR, Char
<1>3. ASSUME NEW k \in DOMAIN Dropped PROVE FirstUnclosed(t, Dropped[k]) = {}
  <2>1. Len(StillOpen(t, Dropped[k])) = 0
        BY <1>1, <1>2, StillOpenIsDepth DEF NoneOpen
  <2>2. StillOpen(t, Dropped[k]) \in Seq(1..n)
        BY PieceIsGlyph, StillOpenAreThere
  <2>3. StillOpen(t, Dropped[k]) = << >>
        BY <2>1, <2>2
  <2> QED BY <2>3 DEF FirstUnclosed
<1>4. EarliestUnclosed(t) = n
  <2> DEFINE S == {n + 1} \cup UNION {FirstUnclosed(t, Dropped[k]) : k \in DOMAIN Dropped}
  <2>1. S = {n + 1}
        BY <1>3
  <2>2. EarliestUnclosed(t) = Min(S) - 1
        BY DEF EarliestUnclosed
  <2> HIDE DEF S, n
  <2>3. S \in SUBSET Nat /\ S # {}
        BY <1>1, <2>1
  <2>4. Min(S) = n + 1
        BY <2>1, <2>3, MinIs
  <2> QED BY <1>1, <2>2, <2>4
<1> HIDE DEF n
<1>5. HoldBackTag(t, n) = n
      BY <1>1, <1>2 DEF HoldBackTag, HoldBackLast
<1>6. HoldBackEntity(t, n) = n
      BY <1>1, <1>2 DEF HoldBackEntity, HoldBackLast
<1>7. HoldBackCR(t, n) = n
      BY <1>1, <1>2 DEF HoldBackCR, HoldBackLast
<1>8. HoldBackRiskyLine(t, n) = n
  <2> DEFINE S == {0} \cup {i \in 1..n : t[i] = NL}
  <2>1. S \in SUBSET (0..n) /\ S # {} /\ n \in S
        BY <1>1
  <2>2. HoldBackRiskyLine(t, n) \in {Max(S), n}
        BY DEF HoldBackRiskyLine
  <2> HIDE DEF S
  <2>3. Max(S) \in 0..n /\ n <= Max(S)
        BY <1>1, <2>1, MaxIs
  <2>4. Max(S) = n
        BY <1>1, <2>3
  <2> QED BY <2>2, <2>4
<1> QED BY <1>4, <1>5, <1>6, <1>7, <1>8 DEF Cutoff, n

\* Three texts of pieces and what they make together.
Joined(t, u, v) == (t \o u) \o v = t \o (u \o v) /\ t \o u \in Seq(Piece)

\* Concatenation of pieces is associative.
LEMMA ConcatConcat ==
  ASSUME NEW t \in Seq(Piece), NEW u \in Seq(Piece), NEW v \in Seq(Piece)
  PROVE  Joined(t, u, v)
PROOF
<1> DEFINE P == Piece
<1>1. t \in Seq(P) /\ u \in Seq(P) /\ v \in Seq(P)
      OBVIOUS
<1> HIDE DEF P
<1>2. (t \o u) \o v = t \o (u \o v) /\ t \o u \in Seq(P)
      BY <1>1, ConcatAssociative
<1> QED BY <1>2 DEF P, Joined

\* What is left of a text that leaves no block open once a part of it is
\* normalized and a first part of that is released leaves none open.
LEMMA RestLeavesNoneOpen ==
  ASSUME NEW b \in Seq(Piece), NEW chunk \in Seq(Piece), NEW rest \in Seq(Piece),
         NEW out \in Seq(Piece), NEW kept \in Seq(Piece),
         NoneOpen(b \o (chunk \o rest)), Normalize(b \o chunk) = out \o kept
  PROVE  NoneOpen(kept \o rest)
PROOF
<1> DEFINE got == b \o chunk
           end == kept \o rest
           held == out \o kept
<1>1. Joined(b, chunk, rest) /\ Joined(out, kept, rest) /\ Joined(kept, rest, b)
      BY ConcatConcat
<1>2. got \in Seq(Piece) /\ end \in Seq(Piece) /\ held \in Seq(Piece)
      BY <1>1 DEF Joined
<1>3. b \o (chunk \o rest) = got \o rest /\ held \o rest = out \o end /\ held = Normalize(got)
      BY <1>1 DEF Joined
<1> HIDE DEF got, end, held
<1> SUFFICES ASSUME NEW k \in DOMAIN Dropped PROVE Depth(0, end, Dropped[k]) = 0
    BY DEF NoneOpen, end
<1> DEFINE block == Dropped[k]
           d == Depth(0, got, block)
           e == Depth(0, held, block)
<1>4. Depth(0, got \o rest, block) = 0
      BY <1>3 DEF NoneOpen
<1> HIDE DEF block
<1>5. Depth(0, got \o rest, block) = Depth(d, rest, block)
      BY <1>2, DepthConcat
<1>6. Depth(0, held \o rest, block) = Depth(e, rest, block)
      BY <1>2, DepthConcat
<1>7. e = d
      BY <1>2, <1>3, DepthOfNormalized
<1>8. Depth(0, out \o end, block) = 0
  <2> HIDE DEF d, e
  <2> QED BY <1>3, <1>4, <1>5, <1>6, <1>7
<1>9. Depth(0, end, block) = 0
      BY <1>2, <1>8, DepthOfEnd
<1> QED BY <1>9 DEF block

\* What is held and to come after feed() is the end of what was, without some CR.
LEMMA FeedLeavesNoneOpen ==
  ASSUME NEW b \in Seq(Piece), NEW a \in Seq(Piece), NEW n \in 1..Len(a), NoneOpen(b \o a),
         NEW held \in Seq(Piece), held = Normalize(b \o SubSeq(a, 1, n)), NEW cut \in 0..Len(held)
  PROVE  NoneOpen(SubSeq(held, cut + 1, Len(held)) \o SubSeq(a, n + 1, Len(a)))
PROOF
<1> DEFINE P == Piece
           chunk == SubSeq(a, 1, n)
           rest == SubSeq(a, n + 1, Len(a))
           out == SubSeq(held, 1, cut)
           kept == SubSeq(held, cut + 1, Len(held))
<1>1. chunk \in Seq(P) /\ rest \in Seq(P) /\ a = chunk \o rest
      BY Parts
<1>2. out \in Seq(P) /\ kept \in Seq(P) /\ held = out \o kept
      BY Parts
<1>3. Normalize(b \o chunk) = out \o kept /\ NoneOpen(b \o (chunk \o rest))
      BY <1>1, <1>2
<1> HIDE DEF P, chunk, rest, out, kept
<1>4. NoneOpen(kept \o rest)
      BY <1>1, <1>2, <1>3, RestLeavesNoneOpen DEF P
<1> QED BY <1>4 DEF kept, rest

\* A unit leaves nothing open, and so do several of them.
LEMMA UnitsLeaveNoneOpen ==
  ASSUME NEW n \in Nat, NEW items \in [1..n -> Items]
  PROVE  NoneOpen(FlattenSeq(items))
PROOF
<1>1. Items \subseteq Seq(Piece)
      BY ItemsAssumption
<1>2. ASSUME NEW item \in Items, NEW k \in DOMAIN Dropped
      PROVE  Depth(0, item, Dropped[k]) = 0
  <2>1. /\ item \in Seq(Piece) /\ item # << >> /\ item[Len(item)].form = "char"
        /\ StillOpen(item, Dropped[k]) = << >>
        BY ItemsAssumption, ItemsAreWhole
  <2>2. Len(StillOpen(item, Dropped[k])) = Depth(0, item, Dropped[k])
        BY <2>1, StillOpenIsDepth
  <2> QED BY <2>1, <2>2
<1> DEFINE P == Piece
<1>3. items \in [1..n -> Seq(P)]
      BY <1>1
<1> HIDE DEF P
<1>4. \A g \in [1..n -> Seq(P)] : \E f \in [0..n -> Seq(P)] :
         /\ FlattenSeq(g) = f[n]
         /\ f[0] = << >>
         /\ \A i \in 1..n : f[i] = f[i-1] \o g[i]
      BY FlatSteps
<1>5. PICK f \in [0..n -> Seq(P)] : /\ FlattenSeq(items) = f[n]
                                    /\ f[0] = << >>
                                    /\ \A i \in 1..n : f[i] = f[i-1] \o items[i]
      BY <1>3, <1>4
<1> SUFFICES ASSUME NEW k \in DOMAIN Dropped PROVE Depth(0, f[n], Dropped[k]) = 0
    BY <1>5 DEF NoneOpen
<1> DEFINE Good == {i \in 0..n : Depth(0, f[i], Dropped[k]) = 0}
<1>6. 0 \in Good
      BY <1>5, DepthNothing
<1>7. ASSUME NEW i \in 0..n, i \in Good, i < n PROVE i + 1 \in Good
  <2> DEFINE u == f[i]
             v == items[i+1]
  <2>1. i + 1 \in 1..n /\ i + 1 \in 0..n /\ (i + 1) - 1 = i
        BY <1>7
  <2>2. u \in Seq(Piece) /\ v \in Seq(Piece) /\ v \in Items /\ f[i+1] = u \o v
        BY <1>3, <1>5, <2>1 DEF P
  <2>3. Depth(0, u, Dropped[k]) = 0
        BY <1>7
  <2> HIDE DEF u, v
  <2>4. Depth(0, u \o v, Dropped[k]) = Depth(Depth(0, u, Dropped[k]), v, Dropped[k])
        BY <2>2, DepthConcat
  <2>5. Depth(0, v, Dropped[k]) = 0
        BY <1>2, <2>2
  <2> QED BY <2>1, <2>2, <2>3, <2>4, <2>5
<1>8. n \in Good
  <2> HIDE DEF Good
  <2>1. 0..n \subseteq Good
        BY <1>6, <1>7, Counting
  <2> QED BY <2>1
<1> QED BY <1>8

\* What is held and to come leaves no block open, and nothing is held at the end
\* of a line when nothing is to come.
Whole == /\ Inv
         /\ arrived \in Seq(Piece)
         /\ NoneOpen(buffer \o arriving)
         /\ NothingWithheld

\* All the units are still to arrive.
LEMMA InitWhole == Init => Whole
PROOF
<1> SUFFICES ASSUME Init PROVE Whole
    OBVIOUS
<1>1. Inv
      BY InitInv
<1>2. buffer = << >> /\ arrived = << >>
      BY DEF Init
<1>3. NoneOpen(arriving)
  <2>1. PICK n \in 0..MaxItems : \E items \in [1..n -> Items] : arriving = FlattenSeq(items)
        BY DEF Init
  <2>2. PICK items \in [1..n -> Items] : arriving = FlattenSeq(items)
        BY <2>1
  <2>3. n \in Nat
        BY ItemsAssumption
  <2> QED BY <2>2, <2>3, UnitsLeaveNoneOpen
<1>4. buffer \o arriving = arriving
      BY <1>1, <1>2 DEF Inv, TypeOK
<1>5. << >> \in Seq(Piece)
      OBVIOUS
<1> QED BY <1>1, <1>2, <1>3, <1>4, <1>5 DEF Whole, NothingWithheld

\* Every operation leaves whole units to come behind what is held.
LEMMA NextWhole == Whole /\ [Next]_vars => Whole'
PROOF
<1> SUFFICES ASSUME Whole, [Next]_vars PROVE Whole'
    OBVIOUS
<1>1. Inv'
      BY NextInv DEF Whole
<1>2. buffer \in Seq(Piece) /\ arriving \in Seq(Piece) /\ arrived \in Seq(Piece)
      /\ NoneOpen(buffer \o arriving)
      BY DEF Whole, Inv, TypeOK
<1>3. CASE Feed
  <2>1. PICK n \in 1..Len(arriving) :
          LET chunk == SubSeq(arriving, 1, n)
              held  == Normalize(buffer \o chunk)
              cut   == Cutoff(held)
          IN /\ buffer' = SubSeq(held, cut + 1, Len(held))
             /\ arriving' = SubSeq(arriving, n + 1, Len(arriving))
             /\ arrived' = arrived \o chunk
        BY <1>3 DEF Feed
  <2> DEFINE chunk == SubSeq(arriving, 1, n)
             got   == buffer \o chunk
             held  == Normalize(got)
             cut   == Cutoff(held)
  <2>2. chunk \in Seq(Piece) /\ Len(chunk) = n /\ n \in Nat /\ n > 0
        BY <1>2
  <2>3. got \in Seq(Piece)
        BY <1>2, <2>2
  <2>4. held \in Seq(Piece)
        BY <2>3, KeepIs DEF Normalize
  <2>5. cut \in 0..Len(held)
        BY <2>4, PieceIsGlyph, CutoffIsThere
  <2>6. /\ buffer' = SubSeq(held, cut + 1, Len(held))
        /\ arriving' = SubSeq(arriving, n + 1, Len(arriving))
        /\ arrived' = arrived \o chunk
        BY <2>1
  <2>7. NoneOpen(buffer' \o arriving')
    <3> HIDE DEF cut
    <3>1. NoneOpen(SubSeq(held, cut + 1, Len(held)) \o SubSeq(arriving, n + 1, Len(arriving)))
          BY <1>2, <2>4, <2>5, FeedLeavesNoneOpen
    <3> QED BY <2>6, <3>1
  <2> HIDE DEF chunk
  <2>8. arrived' \in Seq(Piece)
        BY <1>2, <2>2, <2>6
  <2>9. ASSUME arriving' = << >>, Ends(arrived', NL) PROVE buffer' = << >>
    <3>1. chunk # << >>
          BY <2>2
    <3>6. Ends(chunk, NL)
          BY <1>2, <2>2, <2>6, <2>9, <3>1, EndOfConcat
    <3>2. Ends(got, NL)
          BY <1>2, <2>2, <3>1, <3>6, EndOfConcat
    <3> HIDE DEF got
    <3>3. Ends(held, NL)
          BY <2>3, <3>2, NormalizedEnds
    <3> HIDE DEF held
    <3>4. NoneOpen(held)
      <4> DEFINE out == SubSeq(held, 1, cut)
      <4> SUFFICES ASSUME NEW k \in DOMAIN Dropped PROVE Depth(0, held, Dropped[k]) = 0
          BY DEF NoneOpen
      <4>1. Depth(0, buffer \o arriving, Dropped[k]) = 0
            BY <1>2 DEF NoneOpen
      <4>2. chunk = arriving
        <5>1. Len(arriving) = n
          <6> DEFINE m == Len(arriving)
                     rest == SubSeq(arriving, n + 1, m)
          <6>1. Len(rest) = m - n /\ m \in Nat /\ n \in 1..m
                BY <1>2
          <6>2. rest = << >> /\ Len(<< >>) = 0
                BY <2>6, <2>9
          <6> HIDE DEF m, rest
          <6>3. m = n
                BY <6>1, <6>2
          <6> QED BY <6>3 DEF m
        <5> QED BY <1>2, <5>1 DEF chunk
      <4>3. Depth(0, got, Dropped[k]) = 0
            BY <4>1, <4>2 DEF got
      <4> QED BY <2>3, <4>3, DepthOfNormalized DEF held
    <3>5. cut = Len(held)
          BY <2>4, <3>3, <3>4, CutoffIsTheEnd
    <3> HIDE DEF cut
    <3> QED BY <2>4, <2>6, <3>5
  <2> QED BY <1>1, <2>7, <2>8, <2>9 DEF Whole, NothingWithheld
<1>4. CASE Flush
  <2>1. buffer' = << >> /\ arriving' = arriving /\ arrived' = arrived
        BY <1>4 DEF Flush
  <2>2. << >> \o arriving = arriving
        BY <1>2
  <2>3. NoneOpen(arriving)
        BY <1>2, DepthOfEnd DEF NoneOpen
  <2> QED BY <1>1, <1>2, <2>1, <2>2, <2>3 DEF Whole, NothingWithheld
<1>5. CASE UNCHANGED vars
  <2>1. buffer' = buffer /\ arriving' = arriving /\ arrived' = arrived
        BY <1>5 DEF vars
  <2> QED BY <1>1, <2>1 DEF Whole, NothingWithheld
<1> QED BY <1>3, <1>4, <1>5 DEF Next, Terminated

\* Whatever whole units a server sends and however they are cut, nothing is kept
\* back for nothing: when all of them have arrived and the last one has ended a
\* line, all of it has been shown (feed, _earliest_unclosed_drop_tag).
THEOREM NothingIsWithheld == Spec => []NothingWithheld
PROOF
<1>1. Whole => NothingWithheld
      BY DEF Whole
<1> QED BY <1>1, InitWhole, NextWhole, PTL DEF Spec

===============================================================================
