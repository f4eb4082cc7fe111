--------------------------- MODULE RecursionLemmas ---------------------------
(***************************************************************************)
(* Lemmas that the proofs about texts rest on: induction over the natural  *)
(* numbers, functions defined from one number to the next, and what        *)
(* operators of the community modules that are defined by recursion or     *)
(* choice return.                                                          *)
(***************************************************************************)
EXTENDS Integers, Sequences, SequencesExt, FiniteSetsExt, TLAPS, WellFoundedInduction

-------------------------------------------------------------------------------
(* Natural numbers: the least element of a set, counting up to n, and      *)
(* functions that are defined from one number to the next.                 *)

\* A set of natural numbers that is not empty has a least element.
LEMMA LeastOf ==
  ASSUME NEW S \in SUBSET Nat, S # {}
  PROVE  \E n \in S : \A m \in S : n <= m
PROOF
<1> DEFINE R == {p \in Nat \X Nat : p[1] < p[2]}
<1>1. IsWellFoundedOn(R, Nat)
  <2>1. R = OpToRel(<, Nat)
        BY Zenon DEF OpToRel
  <2> QED BY <2>1, NatLessThanWellFounded, Zenon
<1>2. \E x \in S : \A y \in S : ~(<<y, x>> \in R)
  <2> HIDE DEF R
  <2> QED BY <1>1, WFMin
<1>3. \A x, y \in S : <<y, x>> \in R <=> y < x
      OBVIOUS
<1> HIDE DEF R
<1>4. PICK x \in S : \A y \in S : ~(y < x)
      BY <1>2, <1>3
<1>5. \A y \in S : x <= y
      BY <1>4
<1> QED BY <1>5

\* What holds of 0 and, up to n, of the number after each one of which it holds,
\* holds of all numbers up to n.
LEMMA Counting ==
  ASSUME NEW n \in Nat, NEW S, 0 \in S,
         \A k \in 0..n : k \in S /\ k < n => k + 1 \in S
  PROVE  0..n \subseteq S
PROOF
<1> SUFFICES ASSUME ~(0..n \subseteq S) PROVE FALSE
    OBVIOUS
<1> DEFINE Out == {k \in 0..n : k \notin S}
<1>1. PICK k \in Out : \A m \in Out : k <= m
  <2>1. Out \in SUBSET Nat /\ Out # {}
        OBVIOUS
  <2> QED BY <2>1, LeastOf
<1>2. k # 0 /\ k - 1 \in 0..n /\ k - 1 \notin Out
      BY <1>1
<1> QED BY <1>1, <1>2

\* A function that begins with first and whose value at each number up to n is
\* made by step from the value before.
Built(f, first, step, n) == f[0] = first /\ \A k \in 1..n : f[k] = step[<<k, f[k-1]>>]

\* There is such a function, for every step.
LEMMA Recursion ==
  ASSUME NEW n \in Nat, NEW T, NEW first \in T, NEW step \in [(1..n) \X T -> T]
  PROVE  \E f \in [0..n -> T] : Built(f, first, step, n)
PROOF
<1> DEFINE Fits(f, m) == Built(f, first, step, m)
           S == {m \in 0..n : \E f \in [0..m -> T] : Fits(f, m)}
<1>1. 0 \in S
  <2> DEFINE g == [k \in 0..0 |-> first]
  <2>2. g \in [0..0 -> T] /\ Fits(g, 0)
        BY DEF Built
  <2> HIDE DEF Fits, g
  <2> QED BY <2>2
<1>2. ASSUME NEW m \in 0..n, m \in S, m < n PROVE m + 1 \in S
  <2>1. PICK f \in [0..m -> T] : Fits(f, m)
        BY <1>2
  <2> DEFINE g == [k \in 0..m+1 |-> IF k = m + 1 THEN step[<<k, f[m]>>] ELSE f[k]]
  <2>2. m + 1 \in 1..n /\ f[m] \in T
        BY <1>2, <2>1
  <2>3. step[<<m + 1, f[m]>>] \in T
        BY <2>2
  <2>4. g \in [0..m+1 -> T]
        BY <2>1, <2>3
  <2>5. Fits(g, m + 1)
        BY <2>1, <2>2 DEF Built
  <2> HIDE DEF Fits, g
  <2> QED BY <2>2, <2>4, <2>5
<1>3. n \in S
  <2> HIDE DEF S
  <2> QED BY <1>1, <1>2, Counting
<1> QED BY <1>3

-------------------------------------------------------------------------------
(* Sequences *)

\* A sequence over a set is one over a larger set.
LEMMA WiderSeq ==
  ASSUME NEW A, NEW B, A \subseteq B, NEW t \in Seq(A)
  PROVE  t \in Seq(B)
OBVIOUS

\* A sequence cut in two.
LEMMA Parts ==
  ASSUME NEW S, NEW t \in Seq(S), NEW i \in 0..Len(t)
  PROVE  /\ SubSeq(t, 1, i) \in Seq(S) /\ SubSeq(t, i + 1, Len(t)) \in Seq(S)
         /\ t = SubSeq(t, 1, i) \o SubSeq(t, i + 1, Len(t))
PROOF
<1> DEFINE u == SubSeq(t, 1, i)
           v == SubSeq(t, i + 1, Len(t))
<1>1. u \in Seq(S) /\ Len(u) = i /\ \A j \in 1..i : u[j] = t[j]
      OBVIOUS
<1>2. v \in Seq(S) /\ Len(v) = Len(t) - i /\ \A j \in 1..Len(t) - i : v[j] = t[i + j]
      OBVIOUS
<1> HIDE DEF u, v
<1>3. /\ u \o v \in Seq(S) /\ Len(u \o v) = Len(t)
      /\ \A j \in 1..Len(t) : (u \o v)[j] = IF j <= i THEN u[j] ELSE v[j - i]
      BY <1>1, <1>2
<1>4. \A j \in 1..Len(t) : (u \o v)[j] = t[j]
      BY <1>1, <1>2, <1>3
<1> DEFINE w == u \o v
<1>6. w \in Seq(S) /\ Len(w) = Len(t) /\ \A j \in 1..Len(t) : w[j] = t[j]
      BY <1>3, <1>4
<1> HIDE DEF w
<1>5. t = w
  <2>1. t = [j \in 1..Len(t) |-> t[j]] /\ w = [j \in 1..Len(w) |-> w[j]]
        BY <1>6
  <2> QED BY <1>6, <2>1
<1> QED BY <1>1, <1>2, <1>5 DEF u, v, w

\* The characters of a sequence, one after the other.
LEMMA OneByOne ==
  ASSUME NEW S, NEW t \in Seq(S)
  PROVE  /\ SubSeq(t, 1, 0) = << >> /\ SubSeq(t, 1, Len(t)) = t
         /\ \A i \in 0..Len(t) : SubSeq(t, 1, i) \in Seq(S)
         /\ \A i \in 0..Len(t) : i < Len(t) =>
              t[i+1] \in S /\ SubSeq(t, 1, i + 1) = Append(SubSeq(t, 1, i), t[i+1])
PROOF
<1>1. SubSeq(t, 1, 0) = << >> /\ SubSeq(t, 1, Len(t)) = t
      OBVIOUS
<1>2. \A i \in 0..Len(t) : SubSeq(t, 1, i) \in Seq(S)
      OBVIOUS
<1>3. ASSUME NEW i \in 0..Len(t), i < Len(t)
      PROVE  t[i+1] \in S /\ SubSeq(t, 1, i + 1) = Append(SubSeq(t, 1, i), t[i+1])
      BY <1>3
<1> QED BY <1>1, <1>2, <1>3

\* What holds of the empty sequence and, with one element more, of each sequence
\* of which it holds, holds of all sequences.
LEMMA Spelling ==
  ASSUME NEW S, NEW G, << >> \in G,
         \A u \in Seq(S), c \in S : u \in G => Append(u, c) \in G
  PROVE  Seq(S) \subseteq G
PROOF
<1> SUFFICES ASSUME NEW t \in Seq(S) PROVE t \in G
    OBVIOUS
<1> DEFINE n == Len(t)
           Read(i) == SubSeq(t, 1, i)
           Good == {i \in 0..n : Read(i) \in G}
<1>1. /\ n \in Nat /\ Read(0) = << >> /\ Read(n) = t
      /\ \A i \in 0..n : Read(i) \in Seq(S)
      /\ \A i \in 0..n : i < n => t[i+1] \in S /\ Read(i+1) = Append(Read(i), t[i+1])
      BY OneByOne
<1> HIDE DEF n, Read
<1>2. 0 \in Good
      BY <1>1
<1>3. ASSUME NEW i \in 0..n, i \in Good, i < n PROVE i + 1 \in Good
  <2>1. Read(i) \in Seq(S) /\ t[i+1] \in S /\ Read(i+1) = Append(Read(i), t[i+1])
        BY <1>1, <1>3
  <2>2. Read(i+1) \in G
        BY <1>3, <2>1
  <2> QED BY <1>1, <1>3, <2>2
<1>4. n \in Good
  <2> HIDE DEF Good
  <2>1. 0..n \subseteq Good
        BY <1>1, <1>2, <1>3, Counting
  <2> QED BY <1>1, <2>1
<1> QED BY <1>1, <1>4

-------------------------------------------------------------------------------
(* Min and Max *)

\* Min is the least element.
LEMMA MinIs ==
  ASSUME NEW S \in SUBSET Nat, S # {}
  PROVE  Min(S) \in S /\ \A m \in S : Min(S) <= m
PROOF
<1>1. \E x \in S : \A y \in S : x =< y
      BY LeastOf
<1> QED BY <1>1 DEF Min

\* Max is the greatest element of a bounded set.
LEMMA MaxIs ==
  ASSUME NEW n \in Nat, NEW S \in SUBSET (0..n), S # {}
  PROVE  Max(S) \in S /\ \A m \in S : m <= Max(S)
PROOF
<1> DEFINE Below == {m \in Nat : n - m \in S}
<1>1. Below \in SUBSET Nat /\ Below # {}
  <2>1. PICK x \in S : TRUE
        OBVIOUS
  <2>2. n - x \in Nat /\ n - (n - x) = x
        OBVIOUS
  <2>3. n - x \in Below
        BY <2>2
  <2> QED BY <2>3
<1>2. PICK d \in Below : \A e \in Below : d <= e
  <2> HIDE DEF Below
  <2> QED BY <1>1, LeastOf
<1> DEFINE x == n - d
<1>3. x \in S /\ d = n - x /\ d \in Nat
      OBVIOUS
<1> HIDE DEF x
<1>4. \A y \in S : y <= x
  <2> TAKE y \in S
  <2>1. n - y \in Below
    <3>1. n - y \in Nat /\ n - (n - y) = y
          OBVIOUS
    <3> QED BY <3>1
  <2>2. n - x <= n - y
        BY <1>2, <1>3, <2>1
  <2>3. x \in Int /\ y \in Int
        BY <1>3
  <2> QED BY <2>2, <2>3
<1>5. \E m \in S : \A y \in S : y <= m
      BY <1>3, <1>4
<1> QED BY <1>5 DEF Max

-------------------------------------------------------------------------------
(* FlattenSeq *)

\* One after the other, from nothing.
LEMMA FlatSteps ==
  ASSUME NEW E, NEW n \in Nat, NEW items \in [1..n -> Seq(E)]
  PROVE  \E f \in [0..n -> Seq(E)] :
           /\ FlattenSeq(items) = f[n]
           /\ f[0] = << >>
           /\ \A i \in 1..n : f[i] = f[i-1] \o items[i]
PROOF
<1> DEFINE T == Seq(E)
           step == [x \in (1..n) \X T |-> x[2] \o items[x[1]]]
<1>1. << >> \in T /\ items \in Seq(T) /\ Len(items) = n
      OBVIOUS
<1>2. \A i \in 1..n, t \in T : t \o items[i] \in T
      OBVIOUS
<1>3. \A i \in 1..n : items[i] = << >> \o items[i]
      OBVIOUS
<1> HIDE DEF T
<1>4. step \in [(1..n) \X T -> T]
      BY <1>2
<1>5. \A i \in 1..n, t \in T : step[<<i, t>>] = t \o items[i]
      OBVIOUS
<1> HIDE DEF step
<1>6. PICK f \in [0..n -> T] : Built(f, << >>, step, n)
      BY <1>1, <1>4, Recursion
<1>7. \A i \in 1..n : i - 1 \in 0..n /\ f[i] = f[i-1] \o items[i]
  <2> TAKE i \in 1..n
  <2>1. i - 1 \in 0..n
        OBVIOUS
  <2>2. f[i-1] \in T
        BY <2>1
  <2> QED BY <1>5, <1>6, <2>1, <2>2 DEF Built
<1>8. f[0] = << >>
      BY <1>6 DEF Built
<1>11. ASSUME 1 \in 1..n PROVE f[1] = items[1]
  <2>1. f[1] = f[1-1] \o items[1]
        BY <1>7, <1>11
  <2>2. 1 - 1 = 0
        OBVIOUS
  <2>3. f[1] = << >> \o items[1]
        BY <1>8, <2>1, <2>2
  <2> QED BY <1>3, <1>11, <2>3
<1>9. CASE n = 0
  <2>1. FlattenSeq(items) = items
        BY <1>1, <1>9 DEF FlattenSeq
  <2>2. items = << >>
        BY <1>9
  <2> QED BY <1>7, <1>8, <1>9, <2>1, <2>2 DEF T
<1>10. CASE n # 0
  <2> DEFINE Def(g) == [i \in 1..n |-> IF i = 1 THEN items[i] ELSE g[i-1] \o items[i]]
             flat == CHOOSE g : g = Def(g)
             h == [i \in 1..n |-> f[i]]
  <2>1. h = Def(h)
    <3>1. ASSUME NEW i \in 1..n PROVE h[i] = IF i = 1 THEN items[i] ELSE h[i-1] \o items[i]
      <4>1. CASE i = 1
            BY <1>11, <4>1
      <4>2. CASE i # 1
        <5>1. i - 1 \in 1..n
              BY <4>2
        <5> QED BY <1>7, <4>2, <5>1
      <4> QED BY <4>1, <4>2
    <3> HIDE DEF h
    <3>2. h = [i \in 1..n |-> h[i]]
          BY DEF h
    <3> QED BY <3>1, <3>2
  <2>2. flat = Def(flat)
    <3> HIDE DEF Def, h
    <3> QED BY <2>1
  <2>3. FlattenSeq(items) = flat[n]
        BY <1>1, <1>10 DEF FlattenSeq
  <2> HIDE DEF flat, h
  <2>7. \A i \in 1..n : flat[i] = IF i = 1 THEN items[i] ELSE flat[i-1] \o items[i]
        BY <2>2
  <2> HIDE DEF Def
  <2> DEFINE Same == {k \in 0..n : k = 0 \/ flat[k] = f[k]}
  <2>4. 0 \in Same
        OBVIOUS
  <2>5. ASSUME NEW k \in 0..n, k \in Same, k < n PROVE k + 1 \in Same
    <3>1. k + 1 \in 1..n /\ k + 1 \in 0..n /\ (k + 1) - 1 = k
          BY <2>5
    <3>2. f[k+1] = f[k] \o items[k+1]
          BY <1>7, <3>1
    <3>3. CASE k = 0
          BY <1>11, <2>7, <3>1, <3>3
    <3>4. CASE k # 0
      <4>1. flat[k] = f[k]
            BY <2>5, <3>4
      <4>2. flat[k+1] = flat[k] \o items[k+1]
        <5>1. k + 1 # 1 /\ k \in Nat
              BY <3>4
        <5>2. flat[k+1] = IF k + 1 = 1 THEN items[k+1] ELSE flat[(k+1)-1] \o items[k+1]
              BY <2>7, <3>1
        <5> QED BY <3>1, <5>1, <5>2
      <4> QED BY <3>1, <3>2, <4>1, <4>2
    <3> QED BY <3>3, <3>4
  <2>6. flat[n] = f[n]
    <3> HIDE DEF Same
    <3>1. 0..n \subseteq Same
          BY <2>4, <2>5, Counting
    <3> QED BY <1>10, <3>1 DEF Same
  <2> QED BY <1>7, <1>8, <2>3, <2>6 DEF T
<1> QED BY <1>9, <1>10

\* One sequence more is put behind those that were joined.
LEMMA FlatAppend ==
  ASSUME NEW E, NEW items \in Seq(Seq(E)), NEW t \in Seq(E)
  PROVE  /\ FlattenSeq(items) \in Seq(E)
         /\ FlattenSeq(Append(items, t)) = FlattenSeq(items) \o t
PROOF
<1> DEFINE n == Len(items)
           more == Append(items, t)
<1>1. n \in Nat /\ n + 1 \in Nat /\ items \in [1..n -> Seq(E)] /\ more \in [1..n+1 -> Seq(E)]
  <2>1. more \in Seq(Seq(E)) /\ Len(more) = n + 1
        OBVIOUS
  <2>2. more \in [1..n+1 -> Seq(E)]
    <3> HIDE DEF more
    <3>1. more \in [1..Len(more) -> Seq(E)]
          BY <2>1
    <3> QED BY <2>1, <3>1
  <2>3. items \in [1..n -> Seq(E)]
        OBVIOUS
  <2> HIDE DEF more
  <2> QED BY <2>2, <2>3
<1>10. \A k \in Nat : \A f \in [1..k -> Seq(E)] : \E g \in [0..k -> Seq(E)] :
         /\ FlattenSeq(f) = g[k]
         /\ g[0] = << >>
         /\ \A i \in 1..k : g[i] = g[i-1] \o f[i]
       BY FlatSteps
<1>2. more[n+1] = t /\ \A i \in 1..n : more[i] = items[i]
      OBVIOUS
<1> HIDE DEF n, more
<1>3. PICK f \in [0..n -> Seq(E)] :
        /\ FlattenSeq(items) = f[n]
        /\ f[0] = << >>
        /\ \A i \in 1..n : f[i] = f[i-1] \o items[i]
      BY <1>1, <1>10
<1>4. PICK g \in [0..n+1 -> Seq(E)] :
        /\ FlattenSeq(more) = g[n+1]
        /\ g[0] = << >>
        /\ \A i \in 1..n+1 : g[i] = g[i-1] \o more[i]
      BY <1>1, <1>10
<1> DEFINE Same == {k \in 0..n : g[k] = f[k]}
<1>5. 0 \in Same
      BY <1>1, <1>3, <1>4
<1>6. ASSUME NEW k \in 0..n, k \in Same, k < n PROVE k + 1 \in Same
  <2>1. k + 1 \in 1..n /\ k + 1 \in 1..n+1 /\ k + 1 \in 0..n /\ (k + 1) - 1 = k
        BY <1>1, <1>6
  <2>2. f[k+1] = f[k] \o items[k+1] /\ g[k+1] = g[k] \o more[k+1] /\ more[k+1] = items[k+1]
        BY <1>2, <1>3, <1>4, <2>1
  <2> QED BY <1>6, <2>1, <2>2
<1>7. g[n] = f[n]
  <2> HIDE DEF Same
  <2>1. 0..n \subseteq Same
        BY <1>1, <1>5, <1>6, Counting
  <2> QED BY <1>1, <2>1 DEF Same
<1>8. n + 1 \in 1..n+1 /\ (n + 1) - 1 = n /\ n \in 0..n
      BY <1>1
<1>9. g[n+1] = g[n] \o t
      BY <1>2, <1>4, <1>8
<1> QED BY <1>3, <1>4, <1>7, <1>8, <1>9 DEF more, n
===============================================================================
