----------------------------- MODULE FoldLemmas -----------------------------
(***************************************************************************)
(* What FoldLeft makes of a sequence, for any operator that is folded: the *)
(* loops of the code that go through a list once and keep a result (the    *)
(* chunks of a stream, the models of a catalog, the rows of the panel, the *)
(* objects nested in an answer).  An instance has the body of its loop for *)
(* Step and what it begins with for Start; Good relates the members that   *)
(* the loop has seen to its result.                                        *)
(*                                                                         *)
(* FoldLeft is defined by recursion on the set of positions, so that first *)
(* comes induction, over sets instead of formulas, and then the existence  *)
(* and the uniqueness of the function that the recursion defines.          *)
(***************************************************************************)
EXTENDS Naturals, SequencesExt, SequenceTheorems, WellFoundedInduction, TLAPS

CONSTANTS Step(_, _), Start, Good(_, _)

Folded(s) == FoldLeft(Step, Start, s)

-----------------------------------------------------------------------------
(* Induction. *)

\* A set of naturals that is not empty has a least member.
LEMMA Least ==
  ASSUME NEW T \in SUBSET Nat, T # {}
  PROVE  \E x \in T : \A y \in T : x <= y
<1>1. IsWellFoundedOn(OpToRel(<, Nat), Nat)
  BY NatLessThanWellFounded
<1>2. PICK x \in T : \A y \in T : ~ (<<y, x>> \in OpToRel(<, Nat))
  BY <1>1, WFMin
<1>3. \A y \in T : ~ (y < x)
  BY <1>2 DEF OpToRel
<1> QED
  BY <1>3

\* Induction on the naturals, over a set instead of a formula.
LEMMA Induct ==
  ASSUME NEW T \in SUBSET Nat, 0 \in T, \A n \in T : n + 1 \in T
  PROVE  T = Nat
<1> SUFFICES ASSUME T # Nat PROVE FALSE
  OBVIOUS
<1> DEFINE M == Nat \ T
<1>1. PICK x \in M : \A y \in M : x <= y
  BY Least
<1>2. x # 0 /\ x - 1 \in Nat /\ x - 1 \notin M
  BY <1>1
<1> QED
  BY <1>1, <1>2

\* The end of a sequence and what comes before it.
LEMMA Unsnoc ==
  ASSUME NEW S, NEW n \in Nat, NEW s \in Seq(S), Len(s) = n + 1
  PROVE  \E r \in Seq(S), x \in S : s = Append(r, x) /\ Len(r) = n
<1> DEFINE r == SubSeq(s, 1, n)
           x == s[n + 1]
<1>1. n + 1 \in 1..Len(s) /\ n <= Len(s)
  OBVIOUS
<1>2. r \in Seq(S) /\ x \in S /\ Len(r) = n
  BY <1>1
<1>3. Append(r, x) \in Seq(S) /\ Len(Append(r, x)) = n + 1
  BY <1>2
<1>4. \A i \in 1..(n + 1) : s[i] = Append(r, x)[i]
  BY <1>1, <1>2
<1>5. s = Append(r, x)
  <2> HIDE DEF r, x
  <2> QED
    BY <1>3, <1>4, SeqEqual
<1> QED
  BY <1>2, <1>5

\* Induction on sequences that grow at the end, over a set instead of a formula.
LEMMA SeqInduct ==
  ASSUME NEW S, NEW T \in SUBSET Seq(S), <<>> \in T,
         \A s \in T, x \in S : Append(s, x) \in T
  PROVE  T = Seq(S)
<1> DEFINE N == {n \in Nat : \A s \in Seq(S) : Len(s) = n => s \in T}
<1>1. 0 \in N
  <2>1. \A s \in Seq(S) : Len(s) = 0 => s = <<>>
    BY EmptySeq
  <2> QED
    BY <2>1
<1>2. ASSUME NEW n \in N PROVE n + 1 \in N
  <2>1. SUFFICES ASSUME NEW s \in Seq(S), Len(s) = n + 1 PROVE s \in T
    OBVIOUS
  <2>2. n \in Nat
    OBVIOUS
  <2>3. PICK r \in Seq(S), x \in S : s = Append(r, x) /\ Len(r) = n
    BY <2>1, <2>2, Unsnoc
  <2> QED
    BY <2>3
<1>3. N = Nat
  <2> HIDE DEF N
  <2>1. N \in SUBSET Nat
    BY DEF N
  <2> QED
    BY <1>1, <1>2, <2>1, Induct
<1>4. \A s \in Seq(S) : Len(s) \in N
  BY <1>3
<1> QED
  BY <1>4

-----------------------------------------------------------------------------
(* FoldLeft of a sequence that grows. *)

\* g is the function that FoldLeft defines, over the first n members of s.
Fold(s, n, g) ==
  g = [t \in SUBSET (1..n) |-> IF t = {} THEN Start ELSE Step(g[t \ {Max(t)}], s[Max(t)])]

\* A set of naturals up to k + 1 that has k + 1.
LEMMA MaxTop ==
  ASSUME NEW k \in Nat, NEW t \in SUBSET (1..(k + 1)), k + 1 \in t
  PROVE  Max(t) = k + 1
<1>1. \A y \in t : k + 1 >= y
  OBVIOUS
<1>2. \A x \in t : (\A y \in t : x >= y) => x = k + 1
  OBVIOUS
<1> QED
  BY <1>1, <1>2 DEF Max

\* There is one for each n ...
LEMMA FoldExists ==
  ASSUME NEW s, NEW n \in Nat
  PROVE  \E g : Fold(s, n, g)
<1> DEFINE T == {k \in Nat : \E g : Fold(s, k, g)}
<1>1. 0 \in T
  <2> DEFINE g == [t \in SUBSET (1..0) |-> Start]
  <2>1. SUBSET (1..0) = {{}}
    OBVIOUS
  <2>2. Fold(s, 0, g)
    BY <2>1 DEF Fold
  <2> QED
    BY <2>2
<1>2. ASSUME NEW k \in T PROVE k + 1 \in T
  <2>1. PICK g : Fold(s, k, g)
    OBVIOUS
  <2>2. PICK N \in Nat : N = k + 1
    OBVIOUS
  <2> DEFINE h == [t \in SUBSET (1..N) |->
                     IF N \in t THEN Step(g[t \ {N}], s[N]) ELSE g[t]]
  <2>3. Fold(s, N, h)
    <3>1. ASSUME NEW t \in SUBSET (1..N)
          PROVE  h[t] = IF t = {} THEN Start
                        ELSE Step(h[t \ {Max(t)}], s[Max(t)])
      <4>1. CASE N \in t
        <5>1. Max(t) = N
          BY <2>2, <4>1, MaxTop
        <5>2. t \ {N} \in SUBSET (1..N) /\ N \notin t \ {N}
          OBVIOUS
        <5>3. h[t \ {N}] = g[t \ {N}]
          BY <5>2
        <5>4. h[t] = Step(g[t \ {N}], s[N])
          BY <4>1
        <5> QED
          BY <4>1, <5>1, <5>3, <5>4
      <4>2. CASE N \notin t
        <5>1. t \in SUBSET (1..k)
          BY <2>2, <4>2
        <5>2. g[t] = IF t = {} THEN Start
                     ELSE Step(g[t \ {Max(t)}], s[Max(t)])
          BY <2>1, <5>1 DEF Fold
        <5>3. h[t] = g[t]
          BY <4>2
        <5>4. t \ {Max(t)} \in SUBSET (1..N) /\ N \notin t \ {Max(t)}
          BY <4>2
        <5>5. h[t \ {Max(t)}] = g[t \ {Max(t)}]
          BY <5>4
        <5> QED
          BY <5>2, <5>3, <5>5
      <4> QED
        BY <4>1, <4>2
    <3>2. h = [t \in SUBSET (1..N) |-> h[t]]
      OBVIOUS
    <3> HIDE DEF h
    <3> QED
      BY <3>1, <3>2 DEF Fold
  <2> QED
    BY <2>2, <2>3
<1>3. T = Nat
  <2> HIDE DEF T
  <2>1. T \subseteq Nat
    BY DEF T
  <2> QED
    BY <1>1, <1>2, <2>1, Induct
<1> QED
  BY <1>3

\* The first m members of d are those of e.
Begins(d, e, m) == \A i \in 1..m : d[i] = e[i]

\* ... and no other, whatever follows in the sequence.
LEMMA FoldAgree ==
  ASSUME NEW d, NEW e, NEW m \in Nat, NEW n \in Nat, NEW g, NEW h, m <= n,
         Begins(d, e, m), Fold(d, m, g), Fold(e, n, h)
  PROVE  g[1..m] = h[1..m]
<1> DEFINE T == {k \in Nat : k \in 0..m => g[1..k] = h[1..k]}
<1>1. 0 \in T
  <2>1. {} \in SUBSET (1..m) /\ {} \in SUBSET (1..n) /\ 1..0 = {}
    OBVIOUS
  <2>2. g[{}] = Start /\ h[{}] = Start
    BY <2>1 DEF Fold
  <2> QED
    BY <2>1, <2>2
<1>2. ASSUME NEW k \in T PROVE k + 1 \in T
  <2>1. PICK N \in Nat : N = k + 1
    OBVIOUS
  <2>2. CASE N \in 0..m
    <3>1. /\ 1..N \in SUBSET (1..m) /\ 1..N \in SUBSET (1..n)
          /\ 1..N \in SUBSET (1..(k + 1)) /\ k + 1 \in 1..N /\ 1..N # {}
      <4>1. k \in Nat
        OBVIOUS
      <4>2. N \in 1..m /\ N \in 1..n
        BY <2>1, <2>2, <4>1
      <4>3. 1..N \subseteq 1..m /\ 1..N \subseteq 1..n
        BY <4>2
      <4>4. 1..N \subseteq 1..(k + 1) /\ N \in 1..N
        BY <2>1, <4>1
      <4>5. k + 1 \in 1..N /\ 1..N # {}
        BY <2>1, <4>4
      <4> QED
        BY <4>3, <4>4, <4>5
    <3>2. Max(1..N) = N
      BY <2>1, <3>1, MaxTop
    <3>3. (1..N) \ {N} = 1..k
      BY <2>1
    <3>4. g[1..N] = Step(g[(1..N) \ {Max(1..N)}], d[Max(1..N)])
      BY <3>1 DEF Fold
    <3>5. h[1..N] = Step(h[(1..N) \ {Max(1..N)}], e[Max(1..N)])
      BY <3>1 DEF Fold
    <3>6. d[N] = e[N] /\ g[1..k] = h[1..k]
      <4>1. k \in Nat /\ (k \in 0..m => g[1..k] = h[1..k])
        OBVIOUS
      <4>2. N \in 1..m /\ k \in 0..m
        BY <2>1, <2>2, <4>1
      <4> QED
        BY <4>1, <4>2 DEF Begins
    <3> QED
      BY <2>1, <3>2, <3>3, <3>4, <3>5, <3>6
  <2> QED
    BY <2>1, <2>2
<1>3. T = Nat
  <2> HIDE DEF T
  <2>1. T \subseteq Nat
    BY DEF T
  <2> QED
    BY <1>1, <1>2, <2>1, Induct
<1>4. m \in T /\ m \in 0..m
  BY <1>3
<1> QED
  BY <1>4

\* What FoldLeft makes of a sequence ...
LEMMA FoldedAt ==
  ASSUME NEW S, NEW cs \in Seq(S)
  PROVE  \E g : Fold(cs, Len(cs), g) /\ Folded(cs) = g[1..Len(cs)]
<1> DEFINE n == Len(cs)
           P(f) == f = [t \in SUBSET (1..n) |->
                     IF t = {} THEN Start ELSE Step(f[t \ {Max(t)}], cs[Max(t)])]
<1>1. n \in Nat /\ DOMAIN cs = 1..n
  OBVIOUS
<1>2. \E f : Fold(cs, n, f)
  BY <1>1, FoldExists
<1>3. \A f : Fold(cs, n, f) <=> P(f)
  BY DEF Fold
<1>4. Folded(cs) = (CHOOSE f : P(f))[1..n]
  BY <1>1 DEF Folded, FoldLeft, MapThenFoldSet
<1> HIDE DEF P
<1>5. P(CHOOSE f : P(f))
  BY <1>2, <1>3, Zenon
<1> QED
  BY <1>3, <1>4, <1>5, Zenon

\* ... of none ...
LEMMA FoldedEmpty == Folded(<<>>) = Start
<1>1. <<>> \in Seq({}) /\ Len(<<>>) = 0 /\ 1..0 = {} /\ {} \in SUBSET (1..0)
  OBVIOUS
<1>2. PICK g : Fold(<<>>, 0, g) /\ Folded(<<>>) = g[1..0]
  BY <1>1, FoldedAt
<1>3. g[{}] = Start
  BY <1>1, <1>2 DEF Fold
<1> QED
  BY <1>1, <1>2, <1>3

\* ... and of one that gets another member.
LEMMA FoldedAppend ==
  ASSUME NEW S, NEW cs \in Seq(S), NEW c \in S
  PROVE  Folded(Append(cs, c)) = Step(Folded(cs), c)
<1>1. PICK ds : ds = Append(cs, c)
  OBVIOUS
<1>2. PICK k \in Nat : k = Len(cs)
  OBVIOUS
<1>3. PICK N \in Nat : N = k + 1
  OBVIOUS
<1>4. /\ ds \in Seq(S) /\ Len(ds) = N
      /\ ds[N] = c /\ \A i \in 1..k : cs[i] = ds[i]
  BY <1>1, <1>2, <1>3
<1>5. PICK after : Fold(ds, N, after) /\ Folded(ds) = after[1..N]
  BY <1>4, FoldedAt
<1>6. PICK before : Fold(cs, k, before) /\ Folded(cs) = before[1..k]
  BY <1>2, FoldedAt
<1>7. after[1..N] = Step(after[1..k], c)
  <2>1. 1..N \in SUBSET (1..(k + 1)) /\ k + 1 \in 1..N /\ 1..N # {} /\ (1..N) \ {N} = 1..k
    <3>1. 1..N = 1..(k + 1) /\ k + 1 \in 1..(k + 1)
      BY ONLY k \in Nat, <1>3
    <3>2. (1..N) \ {N} = 1..k
      BY ONLY k \in Nat, <1>3
    <3> QED
      BY ONLY <3>1, <3>2
  <2>2. Max(1..N) = N
    BY <1>3, <2>1, MaxTop
  <2>3. after[1..N] = Step(after[(1..N) \ {Max(1..N)}], ds[Max(1..N)])
    BY <1>5, <2>1 DEF Fold
  <2> QED
    BY <1>4, <2>1, <2>2, <2>3
<1>8. before[1..k] = after[1..k]
  <2>1. k <= N
    BY <1>3
  <2>2. Fold(cs, k, before) /\ Fold(ds, N, after) /\ Begins(cs, ds, k)
    BY <1>4, <1>5, <1>6 DEF Begins
  <2> QED
    BY ONLY k \in Nat, N \in Nat, <2>1, <2>2, FoldAgree
<1> QED
  BY <1>1, <1>5, <1>6, <1>7, <1>8

\* What holds of none, and with one more, holds of what was folded from any sequence.
LEMMA FoldedGood ==
  ASSUME NEW S, Good(<<>>, Start),
         \A s \in Seq(S), x \in S : \A a : Good(s, a) => Good(Append(s, x), Step(a, x)),
         NEW s \in Seq(S)
  PROVE  Good(s, Folded(s))
<1> DEFINE T == {t \in Seq(S) : Good(t, Folded(t))}
<1>1. <<>> \in T
  BY FoldedEmpty
<1>2. ASSUME NEW t \in T, NEW x \in S PROVE Append(t, x) \in T
  <2>1. Folded(Append(t, x)) = Step(Folded(t), x)
    BY FoldedAppend
  <2>2. Good(t, Folded(t)) /\ t \in Seq(S) /\ Append(t, x) \in Seq(S)
    OBVIOUS
  <2> QED
    BY <2>1, <2>2
<1>3. T = Seq(S)
  <2> HIDE DEF T
  <2>1. T \in SUBSET Seq(S)
    BY DEF T
  <2> QED
    BY <1>1, <1>2, <2>1, SeqInduct
<1> QED
  BY <1>3
=============================================================================
