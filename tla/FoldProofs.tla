------------------------------ MODULE FoldProofs ------------------------------
(***************************************************************************)
(* Induction over data, as the proofs of the components need it: on the    *)
(* naturals, with a set of numbers for the induction hypothesis, and on    *)
(* the recursion behind FoldLeft and the other folds of the community      *)
(* modules.                                                                *)
(***************************************************************************)
EXTENDS Integers, FiniteSets, Sequences, SequencesExt, SequenceTheorems, FiniteSetTheorems,
        WellFoundedInduction, TLAPS

LEMMA LeastNumber ==
  ASSUME NEW T, T \subseteq Nat, T # {}
  PROVE  \E x \in T : \A y \in T : x =< y
<1> DEFINE R == OpToRel(<, Nat)
<1>1. IsWellFoundedOn(R, Nat)
  BY NatLessThanWellFounded
<1>2. \A x, y \in Nat : x < y => <<x, y>> \in R
  BY DEF OpToRel
<1> HIDE DEF R
<1>3. PICK x \in T : \A y \in T : ~ (<<y, x>> \in R)
  BY <1>1, WFMin
<1>4. ASSUME NEW y \in T PROVE x =< y
  <2>1. x \in Nat /\ y \in Nat
    OBVIOUS
  <2>2. ~(y < x)
    BY <1>2, <1>3, <2>1
  <2> QED BY <2>1, <2>2
<1> QED BY <1>4

\* A set of numbers that has 0, and with each number the next, has all.
LEMMA NumberInduction ==
  ASSUME NEW T, 0 \in T, \A n \in Nat : n \in T => n + 1 \in T
  PROVE  \A n \in Nat : n \in T
<1> DEFINE U == Nat \ T
<1> SUFFICES ASSUME U # {} PROVE FALSE
  OBVIOUS
<1>1. PICK x \in U : \A y \in U : x =< y
  BY LeastNumber
<1>2. x # 0 /\ x - 1 \in Nat /\ x - 1 \notin U
  BY <1>1
<1> QED BY <1>1, <1>2

\* The same up to a bound.
LEMMA BoundedInduction ==
  ASSUME NEW T, NEW m \in Nat, 0 \in T, \A n \in 0..(m - 1) : n \in T => n + 1 \in T
  PROVE  \A n \in 0..m : n \in T
<1> DEFINE U == {n \in Nat : n =< m => n \in T}
<1>1. 0 \in U
  OBVIOUS
<1>2. \A n \in Nat : n \in U => n + 1 \in U
  OBVIOUS
<1> HIDE DEF U
<1>3. \A n \in Nat : n \in U
  BY <1>1, <1>2, NumberInduction
<1> QED BY <1>3 DEF U

LEMMA GreatestNumber ==
  ASSUME NEW n \in Nat, NEW s, s \subseteq 1..n, s # {}
  PROVE  Max(s) \in s /\ \A y \in s : Max(s) >= y
<1> DEFINE T == {n - x : x \in s}
<1>1. T \subseteq Nat /\ T # {}
  <2>1. \A x \in s : n - x \in Nat
    OBVIOUS
  <2>2. PICK x \in s : TRUE
    OBVIOUS
  <2> QED BY <2>1, <2>2
<1>2. PICK t \in T : \A y \in T : t =< y
  BY <1>1, LeastNumber
<1>3. PICK x \in s : t = n - x
  OBVIOUS
<1>4. ASSUME NEW y \in s PROVE x >= y
  <2>1. n - y \in T /\ x \in Int /\ y \in Int
    OBVIOUS
  <2> QED BY <1>2, <1>3, <2>1
<1> QED BY <1>4 DEF Max

\* The last number of an interval, as the folds take it off.
LEMMA LastOfInterval ==
  ASSUME NEW k \in Nat, k > 0
  PROVE  Max(1..k) = k /\ (1..k) \ {Max(1..k)} = 1..(k - 1) /\ 1..k # {}
<1>1. k \in 1..k
  OBVIOUS
<1>2. Max(1..k) \in 1..k /\ \A y \in 1..k : Max(1..k) >= y
  BY <1>1, GreatestNumber
<1>3. Max(1..k) = k
  BY <1>1, <1>2
<1>4. (1..k) \ {k} = 1..(k - 1)
  OBVIOUS
<1> QED BY <1>1, <1>3, <1>4

(* The recursion behind a fold: from a finite set, c takes one element off *)
(* at a time, and h[<<x, v>>] is what it makes of the value v of the rest. *)
(* There is a function that satisfies it.                                  *)
Recursion(iter, base, S, c, h) ==
  iter = [s \in SUBSET S |-> IF s = {} THEN base ELSE h[<<c[s], iter[s \ {c[s]}]>>]]

LEMMA FoldExists ==
  ASSUME NEW T, NEW base \in T, NEW S, IsFiniteSet(S),
         NEW c, \A s \in SUBSET S : s # {} => c[s] \in s,
         NEW h \in [S \X T -> T]
  PROVE  \E iter \in [SUBSET S -> T] : Recursion(iter, base, S, c, h)
<1> DEFINE Upto(k) == {s \in SUBSET S : Cardinality(s) =< k}
           Solves(f, k) ==
             \A s \in Upto(k) : f[s] = IF s = {} THEN base ELSE h[<<c[s], f[s \ {c[s]}]>>]
           n == Cardinality(S)
           K == {k \in 0..n : \E f \in [Upto(k) -> T] : Solves(f, k)}
<1>a. n \in Nat /\ \A s \in SUBSET S : IsFiniteSet(s) /\ Cardinality(s) \in Nat /\ Cardinality(s) =< n
  BY FS_CardinalityType, FS_Subset
<1>b. \A s \in SUBSET S : Cardinality(s) = 0 <=> s = {}
  BY <1>a, FS_EmptySet
<1>c. ASSUME NEW s \in SUBSET S, s # {}
      PROVE  c[s] \in S /\ s \ {c[s]} \in SUBSET S /\ Cardinality(s \ {c[s]}) = Cardinality(s) - 1
  <2>1. c[s] \in s /\ IsFiniteSet(s)
    BY <1>a, <1>c
  <2>2. c[s] \in S /\ s \ {c[s]} \in SUBSET S
    BY <2>1
  <2>3. Cardinality(s \ {c[s]}) = Cardinality(s) - 1
    BY <2>1, FS_RemoveElement
  <2> QED BY <2>2, <2>3
<1>1. 0 \in K
  <2> DEFINE f == [s \in Upto(0) |-> base]
  <2>1. \A s \in Upto(0) : s = {}
    BY <1>a, <1>b
  <2>2. f \in [Upto(0) -> T] /\ Solves(f, 0)
    BY <2>1
  <2>3. 0 \in 0..n
    BY <1>a
  <2> HIDE DEF f, Upto
  <2> QED BY <2>2, <2>3
<1>2. ASSUME NEW k \in 0..(n - 1), k \in K PROVE k + 1 \in K
  <2>1. PICK f \in [Upto(k) -> T] : Solves(f, k)
    BY <1>2
  <2>2. k \in Nat /\ k + 1 \in 0..n
    BY <1>a
  <2> DEFINE g == [s \in Upto(k + 1) |-> IF s = {} THEN base ELSE h[<<c[s], f[s \ {c[s]}]>>]]
  <2>3. \A s \in Upto(k + 1) : s \in SUBSET S /\ (s # {} => s \ {c[s]} \in Upto(k))
    BY <1>a, <1>c, <2>2
  <2>4. g \in [Upto(k + 1) -> T]
    <3>1. \A s \in Upto(k + 1) : s # {} => c[s] \in S /\ f[s \ {c[s]}] \in T
      BY <1>c, <2>3
    <3>2. \A x \in S, v \in T : h[<<x, v>>] \in T
      OBVIOUS
    <3> HIDE DEF Upto
    <3> QED BY <3>1, <3>2
  <2>5. \A s \in Upto(k) : s \in Upto(k + 1) /\ g[s] = f[s]
    <3>1. \A s \in Upto(k) : s \in Upto(k + 1)
      BY <1>a, <2>2
    <3> HIDE DEF Upto
    <3> QED BY <2>1, <3>1
  <2>6. Solves(g, k + 1)
    <3> SUFFICES ASSUME NEW s \in Upto(k + 1)
                 PROVE  g[s] = IF s = {} THEN base ELSE h[<<c[s], g[s \ {c[s]}]>>]
      OBVIOUS
    <3>1. s # {} => g[s \ {c[s]}] = f[s \ {c[s]}]
      BY <2>3, <2>5
    <3>2. g[s] = IF s = {} THEN base ELSE h[<<c[s], f[s \ {c[s]}]>>]
      OBVIOUS
    <3> HIDE DEF g, Upto
    <3> QED BY <3>1, <3>2
  <2> HIDE DEF g, Upto
  <2> QED BY <2>2, <2>4, <2>6
<1> HIDE DEF K
<1>3. n \in K
  BY <1>a, <1>1, <1>2, BoundedInduction
<1>4. PICK f \in [Upto(n) -> T] : Solves(f, n)
  BY <1>3 DEF K
<1>5. Upto(n) = SUBSET S
  BY <1>a
<1> DEFINE F == [s \in SUBSET S |-> IF s = {} THEN base ELSE h[<<c[s], f[s \ {c[s]}]>>]]
<1>6. \A s \in SUBSET S : f[s] = F[s]
  BY <1>4, <1>5
<1>7. f \in [SUBSET S -> T] /\ f = F
  BY <1>4, <1>5, <1>6
<1> QED BY <1>7 DEF Recursion

(* Induction over sequences, again with a set for the hypothesis.          *)
LEMMA SeqInduction ==
  ASSUME NEW S, NEW T, <<>> \in T, \A s \in Seq(S), e \in S : s \in T => Append(s, e) \in T
  PROVE  \A s \in Seq(S) : s \in T
<1> SUFFICES ASSUME NEW s \in Seq(S) PROVE s \in T
  OBVIOUS
<1> DEFINE U == {k \in 0..Len(s) : SubSeq(s, 1, k) \in T}
<1>0. Len(s) \in Nat /\ SubSeq(s, 1, 0) = <<>> /\ SubSeq(s, 1, Len(s)) = s
  OBVIOUS
<1>1. 0 \in U
  <2>1. 0 \in 0..Len(s)
    BY <1>0
  <2>2. SubSeq(s, 1, 0) \in T
    BY <1>0, Zenon
  <2> QED BY <2>1, <2>2
<1>2. ASSUME NEW k \in 0..(Len(s) - 1), k \in U PROVE k + 1 \in U
  <2>1. k \in Nat /\ k + 1 \in 1..Len(s) /\ k + 1 \in 0..Len(s) /\ s[k + 1] \in S
    BY <1>0
  <2>2. SubSeq(s, 1, k) \in Seq(S) /\ Len(SubSeq(s, 1, k)) = k /\ \A i \in 1..k : SubSeq(s, 1, k)[i] = s[i]
    BY <2>1
  <2>3. SubSeq(s, 1, k + 1) \in Seq(S) /\ Len(SubSeq(s, 1, k + 1)) = k + 1
        /\ \A i \in 1..(k + 1) : SubSeq(s, 1, k + 1)[i] = s[i]
    BY <2>1
  <2> DEFINE a == SubSeq(s, 1, k)
             b == SubSeq(s, 1, k + 1)
             c == Append(a, s[k + 1])
  <2> HIDE DEF a, b
  <2>4. c \in Seq(S) /\ Len(c) = Len(a) + 1 /\ (\A i \in 1..Len(a) : c[i] = a[i]) /\ c[Len(a) + 1] = s[k + 1]
    BY <2>1, <2>2, AppendProperties DEF a
  <2> HIDE DEF c
  <2>5. Len(b) = Len(c) /\ \A i \in 1..Len(b) : b[i] = c[i]
    BY <2>1, <2>2, <2>3, <2>4 DEF a, b
  <2>6. b = c
    BY <2>3, <2>4, <2>5, SeqEqual DEF b
  <2> QED BY <1>2, <2>1, <2>2, <2>6 DEF a, b, c
<1> HIDE DEF U
<1>3. \A k \in 0..Len(s) : k \in U
  BY <1>0, <1>1, <1>2, BoundedInduction
<1>4. Len(s) \in 0..Len(s)
  BY <1>0
<1> QED BY <1>0, <1>3, <1>4 DEF U

LEMMA SeqOfElements ==
  ASSUME NEW R, NEW S, NEW s \in Seq(R), \A i \in 1..Len(s) : s[i] \in S
  PROVE  s \in Seq(S)
OBVIOUS

(* FlattenSeq, which is recursive over its list of lists. *)
Flattens(f, ss) ==
  \A i \in DOMAIN ss : f[i] = IF i = 1 THEN ss[1] ELSE f[i - 1] \o ss[i]

LEMMA FlattenIs ==
  ASSUME NEW S, NEW ss \in Seq(Seq(S)), ss # <<>>
  PROVE  \E f \in [1 .. Len(ss) -> Seq(S)] : Flattens(f, ss) /\ FlattenSeq(ss) = f[Len(ss)]
<1> DEFINE n == Len(ss)
           Def(f) == [i \in 1 .. Len(ss) |-> IF i = 1 THEN ss[i] ELSE f[i - 1] \o ss[i]]
           K == {k \in 0 .. n : \E f \in [1 .. k -> Seq(S)] :
                   \A i \in 1 .. k : f[i] = IF i = 1 THEN ss[i] ELSE f[i - 1] \o ss[i]}
<1>0. n \in Nat /\ n # 0 /\ DOMAIN ss = 1 .. n /\ \A i \in 1 .. n : ss[i] \in Seq(S)
  OBVIOUS
<1>1. 0 \in K
  <2> DEFINE f == [i \in 1 .. 0 |-> <<>>]
  <2>1. f \in [1 .. 0 -> Seq(S)] /\ \A i \in 1 .. 0 : f[i] = IF i = 1 THEN ss[i] ELSE f[i - 1] \o ss[i]
    OBVIOUS
  <2> HIDE DEF f
  <2>2. 0 \in 0 .. n
    BY <1>0
  <2> QED BY <2>1, <2>2
<1>2. ASSUME NEW k \in 0 .. (n - 1), k \in K PROVE k + 1 \in K
  <2>1. PICK f \in [1 .. k -> Seq(S)] : \A i \in 1 .. k : f[i] = IF i = 1 THEN ss[i] ELSE f[i - 1] \o ss[i]
    BY <1>2
  <2> DEFINE g == [i \in 1 .. (k + 1) |-> IF i = 1 THEN ss[i] ELSE f[i - 1] \o ss[i]]
  <2>2. \A i \in 1 .. (k + 1) : i # 1 => i - 1 \in 1 .. k
    BY <1>0
  <2>3. \A i \in 1 .. (k + 1) : ss[i] \in Seq(S) /\ (i # 1 => f[i - 1] \o ss[i] \in Seq(S))
    BY <1>0, <2>2
  <2>4. g \in [1 .. (k + 1) -> Seq(S)]
    BY <2>3
  <2>5. \A i \in 1 .. k : g[i] = f[i]
    <3>1. \A i \in 1 .. k : i \in 1 .. (k + 1)
      BY <1>0
    <3> QED BY <2>1, <3>1
  <2>6. \A i \in 1 .. (k + 1) : g[i] = IF i = 1 THEN ss[i] ELSE f[i - 1] \o ss[i]
    OBVIOUS
  <2> HIDE DEF g
  <2>7. \A i \in 1 .. (k + 1) : g[i] = IF i = 1 THEN ss[i] ELSE g[i - 1] \o ss[i]
    BY <2>2, <2>5, <2>6
  <2>8. k + 1 \in 0 .. n
    BY <1>0
  <2> QED BY <2>4, <2>7, <2>8
<1>3. n \in K
  <2> HIDE DEF K
  <2>1. \A k \in 0 .. n : k \in K
    BY <1>0, <1>1, <1>2, BoundedInduction
  <2> QED BY <1>0, <2>1
<1>4. PICK f \in [1 .. n -> Seq(S)] : \A i \in 1 .. n : f[i] = IF i = 1 THEN ss[i] ELSE f[i - 1] \o ss[i]
  BY <1>3
<1> HIDE DEF K
<1>5. f = Def(f)
  BY <1>4, Zenon
<1> DEFINE g == CHOOSE h : h = Def(h)
<1>6. g = Def(g)
  BY <1>5, Zenon
<1>7. FlattenSeq(ss) = g[Len(ss)]
  BY <1>0 DEF FlattenSeq
<1>8. \A i \in 1 .. n : g[i] = IF i = 1 THEN ss[i] ELSE g[i - 1] \o ss[i]
  BY <1>6, Zenon
<1>9. DOMAIN g = 1 .. n /\ g = [i \in 1 .. n |-> g[i]]
  <2> DEFINE X(i) == IF i = 1 THEN ss[i] ELSE g[i - 1] \o ss[i]
  <2>1. g = [i \in 1 .. n |-> X(i)]
    BY <1>6, Zenon
  <2> HIDE DEF g, Def, X
  <2>2. DOMAIN g = 1 .. n /\ \A i \in 1 .. n : g[i] = X(i)
    BY <2>1, Zenon
  <2>3. [i \in 1 .. n |-> X(i)] = [i \in 1 .. n |-> g[i]]
    BY <2>2, Zenon
  <2> QED BY <2>1, <2>2, <2>3, Zenon
<1> HIDE DEF g, Def
<1> DEFINE U == {k \in 0 .. n : k # 0 => g[k] = f[k]}
<1>10. 0 \in U
  BY <1>0
<1>11. ASSUME NEW k \in 0 .. (n - 1), k \in U PROVE k + 1 \in U
  <2>1. k + 1 \in 1 .. n /\ (k + 1 # 1 => g[(k + 1) - 1] = f[(k + 1) - 1])
    BY <1>0, <1>11
  <2>2. g[k + 1] = f[k + 1]
    BY <1>4, <1>8, <2>1, ZenonT(40)
  <2>3. k + 1 \in 0 .. n
    BY <1>0
  <2> QED BY <2>2, <2>3
<1> HIDE DEF U
<1>12. \A k \in 0 .. n : k \in U
  BY <1>0, <1>10, <1>11, BoundedInduction
<1>13. g[n] = f[n]
  <2>1. n \in 0 .. n
    BY <1>0
  <2> QED BY <1>0, <1>12, <2>1 DEF U
<1>14. Flattens(f, ss)
  BY <1>0, <1>4 DEF Flattens
<1> QED BY <1>7, <1>13, <1>14

LEMMA FlattenAppend ==
  ASSUME NEW S
  PROVE  /\ FlattenSeq(<<>>) = <<>>
         /\ \A ss \in Seq(Seq(S)) : FlattenSeq(ss) \in Seq(S)
         /\ \A ss \in Seq(Seq(S)), s \in Seq(S) : FlattenSeq(Append(ss, s)) = FlattenSeq(ss) \o s
<1>1. FlattenSeq(<<>>) = <<>>
  BY DEF FlattenSeq
<1>2. ASSUME NEW ss \in Seq(Seq(S)) PROVE FlattenSeq(ss) \in Seq(S)
  <2>1. CASE ss = <<>>
    <3>1. <<>> \in Seq(S)
      OBVIOUS
    <3> QED BY <1>1, <2>1, <3>1
  <2>2. CASE ss # <<>>
    <3>1. PICK f \in [1 .. Len(ss) -> Seq(S)] : FlattenSeq(ss) = f[Len(ss)]
      BY <2>2, FlattenIs
    <3>2. Len(ss) \in 1 .. Len(ss)
      BY <2>2
    <3> QED BY <3>1, <3>2
  <2> QED BY <2>1, <2>2
<1>3. ASSUME NEW ss \in Seq(Seq(S)), NEW s \in Seq(S) PROVE FlattenSeq(Append(ss, s)) = FlattenSeq(ss) \o s
  <2> DEFINE R == Seq(S)
  <2>a. ss \in Seq(R) /\ s \in R
    OBVIOUS
  <2> HIDE DEF R
  <2>1. PICK n \in Nat : n = Len(ss)
    BY <2>a
  <2>2. PICK tt \in Seq(R) : tt = Append(ss, s)
    BY <2>a, AppendProperties
  <2>3. /\ Len(tt) = n + 1 /\ tt[n + 1] = s /\ DOMAIN tt = 1 .. (n + 1) /\ DOMAIN ss = 1 .. n
        /\ \A i \in 1 .. n : tt[i] = ss[i]
    BY <2>a, <2>1, <2>2
  <2>b. tt # <<>> /\ tt \in Seq(Seq(S))
    BY <2>3 DEF R
  <2>4. PICK f \in [1 .. (n + 1) -> Seq(S)] : Flattens(f, tt) /\ FlattenSeq(tt) = f[n + 1]
    BY <2>3, <2>b, FlattenIs
  <2>5. \A i \in 1 .. (n + 1) : f[i] = IF i = 1 THEN tt[1] ELSE f[i - 1] \o tt[i]
    BY <2>3, <2>4 DEF Flattens
  <2>6. CASE n = 0
    <3>1. ss = <<>> /\ f[1] = s
      BY <2>a, <2>1, <2>3, <2>5, <2>6
    <3> QED BY <1>1, <2>2, <2>4, <2>6, <3>1
  <2>7. CASE n # 0
    <3>1. ss # <<>> /\ n \in 1 .. n /\ n + 1 \in 1 .. (n + 1)
      BY <2>1, <2>7
    <3>2. PICK g \in [1 .. n -> Seq(S)] : Flattens(g, ss) /\ FlattenSeq(ss) = g[n]
      BY <2>1, <3>1, FlattenIs
    <3>3. \A i \in 1 .. n : g[i] = IF i = 1 THEN ss[1] ELSE g[i - 1] \o ss[i]
      BY <2>3, <3>2 DEF Flattens
    <3> DEFINE U == {k \in 0 .. n : k # 0 => g[k] = f[k]}
    <3>4. 0 \in U
      OBVIOUS
    <3>5. ASSUME NEW k \in 0 .. (n - 1), k \in U PROVE k + 1 \in U
      <4>1. k + 1 \in 1 .. n /\ k + 1 \in 1 .. (n + 1) /\ 1 \in 1 .. n
            /\ (k + 1 # 1 => g[(k + 1) - 1] = f[(k + 1) - 1])
        BY <3>5
      <4>2. tt[k + 1] = ss[k + 1] /\ tt[1] = ss[1]
        BY <2>3, <4>1
      <4>3. f[k + 1] = IF k + 1 = 1 THEN tt[1] ELSE f[(k + 1) - 1] \o tt[k + 1]
        BY <2>5, <4>1
      <4>4. g[k + 1] = IF k + 1 = 1 THEN ss[1] ELSE g[(k + 1) - 1] \o ss[k + 1]
        BY <3>3, <4>1
      <4>5. g[k + 1] = f[k + 1]
        BY <4>1, <4>2, <4>3, <4>4, Zenon
      <4>6. k + 1 \in 0 .. n
        BY <4>1
      <4> QED BY <4>5, <4>6
    <3> HIDE DEF U
    <3>6. \A k \in 0 .. n : k \in U
      BY <3>4, <3>5, BoundedInduction
    <3>7. g[n] = f[n]
      BY <2>7, <3>6 DEF U
    <3>8. f[n + 1] = f[(n + 1) - 1] \o tt[n + 1]
      <4>1. n + 1 # 1
        BY <2>7
      <4> QED BY <2>5, <3>1, <4>1
    <3>9. (n + 1) - 1 = n
      OBVIOUS
    <3> QED BY <2>2, <2>3, <2>4, <3>2, <3>7, <3>8, <3>9
  <2> QED BY <2>6, <2>7
<1> QED BY <1>1, <1>2, <1>3
=============================================================================
