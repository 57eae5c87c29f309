------------------------ MODULE StreamedVerifyProofs ------------------------
(***************************************************************************)
(* Theorems about StreamedVerify, for every message and every interleaving *)
(* of the parser, its callback, the caller, the matcher, the link and the  *)
(* promises.  They follow from StreamedVerifyInvariant.                    *)
(***************************************************************************)
EXTENDS StreamedVerifyInvariant, FoldProofs, SequenceTheorems

----------------------------------------------------------------------------
(* Packets of some kinds.                                                  *)

Records == [kind : Kinds \cup {"literal", "missing", "failure", "pending"}, issuer : STRING \cup {"none"}, good : BOOLEAN]

\* Kept goes through the packets one by one.
Steps(f, packets, kinds) ==
  /\ f[0] = <<>> /\ Kept(packets, kinds) = f[Len(packets)]
  /\ \A k \in 1..Len(packets) :
        f[k] = IF packets[k].kind \in kinds THEN Append(f[k - 1], packets[k]) ELSE f[k - 1]

LEMMA KeptByFold ==
  ASSUME NEW packets \in Seq(Records), NEW kinds
  PROVE  \E f \in [0..Len(packets) -> Seq(Records)] : Steps(f, packets, kinds)
<1> DEFINE n == Len(packets)
           T == Seq(Records)
           h == [x \in (1..n) \X T |-> IF packets[x[1]].kind \in kinds THEN Append(x[2], packets[x[1]]) ELSE x[2]]
<1>0. n \in Nat /\ DOMAIN packets = 1..n /\ <<>> \in T /\ \A k \in 1..n : packets[k] \in Records
  OBVIOUS
<1>1. h \in [(1..n) \X T -> T]
  <2>1. \A x \in (1..n) \X T : x[1] \in 1..n /\ x[2] \in T
    OBVIOUS
  <2>2. \A v \in T, p \in Records : Append(v, p) \in T
    OBVIOUS
  <2>3. \A x \in (1..n) \X T : (IF packets[x[1]].kind \in kinds THEN Append(x[2], packets[x[1]]) ELSE x[2]) \in T
    BY <1>0, <2>1, <2>2
  <2> QED BY <2>3
<1>2. \A k \in 1..n, v \in T : h[<<k, v>>] = IF packets[k].kind \in kinds THEN Append(v, packets[k]) ELSE v
  OBVIOUS
<1>a. <<>> \in T /\ n \in Nat
  BY <1>0
<1> DEFINE S == 1..n
           c == [s \in SUBSET S |-> Max(s)]
<1>b. IsFiniteSet(S) /\ \A s \in SUBSET S : s # {} => c[s] = Max(s) /\ c[s] \in s
  <2>1. IsFiniteSet(1..n)
    BY <1>0, FS_Interval
  <2>2. \A s \in SUBSET (1..n) : s # {} => Max(s) \in s
    BY <1>0, GreatestNumber
  <2> QED BY <2>1, <2>2
<1>c. h \in [S \X T -> T]
  BY <1>1
<1> HIDE DEF T, h, n, S, c
<1>3. PICK iter \in [SUBSET S -> T] : Recursion(iter, <<>>, S, c, h)
  BY <1>a, <1>b, <1>c, FoldExists
<1> DEFINE Def(f) == [s \in SUBSET (1..n) |->
                        IF s = {} THEN <<>>
                        ELSE IF packets[Max(s)].kind \in kinds THEN Append(f[s \ {Max(s)}], packets[Max(s)])
                             ELSE f[s \ {Max(s)}]]
<1>4. \E f : f = Def(f)
  <2>1. ASSUME NEW s \in SUBSET (1..n) PROVE iter[s] = Def(iter)[s]
    <3>0. iter[s] = IF s = {} THEN <<>> ELSE h[<<Max(s), iter[s \ {Max(s)}]>>]
      BY <1>b, <1>3 DEF Recursion, S
    <3>1. CASE s = {}
      BY <3>0, <3>1
    <3>2. CASE s # {}
      <4>1. Max(s) \in 1..n
        BY <1>0, <3>2, GreatestNumber
      <4>2. s \ {Max(s)} \in SUBSET (1..n)
        OBVIOUS
      <4>3. iter[s \ {Max(s)}] \in T
        BY <1>3, <4>2 DEF S
      <4> QED BY <1>2, <3>0, <3>2, <4>1, <4>3
    <3> QED BY <3>1, <3>2
  <2>2. iter = Def(iter)
    BY <1>3, <2>1 DEF Recursion, S
  <2> QED BY <2>2
<1> DEFINE g == CHOOSE f : f = Def(f)
<1>5. g = Def(g)
  BY <1>4
<1>6. Kept(packets, kinds) = g[1..n]
  BY <1>0 DEF n, Kept, FoldLeft, MapThenFoldSet
<1> HIDE DEF g
<1> DEFINE f == [k \in 0..n |-> g[1..k]]
<1>7. f[0] = <<>> /\ Kept(packets, kinds) = f[n]
  <2>1. 1..0 = {} /\ {} \in SUBSET (1..n) /\ 0 \in 0..n /\ n \in 0..n
    BY <1>0
  <2>2. g[{}] = <<>>
    BY <1>5, <2>1
  <2> QED BY <1>6, <2>1, <2>2
<1>8. ASSUME NEW k \in 1..n
      PROVE  f[k] = IF packets[k].kind \in kinds THEN Append(f[k - 1], packets[k]) ELSE f[k - 1]
  <2>1. k \in Nat /\ k > 0 /\ k \in 0..n /\ k - 1 \in 0..n /\ 1..k \in SUBSET (1..n)
    BY <1>0
  <2>2. Max(1..k) = k /\ (1..k) \ {Max(1..k)} = 1..(k - 1) /\ 1..k # {}
    BY <2>1, LastOfInterval
  <2>3. g[1..k] = IF packets[k].kind \in kinds THEN Append(g[1..(k - 1)], packets[k]) ELSE g[1..(k - 1)]
    BY <1>5, <2>1, <2>2
  <2> QED BY <2>1, <2>3
<1>9. \A k \in 0..n : f[k] \in T
  <2> DEFINE U == {k \in 0..n : f[k] \in T}
  <2>1. 0 \in U
    BY <1>0, <1>7
  <2>2. \A v \in T, p \in Records : Append(v, p) \in T
    BY DEF T
  <2>3. ASSUME NEW k \in 0..(n - 1), k \in U PROVE k + 1 \in U
    <3>1. k + 1 \in 1..n /\ k + 1 \in 0..n /\ (k + 1) - 1 = k
      BY <1>0
    <3> HIDE DEF f
    <3> QED BY <1>0, <1>8, <2>2, <2>3, <3>1, SMTT(30)
  <2> HIDE DEF U
  <2>4. \A k \in 0..n : k \in U
    BY <1>0, <2>1, <2>3, BoundedInduction
  <2> QED BY <2>4 DEF U
<1>10. f \in [0..n -> T]
  BY <1>9
<1> HIDE DEF f
<1> QED BY <1>7, <1>8, <1>10 DEF T, n, Steps

\* What is kept of no packets, and of one more.
LEMMA KeptSteps ==
  ASSUME NEW packets \in Seq(Records), NEW kinds
  PROVE  /\ Kept(SubSeq(packets, 1, 0), kinds) = <<>>
         /\ \A k \in 0..Len(packets) : Kept(SubSeq(packets, 1, k), kinds) \in Seq(Records)
         /\ \A k \in 1..Len(packets) :
               Kept(SubSeq(packets, 1, k), kinds) =
                  IF packets[k].kind \in kinds THEN Append(Kept(SubSeq(packets, 1, k - 1), kinds), packets[k])
                                               ELSE Kept(SubSeq(packets, 1, k - 1), kinds)
         /\ Kept(SubSeq(packets, 1, Len(packets)), kinds) = Kept(packets, kinds)
<1> DEFINE n == Len(packets)
<1>0. n \in Nat /\ SubSeq(packets, 1, n) = packets
  OBVIOUS
<1>1. PICK f \in [0..n -> Seq(Records)] :
            /\ f[0] = <<>> /\ Kept(packets, kinds) = f[n]
            /\ \A k \in 1..n :
                  f[k] = IF packets[k].kind \in kinds THEN Append(f[k - 1], packets[k]) ELSE f[k - 1]
  <2>1. \E f \in [0..Len(packets) -> Seq(Records)] : Steps(f, packets, kinds)
    BY KeptByFold
  <2> QED BY <2>1 DEF Steps
<1>2. ASSUME NEW k \in 0..n PROVE Kept(SubSeq(packets, 1, k), kinds) = f[k]
  <2> DEFINE s == SubSeq(packets, 1, k)
  <2>1. s \in Seq(Records) /\ Len(s) = k /\ \A i \in 1..k : s[i] = packets[i]
    BY <1>0
  <2> HIDE DEF s
  <2>2. PICK g \in [0..Len(s) -> Seq(Records)] :
            Steps(g, s, kinds)
    BY <2>1, KeptByFold
  <2> DEFINE U == {i \in 0..k : g[i] = f[i]}
  <2>3. 0 \in U
    BY <1>1, <1>0, <2>2 DEF Steps
  <2>4. ASSUME NEW i \in 0..(k - 1), i \in U PROVE i + 1 \in U
    <3>1. i + 1 \in 1..k /\ i + 1 \in 1..n /\ (i + 1) - 1 = i /\ i + 1 \in 0..k
      BY <1>0
    <3>2. g[i + 1] = IF packets[i + 1].kind \in kinds THEN Append(g[i], packets[i + 1]) ELSE g[i]
      BY <2>1, <2>2, <3>1 DEF Steps
    <3>3. f[i + 1] = IF packets[i + 1].kind \in kinds THEN Append(f[i], packets[i + 1]) ELSE f[i]
      BY <1>1, <3>1
    <3>4. g[i] = f[i]
      BY <2>4
    <3> QED BY <3>1, <3>2, <3>3, <3>4
  <2> HIDE DEF U
  <2>a. k \in Nat
    BY <1>0
  <2>5. \A i \in 0..k : i \in U
    BY <2>a, <2>3, <2>4, BoundedInduction
  <2>6. k \in U
    BY <1>0, <2>5
  <2>7. g[k] = f[k]
    BY <2>6 DEF U
  <2> QED BY <2>1, <2>2, <2>7 DEF s, Steps
<1>3. \A k \in 1..n : k \in 0..n /\ k - 1 \in 0..n
  BY <1>0
<1>4. 0 \in 0..n /\ n \in 0..n
  BY <1>0
<1> HIDE DEF n
<1>5. \A k \in 0..n : Kept(SubSeq(packets, 1, k), kinds) = f[k] /\ f[k] \in Seq(Records)
  BY <1>1, <1>2
<1> QED BY <1>0, <1>1, <1>3, <1>4, <1>5 DEF n

LEMMA KeptEmpty ==
  ASSUME NEW kinds
  PROVE  Kept(<<>>, kinds) = <<>>
<1>1. <<>> \in Seq(Records) /\ SubSeq(<<>>, 1, 0) = <<>>
  OBVIOUS
<1>2. Kept(SubSeq(<<>>, 1, 0), kinds) = <<>>
  BY <1>1, KeptSteps
<1> QED BY <1>1, <1>2

LEMMA KeptAppend ==
  ASSUME NEW s \in Seq(Records), NEW e \in Records, NEW kinds
  PROVE  Kept(Append(s, e), kinds) = IF e.kind \in kinds THEN Append(Kept(s, kinds), e) ELSE Kept(s, kinds)
<1> DEFINE a == Append(s, e)
           n == Len(s)
<1>1. a \in Seq(Records) /\ Len(a) = n + 1 /\ a[n + 1] = e /\ \A i \in 1..n : a[i] = s[i]
  BY AppendProperties
<1>2. n \in Nat /\ s \in Seq(Records)
  OBVIOUS
<1> HIDE DEF a
<1>3. SubSeq(a, 1, n) = s
  <2>1. \A i \in 1..n : a[i] \in Records
    BY <1>1, <1>2
  <2>2. /\ SubSeq(a, 1, n) \in Seq(Records) /\ Len(SubSeq(a, 1, n)) = n
        /\ \A i \in 1..n : SubSeq(a, 1, n)[i] = a[i]
    BY <1>1, <1>2
  <2> QED BY <1>1, <1>2, <2>2, SeqEqual
<1> HIDE DEF n
<1>4. n + 1 \in 1..Len(a) /\ (n + 1) - 1 = n
  BY <1>1, <1>2
<1>5. Kept(SubSeq(a, 1, n + 1), kinds) =
        IF a[n + 1].kind \in kinds THEN Append(Kept(SubSeq(a, 1, n), kinds), a[n + 1]) ELSE Kept(SubSeq(a, 1, n), kinds)
  <2>1. \A k \in 1..Len(a) :
               Kept(SubSeq(a, 1, k), kinds) =
                  IF a[k].kind \in kinds THEN Append(Kept(SubSeq(a, 1, k - 1), kinds), a[k])
                                         ELSE Kept(SubSeq(a, 1, k - 1), kinds)
    BY <1>1, KeptSteps
  <2> QED BY <1>4, <2>1
<1>6. SubSeq(a, 1, n + 1) = a
  BY <1>1, SubSeqFull
<1> QED BY <1>1, <1>3, <1>5, <1>6 DEF a

\* What is kept is among the packets and of the kinds.
LEMMA KeptElements ==
  ASSUME NEW s \in Seq(Records), NEW kinds
  PROVE  /\ Kept(s, kinds) \in Seq(Records)
         /\ \A i \in 1..Len(Kept(s, kinds)) :
               Kept(s, kinds)[i].kind \in kinds /\ \E j \in 1..Len(s) : s[j] = Kept(s, kinds)[i]
<1> DEFINE Good(x) == /\ Kept(x, kinds) \in Seq(Records)
                      /\ \A i \in 1..Len(Kept(x, kinds)) :
                            Kept(x, kinds)[i].kind \in kinds /\ \E j \in 1..Len(x) : x[j] = Kept(x, kinds)[i]
           T == {x \in Seq(Records) : Good(x)}
<1>1. <<>> \in T
  <2>1. Kept(<<>>, kinds) = <<>>
    BY KeptEmpty
  <2>2. <<>> \in Seq(Records) /\ \A i \in 1..Len(<<>>) : FALSE
    OBVIOUS
  <2>3. Good(<<>>)
    BY <2>1, <2>2, Zenon
  <2> QED BY <2>2, <2>3, Zenon
<1>2. ASSUME NEW x \in Seq(Records), NEW e \in Records, x \in T
      PROVE  Append(x, e) \in T
  <2> DEFINE a == Append(x, e)
             old == Kept(x, kinds)
             new == Kept(a, kinds)
  <2>1. a \in Seq(Records) /\ Len(a) = Len(x) + 1 /\ a[Len(x) + 1] = e /\ \A i \in 1..Len(x) : a[i] = x[i]
    BY AppendProperties
  <2>2. new = IF e.kind \in kinds THEN Append(old, e) ELSE old
    BY KeptAppend
  <2>3. Good(x) /\ Len(x) \in Nat
    BY <1>2
  <2>4. old \in Seq(Records)
    BY <2>3
  <2> HIDE DEF a, new, old
  <2>5. Append(old, e) \in Seq(Records) /\ Len(Append(old, e)) = Len(old) + 1
        /\ Append(old, e)[Len(old) + 1] = e /\ \A i \in 1..Len(old) : Append(old, e)[i] = old[i]
    BY <2>4, AppendProperties
  <2>6. \A i \in 1..Len(old) : old[i].kind \in kinds /\ \E j \in 1..Len(x) : x[j] = old[i]
    BY <2>3 DEF old
  <2>7. \A j \in 1..Len(x) : j \in 1..Len(a)
    BY <2>1, <2>3
  <2>8. \A i \in 1..Len(old) : old[i].kind \in kinds /\ \E j \in 1..Len(a) : a[j] = old[i]
    BY <2>1, <2>6, <2>7
  <2>9. new \in Seq(Records)
    BY <2>2, <2>4, <2>5
  <2>10. ASSUME NEW i \in 1..Len(new) PROVE new[i].kind \in kinds /\ \E j \in 1..Len(a) : a[j] = new[i]
    <3>1. CASE e.kind \notin kinds
      BY <2>2, <2>8, <3>1
    <3>2. CASE e.kind \in kinds /\ i = Len(old) + 1
      <4>1. new[i] = e
        BY <2>2, <2>5, <3>2
      <4>2. Len(x) + 1 \in 1..Len(a) /\ a[Len(x) + 1] = e
        BY <2>1, <2>3
      <4> QED BY <3>2, <4>1, <4>2
    <3>3. CASE e.kind \in kinds /\ i # Len(old) + 1
      <4>0. Len(old) \in Nat /\ Len(new) = Len(old) + 1
        BY <2>2, <2>4, <2>5, <3>3
      <4>1. i \in 1..Len(old)
        BY <3>3, <4>0
      <4>2. new[i] = old[i]
        BY <2>2, <2>5, <3>3, <4>1
      <4> QED BY <2>8, <4>1, <4>2
    <3> QED BY <3>1, <3>2, <3>3
  <2>11. Good(a)
    BY <2>9, <2>10 DEF new
  <2> QED BY <2>1, <2>11 DEF a
<1> HIDE DEF T
<1>3. \A x \in Seq(Records) : x \in T
  BY <1>1, <1>2, SeqInduction
<1> QED BY <1>3 DEF T

\* Keeping some kinds and then fewer keeps those.
LEMMA KeptAgain ==
  ASSUME NEW s \in Seq(Records), NEW kinds, NEW fewer, fewer \subseteq kinds
  PROVE  Kept(Kept(s, kinds), fewer) = Kept(s, fewer)
<1> DEFINE T == {x \in Seq(Records) : Kept(Kept(x, kinds), fewer) = Kept(x, fewer)}
<1>1. <<>> \in T
  <2>1. Kept(<<>>, kinds) = <<>> /\ Kept(<<>>, fewer) = <<>>
    BY KeptEmpty
  <2> QED BY <2>1
<1>2. ASSUME NEW x \in Seq(Records), NEW e \in Records, x \in T
      PROVE  Append(x, e) \in T
  <2>1. Kept(Append(x, e), kinds) = IF e.kind \in kinds THEN Append(Kept(x, kinds), e) ELSE Kept(x, kinds)
    BY KeptAppend
  <2>2. Kept(Append(x, e), fewer) = IF e.kind \in fewer THEN Append(Kept(x, fewer), e) ELSE Kept(x, fewer)
    BY KeptAppend
  <2>3. Kept(x, kinds) \in Seq(Records)
    BY KeptElements
  <2>4. Kept(Append(Kept(x, kinds), e), fewer) =
          IF e.kind \in fewer THEN Append(Kept(Kept(x, kinds), fewer), e) ELSE Kept(Kept(x, kinds), fewer)
    BY <2>3, KeptAppend
  <2>5. Kept(Kept(x, kinds), fewer) = Kept(x, fewer) /\ Append(x, e) \in Seq(Records)
    BY <1>2, AppendProperties
  <2> HIDE DEF T
  <2>6. Kept(Kept(Append(x, e), kinds), fewer) = Kept(Append(x, e), fewer)
    <3>1. CASE e.kind \in fewer
      BY <2>1, <2>2, <2>4, <2>5, <3>1
    <3>2. CASE e.kind \in kinds /\ e.kind \notin fewer
      BY <2>1, <2>2, <2>4, <2>5, <3>2
    <3>3. CASE e.kind \notin kinds
      BY <2>1, <2>2, <2>5, <3>3
    <3> QED BY <3>1, <3>2, <3>3
  <2> QED BY <2>5, <2>6 DEF T
<1> HIDE DEF T
<1>3. \A x \in Seq(Records) : x \in T
  BY <1>1, <1>2, SeqInduction
<1> QED BY <1>3 DEF T

\* What is kept of the first packets begins what is kept of all.
Begins(s, t) == Len(s) =< Len(t) /\ \A i \in 1..Len(s) : t[i] = s[i]

LEMMA KeptBegins ==
  ASSUME NEW s \in Seq(Records), NEW kinds
  PROVE  \A k \in 0..Len(s) : Begins(Kept(SubSeq(s, 1, k), kinds), Kept(s, kinds))
<1> DEFINE T == {x \in Seq(Records) : \A k \in 0..Len(x) : Begins(Kept(SubSeq(x, 1, k), kinds), Kept(x, kinds))}
<1>0. \A x \in Seq(Records) : Begins(Kept(SubSeq(x, 1, Len(x)), kinds), Kept(x, kinds))
  <2> SUFFICES ASSUME NEW x \in Seq(Records) PROVE Begins(Kept(SubSeq(x, 1, Len(x)), kinds), Kept(x, kinds))
    OBVIOUS
  <2>1. SubSeq(x, 1, Len(x)) = x /\ Kept(x, kinds) \in Seq(Records)
    BY SubSeqFull, KeptElements
  <2>2. ASSUME NEW y \in Seq(Records) PROVE Begins(y, y)
    <3>1. Len(y) \in Nat
      OBVIOUS
    <3> QED BY <3>1 DEF Begins
  <2> QED BY <2>1, <2>2, Zenon
<1>1. <<>> \in T
  <2>1. <<>> \in Seq(Records) /\ \A k \in 0..Len(<<>>) : k = Len(<<>>)
    OBVIOUS
  <2> QED BY <1>0, <2>1, Zenon
<1>2. ASSUME NEW x \in Seq(Records), NEW e \in Records, x \in T
      PROVE  Append(x, e) \in T
  <2> DEFINE a == Append(x, e)
  <2>1. a \in Seq(Records) /\ Len(a) = Len(x) + 1 /\ \A i \in 1..Len(x) : a[i] = x[i]
    BY AppendProperties
  <2>2. Len(x) \in Nat /\ x \in Seq(Records)
    OBVIOUS
  <2>3. Kept(a, kinds) = IF e.kind \in kinds THEN Append(Kept(x, kinds), e) ELSE Kept(x, kinds)
    BY KeptAppend
  <2>4. Kept(x, kinds) \in Seq(Records) /\ Len(Kept(x, kinds)) \in Nat
    BY KeptElements
  <2>5. /\ Len(Append(Kept(x, kinds), e)) = Len(Kept(x, kinds)) + 1
        /\ \A i \in 1..Len(Kept(x, kinds)) : Append(Kept(x, kinds), e)[i] = Kept(x, kinds)[i]
    BY <2>4, AppendProperties
  <2> HIDE DEF a
  <2>6. \A k \in 0..Len(x) : Begins(Kept(SubSeq(x, 1, k), kinds), Kept(x, kinds))
    BY <1>2
  <2>7. ASSUME NEW k \in 0..Len(a) PROVE Begins(Kept(SubSeq(a, 1, k), kinds), Kept(a, kinds))
    <3>1. CASE k = Len(a)
      BY <1>0, <2>1, <3>1
    <3>2. CASE k # Len(a)
      <4>1. k \in 0..Len(x)
        BY <2>1, <2>2, <3>2
      <4>2. SubSeq(a, 1, k) = SubSeq(x, 1, k)
        <5>1. /\ SubSeq(a, 1, k) \in Seq(Records) /\ Len(SubSeq(a, 1, k)) = k
              /\ \A i \in 1..k : SubSeq(a, 1, k)[i] = a[i]
          BY <2>1, <2>2, <4>1
        <5>2. /\ SubSeq(x, 1, k) \in Seq(Records) /\ Len(SubSeq(x, 1, k)) = k
              /\ \A i \in 1..k : SubSeq(x, 1, k)[i] = x[i]
          BY <2>2, <4>1
        <5>3. \A i \in 1..k : a[i] = x[i]
          BY <2>1, <2>2, <4>1
        <5> QED BY <5>1, <5>2, <5>3, SeqEqual
      <4> DEFINE b == Kept(SubSeq(x, 1, k), kinds)
      <4>3. Begins(b, Kept(x, kinds))
        BY <2>6, <4>1
      <4>4. b \in Seq(Records)
        <5>1. SubSeq(x, 1, k) \in Seq(Records)
          BY <2>2, <4>1
        <5> QED BY <5>1, KeptElements
      <4>5. Len(b) \in Nat
        BY <4>4
      <4> HIDE DEF b
      <4>6. Begins(b, Kept(a, kinds))
        <5>1. CASE e.kind \notin kinds
          BY <2>3, <4>3, <5>1
        <5>2. CASE e.kind \in kinds
          <6>1. \A i \in 1..Len(b) : i \in 1..Len(Kept(x, kinds))
            BY <2>4, <4>3, <4>5 DEF Begins
          <6>2. Len(b) =< Len(Kept(a, kinds))
            BY <2>3, <2>4, <2>5, <4>3, <4>5, <5>2 DEF Begins
          <6>3. \A i \in 1..Len(b) : Kept(a, kinds)[i] = b[i]
            BY <2>3, <2>5, <4>3, <5>2, <6>1 DEF Begins
          <6> QED BY <6>2, <6>3 DEF Begins
        <5> QED BY <5>1, <5>2
      <4> QED BY <4>2, <4>6 DEF b
    <3> QED BY <3>1, <3>2
  <2> QED BY <2>1, <2>7 DEF a
<1> HIDE DEF T
<1>3. \A x \in Seq(Records) : x \in T
  BY <1>1, <1>2, SeqInduction
<1> QED BY <1>3 DEF T

----------------------------------------------------------------------------
(* Messages.                                                               *)

\* The packets of a message, by their place in it.
LEMMA MessageFacts ==
  ASSUME NEW m \in Messages
  PROVE  /\ m.before \in Seq(Packet) /\ m.after \in Seq(Packet)
         /\ m.before \in Seq(Records) /\ m.after \in Seq(Records)
         /\ Len(m.before) \in Nat /\ Len(m.after) \in Nat /\ m.body \in Nat
         /\ m.cut \in {"none", "inside", "boundary"} /\ m.fails \in BOOLEAN /\ m.nested \in BOOLEAN
         /\ m.outer \in {"closed", "errored"} /\ m.expectSigned \in BOOLEAN
         /\ m.cut # "none" => m.after = <<>>
         /\ m.body = 0 => m.cut = "inside"
         /\ Packets(m) \in Seq(Sent)
         /\ Len(Packets(m)) = Len(m.before) + 1 + Len(m.after)
         /\ \A i \in 1..Len(m.before) : Packets(m)[i] = m.before[i]
         /\ Packets(m)[Len(m.before) + 1] = Literal
         /\ \A i \in 1..Len(m.after) : Packets(m)[Len(m.before) + 1 + i] = m.after[i]
<1> DEFINE b == m.before
           a == m.after
<1>1. m \in Message
  BY MessageAssumption
<1>2. /\ b \in Seq(Packet) /\ a \in Seq(Packet) /\ m.body \in Nat
      /\ m.cut \in {"none", "inside", "boundary"} /\ m.fails \in BOOLEAN /\ m.nested \in BOOLEAN
      /\ m.outer \in {"closed", "errored"} /\ m.expectSigned \in BOOLEAN
  BY <1>1 DEF Message
<1>3. (m.cut # "none" => a = <<>>) /\ (m.body = 0 => m.cut = "inside")
  BY MessageAssumption
<1>4. Packet \subseteq Records
  BY DEF Packet, Records
<1>5. Packet \subseteq Sent /\ Literal \in Sent
  BY DEF Sent
<1>6. Packets(m) = (b \o <<Literal>>) \o a
  BY DEF Packets
<1> HIDE DEF b, a
<1>7. b \in Seq(Records) /\ a \in Seq(Records) /\ Len(b) \in Nat /\ Len(a) \in Nat
  BY <1>2, <1>4, SeqMonotonic
<1>8. b \in Seq(Sent) /\ a \in Seq(Sent) /\ <<Literal>> \in Seq(Sent) /\ Len(<<Literal>>) = 1 /\ <<Literal>>[1] = Literal
  BY <1>2, <1>5, SeqMonotonic
<1> HIDE DEF Literal
<1> DEFINE c == b \o <<Literal>>
<1>9. c \in Seq(Sent) /\ Len(c) = Len(b) + 1 /\ (\A i \in 1..Len(b) : c[i] = b[i]) /\ c[Len(b) + 1] = Literal
  <2>1. c \in Seq(Sent) /\ Len(c) = Len(b) + Len(<<Literal>>)
    BY <1>8, ConcatProperties
  <2>2. \A i \in 1..(Len(b) + Len(<<Literal>>)) : c[i] = IF i =< Len(b) THEN b[i] ELSE <<Literal>>[i - Len(b)]
    BY <1>8, ConcatProperties
  <2> HIDE DEF c
  <2>3. Len(b) + 1 \in 1..(Len(b) + 1) /\ ~(Len(b) + 1 =< Len(b)) /\ Len(b) + 1 - Len(b) = 1
    BY <1>7
  <2>4. c[Len(b) + 1] = Literal
    BY <1>8, <2>2, <2>3
  <2>5. \A i \in 1..Len(b) : c[i] = b[i]
    BY <1>7, <1>8, <2>2
  <2> QED BY <1>8, <2>1, <2>4, <2>5
<1> HIDE DEF c
<1>10. /\ c \o a \in Seq(Sent) /\ Len(c \o a) = Len(c) + Len(a)
       /\ \A i \in 1..(Len(c) + Len(a)) : (c \o a)[i] = IF i =< Len(c) THEN c[i] ELSE a[i - Len(c)]
  <2>1. c \in Seq(Sent) /\ a \in Seq(Sent)
    BY <1>8, <1>9
  <2> QED BY <2>1, ConcatProperties
<1> DEFINE p == c \o a
<1> HIDE DEF p
<1>11. /\ \A i \in 1..Len(b) : p[i] = b[i]
       /\ p[Len(b) + 1] = Literal
       /\ \A i \in 1..Len(a) : p[Len(b) + 1 + i] = a[i]
  <2>1. ASSUME NEW i \in 1..Len(b) PROVE p[i] = b[i]
    <3>1. i \in 1..(Len(c) + Len(a)) /\ i =< Len(c)
      BY <1>7, <1>9
    <3> QED BY <1>9, <1>10, <3>1 DEF p
  <2>2. p[Len(b) + 1] = Literal
    <3>1. Len(b) + 1 \in 1..(Len(c) + Len(a)) /\ Len(b) + 1 =< Len(c)
      BY <1>7, <1>9
    <3> QED BY <1>9, <1>10, <3>1 DEF p
  <2>3. ASSUME NEW i \in 1..Len(a) PROVE p[Len(b) + 1 + i] = a[i]
    <3>1. Len(b) + 1 + i \in 1..(Len(c) + Len(a)) /\ ~(Len(b) + 1 + i =< Len(c)) /\ Len(b) + 1 + i - Len(c) = i
      BY <1>7, <1>9
    <3> QED BY <1>9, <1>10, <3>1 DEF p
  <2> QED BY <2>1, <2>2, <2>3
<1>12. Packets(m) = p
  BY <1>6 DEF p, c
<1>13. p \in Seq(Sent) /\ Len(p) = Len(b) + 1 + Len(a)
  BY <1>7, <1>9, <1>10 DEF p
<1> QED BY <1>2, <1>3, <1>7, <1>11, <1>12, <1>13 DEF b, a

LEMMA SentFacts ==
  /\ Packet \subseteq Sent /\ Sent \subseteq Matched /\ Sent \subseteq Records /\ Matched \subseteq Records
  /\ {Literal, Missing, Failure, Pending} \subseteq Matched /\ Literal \in Sent
  /\ \A p \in Packet : p.kind \in Kinds /\ p \notin {Literal, Missing, Failure, Pending}
  /\ Pending # Missing /\ Pending # Failure /\ Pending # Literal /\ Pending \notin Sent
  /\ Literal.kind = "literal"
  /\ \A p \in {Literal, Missing, Failure, Pending} : p.kind \notin Kinds
<1>1. /\ Literal.kind = "literal" /\ Missing.kind = "missing"
      /\ Failure.kind = "failure" /\ Pending.kind = "pending"
  BY DEF Literal, Missing, Failure, Pending
<1>2. \A p \in Packet : p.kind \in Kinds
  BY DEF Packet
<1>3. {"literal", "missing", "failure", "pending"} \cap Kinds = {}
  BY DEF Kinds
<1>4. Packet \subseteq Records /\ {Literal, Missing, Failure, Pending} \subseteq Records
  BY DEF Packet, Records, Literal, Missing, Failure, Pending
<1> QED BY <1>1, <1>2, <1>3, <1>4 DEF Sent, Matched

\* The packets of the message, in the current state.
LEMMA CurrentFacts ==
  ASSUME message \in Messages, pos \in Nat, pos < Len(Packets(message))
  PROVE  /\ Current \in Sent
         /\ pos < Len(message.before) => Current = message.before[pos + 1] /\ pos + 1 \in 1..Len(message.before)
         /\ pos = Len(message.before) => Current = Literal
         /\ pos > Len(message.before) =>
               LET j == pos - Len(message.before) IN Current = message.after[j] /\ j \in 1..Len(message.after)
         /\ Current = Literal <=> pos = Len(message.before)
         /\ Current.kind = "literal" <=> Current = Literal
<1> DEFINE b == message.before
           a == message.after
           p == Packets(message)
           n == Len(message.before)
<1>1. /\ b \in Seq(Packet) /\ a \in Seq(Packet) /\ n \in Nat /\ Len(a) \in Nat
      /\ p \in Seq(Sent) /\ Len(p) = n + 1 + Len(a)
      /\ \A i \in 1..n : p[i] = b[i]
      /\ p[n + 1] = Literal
      /\ \A i \in 1..Len(a) : p[n + 1 + i] = a[i]
  BY MessageFacts
<1>2. (\A i \in 1..n : b[i] \in Packet) /\ (\A i \in 1..Len(a) : a[i] \in Packet)
  BY <1>1
<1> HIDE DEF b, a, p, n
<1>3. Current = p[pos + 1]
  BY DEF Current, p
<1>4. CASE pos < n
  <2>1. pos + 1 \in 1..n
    BY <1>1, <1>4
  <2>2. Current = b[pos + 1] /\ Current \in Packet /\ pos # n /\ ~(pos > n)
    BY <1>1, <1>2, <1>3, <1>4, <2>1
  <2> QED BY <1>4, <2>1, <2>2, SentFacts DEF b, a, n, Kinds
<1>5. CASE pos = n
  <2>1. Current = Literal /\ ~(pos < n) /\ ~(pos > n)
    BY <1>1, <1>3, <1>5
  <2> QED BY <1>5, <2>1, SentFacts DEF b, a, n
<1>6. CASE pos > n
  <2>1. pos - n \in 1..Len(a) /\ n + 1 + (pos - n) = pos + 1
    BY <1>1, <1>6 DEF p
  <2>a. p[n + 1 + (pos - n)] = a[pos - n] /\ a[pos - n] \in Packet
    BY <1>1, <1>2, <2>1
  <2>2. Current = a[pos - n] /\ Current \in Packet /\ pos # n /\ ~(pos < n)
    BY <1>1, <1>3, <1>6, <2>1, <2>a
  <2> QED BY <1>6, <2>1, <2>2, SentFacts DEF b, a, n, Kinds
<1>7. pos < n \/ pos = n \/ pos > n
  BY <1>1
<1> QED BY <1>4, <1>5, <1>6, <1>7

\* The packets without their markers, as far as they have been read.
LEMMA UnmarkedFacts ==
  ASSUME NEW s \in Seq(Packet)
  PROVE  /\ Unmarked(s) \in Seq(Packet) /\ Unmarked(<<>>) = <<>>
         /\ Unmarked(SubSeq(s, 1, 0)) = <<>> /\ Unmarked(SubSeq(s, 1, Len(s))) = Unmarked(s)
         /\ \A k \in 0..Len(s) : Unmarked(SubSeq(s, 1, k)) \in Seq(Packet)
         /\ \A i \in 1..Len(Unmarked(s)) : \E j \in 1..Len(s) : s[j] = Unmarked(s)[i]
<1> DEFINE K == Kinds \ {"marker"}
<1>1. s \in Seq(Records)
  BY SentFacts, SeqMonotonic
<1>2. \A x : Unmarked(x) = Kept(x, K)
  BY DEF Unmarked
<1> HIDE DEF K
<1>3. ASSUME NEW x \in Seq(Packet)
      PROVE  Unmarked(x) \in Seq(Packet) /\ \A i \in 1..Len(Unmarked(x)) : \E j \in 1..Len(x) : x[j] = Unmarked(x)[i]
  <2>1. x \in Seq(Records)
    BY SentFacts, SeqMonotonic
  <2>2. /\ Unmarked(x) \in Seq(Records)
        /\ \A i \in 1..Len(Unmarked(x)) : \E j \in 1..Len(x) : x[j] = Unmarked(x)[i]
    BY <1>2, <2>1, KeptElements
  <2>3. \A i \in 1..Len(Unmarked(x)) : Unmarked(x)[i] \in Packet
    BY <2>2, ElementOfSeq
  <2>4. Unmarked(x) \in Seq(Packet)
    BY <2>2, <2>3, SeqOfElements
  <2> QED BY <2>2, <2>4
<1>4. Unmarked(<<>>) = <<>>
  BY <1>2, KeptEmpty
<1>5. Unmarked(SubSeq(s, 1, 0)) = <<>> /\ Unmarked(SubSeq(s, 1, Len(s))) = Unmarked(s)
  BY <1>1, <1>2, KeptSteps
<1>6. \A k \in 0..Len(s) : SubSeq(s, 1, k) \in Seq(Packet)
  OBVIOUS
<1> QED BY <1>3, <1>4, <1>5, <1>6

\* Reading one more packet.
LEMMA UnmarkedStep ==
  ASSUME NEW s \in Seq(Packet), NEW k \in 1..Len(s)
  PROVE  LET old == Unmarked(SubSeq(s, 1, k - 1))
             new == Unmarked(SubSeq(s, 1, k))
         IN  /\ old \in Seq(Packet) /\ new \in Seq(Packet) /\ s[k] \in Packet
             /\ s[k].kind = "marker" => new = old
             /\ s[k].kind # "marker" => /\ new = Append(old, s[k]) /\ Len(new) = Len(old) + 1
                                        /\ Unmarked(s)[Len(old) + 1] = s[k] /\ Len(old) + 1 =< Len(Unmarked(s))
<1> DEFINE K == Kinds \ {"marker"}
           old == Unmarked(SubSeq(s, 1, k - 1))
           new == Unmarked(SubSeq(s, 1, k))
<1>1. s \in Seq(Records)
  BY SentFacts, SeqMonotonic
<1>2. k \in 0..Len(s) /\ k - 1 \in 0..Len(s) /\ s[k] \in Packet
  OBVIOUS
<1>3. s[k].kind \in K <=> s[k].kind # "marker"
  BY <1>2, SentFacts
<1>4. \A x : Unmarked(x) = Kept(x, K)
  BY DEF Unmarked
<1> HIDE DEF K
<1>5. new = IF s[k].kind \in K THEN Append(old, s[k]) ELSE old
  BY <1>1, <1>4, KeptSteps, ZenonT(40)
<1>6. old \in Seq(Packet) /\ new \in Seq(Packet)
  BY <1>2, UnmarkedFacts
<1>7. Begins(new, Unmarked(s))
  BY <1>1, <1>2, <1>4, KeptBegins
<1> HIDE DEF old, new
<1>8. ASSUME s[k].kind # "marker"
      PROVE  /\ new = Append(old, s[k]) /\ Len(new) = Len(old) + 1
             /\ Unmarked(s)[Len(old) + 1] = s[k] /\ Len(old) + 1 =< Len(Unmarked(s))
  <2>1. new = Append(old, s[k])
    BY <1>3, <1>5, <1>8
  <2>2. Len(new) = Len(old) + 1 /\ new[Len(old) + 1] = s[k]
    BY <1>2, <1>6, <2>1, AppendProperties
  <2>3. Len(old) \in Nat
    BY <1>6
  <2>4. Len(old) + 1 \in 1..Len(new)
    BY <2>2, <2>3
  <2> QED BY <1>7, <2>1, <2>2, <2>4 DEF Begins
<1>9. s[k].kind = "marker" => new = old
  BY <1>3, <1>5
<1> QED BY <1>2, <1>6, <1>8, <1>9 DEF old, new

\* The caller's view of the packets before the literal data.
LEMMA SignersFacts ==
  ASSUME NEW b \in Seq(Packet)
  PROVE  LET g == Append(Unmarked(b), Literal)
         IN  /\ g \in Seq(Sent)
             /\ \A kind \in {"signature", "onePass"} :
                   /\ OfKind(g, kind) = OfKind(b, kind) /\ OfKind(b, kind) \in Seq(Packet)
                   /\ \A i \in 1..Len(OfKind(b, kind)) :
                         OfKind(b, kind)[i].kind = kind /\ \E j \in 1..Len(b) : b[j] = OfKind(b, kind)[i]
             /\ Signers(g) \in Seq(Packet)
<1> DEFINE u == Unmarked(b)
           g == Append(u, Literal)
           K == Kinds \ {"marker"}
<1>1. b \in Seq(Records)
  BY SentFacts, SeqMonotonic
<1>2. u \in Seq(Packet) /\ u = Kept(b, K)
  BY UnmarkedFacts DEF Unmarked
<1>3. u \in Seq(Sent) /\ u \in Seq(Records) /\ Literal \in Sent /\ Literal \in Records
  BY <1>2, SentFacts, SeqMonotonic
<1>4. g \in Seq(Sent)
  BY <1>3, AppendProperties
<1>5. ASSUME NEW kind \in {"signature", "onePass"}
      PROVE  /\ OfKind(g, kind) = OfKind(b, kind) /\ OfKind(b, kind) \in Seq(Packet)
             /\ \A i \in 1..Len(OfKind(b, kind)) :
                   OfKind(b, kind)[i].kind = kind /\ \E j \in 1..Len(b) : b[j] = OfKind(b, kind)[i]
  <2> DEFINE o == OfKind(b, kind)
  <2>1. {kind} \subseteq K /\ Literal.kind \notin {kind}
    BY SentFacts DEF Kinds
  <2> HIDE DEF u, K
  <2>2. Kept(g, {kind}) = Kept(u, {kind})
    BY <1>3, <2>1, KeptAppend
  <2>3. Kept(u, {kind}) = Kept(b, {kind})
    BY <1>1, <1>2, <2>1, KeptAgain
  <2>4. /\ o \in Seq(Records)
        /\ \A i \in 1..Len(o) : o[i].kind \in {kind} /\ \E j \in 1..Len(b) : b[j] = o[i]
    BY <1>1, KeptElements DEF OfKind
  <2>5. \A i \in 1..Len(o) : o[i] \in Packet
    BY <2>4, ElementOfSeq
  <2>6. o \in Seq(Packet)
    BY <2>4, <2>5, SeqOfElements
  <2> QED BY <2>2, <2>3, <2>4, <2>6 DEF OfKind
<1>6. ASSUME NEW s \in Seq(Packet) PROVE Reverse(s) \in Seq(Packet)
  <2>1. Len(s) \in Nat /\ \A i \in 1..Len(s) : (Len(s) - i) + 1 \in 1..Len(s)
    OBVIOUS
  <2>2. \A i \in 1..Len(s) : s[(Len(s) - i) + 1] \in Packet
    BY <2>1, ElementOfSeq
  <2> QED BY <2>1, <2>2 DEF Reverse
<1> HIDE DEF g
<1>7. Signers(g) \in Seq(Packet)
  BY <1>5, <1>6 DEF Signers
<1> QED BY <1>4, <1>5, <1>7 DEF g

----------------------------------------------------------------------------
(* Streams.                                                                *)

Streams(S) == [state : {"open", "closed", "errored"}, queue : Seq(S)]

LEMMA StreamFacts ==
  ASSUME NEW S, NEW s \in Streams(S), NEW x \in S
  PROVE  /\ Put(s, x) \in Streams(S) /\ Put(s, x).state = s.state
         /\ s.queue = <<>> => Put(s, x).queue = <<x>> /\ Len(Put(s, x).queue) = 1 /\ Put(s, x).queue[1] = x
                              /\ Put(s, x).queue # <<>>
<1>1. Put(s, x).queue = Append(s.queue, x) /\ Put(s, x).state = s.state /\ Append(s.queue, x) \in Seq(S)
  BY DEF Put, Streams
<1>2. Put(s, x) \in Streams(S)
  BY <1>1 DEF Put, Streams
<1>3. Append(<<>>, x) = <<x>> /\ Len(<<x>>) = 1 /\ <<x>>[1] = x /\ <<x>> # <<>>
  OBVIOUS
<1> QED BY <1>1, <1>2, <1>3, Zenon

LEMMA StreamEnds ==
  ASSUME NEW S, NEW s \in Streams(S)
  PROVE  /\ Taken(s) \in Streams(S) /\ Taken(s).state = s.state /\ Taken(s).queue = <<>>
         /\ Closed(s) \in Streams(S) /\ Closed(s).queue = s.queue
         /\ Closed(s).state = IF s.state = "open" THEN "closed" ELSE s.state
         /\ Aborted(s) \in Streams(S) /\ Aborted(s).state = "errored" /\ Aborted(s).queue = <<>>
         /\ EmptyStream \in Streams(S) /\ EmptyStream.state = "open" /\ EmptyStream.queue = <<>>
         /\ Ready(s) => s = EmptyStream
<1>1. Taken(s) \in Streams(S) /\ Taken(s).state = s.state /\ Taken(s).queue = <<>>
  <2>1. <<>> \in Seq(S)
    BY EmptySeq
  <2> DEFINE e == <<>>
  <2> HIDE DEF e
  <2>2. [s EXCEPT !.queue = e] \in Streams(S) /\ [s EXCEPT !.queue = e].state = s.state /\ [s EXCEPT !.queue = e].queue = e
    <3>1. e \in Seq(S)
      BY <2>1 DEF e
    <3> QED BY <3>1 DEF Streams
  <2> QED BY <2>2 DEF Taken, e
<1>2. Closed(s) \in Streams(S) /\ Closed(s).queue = s.queue /\ Closed(s).state = IF s.state = "open" THEN "closed" ELSE s.state
  BY DEF Closed, Streams
<1>3. Aborted(s) \in Streams(S) /\ Aborted(s).state = "errored" /\ Aborted(s).queue = <<>>
  BY DEF Aborted, Streams
<1>4. EmptyStream \in Streams(S) /\ EmptyStream.state = "open" /\ EmptyStream.queue = <<>>
  BY DEF EmptyStream, Streams
<1>5. Ready(s) => s = EmptyStream
  BY DEF Ready, EmptyStream, Streams
<1> QED BY <1>1, <1>2, <1>3, <1>4, <1>5

LEMMA AtMostOne ==
  ASSUME NEW n, n = 0 \/ n = 1
  PROVE  n =< 1
OBVIOUS

\* A chunk or packet at a time is in a stream.
LEMMA QueueFacts ==
  ASSUME NEW S, NEW q \in Seq(S), Len(q) =< 1
  PROVE  /\ Len(q) \in {0, 1} /\ (Len(q) = 0 <=> q = <<>>)
         /\ q # <<>> => Len(q) = 1 /\ q[1] \in S /\ q = <<q[1]>>
<1>1. Len(q) \in Nat /\ (Len(q) = 0 <=> q = <<>>)
  OBVIOUS
<1>3. Len(q) \in {0, 1}
  <2>1. PICK n : n = Len(q)
    BY Zenon
  <2>2. n \in Nat
    BY <2>1, LenProperties, Zenon
  <2>3. n =< 1
    BY <2>1, Zenon
  <2>4. n \in {0, 1}
    BY <2>2, <2>3
  <2> QED BY <2>1, <2>4, Zenon
<1>2. ASSUME q # <<>> PROVE q = <<q[1]>> /\ q[1] \in S
  <2>1. Len(q) = 1
    BY <1>1, <1>2, <1>3
  <2>2. q[1] \in S
    <3>1. 1 \in 1..Len(q)
      BY <2>1
    <3> QED BY <3>1, ElementOfSeq
  <2>3. <<q[1]>> \in Seq(S) /\ Len(<<q[1]>>) = 1 /\ <<q[1]>>[1] = q[1]
    BY <2>2
  <2> DEFINE t == <<q[1]>>
  <2> HIDE DEF t
  <2>4. t \in Seq(S) /\ Len(t) = Len(q) /\ \A i \in 1..Len(q) : q[i] = t[i]
    BY <2>1, <2>3 DEF t
  <2>5. q = t
    BY <2>4, SeqEqual
  <2> QED BY <2>2, <2>5 DEF t
<1>4. q # <<>> => Len(q) = 1
  BY <1>1, <1>3, Zenon
<1> QED BY <1>1, <1>2, <1>3, <1>4, Zenon

----------------------------------------------------------------------------
(* What every step may use of the state before it.                         *)

Inv == Types /\ IInv

LEMMA StateFacts ==
  ASSUME Inv
  PROVE  /\ message \in Messages /\ Leading \in Nat /\ Total \in Nat /\ Leading < Total
         /\ pos \in Nat /\ pos =< Total /\ sent \in Nat /\ delivered \in Nat
         /\ list \in Streams(Sent) /\ lit \in Streams(Nat)
         /\ Len(lit.queue) \in {0, 1} /\ (Len(lit.queue) = 0 <=> lit.queue = <<>>)
         /\ Len(list.queue) \in {0, 1} /\ (Len(list.queue) = 0 <=> list.queue = <<>>)
         /\ list.queue # <<>> => list.queue[1] \in Sent /\ list.queue = <<list.queue[1]>>
         /\ Len(<<>>) = 0
<1>1. message \in Messages /\ pos \in 0..Total /\ sent \in 0..message.body /\ delivered \in Nat
      /\ list \in Streams(Sent) /\ lit \in Streams(Nat)
  BY DEF Inv, Types, Streams
<1>2. Len(lit.queue) =< 1 /\ Len(list.queue) =< 1
  BY Zenon DEF Inv, Types
<1>3. message.body \in Nat /\ Leading \in Nat /\ Len(message.after) \in Nat /\ Total = Leading + 1 + Len(message.after)
  BY <1>1, MessageFacts DEF Leading, Total
<1>4. Total \in Nat /\ Leading < Total
  <2>1. PICK n \in Nat : n = Len(message.after)
    BY <1>3
  <2>2. Total = Leading + 1 + n /\ Leading \in Nat
    BY <1>3, <2>1, Zenon
  <2> QED BY <2>2
<1>5. list.queue \in Seq(Sent) /\ lit.queue \in Seq(Nat)
  BY <1>1 DEF Streams
<1>6. /\ Len(list.queue) \in {0, 1} /\ (Len(list.queue) = 0 <=> list.queue = <<>>)
      /\ list.queue # <<>> => list.queue[1] \in Sent /\ list.queue = <<list.queue[1]>>
  BY <1>2, <1>5, QueueFacts, Zenon
<1>7. Len(lit.queue) \in {0, 1} /\ (Len(lit.queue) = 0 <=> lit.queue = <<>>)
  BY <1>2, <1>5, QueueFacts, Zenon
<1>8. Len(<<>>) = 0
  OBVIOUS
<1>9. pos \in Nat /\ pos =< Total
  BY <1>1, <1>4
<1>10. sent \in Nat
  BY <1>1, <1>3
<1> QED BY <1>1, <1>3, <1>4, <1>6, <1>7, <1>8, <1>9, <1>10, Zenon

LEMMA InitInvariant == Init => Inv
<1> SUFFICES ASSUME Init PROVE Inv
  OBVIOUS
<1>1. /\ message \in Messages /\ Leading \in Nat /\ Len(message.after) \in Nat /\ message.body \in Nat
      /\ Total = Leading + 1 + Len(message.after)
      /\ message.before \in Seq(Packet)
  BY MessageFacts DEF Init, Leading, Total
<1>2. /\ EmptyStream \in [state : {"open", "closed", "errored"}, queue : Seq(Nat)]
      /\ EmptyStream \in [state : {"open", "closed", "errored"}, queue : Seq(Sent)]
      /\ EmptyStream.state = "open" /\ EmptyStream.queue = <<>>
  BY DEF EmptyStream
<1>a. Len(EmptyStream.queue) = 0
  BY <1>2
<1>b. got \in Seq(Sent) /\ corr \in Seq(Matched) /\ DOMAIN verified = {}
  BY EmptySeq DEF Init
<1>d. Len(lit.queue) =< 1 /\ Len(list.queue) =< 1
  BY <1>a DEF Init
<1>f. 0 =< Leading /\ 0 < Total /\ Total \in Nat
  <2>1. PICK n \in Nat : n = Len(message.after)
    BY <1>1
  <2>2. Total = Leading + 1 + n /\ Leading \in Nat
    BY <1>1, <2>1, Zenon
  <2> QED BY <2>2
<1>3. Types
  <2>a. message.body \in Nat
    BY <1>1
  <2>1. 0 \in 0..Total /\ 0 \in 0..message.body
    BY <1>f, <2>a
  <2>2. lit \in [state : {"open", "closed", "errored"}, queue : Seq(Nat)]
    BY <1>2 DEF Init
  <2>3. list \in [state : {"open", "closed", "errored"}, queue : Seq(Sent)]
    BY <1>2 DEF Init
  <2> HIDE DEF Init
  <2>4. /\ message \in Messages
        /\ pos = 0 /\ parser = "header" /\ sent = 0 /\ done \in BOOLEAN
        /\ callback = "none" /\ caller = "reading"
        /\ matcher = "off" /\ link = "off" /\ delivered \in Nat /\ data = "open" /\ hashed = "open"
    BY DEF Init
  <2> QED BY <1>d, <1>b, <2>1, <2>2, <2>3, <2>4 DEF Types
<1>c. list.state = "open" /\ list.queue = <<>>
  BY <1>2 DEF Init
<1>e. ~done
  BY DEF Init
<1>4. ParserAt
  BY <1>c, <1>e, <1>f DEF Init, ParserAt
<1>5. Chunks
  BY <1>1, <1>2, <1>a DEF Init, Chunks, Parsed
<1>6. Linked
  BY DEF Init, Linked
<1>7. Unmarked(SubSeq(message.before, 1, 0)) = <<>>
  BY <1>1, UnmarkedFacts
<1>8. <<>> \o <<>> = <<>>
  OBVIOUS
<1>9. Got
  <2>1. got \o list.queue = ReadBefore
    BY <1>2, <1>7, <1>8, Zenon DEF Init, ReadBefore
  <2> QED BY <1>2, <2>1 DEF Init, Got, Parsed
<1>10. Matching
  BY DEF Init, Matching
<1>11. Fulfilled
  BY DEF Init, Fulfilled
<1> QED BY <1>3, <1>4, <1>5, <1>6, <1>9, <1>10, <1>11 DEF Inv, IInv

----------------------------------------------------------------------------
(* The parser.                                                             *)

\* What has been read of the message, before and after one more packet.
LEMMA ReadStep ==
  ASSUME Inv, pos < Total, message' = message, pos' = pos + 1
  PROVE  /\ Current \in Sent /\ (Current = Literal <=> pos = Leading)
         /\ Current.kind = "literal" <=> Current = Literal
         /\ pos < Leading => /\ Current.kind = "marker" => ReadBefore' = ReadBefore
                             /\ Current.kind # "marker" => ReadBefore' = Append(ReadBefore, Current)
                             /\ ReadBefore \in Seq(Sent)
         /\ pos > Leading => /\ Current.kind = "marker" => ReadAfter' = ReadAfter
                             /\ Current.kind # "marker" => /\ Len(ReadAfter') = Len(ReadAfter) + 1
                                                           /\ After[Len(ReadAfter) + 1] = Current
         /\ pos = Leading => ReadBefore = Before
<1> DEFINE b == message.before
           a == message.after
<1>0. message \in Messages /\ pos \in Nat /\ Leading \in Nat /\ Total \in Nat
  BY StateFacts
<1>1. /\ Current \in Sent
      /\ pos < Leading => Current = b[pos + 1] /\ pos + 1 \in 1..Len(b)
      /\ pos > Leading => Current = a[pos - Leading] /\ pos - Leading \in 1..Len(a)
      /\ Current = Literal <=> pos = Leading
      /\ Current.kind = "literal" <=> Current = Literal
  BY <1>0, CurrentFacts DEF Leading, Total
<1>2. b \in Seq(Packet) /\ a \in Seq(Packet)
  BY <1>0, MessageFacts
<1>3. ReadBefore = Unmarked(SubSeq(b, 1, pos)) /\ ReadBefore' = Unmarked(SubSeq(b, 1, pos + 1))
  BY DEF ReadBefore
<1>4. ReadAfter = Unmarked(SubSeq(a, 1, pos - Leading - 1)) /\ ReadAfter' = Unmarked(SubSeq(a, 1, (pos + 1) - Leading - 1))
  <2>1. Leading' = Leading
    BY DEF Leading
  <2>2. ReadAfter' = Unmarked(SubSeq(message'.after, 1, pos' - Leading' - 1))
    BY Zenon DEF ReadAfter
  <2>3. ReadAfter = Unmarked(SubSeq(message.after, 1, pos - Leading - 1))
    BY Zenon DEF ReadAfter
  <2> QED BY <2>1, <2>2, <2>3
<1>5. Before = Unmarked(b) /\ After = Unmarked(a) /\ Leading = Len(b)
  BY DEF Before, After, Leading
<1> HIDE DEF a, b
<1>6. ASSUME pos < Leading
      PROVE  /\ Current.kind = "marker" => ReadBefore' = ReadBefore
             /\ Current.kind # "marker" => ReadBefore' = Append(ReadBefore, Current)
             /\ ReadBefore \in Seq(Sent)
  <2>1. pos + 1 \in 1..Len(b) /\ Current = b[pos + 1] /\ (pos + 1) - 1 = pos
    BY <1>0, <1>1, <1>6
  <2>2. /\ b[pos + 1].kind = "marker" => ReadBefore' = ReadBefore
        /\ b[pos + 1].kind # "marker" => ReadBefore' = Append(ReadBefore, b[pos + 1])
        /\ ReadBefore \in Seq(Packet)
    BY <1>2, <1>3, <2>1, UnmarkedStep, ZenonT(40)
  <2>3. ReadBefore \in Seq(Sent)
    BY <2>2, SentFacts, SeqMonotonic
  <2> QED BY <2>1, <2>2, <2>3
<1>7. ASSUME pos > Leading
      PROVE  /\ Current.kind = "marker" => ReadAfter' = ReadAfter
             /\ Current.kind # "marker" => /\ Len(ReadAfter') = Len(ReadAfter) + 1
                                           /\ After[Len(ReadAfter) + 1] = Current
  <2> DEFINE j == pos - Leading
  <2>1. j \in 1..Len(a) /\ Current = a[j]
    BY <1>1, <1>7
  <2>2. (pos + 1) - Leading - 1 = j /\ pos - Leading - 1 = j - 1
    BY <1>0
  <2> HIDE DEF j
  <2>3. /\ a[j].kind = "marker" => Unmarked(SubSeq(a, 1, j)) = Unmarked(SubSeq(a, 1, j - 1))
        /\ a[j].kind # "marker" =>
             /\ Len(Unmarked(SubSeq(a, 1, j))) = Len(Unmarked(SubSeq(a, 1, j - 1))) + 1
             /\ Unmarked(a)[Len(Unmarked(SubSeq(a, 1, j - 1))) + 1] = a[j]
    BY <1>2, <2>1, UnmarkedStep
  <2>4. ReadAfter = Unmarked(SubSeq(a, 1, j - 1)) /\ ReadAfter' = Unmarked(SubSeq(a, 1, j))
    BY <1>4, <2>2
  <2> QED BY <1>5, <2>1, <2>3, <2>4
<1>8. ASSUME pos = Leading PROVE ReadBefore = Before
  <2>1. Unmarked(SubSeq(b, 1, Len(b))) = Unmarked(b)
    BY <1>2, UnmarkedFacts
  <2> QED BY <1>3, <1>5, <1>8, <2>1
<1> QED BY <1>1, <1>6, <1>7, <1>8

\* What only depends on the message stays.
LEMMA Frame ==
  ASSUME message' = message
  PROVE  /\ Leading' = Leading /\ Total' = Total /\ Before' = Before /\ After' = After
         /\ pos' = pos => ReadBefore' = ReadBefore /\ ReadAfter' = ReadAfter
         /\ got' = got => (OnePass' <=> OnePass) /\ Signers(got)' = Signers(got)
         /\ \A i : Signed(i)' <=> Signed(i)
<1>1. Leading' = Leading /\ Total' = Total /\ Before' = Before /\ After' = After
  BY DEF Leading, Total, Before, After
<1>2. pos' = pos => ReadBefore' = ReadBefore /\ ReadAfter' = ReadAfter
  BY <1>1, Zenon DEF ReadBefore, ReadAfter
<1>3. got' = got => (OnePass' <=> OnePass) /\ Signers(got)' = Signers(got)
  BY DEF OnePass, Signers
<1>4. ASSUME NEW i PROVE Signed(i)' <=> Signed(i)
  BY <1>1 DEF Signed
<1> QED BY <1>1, <1>2, <1>3, <1>4

LEMMA FulfilledFrame ==
  ASSUME Fulfilled, UNCHANGED <<message, delivered, hashed, verified>>
  PROVE  Fulfilled'
<1>1. DigestRight' <=> DigestRight
  BY DEF DigestRight, Whole
<1> QED BY <1>1, Frame DEF Fulfilled

LEMMA MatchingFrame ==
  ASSUME Inv, UNCHANGED <<message, caller, got, matcher, corr, verified>>,
         caller \in {"verify", "returned"} => \A k \in Nat : Ahead(k) => Ahead(k)'
  PROVE  Matching'
<1>1. Matching
  BY DEF Inv, IInv
<1>2. After' = After /\ (OnePass' <=> OnePass) /\ Signers(got)' = Signers(got) /\ UNCHANGED <<caller, matcher, corr, verified>>
  BY Frame
<1>3. caller = "verify" => Ahead(0)'
  BY <1>1 DEF Matching
<1>4. matcher = "match" => caller = "returned" /\ \E k \in 0..(Len(corr) - 1) : (\A i \in DOMAIN corr : corr[i] = Pending <=> i > k) /\ Ahead(k)
  BY <1>1, Zenon DEF Matching
<1>5. matcher = "match" => \E k \in 0..(Len(corr) - 1) : (\A i \in DOMAIN corr : corr[i] = Pending <=> i > k) /\ Ahead(k)'
  <2> SUFFICES ASSUME matcher = "match"
               PROVE  \E k \in 0..(Len(corr) - 1) : (\A i \in DOMAIN corr : corr[i] = Pending <=> i > k) /\ Ahead(k)'
    OBVIOUS
  <2>1. PICK k \in 0..(Len(corr) - 1) : (\A i \in DOMAIN corr : corr[i] = Pending <=> i > k) /\ Ahead(k)
    BY <1>4
  <2>2. k \in Nat /\ caller = "returned"
    BY <1>4
  <2>3. Ahead(k)'
    BY <2>1, <2>2
  <2> QED BY <2>1, <2>3, Zenon
<1> QED BY <1>1, <1>2, <1>3, <1>5, Zenon DEF Matching

LEMMA ReadHeaderKeeps ==
  ASSUME Inv, ReadHeader
  PROVE  Inv'
<1> USE DEF callerVars, linkVars
<1>0. /\ Leading \in Nat /\ Total \in Nat /\ Leading < Total /\ pos \in Nat
      /\ list \in Streams(Sent) /\ message \in Messages
  BY StateFacts
<1>1. Types /\ ParserAt /\ Chunks /\ Linked /\ Got /\ Fulfilled
  BY DEF Inv, IInv
<1>2. /\ parser = "header" /\ UNCHANGED <<message, caller, got, matcher, corr, link, delivered, data, hashed, verified>>
      /\ Ready(list) \/ Broken(list)
  BY DEF ReadHeader
<1>3. pos < Total
  BY <1>1, <1>2 DEF ParserAt
<1>4. /\ Leading' = Leading /\ Total' = Total /\ Before' = Before /\ After' = After
      /\ pos' = pos => ReadBefore' = ReadBefore /\ ReadAfter' = ReadAfter
  BY <1>2, Frame
<1>5. Fulfilled'
  BY <1>1, <1>2, FulfilledFrame
<1>6. callback \in {"none", "returned"} /\ (callback = "none" <=> pos =< Leading)
  BY <1>1, <1>2 DEF ParserAt, Types
<1>7. CASE Broken(list) \/ Current.kind = "garbage" \/ (Current.kind # "literal" /\ IsLast(pos + 1) /\ message.fails)
  <2>1. list' = Aborted(list) /\ parser' = "stopped" /\ UNCHANGED <<sent, done, callback, lit>>
        /\ pos' = IF Broken(list) THEN pos ELSE pos + 1
    BY <1>7 DEF ReadHeader, ParserThrows
  <2>2. list' \in Streams(Sent) /\ list'.state = "errored" /\ list'.queue = <<>>
    BY <1>0, <2>1, StreamEnds
  <2>3. pos' \in 0..Total /\ (pos' =< Leading <=> pos =< Leading)
    <3>1. CASE Broken(list)
      BY <1>0, <1>3, <2>1, <3>1
    <3>2. CASE ~Broken(list)
      <4>1. pos' = pos + 1 /\ Current.kind # "literal"
        BY <1>7, <2>1, <3>2
      <4>2. pos # Leading
        BY <1>2, <1>3, <4>1, ReadStep
      <4> QED BY <1>0, <1>3, <4>1, <4>2
    <3> QED BY <3>1, <3>2
  <2>4. Len(list'.queue) =< 1
    BY <2>2
  <2>5. Types'
    BY <1>1, <1>2, <1>4, <2>1, <2>2, <2>3, <2>4 DEF Types, Streams
  <2>6. ParserAt'
    BY <1>1, <1>4, <1>6, <2>1, <2>2, <2>3 DEF ParserAt
  <2>7. Chunks'
    BY <1>1, <1>2, <1>6, <2>1 DEF Chunks, Parsed
  <2>8. Linked'
    BY <1>1, <1>2, <2>1 DEF Linked, Parsed
  <2>9. Got'
    BY <1>1, <1>2, <1>4, <1>6, <2>1, <2>2 DEF Got, Parsed
  <2>10. \A k \in Nat : Ahead(k)'
    BY <2>2 DEF Ahead
  <2>11. Matching'
    BY <1>2, <2>10, MatchingFrame
  <2> QED BY <1>5, <2>5, <2>6, <2>7, <2>8, <2>9, <2>11 DEF Inv, IInv
<1>8. ASSUME ~Broken(list), Current.kind # "garbage", ~(Current.kind # "literal" /\ IsLast(pos + 1) /\ message.fails)
      PROVE  Inv'
  <2>1. list = EmptyStream /\ list.state = "open" /\ list.queue = <<>> /\ pos' = pos + 1
    BY <1>0, <1>2, <1>8, StreamEnds DEF ReadHeader
  <2>2. /\ Current \in Sent /\ (Current = Literal <=> pos = Leading)
        /\ Current.kind = "literal" <=> Current = Literal
        /\ pos < Leading => /\ Current.kind = "marker" => ReadBefore' = ReadBefore
                            /\ Current.kind # "marker" => ReadBefore' = Append(ReadBefore, Current)
                            /\ ReadBefore \in Seq(Sent)
        /\ pos > Leading => /\ Current.kind = "marker" => ReadAfter' = ReadAfter
                            /\ Current.kind # "marker" => /\ Len(ReadAfter') = Len(ReadAfter) + 1
                                                          /\ After[Len(ReadAfter) + 1] = Current
        /\ pos = Leading => ReadBefore = Before
    BY <1>2, <1>3, <2>1, ReadStep
  <2>3. CASE Current.kind = "literal"
    <3>1. parser' = "body" /\ callback' = "parse" /\ UNCHANGED <<sent, done, lit, list>>
      BY <1>8, <2>3 DEF ReadHeader, StartLiteral
    <3>2. pos = Leading /\ callback = "none"
      BY <1>0, <1>6, <2>2, <2>3
    <3>3. pos' = Leading + 1 /\ pos' \in 0..Total /\ ~(pos' =< Leading)
      BY <1>0, <2>1, <3>2
    <3>4. caller = "reading" /\ lit = EmptyStream /\ sent = 0 /\ delivered + Len(lit.queue) =< sent
      BY <1>1, <2>1, <3>2 DEF Got, Chunks, Parsed
    <3>5. got \o list.queue = Before
      BY <1>1, <2>1, <2>2, <3>2 DEF Got
    <3>6. got = Before
      <4>1. got \o <<>> = got
        BY <1>1, ConcatEmptySeq DEF Types
      <4> QED BY <2>1, <3>5, <4>1
    <3>7. lit.state = "open" /\ Len(lit.queue) = 0
      BY <3>4 DEF EmptyStream
    <3>8. Types'
      BY <1>1, <1>2, <1>4, <3>1, <3>3 DEF Types
    <3>9. ParserAt'
      BY <1>1, <1>4, <2>1, <3>1, <3>3 DEF ParserAt
    <3>10. Chunks'
      BY <1>1, <1>2, <2>1, <3>1, <3>4, <3>7 DEF Chunks, Parsed
    <3>11. Linked'
      BY <1>1, <1>2, <3>1, <3>4 DEF Linked, Parsed
    <3>12. Got'
      BY <1>1, <1>2, <1>4, <3>1, <3>4, <3>6 DEF Got, Parsed
    <3>13. Matching'
      BY <1>2, <3>4, MatchingFrame
    <3> QED BY <1>5, <3>8, <3>9, <3>10, <3>11, <3>12, <3>13 DEF Inv, IInv
  <2>4. CASE Current.kind # "literal"
    <3>1. done' = IsLast(pos + 1) /\ UNCHANGED <<sent, callback, lit>>
      BY <1>8, <2>4 DEF ReadHeader, ReadPacket
    <3>2. \/ Current.kind = "marker" /\ list' = list /\ parser' = "next"
          \/ Current.kind = "malformed" /\ list' = Aborted(list) /\ parser' = "next"
          \/ Current.kind # "marker" /\ list' = Put(list, Current) /\ parser' = "write"
      BY <1>8, <2>4 DEF ReadHeader, ReadPacket
    <3>3. pos # Leading /\ pos' \in 0..Total /\ (pos' =< Leading <=> pos =< Leading)
      BY <1>0, <1>3, <2>1, <2>2, <2>4
    <3>4. /\ list' \in Streams(Sent)
          /\ \/ Current.kind = "marker" /\ list'.state = "open" /\ list'.queue = <<>>
             \/ list'.state = "errored" /\ list'.queue = <<>>
             \/ /\ Current.kind # "marker" /\ parser' = "write" /\ list'.state = "open"
                /\ list'.queue = <<Current>> /\ Len(list'.queue) = 1 /\ list'.queue[1] = Current /\ list'.queue # <<>>
      <4>1. CASE Current.kind = "marker" /\ list' = list
        BY <1>0, <2>1, <4>1
      <4>2. CASE list' = Aborted(list)
        BY <1>0, <4>2, StreamEnds
      <4>3. CASE Current.kind # "marker" /\ list' = Put(list, Current) /\ parser' = "write"
        BY <1>0, <2>1, <2>2, <4>3, StreamFacts
      <4> QED BY <3>2, <4>1, <4>2, <4>3
    <3>5. done' \in BOOLEAN /\ (done' <=> pos' >= Total)
      <4>1. IsLast(pos + 1) <=> pos + 1 >= Total
        BY Zenon DEF IsLast, Total
      <4>2. IsLast(pos + 1) \in BOOLEAN
        BY DEF IsLast
      <4> QED BY <2>1, <3>1, <4>1, <4>2, Zenon
    <3>6. ~done' => pos' < Total
      BY <1>0, <3>3, <3>5
    <3>7. callback = "none" => ~done'
      <4>1. ASSUME callback = "none" PROVE ~(pos' >= Total)
        BY <1>0, <1>6, <3>3, <4>1
      <4> QED BY <3>5, <4>1
    <3>8. parser' \in {"write", "next"}
      BY <3>2
    <3>9. callback = "none" => got \o list.queue = ReadBefore /\ got \in Seq(Sent)
      BY <1>1, <2>1 DEF Got, Types
    <3>10. callback = "none" /\ list'.state # "errored" => got \o list'.queue = ReadBefore'
      <4> SUFFICES ASSUME callback = "none", list'.state # "errored" PROVE got \o list'.queue = ReadBefore'
        OBVIOUS
      <4>1. pos < Leading
        BY <1>0, <1>6, <3>3
      <4>2. got \o <<>> = got /\ got \o <<Current>> = Append(got, Current)
        BY <2>2, <3>9, ConcatEmptySeq, AppendIsConcat
      <4>3. got = ReadBefore
        BY <2>1, <3>9, <4>2
      <4>4. CASE Current.kind = "marker" /\ list'.queue = <<>>
        BY <2>2, <4>1, <4>2, <4>3, <4>4
      <4>5. CASE Current.kind # "marker" /\ list'.queue = <<Current>>
        BY <2>2, <4>1, <4>2, <4>3, <4>5
      <4> QED BY <3>4, <4>4, <4>5
    <3>11. Len(list'.queue) =< 1
      <4>1. Len(<<>>) = 0
        OBVIOUS
      <4>2. Len(list'.queue) = 0 \/ Len(list'.queue) = 1
        BY <3>4, <4>1, Zenon
      <4> QED BY <4>2, AtMostOne, Zenon
    <3>12. Types'
      BY <1>1, <1>2, <1>4, <3>1, <3>3, <3>4, <3>5, <3>8, <3>11 DEF Types, Streams
    <3>13. ParserAt'
      <4>1. parser' = "next" => list'.queue = <<>>
        BY <2>1, <3>2, <3>4
      <4>2. list'.state # "open" => list'.queue = <<>> /\ list'.state # "closed"
        BY <3>4
      <4> QED BY <1>1, <1>2, <1>4, <1>6, <3>1, <3>3, <3>6, <3>7, <3>8, <4>1, <4>2 DEF ParserAt
    <3>14. Chunks'
      BY <1>1, <1>2, <1>6, <3>1, <3>8 DEF Chunks, Parsed
    <3>15. Linked'
      BY <1>1, <1>2, <3>1 DEF Linked, Parsed
    <3>16. Got'
      <4>1. callback = "returned" => caller # "reading"
        BY <1>1, <2>1 DEF Got
      <4> QED BY <1>1, <1>2, <1>4, <1>6, <2>1, <3>1, <3>8, <3>10, <4>1 DEF Got, Parsed
    <3>17. ASSUME NEW k \in Nat, caller \in {"verify", "returned"}, Ahead(k) PROVE Ahead(k)'
      <4>1. callback = "returned" /\ pos > Leading
        BY <1>0, <1>1, <1>6, <3>3, <3>17 DEF Linked, Parsed
      <4>2. k + Len(list.queue) = Len(ReadAfter)
        BY <2>1, <3>17 DEF Ahead
      <4>3. k = Len(ReadAfter)
        <5>1. Len(list.queue) = 0
          BY <2>1
        <5> QED BY <4>2, <5>1
      <4>4. CASE Current.kind = "marker" /\ list'.queue = <<>>
        <5>1. ReadAfter' = ReadAfter /\ Len(list'.queue) = 0
          BY <2>2, <4>1, <4>4
        <5> QED BY <4>3, <4>4, <5>1 DEF Ahead
      <4>5. CASE Current.kind # "marker" /\ Len(list'.queue) = 1 /\ list'.queue[1] = Current
        <5>1. Len(ReadAfter') = Len(ReadAfter) + 1 /\ After[Len(ReadAfter) + 1] = Current
          BY <2>2, <4>1, <4>5
        <5>2. k + Len(list'.queue) = Len(ReadAfter')
          BY <4>3, <4>5, <5>1
        <5>3. list'.queue[1] = After'[k + 1]
          BY <1>4, <4>3, <4>5, <5>1
        <5> QED BY <5>2, <5>3 DEF Ahead
      <4>6. CASE list'.state = "errored"
        BY <4>6 DEF Ahead
      <4> QED BY <3>4, <4>4, <4>5, <4>6
    <3>18. Matching'
      BY <1>2, <3>17, MatchingFrame
    <3> QED BY <1>5, <3>12, <3>13, <3>14, <3>15, <3>16, <3>18 DEF Inv, IInv
  <2> QED BY <2>3, <2>4
<1> QED BY <1>7, <1>8

LEMMA PacketWrittenKeeps ==
  ASSUME Inv, PacketWritten
  PROVE  Inv'
<1> USE DEF callerVars, linkVars
<1>1. Types /\ ParserAt /\ Chunks /\ Linked /\ Got /\ Fulfilled
  BY DEF Inv, IInv
<1>2. /\ parser = "write" /\ parser' = "next"
      /\ UNCHANGED <<message, pos, sent, done, callback, lit, list, caller, got, matcher, corr, link, delivered, data, hashed, verified>>
      /\ Ready(list) \/ Broken(list)
  BY DEF PacketWritten
<1>3. /\ Leading' = Leading /\ Total' = Total /\ Before' = Before /\ After' = After
      /\ ReadBefore' = ReadBefore /\ ReadAfter' = ReadAfter
  BY <1>2, Frame
<1>4. list.queue = <<>>
  BY <1>1, <1>2 DEF ParserAt, Ready, Broken
<1>5. Types'
  BY <1>1, <1>2, <1>3 DEF Types
<1>6. ParserAt'
  BY <1>1, <1>2, <1>3, <1>4 DEF ParserAt
<1>7. Chunks'
  BY <1>1, <1>2 DEF Chunks, Parsed
<1>8. Linked'
  BY <1>1, <1>2 DEF Linked, Parsed
<1>9. Got'
  BY <1>1, <1>2, <1>3 DEF Got, Parsed
<1>10. \A k \in Nat : Ahead(k) => Ahead(k)'
  BY <1>2, <1>3 DEF Ahead
<1>11. Matching' /\ Fulfilled'
  BY <1>1, <1>2, <1>10, MatchingFrame, FulfilledFrame
<1> QED BY <1>5, <1>6, <1>7, <1>8, <1>9, <1>11 DEF Inv, IInv

LEMMA NextPacketKeeps ==
  ASSUME Inv, NextPacket
  PROVE  Inv'
<1> USE DEF callerVars, linkVars
<1>1. Types /\ ParserAt /\ Chunks /\ Linked /\ Got /\ Fulfilled
  BY DEF Inv, IInv
<1>2. /\ parser = "next" /\ parser' = IF done THEN "stopped" ELSE "header"
      /\ list' = IF done THEN Closed(list) ELSE list
      /\ UNCHANGED <<message, pos, sent, done, callback, lit, caller, got, matcher, corr, link, delivered, data, hashed, verified>>
  BY DEF NextPacket
<1>3. /\ Leading' = Leading /\ Total' = Total /\ Before' = Before /\ After' = After
      /\ ReadBefore' = ReadBefore /\ ReadAfter' = ReadAfter
  BY <1>2, Frame
<1>4. list.queue = <<>> /\ callback \notin {"parse", "write"} /\ (callback = "none" => ~done)
  BY <1>1, <1>2, Zenon DEF ParserAt
<1>5. list \in Streams(Sent)
  BY StateFacts
<1>6. /\ list' \in Streams(Sent) /\ list'.queue = <<>> /\ (~done => list' = list)
      /\ list'.state = "open" => list'.state = list.state
      /\ list.state = "errored" => list'.state = "errored"
      /\ done => parser' = "stopped" /\ list'.state # "open"
  <2>1. CASE done
    BY <1>2, <1>4, <1>5, <2>1, StreamEnds
  <2>2. CASE ~done
    BY <1>2, <1>4, <1>5, <2>2
  <2> QED BY <2>1, <2>2
<1>7. Types'
  <2>1. parser' \in {"stopped", "header"} /\ list' \in [state : {"open", "closed", "errored"}, queue : Seq(Sent)]
    BY <1>2, <1>6 DEF Streams
  <2>2. Len(list'.queue) =< 1
    <3>1. Len(list'.queue) = 0
      BY <1>6
    <3> QED BY <3>1, AtMostOne, Zenon
  <2> QED BY <1>1, <1>2, <1>3, <2>1, <2>2 DEF Types
<1>8. ParserAt'
  <2>1. CASE done
    BY <1>1, <1>2, <1>3, <1>4, <1>6, <2>1 DEF ParserAt
  <2>2. CASE ~done
    BY <1>1, <1>2, <1>3, <1>4, <1>6, <2>2 DEF ParserAt
  <2> QED BY <2>1, <2>2
<1>9. Chunks'
  <2>1. parser' \in {"stopped", "header"}
    BY <1>2
  <2> QED BY <1>1, <1>2, <1>4, <2>1 DEF Chunks, Parsed
<1>10. Linked'
  BY <1>1, <1>2 DEF Linked, Parsed
<1>11. Got'
  <2>1. parser' \in {"stopped", "header"} /\ (callback = "none" => list' = list)
    BY <1>2, <1>4, <1>6
  <2> QED BY <1>1, <1>2, <1>3, <1>4, <1>6, <2>1 DEF Got, Parsed
<1>12. \A k \in Nat : Ahead(k) => Ahead(k)'
  <2>1. CASE done
    BY <1>6, <2>1 DEF Ahead
  <2>2. CASE ~done
    BY <1>3, <1>6, <2>2 DEF Ahead
  <2> QED BY <2>1, <2>2
<1>13. Matching' /\ Fulfilled'
  BY <1>1, <1>2, <1>12, MatchingFrame, FulfilledFrame
<1> QED BY <1>7, <1>8, <1>9, <1>10, <1>11, <1>13 DEF Inv, IInv

LEMMA WriteChunkKeeps ==
  ASSUME Inv, WriteChunk
  PROVE  Inv'
<1> USE DEF callerVars, linkVars
<1>1. Types /\ ParserAt /\ Chunks /\ Linked /\ Got /\ Fulfilled
  BY DEF Inv, IInv
<1>2. /\ parser = "body" /\ Ready(lit) /\ sent < message.body /\ sent' = sent + 1 /\ lit' = Put(lit, sent + 1)
      /\ UNCHANGED <<message, pos, parser, done, callback, list, caller, got, matcher, corr, link, delivered, data, hashed, verified>>
  BY DEF WriteChunk
<1>3. /\ Leading' = Leading /\ Total' = Total /\ Before' = Before /\ After' = After
      /\ ReadBefore' = ReadBefore /\ ReadAfter' = ReadAfter
  BY <1>2, Frame
<1>4. /\ lit \in Streams(Nat) /\ sent \in Nat /\ delivered \in Nat /\ Leading \in Nat
  BY StateFacts
<1>5. message.body \in Nat
  BY StateFacts, MessageFacts
<1>6. sent' \in 0..message.body /\ sent' \in Nat
  BY <1>2, <1>4, <1>5
<1>7. lit.state = "open" /\ lit.queue = <<>>
  BY <1>2 DEF Ready
<1>8. lit' \in Streams(Nat) /\ lit'.state = "open" /\ Len(lit'.queue) = 1
  BY <1>2, <1>4, <1>6, <1>7, StreamFacts
<1>9. Len(lit.queue) = 0
  BY <1>7
<1>10. callback # "none"
  BY <1>1, <1>2, <1>4 DEF ParserAt
<1>11. Types'
  <2>1. Len(lit'.queue) =< 1
    BY <1>8, AtMostOne, Zenon
  <2> QED BY <1>1, <1>2, <1>3, <1>6, <1>8, <2>1 DEF Types, Streams
<1>12. ParserAt'
  BY <1>1, <1>2, <1>3 DEF ParserAt
<1>13. Chunks'
  <2>1. callback = "parse" => list = EmptyStream /\ sent = 0
    BY <1>1, <1>7, <1>9 DEF Chunks
  <2>2. Parsed => sent = 1 + delivered + 0
    BY <1>1, <1>7, <1>9 DEF Chunks
  <2>3. delivered + 0 =< sent
    BY <1>1, <1>9 DEF Chunks
  <2>4. /\ callback = "parse" => sent' = 1
        /\ Parsed => sent' = 1 + delivered + 1
        /\ delivered + 1 =< sent'
    BY <1>2, <1>4, <2>1, <2>2, <2>3
  <2> QED BY <1>2, <1>8, <1>10, <2>1, <2>4 DEF Chunks, Parsed
<1>14. Linked'
  BY <1>1, <1>2, <1>7 DEF Linked, Parsed
<1>15. Got'
  BY <1>1, <1>2, <1>3 DEF Got, Parsed
<1>16. \A k \in Nat : Ahead(k) => Ahead(k)'
  BY <1>2, <1>3 DEF Ahead
<1>17. Matching' /\ Fulfilled'
  BY <1>1, <1>2, <1>16, MatchingFrame, FulfilledFrame
<1> QED BY <1>11, <1>12, <1>13, <1>14, <1>15, <1>17 DEF Inv, IInv

LEMMA EndBodyKeeps ==
  ASSUME Inv, EndBody
  PROVE  Inv'
<1> USE DEF callerVars, linkVars
<1>1. Types /\ ParserAt /\ Chunks /\ Linked /\ Got /\ Fulfilled
  BY DEF Inv, IInv
<1>2. /\ parser = "body" /\ parser' = "await" /\ Ready(lit) /\ sent = message.body
      /\ lit' = IF BodyThrows \/ PeekThrows THEN Aborted(lit) ELSE Closed(lit)
      /\ done' = (BodyThrows \/ PeekThrows \/ IsLast(pos))
      /\ UNCHANGED <<message, pos, sent, callback, list, caller, got, matcher, corr, link, delivered, data, hashed, verified>>
  BY DEF EndBody
<1>3. /\ Leading' = Leading /\ Total' = Total /\ Before' = Before /\ After' = After
      /\ ReadBefore' = ReadBefore /\ ReadAfter' = ReadAfter
  BY <1>2, Frame
<1>4. lit \in Streams(Nat) /\ Leading \in Nat /\ Total \in Nat /\ pos \in Nat
  BY StateFacts
<1>5. lit.state = "open" /\ lit.queue = <<>>
  BY <1>2 DEF Ready
<1>6. /\ lit' \in Streams(Nat) /\ lit'.queue = <<>> /\ lit'.state # "open"
      /\ lit'.state = "closed" => sent = message.body /\ ~message.fails /\ message.cut # "inside"
  <2>1. CASE BodyThrows \/ PeekThrows
    BY <1>2, <1>4, <2>1, StreamEnds
  <2>2. CASE ~(BodyThrows \/ PeekThrows)
    <3>1. lit' = Closed(lit) /\ ~message.fails /\ message.cut # "inside"
      BY <1>2, <2>2 DEF BodyThrows, PeekThrows
    <3> QED BY <1>2, <1>4, <1>5, <3>1, StreamEnds
  <2> QED BY <2>1, <2>2
<1>7. ~done' => pos < Total
  <2>1. ~done' => ~IsLast(pos)
    BY <1>2
  <2>2. IsLast(pos) <=> pos >= Total
    BY Zenon DEF IsLast, Total
  <2>3. ~(pos >= Total) => pos < Total
    BY <1>4
  <2> QED BY <2>1, <2>2, <2>3, Zenon
<1>8. done' \in BOOLEAN
  <2>1. (BodyThrows \/ PeekThrows \/ IsLast(pos)) \in BOOLEAN
    OBVIOUS
  <2> QED BY <1>2, <2>1, Zenon
<1>9. callback # "none"
  BY <1>1, <1>2, <1>4 DEF ParserAt
<1>10. Types'
  <2>1. Len(lit'.queue) =< 1
    <3>1. Len(lit'.queue) = 0
      BY <1>6
    <3> QED BY <3>1, AtMostOne, Zenon
  <2> QED BY <1>1, <1>2, <1>3, <1>6, <1>8, <2>1 DEF Types, Streams
<1>11. ParserAt'
  BY <1>1, <1>2, <1>3, <1>7, <1>9 DEF ParserAt
<1>12. Chunks'
  <2>1. Len(lit.queue) = 0 /\ Len(lit'.queue) = 0
    BY <1>5, <1>6
  <2>2. /\ callback = "parse" => list = EmptyStream /\ sent = 0
        /\ Parsed => sent = 1 + delivered + 0
        /\ delivered + 0 =< sent
    BY <1>1, <1>5, <2>1 DEF Chunks
  <2> QED BY <1>2, <1>6, <1>9, <2>1, <2>2 DEF Chunks, Parsed
<1>13. Linked'
  BY <1>1, <1>2, <1>5 DEF Linked, Parsed
<1>14. Got'
  BY <1>1, <1>2, <1>3 DEF Got, Parsed
<1>15. \A k \in Nat : Ahead(k) => Ahead(k)'
  BY <1>2, <1>3 DEF Ahead
<1>16. Matching' /\ Fulfilled'
  BY <1>1, <1>2, <1>15, MatchingFrame, FulfilledFrame
<1> QED BY <1>10, <1>11, <1>12, <1>13, <1>14, <1>16 DEF Inv, IInv

LEMMA AwaitCallbackKeeps ==
  ASSUME Inv, AwaitCallback
  PROVE  Inv'
<1> USE DEF callerVars, linkVars
<1>1. Types /\ ParserAt /\ Chunks /\ Linked /\ Got /\ Fulfilled
  BY DEF Inv, IInv
<1>2. /\ parser = "await" /\ parser' = "next" /\ callback = "returned"
      /\ UNCHANGED <<message, pos, sent, done, callback, lit, list, caller, got, matcher, corr, link, delivered, data, hashed, verified>>
  BY DEF AwaitCallback
<1>3. /\ Leading' = Leading /\ Total' = Total /\ Before' = Before /\ After' = After
      /\ ReadBefore' = ReadBefore /\ ReadAfter' = ReadAfter
  BY <1>2, Frame
<1>4. list.queue = <<>>
  BY <1>1, <1>2 DEF Got
<1>5. Types'
  BY <1>1, <1>2, <1>3 DEF Types
<1>6. ParserAt'
  BY <1>1, <1>2, <1>3, <1>4 DEF ParserAt
<1>7. Chunks'
  BY <1>1, <1>2 DEF Chunks, Parsed
<1>8. Linked'
  BY <1>1, <1>2 DEF Linked, Parsed
<1>9. Got'
  BY <1>1, <1>2, <1>3 DEF Got, Parsed
<1>10. \A k \in Nat : Ahead(k) => Ahead(k)'
  BY <1>2, <1>3 DEF Ahead
<1>11. Matching' /\ Fulfilled'
  BY <1>1, <1>2, <1>10, MatchingFrame, FulfilledFrame
<1> QED BY <1>5, <1>6, <1>7, <1>8, <1>9, <1>11 DEF Inv, IInv

----------------------------------------------------------------------------
(* The callback.                                                           *)

LEMMA ParseLiteralKeeps ==
  ASSUME Inv, ParseLiteral
  PROVE  Inv'
<1> USE DEF callerVars, linkVars, parserVars
<1>1. Types /\ ParserAt /\ Chunks /\ Linked /\ Got /\ Fulfilled
  BY DEF Inv, IInv
<1>2. /\ callback = "parse"
      /\ UNCHANGED <<message, pos, parser, sent, done, caller, got, matcher, corr, link, delivered, data, hashed, verified>>
  BY DEF ParseLiteral
<1>3. /\ Leading' = Leading /\ Total' = Total /\ Before' = Before /\ After' = After
      /\ ReadBefore' = ReadBefore /\ ReadAfter' = ReadAfter
  BY <1>2, Frame
<1>4. /\ lit \in Streams(Nat) /\ list \in Streams(Sent) /\ sent \in Nat /\ delivered \in Nat
      /\ Len(lit.queue) \in {0, 1} /\ (Len(lit.queue) = 0 <=> lit.queue = <<>>)
  BY StateFacts
<1>5. list = EmptyStream /\ list.state = "open" /\ list.queue = <<>> /\ parser \in {"body", "await"}
  BY <1>1, <1>2 DEF Chunks, ParserAt, EmptyStream
<1>6. caller = "reading" /\ got = Before /\ link = "off" /\ delivered = 0
  BY <1>1, <1>2, <1>5 DEF Got, Linked, Parsed
<1>7. Matching' /\ Fulfilled'
  <2>1. caller \notin {"verify", "returned"}
    BY <1>6
  <2> QED BY <1>1, <1>2, <2>1, MatchingFrame, FulfilledFrame
<1>8. CASE Broken(lit)
  <2>1. list' = Aborted(list) /\ callback' = "returned" /\ lit' = lit
    BY <1>8 DEF ParseLiteral
  <2>2. list' \in Streams(Sent) /\ list'.state = "errored" /\ list'.queue = <<>> /\ Len(list'.queue) =< 1
    <3>1. list' \in Streams(Sent) /\ list'.state = "errored" /\ list'.queue = <<>>
      BY <1>4, <2>1, StreamEnds
    <3>2. Len(list'.queue) = 0
      BY <3>1
    <3> QED BY <3>1, <3>2, AtMostOne, Zenon
  <2>3. Types'
    BY <1>1, <1>2, <1>3, <2>1, <2>2 DEF Types, Streams
  <2>4. ParserAt'
    BY <1>1, <1>2, <1>3, <1>5, <2>1, <2>2 DEF ParserAt
  <2>5. Chunks'
    BY <1>1, <1>2, <1>8, <2>1 DEF Chunks, Parsed, Broken
  <2>6. Linked'
    BY <1>1, <1>2, <2>1 DEF Linked, Parsed
  <2>7. Got'
    BY <1>1, <1>2, <1>3, <1>6, <2>1, <2>2 DEF Got, Parsed
  <2> QED BY <1>7, <2>3, <2>4, <2>5, <2>6, <2>7 DEF Inv, IInv
<1>9. CASE ~Broken(lit)
  <2>1. lit' = Taken(lit) /\ list' = Put(list, Literal) /\ callback' = "write" /\ Has(lit)
    BY <1>9 DEF ParseLiteral
  <2>2. Literal \in Sent
    BY SentFacts
  <2>3. list' \in Streams(Sent) /\ list'.state = "open" /\ list'.queue = <<Literal>> /\ Len(list'.queue) = 1
    BY <1>4, <1>5, <2>1, <2>2, StreamFacts
  <2>4. lit' \in Streams(Nat) /\ lit'.state = lit.state /\ lit'.queue = <<>>
    BY <1>4, <2>1, StreamEnds
  <2>5. Len(lit'.queue) = 0 /\ Len(lit.queue) = 1 /\ lit.state # "errored"
    <3>1. Len(lit'.queue) = 0
      BY <2>4
    <3>2. Len(lit.queue) = 1 /\ lit.state # "errored"
      BY <1>1, <1>4, <1>9, <2>1, Zenon DEF Has, Broken
    <3> QED BY <3>1, <3>2
  <2>6. Types'
    <3>1. Len(list'.queue) =< 1 /\ Len(lit'.queue) =< 1
      BY <2>3, <2>5, AtMostOne, Zenon
    <3> QED BY <1>1, <1>2, <1>3, <2>1, <2>3, <2>4, <3>1 DEF Types, Streams
  <2>7. ParserAt'
    BY <1>1, <1>2, <1>3, <1>5, <2>1, <2>3 DEF ParserAt
  <2>8. Chunks'
    <3>1. sent = 1
      BY <1>1, <1>2, <2>5 DEF Chunks
    <3> QED BY <1>1, <1>2, <1>6, <2>1, <2>4, <2>5, <3>1 DEF Chunks, Parsed
  <2>9. Linked'
    BY <1>1, <1>2, <2>1, <2>4 DEF Linked, Parsed
  <2>10. Got'
    BY <1>1, <1>2, <1>3, <1>6, <2>1, <2>3 DEF Got, Parsed
  <2> QED BY <1>7, <2>6, <2>7, <2>8, <2>9, <2>10 DEF Inv, IInv
<1> QED BY <1>8, <1>9

LEMMA LiteralWrittenKeeps ==
  ASSUME Inv, LiteralWritten
  PROVE  Inv'
<1> USE DEF callerVars, linkVars, parserVars
<1>1. Types /\ ParserAt /\ Chunks /\ Linked /\ Got /\ Fulfilled
  BY DEF Inv, IInv
<1>2. /\ callback = "write" /\ callback' = "returned" /\ list.queue = <<>>
      /\ UNCHANGED <<message, pos, parser, sent, done, lit, list, caller, got, matcher, corr, link, delivered, data, hashed, verified>>
  BY DEF LiteralWritten, Has
<1>3. /\ Leading' = Leading /\ Total' = Total /\ Before' = Before /\ After' = After
      /\ ReadBefore' = ReadBefore /\ ReadAfter' = ReadAfter
  BY <1>2, Frame
<1>4. caller # "reading"
  <2>1. <<>> # <<Literal>>
    OBVIOUS
  <2> QED BY <1>1, <1>2, <2>1, Zenon DEF Got
<1>5. Types'
  BY <1>1, <1>2, <1>3 DEF Types
<1>6. ParserAt'
  BY <1>1, <1>2, <1>3 DEF ParserAt
<1>7. Chunks'
  BY <1>1, <1>2 DEF Chunks, Parsed
<1>8. Linked'
  BY <1>1, <1>2 DEF Linked, Parsed
<1>9. Got'
  BY <1>1, <1>2, <1>3, <1>4 DEF Got, Parsed
<1>10. \A k \in Nat : Ahead(k) => Ahead(k)'
  BY <1>2, <1>3 DEF Ahead
<1>11. Matching' /\ Fulfilled'
  BY <1>1, <1>2, <1>10, MatchingFrame, FulfilledFrame
<1> QED BY <1>5, <1>6, <1>7, <1>8, <1>9, <1>11 DEF Inv, IInv

----------------------------------------------------------------------------
(* The caller.                                                             *)

LEMMA ReadFirstKeeps ==
  ASSUME Inv, ReadFirst
  PROVE  Inv'
<1> USE DEF linkVars, parserVars
<1>1. Types /\ ParserAt /\ Chunks /\ Linked /\ Got /\ Matching /\ Fulfilled
  BY DEF Inv, IInv
<1>2. /\ caller = "reading"
      /\ Has(list) \/ AtEnd(list) \/ Broken(list)
      /\ UNCHANGED <<message, pos, parser, sent, done, callback, lit, matcher, corr, link, delivered, data, hashed, verified>>
  BY DEF ReadFirst
<1>3. /\ Leading' = Leading /\ Total' = Total /\ Before' = Before /\ After' = After
      /\ ReadBefore' = ReadBefore /\ ReadAfter' = ReadAfter
  BY <1>2, Frame
<1>4. /\ list \in Streams(Sent) /\ Leading \in Nat /\ pos \in Nat /\ message \in Messages
      /\ list.queue # <<>> => list.queue[1] \in Sent /\ list.queue = <<list.queue[1]>>
  BY StateFacts
<1>5. Fulfilled'
  BY <1>1, <1>2, FulfilledFrame
<1>6. matcher = "off" /\ verified = <<>> /\ link = "off"
  BY <1>1, <1>2 DEF Matching, Linked
<1>7. CASE ~Has(list)
  <2>1. caller' = "rejected" /\ list' = list /\ got' = got
    BY <1>7 DEF ReadFirst
  <2>2. list.queue = <<>> /\ list.state # "open"
    BY <1>2, <1>7 DEF Has, AtEnd, Broken
  <2>3. Types'
    BY <1>1, <1>2, <1>3, <2>1 DEF Types
  <2>4. ParserAt'
    BY <1>1, <1>2, <1>3, <2>1 DEF ParserAt
  <2>5. Chunks'
    BY <1>1, <1>2, <2>1 DEF Chunks, Parsed
  <2>6. Linked'
    BY <1>1, <1>2, <1>6, <2>1 DEF Linked, Parsed
  <2>7. Got'
    BY <1>1, <1>2, <1>3, <2>1, <2>2 DEF Got, Parsed
  <2>8. Matching'
    BY <1>2, <1>6, <2>1 DEF Matching
  <2> QED BY <1>5, <2>3, <2>4, <2>5, <2>6, <2>7, <2>8 DEF Inv, IInv
<1>8. CASE Has(list)
  <2> DEFINE p == list.queue[1]
  <2>1. /\ list' = Taken(list) /\ got' = Append(got, p) /\ caller' = IF p = Literal THEN "verify" ELSE "reading"
    BY <1>8 DEF ReadFirst
  <2>2. p \in Sent /\ list.queue = <<p>> /\ list.queue # <<>> /\ list.state = "open" /\ got \in Seq(Sent)
    BY <1>1, <1>4, <1>8 DEF Has, ParserAt, Types
  <2> HIDE DEF p
  <2>3. list' \in Streams(Sent) /\ list'.state = "open" /\ list'.queue = <<>>
    BY <1>4, <2>1, <2>2, StreamEnds
  <2>4. got' \in Seq(Sent) /\ got' # <<>> /\ got' = got \o <<p>> /\ got' \o <<>> = got'
    <3>1. got' \in Seq(Sent) /\ got' = got \o <<p>>
      BY <2>1, <2>2, AppendProperties, AppendIsConcat
    <3>2. got' # <<>>
      BY <2>1, <2>2, AppendProperties
    <3> QED BY <3>1, <3>2, ConcatEmptySeq
  <2>5. Len(list'.queue) = 0
    BY <2>3
  <2>6. callback # "parse" /\ (callback = "returned" => list.state = "errored")
    <3>1. EmptyStream.queue = <<>>
      BY DEF EmptyStream
    <3>2. callback # "parse"
      BY <1>1, <2>2, <3>1, Zenon DEF Chunks
    <3> QED BY <1>1, <1>2, <3>2 DEF Got
  <2>7. Types'
    <3>1. Len(list'.queue) =< 1
      BY <2>5, AtMostOne, Zenon
    <3>2. caller' \in {"verify", "reading"}
      BY <2>1
    <3> QED BY <1>1, <1>2, <1>3, <2>3, <2>4, <3>1, <3>2 DEF Types, Streams
  <2>8. ParserAt'
    BY <1>1, <1>2, <1>3, <2>2, <2>3 DEF ParserAt
  <2>9. Chunks'
    BY <1>1, <1>2, <2>6 DEF Chunks, Parsed
  <2>10. CASE callback = "none"
    <3>1. got' = ReadBefore
      BY <1>1, <2>2, <2>4, <2>10 DEF Got
    <3>2. ReadBefore \in Seq(Packet)
      <4>1. message.before \in Seq(Packet) /\ pos =< Leading
        BY <1>1, <1>4, <2>10, MessageFacts DEF ParserAt
      <4>2. pos \in 0..Len(message.before)
        BY <1>4, <4>1 DEF Leading
      <4> QED BY <4>1, <4>2, UnmarkedFacts DEF ReadBefore
    <3>3. p \in Packet
      <4> DEFINE n == Len(got)
      <4>1. n \in Nat /\ Len(got') = n + 1 /\ got'[n + 1] = p
        BY <2>1, <2>2, AppendProperties
      <4> HIDE DEF n
      <4>2. n + 1 \in 1..Len(got')
        BY <4>1
      <4> QED BY <3>1, <3>2, <4>1, <4>2, ElementOfSeq
    <3>4. caller' = "reading"
      BY <2>1, <3>3, SentFacts
    <3>5. Linked' /\ Matching'
      BY <1>1, <1>2, <1>6, <3>4 DEF Linked, Matching, Parsed
    <3>6. Got'
      BY <1>2, <1>3, <2>3, <2>4, <2>10, <3>1, <3>4 DEF Got, Parsed
    <3> QED BY <1>5, <2>7, <2>8, <2>9, <3>5, <3>6 DEF Inv, IInv
  <2>11. CASE callback = "write"
    <3>1. got = Before /\ list.queue = <<Literal>>
      BY <1>1, <1>2, <2>11 DEF Got
    <3>2. p = Literal
      BY <2>2, <3>1
    <3>3. caller' = "verify" /\ got' = Append(Before, Literal)
      BY <2>1, <3>1, <3>2
    <3>4. Linked'
      BY <1>1, <1>2, <1>6, <2>11, <3>3 DEF Linked, Parsed
    <3>5. Got'
      BY <1>2, <1>3, <2>3, <2>11, <3>3 DEF Got, Parsed
    <3>6. ReadAfter = <<>>
      <4>1. pos = Leading + 1 /\ message.after \in Seq(Packet)
        BY <1>1, <1>4, <2>11, MessageFacts DEF ParserAt
      <4>2. pos - Leading - 1 = 0
        BY <1>4, <4>1
      <4> QED BY <4>1, <4>2, UnmarkedFacts DEF ReadAfter
    <3>7. Ahead(0)'
      <4>1. Len(ReadAfter') = 0
        BY <1>3, <3>6
      <4>2. 0 + Len(list'.queue) = Len(ReadAfter')
        BY <2>5, <4>1
      <4> QED BY <2>3, <4>2 DEF Ahead
    <3>8. Matching'
      BY <1>2, <1>6, <3>3, <3>7 DEF Matching
    <3> QED BY <1>5, <2>7, <2>8, <2>9, <3>4, <3>5, <3>8 DEF Inv, IInv
  <2>12. callback \in {"none", "write"}
    BY <1>1, <2>2, <2>6 DEF Types
  <2> QED BY <2>10, <2>11, <2>12
<1> QED BY <1>7, <1>8

LEMMA VerifyKeeps ==
  ASSUME Inv, Verify
  PROVE  Inv'
<1> USE DEF linkVars, parserVars
<1>1. Types /\ ParserAt /\ Chunks /\ Linked /\ Got /\ Matching /\ Fulfilled
  BY DEF Inv, IInv
<1>2. /\ caller = "verify"
      /\ UNCHANGED <<message, pos, parser, sent, done, callback, lit, list, got, delivered, data, hashed>>
  BY DEF Verify
<1>3. /\ Leading' = Leading /\ Total' = Total /\ Before' = Before /\ After' = After
      /\ ReadBefore' = ReadBefore /\ ReadAfter' = ReadAfter
      /\ (OnePass' <=> OnePass) /\ Signers(got)' = Signers(got)
  BY <1>2, Frame
<1>4. Parsed /\ link = "off" /\ matcher = "off" /\ verified = <<>> /\ Ahead(0)
  BY <1>1, <1>2 DEF Linked, Matching
<1>5. message.before \in Seq(Packet)
  BY StateFacts, MessageFacts
<1>6. got = Append(Unmarked(message.before), Literal)
  BY <1>1, <1>2 DEF Got, Before
<1>7. Signers(got) \in Seq(Packet) /\ OfKind(got, "onePass") \in Seq(Packet)
  BY <1>5, <1>6, SignersFacts
<1> DEFINE s == Signers(got)
<1> HIDE DEF s
<1>8. s \in Seq(Packet) /\ DOMAIN s = 1..Len(s) /\ Len(s) \in Nat
  BY <1>7 DEF s
<1>9. ParserAt' /\ Chunks'
  BY <1>1, <1>2, <1>3 DEF ParserAt, Chunks, Parsed
<1>10. CASE message.expectSigned /\ Signers(got) = <<>>
  <2>1. caller' = "rejected" /\ UNCHANGED <<matcher, corr, link, verified>>
    BY <1>10 DEF Verify
  <2>2. Types'
    BY <1>1, <1>2, <1>3, <2>1 DEF Types
  <2>3. Linked'
    BY <1>1, <1>2, <1>4, <2>1 DEF Linked, Parsed
  <2>4. Got'
    BY <1>1, <1>2, <1>3, <1>4, <2>1 DEF Got, Parsed
  <2>5. Matching'
    BY <1>2, <1>4, <2>1 DEF Matching
  <2>6. Fulfilled'
    BY <1>1, <1>2, <2>1, FulfilledFrame
  <2> QED BY <1>9, <2>2, <2>3, <2>4, <2>5, <2>6 DEF Inv, IInv
<1>11. CASE ~(message.expectSigned /\ Signers(got) = <<>>)
  <2>1. /\ caller' = "returned" /\ link' = "pipe"
        /\ matcher' = IF OnePass THEN "match" ELSE "off"
        /\ corr' = IF OnePass THEN [i \in DOMAIN s |-> Pending] ELSE <<>>
        /\ verified' = [i \in DOMAIN s |-> "pending"]
    BY <1>11 DEF Verify, s
  <2>2. corr' \in Seq(Matched)
    <3>1. Pending \in Matched
      BY SentFacts
    <3>2. [i \in 1..Len(s) |-> Pending] \in Seq(Matched)
      BY <1>8, <3>1
    <3>3. <<>> \in Seq(Matched)
      BY EmptySeq
    <3> QED BY <1>8, <2>1, <3>2, <3>3
  <2>3. Types'
    <3>1. /\ caller' \in {"reading", "verify", "returned", "rejected"}
          /\ matcher' \in {"off", "match", "drain", "closed", "errored"}
          /\ link' \in {"off", "pipe", "drain", "stopped"}
      BY <2>1
    <3>2. DOMAIN verified' \subseteq Nat /\ \A i \in DOMAIN verified' : verified'[i] \in {"pending", "true", "rejected"}
      BY <1>8, <2>1
    <3> QED BY <1>1, <1>2, <1>3, <2>2, <3>1, <3>2 DEF Types
  <2>4. Linked'
    BY <1>1, <1>2, <1>4, <2>1 DEF Linked, Parsed
  <2>5. Got'
    BY <1>1, <1>2, <1>3, <1>4, <2>1 DEF Got, Parsed
  <2>6. Fulfilled'
    BY <2>1 DEF Fulfilled
  <2>7. Matching'
    <3>1. OnePass => corr' = [i \in 1..Len(s) |-> Pending] /\ DOMAIN corr' = 1..Len(s)
      BY <1>8, <2>1
    <3>2. OnePass => Len(corr') = Len(s)
      BY <1>8, <3>1
    <3>3. OnePass => Len(s) # 0
      <4>1. ASSUME OnePass PROVE s = Reverse(OfKind(got, "onePass")) /\ OfKind(got, "onePass") # <<>>
        BY <4>1 DEF OnePass, Signers, s
      <4>2. ASSUME NEW x \in Seq(Packet), x # <<>> PROVE Len(Reverse(x)) # 0
        <5>1. Len(x) \in Nat /\ Len(x) # 0
          BY <4>2
        <5>2. Len(Reverse(x)) = Len(x)
          BY <5>1 DEF Reverse
        <5> QED BY <5>1, <5>2
      <4> QED BY <1>7, <4>1, <4>2
    <3>4. DOMAIN verified' = DOMAIN s
      BY <2>1
    <3>5. matcher' = "match" => \E k \in 0..(Len(corr') - 1) :
             (\A i \in DOMAIN corr' : corr'[i] = Pending <=> i > k) /\ Ahead(k)'
      <4> SUFFICES ASSUME matcher' = "match"
                   PROVE  \E k \in 0..(Len(corr') - 1) : (\A i \in DOMAIN corr' : corr'[i] = Pending <=> i > k) /\ Ahead(k)'
        OBVIOUS
      <4>1. OnePass
        BY <2>1
      <4>2. 0 \in 0..(Len(corr') - 1)
        BY <1>8, <3>2, <3>3, <4>1
      <4>3. \A i \in DOMAIN corr' : corr'[i] = Pending <=> i > 0
        BY <3>1, <4>1
      <4>4. Ahead(0)'
        BY <1>2, <1>3, <1>4 DEF Ahead
      <4> QED BY <4>2, <4>3, <4>4, Zenon
    <3>6. \A i \in DOMAIN corr' : corr'[i].kind # "signature"
      <4>1. Pending.kind # "signature"
        BY DEF Pending
      <4>2. CASE OnePass
        BY <3>1, <4>1, <4>2
      <4>3. CASE ~OnePass
        BY <2>1, <4>3
      <4> QED BY <4>2, <4>3
    <3>7. matcher' # "off" => OnePass
      BY <2>1
    <3>8. s = Signers(got)'
      BY <1>3 DEF s
    <3> QED BY <1>3, <2>1, <3>2, <3>4, <3>5, <3>6, <3>7, <3>8, Zenon DEF Matching
  <2> QED BY <1>9, <2>3, <2>4, <2>5, <2>6, <2>7 DEF Inv, IInv
<1> QED BY <1>10, <1>11

----------------------------------------------------------------------------
(* The matcher.                                                            *)

LEMMA UnmatchedFacts ==
  ASSUME corr \in Seq(Matched), NEW k \in 0..(Len(corr) - 1),
         \A i \in DOMAIN corr : corr[i] = Pending <=> i > k
  PROVE  Unmatched = k + 1 /\ k + 1 \in DOMAIN corr /\ k \in Nat
<1>0. k \in Nat /\ DOMAIN corr = 1..Len(corr) /\ k + 1 \in 1..Len(corr)
  OBVIOUS
<1> DEFINE Is(i) == corr[i] = Pending /\ \A j \in 1..(i - 1) : corr[j] # Pending
<1>1. Is(k + 1)
  <2>1. \A j \in 1..((k + 1) - 1) : j \in DOMAIN corr /\ ~(j > k)
    BY <1>0
  <2>2. k + 1 > k
    BY <1>0
  <2> QED BY <1>0, <2>1, <2>2
<1>2. ASSUME NEW i \in DOMAIN corr, Is(i) PROVE i = k + 1
  <2>1. i \in Nat /\ i > k
    BY <1>0, <1>2
  <2>2. ~(i > k + 1)
    <3>1. ASSUME i > k + 1 PROVE FALSE
      <4>1. k + 1 \in 1..(i - 1)
        BY <1>0, <2>1, <3>1
      <4> QED BY <1>1, <1>2, <4>1
    <3> QED BY <3>1
  <2> QED BY <1>0, <2>1, <2>2
<1> HIDE DEF Is
<1>3. Unmatched = CHOOSE i \in DOMAIN corr : Is(i)
  BY DEF Unmatched, Is
<1> QED BY <1>0, <1>1, <1>2, <1>3

\* What the matcher, and the link after it, take from the list.
LEMMA TakenKeeps ==
  ASSUME Inv, caller = "returned", list' = Taken(list) \/ list' = list,
         UNCHANGED <<message, pos, parser, sent, done, callback, lit, caller, got, delivered, link, data, hashed, verified>>
  PROVE  ParserAt' /\ Chunks' /\ Linked' /\ Got' /\ Fulfilled' /\ list' \in Streams(Sent) /\ Len(list'.queue) =< 1
<1>1. Types /\ ParserAt /\ Chunks /\ Linked /\ Got /\ Fulfilled
  BY DEF Inv, IInv
<1>2. /\ Leading' = Leading /\ Total' = Total /\ Before' = Before /\ After' = After
      /\ ReadBefore' = ReadBefore /\ ReadAfter' = ReadAfter
  BY Frame
<1>3. list \in Streams(Sent) /\ Len(list.queue) \in {0, 1}
  BY StateFacts
<1>4. Parsed /\ callback \notin {"none", "parse"}
  BY <1>1 DEF Linked, Parsed
<1>5. list' \in Streams(Sent) /\ list'.state = list.state /\ (list'.queue = <<>> \/ list'.queue = list.queue)
  BY <1>3, StreamEnds
<1>6. Len(list'.queue) =< 1
  <2>1. Len(<<>>) = 0
    OBVIOUS
  <2>2. Len(list'.queue) = 0 \/ Len(list'.queue) = 1
    BY <1>3, <1>5, <2>1, Zenon
  <2> QED BY <2>2, AtMostOne, Zenon
<1>7. ParserAt'
  BY <1>1, <1>2, <1>5 DEF ParserAt
<1>8. Chunks'
  BY <1>1, <1>4 DEF Chunks, Parsed
<1>9. Linked'
  BY <1>1 DEF Linked, Parsed
<1>10. Got'
  BY <1>1, <1>2, <1>4, <1>5 DEF Got, Parsed
<1>11. Fulfilled'
  BY <1>1, FulfilledFrame
<1> QED BY <1>5, <1>6, <1>7, <1>8, <1>9, <1>10, <1>11

LEMMA MatchNextKeeps ==
  ASSUME Inv, MatchNext
  PROVE  Inv'
<1> USE DEF linkVars, parserVars, callerVars
<1>1. Types /\ Matching
  BY DEF Inv, IInv
<1> DEFINE x == IF Has(list) THEN list.queue[1] ELSE Missing
<1>2. /\ matcher = "match"
      /\ Has(list) \/ AtEnd(list)
      /\ corr' = [corr EXCEPT ![Unmatched] = x]
      /\ list' = IF Has(list) THEN Taken(list) ELSE list
      /\ matcher' = IF Unmatched = Len(corr) THEN "drain" ELSE "match"
      /\ UNCHANGED <<message, pos, parser, sent, done, callback, lit, caller, got, link, delivered, data, hashed, verified>>
  BY DEF MatchNext
<1>3. /\ After' = After /\ ReadAfter' = ReadAfter /\ (OnePass' <=> OnePass) /\ Signers(got)' = Signers(got)
      /\ Total' = Total
  BY <1>2, Frame
<1>4. caller = "returned" /\ OnePass /\ Len(corr) = Len(Signers(got)) /\ DOMAIN verified = DOMAIN Signers(got)
  BY <1>1, <1>2 DEF Matching
<1>5. ParserAt' /\ Chunks' /\ Linked' /\ Got' /\ Fulfilled' /\ list' \in Streams(Sent) /\ Len(list'.queue) =< 1
  <2>1. list' = Taken(list) \/ list' = list
    BY <1>2
  <2> QED BY <1>2, <1>4, <2>1, TakenKeeps
<1>6. PICK k \in 0..(Len(corr) - 1) : (\A i \in DOMAIN corr : corr[i] = Pending <=> i > k) /\ Ahead(k)
  BY <1>1, <1>2 DEF Matching
<1>7. corr \in Seq(Matched) /\ DOMAIN corr = 1..Len(corr)
  BY <1>1 DEF Types
<1>8. Unmatched = k + 1 /\ k + 1 \in DOMAIN corr /\ k \in Nat
  BY <1>6, <1>7, UnmatchedFacts
<1>9. x \in Matched /\ x # Pending
  BY StateFacts, SentFacts DEF Has
<1>10. /\ corr' \in Seq(Matched) /\ DOMAIN corr' = DOMAIN corr /\ Len(corr') = Len(corr)
       /\ \A i \in DOMAIN corr : corr'[i] = IF i = k + 1 THEN x ELSE corr[i]
  <2> HIDE DEF x
  <2>1. k + 1 \in 1..Len(corr) /\ corr' = [corr EXCEPT ![k + 1] = x]
    BY <1>2, <1>7, <1>8
  <2>2. corr' \in Seq(Matched) /\ Len(corr') = Len(corr) /\ \A j \in 1..Len(corr) : corr'[j] = IF j = k + 1 THEN x ELSE corr[j]
    BY <1>7, <1>9, <2>1, ExceptSeq
  <2>3. DOMAIN corr' = DOMAIN corr
    BY <2>1
  <2> QED BY <1>7, <2>2, <2>3
<1>11. Has(list) => k + 1 = Len(ReadAfter) /\ x = After[k + 1] /\ list'.queue = <<>>
  <2> SUFFICES ASSUME Has(list) PROVE k + 1 = Len(ReadAfter) /\ x = After[k + 1] /\ list'.queue = <<>>
    OBVIOUS
  <2>1. list.state = "open" /\ list.queue # <<>> /\ list \in Streams(Sent) /\ Len(list.queue) = 1
    <3>1. list.queue # <<>>
      BY DEF Has
    <3> QED BY <3>1, StateFacts DEF Inv, IInv, ParserAt
  <2>2. k + Len(list.queue) = Len(ReadAfter) /\ list.queue[1] = After[k + 1]
    BY <1>6, <2>1 DEF Ahead
  <2>3. list'.queue = <<>>
    BY <1>2, <2>1, StreamEnds
  <2>4. k + 1 = Len(ReadAfter)
    BY <2>1, <2>2, Zenon
  <2> QED BY <2>2, <2>3, <2>4
<1>12. Ahead(k + 1)'
  <2>1. CASE Has(list)
    <3>1. list'.queue = <<>> /\ k + 1 = Len(ReadAfter)
      BY <1>11, <2>1
    <3>2. (k + 1) + Len(list'.queue) = Len(ReadAfter')
      <4>1. Len(list'.queue) = 0
        BY <3>1
      <4> QED BY <1>3, <1>8, <3>1, <4>1
    <3> QED BY <3>1, <3>2 DEF Ahead
  <2>2. CASE ~Has(list)
    <3>1. list'.state = "closed"
      BY <1>2, <2>2 DEF AtEnd
    <3> QED BY <3>1 DEF Ahead
  <2> QED BY <2>1, <2>2
<1>13. Has(list) => k + 1 =< Len(After)
  <2> SUFFICES ASSUME Has(list) PROVE k + 1 =< Len(After)
    OBVIOUS
  <2>1. message.after \in Seq(Packet) /\ pos \in Nat /\ pos =< Total /\ Leading \in Nat
    BY StateFacts, MessageFacts
  <2>2. pos - Leading - 1 \in 0..Len(message.after)
    <3>1. PICK n \in Nat : n = Len(message.after)
      BY <2>1
    <3>2. Total = Leading + 1 + n
      BY <3>1, StateFacts, MessageFacts DEF Total, Leading
    <3>3. pos > Leading
      <4>1. callback # "none"
        BY <1>4 DEF Inv, IInv, Linked, Parsed
      <4>2. ~(pos =< Leading)
        BY <4>1 DEF Inv, IInv, ParserAt
      <4> QED BY <2>1, <4>2
    <3>4. pos - Leading - 1 \in 0..n
      BY <2>1, <3>2, <3>3
    <3> QED BY <3>1, <3>4
  <2>3. Begins(ReadAfter, After)
    <3>1. message.after \in Seq(Records)
      BY StateFacts, MessageFacts
    <3> QED BY <2>2, <3>1, KeptBegins DEF ReadAfter, After, Unmarked
  <2>4. Len(ReadAfter) =< Len(After)
    BY <2>3 DEF Begins
  <2> QED BY <1>11, <2>4
<1>14. matcher' \in {"match", "drain"} /\ (matcher' = "match" => k + 1 # Len(corr))
  BY <1>2, <1>8
<1>15. Types'
  <2>1. UNCHANGED <<message, pos, parser, sent, done, callback, lit, caller, got, link, delivered, data, hashed, verified>>
    BY <1>2
  <2>2. corr' \in Seq(Matched)
    BY <1>10
  <2>3. list' \in [state : {"open", "closed", "errored"}, queue : Seq(Sent)] /\ Len(list'.queue) =< 1
    BY <1>5 DEF Streams
  <2>4. matcher' \in {"off", "match", "drain", "closed", "errored"}
    BY <1>14
  <2>5. Total' = Total
    BY <1>3
  <2> HIDE DEF x
  <2> QED BY <1>1, <2>1, <2>2, <2>3, <2>4, <2>5 DEF Types
<1>16. matcher' = "match" => \E j \in 0..(Len(corr') - 1) : (\A i \in DOMAIN corr' : corr'[i] = Pending <=> i > j) /\ Ahead(j)'
  <2> SUFFICES ASSUME matcher' = "match"
               PROVE  \E j \in 0..(Len(corr') - 1) : (\A i \in DOMAIN corr' : corr'[i] = Pending <=> i > j) /\ Ahead(j)'
    OBVIOUS
  <2> HIDE DEF x
  <2>1. k + 1 \in 0..(Len(corr') - 1)
    <3>1. PICK n \in Nat : n = Len(corr)
      <4>1. Len(corr) \in Nat
        BY <1>7, LenProperties
      <4> QED BY <4>1, Zenon
    <3>2. k + 1 \in 1..n /\ k + 1 # n
      BY <1>7, <1>8, <1>14, <3>1, Zenon
    <3>3. k + 1 \in 0..(n - 1)
      BY <1>8, <3>1, <3>2
    <3>4. Len(corr') = n
      BY <1>10, <3>1, Zenon
    <3> QED BY <3>3, <3>4, Zenon
  <2>2. ASSUME NEW i \in DOMAIN corr' PROVE corr'[i] = Pending <=> i > k + 1
    <3>1. i \in DOMAIN corr /\ i \in Nat
      BY <1>7, <1>10
    <3>2. CASE i = k + 1
      BY <1>8, <1>9, <1>10, <3>1, <3>2
    <3>3. CASE i # k + 1
      <4>1. corr'[i] = corr[i] /\ (corr[i] = Pending <=> i > k)
        BY <1>6, <1>10, <3>1, <3>3
      <4>2. i > k <=> i > k + 1
        BY <1>8, <3>1, <3>3
      <4> QED BY <4>1, <4>2
    <3> QED BY <3>2, <3>3
  <2> QED BY <1>12, <2>1, <2>2, Zenon
<1>17. ASSUME NEW i \in DOMAIN corr', corr'[i].kind = "signature"
       PROVE  i =< Len(After) /\ corr'[i] = After[i]
  <2>1. CASE i = k + 1
    <3>1. corr'[i] = x
      BY <1>10, <2>1
    <3>2. Has(list)
      <4>1. Missing.kind # "signature"
        BY DEF Missing
      <4> QED BY <1>17, <3>1, <4>1
    <3> QED BY <1>11, <1>13, <2>1, <3>1, <3>2
  <2>2. CASE i # k + 1
    <3>1. i \in DOMAIN corr /\ corr'[i] = corr[i]
      BY <1>10, <2>2
    <3> QED BY <1>1, <1>4, <1>17, <3>1 DEF Matching
  <2> QED BY <2>1, <2>2
<1>18. Matching'
  <2>1. caller' = "returned" /\ UNCHANGED verified
    BY <1>2, <1>4
  <2> QED BY <1>3, <1>4, <1>10, <1>16, <1>17, <2>1, Zenon DEF Matching
<1> QED BY <1>5, <1>15, <1>18 DEF Inv, IInv

LEMMA DrainKeeps ==
  ASSUME Inv, Drain
  PROVE  Inv'
<1> USE DEF linkVars, parserVars, callerVars
<1>1. Types /\ Matching
  BY DEF Inv, IInv
<1>2. /\ matcher = "drain" /\ matcher' \in {"drain", "closed"}
      /\ list' = Taken(list) \/ list' = list
      /\ UNCHANGED <<message, pos, parser, sent, done, callback, lit, caller, got, corr, link, delivered, data, hashed, verified>>
  BY DEF Drain
<1>3. After' = After /\ (OnePass' <=> OnePass) /\ Signers(got)' = Signers(got) /\ Total' = Total
  BY <1>2, Frame
<1>4. caller = "returned" /\ OnePass
  BY <1>1, <1>2 DEF Matching
<1>5. ParserAt' /\ Chunks' /\ Linked' /\ Got' /\ Fulfilled' /\ list' \in Streams(Sent) /\ Len(list'.queue) =< 1
  BY <1>2, <1>4, TakenKeeps
<1>6. Types'
  BY <1>1, <1>2, <1>3, <1>5 DEF Types, Streams
<1>7. Matching'
  BY <1>1, <1>2, <1>3, <1>4 DEF Matching
<1> QED BY <1>5, <1>6, <1>7 DEF Inv, IInv

LEMMA MatcherCatchesKeeps ==
  ASSUME Inv, MatcherCatches
  PROVE  Inv'
<1> USE DEF linkVars, parserVars, callerVars
<1>1. Types /\ ParserAt /\ Chunks /\ Linked /\ Got /\ Matching /\ Fulfilled
  BY DEF Inv, IInv
<1>2. /\ matcher \in {"match", "drain"} /\ matcher' = "errored" /\ corr' = Rejected
      /\ UNCHANGED <<message, pos, parser, sent, done, callback, lit, list, caller, got, link, delivered, data, hashed, verified>>
  BY DEF MatcherCatches
<1>3. /\ Leading' = Leading /\ Total' = Total /\ Before' = Before /\ After' = After
      /\ ReadBefore' = ReadBefore /\ ReadAfter' = ReadAfter
      /\ (OnePass' <=> OnePass) /\ Signers(got)' = Signers(got)
  BY <1>2, Frame
<1>4. caller = "returned" /\ OnePass /\ Len(corr) = Len(Signers(got))
  BY <1>1, <1>2 DEF Matching
<1>5. corr \in Seq(Matched) /\ DOMAIN corr = 1..Len(corr) /\ Failure \in Matched
  BY <1>1, SentFacts DEF Types
<1>6. /\ corr' \in Seq(Matched) /\ Len(corr') = Len(corr) /\ DOMAIN corr' = DOMAIN corr
      /\ \A i \in DOMAIN corr : corr'[i] = IF corr[i] = Pending THEN Failure ELSE corr[i]
  <2>1. corr' = [i \in 1..Len(corr) |-> IF corr[i] = Pending THEN Failure ELSE corr[i]]
    BY <1>2, <1>5 DEF Rejected
  <2>2. \A i \in 1..Len(corr) : (IF corr[i] = Pending THEN Failure ELSE corr[i]) \in Matched
    BY <1>5, ElementOfSeq
  <2>3. Len(corr) \in Nat
    BY <1>5, LenProperties
  <2>4. corr' \in Seq(Matched) /\ Len(corr') = Len(corr)
    BY <2>1, <2>2, <2>3
  <2> QED BY <1>5, <2>1, <2>4
<1>7. Types'
  BY <1>1, <1>2, <1>3, <1>6 DEF Types
<1>8. ParserAt' /\ Chunks' /\ Linked'
  BY <1>1, <1>2, <1>3 DEF ParserAt, Chunks, Linked, Parsed
<1>9. Got'
  BY <1>1, <1>2, <1>3 DEF Got, Parsed
<1>10. Matching'
  <2>1. Failure.kind # "signature"
    BY DEF Failure
  <2>2. \A i \in DOMAIN corr' : corr'[i].kind = "signature" => i =< Len(After) /\ corr'[i] = After[i]
    BY <1>1, <1>4, <1>6, <2>1 DEF Matching
  <2>3. Len(corr') = Len(Signers(got))
    BY <1>4, <1>6
  <2> QED BY <1>1, <1>2, <1>3, <1>4, <2>2, <2>3, Zenon DEF Matching
<1>11. Fulfilled'
  BY <1>1, <1>2, FulfilledFrame
<1> QED BY <1>7, <1>8, <1>9, <1>10, <1>11 DEF Inv, IInv

----------------------------------------------------------------------------
(* The link.                                                               *)

LEMMA PipeKeeps ==
  ASSUME Inv, Pipe
  PROVE  Inv'
<1> USE DEF linkVars, parserVars, callerVars
<1>1. Types /\ ParserAt /\ Chunks /\ Linked /\ Got /\ Matching /\ Fulfilled
  BY DEF Inv, IInv
<1>2. /\ link = "pipe"
      /\ Has(lit) \/ AtEnd(lit) \/ Broken(lit)
      /\ lit' = IF Has(lit) THEN Taken(lit) ELSE lit
      /\ delivered' = IF Has(lit) THEN delivered + 1 ELSE delivered
      /\ hashed' = IF Has(lit) THEN hashed ELSE lit.state
      /\ link' = IF Has(lit) THEN "pipe" ELSE IF AtEnd(lit) THEN "drain" ELSE "stopped"
      /\ data' = IF Broken(lit) THEN "errored" ELSE data
      /\ UNCHANGED <<message, pos, parser, sent, done, callback, list, caller, got, matcher, corr, verified>>
  BY DEF Pipe
<1>3. /\ Leading' = Leading /\ Total' = Total /\ Before' = Before /\ After' = After
      /\ ReadBefore' = ReadBefore /\ ReadAfter' = ReadAfter
  BY <1>2, Frame
<1>4. /\ lit \in Streams(Nat) /\ sent \in Nat /\ delivered \in Nat
      /\ Len(lit.queue) \in {0, 1} /\ (Len(lit.queue) = 0 <=> lit.queue = <<>>)
  BY StateFacts
<1>5. caller = "returned" /\ Parsed /\ hashed = "open" /\ data = "open"
  BY <1>1, <1>2 DEF Linked
<1>6. callback \notin {"none", "parse"}
  BY <1>5 DEF Parsed
<1>7. \A i \in DOMAIN verified : verified[i] # "true"
  BY <1>1, <1>5 DEF Fulfilled, DigestRight
<1>8. Fulfilled'
  BY <1>2, <1>7 DEF Fulfilled
<1>9. ParserAt'
  BY <1>1, <1>2, <1>3 DEF ParserAt
<1>10. Got'
  BY <1>1, <1>2, <1>3 DEF Got, Parsed
<1>11. Matching'
  <2>1. \A k \in Nat : Ahead(k) => Ahead(k)'
    BY <1>2, <1>3 DEF Ahead
  <2> QED BY <1>2, <2>1, MatchingFrame
<1>12. CASE Has(lit)
  <2>1. /\ lit' = Taken(lit) /\ delivered' = delivered + 1 /\ hashed' = "open" /\ link' = "pipe"
        /\ lit.queue # <<>>
    BY <1>2, <1>5, <1>12 DEF Has
  <2>2. lit' \in Streams(Nat) /\ lit'.state = lit.state /\ lit'.queue = <<>>
    BY <1>4, <2>1, StreamEnds
  <2>3. Len(lit.queue) = 1 /\ Len(lit'.queue) = 0
    <3>1. Len(lit'.queue) = 0
      BY <2>2
    <3> QED BY <1>4, <2>1, <3>1, Zenon
  <2>4. lit.state # "errored" /\ data' = "open"
    BY <1>1, <1>2, <1>5, <2>1 DEF Chunks, Broken
  <2>5. sent = 1 + delivered + 1
    BY <1>1, <1>5, <2>3, <2>4 DEF Chunks
  <2>6. Types'
    <3>1. Len(lit'.queue) =< 1 /\ delivered' \in Nat
      BY <1>4, <2>1, <2>3
    <3> QED BY <1>1, <1>2, <1>3, <2>1, <2>2, <2>4, <3>1 DEF Types, Streams
  <2>7. Chunks'
    <3>1. sent = 1 + delivered' + 0 /\ delivered' + 0 =< sent
      BY <1>4, <2>1, <2>5
    <3> QED BY <1>1, <1>2, <1>6, <2>2, <2>3, <3>1 DEF Chunks, Parsed
  <2>8. Linked'
    BY <1>1, <1>2, <1>5, <2>1, <2>4 DEF Linked, Parsed
  <2> QED BY <1>8, <1>9, <1>10, <1>11, <2>6, <2>7, <2>8 DEF Inv, IInv
<1>13. CASE ~Has(lit)
  <2>1. /\ lit' = lit /\ delivered' = delivered /\ hashed' = lit.state
        /\ link' = IF AtEnd(lit) THEN "drain" ELSE "stopped"
        /\ lit.queue = <<>> /\ data' \in {"errored", "open"}
        /\ lit.state \in {"closed", "errored"} /\ (AtEnd(lit) => lit.state = "closed")
    BY <1>2, <1>5, <1>13 DEF Has, AtEnd, Broken
  <2>2. Types'
    BY <1>1, <1>2, <1>3, <2>1 DEF Types
  <2>3. Chunks'
    BY <1>1, <1>2, <2>1 DEF Chunks, Parsed
  <2>4. Linked'
    BY <1>1, <1>2, <1>5, <2>1 DEF Linked, Parsed
  <2> QED BY <1>8, <1>9, <1>10, <1>11, <2>2, <2>3, <2>4 DEF Inv, IInv
<1> QED BY <1>12, <1>13

LEMMA DrainLinkKeeps ==
  ASSUME Inv, DrainLink
  PROVE  Inv'
<1> USE DEF linkVars, parserVars, callerVars
<1>1. Types /\ ParserAt /\ Chunks /\ Linked /\ Got /\ Matching /\ Fulfilled
  BY DEF Inv, IInv
<1>2. /\ link = "drain"
      /\ UNCHANGED <<message, pos, parser, sent, done, callback, lit, caller, got, matcher, corr, delivered, hashed, verified>>
  BY DEF DrainLink
<1>3. /\ Leading' = Leading /\ Total' = Total /\ Before' = Before /\ After' = After
      /\ ReadBefore' = ReadBefore /\ ReadAfter' = ReadAfter
      /\ (OnePass' <=> OnePass) /\ Signers(got)' = Signers(got)
  BY <1>2, Frame
<1>4. caller = "returned" /\ hashed = "closed"
  BY <1>1, <1>2 DEF Linked
<1>5. Fulfilled'
  BY <1>1, <1>2, FulfilledFrame
<1>6. CASE LinkSource \in {"closed", "errored"} /\ data' = LinkSource /\ link' = "stopped" /\ list' = list
  <2>1. Types'
    BY <1>1, <1>2, <1>3, <1>6 DEF Types
  <2>2. ParserAt' /\ Chunks'
    BY <1>1, <1>2, <1>3, <1>6 DEF ParserAt, Chunks, Parsed
  <2>3. Linked'
    BY <1>1, <1>2, <1>4, <1>6 DEF Linked, Parsed
  <2>4. Got'
    BY <1>1, <1>2, <1>3, <1>6 DEF Got, Parsed
  <2>5. Matching'
    <3>1. \A k \in Nat : Ahead(k) => Ahead(k)'
      BY <1>2, <1>3, <1>6 DEF Ahead
    <3> QED BY <1>2, <3>1, MatchingFrame
  <2> QED BY <1>5, <2>1, <2>2, <2>3, <2>4, <2>5 DEF Inv, IInv
<1>7. CASE ~message.nested /\ ~OnePass /\ Has(list) /\ list' = Taken(list) /\ UNCHANGED <<data, link>>
  <2>1. ParserAt' /\ Chunks' /\ Linked' /\ Got' /\ Fulfilled' /\ list' \in Streams(Sent) /\ Len(list'.queue) =< 1
    BY <1>2, <1>4, <1>7, TakenKeeps
  <2>2. Types'
    BY <1>1, <1>2, <1>3, <1>7, <2>1 DEF Types, Streams
  <2>3. matcher = "off"
    BY <1>1, <1>7 DEF Matching
  <2>4. Matching'
    BY <1>1, <1>2, <1>3, <1>4, <2>3 DEF Matching
  <2> QED BY <2>1, <2>2, <2>4 DEF Inv, IInv
<1> QED BY <1>6, <1>7 DEF DrainLink

----------------------------------------------------------------------------
(* The promises.                                                           *)

\* A promise is fulfilled only for the signature packet of its signer.
LEMMA VerdictRight ==
  ASSUME Inv, NEW i \in DOMAIN verified, Verdict(i) = "true"
  PROVE  DigestRight /\ Signed(i)
<1> DEFINE s == Signers(got)
           sigs == OfKind(message.before, "signature")
           ones == OfKind(message.before, "onePass")
<1>1. Types /\ Linked /\ Got /\ Matching
  BY DEF Inv, IInv
<1>2. caller = "returned"
  BY <1>1 DEF Matching
<1>3. i \in DOMAIN s /\ message.before \in Seq(Packet) /\ got = Append(Unmarked(message.before), Literal)
  BY <1>1, <1>2, StateFacts, MessageFacts DEF Matching, Got, Before
<1>4. /\ OfKind(got, "signature") = sigs /\ OfKind(got, "onePass") = ones
      /\ sigs \in Seq(Packet) /\ ones \in Seq(Packet) /\ s \in Seq(Packet)
      /\ \A j \in 1..Len(sigs) : sigs[j].kind = "signature"
  BY <1>3, SignersFacts
<1>5. /\ s[i].issuer \in Known /\ DigestRight /\ SignatureOf(i).good /\ SignatureOf(i) # Pending
      /\ OnePass => Matches(s[i], SignatureOf(i))
  BY DEF Verdict
<1>6. CASE sigs # <<>>
  <2>1. ~OnePass /\ s = sigs
    BY <1>4, <1>6 DEF OnePass, Signers
  <2>2. SignatureOf(i) = sigs[i] /\ sigs[i].kind = "signature" /\ i \in DOMAIN sigs
    BY <1>3, <1>4, <2>1 DEF SignatureOf
  <2> QED BY <1>5, <1>6, <2>1, <2>2 DEF Signed
<1>7. CASE sigs = <<>>
  <2>1. s = Reverse(ones)
    BY <1>4, <1>7 DEF Signers
  <2>2. OnePass
    <3>1. ones # <<>>
      <4>1. ASSUME ones = <<>> PROVE FALSE
        <5>1. DOMAIN Reverse(<<>>) = {}
          BY DEF Reverse
        <5> QED BY <1>3, <2>1, <4>1, <5>1
      <4> QED BY <4>1
    <3> QED BY <1>4, <1>7, <3>1 DEF OnePass
  <2>3. SignatureOf(i) = corr[i] /\ Len(corr) = Len(s) /\ corr \in Seq(Matched)
    BY <1>1, <1>2, <2>2 DEF SignatureOf, Matching, Types
  <2>4. i \in DOMAIN corr
    BY <1>3, <1>4, <2>3
  <2>5. corr[i].kind = "signature" /\ corr[i].issuer \in Known /\ corr[i].good
    BY <1>5, <2>2, <2>3 DEF Matches
  <2>6. i =< Len(After) /\ corr[i] = After[i]
    BY <1>1, <1>2, <2>4, <2>5 DEF Matching
  <2>7. i \in DOMAIN After
    <3>1. After \in Seq(Packet)
      BY StateFacts, MessageFacts, UnmarkedFacts DEF After
    <3>2. i \in 1..Len(corr)
      BY <2>3, <2>4
    <3> QED BY <2>6, <3>1, <3>2
  <2> QED BY <1>5, <1>7, <2>5, <2>6, <2>7 DEF Signed
<1> QED BY <1>6, <1>7

LEMMA SettleKeeps ==
  ASSUME Inv, NEW i \in DOMAIN verified, Settle(i)
  PROVE  Inv'
<1> USE DEF linkVars, parserVars, callerVars
<1>1. Types /\ ParserAt /\ Chunks /\ Linked /\ Got /\ Matching /\ Fulfilled
  BY DEF Inv, IInv
<1>2. /\ verified' = [verified EXCEPT ![i] = Verdict(i)] /\ Verdict(i) # "pending"
      /\ UNCHANGED <<message, pos, parser, sent, done, callback, lit, list, caller, got, matcher, corr, link, delivered, data, hashed>>
  BY DEF Settle
<1>3. /\ Leading' = Leading /\ Total' = Total /\ Before' = Before /\ After' = After
      /\ ReadBefore' = ReadBefore /\ ReadAfter' = ReadAfter
      /\ (OnePass' <=> OnePass) /\ Signers(got)' = Signers(got)
      /\ \A j : Signed(j)' <=> Signed(j)
  BY <1>2, Frame
<1>4. Verdict(i) \in {"true", "rejected"}
  BY <1>2 DEF Verdict
<1>5. DOMAIN verified' = DOMAIN verified /\ \A j \in DOMAIN verified : verified'[j] = IF j = i THEN Verdict(i) ELSE verified[j]
  BY <1>2
<1>6. Types'
  BY <1>1, <1>2, <1>3, <1>4, <1>5 DEF Types
<1>7. ParserAt' /\ Chunks' /\ Linked'
  BY <1>1, <1>2, <1>3 DEF ParserAt, Chunks, Linked, Parsed
<1>8. Got'
  BY <1>1, <1>2, <1>3 DEF Got, Parsed
<1>9. Matching'
  <2>1. caller = "returned"
    BY <1>1 DEF Matching
  <2>2. \A k \in Nat : Ahead(k) <=> Ahead(k)'
    BY <1>2, <1>3 DEF Ahead
  <2>3. DOMAIN verified' = DOMAIN Signers(got)
    BY <1>1, <1>5, <2>1 DEF Matching
  <2>4. matcher = "match" => \E k \in 0..(Len(corr) - 1) : (\A j \in DOMAIN corr : corr[j] = Pending <=> j > k) /\ Ahead(k)'
    <3> SUFFICES ASSUME matcher = "match"
                 PROVE  \E k \in 0..(Len(corr) - 1) : (\A j \in DOMAIN corr : corr[j] = Pending <=> j > k) /\ Ahead(k)'
      OBVIOUS
    <3>1. PICK k \in 0..(Len(corr) - 1) : (\A j \in DOMAIN corr : corr[j] = Pending <=> j > k) /\ Ahead(k)
      BY <1>1 DEF Matching
    <3>2. Ahead(k)'
      BY <2>2, <3>1
    <3> QED BY <3>1, <3>2, Zenon
  <2>5. UNCHANGED <<caller, matcher, corr>>
    BY <1>2
  <2> QED BY <1>1, <1>3, <2>1, <2>3, <2>4, <2>5, Zenon DEF Matching
<1>10. Fulfilled'
  <2>1. DigestRight' <=> DigestRight
    BY <1>2 DEF DigestRight, Whole
  <2>2. ASSUME NEW j \in DOMAIN verified', verified'[j] = "true" PROVE DigestRight /\ Signed(j)
    <3>1. CASE j = i
      BY <1>5, <2>2, <3>1, VerdictRight
    <3>2. CASE j # i
      BY <1>1, <1>5, <2>2, <3>2 DEF Fulfilled
    <3> QED BY <3>1, <3>2
  <2> QED BY <1>3, <2>1, <2>2 DEF Fulfilled
<1> QED BY <1>6, <1>7, <1>8, <1>9, <1>10 DEF Inv, IInv

----------------------------------------------------------------------------
(* The theorems.                                                           *)

LEMMA StutterKeeps ==
  ASSUME Inv, UNCHANGED vars
  PROVE  Inv'
<1> USE DEF vars, parserVars, callerVars, linkVars
<1>1. /\ Types /\ ParserAt /\ Chunks /\ Linked /\ Got /\ Matching /\ Fulfilled
  BY DEF Inv, IInv
<1>2. /\ UNCHANGED <<message, pos, parser, sent, done, callback, lit, list, caller, got>>
      /\ UNCHANGED <<matcher, corr, link, delivered, data, hashed, verified>>
  OBVIOUS
<1>3. /\ Leading' = Leading /\ Total' = Total /\ Before' = Before /\ After' = After
      /\ ReadBefore' = ReadBefore /\ ReadAfter' = ReadAfter
  BY <1>2, Frame
<1>4. Types' /\ ParserAt' /\ Chunks' /\ Linked'
  BY <1>1, <1>2, <1>3 DEF Types, ParserAt, Chunks, Linked, Parsed
<1>5. Got'
  BY <1>1, <1>2, <1>3 DEF Got, Parsed
<1>6. Matching'
  <2>1. \A k \in Nat : Ahead(k) => Ahead(k)'
    BY <1>2, <1>3 DEF Ahead
  <2> QED BY <1>2, <2>1, MatchingFrame
<1>7. Fulfilled'
  BY <1>1, <1>2, FulfilledFrame
<1> QED BY <1>4, <1>5, <1>6, <1>7 DEF Inv, IInv

\* Where the chunks and the packets are stays consistent, however the parser,
\* its callback, the caller, the matcher and the link run ahead of each other.
THEOREM InvariantHolds == Spec => []Inv
<1>1. Inv /\ [Next]_vars => Inv'
  <2> SUFFICES ASSUME Inv, [Next]_vars PROVE Inv'
    OBVIOUS
  <2>1. CASE Parser
    BY <2>1, ReadHeaderKeeps, PacketWrittenKeeps, NextPacketKeeps, WriteChunkKeeps, EndBodyKeeps, AwaitCallbackKeeps, Zenon DEF Parser
  <2>2. CASE Callback
    BY <2>2, ParseLiteralKeeps, LiteralWrittenKeeps, Zenon DEF Callback
  <2>3. CASE Caller
    BY <2>3, ReadFirstKeeps, VerifyKeeps, Zenon DEF Caller
  <2>4. CASE Matcher
    BY <2>4, MatchNextKeeps, DrainKeeps, MatcherCatchesKeeps, Zenon DEF Matcher
  <2>5. CASE Link
    BY <2>5, PipeKeeps, DrainLinkKeeps, Zenon DEF Link
  <2>6. CASE Promises
    BY <2>6, SettleKeeps, Zenon DEF Promises
  <2>7. CASE UNCHANGED vars
    BY <2>7, StutterKeeps, Zenon
  <2> QED BY <2>1, <2>2, <2>3, <2>4, <2>5, <2>6, <2>7, Zenon DEF Next
<1> QED BY <1>1, InitInvariant, PTL DEF Spec

\* The copy of the data that is hashed ends only after all chunks that arrive.
LEMMA HashedWhole ==
  ASSUME Inv, hashed = "closed"
  PROVE  delivered = message.body - 1 /\ ~message.fails /\ message.cut # "inside"
<1>1. Chunks /\ Linked /\ Types
  BY DEF Inv, IInv
<1>2. lit.state = "closed" /\ lit.queue = <<>>
  BY <1>1 DEF Linked
<1>3. link \notin {"off", "pipe"}
  BY <1>1, Zenon DEF Linked
<1>4. Parsed
  BY <1>1, <1>3 DEF Linked
<1>5. sent = message.body /\ ~message.fails /\ message.cut # "inside"
  BY <1>1, <1>2 DEF Chunks
<1>6. sent = 1 + delivered + Len(lit.queue) /\ Len(lit.queue) = 0
  BY <1>1, <1>2, <1>4, StateFacts DEF Chunks
<1> QED BY <1>5, <1>6, StateFacts

LEMMA TypesOK ==
  ASSUME Inv
  PROVE  TypeOK
<1>1. Types /\ Chunks
  BY DEF Inv, IInv
<1>2. pos \in 0..Len(Packets(message))
  BY <1>1 DEF Types, Total
<1>3. {lit.state, list.state} \subseteq {"open", "closed", "errored"}
  BY <1>1 DEF Types
<1>4. {Len(lit.queue), Len(list.queue)} \subseteq {0, 1}
  BY StateFacts, Zenon
<1>5. delivered \in 0..message.body
  <2>1. PICK n : n = Len(lit.queue)
    BY Zenon
  <2>2. n \in Nat
    BY <2>1, StateFacts
  <2>3. delivered + n =< sent /\ sent \in 0..message.body /\ delivered \in Nat
    BY <1>1, <2>1 DEF Chunks, Types
  <2>4. message.body \in Nat
    BY StateFacts, MessageFacts
  <2> QED BY <2>2, <2>3, <2>4
<1> QED BY <1>1, <1>2, <1>3, <1>4, <1>5 DEF Types, TypeOK

\* The data that linkStreams builds close only when they are all there and
\* the source was read to its end without failing.
THEOREM ClosedDataWhole == Spec => []ClosedMeansWhole
<1>1. Inv => ClosedMeansWhole
  <2> SUFFICES ASSUME Inv PROVE ClosedMeansWhole
    OBVIOUS
  <2>1. ASSUME data = "closed", message.cut # "boundary"
        PROVE  delivered = Whole(message) - 1 /\ ~message.fails
    <3>1. hashed = "closed"
      BY <2>1 DEF Inv, IInv, Linked
    <3>2. delivered = message.body - 1 /\ ~message.fails /\ message.cut # "inside"
      BY <3>1, HashedWhole
    <3>3. message.cut = "none"
      BY <2>1, <3>2, StateFacts, MessageFacts
    <3> QED BY <3>2, <3>3 DEF Whole
  <2> QED BY <2>1, TypesOK DEF ClosedMeansWhole
<1> QED BY <1>1, InvariantHolds, PTL

\* A promise of a signature is fulfilled only for a packet that the sender put
\* in its signer's place, and only over a whole message that passed.
THEOREM OnlyRightVerify == Spec => []VerifiedRight
<1>1. Inv => VerifiedRight
  <2> SUFFICES ASSUME Inv, NEW i \in DOMAIN verified, verified[i] = "true"
               PROVE  LET before == OfKind(message.before, "signature")
                          after  == Unmarked(message.after)
                          sig    == IF before # <<>> THEN before[i] ELSE after[i]
                      IN  /\ sig.kind = "signature" /\ sig.good /\ sig.issuer \in Known
                          /\ message.cut = "none" /\ ~message.fails
                          /\ delivered = message.body - 1
    BY DEF VerifiedRight
  <2>1. DigestRight /\ Signed(i)
    BY DEF Inv, IInv, Fulfilled
  <2>2. delivered = message.body - 1 /\ ~message.fails /\ message.cut # "inside"
    BY <2>1, HashedWhole DEF DigestRight
  <2>3. message.cut # "boundary"
    <3>1. message.body \in Nat
      BY StateFacts, MessageFacts
    <3> QED BY <2>1, <2>2, <3>1 DEF DigestRight, Whole
  <2>4. message.cut = "none"
    BY <2>2, <2>3, StateFacts, MessageFacts
  <2> QED BY <2>1, <2>2, <2>4 DEF Signed, After
<1> QED BY <1>1, InvariantHolds, PTL

\* With expectSigned, data that end for the application are whole and hold a
\* good signature of a known key.
THEOREM ExpectedAreSigned == Spec => []ExpectSignedHolds
<1>1. Inv => ExpectSignedHolds
  <2> SUFFICES ASSUME Inv, message.expectSigned, Result = "closed"
               PROVE  /\ delivered = Whole(message) - 1
                      /\ \E i \in DOMAIN (message.before \o message.after) :
                            LET sig == (message.before \o message.after)[i]
                            IN  sig.kind = "signature" /\ sig.good /\ sig.issuer \in Known
    BY DEF ExpectSignedHolds
  <2> DEFINE b == message.before
             a == message.after
             sigs == OfKind(b, "signature")
             OK(p) == p.kind = "signature" /\ p.good /\ p.issuer \in Known
  <2>1. PICK i \in DOMAIN verified : verified[i] = "true"
    BY DEF Result, AnyVerified
  <2>2. DigestRight /\ Signed(i)
    BY <2>1 DEF Inv, IInv, Fulfilled
  <2>3. PICK s \in {IF sigs # <<>> THEN sigs ELSE After} : i \in DOMAIN s /\ OK(s[i])
    BY <2>2 DEF Signed
  <2>4. b \in Seq(Packet) /\ a \in Seq(Packet)
    BY StateFacts, MessageFacts
  <2>5. /\ sigs \in Seq(Packet)
        /\ \A n \in 1..Len(sigs) : \E j \in 1..Len(b) : b[j] = sigs[n]
    BY <2>4, SignersFacts, ZenonT(40)
  <2>6. /\ After \in Seq(Packet)
        /\ \A n \in 1..Len(After) : \E j \in 1..Len(a) : a[j] = After[n]
    BY <2>4, UnmarkedFacts DEF After
  <2>7. (\E j \in 1..Len(b) : OK(b[j])) \/ (\E j \in 1..Len(a) : OK(a[j]))
    <3>1. CASE s = sigs
      <4>1. i \in 1..Len(sigs)
        BY <2>3, <2>5, <3>1
      <4>2. PICK j \in 1..Len(b) : b[j] = sigs[i]
        BY <2>5, <4>1
      <4> QED BY <2>3, <3>1, <4>2
    <3>2. CASE s = After
      <4>1. i \in 1..Len(After)
        BY <2>3, <2>6, <3>2
      <4>2. PICK j \in 1..Len(a) : a[j] = After[i]
        BY <2>6, <4>1
      <4> QED BY <2>3, <3>2, <4>2
    <3> QED BY <2>3, <3>1, <3>2
  <2> HIDE DEF a, b, OK
  <2>8. /\ b \o a \in Seq(Packet) /\ Len(b \o a) = Len(b) + Len(a)
        /\ \A n \in 1..(Len(b) + Len(a)) : (b \o a)[n] = IF n =< Len(b) THEN b[n] ELSE a[n - Len(b)]
    BY <2>4, ConcatProperties
  <2>9. Len(b) \in Nat /\ Len(a) \in Nat
    BY <2>4
  <2> DEFINE c == b \o a
  <2> HIDE DEF c
  <2>10. \E n \in 1..Len(c) : OK(c[n])
    <3>1. CASE \E j \in 1..Len(b) : OK(b[j])
      <4>1. PICK j \in 1..Len(b) : OK(b[j])
        BY <3>1
      <4>2. j \in 1..(Len(b) + Len(a)) /\ j =< Len(b)
        BY <2>9
      <4>3. c[j] = b[j] /\ j \in 1..Len(c)
        BY <2>8, <4>2 DEF c
      <4> QED BY <4>1, <4>3
    <3>2. CASE \E j \in 1..Len(a) : OK(a[j])
      <4>1. PICK j \in 1..Len(a) : OK(a[j])
        BY <3>2
      <4>2. Len(b) + j \in 1..(Len(b) + Len(a)) /\ ~(Len(b) + j =< Len(b)) /\ (Len(b) + j) - Len(b) = j
        BY <2>9
      <4>3. c[Len(b) + j] = a[j] /\ Len(b) + j \in 1..Len(c)
        BY <2>8, <4>2 DEF c
      <4> QED BY <4>1, <4>3
    <3> QED BY <2>7, <3>1, <3>2
  <2>11. c \in Seq(Packet)
    BY <2>8 DEF c
  <2>12. DOMAIN c = 1..Len(c)
    BY <2>11
  <2>13. \E n \in DOMAIN c : OK(c[n])
    BY <2>10, <2>12
  <2> QED BY <2>2, <2>13 DEF DigestRight, OK, a, b, c
<1> QED BY <1>1, InvariantHolds, PTL

----------------------------------------------------------------------------
(* The end of the message, after the data.                                 *)

Spoiling == {"malformed", "garbage"}

\* What a step must show of the packets read, and of who saw the end of them.
LEMMA TailStep ==
  ASSUME TailRight, message' = message,
         list'.state # "errored" => \A i \in 1..pos' : Packets(message)[i].kind \notin Spoiling,
         done' /\ lit'.state # "errored" => pos' = Total,
         list'.state = "closed" => done',
         list.state = "closed" => list'.state = "closed",
         matcher' = "closed" => matcher = "closed" \/ list.state = "closed",
         link' = "drain" => data' = "open",
         data' = "closed" => data = "closed" \/ IF message.nested THEN message.outer = "closed" ELSE list.state = "closed"
  PROVE  TailRight'
<1>1. Packets(message)' = Packets(message) /\ Total' = Total
  BY DEF Packets, Total
<1>2. matcher' = "closed" => list'.state = "closed"
  BY DEF TailRight
<1>3. data' = "closed" => IF message.nested THEN message.outer = "closed" ELSE list'.state = "closed"
  BY DEF TailRight
<1> QED BY <1>1, <1>2, <1>3, Zenon DEF TailRight, Spoiling

\* The steps that read no packet.
LEMMA TailFrame ==
  ASSUME TailRight, UNCHANGED <<message, pos, done>>,
         \/ list'.state = list.state
         \/ list.state # "closed" /\ list'.state = "errored"
         \/ list.state = "open" /\ list'.state = "closed" /\ done,
         lit'.state # "errored" => lit.state # "errored",
         matcher' = "closed" => matcher = "closed" \/ list.state = "closed",
         link' = "drain" => data' = "open",
         data' = "closed" => data = "closed" \/ IF message.nested THEN message.outer = "closed" ELSE list.state = "closed"
  PROVE  TailRight'
<1>1. message' = message /\ pos' = pos /\ (done' <=> done)
  OBVIOUS
<1>2. list'.state # "errored" => \A i \in 1..pos' : Packets(message)[i].kind \notin Spoiling
  BY <1>1 DEF TailRight, Spoiling
<1>3. done' /\ lit'.state # "errored" => pos' = Total
  BY <1>1 DEF TailRight
<1>4. (list'.state = "closed" => done') /\ (list.state = "closed" => list'.state = "closed")
  BY <1>1 DEF TailRight
<1> QED BY <1>1, <1>2, <1>3, <1>4, TailStep, Zenon

LEMMA ReadHeaderTail ==
  ASSUME Inv, TailRight, ReadHeader
  PROVE  TailRight'
<1> USE DEF callerVars, linkVars
<1>0. /\ Total \in Nat /\ pos \in Nat /\ pos < Total /\ list \in Streams(Sent) /\ list.state # "closed"
  BY StateFacts DEF Inv, IInv, ParserAt, ReadHeader
<1>1. UNCHANGED <<message, matcher, link, data>>
  BY DEF ReadHeader
<1>2. ~(done /\ lit.state # "errored")
  BY <1>0 DEF TailRight
<1>3. CASE Broken(list) \/ Current.kind = "garbage" \/ (Current.kind # "literal" /\ IsLast(pos + 1) /\ message.fails)
  <2>1. list' = Aborted(list) /\ UNCHANGED <<done, lit>>
    BY <1>3 DEF ReadHeader, ParserThrows
  <2>2. list'.state = "errored"
    BY <2>1 DEF Aborted
  <2> QED BY <1>0, <1>1, <1>2, <2>1, <2>2, TailStep DEF TailRight
<1>4. ASSUME ~Broken(list), Current.kind # "garbage", ~(Current.kind # "literal" /\ IsLast(pos + 1) /\ message.fails)
      PROVE  TailRight'
  <2>1. pos' = pos + 1 /\ list.state # "errored"
    BY <1>4 DEF ReadHeader, Broken
  <2>2. list'.state # "closed" /\ (list'.state # "errored" => Current.kind # "malformed")
        /\ lit' = lit /\ (done' => done \/ IsLast(pos + 1))
    <3>1. CASE Current.kind = "literal"
      BY <1>0, <1>4, <3>1 DEF ReadHeader, StartLiteral
    <3>2. CASE Current.kind # "literal"
      <4>1. /\ done' = IsLast(pos + 1) /\ lit' = lit
            /\ \/ Current.kind # "malformed" /\ list' = list
               \/ list' = Aborted(list)
               \/ Current.kind # "malformed" /\ list' = Put(list, Current)
        BY <1>4, <3>2 DEF ReadHeader, ReadPacket
      <4>2. Aborted(list).state = "errored" /\ Put(list, Current).state = list.state
        BY <1>0 DEF Aborted, Put, Streams
      <4> QED BY <1>0, <4>1, <4>2
    <3> QED BY <3>1, <3>2
  <2>3. list'.state # "errored" => \A i \in 1..pos' : Packets(message)[i].kind \notin Spoiling
    <3>1. \A i \in 1..pos' : i \in 1..pos \/ i = pos + 1
      BY <1>0, <2>1
    <3>2. \A i \in 1..pos : Packets(message)[i].kind \notin Spoiling
      BY <2>1 DEF TailRight, Spoiling
    <3>3. Packets(message)[pos + 1] = Current
      BY DEF Current
    <3> QED BY <1>4, <2>2, <3>1, <3>2, <3>3 DEF Spoiling
  <2>4. done' /\ lit'.state # "errored" => pos' = Total
    BY <1>0, <1>2, <2>1, <2>2 DEF IsLast, Total
  <2> QED BY <1>0, <1>1, <2>2, <2>3, <2>4, TailStep DEF TailRight
<1> QED BY <1>3, <1>4

LEMMA ParserTail ==
  ASSUME Inv, TailRight, Parser
  PROVE  TailRight'
<1> USE DEF callerVars, linkVars
<1>0. list \in Streams(Sent) /\ lit \in Streams(Nat) /\ pos \in Nat /\ pos =< Total
  BY StateFacts
<1>1. CASE ReadHeader
  BY <1>1, ReadHeaderTail
<1>2. CASE PacketWritten \/ AwaitCallback
  <2>1. UNCHANGED <<message, pos, done, list, lit, matcher, link, data>>
    BY <1>2 DEF PacketWritten, AwaitCallback
  <2> QED BY <2>1, TailFrame DEF TailRight
<1>3. CASE NextPacket
  <2>1. UNCHANGED <<message, pos, done, lit, matcher, link, data>> /\ list' = IF done THEN Closed(list) ELSE list
    BY <1>3 DEF NextPacket
  <2>2. Closed(list).state = IF list.state = "open" THEN "closed" ELSE list.state
    BY <1>0, StreamEnds
  <2> QED BY <2>1, <2>2, TailFrame DEF TailRight
<1>4. CASE WriteChunk
  <2>1. UNCHANGED <<message, pos, done, list, matcher, link, data>> /\ lit' = Put(lit, sent + 1)
    BY <1>4 DEF WriteChunk
  <2>2. lit'.state = lit.state
    BY <1>0, <2>1 DEF Put, Streams
  <2> QED BY <2>1, <2>2, TailFrame DEF TailRight
<1>5. CASE EndBody
  <2>1. /\ UNCHANGED <<message, pos, list, matcher, link, data>> /\ parser = "body"
        /\ lit' = IF BodyThrows \/ PeekThrows THEN Aborted(lit) ELSE Closed(lit)
        /\ done' = (BodyThrows \/ PeekThrows \/ IsLast(pos))
    BY <1>5 DEF EndBody
  <2>2. list.state # "closed"
    BY <2>1 DEF Inv, IInv, ParserAt
  <2>3. Aborted(lit).state = "errored"
    BY <1>0, StreamEnds
  <2>4. done' /\ lit'.state # "errored" => IsLast(pos)
    BY <2>1, <2>3
  <2>5. done' /\ lit'.state # "errored" => pos' = Total
    <3>1. Total \in Nat
      BY StateFacts
    <3> QED BY <1>0, <2>1, <2>4, <3>1 DEF IsLast, Total
  <2>6. list'.state # "errored" => \A i \in 1..pos' : Packets(message)[i].kind \notin Spoiling
    BY <2>1 DEF TailRight, Spoiling
  <2> QED BY <2>1, <2>2, <2>5, <2>6, TailStep DEF TailRight
<1> QED BY <1>1, <1>2, <1>3, <1>4, <1>5 DEF Parser

LEMMA CallbackTail ==
  ASSUME Inv, TailRight, Callback
  PROVE  TailRight'
<1> USE DEF callerVars, linkVars, parserVars
<1>0. list \in Streams(Sent) /\ lit \in Streams(Nat)
  BY StateFacts
<1>1. CASE ParseLiteral
  <2>1. /\ UNCHANGED <<message, pos, done, matcher, link, data>> /\ callback = "parse"
        /\ \/ list' = Aborted(list) /\ lit' = lit
           \/ list' = Put(list, Literal) /\ lit' = Taken(lit)
    BY <1>1 DEF ParseLiteral
  <2>2. list.state = "open"
    BY <2>1 DEF Inv, IInv, Chunks, EmptyStream
  <2>3. Aborted(list).state = "errored" /\ Put(list, Literal).state = list.state /\ Taken(lit).state = lit.state
    <3>1. Literal \in Sent
      BY SentFacts
    <3>2. Put(list, Literal).state = list.state
      BY <1>0, <3>1, StreamFacts
    <3> QED BY <1>0, <3>2, StreamEnds
  <2> QED BY <2>1, <2>2, <2>3, TailFrame DEF TailRight
<1>2. CASE LiteralWritten
  <2>1. UNCHANGED <<message, pos, done, list, lit, matcher, link, data>>
    BY <1>2 DEF LiteralWritten
  <2> QED BY <2>1, TailFrame DEF TailRight
<1> QED BY <1>1, <1>2 DEF Callback

LEMMA CallerTail ==
  ASSUME Inv, TailRight, Caller
  PROVE  TailRight'
<1> USE DEF callerVars, linkVars, parserVars
<1>0. list \in Streams(Sent)
  BY StateFacts
<1>1. CASE ReadFirst
  <2>1. /\ UNCHANGED <<message, pos, done, lit, matcher, link, data>>
        /\ list' = Taken(list) \/ list' = list
    BY <1>1 DEF ReadFirst
  <2>2. Taken(list).state = list.state
    BY <1>0, StreamEnds
  <2> QED BY <2>1, <2>2, TailFrame DEF TailRight
<1>2. CASE Verify
  <2>1. /\ UNCHANGED <<message, pos, done, lit, list, data>>
        /\ \/ UNCHANGED <<matcher, link>>
           \/ matcher' \in {"match", "off"} /\ link' = "pipe"
    <3>1. \/ UNCHANGED <<matcher, link>>
          \/ matcher' = (IF OnePass THEN "match" ELSE "off") /\ link' = "pipe"
      BY <1>2, Zenon DEF Verify
    <3>2. UNCHANGED <<message, pos, done, lit, list, data>>
      BY <1>2 DEF Verify
    <3> QED BY <3>1, <3>2
  <2> QED BY <2>1, TailFrame DEF TailRight
<1> QED BY <1>1, <1>2 DEF Caller

LEMMA MatcherTail ==
  ASSUME Inv, TailRight, Matcher
  PROVE  TailRight'
<1> USE DEF callerVars, linkVars, parserVars
<1>0. list \in Streams(Sent) /\ Taken(list).state = list.state
  BY StateFacts, StreamEnds
<1>1. UNCHANGED <<message, pos, done, lit, link, data>> /\ (list' = Taken(list) \/ list' = list)
  BY DEF Matcher, MatchNext, Drain, MatcherCatches
<1>2. matcher' = "closed" => list.state = "closed"
  BY DEF Matcher, MatchNext, Drain, MatcherCatches, AtEnd, Has
<1> QED BY <1>0, <1>1, <1>2, TailFrame DEF TailRight

LEMMA LinkTail ==
  ASSUME Inv, TailRight, Link
  PROVE  TailRight'
<1> USE DEF callerVars, linkVars, parserVars
<1>0. list \in Streams(Sent) /\ lit \in Streams(Nat) /\ Taken(list).state = list.state /\ Taken(lit).state = lit.state
  BY StateFacts, StreamEnds
<1>1. CASE Pipe
  <2>1. /\ UNCHANGED <<message, pos, done, list, matcher>> /\ link = "pipe"
        /\ lit' = Taken(lit) \/ lit' = lit
        /\ data' \in {"errored", data}
    BY <1>1 DEF Pipe
  <2>2. data = "open"
    BY <2>1 DEF Inv, IInv, Linked
  <2>3. link' = "drain" => data' = "open"
    BY <1>1, <2>2 DEF Pipe, AtEnd, Broken
  <2> QED BY <1>0, <2>1, <2>2, <2>3, TailFrame
<1>2. CASE DrainLink
  <2>1. /\ UNCHANGED <<message, pos, done, lit, matcher>> /\ link = "drain"
        /\ list' = Taken(list) \/ list' = list
        /\ \/ data' = LinkSource /\ link' = "stopped"
           \/ data' = data /\ link' = link
    BY <1>2 DEF DrainLink
  <2>2. LinkSource = "closed" => IF message.nested THEN message.outer = "closed" ELSE list.state = "closed"
    BY DEF LinkSource, TailRight
  <2>3. data = "open"
    BY <2>1 DEF TailRight
  <2> QED BY <1>0, <2>1, <2>2, <2>3, TailFrame
<1> QED BY <1>1, <1>2 DEF Link

\* Nothing behind the data is lost: no spoilt packet is passed over, and the
\* data close only after the packet stream, whoever reads it to its end.
LEMMA TailHolds == Spec => [](Inv /\ TailRight)
<1>1. Init => TailRight
  <2> SUFFICES ASSUME Init PROVE TailRight
    OBVIOUS
  <2>1. pos = 0 /\ ~done /\ list.state = "open" /\ matcher = "off" /\ link = "off" /\ data = "open"
    BY DEF Init, EmptyStream
  <2>2. 1..pos = {}
    BY <2>1
  <2> QED BY <2>1, <2>2 DEF TailRight
<1>2. Inv /\ TailRight /\ [Next]_vars => TailRight'
  <2> SUFFICES ASSUME Inv, TailRight, [Next]_vars PROVE TailRight'
    OBVIOUS
  <2>1. CASE Promises \/ UNCHANGED vars
    <3>1. UNCHANGED <<message, pos, done, list, lit, matcher, link, data>>
      BY <2>1 DEF Promises, Settle, vars, callerVars, linkVars, parserVars
    <3> QED BY <3>1, TailFrame DEF TailRight
  <2> QED BY <2>1, ParserTail, CallbackTail, CallerTail, MatcherTail, LinkTail, Zenon DEF Next
<1> QED BY <1>1, <1>2, InvariantHolds, PTL DEF Spec

----------------------------------------------------------------------------
(* To the application the pipeline is a SignedStream.                      *)

LEMMA OriginFacts ==
  /\ Origin.size = Whole(message) - 1
  /\ Origin.sound <=> ~message.fails /\ IF message.nested THEN message.outer = "closed" ELSE ~Spoilt(message.after)
  /\ Origin.good = {i \in DOMAIN SignaturesOf(message) :
                      message.cut = "none" /\ ~message.fails /\ Acceptable(SignaturesOf(message)[i])}
  /\ Origin.loose <=> message.cut = "boundary"
  /\ Origin.demanded = message.expectSigned
BY DEF Origin

LEMMA StatusFacts ==
  /\ caller = "returned" => Status = Result
  /\ caller = "rejected" => Status = "refused"
  /\ caller \in {"reading", "verify"} => Status = "idle"
  /\ message' = message => Origin' = Origin
  /\ UNCHANGED <<message, caller, data, verified>> => Status' = Status
<1>1. /\ caller = "returned" => Status = Result
      /\ caller = "rejected" => Status = "refused"
      /\ caller \in {"reading", "verify"} => Status = "idle"
  BY DEF Status
<1>2. message' = message => Origin' = Origin
  BY DEF Origin
<1>3. UNCHANGED <<message, data, verified>> => Result' = Result
  BY DEF Result, AnyVerified
<1>4. UNCHANGED <<message, caller, data, verified>> => Status' = Status
  BY <1>3 DEF Status
<1> QED BY <1>1, <1>2, <1>4

LEMMA StatusNext ==
  /\ caller' = "returned" => Status' = Result'
  /\ caller' = "rejected" => Status' = "refused"
  /\ caller' \in {"reading", "verify"} => Status' = "idle"
BY DEF Status

LEMMA SignedSteps ==
  /\ UNCHANGED <<message, caller, delivered, data, verified>> => UNCHANGED Stream!vars
  /\ Stream!Init <=> Status = "idle" /\ delivered = 0 /\ verified = <<>>
  /\ Stream!Refuse <=> Status = "idle" /\ Status' = "refused" /\ UNCHANGED <<Origin, delivered, verified>>
  /\ Stream!Open <=> /\ Status = "idle" /\ Status' = "open"
                     /\ verified' = [i \in DOMAIN verified' |-> "pending"]
                     /\ Origin.demanded => DOMAIN verified' # {}
                     /\ UNCHANGED <<Origin, delivered>>
  /\ Stream!Give <=> /\ Status = "open" /\ delivered < Origin.size /\ delivered' = delivered + 1
                     /\ UNCHANGED <<Origin, Status, verified>>
  /\ Stream!MayClose <=> /\ Origin.sound /\ (Origin.loose \/ delivered = Origin.size)
                         /\ Origin.demanded => \E i \in DOMAIN verified' : verified'[i] = "true"
  /\ Stream!MayEnd <=> \/ Status' = Status
                       \/ Status = "open" /\ Status' = "errored"
                       \/ Status = "open" /\ Status' = "closed" /\ Stream!MayClose
  /\ Stream!End <=> Stream!MayEnd /\ UNCHANGED <<Origin, delivered, verified>>
  /\ \A i : Stream!Judge(i) <=> /\ verified[i] = "pending"
                                /\ \/ verified' = [verified EXCEPT ![i] = "rejected"]
                                   \/ /\ verified' = [verified EXCEPT ![i] = "true"]
                                      /\ i \in Origin.good /\ delivered = Origin.size
                                /\ Stream!MayEnd
                                /\ UNCHANGED <<Origin, delivered>>
<1>1. UNCHANGED <<message, caller, delivered, data, verified>> => UNCHANGED Stream!vars
  <2> SUFFICES ASSUME UNCHANGED <<message, caller, delivered, data, verified>>
               PROVE  UNCHANGED Stream!vars
    OBVIOUS
  <2>1. Origin' = Origin /\ Status' = Status
    BY StatusFacts
  <2> QED BY <2>1 DEF Stream!vars
<1>2. Stream!Init <=> Status = "idle" /\ delivered = 0 /\ verified = <<>>
  BY DEF Stream!Init
<1>3. Stream!Refuse <=> Status = "idle" /\ Status' = "refused" /\ UNCHANGED <<Origin, delivered, verified>>
  BY DEF Stream!Refuse
<1>4. Stream!Open <=> /\ Status = "idle" /\ Status' = "open"
                      /\ verified' = [i \in DOMAIN verified' |-> "pending"]
                      /\ Origin.demanded => DOMAIN verified' # {}
                      /\ UNCHANGED <<Origin, delivered>>
  BY DEF Stream!Open
<1>5. Stream!Give <=> /\ Status = "open" /\ delivered < Origin.size /\ delivered' = delivered + 1
                      /\ UNCHANGED <<Origin, Status, verified>>
  BY DEF Stream!Give
<1>6. Stream!MayClose <=> /\ Origin.sound /\ (Origin.loose \/ delivered = Origin.size)
                          /\ Origin.demanded => \E i \in DOMAIN verified' : verified'[i] = "true"
  BY DEF Stream!MayClose
<1>7. Stream!MayEnd <=> \/ Status' = Status
                        \/ Status = "open" /\ Status' = "errored"
                        \/ Status = "open" /\ Status' = "closed" /\ Stream!MayClose
  BY DEF Stream!MayEnd
<1>8. Stream!End <=> Stream!MayEnd /\ UNCHANGED <<Origin, delivered, verified>>
  BY DEF Stream!End
<1>9. \A i : Stream!Judge(i) <=> /\ verified[i] = "pending"
                                 /\ \/ verified' = [verified EXCEPT ![i] = "rejected"]
                                    \/ /\ verified' = [verified EXCEPT ![i] = "true"]
                                       /\ i \in Origin.good /\ delivered = Origin.size
                                 /\ Stream!MayEnd
                                 /\ UNCHANGED <<Origin, delivered>>
  BY DEF Stream!Judge
<1> QED BY <1>1, <1>2, <1>3, <1>4, <1>5, <1>6, <1>7, <1>8, <1>9

\* Where the data may close.
WholeEnd == hashed = "closed" /\ IF message.nested THEN message.outer = "closed" ELSE list.state = "closed"

LEMMA SoundEnd ==
  ASSUME Inv, TailRight, WholeEnd
  PROVE  Origin.sound /\ (Origin.loose \/ delivered = Origin.size)
<1>1. delivered = message.body - 1 /\ ~message.fails /\ message.cut # "inside"
  BY HashedWhole DEF WholeEnd
<1>2. message.cut = "none" => Whole(message) = message.body
  BY DEF Whole
<1>3. Origin.loose \/ delivered = Origin.size
  BY <1>1, <1>2, StateFacts, MessageFacts, OriginFacts
<1>4. ~message.nested => ~Spoilt(message.after)
  <2> SUFFICES ASSUME ~message.nested, NEW i \in DOMAIN message.after
               PROVE  message.after[i].kind \notin {"malformed", "garbage"}
    BY DEF Spoilt
  <2>1. list.state = "closed" /\ lit.state = "closed"
    BY DEF WholeEnd, Inv, IInv, Linked
  <2>2. pos = Total /\ \A j \in 1..pos : Packets(message)[j].kind \notin {"malformed", "garbage"}
    BY <2>1 DEF TailRight
  <2>3. /\ message.after \in Seq(Packet) /\ Leading \in Nat /\ Total = Leading + 1 + Len(message.after)
        /\ \A j \in 1..Len(message.after) : Packets(message)[Leading + 1 + j] = message.after[j]
    BY StateFacts, MessageFacts DEF Leading, Total
  <2>4. i \in 1..Len(message.after) /\ Leading + 1 + i \in 1..Total
    BY <2>3
  <2> QED BY <2>2, <2>3, <2>4
<1> QED BY <1>1, <1>3, <1>4, OriginFacts DEF WholeEnd

\* Once the call has returned, a step may end the data for the application
\* only where the pipeline may close them, and takes no end back.
LEMMA Ends ==
  ASSUME Inv, TailRight, UNCHANGED <<message, caller>>, caller = "returned",
         data # "open" => data' = data, data' \in {"open", "closed", "errored"},
         data = "open" /\ data' = "closed" => WholeEnd,
         DOMAIN verified' = DOMAIN verified,
         \A i \in DOMAIN verified : verified[i] # "pending" => verified'[i] = verified[i]
  PROVE  Stream!MayEnd
<1>1. Status = Result /\ Status' = Result'
  BY StatusFacts, StatusNext
<1>2. data' = "closed" => WholeEnd
  BY DEF TailRight, WholeEnd, Inv, IInv, Linked
<1>3. (AnyVerified => AnyVerified') /\ (AnyVerified' <=> \E i \in DOMAIN verified' : verified'[i] = "true")
  BY DEF AnyVerified
<1>4. (\A i \in DOMAIN verified : verified[i] = "rejected") => ~AnyVerified' /\ \A i \in DOMAIN verified' : verified'[i] = "rejected"
  BY DEF AnyVerified
<1>5. Result' = Result \/ Result = "open"
  BY <1>3, <1>4 DEF Result
<1>6. Result' \in {"open", "closed", "errored"}
  BY DEF Result
<1>7. Result' = "closed" => data' = "closed" /\ (message.expectSigned => AnyVerified')
  BY DEF Result
<1>8. Result' = "closed" => Stream!MayClose
  BY <1>2, <1>3, <1>7, SoundEnd, OriginFacts, SignedSteps
<1> QED BY <1>1, <1>5, <1>6, <1>8, SignedSteps

LEMMA CallerSigned ==
  ASSUME Inv, Caller
  PROVE  Stream!Next \/ UNCHANGED Stream!vars
<1> USE DEF callerVars, linkVars, parserVars
<1>1. Types /\ Linked /\ Got /\ Matching
  BY DEF Inv, IInv
<1>2. CASE ReadFirst
  <2>1. /\ UNCHANGED <<message, delivered, data, verified>> /\ caller = "reading"
        /\ caller' \in {"reading", "verify", "rejected"}
    BY <1>2 DEF ReadFirst
  <2>2. Status = "idle" /\ Origin' = Origin /\ Status' \in {"idle", "refused"}
    BY <2>1, StatusFacts, StatusNext
  <2>3. CASE Status' = "idle"
    BY <2>1, <2>2, <2>3 DEF Stream!vars
  <2>4. CASE Status' = "refused"
    BY <2>1, <2>2, <2>4, SignedSteps DEF Stream!Next
  <2> QED BY <2>2, <2>3, <2>4
<1>3. CASE Verify
  <2>1. UNCHANGED <<message, got, delivered, data>> /\ caller = "verify"
    BY <1>3 DEF Verify
  <2>2. data = "open" /\ Status = "idle" /\ Origin' = Origin
    BY <1>1, <2>1, StatusFacts DEF Linked
  <2>3. CASE caller' = "rejected" /\ UNCHANGED verified
    BY <2>1, <2>2, <2>3, StatusNext, SignedSteps DEF Stream!Next
  <2>4. CASE /\ ~(message.expectSigned /\ Signers(got) = <<>>) /\ caller' = "returned"
             /\ verified' = [i \in DOMAIN Signers(got) |-> "pending"]
    <3>1. Status' = "open"
      BY <2>1, <2>2, <2>4, StatusNext DEF Result
    <3>2. Signers(got) \in Seq(Packet)
      <4>1. got = Append(Unmarked(message.before), Literal)
        BY <1>1, <2>1 DEF Got, Before
      <4> QED BY <4>1, StateFacts, MessageFacts, SignersFacts
    <3>3. ASSUME Signers(got) # <<>> PROVE DOMAIN Signers(got) # {}
      <4>1. PICK n : n = Len(Signers(got))
        BY Zenon
      <4>2. n \in Nat \ {0}
        BY <3>2, <3>3, <4>1, EmptySeq, Zenon
      <4>3. DOMAIN Signers(got) = 1..n /\ 1 \in 1..n
        BY <3>2, <4>1, <4>2
      <4> QED BY <4>3, Zenon
    <3>4. DOMAIN verified' = DOMAIN Signers(got)
      BY <2>4
    <3>5. Origin.demanded => DOMAIN verified' # {}
      BY <2>4, <3>3, <3>4, OriginFacts
    <3>6. verified' = [i \in DOMAIN verified' |-> "pending"]
      BY <2>4, <3>4
    <3> QED BY <2>1, <2>2, <3>1, <3>5, <3>6, SignedSteps DEF Stream!Next
  <2>5. \/ caller' = "rejected" /\ UNCHANGED verified
        \/ /\ ~(message.expectSigned /\ Signers(got) = <<>>) /\ caller' = "returned"
           /\ verified' = [i \in DOMAIN Signers(got) |-> "pending"]
    BY <1>3, Zenon DEF Verify
  <2> QED BY <2>3, <2>4, <2>5, Zenon
<1> QED BY <1>2, <1>3 DEF Caller

LEMMA LinkSigned ==
  ASSUME Inv, TailRight, Link
  PROVE  Stream!Next \/ UNCHANGED Stream!vars
<1> USE DEF callerVars, linkVars, parserVars
<1>1. Types /\ Chunks /\ Linked /\ Got /\ Matching
  BY DEF Inv, IInv
<1>2. UNCHANGED <<message, caller, verified>> /\ link # "off"
  BY DEF Link, Pipe, DrainLink
<1>3. caller = "returned" /\ Parsed /\ Origin' = Origin
  BY <1>1, <1>2, StatusFacts DEF Linked
<1>4. CASE Pipe /\ Has(lit)
  <2>1. link = "pipe" /\ delivered' = delivered + 1 /\ Has(lit) /\ ~Broken(lit) /\ data' = data
    BY <1>1, <1>4 DEF Pipe, Has, Broken, Chunks
  <2>2. data = "open" /\ Status' = Status
    BY <1>1, <1>2, <2>1, StatusFacts DEF Linked
  <2>3. Status = "open"
    BY <1>3, <2>2, StatusFacts DEF Result
  <2>4. delivered < Origin.size
    <3>1. PICK n : n = Len(lit.queue)
      BY Zenon
    <3>2. n \in {0, 1} /\ n # 0
      BY <2>1, <3>1, StateFacts, Zenon DEF Has
    <3>4. message.body \in Nat /\ delivered \in Nat
      BY StateFacts, MessageFacts
    <3>3. sent = 1 + delivered + n /\ sent \in 0..message.body
      BY <1>1, <1>3, <2>1, <3>1 DEF Chunks, Broken, Types
    <3>5. Whole(message) = message.body \/ Whole(message) = message.body + 1
      BY DEF Whole
    <3> QED BY <3>2, <3>3, <3>4, <3>5, OriginFacts
  <2> QED BY <1>2, <1>3, <2>1, <2>2, <2>3, <2>4, SignedSteps DEF Stream!Next
<1>5. CASE Pipe /\ ~Has(lit)
  <2>1. link = "pipe" /\ delivered' = delivered /\ data' \in {data, "errored"}
    BY <1>5 DEF Pipe
  <2>2. data = "open"
    BY <1>1, <2>1 DEF Linked
  <2>3. Stream!MayEnd
    BY <1>2, <1>3, <2>1, <2>2, Ends
  <2> QED BY <1>2, <1>3, <2>1, <2>3, SignedSteps DEF Stream!Next
<1>6. CASE DrainLink
  <2>1. /\ link = "drain" /\ delivered' = delivered
        /\ \/ data' = data
           \/ LinkSource \in {"closed", "errored"} /\ data' = LinkSource
    BY <1>6 DEF DrainLink
  <2>2. hashed = "closed" /\ data = "open"
    BY <1>1, <2>1 DEF Linked, TailRight
  <2>3. LinkSource = "closed" => WholeEnd
    BY <2>2 DEF LinkSource, WholeEnd, TailRight
  <2>4. Stream!MayEnd
    BY <1>2, <1>3, <2>1, <2>2, <2>3, Ends
  <2> QED BY <1>2, <1>3, <2>1, <2>4, SignedSteps DEF Stream!Next
<1> QED BY <1>4, <1>5, <1>6 DEF Link

LEMMA SettleSigned ==
  ASSUME Inv, TailRight, NEW i \in DOMAIN verified, Settle(i)
  PROVE  Stream!Judge(i)
<1> USE DEF callerVars, linkVars, parserVars
<1>1. Types /\ Linked /\ Matching
  BY DEF Inv, IInv
<1>2. /\ UNCHANGED <<message, caller, delivered, data>> /\ verified[i] = "pending"
      /\ verified' = [verified EXCEPT ![i] = Verdict(i)] /\ Verdict(i) \in {"true", "rejected"}
  BY DEF Settle, Verdict
<1>3. caller = "returned"
  BY <1>1 DEF Matching
<1>4. DOMAIN verified' = DOMAIN verified /\ \A j \in DOMAIN verified : verified[j] # "pending" => verified'[j] = verified[j]
  BY <1>2
<1>5. data \in {"open", "closed", "errored"} /\ Origin' = Origin
  BY <1>1, <1>2, StatusFacts DEF Types
<1>6. Stream!MayEnd
  BY <1>2, <1>3, <1>4, <1>5, Ends
<1>7. Verdict(i) = "true" => i \in Origin.good /\ delivered = Origin.size
  <2> SUFFICES ASSUME Verdict(i) = "true"
               PROVE  i \in Origin.good /\ delivered = Origin.size
    OBVIOUS
  <2>1. DigestRight /\ Signed(i)
    BY VerdictRight
  <2>2. delivered = message.body - 1 /\ ~message.fails /\ message.cut # "inside"
    BY <2>1, HashedWhole DEF DigestRight
  <2>3. message.cut # "boundary"
    <3>1. message.body \in Nat
      BY StateFacts, MessageFacts
    <3> QED BY <2>1, <2>2, <3>1 DEF DigestRight, Whole
  <2>4. message.cut = "none"
    BY <2>2, <2>3, StateFacts, MessageFacts
  <2>5. i \in DOMAIN SignaturesOf(message) /\ Acceptable(SignaturesOf(message)[i])
    BY <2>1, Zenon DEF Signed, SignaturesOf, Acceptable, After
  <2> QED BY <2>1, <2>2, <2>4, <2>5, OriginFacts DEF DigestRight
<1> QED BY <1>2, <1>5, <1>6, <1>7, SignedSteps

LEMMA SignedStep ==
  ASSUME Inv, TailRight, [Next]_vars
  PROVE  Stream!Next \/ UNCHANGED Stream!vars
<1> USE DEF callerVars, linkVars, parserVars
<1>1. CASE Parser
  <2>1. UNCHANGED <<message, caller, delivered, data, verified>>
    BY <1>1 DEF Parser, ReadHeader, PacketWritten, NextPacket, WriteChunk, EndBody, AwaitCallback
  <2> QED BY <2>1, SignedSteps
<1>2. CASE Callback
  <2>1. UNCHANGED <<message, caller, delivered, data, verified>>
    BY <1>2 DEF Callback, ParseLiteral, LiteralWritten
  <2> QED BY <2>1, SignedSteps
<1>3. CASE Matcher
  <2>1. UNCHANGED <<message, caller, delivered, data, verified>>
    BY <1>3 DEF Matcher, MatchNext, Drain, MatcherCatches
  <2> QED BY <2>1, SignedSteps
<1>4. CASE UNCHANGED vars
  <2>1. UNCHANGED <<message, caller, delivered, data, verified>>
    BY <1>4 DEF vars
  <2> QED BY <2>1, SignedSteps
<1>5. CASE Promises
  BY <1>5, SettleSigned, Zenon DEF Promises, Stream!Next
<1> QED BY <1>1, <1>2, <1>3, <1>4, <1>5, CallerSigned, LinkSigned, Zenon DEF Next

\* However the five activities run ahead of each other, the application of
\* openpgp.verify reads a SignedStream: a verdict is given once and "true" only
\* on all the data, the data close only if all of them arrived and nothing
\* that came with them was broken, and nothing it was told is taken back.
THEOREM SignedStreamHolds == Spec => ReadsSignedStream
<1>1. Init => Stream!Init
  BY StatusFacts, SignedSteps DEF Init
<1>2. (Inv /\ TailRight) /\ [Next]_vars => [Stream!Next]_(Stream!vars)
  BY SignedStep
<1> QED BY <1>1, <1>2, TailHolds, PTL DEF Spec, ReadsSignedStream, Stream!Safety
=============================================================================
