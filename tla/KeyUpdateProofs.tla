--------------------------- MODULE KeyUpdateProofs ---------------------------
(***************************************************************************)
(* Theorems about KeyUpdate, for any users, subkeys and signatures: no     *)
(* list but one of bindings comes to hold a signature twice, no step drops *)
(* a signature or lets in an unchecked one, the source is left alone, and  *)
(* none is missing in the end.  They follow from KeyUpdateInvariant.       *)
(***************************************************************************)
EXTENDS KeyUpdateInvariant, FoldProofs

-----------------------------------------------------------------------------
(* Components, lists and the folds over a list *)

LEMMA ComponentFacts ==
  /\ \A x \in Components : /\ x.of \in {"src", "dst", "new"} /\ x.kind \in Kinds
                           /\ x.n \in DOMAIN Ids(x.of, x.kind) /\ x = Component(x.of, x.kind, x.n)
  /\ \A of \in {"src", "dst", "new"}, kind \in Kinds : \A n \in DOMAIN Ids(of, kind) :
        Component(of, kind, n) \in Components
<1>1. \A x : x \in Components <=> \E of \in {"src", "dst", "new"}, kind \in Kinds :
                                   \E n \in DOMAIN Ids(of, kind) : x = Component(of, kind, n)
  <2> DEFINE Some(of, kind) == {Component(of, kind, n) : n \in DOMAIN Ids(of, kind)}
             All == {Some(of, kind) : of \in {"src", "dst", "new"}, kind \in Kinds}
  <2>1. Components = UNION All
    BY DEF Components
  <2>2. \A S : S \in All <=> \E of \in {"src", "dst", "new"}, kind \in Kinds : S = Some(of, kind)
    OBVIOUS
  <2>3. \A of, kind, x : x \in Some(of, kind) <=> \E n \in DOMAIN Ids(of, kind) : x = Component(of, kind, n)
    OBVIOUS
  <2> HIDE DEF All, Some
  <2>4. \A x : x \in Components <=> \E S \in All : x \in S
    BY <2>1
  <2> HIDE DEF Components
  <2> SUFFICES ASSUME NEW x
               PROVE  x \in Components <=> \E of \in {"src", "dst", "new"}, kind \in Kinds :
                                            \E n \in DOMAIN Ids(of, kind) : x = Component(of, kind, n)
    OBVIOUS
  <2>5. x \in Components => \E of \in {"src", "dst", "new"}, kind \in Kinds : x \in Some(of, kind)
    BY <2>2, <2>4
  <2>6. ASSUME NEW of \in {"src", "dst", "new"}, NEW kind \in Kinds, x \in Some(of, kind) PROVE x \in Components
    <3>1. Some(of, kind) \in All
      BY <2>2
    <3> QED BY <2>4, <2>6, <3>1
  <2> QED BY <2>3, <2>5, <2>6
<1>2. \A of, kind, n : /\ Component(of, kind, n).of = of /\ Component(of, kind, n).kind = kind
                       /\ Component(of, kind, n).n = n
  BY DEF Component
<1> QED BY <1>1, <1>2

\* The names of the lists of a component: none twice.
LEMMA AttrFacts ==
  ASSUME NEW kind \in Kinds
  PROVE  /\ Len(Attrs(kind)) \in Nat /\ DOMAIN Attrs(kind) = 1..Len(Attrs(kind))
         /\ \A i, k \in DOMAIN Attrs(kind) : Attrs(kind)[i] = Attrs(kind)[k] => i = k
         /\ ToSet(Attrs(kind)) = {Attrs(kind)[i] : i \in DOMAIN Attrs(kind)}
<1>1. CASE kind = "key"
  BY <1>1 DEF Attrs, ToSet
<1>2. CASE kind = "user"
  BY <1>2 DEF Attrs, ToSet
<1>3. CASE kind = "subkey"
  BY <1>3 DEF Attrs, ToSet
<1> QED BY <1>1, <1>2, <1>3 DEF Kinds

LEMMA LocFacts ==
  /\ \A l \in Locs : l = <<l[1], l[2]>> /\ l[1] \in Components /\ l[2] \in ToSet(Attrs(l[1].kind))
  /\ \A x \in Components : \A a \in ToSet(Attrs(x.kind)) : <<x, a>> \in Locs
BY DEF Locs

\* Merging a list without a check function: after k signatures the result is
\* in T[k] if each of them takes it there.
LEMMA AppendedFold ==
  ASSUME NEW T, NEW base \in Seq(Sigs), NEW seq \in Seq(Sigs), base \in T[0],
         \A v \in Seq(Sigs), sig \in Sigs : Appended(v, sig) \in Seq(Sigs),
         \A k \in 1..Len(seq), v \in Seq(Sigs) : v \in T[k - 1] => Appended(v, seq[k]) \in T[k]
  PROVE  FoldLeft(Appended, base, seq) \in Seq(Sigs) /\ FoldLeft(Appended, base, seq) \in T[Len(seq)]
<1> DEFINE n == Len(seq)
           D == 1..n
           h == [x \in D \X Seq(Sigs) |-> Appended(x[2], seq[x[1]])]
           c == [s \in SUBSET D |-> Max(s)]
<1>0. n \in Nat /\ DOMAIN seq = D /\ \A i \in D : seq[i] \in Sigs
  OBVIOUS
<1>1. h \in [D \X Seq(Sigs) -> Seq(Sigs)]
  <2>1. \A x \in D \X Seq(Sigs) : x[1] \in D /\ x[2] \in Seq(Sigs)
    OBVIOUS
  <2>2. \A x \in D \X Seq(Sigs) : Appended(x[2], seq[x[1]]) \in Seq(Sigs)
    BY <1>0, <2>1
  <2> QED BY <2>2
<1>2. \A i \in D, v \in Seq(Sigs) : h[<<i, v>>] = Appended(v, seq[i])
  OBVIOUS
<1>3. IsFiniteSet(D) /\ \A s \in SUBSET D : s # {} => c[s] = Max(s) /\ c[s] \in s
  <2>1. IsFiniteSet(D)
    BY <1>0, FS_Interval
  <2>2. \A s \in SUBSET (1..n) : s # {} => Max(s) \in s
    BY <1>0, GreatestNumber
  <2> QED BY <2>1, <2>2
<1> HIDE DEF h, n, D, c
<1>4. PICK iter \in [SUBSET D -> Seq(Sigs)] : Recursion(iter, base, D, c, h)
  BY <1>1, <1>3, FoldExists
<1> DEFINE Def(f) == [s \in SUBSET DOMAIN seq |->
                        IF s = {} THEN base ELSE Appended(f[s \ {Max(s)}], seq[Max(s)])]
<1>5. \E f : f = Def(f)
  <2>1. ASSUME NEW s \in SUBSET D PROVE iter[s] = Def(iter)[s]
    <3>0. iter[s] = IF s = {} THEN base ELSE h[<<c[s], iter[s \ {c[s]}]>>]
      BY <1>4 DEF Recursion
    <3>1. CASE s = {}
      BY <1>0, <3>0, <3>1
    <3>2. CASE s # {}
      <4>1. c[s] \in D /\ s \ {c[s]} \in SUBSET D /\ c[s] = Max(s)
        BY <1>3, <3>2
      <4>2. iter[s \ {c[s]}] \in Seq(Sigs)
        BY <1>4, <4>1
      <4>3. iter[s] = Appended(iter[s \ {Max(s)}], seq[Max(s)])
        BY <1>2, <3>0, <3>2, <4>1, <4>2
      <4> QED BY <1>0, <3>2, <4>1, <4>3
    <3> QED BY <3>1, <3>2
  <2>2. iter = Def(iter)
    BY <1>4, <1>0, <2>1 DEF Recursion
  <2> QED BY <2>2
<1> DEFINE g == CHOOSE f : f = Def(f)
<1>6. g = Def(g)
  BY <1>5
<1>7. FoldLeft(Appended, base, seq) = g[D]
  BY <1>0 DEF FoldLeft, MapThenFoldSet
<1>8. \A s \in SUBSET D : g[s] = IF s = {} THEN base ELSE Appended(g[s \ {Max(s)}], seq[Max(s)])
  BY <1>0, <1>6
<1> HIDE DEF g
<1> DEFINE U == {k \in 0..n : g[1..k] \in Seq(Sigs) /\ g[1..k] \in T[k]}
<1>9. 0 \in U
  <2>1. 1..0 = {} /\ 0 \in 0..n
    BY <1>0
  <2>2. g[{}] = base
    BY <1>8
  <2> QED BY <1>0, <2>1, <2>2
<1>10. ASSUME NEW k \in 0..(n - 1), k \in U PROVE k + 1 \in U
  <2>1. k + 1 \in D /\ k + 1 \in Nat /\ k + 1 > 0 /\ (k + 1) - 1 = k /\ 1..(k + 1) \in SUBSET D /\ k + 1 \in 0..n
    BY <1>0 DEF D
  <2>2. Max(1..(k + 1)) = k + 1 /\ (1..(k + 1)) \ {Max(1..(k + 1))} = 1..((k + 1) - 1) /\ 1..(k + 1) # {}
    BY <2>1, LastOfInterval
  <2>3. g[1..(k + 1)] = Appended(g[1..k], seq[k + 1])
    BY <1>8, <2>1, <2>2
  <2>4. g[1..k] \in Seq(Sigs) /\ g[1..k] \in T[(k + 1) - 1] /\ seq[k + 1] \in Sigs /\ k + 1 \in 1..n
    BY <1>0, <1>10, <2>1 DEF D
  <2>5. Appended(g[1..k], seq[k + 1]) \in Seq(Sigs) /\ Appended(g[1..k], seq[k + 1]) \in T[k + 1]
    BY <2>4 DEF n
  <2> QED BY <2>1, <2>3, <2>5
<1> HIDE DEF U
<1>11. n \in U
  <2>1. n \in 0..n
    BY <1>0
  <2> QED BY <1>0, <1>9, <1>10, <2>1, BoundedInduction
<1> QED BY <1>7, <1>11 DEF U, D, n

\* The same for the replacements among binding signatures.
LEMMA ReplacedFold ==
  ASSUME NEW T, NEW base \in Seq(Sigs), NEW seq \in Seq(Sigs), base \in T[0],
         \A v \in Seq(Sigs), sig \in Sigs : Replaced(v, sig) \in Seq(Sigs),
         \A k \in 1..Len(seq), v \in Seq(Sigs) : v \in T[k - 1] => Replaced(v, seq[k]) \in T[k]
  PROVE  FoldLeft(Replaced, base, seq) \in Seq(Sigs) /\ FoldLeft(Replaced, base, seq) \in T[Len(seq)]
<1> DEFINE n == Len(seq)
           D == 1..n
           h == [x \in D \X Seq(Sigs) |-> Replaced(x[2], seq[x[1]])]
           c == [s \in SUBSET D |-> Max(s)]
<1>0. n \in Nat /\ DOMAIN seq = D /\ \A i \in D : seq[i] \in Sigs
  OBVIOUS
<1>1. h \in [D \X Seq(Sigs) -> Seq(Sigs)]
  <2>1. \A x \in D \X Seq(Sigs) : x[1] \in D /\ x[2] \in Seq(Sigs)
    OBVIOUS
  <2>2. \A x \in D \X Seq(Sigs) : Replaced(x[2], seq[x[1]]) \in Seq(Sigs)
    BY <1>0, <2>1
  <2> QED BY <2>2
<1>2. \A i \in D, v \in Seq(Sigs) : h[<<i, v>>] = Replaced(v, seq[i])
  OBVIOUS
<1>3. IsFiniteSet(D) /\ \A s \in SUBSET D : s # {} => c[s] = Max(s) /\ c[s] \in s
  <2>1. IsFiniteSet(D)
    BY <1>0, FS_Interval
  <2>2. \A s \in SUBSET (1..n) : s # {} => Max(s) \in s
    BY <1>0, GreatestNumber
  <2> QED BY <2>1, <2>2
<1> HIDE DEF h, n, D, c
<1>4. PICK iter \in [SUBSET D -> Seq(Sigs)] : Recursion(iter, base, D, c, h)
  BY <1>1, <1>3, FoldExists
<1> DEFINE Def(f) == [s \in SUBSET DOMAIN seq |->
                        IF s = {} THEN base ELSE Replaced(f[s \ {Max(s)}], seq[Max(s)])]
<1>5. \E f : f = Def(f)
  <2>1. ASSUME NEW s \in SUBSET D PROVE iter[s] = Def(iter)[s]
    <3>0. iter[s] = IF s = {} THEN base ELSE h[<<c[s], iter[s \ {c[s]}]>>]
      BY <1>4 DEF Recursion
    <3>1. CASE s = {}
      BY <1>0, <3>0, <3>1
    <3>2. CASE s # {}
      <4>1. c[s] \in D /\ s \ {c[s]} \in SUBSET D /\ c[s] = Max(s)
        BY <1>3, <3>2
      <4>2. iter[s \ {c[s]}] \in Seq(Sigs)
        BY <1>4, <4>1
      <4>3. iter[s] = Replaced(iter[s \ {Max(s)}], seq[Max(s)])
        BY <1>2, <3>0, <3>2, <4>1, <4>2
      <4> QED BY <1>0, <3>2, <4>1, <4>3
    <3> QED BY <3>1, <3>2
  <2>2. iter = Def(iter)
    BY <1>4, <1>0, <2>1 DEF Recursion
  <2> QED BY <2>2
<1> DEFINE g == CHOOSE f : f = Def(f)
<1>6. g = Def(g)
  BY <1>5
<1>7. FoldLeft(Replaced, base, seq) = g[D]
  BY <1>0 DEF FoldLeft, MapThenFoldSet
<1>8. \A s \in SUBSET D : g[s] = IF s = {} THEN base ELSE Replaced(g[s \ {Max(s)}], seq[Max(s)])
  BY <1>0, <1>6
<1> HIDE DEF g
<1> DEFINE U == {k \in 0..n : g[1..k] \in Seq(Sigs) /\ g[1..k] \in T[k]}
<1>9. 0 \in U
  <2>1. 1..0 = {} /\ 0 \in 0..n
    BY <1>0
  <2>2. g[{}] = base
    BY <1>8
  <2> QED BY <1>0, <2>1, <2>2
<1>10. ASSUME NEW k \in 0..(n - 1), k \in U PROVE k + 1 \in U
  <2>1. k + 1 \in D /\ k + 1 \in Nat /\ k + 1 > 0 /\ (k + 1) - 1 = k /\ 1..(k + 1) \in SUBSET D /\ k + 1 \in 0..n
    BY <1>0 DEF D
  <2>2. Max(1..(k + 1)) = k + 1 /\ (1..(k + 1)) \ {Max(1..(k + 1))} = 1..((k + 1) - 1) /\ 1..(k + 1) # {}
    BY <2>1, LastOfInterval
  <2>3. g[1..(k + 1)] = Replaced(g[1..k], seq[k + 1])
    BY <1>8, <2>1, <2>2
  <2>4. g[1..k] \in Seq(Sigs) /\ g[1..k] \in T[(k + 1) - 1] /\ seq[k + 1] \in Sigs /\ k + 1 \in 1..n
    BY <1>0, <1>10, <2>1 DEF D
  <2>5. Replaced(g[1..k], seq[k + 1]) \in Seq(Sigs) /\ Replaced(g[1..k], seq[k + 1]) \in T[k + 1]
    BY <2>4 DEF n
  <2> QED BY <2>1, <2>3, <2>5
<1> HIDE DEF U
<1>11. n \in U
  <2>1. n \in 0..n
    BY <1>0
  <2> QED BY <1>0, <1>9, <1>10, <2>1, BoundedInduction
<1> QED BY <1>7, <1>11 DEF U, D, n

\* A signature joins a list that does not have it.
LEMMA AppendRight ==
  ASSUME NEW list \in Seq(Sigs), NEW sig \in Sigs
  PROVE  /\ Append(list, sig) \in Seq(Sigs) /\ ToSet(Append(list, sig)) = ToSet(list) \cup {sig}
         /\ sig \notin ToSet(list) /\ IsInjective(list) => IsInjective(Append(list, sig))
<1> DEFINE w == Append(list, sig)
<1>1. /\ w \in Seq(Sigs) /\ DOMAIN w = 1..(Len(list) + 1) /\ DOMAIN list = 1..Len(list) /\ Len(list) \in Nat
      /\ \A i \in 1..Len(list) : w[i] = list[i]
      /\ w[Len(list) + 1] = sig
  BY AppendProperties
<1> HIDE DEF w
<1>2. ToSet(w) \subseteq ToSet(list) \cup {sig}
  <2>1. ASSUME NEW i \in 1..(Len(list) + 1) PROVE w[i] \in ToSet(list) \cup {sig}
    <3>1. i \in 1..Len(list) \/ i = Len(list) + 1
      BY <1>1
    <3> QED BY <1>1, <3>1 DEF ToSet
  <2> QED BY <1>1, <2>1 DEF ToSet
<1>3. ToSet(list) \cup {sig} \subseteq ToSet(w)
  <2>1. \A i \in 1..Len(list) : i \in DOMAIN w /\ list[i] = w[i]
    BY <1>1
  <2>2. Len(list) + 1 \in DOMAIN w
    BY <1>1
  <2> QED BY <1>1, <2>1, <2>2 DEF ToSet
<1>4. sig \notin ToSet(list) /\ IsInjective(list) => IsInjective(w)
  <2>1. sig \notin ToSet(list) => \A i \in DOMAIN list : list[i] # sig
    BY DEF ToSet
  <2> QED BY <1>1, <2>1 DEF IsInjective
<1> QED BY <1>1, <1>2, <1>3, <1>4 DEF w

\* One signature of a list without a check function.
LEMMA AppendedOne ==
  ASSUME NEW v \in Seq(Sigs), NEW sig \in Sigs
  PROVE  /\ Appended(v, sig) \in Seq(Sigs)
         /\ ToSet(Appended(v, sig)) = ToSet(v) \cup {s \in {sig} : ~isExpired(s)}
         /\ IsInjective(v) => IsInjective(Appended(v, sig))
<1>1. CASE isExpired(sig)
  BY <1>1 DEF Appended
<1>2. CASE ~isExpired(sig) /\ sig \in ToSet(v)
  BY <1>2 DEF Appended
<1>3. CASE ~isExpired(sig) /\ sig \notin ToSet(v)
  <2>1. Appended(v, sig) = Append(v, sig) /\ {s \in {sig} : ~isExpired(s)} = {sig}
    BY <1>3 DEF Appended
  <2> QED BY <1>3, <2>1, AppendRight
<1> QED BY <1>1, <1>2, <1>3

\* Lists merged without a check: what is not expired is added, nothing is
\* lost, nothing comes twice.
LEMMA AppendedRight ==
  ASSUME NEW base \in Seq(Sigs), NEW seq \in Seq(Sigs)
  PROVE  LET merged == FoldLeft(Appended, base, seq)
         IN  /\ merged \in Seq(Sigs)
             /\ ToSet(merged) = ToSet(base) \cup {sig \in ToSet(seq) : ~isExpired(sig)}
             /\ IsInjective(base) => IsInjective(merged)
<1> DEFINE n == Len(seq)
           Added(k) == {sig \in Sigs : ~isExpired(sig) /\ \E i \in 1..k : sig = seq[i]}
           T == [k \in 0..n |-> {v \in Seq(Sigs) : /\ ToSet(v) = ToSet(base) \cup Added(k)
                                                   /\ IsInjective(base) => IsInjective(v)}]
<1>1. n \in Nat /\ (\A k \in 1..n : seq[k] \in Sigs) /\ ToSet(seq) = {seq[k] : k \in 1..n}
  BY DEF ToSet
<1>2. Added(0) = {} /\ Added(n) = {sig \in ToSet(seq) : ~isExpired(sig)}
  BY <1>1
<1>3. \A k \in 1..n : Added(k) = Added(k - 1) \cup {s \in {seq[k]} : ~isExpired(s)}
  <2> SUFFICES ASSUME NEW k \in 1..n PROVE Added(k) = Added(k - 1) \cup {s \in {seq[k]} : ~isExpired(s)}
    OBVIOUS
  <2>1. \A i : i \in 1..k <=> i \in 1..(k - 1) \/ i = k
    BY <1>1
  <2> QED BY <1>1, <2>1
<1> HIDE DEF Added
<1>4. base \in T[0]
  BY <1>1, <1>2
<1>5. ASSUME NEW k \in 1..n, NEW v \in Seq(Sigs), v \in T[k - 1] PROVE Appended(v, seq[k]) \in T[k]
  <2>1. k - 1 \in 0..n /\ k \in 0..n /\ seq[k] \in Sigs
    BY <1>1
  <2>2. ToSet(v) = ToSet(base) \cup Added(k - 1) /\ (IsInjective(base) => IsInjective(v))
    BY <1>5, <2>1
  <2>3. /\ Appended(v, seq[k]) \in Seq(Sigs)
        /\ ToSet(Appended(v, seq[k])) = ToSet(v) \cup {s \in {seq[k]} : ~isExpired(s)}
        /\ IsInjective(v) => IsInjective(Appended(v, seq[k]))
    BY <2>1, AppendedOne
  <2>4. ToSet(Appended(v, seq[k])) = ToSet(base) \cup Added(k)
    BY <1>3, <2>2, <2>3
  <2> QED BY <2>1, <2>2, <2>3, <2>4
<1> HIDE DEF T
<1>6. FoldLeft(Appended, base, seq) \in Seq(Sigs) /\ FoldLeft(Appended, base, seq) \in T[n]
  BY <1>4, <1>5, AppendedOne, AppendedFold
<1>7. n \in 0..n
  BY <1>1
<1> HIDE DEF n
<1> QED BY <1>2, <1>6, <1>7 DEF T

\* A signature stands for itself, and what stands for it stands for what it
\* stands for.
LEMMA StandsForOrder ==
  ASSUME NEW a
  PROVE  /\ \A s : StandsFor(a, s, s)
         /\ \A s, t, u \in Sigs : StandsFor(a, s, t) /\ StandsFor(a, t, u) => StandsFor(a, s, u)
<1>1. \A s \in Sigs : Age[s] \in Nat
  BY SigAssumption
<1> QED BY <1>1 DEF StandsFor, SameIssuer

\* One binding signature: it takes a place, unless what has it stands for it,
\* if the list has one by its issuer.
LEMMA ReplacedOne ==
  ASSUME NEW v \in Seq(Sigs), NEW sig \in Sigs
  PROVE  LET w == Replaced(v, sig)
         IN  /\ w \in Seq(Sigs) /\ Len(w) = Len(v)
             /\ \A i \in 1..Len(v) : (w[i] = v[i] \/ w[i] = sig) /\ StandsFor("bindingSignatures", w[i], v[i])
             /\ ~isExpired(sig) /\ Replaces(v, sig) # {} =>
                  \E i \in 1..Len(v) : StandsFor("bindingSignatures", w[i], sig)
<1>1. CASE isExpired(sig) \/ Replaces(v, sig) = {}
  BY <1>1, StandsForOrder DEF Replaced
<1>2. CASE ~isExpired(sig) /\ Replaces(v, sig) # {}
  <2> DEFINE i == CHOOSE i \in Replaces(v, sig) : \A k \in Replaces(v, sig) : i <= k
  <2>1. Replaces(v, sig) \subseteq Nat
    BY DEF Replaces
  <2>2. i \in Replaces(v, sig)
    BY <1>2, <2>1, LeastNumber
  <2>3. Replaced(v, sig) = IF Age[sig] > Age[v[i]] THEN [v EXCEPT ![i] = sig] ELSE v
    BY <1>2 DEF Replaced
  <2> HIDE DEF i
  <2>4. i \in 1..Len(v) /\ SameIssuer(v[i], sig) /\ v[i] \in Sigs
    BY <2>2 DEF Replaces
  <2>5. Age[sig] \in Nat /\ Age[v[i]] \in Nat
    BY <2>4, SigAssumption
  <2>6. CASE Age[sig] > Age[v[i]]
    <3> DEFINE w == [v EXCEPT ![i] = sig]
    <3>1. /\ w \in Seq(Sigs) /\ Len(w) = Len(v)
          /\ \A k \in 1..Len(v) : w[k] = IF k = i THEN sig ELSE v[k]
      BY <2>4
    <3> HIDE DEF w
    <3>2. StandsFor("bindingSignatures", sig, v[i])
      BY <2>4, <2>5, <2>6 DEF StandsFor, SameIssuer
    <3>3. Replaced(v, sig) = w
      BY <2>3, <2>6 DEF w
    <3> QED BY <2>4, <3>1, <3>2, <3>3, StandsForOrder
  <2>7. CASE ~(Age[sig] > Age[v[i]])
    <3>1. Replaced(v, sig) = v
      BY <2>3, <2>7
    <3>2. StandsFor("bindingSignatures", v[i], sig)
      BY <2>4, <2>5, <2>7 DEF StandsFor, SameIssuer
    <3> QED BY <2>4, <3>1, <3>2, StandsForOrder
  <2> QED BY <2>6, <2>7
<1> QED BY <1>1, <1>2

\* Binding signatures: what is in the place of each stands for it; so does
\* something for each that is not expired and by an issuer of the list.
LEMMA ReplacedRight ==
  ASSUME NEW base \in Seq(Sigs), NEW seq \in Seq(Sigs)
  PROVE  LET merged == FoldLeft(Replaced, base, seq)
         IN  /\ merged \in Seq(Sigs) /\ ToSet(merged) \subseteq ToSet(base) \cup ToSet(seq)
             /\ \A old \in ToSet(base) : \E new \in ToSet(merged) : StandsFor("bindingSignatures", new, old)
             /\ \A sig \in ToSet(seq) : ~isExpired(sig) /\ Replaces(base, sig) # {} =>
                  \E new \in ToSet(merged) : StandsFor("bindingSignatures", new, sig)
<1> DEFINE n == Len(seq)
           For(v, sig) == \E i \in 1..Len(base) : StandsFor("bindingSignatures", v[i], sig)
           Kept(v) == \A i \in 1..Len(base) : /\ v[i] \in ToSet(base) \cup ToSet(seq)
                                              /\ StandsFor("bindingSignatures", v[i], base[i])
           Stood(v, k) == \A i \in 1..k : ~isExpired(seq[i]) /\ Replaces(base, seq[i]) # {} => For(v, seq[i])
           T == [k \in 0..n |-> {v \in Seq(Sigs) : Len(v) = Len(base) /\ Kept(v) /\ Stood(v, k)}]
<1>1. /\ n \in Nat /\ (\A k \in 1..n : seq[k] \in Sigs) /\ ToSet(seq) = {seq[k] : k \in 1..n}
      /\ (\A i \in 1..Len(base) : base[i] \in Sigs) /\ ToSet(base) = {base[i] : i \in 1..Len(base)}
  BY DEF ToSet
<1>2. base \in T[0]
  <2>1. 0 \in 0..n /\ 1..0 = {}
    BY <1>1
  <2> QED BY <1>1, <2>1, StandsForOrder
<1>3. ASSUME NEW k \in 1..n, NEW v \in Seq(Sigs), v \in T[k - 1] PROVE Replaced(v, seq[k]) \in T[k]
  <2> DEFINE w == Replaced(v, seq[k])
  <2>1. /\ k - 1 \in 0..n /\ k \in 0..n /\ seq[k] \in Sigs /\ seq[k] \in ToSet(seq)
        /\ \A i \in 1..k : i \in 1..n /\ (i \in 1..(k - 1) \/ i = k)
    BY <1>1
  <2>2. Len(v) = Len(base) /\ Kept(v) /\ Stood(v, k - 1)
    BY <1>3, <2>1
  <2>3. /\ w \in Seq(Sigs) /\ Len(w) = Len(v)
        /\ \A i \in 1..Len(v) : (w[i] = v[i] \/ w[i] = seq[k]) /\ StandsFor("bindingSignatures", w[i], v[i])
        /\ ~isExpired(seq[k]) /\ Replaces(v, seq[k]) # {} =>
             \E i \in 1..Len(v) : StandsFor("bindingSignatures", w[i], seq[k])
    BY <2>1, ReplacedOne
  <2> HIDE DEF w
  <2>4. \A i \in 1..Len(base) : v[i] \in Sigs /\ w[i] \in Sigs /\ base[i] \in Sigs
    BY <2>2, <2>3
  <2>5. Kept(w)
    <3> SUFFICES ASSUME NEW i \in 1..Len(base)
                 PROVE  w[i] \in ToSet(base) \cup ToSet(seq) /\ StandsFor("bindingSignatures", w[i], base[i])
      OBVIOUS
    <3>1. /\ v[i] \in ToSet(base) \cup ToSet(seq) /\ StandsFor("bindingSignatures", v[i], base[i])
          /\ (w[i] = v[i] \/ w[i] = seq[k]) /\ StandsFor("bindingSignatures", w[i], v[i])
          /\ v[i] \in Sigs /\ w[i] \in Sigs /\ base[i] \in Sigs
      BY <2>2, <2>3, <2>4
    <3> QED BY <2>1, <3>1, StandsForOrder
  <2>6. \A sig \in Sigs : For(v, sig) => For(w, sig)
    <3> SUFFICES ASSUME NEW sig \in Sigs, NEW i \in 1..Len(base), StandsFor("bindingSignatures", v[i], sig)
                 PROVE  StandsFor("bindingSignatures", w[i], sig)
      OBVIOUS
    <3>1. StandsFor("bindingSignatures", w[i], v[i]) /\ v[i] \in Sigs /\ w[i] \in Sigs
      BY <2>2, <2>3, <2>4
    <3> QED BY <3>1, StandsForOrder
  <2>7. Replaces(base, seq[k]) # {} => Replaces(v, seq[k]) # {}
    <3> SUFFICES ASSUME NEW i \in Replaces(base, seq[k]) PROVE i \in Replaces(v, seq[k])
      OBVIOUS
    <3>1. i \in 1..Len(base) /\ SameIssuer(base[i], seq[k])
      BY DEF Replaces
    <3>2. StandsFor("bindingSignatures", v[i], base[i]) /\ i \in DOMAIN v
      BY <2>2, <3>1
    <3> QED BY <3>1, <3>2 DEF Replaces, StandsFor, SameIssuer
  <2>8. Stood(w, k)
    <3> SUFFICES ASSUME NEW i \in 1..k, ~isExpired(seq[i]), Replaces(base, seq[i]) # {} PROVE For(w, seq[i])
      OBVIOUS
    <3>1. i \in 1..n /\ seq[i] \in Sigs
      BY <1>1, <2>1
    <3>2. CASE i \in 1..(k - 1)
      <4>1. For(v, seq[i])
        BY <2>2, <3>2
      <4> HIDE DEF For
      <4> QED BY <2>6, <3>1, <4>1
    <3>3. CASE i = k
      BY <2>2, <2>3, <2>7, <3>3
    <3> QED BY <2>1, <3>2, <3>3
  <2> HIDE DEF Kept, Stood
  <2> QED BY <2>1, <2>2, <2>3, <2>5, <2>8 DEF w
<1> HIDE DEF T
<1>4. FoldLeft(Replaced, base, seq) \in Seq(Sigs) /\ FoldLeft(Replaced, base, seq) \in T[n]
  BY <1>2, <1>3, ReplacedOne, ReplacedFold
<1>5. n \in 0..n
  BY <1>1
<1> DEFINE merged == FoldLeft(Replaced, base, seq)
<1> HIDE DEF merged, Kept, Stood
<1>6. merged \in Seq(Sigs) /\ Len(merged) = Len(base) /\ Kept(merged) /\ Stood(merged, n)
  BY <1>4, <1>5 DEF T, merged
<1>7. ToSet(merged) = {merged[i] : i \in 1..Len(base)}
  BY <1>6 DEF ToSet
<1>8. ToSet(merged) \subseteq ToSet(base) \cup ToSet(seq)
  BY <1>6, <1>7 DEF Kept
<1>9. \A old \in ToSet(base) : \E new \in ToSet(merged) : StandsFor("bindingSignatures", new, old)
  BY <1>1, <1>6, <1>7 DEF Kept
<1>10. \A sig \in ToSet(seq) : ~isExpired(sig) /\ Replaces(base, sig) # {} =>
          \E new \in ToSet(merged) : StandsFor("bindingSignatures", new, sig)
  BY <1>1, <1>6, <1>7 DEF Stood
<1> QED BY <1>6, <1>8, <1>9, <1>10 DEF merged

-----------------------------------------------------------------------------
(* The invariant *)

\* The components to merge, in order: none twice.
LEMMA SourceFacts ==
  ASSUME NEW kind \in Kinds
  PROVE  /\ Sources(kind) \in Seq(Components) /\ IsInjective(Sources(kind))
         /\ \A i \in DOMAIN Sources(kind) : Sources(kind)[i].of = "src" /\ Sources(kind)[i].kind = kind
<1> DEFINE ids == Ids("src", kind)
           q == Sources(kind)
<1>1. \E S : ids \in Seq(S)
  <2>1. CASE kind = "key"
    <3>1. ids = <<"key">> /\ <<"key">> \in Seq({"key"})
      BY <2>1 DEF Ids
    <3> QED BY <3>1
  <2>2. CASE kind = "user"
    BY <2>2, IdAssumption DEF Ids
  <2>3. CASE kind = "subkey"
    BY <2>3, IdAssumption DEF Ids
  <2> QED BY <2>1, <2>2, <2>3 DEF Kinds
<1>2. q = [n \in DOMAIN ids |-> Component("src", kind, n)]
  BY DEF Sources
<1>3. \A n \in DOMAIN ids : Component("src", kind, n) \in Components
  BY ComponentFacts
<1>4. \A n : /\ Component("src", kind, n).n = n /\ Component("src", kind, n).of = "src"
             /\ Component("src", kind, n).kind = kind
  BY DEF Component
<1> HIDE DEF q, ids
<1>5. \E m \in Nat : DOMAIN ids = 1..m
  BY <1>1
<1>6. q \in Seq(Components)
  BY <1>2, <1>3, <1>5
<1>7. IsInjective(q) /\ \A i \in DOMAIN q : q[i].of = "src" /\ q[i].kind = kind
  BY <1>2, <1>4 DEF IsInjective
<1> QED BY <1>6, <1>7 DEF q

LEMMA InitRight == Init => IInv
<1> SUFFICES ASSUME Init PROVE IInv
  OBVIOUS
<1>1. PICK focus \in Focus :
        LET Bounded == {l \in Locs : Bound(focus, l) # {}}
            Longest == UNION {Lists(b.max) : b \in focus}
        IN  \E f \in [Bounded -> Longest] : arr = [l \in Locs |-> IF l \in Bounded THEN f[l] ELSE <<>>]
  BY DEF Init
<1> DEFINE Bounded == {l \in Locs : Bound(focus, l) # {}}
           Longest == UNION {Lists(b.max) : b \in focus}
<1>2. PICK f \in [Bounded -> Longest] : arr = [l \in Locs |-> IF l \in Bounded THEN f[l] ELSE <<>>]
  BY <1>1
<1>3. ASSUME NEW v \in Longest PROVE v \in Seq(Sigs) /\ IsInjective(v)
  <2>1. PICK b \in focus : v \in Lists(b.max)
    OBVIOUS
  <2>2. b.max \in Nat
    BY FocusAssumption
  <2>3. PICK k \in 0..b.max : v \in [1..k -> Sigs] /\ IsInjective(v)
    BY <2>1 DEF Lists
  <2>4. k \in Nat
    BY <2>2
  <2> QED BY <2>3, <2>4
<1>4. <<>> \in Seq(Sigs) /\ IsInjective(<<>>)
  BY DEF IsInjective
<1> HIDE DEF Bounded, Longest
<1>5. \A l \in Locs : arr[l] \in Seq(Sigs) /\ IsInjective(arr[l])
  BY <1>2, <1>3, <1>4
<1>6. DOMAIN arr = Locs /\ arr = [l \in Locs |-> arr[l]]
  BY <1>2
<1>7. arr \in [Locs -> Seq(Sigs)]
  BY <1>5, <1>6
<1>8. TypeOK
  <2>1. ref \in [Locs -> Locs] /\ todo \in Seq(Components) /\ jobs = {}
    BY DEF Init
  <2>2. present \subseteq {x \in Components : x.of # "src"}
    BY DEF Init
  <2> QED BY <1>7, <2>1, <2>2 DEF Init, TypeOK
<1>9. TodoRight /\ JobsRight /\ RefRight
  BY DEF Init, TodoRight, JobsRight, RefRight, IsInjective
<1> QED BY <1>5, <1>8, <1>9 DEF IInv, ArraysApart

\* The next phase begins, when no merger of it has.
LEMMA EnterKeeps ==
  ASSUME IInv, NEW kind \in Kinds, kind \in Ahead, Enter(kind, kind), date' \in {"given", "invalid"},
         UNCHANGED <<arr, ref, present>>
  PROVE  IInv'
<1>1. /\ phase' = kind /\ jobs' = {} /\ todo' = Sources(kind) /\ phase' \in {"key", "user", "subkey"}
      /\ todo' \in Seq(Components) /\ IsInjective(todo')
      /\ \A i \in DOMAIN todo' : todo'[i].of = "src" /\ todo'[i].kind = kind
  BY SourceFacts DEF Enter, Kinds
<1>2. Ahead' \subseteq Ahead /\ kind \notin Ahead'
  BY <1>1 DEF Ahead, Kinds
<1>3. TypeOK'
  BY <1>1 DEF IInv, TypeOK
<1>4. JobsRight' /\ TodoRight'
  BY <1>1 DEF JobsRight, TodoRight
<1>5. ASSUME NEW l \in Locs, NEW s \in Components, Borrows(l, s) PROVE Borrows(l, s)'
  <2>1. s.kind # kind
    BY <1>5 DEF Borrows
  <2>2. s \notin ToSet(todo')
    BY <1>1, <2>1 DEF ToSet
  <2> QED BY <1>1, <1>2, <1>5, <2>2 DEF Borrows
<1>6. RefRight'
  BY <1>5 DEF IInv, RefRight
<1> QED BY <1>3, <1>4, <1>6 DEF IInv, ArraysApart

\* A list refers to an array of lists of its name; those of the source and
\* of components that are not there yet, to their own.
LEMMA RefFacts ==
  ASSUME IInv
  PROVE  /\ \A l \in Locs : ref[l] \in Locs /\ ref[l][2] = l[2] /\ (l[1] \notin present => ref[l] = l)
         /\ \A l \in Locs : arr[l] \in Seq(Sigs)
         /\ \A x \in present : x \in Components /\ x.of # "src"
BY DEF IInv, TypeOK, RefRight, Borrows

\* Dispatch takes a source component that has no merger yet.
LEMMA DispatchFacts ==
  ASSUME IInv, Dispatch
  PROVE  LET s == Head(todo)
             clone == [s EXCEPT !.of = "new"]
         IN  /\ s \in Components /\ s.of = "src" /\ s.kind = phase /\ s.kind = Turn /\ s \in ToSet(todo)
             /\ todo' \in Seq(Components) /\ IsInjective(todo')
             /\ \A i \in DOMAIN todo' : todo'[i].of = "src" /\ todo'[i].kind = phase
             /\ s \notin ToSet(todo') /\ ToSet(todo') \subseteq ToSet(todo)
             /\ clone \in Components /\ clone.of = "new" /\ clone.kind = s.kind /\ Id(clone) = Id(s)
             /\ Ahead' = Ahead /\ Turn' = Turn
<1> DEFINE s == Head(todo)
           clone == [s EXCEPT !.of = "new"]
<1>1. /\ todo \in Seq(Components) /\ todo # <<>> /\ todo' = Tail(todo) /\ UNCHANGED phase
      /\ IsInjective(todo) /\ \A i \in DOMAIN todo : todo[i].of = "src" /\ todo[i].kind = phase
  BY DEF IInv, TypeOK, TodoRight, Dispatch
<1>2. /\ s = todo[1] /\ 1 \in DOMAIN todo /\ Len(todo) \in Nat /\ Len(todo) > 0 /\ DOMAIN todo = 1..Len(todo)
      /\ todo' \in Seq(Components) /\ Len(todo') = Len(todo) - 1 /\ DOMAIN todo' = 1..(Len(todo) - 1)
      /\ \A i \in 1..(Len(todo) - 1) : todo'[i] = todo[i + 1]
  BY <1>1
<1>3. /\ s \in Components /\ s.of = "src" /\ s.kind = phase /\ s \in ToSet(todo)
  BY <1>1, <1>2 DEF ToSet
<1>4. IsInjective(todo') /\ s \notin ToSet(todo') /\ ToSet(todo') \subseteq ToSet(todo)
      /\ \A i \in DOMAIN todo' : todo'[i].of = "src" /\ todo'[i].kind = phase
  <2>1. \A i \in 1..(Len(todo) - 1) : i + 1 \in DOMAIN todo /\ i + 1 # 1
    BY <1>2
  <2>2. \A i, k \in DOMAIN todo : todo[i] = todo[k] => i = k
    BY <1>1 DEF IsInjective
  <2> HIDE DEF s
  <2>3. s \notin ToSet(todo')
    BY <1>2, <2>1, <2>2 DEF ToSet
  <2>4. IsInjective(todo')
    BY <1>2, <2>1, <2>2, SMTT(30) DEF IsInjective
  <2>5. ToSet(todo') \subseteq ToSet(todo)
    BY <1>2, <2>1 DEF ToSet
  <2> QED BY <1>1, <1>2, <2>1, <2>3, <2>4, <2>5
<1> HIDE DEF s
<1>5. s.kind \in Kinds /\ s.n \in DOMAIN Ids("src", s.kind) /\ s = Component("src", s.kind, s.n)
  BY <1>3, ComponentFacts
<1>6. Ids("new", s.kind) = Ids("src", s.kind)
  BY <1>5 DEF Ids, Kinds
<1>7. clone = Component("new", s.kind, s.n)
  BY <1>5 DEF Component
<1>8. clone.of = "new" /\ clone.kind = s.kind /\ clone.n = s.n
  BY <1>7 DEF Component
<1>9. clone \in Components
  BY <1>5, <1>6, <1>7, ComponentFacts
<1>10. Id(clone) = Id(s)
  BY <1>3, <1>6, <1>8 DEF Id
<1>11. Ahead' = Ahead /\ Turn' = Turn /\ s.kind = Turn
  BY <1>1, <1>3, <1>5 DEF Ahead, Turn, Kinds
<1> HIDE DEF clone
<1> QED BY <1>2, <1>3, <1>4, <1>8, <1>9, <1>10, <1>11 DEF s, clone

LEMMA DispatchKeeps ==
  ASSUME IInv, Dispatch
  PROVE  IInv'
<1> DEFINE s == Head(todo)
           clone == [s EXCEPT !.of = "new"]
           matches == {x \in present : x.kind = s.kind /\ Id(x) = Id(s)}
<1>1. /\ s \in Components /\ s.of = "src" /\ s.kind = phase /\ s.kind = Turn /\ s \in ToSet(todo)
      /\ todo' \in Seq(Components) /\ IsInjective(todo')
      /\ \A i \in DOMAIN todo' : todo'[i].of = "src" /\ todo'[i].kind = phase
      /\ s \notin ToSet(todo') /\ ToSet(todo') \subseteq ToSet(todo)
      /\ clone \in Components /\ clone.of = "new" /\ clone.kind = s.kind /\ Id(clone) = Id(s)
      /\ Ahead' = Ahead /\ Turn' = Turn
  BY DispatchFacts
<1>2. /\ IF matches # {}
         THEN jobs' = jobs \cup {Job(s, d) : d \in matches} /\ UNCHANGED <<arr, present>>
         ELSE /\ present' = present \cup {clone}
              /\ arr' = [l \in Locs |-> IF l[1] = clone THEN List(s, l[2]) ELSE arr[l]]
              /\ UNCHANGED jobs
      /\ UNCHANGED <<phase, date, ref>>
  BY DEF Dispatch
<1> HIDE DEF s, clone
<1>3. TypeOK /\ JobsRight /\ TodoRight /\ RefRight /\ ArraysApart
  BY DEF IInv
<1>4. TodoRight'
  BY <1>1, <1>2 DEF TodoRight
<1>5. present \subseteq present' /\ present' \subseteq {x \in Components : x.of # "src"}
  BY <1>1, <1>2, <1>3 DEF TypeOK
<1>6. \A j \in jobs : Sound(j)' /\ j.src # s /\ j.src \notin ToSet(todo')
  BY <1>1, <1>2, <1>3, <1>5 DEF JobsRight, Sound
<1>7. \A l \in Locs, t \in Components : Borrows(l, t) => t # s /\ t \notin ToSet(todo')
  BY <1>1 DEF Borrows
<1>8. CASE matches # {}
  <2>1. \A d : /\ Job(s, d).src = s /\ Job(s, d).dst = d /\ Job(s, d).at = 0 /\ Job(s, d).pending = {}
    BY DEF Job
  <2>2. \A d \in matches : d \in present /\ d \in Components /\ d.kind = s.kind /\ Id(d) = Id(s)
    BY <1>3 DEF TypeOK
  <2> DEFINE new == {Job(s, d) : d \in matches}
  <2>3. jobs' = jobs \cup new
    BY <1>2, <1>8
  <2>4. \A j \in new : j.src = s /\ j.dst \in matches /\ j.at = 0 /\ j.pending = {} /\ j = Job(s, j.dst)
    BY <2>1
  <2> HIDE DEF new, matches
  <2>5. \A j \in new : Sound(j)'
    BY <1>1, <1>5, <2>2, <2>4 DEF Sound
  <2>6. JobsRight'
    <3>1. \A j \in jobs' : Sound(j)' /\ j.src \notin ToSet(todo')
      BY <1>1, <1>6, <2>3, <2>4, <2>5
    <3>2. \A j, k \in jobs' : j.src = k.src /\ j.dst = k.dst => j = k
      BY <1>3, <1>6, <2>3, <2>4 DEF JobsRight
    <3> QED BY <3>1, <3>2 DEF JobsRight
  <2>7. TypeOK'
    <3>1. \A j \in new : /\ j.src \in Components /\ j.dst \in Components
                         /\ j.at \in 0 .. Len(Attrs(j.src.kind)) /\ j.pending \subseteq Sigs
      <4>1. s.kind \in Kinds
        BY <1>1, ComponentFacts
      <4> QED BY <1>1, <2>2, <2>4, <4>1, AttrFacts
    <3>2. \A j \in jobs' : /\ j.src \in Components /\ j.dst \in Components
                           /\ j.at \in 0 .. Len(Attrs(j.src.kind)) /\ j.pending \subseteq Sigs
      BY <1>3, <2>3, <3>1 DEF TypeOK
    <3> QED BY <1>1, <1>2, <1>3, <1>5, <1>8, <3>2 DEF TypeOK
  <2>8. ASSUME NEW l \in Locs, NEW t \in Components, Borrows(l, t) PROVE Borrows(l, t)'
    <3>1. \A j \in jobs' : j.src = t /\ j.dst = l[1] => Past(j, l[2])
      BY <1>7, <2>3, <2>4, <2>8 DEF Borrows
    <3> QED BY <1>1, <1>2, <1>5, <1>7, <2>8, <3>1 DEF Borrows, Past
  <2>9. RefRight' /\ ArraysApart'
    BY <1>2, <1>3, <1>8, <2>8 DEF RefRight, ArraysApart
  <2> QED BY <1>4, <2>6, <2>7, <2>9 DEF IInv
<1>9. CASE matches = {}
  <2>1. \A l \in Locs : l[1] = clone => List(s, l[2]) \in Seq(Sigs) /\ (l[2] # "bindingSignatures" => IsInjective(List(s, l[2])))
    <3> SUFFICES ASSUME NEW l \in Locs, l[1] = clone
                 PROVE  List(s, l[2]) \in Seq(Sigs) /\ (l[2] # "bindingSignatures" => IsInjective(List(s, l[2])))
      OBVIOUS
    <3>1. <<s, l[2]>> \in Locs
      BY <1>1, LocFacts
    <3>2. ref[<<s, l[2]>>] \in Locs /\ ref[<<s, l[2]>>][2] = l[2]
      BY <3>1, RefFacts
    <3> QED BY <1>3, <3>2 DEF List, ArraysApart, TypeOK
  <2>2. jobs' = jobs /\ arr' = [l \in Locs |-> IF l[1] = clone THEN List(s, l[2]) ELSE arr[l]]
    BY <1>2, <1>9
  <2> HIDE DEF matches
  <2>3. arr' \in [Locs -> Seq(Sigs)] /\ ArraysApart'
    <3>1. \A l \in Locs : arr'[l] = IF l[1] = clone THEN List(s, l[2]) ELSE arr[l]
      BY <2>2
    <3>2. \A l \in Locs : arr'[l] \in Seq(Sigs) /\ (l[2] # "bindingSignatures" => IsInjective(arr'[l]))
      BY <1>3, <2>1, <3>1 DEF TypeOK, ArraysApart
    <3>3. arr' = [l \in Locs |-> arr'[l]]
      BY <2>2
    <3> QED BY <3>2, <3>3 DEF ArraysApart
  <2>4. TypeOK'
    BY <1>1, <1>2, <1>3, <1>5, <2>2, <2>3 DEF TypeOK
  <2>5. JobsRight'
    BY <1>3, <1>6, <2>2 DEF JobsRight
  <2>6. ASSUME NEW l \in Locs, NEW t \in Components, Borrows(l, t) PROVE Borrows(l, t)'
    BY <1>1, <1>2, <1>5, <1>7, <2>2, <2>6 DEF Borrows, Past
  <2>7. RefRight'
    BY <1>2, <1>3, <2>6 DEF RefRight
  <2> QED BY <1>4, <2>3, <2>4, <2>5, <2>7 DEF IInv
<1> QED BY <1>8, <1>9

\* A merger reads from a source component, and writes to the array of a list
\* that it has not made a loan of its own source's.
LEMMA JobFacts ==
  ASSUME IInv, NEW j \in jobs, NEW i \in DOMAIN Attrs(j.src.kind),
         i > j.at \/ (i = j.at /\ j.pending # {})
  PROVE  LET a == Attrs(j.src.kind)[i]
         IN  /\ a \in ToSet(Attrs(j.src.kind)) /\ ~Past(j, a)
             /\ j.src \in Components /\ j.dst \in Components /\ Sound(j) /\ j.src.kind \in Kinds
             /\ <<j.src, a>> \in Locs /\ <<j.dst, a>> \in Locs /\ ref[<<j.src, a>>] = <<j.src, a>>
             /\ ref[<<j.dst, a>>] # <<j.src, a>>
<1> DEFINE a == Attrs(j.src.kind)[i]
<1>1. j.src \in Components /\ j.dst \in Components /\ Sound(j) /\ j.src.kind \in Kinds /\ j.at \in Nat
  <2>1. j.src \in Components /\ j.dst \in Components /\ Sound(j) /\ j.at \in 0..Len(Attrs(j.src.kind))
    BY DEF IInv, TypeOK, JobsRight
  <2>2. j.src.kind \in Kinds
    BY <2>1, ComponentFacts
  <2> QED BY <2>1, <2>2, AttrFacts
<1>2. a \in ToSet(Attrs(j.src.kind)) /\ i \in Nat
  BY <1>1, AttrFacts
<1>3. ~Past(j, a)
  BY <1>1, AttrFacts DEF Past
<1>4. <<j.src, a>> \in Locs /\ <<j.dst, a>> \in Locs
  BY <1>1, <1>2, LocFacts DEF Sound
<1> HIDE DEF a
<1>5. j.src \notin present /\ j.src # j.dst
  BY <1>1, RefFacts DEF Sound
<1>6. <<j.src, a>>[1] = j.src /\ <<j.dst, a>>[1] = j.dst /\ <<j.dst, a>>[2] = a
  OBVIOUS
<1>7. ref[<<j.src, a>>] = <<j.src, a>>
  BY <1>4, <1>5, <1>6, RefFacts
<1>8. ref[<<j.dst, a>>] # <<j.src, a>>
  <2> SUFFICES ASSUME ref[<<j.dst, a>>] = <<j.src, a>> PROVE FALSE
    OBVIOUS
  <2>1. ref[<<j.dst, a>>] # <<j.dst, a>>
    BY <1>5
  <2>2. PICK s \in Components : Borrows(<<j.dst, a>>, s)
    BY <1>4, <2>1 DEF IInv, RefRight
  <2>3. s = j.src
    BY <1>6, <2>2 DEF Borrows
  <2>4. Past(j, a)
    BY <1>6, <2>2, <2>3 DEF Borrows
  <2> QED BY <1>3, <2>4
<1> QED BY <1>1, <1>2, <1>3, <1>4, <1>7, <1>8 DEF a

\* One merger moves on: what it was past it stays past.
LEMMA MovesOn ==
  ASSUME IInv, NEW j \in jobs, NEW m, jobs' = (jobs \ {j}) \cup {m},
         m.src = j.src, m.dst = j.dst, m.at \in 0 .. Len(Attrs(j.src.kind)), m.at > 0, m.pending \subseteq Sigs,
         (m.at = j.at /\ m.pending \subseteq j.pending) \/ (m.at = j.at + 1 /\ j.pending = {}),
         UNCHANGED <<phase, date, present, todo>>
  PROVE  /\ JobsRight' /\ TodoRight' /\ \A k \in jobs' : k.src = j.src /\ k.dst = j.dst => k = m
         /\ \A k \in jobs' : /\ k.src \in Components /\ k.dst \in Components
                             /\ k.at \in 0 .. Len(Attrs(k.src.kind)) /\ k.pending \subseteq Sigs
         /\ \A l \in Locs, s \in Components : Borrows(l, s) /\ ref'[l] = ref[l] => Borrows(l, s)'
<1>1. TypeOK /\ JobsRight /\ TodoRight
  BY DEF IInv
<1>2. j.at \in Nat
  <2>1. j.src.kind \in Kinds /\ j.at \in 0 .. Len(Attrs(j.src.kind))
    BY <1>1, ComponentFacts DEF TypeOK
  <2> QED BY <2>1, AttrFacts
<1>3. \A k \in jobs' : Sound(k)' /\ k.src \notin ToSet(todo')
  BY <1>1 DEF JobsRight, Sound, Turn
<1>4. \A k, k2 \in jobs' : k.src = k2.src /\ k.dst = k2.dst => k = k2
  BY <1>1 DEF JobsRight
<1>5. \A k \in jobs' : /\ k.src \in Components /\ k.dst \in Components
                       /\ k.at \in 0 .. Len(Attrs(k.src.kind)) /\ k.pending \subseteq Sigs
  BY <1>1 DEF TypeOK
<1>6. \A a : Past(j, a) => Past(m, a)
  BY <1>2 DEF Past
<1>7. ASSUME NEW l \in Locs, NEW s \in Components, Borrows(l, s), ref'[l] = ref[l] PROVE Borrows(l, s)'
  <2>1. \A k \in jobs' : k.src = s /\ k.dst = l[1] => Past(k, l[2])
    BY <1>6, <1>7 DEF Borrows
  <2> QED BY <1>7, <2>1 DEF Borrows, Past, Ahead
<1>8. TodoRight'
  BY <1>1 DEF TodoRight
<1> QED BY <1>3, <1>4, <1>5, <1>7, <1>8 DEF JobsRight

\* An array is written to, and no list changes its array.
LEMMA WriteKeeps ==
  ASSUME IInv, NEW j \in jobs, NEW m, jobs' = (jobs \ {j}) \cup {m},
         m.src = j.src, m.dst = j.dst, m.at \in 0 .. Len(Attrs(j.src.kind)), m.at > 0, m.pending \subseteq Sigs,
         (m.at = j.at /\ m.pending \subseteq j.pending) \/ (m.at = j.at + 1 /\ j.pending = {}),
         UNCHANGED <<phase, date, present, todo, ref>>,
         NEW target \in Locs, NEW list \in Seq(Sigs), target[2] # "bindingSignatures" => IsInjective(list),
         arr' = [arr EXCEPT ![target] = list]
  PROVE  IInv'
<1>1. /\ JobsRight' /\ TodoRight'
      /\ \A k \in jobs' : /\ k.src \in Components /\ k.dst \in Components
                          /\ k.at \in 0 .. Len(Attrs(k.src.kind)) /\ k.pending \subseteq Sigs
      /\ \A l \in Locs, s \in Components : Borrows(l, s) /\ ref'[l] = ref[l] => Borrows(l, s)'
  BY MovesOn
<1>2. RefRight'
  BY <1>1 DEF IInv, RefRight
<1>3. TypeOK'
  <2>1. arr' \in [Locs -> Seq(Sigs)]
    BY DEF IInv, TypeOK
  <2> QED BY <1>1, <2>1 DEF IInv, TypeOK
<1>4. ArraysApart'
  BY DEF IInv, TypeOK, ArraysApart
<1> QED BY <1>1, <1>2, <1>3, <1>4 DEF IInv

\* The ways mergeSignatures takes up to its await, for the list a, and what it
\* leaves under check.
Writes(j, a, pending) ==
  \/ /\ List(j.dst, a) = <<>> /\ pending = {} /\ UNCHANGED arr
     /\ ref' = [ref EXCEPT ![<<j.dst, a>>] = ref[<<j.src, a>>]]
  \/ /\ List(j.dst, a) # <<>> /\ UNCHANGED ref /\ ~Checked(j.src.kind, a) /\ pending = {}
     /\ arr' = [arr EXCEPT ![ref[<<j.dst, a>>]] = FoldLeft(Appended, List(j.dst, a), List(j.src, a))]
  \/ /\ List(j.dst, a) # <<>> /\ UNCHANGED ref /\ a = "bindingSignatures"
     /\ pending = {sig \in ToSet(List(j.src, a)) : ~isExpired(sig) /\ Replaces(List(j.dst, a), sig) = {}}
     /\ arr' = [arr EXCEPT ![ref[<<j.dst, a>>]] = FoldLeft(Replaced, List(j.dst, a), List(j.src, a))]
  \/ /\ List(j.dst, a) # <<>> /\ UNCHANGED <<arr, ref>> /\ Checked(j.src.kind, a)
     /\ pending = {sig \in ToSet(List(j.src, a)) : ~isExpired(sig)}

\* The next list of a merger, a, and the merger m that goes on.
Moves(j, a, m) ==
  /\ a = Attrs(j.src.kind)[j.at + 1] /\ j.at + 1 \in DOMAIN Attrs(j.src.kind)
  /\ jobs' = (jobs \ {j}) \cup {m} /\ j.pending = {}
  /\ m.src = j.src /\ m.dst = j.dst /\ m.at = j.at + 1 /\ m.at > 0
  /\ m.at \in 0 .. Len(Attrs(j.src.kind)) /\ m.pending \subseteq Sigs
  /\ UNCHANGED <<phase, date, present, todo>>
  /\ Writes(j, a, m.pending)

LEMMA MergeFacts ==
  ASSUME IInv, NEW j \in jobs, MergeNext(j)
  PROVE  \E a \in ToSet(Attrs(j.src.kind)) : \E m : Moves(j, a, m)
<1> DEFINE a == Attrs(j.src.kind)[j.at + 1]
           Moved(pending) == [j EXCEPT !.at = @ + 1, !.pending = pending]
<1>1. /\ j.pending = {} /\ j.at < Len(Attrs(j.src.kind)) /\ Merge(j) /\ UNCHANGED <<phase, date, present, todo>>
  BY DEF MergeNext
<1>2. j.src.kind \in Kinds /\ j.at \in Nat /\ j.at + 1 \in 1..Len(Attrs(j.src.kind))
  <2>1. j.src.kind \in Kinds /\ j.at \in 0..Len(Attrs(j.src.kind))
    BY ComponentFacts DEF IInv, TypeOK
  <2> QED BY <1>1, <2>1, AttrFacts
<1>3. a \in ToSet(Attrs(j.src.kind)) /\ j.at + 1 \in DOMAIN Attrs(j.src.kind)
  BY <1>2, AttrFacts
<1>4. <<j.src, a>> \in Locs /\ <<j.dst, a>> \in Locs /\ ref[<<j.src, a>>] \in Locs /\ arr[ref[<<j.src, a>>]] \in Seq(Sigs)
  <2>1. PICK i \in DOMAIN Attrs(j.src.kind) : i = j.at + 1 /\ i > j.at
    BY <1>2, <1>3
  <2>2. <<j.src, Attrs(j.src.kind)[i]>> \in Locs /\ <<j.dst, Attrs(j.src.kind)[i]>> \in Locs
    BY <2>1, JobFacts
  <2>3. Attrs(j.src.kind)[i] = a
    BY <2>1
  <2> HIDE DEF a
  <2> QED BY <2>2, <2>3, RefFacts
<1>5. ASSUME NEW pending
      PROVE  /\ Moved(pending).src = j.src /\ Moved(pending).dst = j.dst
             /\ Moved(pending).at = j.at + 1 /\ Moved(pending).pending = pending
  OBVIOUS
<1>6. ToSet(arr[ref[<<j.src, a>>]]) \subseteq Sigs
  BY <1>4 DEF ToSet
<1> HIDE DEF a, Moved
<1>7. \E pending \in SUBSET Sigs : jobs' = (jobs \ {j}) \cup {Moved(pending)} /\ Writes(j, a, pending)
  <2> DEFINE src == <<j.src, a>>
             dst == <<j.dst, a>>
             source == arr[ref[src]]
             dest == arr[ref[dst]]
             Goes(pending) == jobs' = (jobs \ {j}) \cup {[j EXCEPT !.at = @ + 1, !.pending = pending]}
             fresh == {sig \in ToSet(source) : ~isExpired(sig)}
             new == {sig \in ToSet(source) : ~isExpired(sig) /\ Replaces(dest, sig) = {}}
  <2>1. \/ /\ dest = <<>>
           /\ ref' = [ref EXCEPT ![dst] = ref[src]]
           /\ Goes({}) /\ UNCHANGED arr
        \/ /\ dest # <<>> /\ ~Checked(j.src.kind, a)
           /\ arr' = [arr EXCEPT ![ref[dst]] = FoldLeft(Appended, dest, source)]
           /\ Goes({}) /\ UNCHANGED ref
        \/ /\ dest # <<>> /\ a = "bindingSignatures"
           /\ arr' = [arr EXCEPT ![ref[dst]] = FoldLeft(Replaced, dest, source)]
           /\ Goes(new)
           /\ UNCHANGED ref
        \/ /\ dest # <<>> /\ Checked(j.src.kind, a)
           /\ Goes(fresh)
           /\ UNCHANGED <<arr, ref>>
    BY <1>1, Zenon DEF Merge, a
  <2>2. \A pending : Goes(pending) <=> jobs' = (jobs \ {j}) \cup {Moved(pending)}
    BY DEF Moved
  <2>3. new \in SUBSET Sigs /\ fresh \in SUBSET Sigs /\ {} \in SUBSET Sigs
    BY <1>6
  <2>4. List(j.dst, a) = dest /\ List(j.src, a) = source
    BY DEF List
  <2>5. /\ new = {sig \in ToSet(List(j.src, a)) : ~isExpired(sig) /\ Replaces(List(j.dst, a), sig) = {}}
        /\ fresh = {sig \in ToSet(List(j.src, a)) : ~isExpired(sig)}
    BY <2>4
  <2> HIDE DEF Goes, source, dest, new, fresh
  <2> QED BY <2>1, <2>2, <2>3, <2>4, <2>5 DEF Writes
<1>8. PICK pending \in SUBSET Sigs : jobs' = (jobs \ {j}) \cup {Moved(pending)} /\ Writes(j, a, pending)
  BY <1>7
<1> DEFINE m == Moved(pending)
<1>9. /\ m.src = j.src /\ m.dst = j.dst /\ m.at = j.at + 1 /\ m.at > 0 /\ m.pending = pending
      /\ m.at \in 0 .. Len(Attrs(j.src.kind))
  BY <1>2, <1>5
<1>10. a = Attrs(j.src.kind)[j.at + 1]
  BY DEF a
<1> HIDE DEF m
<1>11. jobs' = (jobs \ {j}) \cup {m}
  BY <1>8 DEF m
<1>12. Moves(j, a, m)
  BY <1>1, <1>3, <1>8, <1>9, <1>10, <1>11 DEF Moves
<1> QED BY <1>3, <1>12

\* What mergeSignatures writes before its await: a longer list, or one with
\* newer bindings; or it makes an empty list a loan.
LEMMA MergeKeeps ==
  ASSUME IInv, NEW j \in jobs, MergeNext(j)
  PROVE  IInv'
<1>0. PICK a \in ToSet(Attrs(j.src.kind)) : \E m : Moves(j, a, m)
  BY MergeFacts
<1>1. PICK m : Moves(j, a, m)
  BY <1>0
<1> USE DEF Moves, Writes
<1>2. /\ j.src \in Components /\ j.dst \in Components /\ Sound(j) /\ j.src.kind \in Kinds
      /\ <<j.src, a>> \in Locs /\ <<j.dst, a>> \in Locs /\ ref[<<j.src, a>>] = <<j.src, a>>
  <2>1. PICK i \in DOMAIN Attrs(j.src.kind) : i = j.at + 1 /\ i > j.at /\ Attrs(j.src.kind)[i] = a
    <3>1. j.at \in Nat
      <4>1. j.src.kind \in Kinds /\ j.at \in 0..Len(Attrs(j.src.kind))
        BY ComponentFacts DEF IInv, TypeOK
      <4> QED BY <4>1, AttrFacts
    <3> QED BY <1>1, <3>1
  <2> QED BY <2>1, JobFacts
<1>3. /\ ref[<<j.dst, a>>] \in Locs /\ ref[<<j.dst, a>>][2] = a
      /\ List(j.dst, a) \in Seq(Sigs) /\ List(j.src, a) \in Seq(Sigs)
      /\ a # "bindingSignatures" => IsInjective(List(j.dst, a))
  <2>1. <<j.dst, a>>[2] = a
    OBVIOUS
  <2>2. ref[<<j.dst, a>>] \in Locs /\ ref[<<j.dst, a>>][2] = a /\ ref[<<j.src, a>>] \in Locs
    BY <1>2, <2>1, RefFacts
  <2>3. arr[ref[<<j.dst, a>>]] \in Seq(Sigs) /\ arr[ref[<<j.src, a>>]] \in Seq(Sigs)
    BY <2>2, RefFacts
  <2>4. a # "bindingSignatures" => IsInjective(arr[ref[<<j.dst, a>>]])
    BY <2>2 DEF IInv, ArraysApart
  <2> QED BY <2>2, <2>3, <2>4 DEF List
<1>4. CASE List(j.dst, a) = <<>> /\ m.pending = {} /\ UNCHANGED arr
           /\ ref' = [ref EXCEPT ![<<j.dst, a>>] = ref[<<j.src, a>>]]
  <2>1. /\ JobsRight' /\ TodoRight' /\ \A k \in jobs' : k.src = j.src /\ k.dst = j.dst => k = m
        /\ \A k \in jobs' : /\ k.src \in Components /\ k.dst \in Components
                            /\ k.at \in 0 .. Len(Attrs(k.src.kind)) /\ k.pending \subseteq Sigs
        /\ \A l \in Locs, s \in Components : Borrows(l, s) /\ ref'[l] = ref[l] => Borrows(l, s)'
    BY <1>1, MovesOn
  <2>2. ref \in [Locs -> Locs]
    BY DEF IInv, TypeOK
  <2>3. ref' \in [Locs -> Locs] /\ (\A l \in Locs : l # <<j.dst, a>> => ref'[l] = ref[l])
        /\ ref'[<<j.dst, a>>] = <<j.src, a>>
    BY <1>2, <1>4, <2>2
  <2>4. Borrows(<<j.dst, a>>, j.src)'
    <3>1. <<j.dst, a>>[1] = j.dst /\ <<j.dst, a>>[2] = a
      OBVIOUS
    <3>2. Past(m, a)
      <4>1. m.at \in 1..m.at /\ Attrs(m.src.kind)[m.at] = a
        BY <1>1
      <4> QED BY <1>4, <4>1 DEF Past
    <3>3. \A k \in jobs' : k.src = j.src /\ k.dst = j.dst => Past(k, a)
      BY <2>1, <3>2
    <3>4. j.src.of = "src" /\ j.dst \in present /\ j.src.kind = Turn /\ j.dst.kind = Turn /\ Id(j.src) = Id(j.dst)
          /\ j.src \notin ToSet(todo)
      BY <1>2 DEF Sound, IInv, JobsRight
    <3>5. Turn \notin Ahead
      BY <1>2, <3>4 DEF Turn, Ahead, Kinds
    <3> QED BY <1>1, <2>3, <3>1, <3>3, <3>4, <3>5 DEF Borrows, Ahead, Past
  <2>5. RefRight'
    <3>1. ASSUME NEW l \in Locs, l # <<j.dst, a>> PROVE ref'[l] = l \/ \E s \in Components : Borrows(l, s)'
      BY <2>1, <2>3, <3>1 DEF IInv, RefRight
    <3>2. \E s \in Components : Borrows(<<j.dst, a>>, s)'
      BY <1>2, <2>4
    <3> QED BY <3>1, <3>2 DEF RefRight
  <2>6. TypeOK' /\ ArraysApart'
    BY <1>1, <1>4, <2>1, <2>3 DEF IInv, TypeOK, ArraysApart
  <2> QED BY <2>1, <2>5, <2>6 DEF IInv
<1>5. ASSUME NEW list \in Seq(Sigs), a # "bindingSignatures" => IsInjective(list), UNCHANGED ref,
             arr' = [arr EXCEPT ![ref[<<j.dst, a>>]] = list]
      PROVE  IInv'
  <2> DEFINE target == ref[<<j.dst, a>>]
  <2>1. target \in Locs /\ (target[2] # "bindingSignatures" => IsInjective(list))
        /\ arr' = [arr EXCEPT ![target] = list]
    BY <1>3, <1>5
  <2> HIDE DEF target
  <2> QED BY <1>1, <1>5, <2>1, WriteKeeps
<1>6. CASE List(j.dst, a) # <<>> /\ UNCHANGED ref /\ ~Checked(j.src.kind, a)
           /\ arr' = [arr EXCEPT ![ref[<<j.dst, a>>]] = FoldLeft(Appended, List(j.dst, a), List(j.src, a))]
  BY <1>3, <1>5, <1>6, AppendedRight DEF Checked
<1>7. CASE List(j.dst, a) # <<>> /\ UNCHANGED ref /\ a = "bindingSignatures"
           /\ arr' = [arr EXCEPT ![ref[<<j.dst, a>>]] = FoldLeft(Replaced, List(j.dst, a), List(j.src, a))]
  BY <1>3, <1>5, <1>7, ReplacedRight
<1>8. CASE UNCHANGED <<arr, ref>>
  <2>1. arr \in [Locs -> Seq(Sigs)]
    BY DEF IInv, TypeOK
  <2>2. arr' = [arr EXCEPT ![ref[<<j.dst, a>>]] = List(j.dst, a)]
    BY <1>3, <1>8, <2>1 DEF List
  <2> QED BY <1>3, <1>5, <1>8, <2>2
<1> QED BY <1>1, <1>4, <1>6, <1>7, <1>8

\* A check is done: of a list that the merger is not past.
LEMMA CheckFacts ==
  ASSUME IInv, NEW j \in jobs, NEW sig \in Sigs, CheckDone(j, sig)
  PROVE  LET a == Attr(j)
             m == [j EXCEPT !.pending = @ \ {sig}]
         IN  /\ j.at \in DOMAIN Attrs(j.src.kind) /\ j.pending # {} /\ j.at > 0
             /\ m.src = j.src /\ m.dst = j.dst /\ m.at = j.at /\ m.pending = j.pending \ {sig}
             /\ j.at \in 0 .. Len(Attrs(j.src.kind)) /\ j.pending \subseteq Sigs
             /\ a = Attrs(j.src.kind)[j.at] /\ a \in ToSet(Attrs(j.src.kind)) /\ ~Past(j, a)
             /\ <<j.dst, a>> \in Locs /\ ref[<<j.dst, a>>] \in Locs /\ ref[<<j.dst, a>>][2] = a
             /\ List(j.dst, a) \in Seq(Sigs) /\ (a # "bindingSignatures" => IsInjective(List(j.dst, a)))
<1> DEFINE a == Attr(j)
           m == [j EXCEPT !.pending = @ \ {sig}]
<1>1. j.src \in Components /\ Sound(j) /\ j.at \in 0 .. Len(Attrs(j.src.kind)) /\ j.pending \subseteq Sigs /\ j.pending # {}
  BY DEF IInv, TypeOK, JobsRight, CheckDone
<1>2. j.at \in DOMAIN Attrs(j.src.kind) /\ j.at > 0 /\ j.src.kind \in Kinds
  BY <1>1, ComponentFacts, AttrFacts DEF Sound
<1>3. m.src = j.src /\ m.dst = j.dst /\ m.at = j.at /\ m.pending = j.pending \ {sig}
  OBVIOUS
<1>4. a = Attrs(j.src.kind)[j.at]
  BY DEF Attr
<1>5. PICK i \in DOMAIN Attrs(j.src.kind) : i = j.at
  BY <1>2
<1>6. Attrs(j.src.kind)[i] \in ToSet(Attrs(j.src.kind)) /\ ~Past(j, Attrs(j.src.kind)[i])
      /\ <<j.dst, Attrs(j.src.kind)[i]>> \in Locs
  BY <1>1, <1>5, JobFacts
<1> HIDE DEF a, m
<1>7. a \in ToSet(Attrs(j.src.kind)) /\ ~Past(j, a) /\ <<j.dst, a>> \in Locs
  BY <1>4, <1>5, <1>6
<1>8. <<j.dst, a>>[2] = a
  OBVIOUS
<1>9. ref[<<j.dst, a>>] \in Locs /\ ref[<<j.dst, a>>][2] = a /\ arr[ref[<<j.dst, a>>]] \in Seq(Sigs)
  BY <1>7, <1>8, RefFacts
<1>10. List(j.dst, a) \in Seq(Sigs) /\ (a # "bindingSignatures" => IsInjective(List(j.dst, a)))
  BY <1>9 DEF List, IInv, ArraysApart
<1> QED BY <1>1, <1>2, <1>3, <1>4, <1>7, <1>9, <1>10 DEF a, m

LEMMA CheckKeeps ==
  ASSUME IInv, NEW j \in jobs, NEW sig \in Sigs, CheckDone(j, sig)
  PROVE  IInv'
<1> DEFINE a == Attr(j)
           m == [j EXCEPT !.pending = @ \ {sig}]
           target == ref[<<j.dst, a>>]
           list == IF Passes(j.src.kind, Attr(j), sig) /\ sig \notin ToSet(arr[target])
                   THEN Append(List(j.dst, a), sig) ELSE List(j.dst, a)
<1>1. /\ j.at \in DOMAIN Attrs(j.src.kind) /\ j.pending # {} /\ j.at > 0
      /\ m.src = j.src /\ m.dst = j.dst /\ m.at = j.at /\ m.pending = j.pending \ {sig}
      /\ j.at \in 0 .. Len(Attrs(j.src.kind)) /\ j.pending \subseteq Sigs
      /\ target \in Locs /\ target[2] = a
      /\ List(j.dst, a) \in Seq(Sigs) /\ (a # "bindingSignatures" => IsInjective(List(j.dst, a)))
  BY CheckFacts
<1>2. jobs' = (jobs \ {j}) \cup {m} /\ UNCHANGED <<phase, date, ref, present, todo>>
  BY DEF CheckDone
<1>3. arr' = [arr EXCEPT ![target] = list]
  <2>1. arr \in [Locs -> Seq(Sigs)] /\ arr[target] = List(j.dst, a)
    BY DEF IInv, TypeOK, List
  <2>2. arr' = IF Passes(j.src.kind, Attr(j), sig) /\ sig \notin ToSet(arr[target])
               THEN [arr EXCEPT ![target] = Append(@, sig)] ELSE arr
    BY DEF CheckDone
  <2> HIDE DEF target, a
  <2> QED BY <1>1, <2>1, <2>2
<1>4. list \in Seq(Sigs) /\ (target[2] # "bindingSignatures" => IsInjective(list))
  <2>1. arr[target] = List(j.dst, a)
    BY DEF List
  <2> HIDE DEF target, a
  <2> QED BY <1>1, <2>1, AppendRight
<1> HIDE DEF a, m, target, list
<1>5. m.pending \subseteq j.pending /\ m.pending \subseteq Sigs /\ m.at > 0 /\ m.at \in 0 .. Len(Attrs(j.src.kind))
  BY <1>1
<1> QED BY <1>1, <1>2, <1>3, <1>4, <1>5, WriteKeeps

\* Nothing is under way before the update begins.
LEMMA CalledEmpty ==
  ASSUME IInv, phase = "called"
  PROVE  jobs = {} /\ todo = <<>>
<1>1. ASSUME NEW j \in jobs PROVE FALSE
  BY <1>1, ComponentFacts DEF IInv, TypeOK, JobsRight, Sound, Turn, Kinds
<1>2. ASSUME todo # <<>> PROVE FALSE
  <2>1. todo[1] \in Components /\ todo[1].kind = "called"
    BY <1>2 DEF IInv, TypeOK, TodoRight
  <2> QED BY <2>1, ComponentFacts DEF Kinds
<1> QED BY <1>1, <1>2

LEMMA NextKeeps == IInv /\ [Next]_vars => IInv'
<1> SUFFICES ASSUME IInv, [Next]_vars PROVE IInv'
  OBVIOUS
<1>1. CASE UNCHANGED vars
  <2>1. UNCHANGED <<phase, date, arr, ref, present, todo, jobs>>
    BY <1>1 DEF vars
  <2>2. TypeOK' /\ TodoRight' /\ ArraysApart'
    BY <2>1 DEF IInv, TypeOK, TodoRight, ArraysApart
  <2>3. JobsRight' /\ RefRight'
    BY <2>1 DEF IInv, JobsRight, Sound, Turn, RefRight, Borrows, Past, Ahead
  <2> QED BY <2>2, <2>3 DEF IInv
<1>2. phase = "called" => jobs = {} /\ todo = <<>>
  BY CalledEmpty
<1>3. CASE Update
  <2>1. "key" \in Kinds /\ "key" \in Ahead
    BY <1>3 DEF Update, Ahead, Kinds
  <2>2. date' \in {"given", "invalid"}
    BY <1>3 DEF IInv, TypeOK, Update
  <2> QED BY <1>3, <2>1, <2>2, EnterKeeps DEF Update
<1>4. CASE UpdateSwapped
  <2>1. CASE Enter("key", "key") /\ date' = "invalid"
    <3>1. "key" \in Kinds /\ "key" \in Ahead
      BY <1>4 DEF UpdateSwapped, Ahead, Kinds
    <3> QED BY <1>4, <2>1, <3>1, EnterKeeps DEF UpdateSwapped
  <2>2. CASE phase' = "threw" /\ UNCHANGED <<date, todo, jobs>>
    <3>1. UNCHANGED <<arr, ref, present, date, todo, jobs>> /\ phase = "called" /\ phase' = "threw"
      BY <1>4, <2>2 DEF UpdateSwapped
    <3>2. TypeOK' /\ ArraysApart'
      BY <3>1 DEF IInv, TypeOK, ArraysApart
    <3>3. JobsRight' /\ TodoRight'
      BY <1>2, <3>1 DEF JobsRight, TodoRight, IsInjective
    <3>4. \A l \in Locs, s \in Components : Borrows(l, s) => Borrows(l, s)'
      BY <3>1, ComponentFacts DEF Borrows, Ahead, Past
    <3> QED BY <3>1, <3>2, <3>3, <3>4 DEF IInv, RefRight
  <2> QED BY <1>4, <2>1, <2>2 DEF UpdateSwapped
<1>5. CASE Dispatch
  BY <1>5, DispatchKeeps
<1>6. ASSUME NEW j \in jobs, MergeNext(j) PROVE IInv'
  BY <1>6, MergeKeeps
<1>7. ASSUME NEW j \in jobs, NEW sig \in Sigs, CheckDone(j, sig) PROVE IInv'
  BY <1>7, CheckKeeps
<1>8. CASE UpdateUsers
  <2>1. "user" \in Kinds /\ "user" \in Ahead
    BY <1>8 DEF UpdateUsers, Ahead, Kinds
  <2>2. date' \in {"given", "invalid"}
    BY <1>8 DEF IInv, TypeOK, UpdateUsers
  <2> QED BY <1>8, <2>1, <2>2, EnterKeeps DEF UpdateUsers
<1>9. CASE UpdateSubkeys
  <2>1. "subkey" \in Kinds /\ "subkey" \in Ahead
    BY <1>9 DEF UpdateSubkeys, Ahead, Kinds
  <2>2. date' \in {"given", "invalid"}
    BY <1>9 DEF IInv, TypeOK, UpdateSubkeys
  <2> QED BY <1>9, <2>1, <2>2, EnterKeeps DEF UpdateSubkeys
<1>10. CASE UpdateReturns
  <2>1. /\ UNCHANGED <<date, arr, ref, present, todo, jobs>> /\ phase = "subkey" /\ phase' = "returned"
        /\ todo = <<>> /\ Turn' = Turn /\ Ahead' = Ahead
    BY <1>10 DEF UpdateReturns, PhaseOver, Turn, Ahead
  <2>2. TypeOK' /\ ArraysApart' /\ TodoRight'
    BY <2>1 DEF IInv, TypeOK, ArraysApart, TodoRight, IsInjective
  <2>3. JobsRight' /\ RefRight'
    BY <2>1 DEF IInv, JobsRight, Sound, RefRight, Borrows, Past
  <2> QED BY <2>2, <2>3 DEF IInv
<1> QED BY <1>1, <1>3, <1>4, <1>5, <1>6, <1>7, <1>8, <1>9, <1>10 DEF Next

\* The invariant holds of every update.
THEOREM InvariantHolds == Spec => []IInv
BY InitRight, NextKeeps, PTL DEF Spec

\* No list of the updated key, but one of bindings, ever holds a signature
\* twice: the search for it comes after the check that is awaited (helper.js:219-226).
THEOREM NothingTwice == Spec => []NoDuplicates
<1>1. IInv => NoDuplicates
  <2> SUFFICES ASSUME IInv, NEW x \in present, NEW a \in ToSet(Attrs(x.kind)) \ {"bindingSignatures"}
               PROVE  IsInjective(List(x, a))
    BY DEF IInv, NoDuplicates
  <2>1. <<x, a>> \in Locs /\ <<x, a>>[2] = a
    BY RefFacts, LocFacts
  <2>2. ref[<<x, a>>] \in Locs /\ ref[<<x, a>>][2] = a
    BY <2>1, RefFacts
  <2> QED BY <2>2 DEF IInv, ArraysApart, List
<1> QED BY <1>1, InvariantHolds, PTL

-----------------------------------------------------------------------------
(* What a step of an update does to the lists *)

\* The step that MergeSteps allows.
MergeStep ==
  /\ \A x \in present : \A a \in ToSet(Attrs(x.kind)) :
        /\ x \in present'
        /\ \A sig \in ToSet(List(x, a)) : \E new \in ToSet(List(x, a)') : StandsFor(a, new, sig)
        /\ Checked(x.kind, a) /\ a # "bindingSignatures" /\ List(x, a) # <<>> =>
             ToSet(List(x, a)') \ ToSet(List(x, a)) \subseteq Valid
  /\ \A l \in Locs : l[1].of = "src" /\ Unshared(l[1]) => List(l[1], l[2])' = List(l[1], l[2])

\* Lists that stay as they are.
LEMMA SameLists ==
  ASSUME \A x \in present : x \in present' /\ \A a \in ToSet(Attrs(x.kind)) : List(x, a)' = List(x, a),
         \A l \in Locs : l[1].of = "src" => List(l[1], l[2])' = List(l[1], l[2])
  PROVE  MergeStep
BY StandsForOrder DEF MergeStep

\* A source component that shares its ID with no other lends its arrays only
\* to mergers of itself.
LEMMA LoansApart ==
  ASSUME IInv, NEW j \in jobs, NEW a \in ToSet(Attrs(j.src.kind)), ~Past(j, a), <<j.dst, a>> \in Locs,
         NEW l \in Locs, l[1].of = "src", Unshared(l[1])
  PROVE  ref[<<j.dst, a>>] # l
<1> SUFFICES ASSUME ref[<<j.dst, a>>] = l PROVE FALSE
  OBVIOUS
<1>1. Sound(j) /\ j.src \in Components
  BY DEF IInv, JobsRight, TypeOK
<1>2. <<j.dst, a>>[1] = j.dst /\ <<j.dst, a>>[2] = a
  OBVIOUS
<1>3. ref[<<j.dst, a>>] # <<j.dst, a>>
  BY <1>1, <1>2, RefFacts DEF Sound
<1>4. PICK s \in Components : Borrows(<<j.dst, a>>, s)
  BY <1>3 DEF IInv, RefRight
<1>5. /\ l = <<s, a>> /\ j.dst.kind = s.kind /\ Id(j.dst) = Id(s)
      /\ j.src = s => Past(j, a)
  BY <1>2, <1>4 DEF Borrows
<1>6. l[1] = s
  BY <1>5
<1>7. j.src = s
  BY <1>1, <1>5, <1>6 DEF Unshared, Sound
<1> QED BY <1>5, <1>7

\* One array is written to, by a merger that is not past the list.
LEMMA WriteRight ==
  ASSUME IInv, NEW j \in jobs, NEW a \in ToSet(Attrs(j.src.kind)), ~Past(j, a), <<j.dst, a>> \in Locs,
         UNCHANGED <<present, ref>>, NEW list, arr' = [arr EXCEPT ![ref[<<j.dst, a>>]] = list],
         \A sig \in ToSet(List(j.dst, a)) : \E new \in ToSet(list) : StandsFor(a, new, sig),
         Checked(j.src.kind, a) /\ a # "bindingSignatures" => ToSet(list) \ ToSet(List(j.dst, a)) \subseteq Valid
  PROVE  MergeStep
<1> DEFINE target == ref[<<j.dst, a>>]
<1>1. target \in Locs /\ target[2] = a /\ arr[target] = List(j.dst, a)
  <2>1. <<j.dst, a>>[2] = a
    OBVIOUS
  <2> QED BY <2>1, RefFacts DEF List
<1>2. arr \in [Locs -> Seq(Sigs)]
  BY DEF IInv, TypeOK
<1>3. \A k \in Locs : arr'[k] = IF k = target THEN list ELSE arr[k]
  BY <1>1, <1>2
<1>4. ASSUME NEW x \in present, NEW b \in ToSet(Attrs(x.kind))
      PROVE  /\ x \in present'
             /\ \A sig \in ToSet(List(x, b)) : \E new \in ToSet(List(x, b)') : StandsFor(b, new, sig)
             /\ Checked(x.kind, b) /\ b # "bindingSignatures" =>
                  ToSet(List(x, b)') \ ToSet(List(x, b)) \subseteq Valid
  <2>1. <<x, b>> \in Locs /\ <<x, b>>[2] = b
    BY RefFacts, LocFacts
  <2>2. ref[<<x, b>>] \in Locs /\ ref[<<x, b>>][2] = b
    BY <2>1, RefFacts
  <2>3. List(x, b) = arr[ref[<<x, b>>]] /\ List(x, b)' = arr'[ref[<<x, b>>]]
    BY DEF List
  <2>4. CASE ref[<<x, b>>] = target
    <3>1. b = a /\ List(x, b) = List(j.dst, a) /\ List(x, b)' = list
      BY <1>1, <1>3, <2>2, <2>3, <2>4
    <3> QED BY <3>1 DEF Checked
  <2>5. CASE ref[<<x, b>>] # target
    <3>1. List(x, b)' = List(x, b)
      BY <1>3, <2>2, <2>3, <2>5
    <3> QED BY <3>1, StandsForOrder
  <2> QED BY <2>4, <2>5
<1>5. ASSUME NEW l \in Locs, l[1].of = "src", Unshared(l[1])
      PROVE  List(l[1], l[2])' = List(l[1], l[2])
  <2>1. l = <<l[1], l[2]>> /\ ref[l] = l
    BY <1>5, LocFacts, RefFacts
  <2>2. target # l
    BY <1>5, LoansApart
  <2>3. List(l[1], l[2]) = arr[l] /\ List(l[1], l[2])' = arr'[l]
    BY <2>1 DEF List
  <2> QED BY <1>3, <2>2, <2>3
<1> QED BY <1>4, <1>5 DEF MergeStep

LEMMA MergeStepRight ==
  ASSUME IInv, NEW j \in jobs, MergeNext(j)
  PROVE  MergeStep
<1>0. PICK a \in ToSet(Attrs(j.src.kind)) : \E m : Moves(j, a, m)
  BY MergeFacts
<1>1. PICK m : Moves(j, a, m)
  BY <1>0
<1>2. /\ j.src \in Components /\ j.dst \in Components /\ Sound(j) /\ j.src.kind \in Kinds /\ ~Past(j, a)
      /\ <<j.src, a>> \in Locs /\ <<j.dst, a>> \in Locs /\ ref[<<j.src, a>>] = <<j.src, a>>
  <2>1. PICK i \in DOMAIN Attrs(j.src.kind) : i = j.at + 1 /\ i > j.at /\ Attrs(j.src.kind)[i] = a
    <3>1. j.at \in Nat
      <4>1. j.src.kind \in Kinds /\ j.at \in 0..Len(Attrs(j.src.kind))
        BY ComponentFacts DEF IInv, TypeOK
      <4> QED BY <4>1, AttrFacts
    <3> QED BY <1>1, <3>1 DEF Moves
  <2> QED BY <2>1, JobFacts
<1>3. List(j.dst, a) \in Seq(Sigs) /\ List(j.src, a) \in Seq(Sigs)
  <2>1. ref[<<j.dst, a>>] \in Locs /\ ref[<<j.src, a>>] \in Locs
    BY <1>2, RefFacts
  <2> QED BY <2>1, RefFacts DEF List
<1>4. UNCHANGED present
  BY <1>1 DEF Moves
<1>5. CASE List(j.dst, a) = <<>> /\ UNCHANGED arr /\ ref' = [ref EXCEPT ![<<j.dst, a>>] = ref[<<j.src, a>>]]
  <2>1. \A l \in Locs : l # <<j.dst, a>> => ref'[l] = ref[l]
    BY <1>5 DEF IInv, TypeOK
  <2>2. ToSet(<<>>) = {}
    BY DEF ToSet
  <2>3. ASSUME NEW x \in present, NEW b \in ToSet(Attrs(x.kind))
        PROVE  List(x, b)' = List(x, b) \/ List(x, b) = <<>>
    <3>1. <<x, b>> \in Locs
      BY RefFacts, LocFacts
    <3>2. CASE <<x, b>> = <<j.dst, a>>
      BY <1>5, <3>2
    <3>3. CASE <<x, b>> # <<j.dst, a>>
      BY <1>5, <2>1, <3>1, <3>3 DEF List
    <3> QED BY <3>2, <3>3
  <2>4. ASSUME NEW l \in Locs, l[1].of = "src" PROVE List(l[1], l[2])' = List(l[1], l[2])
    <3>1. l = <<l[1], l[2]>> /\ j.dst.of # "src"
      BY <1>2, LocFacts, RefFacts DEF Sound
    <3>2. l # <<j.dst, a>>
      BY <2>4, <3>1
    <3> QED BY <1>5, <2>1, <3>1, <3>2 DEF List
  <2> QED BY <1>4, <2>2, <2>3, <2>4, StandsForOrder DEF MergeStep
<1>6. CASE UNCHANGED ref /\ ~Checked(j.src.kind, a)
           /\ arr' = [arr EXCEPT ![ref[<<j.dst, a>>]] = FoldLeft(Appended, List(j.dst, a), List(j.src, a))]
  <2> DEFINE list == FoldLeft(Appended, List(j.dst, a), List(j.src, a))
  <2>1. ToSet(List(j.dst, a)) \subseteq ToSet(list)
    BY <1>3, AppendedRight
  <2> HIDE DEF list
  <2>2. \A sig \in ToSet(List(j.dst, a)) : \E new \in ToSet(list) : StandsFor(a, new, sig)
    BY <2>1, StandsForOrder
  <2>3. arr' = [arr EXCEPT ![ref[<<j.dst, a>>]] = list]
    BY <1>6 DEF list
  <2> QED BY <1>2, <1>4, <1>6, <2>2, <2>3, WriteRight
<1>7. CASE UNCHANGED ref /\ a = "bindingSignatures"
           /\ arr' = [arr EXCEPT ![ref[<<j.dst, a>>]] = FoldLeft(Replaced, List(j.dst, a), List(j.src, a))]
  <2> DEFINE list == FoldLeft(Replaced, List(j.dst, a), List(j.src, a))
  <2>1. \A sig \in ToSet(List(j.dst, a)) : \E new \in ToSet(list) : StandsFor(a, new, sig)
    BY <1>3, <1>7, ReplacedRight
  <2>2. arr' = [arr EXCEPT ![ref[<<j.dst, a>>]] = list]
    BY <1>7 DEF list
  <2> HIDE DEF list
  <2> QED BY <1>2, <1>4, <1>7, <2>1, <2>2, WriteRight
<1>8. CASE UNCHANGED <<arr, ref>>
  BY <1>4, <1>8, SameLists DEF List
<1> QED BY <1>1, <1>5, <1>6, <1>7, <1>8 DEF Moves, Writes

LEMMA CheckStepRight ==
  ASSUME IInv, NEW j \in jobs, NEW sig \in Sigs, CheckDone(j, sig)
  PROVE  MergeStep
<1> DEFINE a == Attr(j)
           target == ref[<<j.dst, a>>]
<1>1. /\ a \in ToSet(Attrs(j.src.kind)) /\ ~Past(j, a) /\ <<j.dst, a>> \in Locs
      /\ List(j.dst, a) \in Seq(Sigs) /\ target \in Locs
  BY CheckFacts
<1>2. /\ arr' = IF Passes(j.src.kind, a, sig) /\ sig \notin ToSet(arr[target])
                THEN [arr EXCEPT ![target] = Append(@, sig)] ELSE arr
      /\ UNCHANGED <<ref, present>>
  BY DEF CheckDone
<1>3. arr[target] = List(j.dst, a)
  BY DEF List
<1> HIDE DEF a, target
<1>4. CASE arr' = arr
  BY <1>2, <1>4, SameLists DEF List
<1>5. CASE Passes(j.src.kind, a, sig) /\ arr' = [arr EXCEPT ![target] = Append(@, sig)]
  <2> DEFINE list == Append(List(j.dst, a), sig)
  <2>1. ToSet(list) = ToSet(List(j.dst, a)) \cup {sig}
    BY <1>1, AppendRight
  <2>2. sig \in Valid
    BY <1>5, SigAssumption DEF Passes
  <2>3. arr' = [arr EXCEPT ![target] = list]
    BY <1>1, <1>3, <1>5 DEF IInv, TypeOK
  <2> HIDE DEF list
  <2>4. \A s \in ToSet(List(j.dst, a)) : \E new \in ToSet(list) : StandsFor(a, new, s)
    BY <2>1, StandsForOrder
  <2>5. ToSet(list) \ ToSet(List(j.dst, a)) \subseteq Valid
    BY <2>1, <2>2
  <2>6. arr' = [arr EXCEPT ![ref[<<j.dst, a>>]] = list]
    BY <2>3 DEF target
  <2> QED BY <1>1, <1>2, <2>4, <2>5, <2>6, WriteRight
<1> QED BY <1>2, <1>4, <1>5

LEMMA DispatchStepRight ==
  ASSUME IInv, Dispatch
  PROVE  MergeStep
<1> DEFINE s == Head(todo)
           clone == [s EXCEPT !.of = "new"]
           matches == {x \in present : x.kind = s.kind /\ Id(x) = Id(s)}
<1>1. clone.of = "new" /\ clone.kind = s.kind /\ Id(clone) = Id(s)
  BY DispatchFacts
<1>2. /\ IF matches # {}
         THEN UNCHANGED <<arr, present>>
         ELSE /\ present' = present \cup {clone}
              /\ arr' = [l \in Locs |-> IF l[1] = clone THEN List(s, l[2]) ELSE arr[l]]
      /\ UNCHANGED ref
  BY DEF Dispatch
<1> HIDE DEF s, clone
<1>3. CASE matches # {}
  BY <1>2, <1>3, SameLists DEF List
<1>4. CASE matches = {}
  <2>1. clone \notin present
    BY <1>1, <1>4
  <2> HIDE DEF matches
  <2>2. \A l \in Locs : l[1] # clone => arr'[l] = arr[l]
    BY <1>2, <1>4
  <2>3. \A l \in Locs : ref[l] = l \/ ref[l][1].of = "src"
    BY DEF IInv, RefRight, Borrows
  <2>4. ASSUME NEW x \in Components, NEW a \in ToSet(Attrs(x.kind)), x # clone PROVE List(x, a)' = List(x, a)
    <3>1. <<x, a>> \in Locs /\ <<x, a>>[1] = x
      BY LocFacts
    <3>2. ref[<<x, a>>] \in Locs /\ ref[<<x, a>>][1] # clone
      BY <1>1, <2>3, <2>4, <3>1, RefFacts
    <3> QED BY <1>2, <2>2, <3>2 DEF List
  <2>5. \A x \in present : x \in present' /\ \A a \in ToSet(Attrs(x.kind)) : List(x, a)' = List(x, a)
    BY <1>2, <1>4, <2>1, <2>4, RefFacts
  <2>6. \A l \in Locs : l[1].of = "src" => List(l[1], l[2])' = List(l[1], l[2])
    BY <1>1, <2>4, LocFacts
  <2> QED BY <2>5, <2>6, SameLists
<1> QED BY <1>3, <1>4

\* No step drops a signature from a list of the updated key, unless a newer
\* binding takes its place; lets an unchecked one into a list that has any; or
\* touches a source component that shares its ID with no other.
THEOREM StepsRight == Spec => MergeSteps
<1>1. IInv /\ [Next]_vars => MergeStep \/ UNCHANGED vars
  <2> SUFFICES ASSUME IInv, Next PROVE MergeStep
    OBVIOUS
  <2>1. ASSUME UNCHANGED <<arr, ref, present>> PROVE MergeStep
    BY <2>1, SameLists DEF List
  <2>2. CASE Update \/ UpdateSwapped \/ UpdateUsers \/ UpdateSubkeys \/ UpdateReturns
    BY <2>1, <2>2 DEF Update, UpdateSwapped, UpdateUsers, UpdateSubkeys, UpdateReturns
  <2> QED BY <2>2, DispatchStepRight, MergeStepRight, CheckStepRight DEF Next
<1>2. Spec => [][MergeStep]_vars
  BY <1>1, InvariantHolds, PTL DEF Spec
<1>3. [MergeStep]_vars =>
        [/\ \A x \in present : \A a \in ToSet(Attrs(x.kind)) :
          /\ x \in present'
          /\ \A sig \in ToSet(List(x, a)) : \E new \in ToSet(List(x, a)') : StandsFor(a, new, sig)
          /\ Checked(x.kind, a) /\ a # "bindingSignatures" /\ List(x, a) # <<>> =>
               ToSet(List(x, a)') \ ToSet(List(x, a)) \subseteq Valid
         /\ \A l \in Locs : l[1].of = "src" /\ Unshared(l[1]) => List(l[1], l[2])' = List(l[1], l[2])]_vars
  BY DEF MergeStep
<1> QED BY <1>2, <1>3, PTL DEF MergeSteps

-----------------------------------------------------------------------------
(* Every signature to merge is there, or comes *)

LEMMA ListFacts ==
  ASSUME IInv, NEW x \in Components, NEW a \in ToSet(Attrs(x.kind))
  PROVE  /\ <<x, a>> \in Locs /\ ref[<<x, a>>] \in Locs /\ ref[<<x, a>>][2] = a
         /\ List(x, a) \in Seq(Sigs) /\ ToSet(List(x, a)) \subseteq Sigs
         /\ x.of = "src" => ref[<<x, a>>] = <<x, a>> /\ List(x, a) = arr[<<x, a>>]
<1>1. <<x, a>> \in Locs /\ <<x, a>>[1] = x /\ <<x, a>>[2] = a
  BY LocFacts
<1>2. ref[<<x, a>>] \in Locs /\ ref[<<x, a>>][2] = a /\ (x.of = "src" => ref[<<x, a>>] = <<x, a>>)
  BY <1>1, RefFacts
<1>3. arr[ref[<<x, a>>]] \in Seq(Sigs)
  BY <1>2, RefFacts
<1> QED BY <1>1, <1>2, <1>3 DEF List, ToSet

\* What stands for a signature keeps being there.
LEMMA HasStays ==
  ASSUME IInv, IInv', MergeStep, NEW x \in present, NEW a \in ToSet(Attrs(x.kind)), NEW sig \in Sigs,
         Has(x, a, sig)
  PROVE  Has(x, a, sig)'
<1>1. PICK old \in ToSet(List(x, a)) : StandsFor(a, old, sig)
  BY DEF Has
<1>2. PICK new \in ToSet(List(x, a)') : StandsFor(a, new, old)
  BY DEF MergeStep
<1>3. x \in Components
  BY RefFacts
<1>4. ToSet(List(x, a)) \subseteq Sigs
  BY <1>3, ListFacts
<1>5. ToSet(List(x, a)') \subseteq Sigs
  <2>1. arr' \in [Locs -> Seq(Sigs)] /\ ref' \in [Locs -> Locs] /\ <<x, a>> \in Locs
    BY <1>3, LocFacts DEF IInv, TypeOK
  <2> QED BY <2>1 DEF List, ToSet
<1>6. StandsFor(a, new, sig)
  BY <1>1, <1>2, <1>4, <1>5, StandsForOrder
<1> QED BY <1>2, <1>6 DEF Has

\* The source component that a merger's list has its array from is one of the
\* same ID, and is no longer waiting.
LEMMA LoanFacts ==
  ASSUME IInv, NEW j \in jobs, NEW a \in ToSet(Attrs(j.src.kind)), NEW s \in Components, s.of = "src",
         ref[<<j.dst, a>>] = <<s, a>>
  PROVE  s.kind = j.src.kind /\ Targets(s) = Targets(j.src) /\ ~Waiting(s)
<1>1. Sound(j) /\ j.src \in Components
  BY DEF IInv, JobsRight, TypeOK
<1>2. <<j.dst, a>>[1] = j.dst /\ <<j.dst, a>>[2] = a /\ j.dst \in Components /\ j.dst.of # "src"
  BY <1>1, RefFacts DEF Sound
<1>3. <<j.dst, a>> \in Locs
  BY <1>1, <1>2, LocFacts DEF Sound
<1>4. PICK t \in Components : Borrows(<<j.dst, a>>, t)
  BY <1>2, <1>3 DEF IInv, RefRight
<1>5. t = s
  BY <1>2, <1>4 DEF Borrows
<1> QED BY <1>1, <1>2, <1>4, <1>5 DEF Borrows, Sound, Waiting, Targets

Grows(s, b) == ToSet(List(s, b)) \subseteq ToSet(List(s, b)')

\* A merger goes on from j to m at its list a: sources are asked for no more
\* than is asked for already, sources to be read lose nothing, and what j was
\* to bring has come or is left to m.
AsksNoMore(j, a) ==
  \A s \in Components : \A b \in ToSet(Attrs(s.kind)) : s.of = "src" =>
    \/ List(s, b)' = List(s, b)
    \/ /\ b = a /\ ref[<<j.dst, a>>] = <<s, a>>
       /\ \A sig \in ToSet(List(s, a)') \ ToSet(List(s, a)) : Asked(j.src, a, sig)
LosesNone(j) ==
  \A s \in Components : \A b \in ToSet(Attrs(s.kind)) :
    Waiting(s) \/ (\E k \in jobs \ {j} : k.src = s /\ Before(k, b)) => Grows(s, b)
Brings(j, b, sig) == Checking(j, b, sig) \/ (Before(j, b) /\ sig \in ToSet(List(j.src, b)))
Delivers(j, m) ==
  \A b \in ToSet(Attrs(j.src.kind)), sig \in Valid \ Expired :
    Brings(j, b, sig) /\ ~(j.src.kind = "key" /\ b = "revocationSignatures") =>
      Has(j.dst, b, sig)' \/ Brings(m, b, sig)'

LEMMA MergerCome ==
  ASSUME IInv, IInv', SourcesCome, MergeStep, NEW j \in jobs, NEW m, NEW a \in ToSet(Attrs(j.src.kind)),
         jobs' = (jobs \ {j}) \cup {m}, m.src = j.src, m.dst = j.dst, UNCHANGED <<phase, date, present, todo>>,
         \A b, sig : Checking(m, b, sig) => Asked(j.src, b, sig),
         AsksNoMore(j, a), LosesNone(j), Delivers(j, m)
  PROVE  SourcesCome'
<1>1. \A s : Targets(s)' = Targets(s) /\ Waiting(s)' = Waiting(s)
  BY DEF Targets, Waiting, Ahead
<1>2. Sound(j) /\ j.src \in Components /\ j.dst \in present
  BY DEF IInv, JobsRight, TypeOK, Sound
<1>3. ASSUME NEW s \in Components, s.of = "src", NEW b \in ToSet(Attrs(s.kind)), NEW sig, Asked(s, b, sig)'
      PROVE  \E t \in Components : /\ t.of = "src" /\ t.kind = s.kind /\ Targets(t) = Targets(s) /\ Asked(t, b, sig)
  <2>1. CASE sig \in ToSet(List(s, b)') /\ List(s, b)' = List(s, b)
    BY <1>3, <2>1 DEF Asked
  <2>2. CASE sig \in ToSet(List(s, b)') /\ List(s, b)' # List(s, b)
    <3>1. /\ b = a /\ ref[<<j.dst, a>>] = <<s, a>>
          /\ sig \in ToSet(List(s, a)) \/ Asked(j.src, a, sig)
      BY <1>3, <2>2 DEF AsksNoMore
    <3>2. s.kind = j.src.kind /\ Targets(s) = Targets(j.src)
      BY <1>3, <3>1, LoanFacts
    <3>3. j.src.of = "src"
      BY <1>2 DEF Sound
    <3> QED BY <1>2, <1>3, <3>1, <3>2, <3>3 DEF Asked
  <2>3. CASE \E k \in jobs' : k.src = s /\ Checking(k, b, sig)
    BY <1>3, <2>3 DEF Asked
  <2> QED BY <1>3, <2>1, <2>2, <2>3 DEF Asked
<1>4. ASSUME NEW x \in present, NEW b \in ToSet(Attrs(x.kind)), NEW sig \in Valid \ Expired,
             ~(x.kind = "key" /\ b = "revocationSignatures"), Comes(x, b, sig)
      PROVE  Has(x, b, sig)' \/ Comes(x, b, sig)'
  <2>1. ASSUME NEW k \in jobs, k.dst = x, Brings(k, b, sig) PROVE Has(x, b, sig)' \/ Comes(x, b, sig)'
    <3>1. Sound(k) /\ k.src \in Components /\ k.src.kind = x.kind
      BY <2>1 DEF IInv, JobsRight, TypeOK, Sound
    <3>2. CASE k = j
      <4>1. Has(x, b, sig)' \/ Brings(m, b, sig)'
        BY <1>4, <2>1, <3>1, <3>2 DEF Delivers
      <4> QED BY <2>1, <3>2, <4>1 DEF Comes, Brings
    <3>3. CASE k # j
      <4>1. k \in jobs'
        BY <3>3
      <4>2. Before(k, b) => Grows(k.src, b)
        BY <3>1, <3>3 DEF LosesNone
      <4>3. Checking(k, b, sig) \/ (Before(k, b) /\ sig \in ToSet(List(k.src, b)'))
        BY <2>1, <4>2 DEF Brings, Grows
      <4> QED BY <2>1, <4>1, <4>3 DEF Comes
    <3> QED BY <3>2, <3>3
  <2>2. ASSUME NEW s \in Components, Waiting(s), x \in Targets(s), sig \in ToSet(List(s, b))
        PROVE  Comes(x, b, sig)'
    <3>1. b \in ToSet(Attrs(s.kind))
      BY <2>2 DEF Targets
    <3>2. sig \in ToSet(List(s, b)')
      BY <2>2, <3>1 DEF LosesNone, Grows
    <3> QED BY <1>1, <2>2, <3>2 DEF Comes
  <2> QED BY <1>4, <2>1, <2>2 DEF Comes, Brings
<1>5. ASSUME NEW s \in Components, s.of = "src", NEW b \in ToSet(Attrs(s.kind)),
             ~(s.kind = "key" /\ b = "revocationSignatures"),
             NEW sig \in Valid \ Expired, Asked(s, b, sig)', NEW x \in Targets(s)
      PROVE  Has(x, b, sig)' \/ Comes(x, b, sig)'
  <2>1. PICK t \in Components : t.of = "src" /\ t.kind = s.kind /\ Targets(t) = Targets(s) /\ Asked(t, b, sig)
    BY <1>3, <1>5
  <2>2. Has(x, b, sig) \/ Comes(x, b, sig)
    <3>1. AllCome(t, b)
      BY <1>5, <2>1 DEF SourcesCome
    <3> QED BY <2>1, <3>1 DEF AllCome
  <2>3. x \in present /\ x.kind = s.kind /\ sig \in Sigs
    BY SigAssumption DEF Targets
  <2> QED BY <1>4, <1>5, <2>2, <2>3, HasStays
<1>6. ASSUME NEW s \in Components, s.of = "src" PROVE Waiting(s)' \/ Targets(s)' # {}
  BY <1>1, <1>6 DEF SourcesCome
<1>7. ASSUME NEW s \in Components, s.of = "src", NEW b \in ToSet(Attrs(s.kind))
      PROVE  AllCome(s, b)' \/ (s.kind = "key" /\ b = "revocationSignatures")
  BY <1>1, <1>5, <1>7 DEF AllCome
<1> QED BY <1>6, <1>7 DEF SourcesCome

\* A merger writes list to the array of its list a.
Written(j, a, list) ==
  /\ List(j.dst, a)' = list
  /\ \A s \in Components : \A b \in ToSet(Attrs(s.kind)) : s.of = "src" =>
       \/ List(s, b)' = List(s, b)
       \/ /\ b = a /\ ref[<<j.dst, a>>] = <<s, a>>
          /\ List(s, a) = List(j.dst, a) /\ List(s, a)' = list

LEMMA WriteFacts ==
  ASSUME IInv, NEW j \in jobs, NEW a \in ToSet(Attrs(j.src.kind)), UNCHANGED ref, NEW list,
         arr' = [arr EXCEPT ![ref[<<j.dst, a>>]] = list]
  PROVE  Written(j, a, list)
<1> DEFINE target == ref[<<j.dst, a>>]
<1>1. j.dst \in Components /\ j.dst.kind = j.src.kind
  BY RefFacts DEF IInv, JobsRight, Sound
<1>2. target \in Locs /\ target[2] = a /\ List(j.dst, a) = arr[target]
  BY <1>1, ListFacts DEF List
<1>3. \A k \in Locs : arr'[k] = IF k = target THEN list ELSE arr[k]
  <2>1. arr \in [Locs -> Seq(Sigs)]
    BY DEF IInv, TypeOK
  <2> HIDE DEF target
  <2> QED BY <2>1 DEF target
<1>4. List(j.dst, a)' = list
  BY <1>2, <1>3 DEF List
<1>5. ASSUME NEW s \in Components, NEW b \in ToSet(Attrs(s.kind)), s.of = "src"
      PROVE  \/ List(s, b)' = List(s, b)
             \/ b = a /\ target = <<s, a>> /\ List(s, a) = List(j.dst, a) /\ List(s, a)' = list
  <2>1. <<s, b>> \in Locs /\ ref[<<s, b>>] = <<s, b>> /\ <<s, b>>[2] = b
    BY <1>5, ListFacts
  <2>2. List(s, b) = arr[<<s, b>>] /\ List(s, b)' = arr'[<<s, b>>]
    BY <2>1 DEF List
  <2>3. CASE target = <<s, b>>
    BY <1>2, <1>3, <2>1, <2>2, <2>3
  <2>4. CASE target # <<s, b>>
    BY <1>3, <2>1, <2>2, <2>4
  <2> QED BY <2>3, <2>4
<1> QED BY <1>4, <1>5 DEF Written

\* What is written was there, or the merger's source is asked for it.
LEMMA WriteAsks ==
  ASSUME IInv, NEW j \in jobs, NEW a \in ToSet(Attrs(j.src.kind)), UNCHANGED ref, NEW list,
         arr' = [arr EXCEPT ![ref[<<j.dst, a>>]] = list],
         \A sig \in ToSet(list) \ ToSet(List(j.dst, a)) : Asked(j.src, a, sig)
  PROVE  AsksNoMore(j, a)
<1>1. Written(j, a, list)
  BY WriteFacts
<1> QED BY <1>1 DEF Written, AsksNoMore

\* No source that is yet to be read loses a signature: the array of a list of
\* bindings is written to only while that source's own mergers begin.
LEMMA WriteLoses ==
  ASSUME IInv, MergersOrdered, NEW j \in jobs, NEW a \in ToSet(Attrs(j.src.kind)), UNCHANGED ref, NEW list,
         arr' = [arr EXCEPT ![ref[<<j.dst, a>>]] = list],
         \/ ToSet(List(j.dst, a)) \subseteq ToSet(list)
         \/ a = "bindingSignatures" /\ Fresh(j) /\ ref[<<j.dst, a>>] # <<j.src, a>>
  PROVE  LosesNone(j)
<1> SUFFICES ASSUME NEW s \in Components, NEW b \in ToSet(Attrs(s.kind)), ~Grows(s, b),
                    Waiting(s) \/ \E k \in jobs \ {j} : k.src = s /\ Before(k, b)
             PROVE  FALSE
  BY DEF LosesNone
<1>0. Written(j, a, list)
  BY WriteFacts
<1>1. s.of = "src"
  BY DEF Waiting, IInv, JobsRight, Sound
<1>2. List(s, b)' # List(s, b)
  BY DEF Grows
<1>3. /\ b = a /\ ref[<<j.dst, a>>] = <<s, a>>
      /\ List(s, a) = List(j.dst, a) /\ List(s, a)' = list
  BY <1>0, <1>1, <1>2 DEF Written
<1>4. ~Waiting(s) /\ s.kind = j.src.kind
  BY <1>1, <1>3, LoanFacts
<1>5. a = "bindingSignatures" /\ Fresh(j) /\ ref[<<j.dst, a>>] # <<j.src, a>>
  BY <1>3 DEF Grows
<1>6. PICK k \in jobs \ {j} : k.src = s /\ Before(k, b)
  BY <1>4
<1>7. Fresh(k)
  <2>1. s.kind \in Kinds /\ k.at \in 0..Len(Attrs(s.kind))
    BY <1>6, ComponentFacts DEF IInv, TypeOK
  <2>2. PICK i \in DOMAIN Attrs(s.kind) : i > k.at /\ Attrs(s.kind)[i] = "bindingSignatures"
    BY <1>3, <1>5, <1>6 DEF Before
  <2>3. s.kind = "subkey"
    <3>1. ASSUME s.kind = "key" PROVE FALSE
      BY <2>2, <3>1 DEF Attrs
    <3>2. ASSUME s.kind = "user" PROVE FALSE
      BY <2>2, <3>2 DEF Attrs
    <3> QED BY <2>1, <3>1, <3>2 DEF Kinds
  <2>4. i = 1
    BY <2>2, <2>3 DEF Attrs
  <2> QED BY <2>1, <2>2, <2>3, <2>4 DEF Fresh, Attrs
<1>8. s = j.src
  BY <1>5, <1>6, <1>7 DEF MergersOrdered
<1> QED BY <1>3, <1>5, <1>8

LEMMA MergeOrdered ==
  ASSUME IInv, MergersOrdered, NEW j \in jobs, MergeNext(j)
  PROVE  MergersOrdered'
<1>0. PICK a \in ToSet(Attrs(j.src.kind)) : \E m : Moves(j, a, m)
  BY MergeFacts
<1>1. PICK m : Moves(j, a, m)
  BY <1>0
<1>2. /\ jobs' = (jobs \ {j}) \cup {m} /\ m.at > 0 /\ m.src = j.src /\ m.at = j.at + 1
      /\ a = Attrs(j.src.kind)[j.at + 1] /\ UNCHANGED phase
  BY <1>1 DEF Moves
<1>3. Attr(m) = a
  BY <1>2 DEF Attr
<1>4. m.pending # {} => Checked(m.src.kind, Attr(m))
  BY <1>1, <1>2, <1>3 DEF Moves, Writes, Checked
<1>5. ~Fresh(m)
  BY <1>2 DEF Fresh
<1>6. phase # "returned"
  <2>1. j.at \in 0 .. Len(Attrs(j.src.kind)) /\ j.at < Len(Attrs(j.src.kind)) /\ j.src.kind \in Kinds
    BY ComponentFacts DEF IInv, TypeOK, MergeNext
  <2>2. ~Done(j)
    BY <2>1, AttrFacts DEF Done
  <2> QED BY <2>2 DEF MergersOrdered, PhaseOver
<1> QED BY <1>2, <1>4, <1>5, <1>6 DEF MergersOrdered

\* mergeSignatures up to its await: what is not expired joins the list, or is
\* stood for, or goes under check.
LEMMA MergeCome ==
  ASSUME IInv, IInv', MergersOrdered, SourcesCome, date = "given", NEW j \in jobs, MergeNext(j)
  PROVE  SourcesCome'
<1>0. PICK a \in ToSet(Attrs(j.src.kind)) : \E m : Moves(j, a, m)
  BY MergeFacts
<1>1. PICK m : Moves(j, a, m)
  BY <1>0
<1>2. /\ a = Attrs(j.src.kind)[j.at + 1] /\ j.at + 1 \in DOMAIN Attrs(j.src.kind)
      /\ jobs' = (jobs \ {j}) \cup {m} /\ j.pending = {}
      /\ m.src = j.src /\ m.dst = j.dst /\ m.at = j.at + 1 /\ m.at > 0
      /\ UNCHANGED <<phase, date, present, todo>>
      /\ Writes(j, a, m.pending)
  BY <1>1 DEF Moves
<1>3. /\ j.src \in Components /\ j.dst \in Components /\ Sound(j) /\ j.src.kind \in Kinds /\ j.at \in Nat
      /\ <<j.src, a>> \in Locs /\ <<j.dst, a>> \in Locs
      /\ ref[<<j.src, a>>] = <<j.src, a>> /\ ref[<<j.dst, a>>] # <<j.src, a>>
  <2>1. j.src.kind \in Kinds /\ j.at \in Nat
    <3>1. j.src.kind \in Kinds /\ j.at \in 0..Len(Attrs(j.src.kind))
      BY ComponentFacts DEF IInv, TypeOK
    <3> QED BY <3>1, AttrFacts
  <2>2. PICK i \in DOMAIN Attrs(j.src.kind) : i = j.at + 1 /\ i > j.at /\ Attrs(j.src.kind)[i] = a
    BY <1>2, <2>1
  <2> QED BY <2>1, <2>2, JobFacts
<1>4. /\ List(j.dst, a) \in Seq(Sigs) /\ List(j.src, a) \in Seq(Sigs)
      /\ j.src.of = "src" /\ j.dst.of # "src" /\ j.dst \in present
  BY <1>3, ListFacts, RefFacts DEF Sound
<1>5. Attr(m) = a
  BY <1>2 DEF Attr
<1>6. MergeStep
  BY MergeStepRight
<1>7. \A sig \in Valid \ Expired : ~isExpired(sig)
  BY DEF isExpired
<1>8. m.pending \subseteq ToSet(List(j.src, a))
  BY <1>2 DEF Writes
<1>9. \A b, sig : Checking(m, b, sig) => Asked(j.src, b, sig)
  BY <1>5, <1>8 DEF Checking, Asked
<1>10. ASSUME AsksNoMore(j, a), LosesNone(j),
              \A sig \in ToSet(List(j.src, a)) \cap (Valid \ Expired) : Has(j.dst, a, sig)' \/ sig \in m.pending
       PROVE  SourcesCome'
  <2>1. ASSUME NEW b \in ToSet(Attrs(j.src.kind)), NEW sig \in Valid \ Expired, Brings(j, b, sig)
        PROVE  Has(j.dst, b, sig)' \/ Brings(m, b, sig)'
    <3>1. sig \in ToSet(List(j.src, b))
      BY <1>2, <2>1 DEF Brings, Checking
    <3>2. PICK i \in DOMAIN Attrs(j.src.kind) : i > j.at /\ Attrs(j.src.kind)[i] = b
      BY <1>2, <2>1 DEF Brings, Checking, Before
    <3>3. i \in Nat
      BY <1>3, AttrFacts
    <3>4. CASE i = j.at + 1
      <4>1. Has(j.dst, a, sig)' \/ sig \in m.pending
        BY <1>2, <1>10, <3>1, <3>2, <3>4
      <4> QED BY <1>2, <1>5, <3>2, <3>4, <4>1 DEF Brings, Checking
    <3>5. CASE i # j.at + 1
      <4>1. b # a
        BY <1>2, <1>3, <3>2, <3>5, AttrFacts
      <4>2. List(j.src, b)' = List(j.src, b)
        BY <1>3, <1>4, <1>10, <4>1 DEF AsksNoMore
      <4>3. i > m.at
        BY <1>2, <1>3, <3>2, <3>3, <3>5
      <4>4. Before(m, b)
        BY <1>2, <3>2, <4>3 DEF Before
      <4>5. List(m.src, b)' = List(j.src, b)'
        BY <1>2 DEF List
      <4> QED BY <3>1, <4>2, <4>4, <4>5 DEF Brings
    <3> QED BY <3>4, <3>5
  <2>2. Delivers(j, m)
    BY <2>1 DEF Delivers
  <2> QED BY <1>2, <1>6, <1>9, <1>10, <2>2, MergerCome
<1>11. CASE List(j.dst, a) = <<>> /\ UNCHANGED arr /\ ref' = [ref EXCEPT ![<<j.dst, a>>] = ref[<<j.src, a>>]]
  <2>1. ref \in [Locs -> Locs]
    BY DEF IInv, TypeOK
  <2>2. ref'[<<j.dst, a>>] = ref[<<j.src, a>>] /\ \A l \in Locs : l # <<j.dst, a>> => ref'[l] = ref[l]
    BY <1>3, <1>11, <2>1
  <2>3. List(j.dst, a)' = List(j.src, a)
    BY <1>11, <2>2 DEF List
  <2>4. ASSUME NEW s \in Components, NEW b \in ToSet(Attrs(s.kind)), s.of = "src" PROVE List(s, b)' = List(s, b)
    <3>1. <<s, b>> \in Locs /\ <<s, b>> # <<j.dst, a>>
      BY <1>4, <2>4, LocFacts
    <3> QED BY <1>11, <2>2, <3>1 DEF List
  <2>5. AsksNoMore(j, a)
    BY <2>4 DEF AsksNoMore
  <2>6. LosesNone(j)
    <3>1. \A s \in Components, k \in jobs : Waiting(s) \/ k.src = s => s.of = "src"
      BY DEF Waiting, IInv, JobsRight, Sound
    <3> QED BY <2>4, <3>1 DEF LosesNone, Grows
  <2>7. \A sig \in ToSet(List(j.src, a)) : Has(j.dst, a, sig)'
    BY <2>3, StandsForOrder DEF Has
  <2> QED BY <1>10, <2>5, <2>6, <2>7
<1>12. CASE UNCHANGED ref /\ arr' = [arr EXCEPT ![ref[<<j.dst, a>>]] = FoldLeft(Appended, List(j.dst, a), List(j.src, a))]
  <2> DEFINE list == FoldLeft(Appended, List(j.dst, a), List(j.src, a))
  <2>1. ToSet(list) = ToSet(List(j.dst, a)) \cup {sig \in ToSet(List(j.src, a)) : ~isExpired(sig)}
    BY <1>4, AppendedRight
  <2>2. UNCHANGED ref /\ arr' = [arr EXCEPT ![ref[<<j.dst, a>>]] = list]
    BY <1>12
  <2> HIDE DEF list
  <2>3. \A sig \in ToSet(list) \ ToSet(List(j.dst, a)) : Asked(j.src, a, sig)
    BY <2>1 DEF Asked
  <2>4. AsksNoMore(j, a)
    BY <2>2, <2>3, WriteAsks
  <2>5. ToSet(List(j.dst, a)) \subseteq ToSet(list)
    BY <2>1
  <2>6. LosesNone(j)
    BY <2>2, <2>5, WriteLoses
  <2>7. List(j.dst, a)' = list
    BY <2>2, WriteFacts DEF Written
  <2>8. \A sig \in ToSet(List(j.src, a)) \cap (Valid \ Expired) : Has(j.dst, a, sig)'
    BY <1>7, <2>1, <2>7, StandsForOrder DEF Has
  <2> QED BY <1>10, <2>4, <2>6, <2>8
<1>13. CASE /\ UNCHANGED ref /\ a = "bindingSignatures"
            /\ m.pending = {sig \in ToSet(List(j.src, a)) : ~isExpired(sig) /\ Replaces(List(j.dst, a), sig) = {}}
            /\ arr' = [arr EXCEPT ![ref[<<j.dst, a>>]] = FoldLeft(Replaced, List(j.dst, a), List(j.src, a))]
  <2> DEFINE list == FoldLeft(Replaced, List(j.dst, a), List(j.src, a))
  <2>1. /\ ToSet(list) \subseteq ToSet(List(j.dst, a)) \cup ToSet(List(j.src, a))
        /\ \A sig \in ToSet(List(j.src, a)) : ~isExpired(sig) /\ Replaces(List(j.dst, a), sig) # {} =>
             \E new \in ToSet(list) : StandsFor("bindingSignatures", new, sig)
    BY <1>4, ReplacedRight
  <2>2. UNCHANGED ref /\ arr' = [arr EXCEPT ![ref[<<j.dst, a>>]] = list]
    BY <1>13
  <2> HIDE DEF list
  <2>3. \A sig \in ToSet(list) \ ToSet(List(j.dst, a)) : Asked(j.src, a, sig)
    BY <2>1 DEF Asked
  <2>4. AsksNoMore(j, a)
    BY <2>2, <2>3, WriteAsks
  <2>5. Fresh(j)
    <3>1. j.src.kind = "subkey"
      <4>1. ASSUME j.src.kind = "key" PROVE FALSE
        BY <1>13, <4>1 DEF Attrs, ToSet
      <4>2. ASSUME j.src.kind = "user" PROVE FALSE
        BY <1>13, <4>2 DEF Attrs, ToSet
      <4> QED BY <1>3, <4>1, <4>2 DEF Kinds
    <3> QED BY <1>2, <1>3, <1>13, <3>1 DEF Attrs, Fresh
  <2>6. LosesNone(j)
    BY <1>3, <1>13, <2>2, <2>5, WriteLoses, ZenonT(40)
  <2>7. List(j.dst, a)' = list
    BY <2>2, WriteFacts DEF Written
  <2>8. \A sig \in ToSet(List(j.src, a)) \cap (Valid \ Expired) : Has(j.dst, a, sig)' \/ sig \in m.pending
    BY <1>7, <1>13, <2>1, <2>7 DEF Has
  <2> QED BY <1>10, <2>4, <2>6, <2>8
<1>14. CASE UNCHANGED <<arr, ref>> /\ m.pending = {sig \in ToSet(List(j.src, a)) : ~isExpired(sig)}
  <2>1. \A s, b : List(s, b)' = List(s, b)
    BY <1>14 DEF List
  <2>2. AsksNoMore(j, a) /\ LosesNone(j)
    BY <2>1 DEF AsksNoMore, LosesNone, Grows
  <2> QED BY <1>7, <1>10, <1>14, <2>2
<1> QED BY <1>2, <1>11, <1>12, <1>13, <1>14 DEF Writes

\* The check is done: a good signature joins the list, if it is not there.
LEMMA CheckCome ==
  ASSUME IInv, IInv', MergersOrdered, SourcesCome, NEW j \in jobs, NEW sig \in Sigs, CheckDone(j, sig)
  PROVE  SourcesCome'
<1> DEFINE a == Attr(j)
           m == [j EXCEPT !.pending = @ \ {sig}]
           target == ref[<<j.dst, a>>]
           list == IF Passes(j.src.kind, a, sig) /\ sig \notin ToSet(List(j.dst, a))
                   THEN Append(List(j.dst, a), sig) ELSE List(j.dst, a)
<1>1. /\ j.pending # {} /\ j.at > 0 /\ m.src = j.src /\ m.dst = j.dst /\ m.at = j.at /\ m.pending = j.pending \ {sig}
      /\ a \in ToSet(Attrs(j.src.kind)) /\ List(j.dst, a) \in Seq(Sigs) /\ target \in Locs
  BY CheckFacts
<1>2. jobs' = (jobs \ {j}) \cup {m} /\ UNCHANGED <<phase, date, ref, present, todo>> /\ sig \in j.pending
  BY DEF CheckDone
<1>3. arr' = [arr EXCEPT ![target] = list]
  <2>1. arr \in [Locs -> Seq(Sigs)] /\ arr[target] = List(j.dst, a)
    BY DEF IInv, TypeOK, List
  <2>2. arr' = IF Passes(j.src.kind, a, sig) /\ sig \notin ToSet(arr[target])
               THEN [arr EXCEPT ![target] = Append(@, sig)] ELSE arr
    BY DEF CheckDone
  <2> HIDE DEF target, a
  <2> QED BY <1>1, <2>1, <2>2
<1>4. /\ ToSet(List(j.dst, a)) \subseteq ToSet(list) /\ ToSet(list) \subseteq ToSet(List(j.dst, a)) \cup {sig}
      /\ Passes(j.src.kind, a, sig) => sig \in ToSet(list)
  BY <1>1, AppendRight
<1>5. Attr(m) = a /\ Attr(j) = a
  BY <1>1 DEF Attr
<1>6. j.src.kind = "key" => a = "revocationSignatures"
  <2>1. Checked(j.src.kind, a)
    BY <1>1, <1>5 DEF MergersOrdered
  <2>2. ASSUME j.src.kind = "key" PROVE a = "revocationSignatures"
    <3>1. a \in ToSet(Attrs("key"))
      BY <1>1, <2>2
    <3> HIDE DEF a
    <3> QED BY <2>1, <3>1 DEF Attrs, ToSet, Checked
  <2> QED BY <2>2
<1>7. UNCHANGED ref /\ arr' = [arr EXCEPT ![ref[<<j.dst, a>>]] = list]
  BY <1>2, <1>3
<1>8. MergeStep
  BY CheckStepRight
<1> HIDE DEF a, m, target, list
<1>9. Checking(j, a, sig)
  BY <1>1, <1>2, <1>5 DEF Checking
<1>10. \A b, s : Checking(m, b, s) => Checking(j, b, s)
  BY <1>1, <1>5 DEF Checking
<1>11. \A b, s : Checking(j, b, s) => Asked(j.src, b, s)
  BY DEF Asked
<1>12. AsksNoMore(j, a)
  BY <1>1, <1>4, <1>7, <1>9, <1>11, WriteAsks
<1>13. LosesNone(j)
  BY <1>1, <1>4, <1>7, WriteLoses
<1>14. Written(j, a, list)
  BY <1>1, <1>7, WriteFacts
<1>15. ASSUME NEW b \in ToSet(Attrs(j.src.kind)), NEW s \in Valid \ Expired, Brings(j, b, s),
              ~(j.src.kind = "key" /\ b = "revocationSignatures")
       PROVE  Has(j.dst, b, s)' \/ Brings(m, b, s)'
  <2>1. CASE Checking(j, b, s) /\ s # sig
    BY <1>1, <1>5, <2>1 DEF Brings, Checking
  <2>2. CASE Checking(j, b, s) /\ s = sig
    <3>1. b = a /\ j.src.kind # "key"
      BY <1>5, <1>6, <1>15, <2>2 DEF Checking
    <3>2. sig \in ToSet(list)
      BY <1>4, <1>15, <2>2, <3>1 DEF Passes
    <3>3. List(j.dst, a)' = list
      BY <1>14 DEF Written
    <3> QED BY <2>2, <3>1, <3>2, <3>3, StandsForOrder DEF Has
  <2>3. CASE Before(j, b) /\ s \in ToSet(List(j.src, b))
    <3>1. Before(m, b)
      BY <1>1, <2>3 DEF Before
    <3>2. Grows(j.src, b)
      <4>1. j.src \in Components /\ j.src.of = "src"
        BY DEF IInv, TypeOK, JobsRight, Sound
      <4>2. List(j.src, b)' = List(j.src, b) \/ (List(j.src, b) = List(j.dst, a) /\ List(j.src, b)' = list)
        BY <1>14, <1>15, <4>1 DEF Written
      <4> QED BY <1>4, <4>2 DEF Grows
    <3>3. List(m.src, b)' = List(j.src, b)'
      BY <1>1 DEF List
    <3> QED BY <2>3, <3>1, <3>2, <3>3 DEF Brings, Grows
  <2> QED BY <1>15, <2>1, <2>2, <2>3 DEF Brings
<1>16. Delivers(j, m)
  BY <1>15 DEF Delivers
<1>17. \A b, s : Checking(m, b, s) => Asked(j.src, b, s)
  BY <1>10, <1>11
<1> QED BY <1>1, <1>2, <1>8, <1>12, <1>13, <1>16, <1>17, MergerCome

LEMMA CheckOrdered ==
  ASSUME IInv, MergersOrdered, NEW j \in jobs, NEW sig \in Sigs, CheckDone(j, sig)
  PROVE  MergersOrdered'
<1> DEFINE m == [j EXCEPT !.pending = @ \ {sig}]
<1>1. j.pending # {} /\ j.at > 0 /\ m.src = j.src /\ m.at = j.at /\ m.pending = j.pending \ {sig}
  BY CheckFacts
<1>2. jobs' = (jobs \ {j}) \cup {m} /\ UNCHANGED phase
  BY DEF CheckDone
<1> HIDE DEF m
<1>3. phase # "returned"
  BY <1>1 DEF MergersOrdered, PhaseOver, Done
<1>4. Attr(m) = Attr(j) /\ ~Fresh(m)
  BY <1>1 DEF Attr, Fresh
<1> QED BY <1>1, <1>2, <1>3, <1>4 DEF MergersOrdered

\* The next source component is merged into what has its ID, or cloned.
LEMMA DispatchCome ==
  ASSUME IInv, SourcesCome, Dispatch
  PROVE  SourcesCome'
<1>0. Head(todo) \in Components /\ [Head(todo) EXCEPT !.of = "new"] \in Components
  BY DispatchFacts
<1> PICK s \in Components : s = Head(todo)
  BY <1>0
<1> PICK clone \in Components : clone = [s EXCEPT !.of = "new"]
  BY <1>0
<1> DEFINE matches == {x \in present : x.kind = s.kind /\ Id(x) = Id(s)}
<1>1. /\ s \in Components /\ s.of = "src" /\ s \in ToSet(todo)
      /\ ToSet(todo') \subseteq ToSet(todo)
      /\ clone \in Components /\ clone.of = "new" /\ clone.kind = s.kind /\ Id(clone) = Id(s)
      /\ Ahead' = Ahead
  BY DispatchFacts
<1>2. /\ IF matches # {}
         THEN jobs' = jobs \cup {Job(s, d) : d \in matches} /\ UNCHANGED <<arr, present>>
         ELSE /\ present' = present \cup {clone}
              /\ arr' = [l \in Locs |-> IF l[1] = clone THEN List(s, l[2]) ELSE arr[l]]
              /\ UNCHANGED jobs
      /\ UNCHANGED <<phase, date, ref>>
  BY DEF Dispatch
<1>3. Targets(s) = matches /\ Waiting(s)
  BY <1>1 DEF Targets, Waiting
<1>4. ToSet(todo) \subseteq ToSet(todo') \cup {s}
  <2>1. /\ Len(todo) \in Nat /\ Len(todo) > 0 /\ DOMAIN todo = 1..Len(todo) /\ s = todo[1]
        /\ DOMAIN todo' = 1..(Len(todo) - 1)
        /\ \A i \in 1..(Len(todo) - 1) : todo'[i] = todo[i + 1]
    BY DEF Dispatch, IInv, TypeOK
  <2>2. ASSUME NEW i \in DOMAIN todo, i # 1 PROVE todo[i] \in ToSet(todo')
    <3>1. i - 1 \in DOMAIN todo' /\ todo'[i - 1] = todo[i]
      BY <2>1, <2>2
    <3> QED BY <3>1 DEF ToSet
  <2> QED BY <2>1, <2>2 DEF ToSet
<1>5. \A t : Waiting(t) /\ t # s => Waiting(t)'
  BY <1>1, <1>4 DEF Waiting
<1>6. CASE matches # {}
  <2>1. \A d : Job(s, d).src = s /\ Job(s, d).dst = d /\ Job(s, d).at = 0 /\ Job(s, d).pending = {}
    BY DEF Job
  <2>2. jobs' = jobs \cup {Job(s, d) : d \in matches} /\ UNCHANGED <<arr, present>>
    BY <1>2, <1>6
  <2>3. \A t : Targets(t)' = Targets(t)
    BY <2>2 DEF Targets
  <2>4. \A t, b : List(t, b)' = List(t, b)
    BY <1>2, <2>2 DEF List
  <2>5. \A t, b, sig : Asked(t, b, sig)' => Asked(t, b, sig)
    BY <2>1, <2>2, <2>4 DEF Asked, Checking
  <2>6. ASSUME NEW x \in present, NEW b \in ToSet(Attrs(x.kind)), NEW sig, Comes(x, b, sig)
        PROVE  Comes(x, b, sig)'
    <3>1. CASE \E j \in jobs : j.dst = x /\ (Checking(j, b, sig) \/ (Before(j, b) /\ sig \in ToSet(List(j.src, b))))
      BY <2>2, <2>4, <3>1 DEF Comes
    <3>2. ASSUME NEW t \in Components, Waiting(t), x \in Targets(t), sig \in ToSet(List(t, b)), t # s
          PROVE  Comes(x, b, sig)'
      BY <1>5, <2>3, <2>4, <3>2 DEF Comes
    <3>3. ASSUME x \in Targets(s), sig \in ToSet(List(s, b)) PROVE Comes(x, b, sig)'
      <4>1. PICK new \in jobs' : new.src = s /\ new.dst = x /\ new.at = 0
        BY <1>3, <2>1, <2>2, <3>3
      <4>2. b \in ToSet(Attrs(s.kind)) /\ s.kind \in Kinds
        BY <1>1, <3>3, ComponentFacts DEF Targets
      <4>3. PICK i \in DOMAIN Attrs(s.kind) : Attrs(s.kind)[i] = b
        BY <4>2, AttrFacts
      <4>4. i > 0
        BY <4>2, AttrFacts
      <4>5. Before(new, b)
        BY <4>1, <4>3, <4>4 DEF Before
      <4>6. sig \in ToSet(List(s, b)')
        BY <2>4, <3>3
      <4>7. List(new.src, b)' = List(s, b)'
        BY <4>1 DEF List
      <4> QED BY <4>1, <4>5, <4>6, <4>7 DEF Comes
    <3> QED BY <2>6, <3>1, <3>2, <3>3 DEF Comes
  <2>7. \A x, b, sig : Has(x, b, sig)' <=> Has(x, b, sig)
    BY <2>4 DEF Has
  <2>8. ASSUME NEW t \in Components, t.of = "src"
        PROVE  /\ Waiting(t)' \/ Targets(t)' # {}
               /\ \A b \in ToSet(Attrs(t.kind)) : AllCome(t, b)' \/ (t.kind = "key" /\ b = "revocationSignatures")
    <3>1. Waiting(t)' \/ Targets(t)' # {}
      BY <1>3, <1>5, <1>6, <2>3, <2>8 DEF SourcesCome
    <3>2. ASSUME NEW b \in ToSet(Attrs(t.kind)), AllCome(t, b) PROVE AllCome(t, b)'
      <4> SUFFICES ASSUME NEW sig \in Valid \ Expired, Asked(t, b, sig)', NEW x \in Targets(t)
                   PROVE  Has(x, b, sig)' \/ Comes(x, b, sig)'
        BY <2>3 DEF AllCome
      <4>1. Has(x, b, sig) \/ Comes(x, b, sig)
        BY <2>5, <3>2 DEF AllCome
      <4>2. x \in present /\ b \in ToSet(Attrs(x.kind))
        BY <3>2 DEF Targets
      <4> QED BY <2>6, <2>7, <4>1, <4>2
    <3> QED BY <2>8, <3>1, <3>2 DEF SourcesCome
  <2> QED BY <2>8 DEF SourcesCome
<1>7. CASE matches = {}
  <2>1. clone \notin present
    BY <1>1, <1>7
  <2>2. /\ jobs' = jobs /\ present' = present \cup {clone}
        /\ arr' = [l \in Locs |-> IF l[1] = clone THEN List(s, l[2]) ELSE arr[l]]
    BY <1>2, <1>7
  <2> HIDE DEF matches
  <2>3. \A l \in Locs : ref[l] = l \/ ref[l][1].of = "src"
    BY DEF IInv, RefRight, Borrows
  <2>4. ASSUME NEW x \in Components, NEW b \in ToSet(Attrs(x.kind)), x # clone PROVE List(x, b)' = List(x, b)
    <3>1. <<x, b>> \in Locs /\ <<x, b>>[1] = x
      BY LocFacts
    <3>2. ref[<<x, b>>] \in Locs /\ ref[<<x, b>>][1] # clone
      BY <1>1, <2>3, <2>4, <3>1, RefFacts
    <3> QED BY <1>2, <2>2, <3>2 DEF List
  <2>5. ASSUME NEW b \in ToSet(Attrs(clone.kind)) PROVE List(clone, b)' = List(s, b)
    <3>1. <<clone, b>> \in Locs /\ <<clone, b>>[1] = clone /\ <<clone, b>>[2] = b
      BY <1>1, LocFacts
    <3>2. ref'[<<clone, b>>] = <<clone, b>>
      BY <1>2, <2>1, <3>1, RefFacts
    <3> QED BY <2>2, <3>1, <3>2 DEF List
  <2>6. \A x \in present : x \in Components /\ x # clone
    BY <2>1, RefFacts
  <2>7. \A t \in Components : t.of = "src" => t # clone
    BY <1>1
  <2>8. \A t : Targets(t)' = Targets(t) \cup {x \in {clone} : x.kind = t.kind /\ Id(x) = Id(t)}
    BY <2>2 DEF Targets
  <2>9. \A j \in jobs : j.src \in Components /\ j.src.of = "src" /\ j.dst \in Targets(j.src)
    BY DEF IInv, TypeOK, JobsRight, Sound, Targets
  <2>10. \A t \in Components : t.kind = clone.kind /\ Id(clone) = Id(t) => Targets(t) = {}
    BY <1>1, <1>3, <1>7 DEF Targets
  <2>11. ASSUME NEW t \in Components, t.of = "src", NEW b \in ToSet(Attrs(t.kind)), NEW sig, Asked(t, b, sig)'
         PROVE  Asked(t, b, sig)
    BY <2>2, <2>4, <2>7, <2>11 DEF Asked
  <2>12. ASSUME NEW x \in present, NEW b \in ToSet(Attrs(x.kind)), NEW sig, Comes(x, b, sig)
         PROVE  Comes(x, b, sig)'
    <3>1. ASSUME NEW j \in jobs, j.dst = x, Checking(j, b, sig) \/ (Before(j, b) /\ sig \in ToSet(List(j.src, b)))
          PROVE  Comes(x, b, sig)'
      <4>1. b \in ToSet(Attrs(j.src.kind))
        BY <2>9, <3>1 DEF Targets
      <4>2. List(j.src, b)' = List(j.src, b)
        BY <2>4, <2>7, <2>9, <4>1
      <4> QED BY <2>2, <3>1, <4>2 DEF Comes
    <3>2. ASSUME NEW t \in Components, Waiting(t), x \in Targets(t), sig \in ToSet(List(t, b))
          PROVE  Comes(x, b, sig)'
      <4>1. t # s /\ b \in ToSet(Attrs(t.kind)) /\ t.of = "src"
        BY <1>3, <1>7, <3>2 DEF Targets, Waiting
      <4>2. Waiting(t)' /\ x \in Targets(t)' /\ List(t, b)' = List(t, b)
        BY <1>5, <2>4, <2>7, <2>8, <3>2, <4>1
      <4> QED BY <3>2, <4>2 DEF Comes
    <3> QED BY <2>12, <3>1, <3>2 DEF Comes
  <2>13. ASSUME NEW x \in present, NEW b \in ToSet(Attrs(x.kind)), NEW sig, Has(x, b, sig) PROVE Has(x, b, sig)'
    BY <2>4, <2>6, <2>13 DEF Has
  <2>14. ASSUME NEW t \in Components, t.of = "src", NEW b \in ToSet(Attrs(t.kind)), AllCome(t, b)
         PROVE  AllCome(t, b)'
    <3> SUFFICES ASSUME NEW sig \in Valid \ Expired, Asked(t, b, sig)', NEW x \in Targets(t)'
                 PROVE  Has(x, b, sig)' \/ Comes(x, b, sig)'
      BY DEF AllCome
    <3>1. Asked(t, b, sig)
      BY <2>11, <2>14
    <3>2. CASE x \in Targets(t)
      <4>1. Has(x, b, sig) \/ Comes(x, b, sig)
        BY <2>14, <3>1, <3>2 DEF AllCome
      <4>2. x \in present /\ b \in ToSet(Attrs(x.kind))
        BY <2>14, <3>2 DEF Targets
      <4> QED BY <2>12, <2>13, <4>1, <4>2
    <3>3. CASE x = clone /\ clone.kind = t.kind /\ Id(clone) = Id(t)
      <4>1. Targets(t) = {}
        BY <2>10, <3>3
      <4>2. ~\E j \in jobs : j.src = t
        BY <2>9, <4>1
      <4>3. sig \in ToSet(List(t, b))
        BY <3>1, <4>2 DEF Asked
      <4>4. CASE t = s
        <5>1. sig \in ToSet(List(clone, b)')
          BY <2>5, <2>14, <3>3, <4>3, <4>4
        <5> QED BY <3>3, <5>1, StandsForOrder DEF Has
      <4>5. CASE t # s
        <5>1. Waiting(t)'
          BY <1>5, <2>14, <4>1, <4>5 DEF SourcesCome
        <5>2. List(t, b)' = List(t, b)
          BY <2>4, <2>7, <2>14
        <5>3. sig \in ToSet(List(t, b)')
          BY <4>3, <5>2
        <5> QED BY <5>1, <5>3 DEF Comes
      <4> QED BY <4>4, <4>5
    <3> QED BY <2>8, <3>2, <3>3
  <2>15. ASSUME NEW t \in Components, t.of = "src" PROVE Waiting(t)' \/ Targets(t)' # {}
    <3>1. CASE t = s
      BY <1>1, <2>8, <3>1
    <3>2. CASE t # s
      BY <1>5, <2>8, <2>15, <3>2 DEF SourcesCome
    <3> QED BY <3>1, <3>2
  <2> QED BY <2>14, <2>15 DEF SourcesCome
<1> QED BY <1>6, <1>7

LEMMA DispatchOrdered ==
  ASSUME MergersOrdered, Dispatch
  PROVE  MergersOrdered'
<1>1. /\ todo # <<>> /\ (\A j \in jobs : ~Fresh(j)) /\ UNCHANGED phase
      /\ jobs' \subseteq jobs \cup {Job(Head(todo), d) : d \in present}
  BY DEF Dispatch
<1>2. \A d : Job(Head(todo), d).src = Head(todo) /\ Job(Head(todo), d).pending = {}
  BY DEF Job
<1>3. phase # "returned"
  BY <1>1 DEF MergersOrdered, PhaseOver
<1> QED BY <1>1, <1>2, <1>3 DEF MergersOrdered

\* Between phases no merger is left: what comes, comes with a later phase.
LEMMA EnterCome ==
  ASSUME IInv, SourcesCome, PhaseOver, UNCHANGED <<arr, ref, present>>,
         \A s \in Components : Waiting(s) => Waiting(s)', \A j \in jobs' : j \in jobs
  PROVE  SourcesCome'
<1>1. \A x, b : List(x, b)' = List(x, b)
  BY DEF List
<1>2. \A x : Targets(x)' = Targets(x)
  BY DEF Targets
<1>3. \A x, b, sig : Has(x, b, sig)' <=> Has(x, b, sig)
  BY <1>1 DEF Has
<1>4. \A s, b, sig : Asked(s, b, sig)' => Asked(s, b, sig)
  BY <1>1 DEF Asked
<1>5. ASSUME NEW x, NEW b, NEW sig, Comes(x, b, sig) PROVE Comes(x, b, sig)'
  <2>1. ASSUME NEW j \in jobs PROVE ~Checking(j, b, sig) /\ ~Before(j, b)
    <3>1. j.at = Len(Attrs(j.src.kind)) /\ j.pending = {} /\ j.src.kind \in Kinds
      BY ComponentFacts DEF PhaseOver, Done, IInv, TypeOK
    <3>2. ASSUME NEW i \in DOMAIN Attrs(j.src.kind) PROVE ~(i > j.at)
      BY <3>1, AttrFacts
    <3> QED BY <3>1, <3>2 DEF Checking, Before
  <2>2. PICK s \in Components : Waiting(s) /\ x \in Targets(s) /\ sig \in ToSet(List(s, b))
    BY <1>5, <2>1 DEF Comes
  <2>3. Waiting(s)' /\ x \in Targets(s)' /\ sig \in ToSet(List(s, b)')
    BY <1>1, <1>2, <2>2
  <2> QED BY <2>3 DEF Comes
<1>6. ASSUME NEW s, NEW b, AllCome(s, b) PROVE AllCome(s, b)'
  BY <1>2, <1>3, <1>4, <1>5, <1>6 DEF AllCome
<1> QED BY <1>2, <1>6 DEF SourcesCome

\* The sources of a phase are all its turn comes to.
LEMMA EnterWaits ==
  ASSUME NEW kind \in Kinds, todo = <<>>, todo' = Sources(kind), Ahead \subseteq Ahead' \cup {kind}
  PROVE  \A s \in Components : Waiting(s) => Waiting(s)'
<1> SUFFICES ASSUME NEW s \in Components, s.of = "src", s.kind \in Ahead
             PROVE  s.kind \in Ahead' \/ s \in ToSet(todo')
  BY DEF Waiting, ToSet
<1>1. CASE s.kind = kind
  <2>1. s.n \in DOMAIN Ids("src", kind) /\ s = Component("src", kind, s.n)
    BY <1>1, ComponentFacts
  <2>2. Sources(kind) = [n \in DOMAIN Ids("src", kind) |-> Component("src", kind, n)]
    BY DEF Sources
  <2> HIDE DEF Sources
  <2>3. s.n \in DOMAIN Sources(kind) /\ s = Sources(kind)[s.n]
    BY <2>1, <2>2
  <2> QED BY <2>3 DEF ToSet
<1>2. CASE s.kind # kind
  BY <1>2
<1> QED BY <1>1, <1>2

LEMMA InitComes == Init => MInv
<1> SUFFICES ASSUME Init PROVE MInv
  OBVIOUS
<1>1. jobs = {} /\ phase = "called" /\ Ahead = Kinds
  BY DEF Init, Ahead
<1>2. MergersOrdered
  BY <1>1 DEF MergersOrdered
<1>3. \A s \in Components : s.of = "src" => Waiting(s)
  BY <1>1, ComponentFacts DEF Waiting
<1>4. ASSUME NEW s \in Components, s.of = "src", NEW a PROVE AllCome(s, a)
  BY <1>1, <1>3, <1>4 DEF AllCome, Asked, Comes
<1>5. SourcesCome
  BY <1>3, <1>4 DEF SourcesCome
<1> QED BY <1>2, <1>5, InitRight DEF MInv

\* A phase begins.
LEMMA PhaseComes ==
  ASSUME MInv, PhaseOver, NEW kind \in Kinds, Enter(kind, kind), UNCHANGED <<date, arr, ref, present>>,
         Ahead \subseteq Ahead' \cup {kind}, phase # "threw"
  PROVE  MergersOrdered' /\ (date' = "given" => SourcesCome')
<1>1. phase' = kind /\ jobs' = {} /\ todo' = Sources(kind) /\ todo = <<>> /\ kind # "returned"
  BY DEF Enter, PhaseOver, Kinds
<1>2. MergersOrdered'
  BY <1>1 DEF MergersOrdered
<1>3. \A s \in Components : Waiting(s) => Waiting(s)'
  BY <1>1, EnterWaits
<1>4. ASSUME date' = "given" PROVE SourcesCome'
  <2>1. SourcesCome
    BY <1>4 DEF MInv
  <2> QED BY <1>1, <1>3, <2>1, EnterCome DEF MInv
<1> QED BY <1>2, <1>4

LEMMA NextComes == MInv /\ [Next]_vars => MInv'
<1> SUFFICES ASSUME MInv, [Next]_vars PROVE MInv'
  OBVIOUS
<1>0. IInv /\ IInv' /\ MergersOrdered /\ (date = "given" /\ phase # "threw" => SourcesCome)
  BY NextKeeps DEF MInv
<1> SUFFICES MergersOrdered' /\ (date' = "given" /\ phase' # "threw" => SourcesCome')
  BY <1>0 DEF MInv
<1>1. CASE UNCHANGED vars
  <2>1. UNCHANGED <<phase, date, arr, ref, present, todo, jobs>>
    BY <1>1 DEF vars
  <2>2. MergersOrdered'
    BY <1>0, <2>1 DEF MergersOrdered, PhaseOver
  <2>3. SourcesCome => SourcesCome'
    <3>1. \A x, b : List(x, b)' = List(x, b)
      BY <2>1 DEF List
    <3>2. \A x : Targets(x)' = Targets(x) /\ Waiting(x)' = Waiting(x)
      BY <2>1 DEF Targets, Waiting, Ahead
    <3>3. \A x, b, sig : (Has(x, b, sig)' <=> Has(x, b, sig)) /\ (Asked(x, b, sig)' <=> Asked(x, b, sig))
      BY <2>1, <3>1 DEF Has, Asked
    <3>4. \A x, b, sig : Comes(x, b, sig)' <=> Comes(x, b, sig)
      BY <2>1, <3>1, <3>2 DEF Comes
    <3>5. \A x, b : AllCome(x, b)' <=> AllCome(x, b)
      BY <3>2, <3>3, <3>4 DEF AllCome
    <3> QED BY <3>2, <3>5 DEF SourcesCome
  <2> QED BY <1>0, <2>1, <2>2, <2>3
<1>2. CASE Update
  <2>1. /\ "key" \in Kinds /\ PhaseOver /\ Ahead \subseteq Ahead' \cup {"key"} /\ phase = "called"
        /\ Enter("key", "key") /\ UNCHANGED <<date, arr, ref, present>>
    BY <1>0, <1>2, CalledEmpty DEF Update, PhaseOver, Ahead, Kinds, Enter
  <2> QED BY <2>1, PhaseComes
<1>3. CASE UpdateSwapped
  <2>1. (phase' = "key" /\ jobs' = {} /\ date' = "invalid") \/ (phase' = "threw" /\ UNCHANGED jobs)
    BY <1>3 DEF UpdateSwapped, Enter
  <2> QED BY <1>0, <2>1 DEF MergersOrdered
<1>4. CASE Dispatch
  <2>1. UNCHANGED <<phase, date>>
    BY <1>4 DEF Dispatch
  <2> QED BY <1>0, <1>4, <2>1, DispatchCome, DispatchOrdered
<1>5. ASSUME NEW j \in jobs, MergeNext(j) PROVE MergersOrdered' /\ (date' = "given" /\ phase' # "threw" => SourcesCome')
  <2>1. UNCHANGED <<phase, date>>
    BY <1>5 DEF MergeNext
  <2> QED BY <1>0, <1>5, <2>1, MergeCome, MergeOrdered
<1>6. ASSUME NEW j \in jobs, NEW sig \in Sigs, CheckDone(j, sig)
      PROVE  MergersOrdered' /\ (date' = "given" /\ phase' # "threw" => SourcesCome')
  <2>1. UNCHANGED <<phase, date>>
    BY <1>6 DEF CheckDone
  <2> QED BY <1>0, <1>6, <2>1, CheckCome, CheckOrdered
<1>7. CASE UpdateUsers
  <2>1. /\ "user" \in Kinds /\ PhaseOver /\ Ahead \subseteq Ahead' \cup {"user"} /\ phase = "key"
        /\ Enter("user", "user") /\ UNCHANGED <<date, arr, ref, present>>
    BY <1>7 DEF UpdateUsers, Ahead, Kinds, Enter
  <2> QED BY <2>1, PhaseComes
<1>8. CASE UpdateSubkeys
  <2>1. /\ "subkey" \in Kinds /\ PhaseOver /\ Ahead \subseteq Ahead' \cup {"subkey"} /\ phase = "user"
        /\ Enter("subkey", "subkey") /\ UNCHANGED <<date, arr, ref, present>>
    BY <1>8 DEF UpdateSubkeys, Ahead, Kinds, Enter
  <2> QED BY <2>1, PhaseComes
<1>9. CASE UpdateReturns
  <2>1. UNCHANGED <<date, arr, ref, present, todo, jobs>> /\ phase = "subkey" /\ PhaseOver
    BY <1>9 DEF UpdateReturns
  <2>2. MergersOrdered' /\ Ahead' = Ahead
    BY <1>0, <1>9, <2>1 DEF UpdateReturns, MergersOrdered, PhaseOver, Ahead
  <2>3. \A s \in Components : Waiting(s) => Waiting(s)'
    BY <2>1, <2>2 DEF Waiting
  <2>4. SourcesCome => SourcesCome'
    BY <1>0, <2>1, <2>3, EnterCome
  <2> QED BY <1>0, <2>1, <2>2, <2>4
<1> QED BY <1>1, <1>2, <1>3, <1>4, <1>5, <1>6, <1>7, <1>8, <1>9 DEF Next

\* When update returns, every valid, unexpired signature of the source is in
\* every user and subkey that it belongs to, and each of these is there:
\* whatever the order in which checks come back (key.js:222-279, helper.js:206-229).
THEOREM NothingMissing == Spec => []MergeComplete
<1>1. MInv => MergeComplete
  <2> SUFFICES ASSUME MInv, phase = "returned", date = "given",
                      NEW l \in Locs, l[1].of = "src", l # <<Component("src", "key", 1), "revocationSignatures">>,
                      NEW sig \in ToSet(List(l[1], l[2])) \cap (Valid \ Expired)
               PROVE  Targets(l[1]) # {} /\ \A x \in Targets(l[1]) : Has(x, l[2], sig)
    BY DEF MergeComplete
  <2>1. IInv /\ MergersOrdered /\ SourcesCome
    BY DEF MInv
  <2>2. l[1] \in Components /\ l[2] \in ToSet(Attrs(l[1].kind)) /\ l = <<l[1], l[2]>>
    BY LocFacts
  <2>3. PhaseOver /\ Ahead = {} /\ \A s : ~Waiting(s)
    BY <2>1 DEF MergersOrdered, PhaseOver, Ahead, Waiting, ToSet
  <2>4. ~(l[1].kind = "key" /\ l[2] = "revocationSignatures")
    <3> SUFFICES ASSUME l[1].kind = "key", l[2] = "revocationSignatures" PROVE FALSE
      OBVIOUS
    <3>1. l[1].n \in DOMAIN <<"key">> /\ l[1] = Component("src", "key", l[1].n)
      BY <2>2, ComponentFacts DEF Ids
    <3>2. l[1].n = 1
      BY <3>1
    <3> QED BY <2>2, <3>1, <3>2
  <2>5. Targets(l[1]) # {} /\ AllCome(l[1], l[2])
    BY <2>1, <2>2, <2>3, <2>4 DEF SourcesCome
  <2>6. ASSUME NEW x \in Targets(l[1]) PROVE Has(x, l[2], sig)
    <3>1. Has(x, l[2], sig) \/ Comes(x, l[2], sig)
      BY <2>5 DEF AllCome, Asked
    <3>2. ASSUME NEW j \in jobs PROVE ~Checking(j, l[2], sig) /\ ~Before(j, l[2])
      <4>1. j.at = Len(Attrs(j.src.kind)) /\ j.pending = {} /\ j.src.kind \in Kinds
        BY <2>1, <2>3, ComponentFacts DEF PhaseOver, Done, IInv, TypeOK
      <4>2. ASSUME NEW i \in DOMAIN Attrs(j.src.kind) PROVE ~(i > j.at)
        BY <4>1, AttrFacts
      <4> QED BY <4>1, <4>2 DEF Checking, Before
    <3> QED BY <2>3, <3>1, <3>2 DEF Comes
  <2> QED BY <2>5, <2>6
<1>2. Spec => []MInv
  BY InitComes, NextComes, PTL DEF Spec
<1> QED BY <1>1, <1>2, PTL
=============================================================================
