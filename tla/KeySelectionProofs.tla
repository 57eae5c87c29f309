-------------------------- MODULE KeySelectionProofs --------------------------
(***************************************************************************)
(* Proofs about KeySelection: what getLatestValidSignature finds in any    *)
(* list of signatures, that no query ever answers otherwise because of the *)
(* marks that earlier queries have left, and what the queries answer.      *)
(***************************************************************************)
EXTENDS KeySelectionInvariant, FoldProofs

(* The index of the latest valid signature, after the k-th signature from  *)
(* the front was visited; those after it have been visited before.         *)
Visits(f, sigs, issuer, date) ==
  /\ f[Len(sigs) + 1] = 0 /\ getLatestValidSignature(sigs, issuer, date) = f[1]
  /\ \A k \in 1..Len(sigs) :
        f[k] = IF /\ f[k + 1] # 0 => sigs[k].created >= sigs[f[k + 1]].created
                  /\ Verifies(sigs[k], issuer, date)
               THEN k ELSE f[k + 1]

LEMMA LeastOfInterval ==
  ASSUME NEW n \in Nat, NEW k \in 1..n
  PROVE  Min(k..n) = k /\ (k..n) \ {Min(k..n)} = (k + 1)..n /\ k..n # {}
<1>1. k \in k..n /\ \A y \in k..n : k =< y
  OBVIOUS
<1>2. Min(k..n) \in k..n /\ \A y \in k..n : Min(k..n) =< y
  BY <1>1 DEF Min
<1>3. Min(k..n) = k
  BY <1>1, <1>2
<1> QED BY <1>1, <1>3

LEMMA SmallestNumber ==
  ASSUME NEW s, s \subseteq Nat, s # {}
  PROVE  Min(s) \in s /\ \A y \in s : Min(s) =< y
BY LeastNumber DEF Min

LEMMA LatestByFold ==
  ASSUME NEW S, NEW sigs \in Seq(S), NEW issuer, NEW date
  PROVE  \E f \in [1..(Len(sigs) + 1) -> 0..Len(sigs)] : Visits(f, sigs, issuer, date)
<1> DEFINE n == Len(sigs)
           T == 0..n
           D == 1..n
           Visit(i, v) == IF /\ v # 0 => sigs[i].created >= sigs[v].created
                             /\ Verifies(sigs[i], issuer, date)
                          THEN i ELSE v
           h == [x \in D \X T |-> Visit(x[1], x[2])]
           c == [s \in SUBSET D |-> Min(s)]
<1>0. n \in Nat /\ DOMAIN sigs = D /\ 0 \in T /\ D \subseteq T
  OBVIOUS
<1>1. h \in [D \X T -> T]
  OBVIOUS
<1>2. \A k \in D, v \in T : h[<<k, v>>] = Visit(k, v)
  OBVIOUS
<1>3. IsFiniteSet(D) /\ \A s \in SUBSET D : s # {} => c[s] = Min(s) /\ c[s] \in s
  <2>1. IsFiniteSet(D)
    BY <1>0, FS_Interval
  <2>2. \A s \in SUBSET D : s # {} => Min(s) \in s
    <3>1. D \subseteq Nat
      OBVIOUS
    <3> HIDE DEF D
    <3> QED BY <3>1, SmallestNumber
  <2> QED BY <2>1, <2>2
<1>a. D = 1..n
  OBVIOUS
<1> HIDE DEF T, h, n, D, c, Visit
<1>4. PICK iter \in [SUBSET D -> T] : Recursion(iter, 0, D, c, h)
  BY <1>0, <1>1, <1>3, FoldExists
<1> DEFINE e == [i \in DOMAIN sigs |-> i]
           Def(f) == [s \in SUBSET DOMAIN e |->
                        IF s = {} THEN 0
                        ELSE IF /\ f[s \ {Min(s)}] # 0 => sigs[e[Min(s)]].created >= sigs[f[s \ {Min(s)}]].created
                                /\ Verifies(sigs[e[Min(s)]], issuer, date)
                             THEN e[Min(s)] ELSE f[s \ {Min(s)}]]
<1>b. DOMAIN e = D /\ \A s \in SUBSET D : s # {} => e[Min(s)] = Min(s)
  BY <1>0, <1>3
<1> HIDE DEF e
<1>5. \E f : f = Def(f)
  <2>1. ASSUME NEW s \in SUBSET D PROVE iter[s] = Def(iter)[s]
    <3>0. iter[s] = IF s = {} THEN 0 ELSE h[<<c[s], iter[s \ {c[s]}]>>]
      BY <1>4 DEF Recursion
    <3>1. CASE s = {}
      BY <1>b, <3>0, <3>1
    <3>2. CASE s # {}
      <4>1. c[s] \in D /\ s \ {c[s]} \in SUBSET D /\ c[s] = Min(s) /\ e[Min(s)] = Min(s)
        BY <1>3, <1>b, <3>2
      <4>2. iter[s \ {c[s]}] \in T
        BY <1>4, <4>1
      <4>3. iter[s] = Visit(Min(s), iter[s \ {Min(s)}])
        BY <1>2, <3>0, <3>2, <4>1, <4>2
      <4> QED BY <1>b, <3>2, <4>1, <4>3 DEF Visit
    <3> QED BY <3>1, <3>2
  <2>2. iter = Def(iter)
    BY <1>4, <1>b, <2>1 DEF Recursion
  <2> QED BY <2>2
<1> DEFINE g == CHOOSE f : f = Def(f)
<1>6. g = Def(g)
  BY <1>5
<1>7. getLatestValidSignature(sigs, issuer, date) = g[D]
  BY <1>b DEF getLatestValidSignature, FoldRightDomain, FoldRight, MapThenFoldSet, e
<1> HIDE DEF g
<1>c. ASSUME NEW s \in SUBSET D PROVE g[s] = IF s = {} THEN 0 ELSE Visit(Min(s), g[s \ {Min(s)}])
  <2>1. Def(g)[s] = IF s = {} THEN 0
                    ELSE IF /\ g[s \ {Min(s)}] # 0
                               => sigs[e[Min(s)]].created >= sigs[g[s \ {Min(s)}]].created
                            /\ Verifies(sigs[e[Min(s)]], issuer, date)
                         THEN e[Min(s)] ELSE g[s \ {Min(s)}]
    BY <1>b, Zenon
  <2> HIDE DEF Def
  <2>2. g[s] = Def(g)[s]
    BY <1>6, Zenon
  <2>3. CASE s = {}
    BY <2>1, <2>2, <2>3
  <2>4. CASE s # {}
    <3>1. e[Min(s)] = Min(s)
      BY <1>b, <2>4, Zenon
    <3> QED BY <2>1, <2>2, <2>4, <3>1, Zenon DEF Visit
  <2> QED BY <2>3, <2>4, Zenon
<1> DEFINE f == [k \in 1..(n + 1) |-> g[k..n]]
<1>8. f[n + 1] = 0 /\ f[1] = g[D]
  <2>1. (n + 1)..n = {} /\ n + 1 \in 1..(n + 1) /\ 1 \in 1..(n + 1)
    BY <1>0
  <2>2. g[{}] = 0
    BY <1>c
  <2> QED BY <1>a, <2>1, <2>2
<1>9. ASSUME NEW k \in 1..n PROVE f[k] = Visit(k, f[k + 1])
  <2>1. k \in 1..(n + 1) /\ k + 1 \in 1..(n + 1) /\ k..n \in SUBSET D
    BY <1>0, <1>a
  <2>2. Min(k..n) = k /\ (k..n) \ {Min(k..n)} = (k + 1)..n /\ k..n # {}
    BY <1>0, LeastOfInterval
  <2>3. g[k..n] = Visit(k, g[(k + 1)..n])
    BY <1>c, <2>1, <2>2
  <2> QED BY <2>1, <2>3
<1>10. \A k \in 1..(n + 1) : f[k] \in T
  <2> DEFINE U == {j \in 0..n : f[(n + 1) - j] \in T}
  <2>1. 0 \in U
    BY <1>0, <1>8
  <2>2. ASSUME NEW j \in 0..(n - 1), j \in U PROVE j + 1 \in U
    <3>1. n - j \in 1..n /\ (n - j) + 1 = (n + 1) - j /\ (n + 1) - (j + 1) = n - j /\ j + 1 \in 0..n
      BY <1>0
    <3>2. \A v \in T : Visit(n - j, v) \in T
      BY <1>0, <1>a, <3>1 DEF Visit
    <3>3. f[(n + 1) - j] \in T
      BY <2>2
    <3> HIDE DEF f
    <3>4. f[n - j] \in T
      BY <1>9, <3>1, <3>2, <3>3
    <3> QED BY <3>1, <3>4
  <2> HIDE DEF U
  <2>3. \A j \in 0..n : j \in U
    BY <1>0, <2>1, <2>2, BoundedInduction
  <2>4. ASSUME NEW k \in 1..(n + 1) PROVE f[k] \in T
    <3>1. (n + 1) - k \in 0..n /\ (n + 1) - ((n + 1) - k) = k
      BY <1>0
    <3>2. (n + 1) - k \in U
      BY <2>3, <3>1
    <3>3. f[(n + 1) - ((n + 1) - k)] \in T
      BY <3>2 DEF U
    <3> QED BY <3>1, <3>3
  <2> QED BY <2>4
<1>11. f \in [1..(n + 1) -> T]
  BY <1>10
<1> HIDE DEF f
<1>12. Visits(f, sigs, issuer, date)
  BY <1>7, <1>8, <1>9 DEF Visits, Visit, n
<1> QED BY <1>11, <1>12 DEF n, T

\* The signature that getLatestValidSignature returns verifies, none that
\* verifies is newer, and of those as new it is the first of the list; and
\* it throws only if none verifies.
LEMMA LatestValid ==
  ASSUME NEW S, NEW sigs \in Seq(S), NEW issuer, NEW date, \A i \in 1..Len(sigs) : sigs[i].created \in Nat
  PROVE  LET latest == getLatestValidSignature(sigs, issuer, date)
         IN  /\ latest = 0 => \A i \in DOMAIN sigs : ~Verifies(sigs[i], issuer, date)
             /\ latest # 0 =>
                   /\ latest \in DOMAIN sigs /\ Verifies(sigs[latest], issuer, date)
                   /\ \A j \in DOMAIN sigs : Verifies(sigs[j], issuer, date) =>
                         \/ sigs[j].created < sigs[latest].created
                         \/ sigs[j].created = sigs[latest].created /\ latest <= j
<1> DEFINE n == Len(sigs)
           V(i) == Verifies(sigs[i], issuer, date)
           Latest(k, v) ==
             /\ v = 0 => \A i \in k..n : ~V(i)
             /\ v # 0 => /\ v \in k..n /\ V(v)
                         /\ \A j \in k..n : V(j) => \/ sigs[j].created < sigs[v].created
                                                    \/ sigs[j].created = sigs[v].created /\ v <= j
<1>0. n \in Nat /\ DOMAIN sigs = 1..n
  OBVIOUS
<1>1. PICK f \in [1..(n + 1) -> 0..n] : Visits(f, sigs, issuer, date)
  BY LatestByFold
<1>2. /\ f[n + 1] = 0 /\ getLatestValidSignature(sigs, issuer, date) = f[1]
      /\ \A k \in 1..n : f[k] = IF /\ f[k + 1] # 0 => sigs[k].created >= sigs[f[k + 1]].created
                                   /\ V(k)
                                THEN k ELSE f[k + 1]
  BY <1>1 DEF Visits
<1>a. \A i \in 1..n : sigs[i].created \in Nat
  OBVIOUS
<1> HIDE DEF n, V
<1>3. ASSUME NEW k \in 1..n, Latest(k + 1, f[k + 1]) PROVE Latest(k, f[k])
  <2>1. k \in Nat /\ k + 1 \in 1..(n + 1) /\ f[k + 1] \in 0..n /\ k..n = {k} \cup ((k + 1)..n) /\ k # 0
    BY <1>0, <1>1
  <2>2. CASE V(k) /\ (f[k + 1] # 0 => sigs[k].created >= sigs[f[k + 1]].created)
    <3>1. f[k] = k
      BY <1>2, <2>2
    <3>2. ASSUME NEW j \in (k + 1)..n, V(j)
          PROVE  \/ sigs[j].created < sigs[k].created
                 \/ sigs[j].created = sigs[k].created /\ k <= j
      <4>1. f[k + 1] # 0 /\ f[k + 1] \in (k + 1)..n
        BY <1>3, <3>2
      <4>2. \/ sigs[j].created < sigs[f[k + 1]].created
            \/ sigs[j].created = sigs[f[k + 1]].created
        BY <1>3, <3>2, <4>1
      <4>3. sigs[k].created >= sigs[f[k + 1]].created
        BY <2>2, <4>1
      <4>4. j \in 1..n /\ f[k + 1] \in 1..n /\ k <= j
        BY <1>0, <2>1, <4>1
      <4> QED BY <1>a, <4>2, <4>3, <4>4, SMTT(30)
    <3>3. k \in k..n /\ sigs[k].created = sigs[k].created /\ k <= k
      BY <1>0
    <3> QED BY <2>1, <2>2, <3>1, <3>2, <3>3
  <2>3. CASE ~(V(k) /\ (f[k + 1] # 0 => sigs[k].created >= sigs[f[k + 1]].created))
    <3>1. f[k] = f[k + 1]
      BY <1>2, <2>3
    <3>2. CASE f[k + 1] = 0
      BY <1>3, <2>1, <2>3, <3>1, <3>2
    <3>3. CASE f[k + 1] # 0
      <4>1. f[k + 1] \in (k + 1)..n /\ V(f[k + 1])
        BY <1>3, <3>3
      <4>2. V(k) => sigs[k].created < sigs[f[k + 1]].created
        <5>1. f[k + 1] \in 1..n
          BY <1>0, <2>1, <4>1
        <5> QED BY <1>a, <2>3, <3>3, <5>1
      <4> QED BY <1>3, <2>1, <3>1, <3>3, <4>1, <4>2
    <3> QED BY <3>2, <3>3
  <2> QED BY <2>2, <2>3
<1> DEFINE U == {j \in 0..n : Latest((n + 1) - j, f[(n + 1) - j])}
<1>4. 0 \in U
  <2>1. (n + 1) - 0 = n + 1 /\ (n + 1)..n = {} /\ 0 \in 0..n
    BY <1>0
  <2>2. Latest(n + 1, f[n + 1])
    BY <1>2, <2>1
  <2> HIDE DEF Latest
  <2> QED BY <2>1, <2>2
<1>5. ASSUME NEW j \in 0..(n - 1), j \in U PROVE j + 1 \in U
  <2>1. n - j \in 1..n /\ (n - j) + 1 = (n + 1) - j /\ (n + 1) - (j + 1) = n - j /\ j + 1 \in 0..n
    BY <1>0
  <2>2. Latest((n + 1) - j, f[(n + 1) - j])
    BY <1>5
  <2> HIDE DEF Latest
  <2>3. Latest(n - j, f[n - j])
    BY <1>3, <2>1, <2>2
  <2> QED BY <2>1, <2>3
<1> HIDE DEF U, Latest
<1>6. \A j \in 0..n : j \in U
  BY <1>0, <1>4, <1>5, BoundedInduction
<1>7. Latest(1, f[1])
  <2>1. n \in 0..n /\ (n + 1) - n = 1
    BY <1>0
  <2>2. n \in U
    BY <1>6, <2>1
  <2>3. Latest((n + 1) - n, f[(n + 1) - n])
    BY <2>2 DEF U
  <2> QED BY <2>1, <2>3
<1> QED BY <1>0, <1>2, <1>7 DEF Latest, n, V

----------------------------------------------------------------------------
(* Keys and marks.                                                         *)

LEMMA KeyFacts ==
  ASSUME NEW k \in KeyPackets
  PROVE  /\ \A u \in DOMAIN k.users :
               /\ u \in Nat /\ k.users[u] \in UserPackets
               /\ k.users[u].self \in Seq(Signatures) /\ k.users[u].other \in Seq(Signatures)
               /\ k.users[u].revs \in Seq(Revocations)
         /\ \A s \in DOMAIN k.subkeys :
               /\ s \in Nat /\ k.subkeys[s] \in SubkeyPackets /\ k.subkeys[s].created \in Nat
               /\ k.subkeys[s].bindings \in Seq(Signatures) /\ k.subkeys[s].revs \in Seq(Revocations)
         /\ k.directs \in Seq(Signatures) /\ k.revs \in Seq(Revocations)
<1>1. k.users \in Seq(UserPackets) /\ k.subkeys \in Seq(SubkeyPackets)
      /\ k.directs \in Seq(Signatures) /\ k.revs \in Seq(Revocations)
  BY DEF KeyPackets
<1>2. ASSUME NEW u \in DOMAIN k.users
      PROVE  u \in Nat /\ k.users[u] \in UserPackets
  BY <1>1
<1>3. ASSUME NEW s \in DOMAIN k.subkeys
      PROVE  s \in Nat /\ k.subkeys[s] \in SubkeyPackets
  BY <1>1
<1> QED BY <1>1, <1>2, <1>3 DEF UserPackets, SubkeyPackets

LEMMA CreatedFacts ==
  /\ \A sigs \in Seq(Signatures) : \A i \in 1..Len(sigs) : sigs[i].created \in Nat
  /\ \A revs \in Seq(Revocations) : \A i \in 1..Len(revs) : revs[i].created \in Nat
<1>1. ASSUME NEW sigs \in Seq(Signatures), NEW i \in 1..Len(sigs) PROVE sigs[i].created \in Nat
  <2>1. sigs[i] \in Signatures
    BY ElementOfSeq
  <2> QED BY <2>1 DEF Signatures
<1>2. ASSUME NEW revs \in Seq(Revocations), NEW i \in 1..Len(revs) PROVE revs[i].created \in Nat
  <2>1. revs[i] \in Revocations
    BY ElementOfSeq
  <2> QED BY <2>1 DEF Revocations
<1> QED BY <1>1, <1>2

\* The certificates of a user: those of the key itself come first.
LEMMA CertificateFacts ==
  ASSUME NEW user \in UserPackets
  PROVE  /\ DOMAIN user.self \subseteq DOMAIN Certificates(user)
         /\ \A i \in DOMAIN user.self : Certificates(user)[i] = user.self[i]
<1> DEFINE a == user.self
           b == user.other
<1>1. a \in Seq(Signatures) /\ b \in Seq(Signatures)
  BY DEF UserPackets
<1>2. Certificates(user) = a \o b
  BY DEF Certificates
<1> HIDE DEF a, b
<1>3. /\ a \o b \in Seq(Signatures) /\ Len(a \o b) = Len(a) + Len(b)
      /\ \A i \in 1..(Len(a) + Len(b)) : (a \o b)[i] = IF i <= Len(a) THEN a[i] ELSE b[i - Len(a)]
  BY <1>1, ConcatProperties
<1> DEFINE c == a \o b
<1> HIDE DEF c
<1>4. c \in Seq(Signatures) /\ Len(c) = Len(a) + Len(b) /\ \A i \in 1..Len(c) : c[i] = IF i <= Len(a) THEN a[i] ELSE b[i - Len(a)]
  BY <1>3 DEF c
<1>5. DOMAIN a = 1..Len(a) /\ DOMAIN c = 1..Len(c) /\ Len(a) \in Nat /\ Len(b) \in Nat
  BY <1>1, <1>4
<1>6. \A i \in 1..Len(a) : i \in 1..Len(c) /\ i <= Len(a)
  BY <1>4, <1>5
<1> QED BY <1>2, <1>4, <1>5, <1>6 DEF a, c

\* By default revocations do not expire: then the date does not matter.
LEMMA RevocationSame ==
  ASSUME ~RevocationsExpire, NEW revs, NEW date, NEW issuers
  PROVE  /\ RevocationVerifies(revs, issuers, "self", date) <=> "self" \in issuers /\ SelfRevoked(revs)
<1>1. \A r : Verifies(r, "self", NoDate) <=> r.issuer = "self" /\ r.good
  BY DEF Verifies
<1>2. RevocationVerifies(revs, issuers, "self", date) <=>
        \E r \in ToSet(revs) : r.issuer \in issuers /\ r.issuer = "self" /\ r.good
  BY <1>1 DEF RevocationVerifies
<1>3. \A r : r \in ToSet(revs) <=> \E i \in DOMAIN revs : revs[i] = r
  BY DEF ToSet
<1> QED BY <1>2, <1>3 DEF SelfRevoked

\* What a mark says.
LEMMA Marked ==
  ASSUME NEW k, NEW cache, MarksRight(k, cache)
  PROVE  /\ \A u, i : <<User(u), i>> \in cache =>
               /\ u \in DOMAIN k.users /\ i \in DOMAIN Certificates(k.users[u])
               /\ Certificates(k.users[u])[i].issuer = "self" => SelfRevoked(k.users[u].revs)
         /\ \A s, i : <<Subkey(s), i>> \in cache =>
               s \in DOMAIN k.subkeys /\ i \in DOMAIN k.subkeys[s].bindings /\ SelfRevoked(k.subkeys[s].revs)
<1>1. \A a, b, i, j : /\ <<User(a), i>> = <<User(b), j>> => a = b /\ i = j
                      /\ <<Subkey(a), i>> = <<Subkey(b), j>> => a = b /\ i = j
                      /\ <<User(a), i>> # <<Subkey(b), j>>
  BY DEF User, Subkey
<1> HIDE DEF User, Subkey
<1>2. ASSUME NEW u, NEW i, <<User(u), i>> \in cache
      PROVE  /\ u \in DOMAIN k.users /\ i \in DOMAIN Certificates(k.users[u])
             /\ Certificates(k.users[u])[i].issuer = "self" => SelfRevoked(k.users[u].revs)
  <2>1. PICK v \in DOMAIN k.users : \E j \in DOMAIN Certificates(k.users[v]) :
              /\ <<User(u), i>> = <<User(v), j>>
              /\ Certificates(k.users[v])[j].issuer = "self" => SelfRevoked(k.users[v].revs)
    BY <1>1, <1>2 DEF MarksRight
  <2> QED BY <1>1, <2>1
<1>3. ASSUME NEW s, NEW i, <<Subkey(s), i>> \in cache
      PROVE  s \in DOMAIN k.subkeys /\ i \in DOMAIN k.subkeys[s].bindings /\ SelfRevoked(k.subkeys[s].revs)
  <2>1. PICK t \in DOMAIN k.subkeys : \E j \in DOMAIN k.subkeys[t].bindings :
              <<Subkey(s), i>> = <<Subkey(t), j>> /\ SelfRevoked(k.subkeys[t].revs)
    BY <1>1, <1>3 DEF MarksRight
  <2> QED BY <1>1, <2>1
<1> QED BY <1>2, <1>3

LEMMA NoMarks == \A k : MarksRight(k, {})
BY DEF MarksRight

LEMMA MoreMarks ==
  ASSUME NEW k, NEW cache, MarksRight(k, cache), NEW marks, MarksRight(k, marks)
  PROVE  MarksRight(k, cache \cup marks)
BY DEF MarksRight

\* The signature getLatestValidSignature finds at a date.
LEMMA LatestFacts ==
  ASSUME NEW sigs, sigs \in Seq(Signatures) \/ sigs \in Seq(Revocations), NEW date,
         getLatestValidSignature(sigs, "self", date) # 0
  PROVE  LET i == getLatestValidSignature(sigs, "self", date)
         IN  i \in DOMAIN sigs /\ sigs[i].issuer = "self" /\ Verifies(sigs[i], "self", date)
<1>1. CASE sigs \in Seq(Signatures)
  BY <1>1, LatestValid, CreatedFacts DEF Verifies
<1>2. CASE sigs \in Seq(Revocations)
  BY <1>2, LatestValid, CreatedFacts DEF Verifies
<1> QED BY <1>1, <1>2

\* A candidate counts as revoked when the key has revoked it, whatever marks
\* there are.
LEMMA CertRevokedSame ==
  ASSUME ~RevocationsExpire, NEW k \in KeyPackets, NEW cache, MarksRight(k, cache), NEW date,
         NEW u \in DOMAIN k.users, CertIndex(k, u, date) # 0
  PROVE  /\ CertIndex(k, u, date) \in DOMAIN k.users[u].self
         /\ CertIndex(k, u, date) \in DOMAIN Certificates(k.users[u])
         /\ CertRevoked(k, cache, u, date) <=> SelfRevoked(k.users[u].revs)
<1> DEFINE i == CertIndex(k, u, date)
<1>1. k.users[u] \in UserPackets /\ k.users[u].self \in Seq(Signatures)
  BY KeyFacts
<1>2. i \in DOMAIN k.users[u].self /\ k.users[u].self[i].issuer = "self"
  BY <1>1, LatestFacts DEF CertIndex
<1>3. i \in DOMAIN Certificates(k.users[u]) /\ Certificates(k.users[u])[i].issuer = "self"
  BY <1>1, <1>2, CertificateFacts
<1>4. <<User(u), i>> \in cache => SelfRevoked(k.users[u].revs)
  BY <1>3, Marked
<1>5. CertRevoked(k, cache, u, date) <=> <<User(u), i>> \in cache \/ SelfRevoked(k.users[u].revs)
  <2>1. CertRevoked(k, cache, u, date) <=>
          <<User(u), i>> \in cache \/ RevocationVerifies(k.users[u].revs, {k.users[u].self[i].issuer}, "self", date)
    BY DEF CertRevoked, isDataRevoked, CertPlace, Cert
  <2> QED BY <1>2, <2>1, RevocationSame
<1> QED BY <1>2, <1>3, <1>4, <1>5

----------------------------------------------------------------------------
(* Queries.                                                                *)

LEMMA Outcomes ==
  /\ Throws # Passes /\ NullResult # Passes /\ NullResult # Throws
  /\ Primary # <<"throws", 0>> /\ \A n : Subkey(n) # <<"throws", 0>> /\ User(n) # <<"throws", 0>>
  /\ \A n : Subkey(n) # Primary /\ User(n) # Primary
  /\ \A n, m : User(n) # Subkey(m) /\ (Subkey(n) = Subkey(m) => n = m) /\ (User(n) = User(m) => n = m)
<1>1. <<"throws", 0>> # <<"passes", 0>> /\ <<"null", 0>> # <<"passes", 0>> /\ <<"null", 0>> # <<"throws", 0>>
  OBVIOUS
<1>2. \A a, b : {a} = {b} => a = b
  OBVIOUS
<1>3. Throws # Passes /\ NullResult # Passes /\ NullResult # Throws
  BY <1>1, <1>2, Zenon DEF Throws, Passes, NullResult
<1>4. Primary # <<"throws", 0>> /\ \A n : Subkey(n) # <<"throws", 0>> /\ User(n) # <<"throws", 0>>
  BY DEF Primary, Subkey, User
<1>5. \A n : Subkey(n) # Primary /\ User(n) # Primary
  BY DEF Primary, Subkey, User
<1>6. \A n, m : User(n) # Subkey(m) /\ (Subkey(n) = Subkey(m) => n = m) /\ (User(n) = User(m) => n = m)
  BY DEF Subkey, User
<1> QED BY <1>3, <1>4, <1>5, <1>6

\* Two candidates are not both sorted before each other.
LEMMA SortAsymmetric ==
  ASSUME NEW k \in KeyPackets, NEW cache, NEW date, NEW u \in DOMAIN k.users, NEW v \in DOMAIN k.users,
         CertIndex(k, u, date) # 0, CertIndex(k, v, date) # 0, u # v,
         SortedBefore(k, cache, u, v, date)
  PROVE  ~SortedBefore(k, cache, v, u, date)
<1> DEFINE A == Cert(k, u, date)
           B == Cert(k, v, date)
<1>1. u \in Nat /\ v \in Nat
  BY KeyFacts
<1>2. \A w \in DOMAIN k.users : CertIndex(k, w, date) # 0 => Cert(k, w, date) \in Signatures
  BY KeyFacts, LatestFacts, ElementOfSeq DEF Cert, CertIndex
<1>3. A.created \in Nat /\ B.created \in Nat /\ A.primary \in BOOLEAN /\ B.primary \in BOOLEAN
  BY <1>2 DEF Signatures
<1>4. CASE CertRevoked(k, cache, u, date) <=> CertRevoked(k, cache, v, date)
  BY <1>1, <1>3, <1>4 DEF SortedBefore
<1>5. CASE ~(CertRevoked(k, cache, u, date) <=> CertRevoked(k, cache, v, date))
  BY <1>5 DEF SortedBefore
<1> QED BY <1>4, <1>5

LEMMA PrimaryUserSame ==
  ASSUME ~RevocationsExpire, NEW k \in KeyPackets, NEW cache, MarksRight(k, cache), NEW date, NEW uid
  PROVE  LET outcome == getPrimaryUser(k, cache, date, uid)
         IN  /\ outcome.result = getPrimaryUser(k, {}, date, uid).result
             /\ MarksRight(k, outcome.revoked)
             /\ outcome.result # Throws =>
                  \E u \in Candidates(k, date, uid) : outcome.result = {User(u)} /\ ~SelfRevoked(k.users[u].revs)
<1> DEFINE C == Candidates(k, date, uid)
           Ranked(c) == {u \in C : \A v \in C \ {u} : SortedBefore(k, c, v, u, date)}
           Marks == {CertPlace(k, u, date) : u \in {v \in C : CertRevoked(k, cache, v, date)}}
           R(c) == IF \E u \in Ranked(c) : ~CertRevoked(k, c, u, date) THEN {User(u) : u \in Ranked(c)} ELSE Throws
<1>1. \A u \in C : u \in DOMAIN k.users /\ CertIndex(k, u, date) # 0
  BY DEF Candidates, CertIndex
<1>2. \A c : getPrimaryUser(k, c, date, uid).result = R(c)
  BY DEF getPrimaryUser, Outcome
<1>3. getPrimaryUser(k, cache, date, uid).revoked = cache \cup Marks
  BY DEF getPrimaryUser, Outcome
<1>4. MarksRight(k, {})
  BY NoMarks
<1>5. \A u \in C : /\ CertRevoked(k, cache, u, date) <=> SelfRevoked(k.users[u].revs)
                   /\ CertRevoked(k, {}, u, date) <=> SelfRevoked(k.users[u].revs)
                   /\ CertIndex(k, u, date) \in DOMAIN Certificates(k.users[u])
  BY <1>1, <1>4, CertRevokedSame
<1>6. \A u, v \in C : SortedBefore(k, cache, u, v, date) <=> SortedBefore(k, {}, u, v, date)
  BY <1>5 DEF SortedBefore
<1> HIDE DEF C
<1>7. Ranked(cache) = Ranked({}) /\ Ranked(cache) \subseteq C
  BY <1>6
<1>8. R(cache) = R({})
  BY <1>5, <1>7
<1>9. MarksRight(k, Marks)
  <2>1. \A u \in C : CertRevoked(k, cache, u, date) =>
          \E i \in DOMAIN Certificates(k.users[u]) : CertPlace(k, u, date) = <<User(u), i>> /\ SelfRevoked(k.users[u].revs)
    BY <1>5 DEF CertPlace
  <2> QED BY <1>1, <2>1 DEF MarksRight
<1>10. MarksRight(k, cache \cup Marks)
  BY <1>9, MoreMarks
<1>11. ASSUME R(cache) # Throws
       PROVE  \E u \in C : R(cache) = {User(u)} /\ ~SelfRevoked(k.users[u].revs)
  <2>1. PICK u \in Ranked(cache) : ~CertRevoked(k, cache, u, date)
    BY <1>11
  <2>2. u \in C /\ ~SelfRevoked(k.users[u].revs)
    BY <1>5, <1>7, <2>1
  <2>3. ASSUME NEW v \in Ranked(cache), v # u PROVE FALSE
    <3>1. SortedBefore(k, cache, v, u, date) /\ SortedBefore(k, cache, u, v, date)
      BY <1>7, <2>1, <2>2, <2>3
    <3>2. u \in DOMAIN k.users /\ v \in DOMAIN k.users /\ CertIndex(k, u, date) # 0 /\ CertIndex(k, v, date) # 0
      BY <1>1, <1>7, <2>2, <2>3
    <3> QED BY <2>3, <3>1, <3>2, SortAsymmetric
  <2>4. Ranked(cache) = {u}
    BY <2>1, <2>3
  <2> HIDE DEF Ranked
  <2>5. R(cache) = {User(u)}
    BY <2>1, <2>4
  <2> QED BY <2>2, <2>5
<1> QED BY <1>2, <1>3, <1>8, <1>10, <1>11 DEF C

LEMMA VerifyPrimarySame ==
  ASSUME ~RevocationsExpire, NEW k \in KeyPackets, NEW cache, MarksRight(k, cache), NEW date, NEW uid
  PROVE  LET outcome == verifyPrimaryKey(k, cache, date, uid)
         IN  /\ outcome.result = verifyPrimaryKey(k, {}, date, uid).result
             /\ MarksRight(k, outcome.revoked)
             /\ outcome.result # Throws => ~SelfRevoked(k.revs)
<1> DEFINE user(c) == getPrimaryUser(k, c, date, uid)
<1>1. user(cache).result = user({}).result /\ MarksRight(k, user(cache).revoked)
  BY PrimaryUserSame
<1>2. KeyRevoked(k, date) <=> SelfRevoked(k.revs)
  BY RevocationSame DEF KeyRevoked
<1> HIDE DEF user
<1>3. CASE KeyRevoked(k, date)
  <2>1. \A c : verifyPrimaryKey(k, c, date, uid) = Outcome(Throws, c)
    BY <1>3 DEF verifyPrimaryKey
  <2> QED BY <2>1 DEF Outcome
<1>4. CASE ~KeyRevoked(k, date)
  <2> DEFINE direct == getLatestValidSignature(k.directs, "self", date)
             R(r) == IF \/ Failed(r)
                        \/ isDataExpired(k, PrimaryCert(k, r, date), date)
                        \/ direct # 0 /\ isDataExpired(k, k.directs[direct], date)
                     THEN Throws ELSE Passes
  <2>1. \A c : verifyPrimaryKey(k, c, date, uid) = Outcome(R(user(c).result), user(c).revoked)
    BY <1>4 DEF verifyPrimaryKey, user
  <2> HIDE DEF R
  <2> QED BY <1>1, <1>2, <1>4, <2>1 DEF Outcome
<1> QED BY <1>3, <1>4

LEMMA SubkeyRevokedSame ==
  ASSUME ~RevocationsExpire, NEW k \in KeyPackets, NEW cache, MarksRight(k, cache), NEW date,
         NEW s \in DOMAIN k.subkeys
  PROVE  /\ SubkeyRevoked(k, cache, s, date) <=> BindingIndex(k.subkeys[s], date) # 0 /\ SelfRevoked(k.subkeys[s].revs)
         /\ MarksRight(k, SubkeyMarks(k, cache, s, date))
<1> DEFINE sub == k.subkeys[s]
           i == BindingIndex(sub, date)
<1>1. ASSUME i # 0
      PROVE  i \in DOMAIN sub.bindings /\ sub.bindings[i].issuer = "self"
  BY <1>1, KeyFacts, LatestFacts DEF BindingIndex
<1>2. <<Subkey(s), i>> \in cache => SelfRevoked(sub.revs)
  BY Marked
<1>3. i # 0 => (isDataRevoked(cache, <<Subkey(s), i>>, sub.revs, sub.bindings[i], "self", date) <=> SelfRevoked(sub.revs))
  BY <1>1, <1>2, RevocationSame DEF isDataRevoked
<1>4. SubkeyRevoked(k, cache, s, date) <=> i # 0 /\ SelfRevoked(sub.revs)
  BY <1>3 DEF SubkeyRevoked
<1>5. MarksRight(k, SubkeyMarks(k, cache, s, date))
  <2>1. CASE SubkeyRevoked(k, cache, s, date)
    BY <1>1, <1>4, <2>1 DEF SubkeyMarks, MarksRight
  <2>2. CASE ~SubkeyRevoked(k, cache, s, date)
    BY <2>2, NoMarks DEF SubkeyMarks
  <2> QED BY <2>1, <2>2
<1> QED BY <1>4, <1>5

LEMMA SubkeyVerifySame ==
  ASSUME ~RevocationsExpire, NEW k \in KeyPackets, NEW cache, MarksRight(k, cache), NEW date,
         NEW s \in DOMAIN k.subkeys
  PROVE  LET outcome == subkeyVerify(k, cache, s, date)
         IN  /\ outcome.result = subkeyVerify(k, {}, s, date).result
             /\ MarksRight(k, outcome.revoked)
             /\ outcome.result # Throws => ~SelfRevoked(k.subkeys[s].revs)
<1>1. MarksRight(k, {})
  BY NoMarks
<1>2. SubkeyRevoked(k, cache, s, date) <=> SubkeyRevoked(k, {}, s, date)
  BY <1>1, SubkeyRevokedSame
<1>3. MarksRight(k, cache \cup SubkeyMarks(k, cache, s, date))
  BY SubkeyRevokedSame, MoreMarks
<1>4. SubkeyRevoked(k, cache, s, date) <=> BindingIndex(k.subkeys[s], date) # 0 /\ SelfRevoked(k.subkeys[s].revs)
  BY SubkeyRevokedSame
<1> DEFINE R(c) == IF BindingIndex(k.subkeys[s], date) = 0 \/ SubkeyRevoked(k, c, s, date)
                      \/ isDataExpired(k.subkeys[s], k.subkeys[s].bindings[BindingIndex(k.subkeys[s], date)], date)
                   THEN Throws ELSE Passes
<1>5. \A c : subkeyVerify(k, c, s, date) = Outcome(R(c), c \cup SubkeyMarks(k, c, s, date))
  BY DEF subkeyVerify
<1>6. R(cache) = R({}) /\ (R(cache) # Throws => ~SelfRevoked(k.subkeys[s].revs))
  BY <1>2, <1>4
<1> HIDE DEF R
<1> QED BY <1>3, <1>5, <1>6 DEF Outcome

LEMMA LoopMarksRight ==
  ASSUME ~RevocationsExpire, NEW k \in KeyPackets, NEW cache, MarksRight(k, cache), NEW keyID, NEW date, NEW first
  PROVE  MarksRight(k, LoopMarks(k, cache, keyID, date, first))
<1>1. \A s \in DOMAIN k.subkeys : MarksRight(k, SubkeyMarks(k, cache, s, date))
  BY SubkeyRevokedSame
<1>2. \A p \in LoopMarks(k, cache, keyID, date, first) : \E s \in DOMAIN k.subkeys : p \in SubkeyMarks(k, cache, s, date)
  BY DEF LoopMarks
<1> QED BY <1>1, <1>2 DEF MarksRight

LEMMA SuitableSame ==
  ASSUME ~RevocationsExpire, NEW k \in KeyPackets, NEW cache, MarksRight(k, cache), NEW purpose, NEW keyID, NEW date
  PROVE  /\ Suitable(purpose, k, cache, keyID, date) = Suitable(purpose, k, {}, keyID, date)
         /\ \A s \in Suitable(purpose, k, cache, keyID, date) : s \in DOMAIN k.subkeys /\ ~SelfRevoked(k.subkeys[s].revs)
<1>1. \A s \in DOMAIN k.subkeys :
        /\ subkeyVerify(k, cache, s, date).result = subkeyVerify(k, {}, s, date).result
        /\ subkeyVerify(k, cache, s, date).result # Throws => ~SelfRevoked(k.subkeys[s].revs)
  BY SubkeyVerifySame
<1>2. Suitable(purpose, k, cache, keyID, date) = Suitable(purpose, k, {}, keyID, date)
  BY <1>1 DEF Suitable
<1>3. \A s \in Suitable(purpose, k, cache, keyID, date) : s \in DOMAIN k.subkeys /\ ~SelfRevoked(k.subkeys[s].revs)
  BY <1>1 DEF Suitable, Failed
<1> QED BY <1>2, <1>3

\* The outcome of getSigningKey and getEncryptionKey.
LEMMA SelectSame ==
  ASSUME ~RevocationsExpire, NEW k \in KeyPackets, NEW cache, MarksRight(k, cache),
         NEW purpose, NEW keyID, NEW date, NEW uid
  PROVE  LET outcome == SelectKey(purpose, k, cache, keyID, date, uid)
         IN  /\ outcome.result = SelectKey(purpose, k, {}, keyID, date, uid).result
             /\ MarksRight(k, outcome.revoked)
             /\ outcome.result # Throws =>
                  /\ ~SelfRevoked(k.revs)
                  /\ \/ outcome.result = {Primary}
                     \/ \A c \in outcome.result : \E s \in DOMAIN k.subkeys : c = Subkey(s) /\ ~SelfRevoked(k.subkeys[s].revs)
<1> DEFINE primary(c) == verifyPrimaryKey(k, c, date, uid)
           first(c) == FirstOf(k, Suitable(purpose, k, c, keyID, date))
           marked(c) == primary(c).revoked \cup LoopMarks(k, c, keyID, date, first(c))
           last(c) == PrimaryOrThrow(purpose, k, keyID, date, getPrimaryUser(k, marked(c), date, uid))
<1>0. MarksRight(k, {})
  BY NoMarks
<1>1. \A c : SelectKey(purpose, k, c, keyID, date, uid) =
               IF Failed(primary(c).result) THEN primary(c)
               ELSE IF first(c) # {} THEN Outcome({Subkey(s) : s \in first(c)}, marked(c))
               ELSE last(c)
  BY DEF SelectKey, SelectIf, SelectAmong
<1>2. primary(cache).result = primary({}).result /\ MarksRight(k, primary(cache).revoked)
      /\ (primary(cache).result # Throws => ~SelfRevoked(k.revs))
  BY VerifyPrimarySame
<1>3. first(cache) = first({}) /\ \A s \in first(cache) : s \in DOMAIN k.subkeys /\ ~SelfRevoked(k.subkeys[s].revs)
  <2>1. \A subs : FirstOf(k, subs) \subseteq subs
    BY DEF FirstOf
  <2> QED BY <2>1, SuitableSame
<1>4. MarksRight(k, marked(cache)) /\ MarksRight(k, marked({}))
  <2>1. MarksRight(k, LoopMarks(k, cache, keyID, date, first(cache))) /\ MarksRight(k, LoopMarks(k, {}, keyID, date, first({})))
    BY <1>0, LoopMarksRight
  <2>2. MarksRight(k, primary({}).revoked)
    BY <1>0, VerifyPrimarySame
  <2> QED BY <1>2, <2>1, <2>2, MoreMarks
<1> HIDE DEF marked, first, primary
<1>5. last(cache).result = last({}).result /\ MarksRight(k, last(cache).revoked) /\ last(cache).result \in {Throws, {Primary}}
  <2>1. /\ getPrimaryUser(k, marked(cache), date, uid).result = getPrimaryUser(k, {}, date, uid).result
        /\ getPrimaryUser(k, marked({}), date, uid).result = getPrimaryUser(k, {}, date, uid).result
        /\ MarksRight(k, getPrimaryUser(k, marked(cache), date, uid).revoked)
    BY <1>4, PrimaryUserSame
  <2> DEFINE R(r) == IF /\ ~Failed(r)
                        /\ Asked(keyID, Primary)
                        /\ Serves(purpose, k, PrimaryCert(k, r, date))
                        /\ MeetsRequirements(k)
                     THEN {Primary} ELSE Throws
  <2>2. \A user : PrimaryOrThrow(purpose, k, keyID, date, user) = Outcome(R(user.result), user.revoked)
    BY DEF PrimaryOrThrow
  <2>3. \A r : R(r) \in {Throws, {Primary}}
    OBVIOUS
  <2> HIDE DEF R
  <2> QED BY <2>1, <2>2, <2>3 DEF Outcome
<1> HIDE DEF last
<1>6. CASE Failed(primary(cache).result)
  BY <1>1, <1>2, <1>6 DEF Failed
<1>7. CASE ~Failed(primary(cache).result) /\ first(cache) # {}
  <2>1. SelectKey(purpose, k, cache, keyID, date, uid) = Outcome({Subkey(s) : s \in first(cache)}, marked(cache))
        /\ SelectKey(purpose, k, {}, keyID, date, uid) = Outcome({Subkey(s) : s \in first({})}, marked({}))
    BY <1>1, <1>2, <1>3, <1>7
  <2>2. \A c \in {Subkey(s) : s \in first(cache)} : \E s \in DOMAIN k.subkeys : c = Subkey(s) /\ ~SelfRevoked(k.subkeys[s].revs)
    BY <1>3
  <2> QED BY <1>2, <1>3, <1>4, <1>7, <2>1, <2>2 DEF Outcome, Failed
<1>8. CASE ~Failed(primary(cache).result) /\ first(cache) = {}
  <2>1. SelectKey(purpose, k, cache, keyID, date, uid) = last(cache) /\ SelectKey(purpose, k, {}, keyID, date, uid) = last({})
    BY <1>1, <1>2, <1>3, <1>8
  <2> QED BY <1>2, <1>5, <1>8, <2>1 DEF Failed
<1> QED BY <1>6, <1>7, <1>8

LEMMA ExpirationSame ==
  ASSUME ~RevocationsExpire, NEW k \in KeyPackets, NEW cache, MarksRight(k, cache), NEW uid
  PROVE  LET outcome == getExpirationTime(k, cache, uid)
         IN  outcome.result = getExpirationTime(k, {}, uid).result /\ MarksRight(k, outcome.revoked)
<1> DEFINE user(c) == getPrimaryUser(k, c, NoDate, uid)
           direct == getLatestValidSignature(k.directs, "self", NoDate)
           bySelf(r) == Earliest(getKeyExpirationTime(k, PrimaryCert(k, r, NoDate)), SigExpirationTime(PrimaryCert(k, r, NoDate)))
           R(r) == IF Failed(r) THEN NullResult
                   ELSE IF direct = 0 THEN ExpiresAt(bySelf(r))
                   ELSE ExpiresAt(Earliest(bySelf(r), getKeyExpirationTime(k, k.directs[direct])))
<1>1. user(cache).result = user({}).result /\ MarksRight(k, user(cache).revoked)
  BY PrimaryUserSame
<1>2. \A c : getExpirationTime(k, c, uid) = Outcome(R(user(c).result), user(c).revoked)
  BY DEF getExpirationTime
<1> HIDE DEF R, user
<1> QED BY <1>1, <1>2 DEF Outcome

LEMMA DecryptionSame ==
  ASSUME ~RevocationsExpire, NEW k \in KeyPackets, NEW cache, MarksRight(k, cache), NEW keyID, NEW date, NEW uid
  PROVE  LET outcome == getDecryptionKeys(k, cache, keyID, date, uid)
         IN  outcome.result = getDecryptionKeys(k, {}, keyID, date, uid).result /\ MarksRight(k, outcome.revoked)
<1> DEFINE user(c) == getPrimaryUser(k, c, date, uid)
           subs(c) == {s \in DOMAIN k.subkeys : Asked(keyID, Subkey(s)) /\ DecryptsWith(k, c, s, date)}
           R(r, ss) == IF Failed(r) THEN Throws
                       ELSE {Subkey(s) : s \in ss} \cup
                            {p \in {Primary} : Asked(keyID, p) /\ isValidDecryptionKeyPacket(PrimaryCert(k, r, date))}
<1>1. user(cache).result = user({}).result /\ MarksRight(k, user(cache).revoked)
  BY PrimaryUserSame
<1>2. subs(cache) = subs({})
  BY DEF DecryptsWith
<1>3. \A c : getDecryptionKeys(k, c, keyID, date, uid) = Outcome(R(user(c).result, subs(c)), user(c).revoked)
  BY DEF getDecryptionKeys
<1> HIDE DEF R, user, subs
<1> QED BY <1>1, <1>2, <1>3 DEF Outcome

\* A certification of the key itself counts as revoked when the user is.
LEMMA GoneSame ==
  ASSUME ~RevocationsExpire, NEW k \in KeyPackets, NEW cache, MarksRight(k, cache), NEW u \in DOMAIN k.users,
         NEW i \in DOMAIN Certificates(k.users[u]), NEW cert, cert = Certificates(k.users[u])[i], NEW date
  PROVE  LET gone == isDataRevoked(cache, <<User(u), i>>, k.users[u].revs, cert, "self", date)
         IN  /\ cert.issuer = "self" => (gone <=> SelfRevoked(k.users[u].revs))
             /\ gone => MarksRight(k, {<<User(u), i>>})
<1> DEFINE gone == isDataRevoked(cache, <<User(u), i>>, k.users[u].revs, cert, "self", date)
<1>1. gone <=> <<User(u), i>> \in cache \/ ("self" = cert.issuer /\ SelfRevoked(k.users[u].revs))
  BY RevocationSame DEF isDataRevoked
<1>2. <<User(u), i>> \in cache => (cert.issuer = "self" => SelfRevoked(k.users[u].revs))
  BY Marked
<1>3. (cert.issuer = "self" => SelfRevoked(k.users[u].revs)) => MarksRight(k, {<<User(u), i>>})
  BY DEF MarksRight
<1> QED BY <1>1, <1>2, <1>3

LEMMA UserVerifySame ==
  ASSUME ~RevocationsExpire, NEW k \in KeyPackets, NEW cache, MarksRight(k, cache), NEW u \in DOMAIN k.users, NEW date
  PROVE  LET outcome == userVerify(k, cache, u, date)
         IN  /\ outcome.result = userVerify(k, {}, u, date).result
             /\ MarksRight(k, outcome.revoked)
             /\ outcome.result # Throws => ~SelfRevoked(k.users[u].revs)
<1> DEFINE self == k.users[u].self
           gone(c, i) == isDataRevoked(c, <<User(u), i>>, k.users[u].revs, self[i], "self", date)
           valid(c) == {i \in DOMAIN self : ~gone(c, i) /\ Verifies(self[i], "self", date)}
           asked(c) == {i \in DOMAIN self : \A j \in valid(c) : i >= j}
           marks == {<<User(u), i>> : i \in {j \in asked(cache) : gone(cache, j)}}
<1>1. userVerify(k, cache, u, date) = Outcome(IF valid(cache) = {} THEN Throws ELSE Passes, cache \cup marks)
      /\ userVerify(k, {}, u, date).result = IF valid({}) = {} THEN Throws ELSE Passes
  BY DEF userVerify, Outcome
<1>2. \A i \in DOMAIN self : i \in DOMAIN Certificates(k.users[u]) /\ self[i] = Certificates(k.users[u])[i]
  BY KeyFacts, CertificateFacts
<1>3. MarksRight(k, {})
  BY NoMarks
<1>4. \A i \in DOMAIN self : /\ self[i].issuer = "self" => (gone(cache, i) <=> SelfRevoked(k.users[u].revs))
                             /\ self[i].issuer = "self" => (gone({}, i) <=> SelfRevoked(k.users[u].revs))
                             /\ gone(cache, i) => MarksRight(k, {<<User(u), i>>})
  BY <1>2, <1>3, GoneSame
<1>5. \A i \in DOMAIN self : Verifies(self[i], "self", date) => self[i].issuer = "self"
  BY DEF Verifies
<1> HIDE DEF gone
<1>6. valid(cache) = valid({}) /\ (valid(cache) # {} => ~SelfRevoked(k.users[u].revs))
  BY <1>4, <1>5
<1>7. MarksRight(k, marks)
  <2>1. \A p \in marks : \E i \in DOMAIN self : p = <<User(u), i>> /\ gone(cache, i)
    OBVIOUS
  <2>2. \A p \in marks : MarksRight(k, {p})
    BY <1>4, <2>1
  <2> QED BY <2>2 DEF MarksRight
<1> HIDE DEF valid, marks
<1>8. MarksRight(k, cache \cup marks)
  BY <1>7, MoreMarks
<1> QED BY <1>1, <1>6, <1>8 DEF Outcome

LEMMA CertificateSame ==
  ASSUME ~RevocationsExpire, NEW k \in KeyPackets, NEW cache, MarksRight(k, cache), NEW u \in DOMAIN k.users,
         NEW i \in DOMAIN Certificates(k.users[u]), NEW verifier \in {"self", "third"}, NEW date
  PROVE  LET outcome == verifyCertificate(k, cache, u, i, verifier, date)
         IN  /\ outcome.result = Passes => verifyCertificate(k, {}, u, i, verifier, date).result = Passes
             /\ MarksRight(k, outcome.revoked)
<1> DEFINE cert == Certificates(k.users[u])[i]
           gone(c) == isDataRevoked(c, <<User(u), i>>, k.users[u].revs, cert, verifier, date)
           signing(c) == IF verifier = "self" THEN getSigningKey(k, c, Primary, cert.created, NoUser) ELSE Outcome(Passes, c)
           R(c) == IF ~gone(c) /\ Verifies(cert, verifier, date) THEN Passes ELSE Throws
           marks == {p \in {<<User(u), i>>} : gone(cache)}
<1>1. \A c : verifyCertificate(k, c, u, i, verifier, date) =
               IF cert.issuer # verifier THEN Outcome(NullResult, c)
               ELSE IF Failed(signing(c).result) THEN signing(c)
               ELSE Outcome(R(c), signing(c).revoked \cup {p \in {<<User(u), i>>} : gone(c)})
  BY DEF verifyCertificate, CertificateIf, Certificates
<1>2. signing(cache).result = signing({}).result /\ MarksRight(k, signing(cache).revoked)
  <2>1. CASE verifier = "self"
    BY <2>1, SelectSame DEF getSigningKey
  <2>2. CASE verifier # "self"
    BY <2>2 DEF Outcome
  <2> QED BY <2>1, <2>2
<1>3. gone({}) => gone(cache)
  BY DEF isDataRevoked
<1>4. cert.issuer = verifier => MarksRight(k, marks)
  <2>1. CASE verifier = "self"
    BY <2>1, GoneSame, NoMarks
  <2>2. CASE verifier # "self"
    BY <2>2 DEF MarksRight
  <2> QED BY <2>1, <2>2
<1>5. Throws # Passes /\ NullResult # Passes
  BY Outcomes
<1> HIDE DEF signing, marks
<1>6. CASE cert.issuer # verifier
  BY <1>1, <1>5, <1>6 DEF Outcome
<1>7. CASE cert.issuer = verifier /\ Failed(signing(cache).result)
  BY <1>1, <1>2, <1>5, <1>7 DEF Failed
<1>8. CASE cert.issuer = verifier /\ ~Failed(signing(cache).result)
  <2>1. verifyCertificate(k, cache, u, i, verifier, date) = Outcome(R(cache), signing(cache).revoked \cup marks)
    BY <1>1, <1>8 DEF marks
  <2>2. verifyCertificate(k, {}, u, i, verifier, date).result = R({})
    BY <1>1, <1>2, <1>8 DEF Outcome
  <2>3. R(cache) = Passes => R({}) = Passes
    BY <1>3, <1>5
  <2>4. MarksRight(k, signing(cache).revoked \cup marks)
    BY <1>2, <1>4, <1>8, MoreMarks
  <2> HIDE DEF R
  <2> QED BY <2>1, <2>2, <2>3, <2>4 DEF Outcome
<1> QED BY <1>6, <1>7, <1>8

LEMMA CertificationsSame ==
  ASSUME ~RevocationsExpire, NEW k \in KeyPackets, NEW cache, MarksRight(k, cache), NEW u \in DOMAIN k.users,
         NEW verifier \in {"self", "third"}, NEW date
  PROVE  LET outcome == verifyAllCertifications(k, cache, u, verifier, date)
         IN  outcome.result \subseteq verifyAllCertifications(k, {}, u, verifier, date).result /\ MarksRight(k, outcome.revoked)
<1> DEFINE D == DOMAIN Certificates(k.users[u])
           each(c) == [i \in D |-> verifyCertificate(k, c, u, i, verifier, date)]
<1>1. \A c : verifyAllCertifications(k, c, u, verifier, date) = AllCertifications(c, each(c))
  BY DEF verifyAllCertifications, Certificates
<1>2. \A i \in D : /\ each(cache)[i].result = Passes => each({})[i].result = Passes
                   /\ MarksRight(k, each(cache)[i].revoked)
  BY CertificateSame
<1>3. \A c : DOMAIN each(c) = D
  OBVIOUS
<1> HIDE DEF each, D
<1>4. AllCertifications(cache, each(cache)).result \subseteq AllCertifications({}, each({})).result
  BY <1>2, <1>3 DEF AllCertifications, Outcome
<1>5. AllCertifications(cache, each(cache)).revoked = cache \cup UNION {each(cache)[i].revoked : i \in D}
  BY <1>3 DEF AllCertifications, Outcome
<1>6. MarksRight(k, UNION {each(cache)[i].revoked : i \in D})
  BY <1>2 DEF MarksRight
<1>7. MarksRight(k, cache \cup UNION {each(cache)[i].revoked : i \in D})
  BY <1>6, MoreMarks
<1> QED BY <1>1, <1>4, <1>5, <1>7

----------------------------------------------------------------------------
(* Revoking.                                                               *)

\* Subkey.revoke keeps revocations of the original.
LEMMA SurvivingRevocations ==
  ASSUME NEW revs \in Seq(Revocations), NEW date
  PROVE  Surviving(revs, date) \in Seq(Revocations)
<1> DEFINE n == Len(revs)
           T == Seq(Revocations)
           D == 1..n
           Add(i, v) == IF SurvivesUpdate(revs[i], date) THEN Append(v, revs[i]) ELSE v
           h == [x \in D \X T |-> Add(x[1], x[2])]
           c == [s \in SUBSET D |-> Max(s)]
<1>0. n \in Nat /\ DOMAIN revs = D /\ <<>> \in T /\ \A i \in D : revs[i] \in Revocations
  OBVIOUS
<1>1. h \in [D \X T -> T]
  <2>1. \A x \in D \X T : x[1] \in D /\ x[2] \in T
    OBVIOUS
  <2>2. \A i \in D, v \in T : Append(v, revs[i]) \in T
    BY <1>0
  <2> HIDE DEF T, D
  <2>3. \A x \in D \X T : Add(x[1], x[2]) \in T
    BY <2>1, <2>2
  <2> HIDE DEF Add
  <2> QED BY <2>3
<1>2. \A i \in D, v \in T : h[<<i, v>>] = Add(i, v)
  OBVIOUS
<1>3. IsFiniteSet(D) /\ \A s \in SUBSET D : s # {} => c[s] = Max(s) /\ c[s] \in s
  <2>1. IsFiniteSet(D)
    BY <1>0, FS_Interval
  <2>2. \A s \in SUBSET (1..n) : s # {} => Max(s) \in s
    BY <1>0, GreatestNumber
  <2> QED BY <2>1, <2>2
<1> HIDE DEF T, h, n, D, c, Add
<1>4. PICK iter \in [SUBSET D -> T] : Recursion(iter, <<>>, D, c, h)
  BY <1>0, <1>1, <1>3, FoldExists
<1> DEFINE Def(f) == [s \in SUBSET DOMAIN revs |->
                        IF s = {} THEN <<>>
                        ELSE IF SurvivesUpdate(revs[Max(s)], date) THEN Append(f[s \ {Max(s)}], revs[Max(s)])
                             ELSE f[s \ {Max(s)}]]
<1>5. \E f : f = Def(f)
  <2>1. ASSUME NEW s \in SUBSET D PROVE iter[s] = Def(iter)[s]
    <3>0. iter[s] = IF s = {} THEN <<>> ELSE h[<<c[s], iter[s \ {c[s]}]>>]
      BY <1>4 DEF Recursion
    <3>1. CASE s = {}
      BY <1>0, <3>0, <3>1
    <3>2. CASE s # {}
      <4>1. c[s] \in D /\ s \ {c[s]} \in SUBSET D /\ c[s] = Max(s)
        BY <1>3, <3>2
      <4>2. iter[s \ {c[s]}] \in T
        BY <1>4, <4>1
      <4>3. iter[s] = Add(Max(s), iter[s \ {Max(s)}])
        BY <1>2, <3>0, <3>2, <4>1, <4>2
      <4> QED BY <1>0, <3>2, <4>1, <4>3 DEF Add
    <3> QED BY <3>1, <3>2
  <2>2. iter = Def(iter)
    BY <1>4, <1>0, <2>1 DEF Recursion
  <2> QED BY <2>2
<1> DEFINE g == CHOOSE f : f = Def(f)
<1>6. g = Def(g)
  BY <1>5
<1>7. Surviving(revs, date) = g[D]
  BY <1>0 DEF Surviving, FoldLeft, MapThenFoldSet
<1>8. \A s \in SUBSET D : g[s] = IF s = {} THEN <<>> ELSE Add(Max(s), g[s \ {Max(s)}])
  BY <1>0, <1>6 DEF Add
<1> HIDE DEF g
<1> DEFINE U == {k \in 0..n : g[1..k] \in T}
<1>9. 0 \in U
  <2>1. 1..0 = {} /\ 0 \in 0..n
    BY <1>0
  <2>2. g[{}] = <<>>
    BY <1>8
  <2> QED BY <1>0, <2>1, <2>2
<1>10. ASSUME NEW k \in 0..(n - 1), k \in U PROVE k + 1 \in U
  <2>1. k + 1 \in 1..n /\ k + 1 \in Nat /\ k + 1 > 0 /\ (k + 1) - 1 = k /\ 1..(k + 1) \in SUBSET D /\ k + 1 \in 0..n
    BY <1>0 DEF D
  <2>2. Max(1..(k + 1)) = k + 1 /\ (1..(k + 1)) \ {Max(1..(k + 1))} = 1..((k + 1) - 1) /\ 1..(k + 1) # {}
    BY <2>1, LastOfInterval
  <2>3. g[1..(k + 1)] = Add(k + 1, g[1..k])
    BY <1>8, <2>1, <2>2
  <2>4. \A v \in T : Add(k + 1, v) \in T
    BY <1>0, <2>1 DEF Add, T, D
  <2>5. g[1..k] \in T
    BY <1>10
  <2> QED BY <2>1, <2>3, <2>4, <2>5
<1> HIDE DEF U
<1>11. n \in U
  <2>1. n \in 0..n
    BY <1>0
  <2> QED BY <1>0, <1>9, <1>10, <2>1, BoundedInduction
<1> QED BY <1>7, <1>11 DEF U, D, T

LEMMA RevocationFacts ==
  ASSUME NEW revs \in Seq(Revocations), NEW r \in Revocations, r.issuer = "self", r.good
  PROVE  /\ Append(revs, r) \in Seq(Revocations) /\ SelfRevoked(Append(revs, r))
         /\ <<r>> \o revs \in Seq(Revocations) /\ SelfRevoked(<<r>> \o revs)
         /\ <<r>> \in Seq(Revocations) /\ SelfRevoked(<<r>>)
<1> DEFINE a == Append(revs, r)
           b == <<r>> \o revs
           c == <<r>>
<1>1. Len(revs) \in Nat /\ c \in Seq(Revocations) /\ Len(c) = 1 /\ c[1] = r
  OBVIOUS
<1>2. a \in Seq(Revocations) /\ Len(a) = Len(revs) + 1 /\ a[Len(revs) + 1] = r
  BY AppendProperties
<1> HIDE DEF c
<1>3. c \o revs \in Seq(Revocations) /\ Len(c \o revs) = Len(c) + Len(revs)
      /\ \A i \in 1..(Len(c) + Len(revs)) : (c \o revs)[i] = IF i <= Len(c) THEN c[i] ELSE revs[i - Len(c)]
  <2>1. c \in Seq(Revocations)
    BY <1>1
  <2> QED BY <2>1, ConcatProperties
<1>4. b = c \o revs
  BY DEF c
<1> HIDE DEF a, b
<1>5. \A q \in Seq(Revocations) : DOMAIN q = 1..Len(q)
  OBVIOUS
<1>6. SelfRevoked(a)
  <2>1. Len(revs) + 1 \in 1..(Len(revs) + 1)
    BY <1>1
  <2> QED BY <1>2, <1>5, <2>1 DEF SelfRevoked
<1>7. SelfRevoked(b)
  <2>1. 1 \in 1..(1 + Len(revs)) /\ 1 <= 1
    BY <1>1
  <2>2. b[1] = r /\ 1 \in DOMAIN b
    BY <1>1, <1>3, <1>4, <1>5, <2>1
  <2> QED BY <2>2 DEF SelfRevoked
<1>8. SelfRevoked(c)
  <2>1. 1 \in DOMAIN c
    BY <1>1, <1>5
  <2> QED BY <1>1, <2>1 DEF SelfRevoked
<1> QED BY <1>1, <1>2, <1>3, <1>4, <1>6, <1>7, <1>8 DEF a, b, c

\* A key that has more revocations than before, and is the same otherwise.
MoreRevoked(k, l) ==
  /\ DOMAIN l.users = DOMAIN k.users /\ DOMAIN l.subkeys = DOMAIN k.subkeys
  /\ SelfRevoked(k.revs) => SelfRevoked(l.revs)
  /\ \A u \in DOMAIN k.users : /\ Certificates(l.users[u]) = Certificates(k.users[u])
                               /\ SelfRevoked(k.users[u].revs) => SelfRevoked(l.users[u].revs)
  /\ \A s \in DOMAIN k.subkeys : /\ l.subkeys[s].bindings = k.subkeys[s].bindings
                                 /\ SelfRevoked(k.subkeys[s].revs) => SelfRevoked(l.subkeys[s].revs)

LEMMA MoreRevokedRight ==
  ASSUME NEW k, NEW l, MoreRevoked(k, l), NEW cache, MarksRight(k, cache), NEW components, RevokedRight(k, components)
  PROVE  MarksRight(l, cache) /\ RevokedRight(l, components)
<1>1. RevokedRight(l, components)
  BY DEF MoreRevoked, RevokedRight
<1>2. MarksRight(l, cache)
  <2> SUFFICES ASSUME NEW p \in cache
               PROVE  \/ \E u \in DOMAIN l.users : \E i \in DOMAIN Certificates(l.users[u]) :
                            /\ p = <<User(u), i>>
                            /\ Certificates(l.users[u])[i].issuer = "self" => SelfRevoked(l.users[u].revs)
                      \/ \E s \in DOMAIN l.subkeys : \E i \in DOMAIN l.subkeys[s].bindings :
                            p = <<Subkey(s), i>> /\ SelfRevoked(l.subkeys[s].revs)
    BY DEF MarksRight
  <2>1. CASE \E u \in DOMAIN k.users : \E i \in DOMAIN Certificates(k.users[u]) :
               /\ p = <<User(u), i>>
               /\ Certificates(k.users[u])[i].issuer = "self" => SelfRevoked(k.users[u].revs)
    BY <2>1, ZenonT(80) DEF MoreRevoked
  <2>2. CASE \E s \in DOMAIN k.subkeys : \E i \in DOMAIN k.subkeys[s].bindings :
               p = <<Subkey(s), i>> /\ SelfRevoked(k.subkeys[s].revs)
    BY <2>2, Zenon DEF MoreRevoked
  <2> QED BY <2>1, <2>2 DEF MarksRight
<1> QED BY <1>1, <1>2

LEMMA MadeRevocation ==
  ASSUME NEW date \in Nat
  PROVE  Revocation(date) \in Revocations /\ Revocation(date).issuer = "self" /\ Revocation(date).good
BY DEF Revocation, Revocations

\* One more revocation of the key by itself: PrivateKey.revoke, or a revocation
\* certificate that verifies.
LEMMA KeyRevokedRight ==
  ASSUME NEW k \in KeyPackets, NEW r \in Revocations, r.issuer = "self", r.good
  PROVE  LET l == [k EXCEPT !.revs = Append(@, r)]
         IN  l \in KeyPackets /\ MoreRevoked(k, l) /\ SelfRevoked(l.revs)
<1> DEFINE a == Append(k.revs, r)
           l == [k EXCEPT !.revs = Append(@, r)]
<1>1. a \in Seq(Revocations) /\ SelfRevoked(a)
  BY KeyFacts, RevocationFacts
<1>2. l = [k EXCEPT !.revs = a]
  OBVIOUS
<1> HIDE DEF a
<1>3. [k EXCEPT !.revs = a] \in KeyPackets /\ [k EXCEPT !.revs = a].revs = a
      /\ [k EXCEPT !.revs = a].users = k.users /\ [k EXCEPT !.revs = a].subkeys = k.subkeys
  BY <1>1 DEF KeyPackets
<1> QED BY <1>1, <1>2, <1>3 DEF MoreRevoked

LEMMA SubkeyRevokedRight ==
  ASSUME NEW k \in KeyPackets, NEW s \in DOMAIN k.subkeys, NEW date \in Nat
  PROVE  LET l == RevokedSubkey(k, s, date)
         IN  l \in KeyPackets /\ MoreRevoked(k, l) /\ SelfRevoked(l.subkeys[s].revs)
<1> DEFINE a == <<Revocation(date)>> \o Surviving(k.subkeys[s].revs, date)
           sub == [k.subkeys[s] EXCEPT !.revs = a]
           subs == [k.subkeys EXCEPT ![s] = sub]
           l == [k EXCEPT !.subkeys = subs]
<1>1. a \in Seq(Revocations) /\ SelfRevoked(a)
  BY KeyFacts, SurvivingRevocations, MadeRevocation, RevocationFacts
<1>2. RevokedSubkey(k, s, date) = l
  <2>1. k.subkeys \in Seq(SubkeyPackets) /\ DOMAIN k = {"created", "algorithm", "strong", "users", "directs", "revs", "subkeys"}
    BY DEF KeyPackets
  <2> QED BY <2>1 DEF RevokedSubkey
<1> HIDE DEF a
<1>3. k.subkeys[s] \in SubkeyPackets /\ k.subkeys \in Seq(SubkeyPackets)
  BY KeyFacts DEF KeyPackets
<1>4. sub \in SubkeyPackets /\ sub.revs = a /\ sub.bindings = k.subkeys[s].bindings
  BY <1>1, <1>3 DEF SubkeyPackets
<1> HIDE DEF sub
<1>5. subs \in Seq(SubkeyPackets) /\ DOMAIN subs = DOMAIN k.subkeys /\ subs[s] = sub
      /\ \A t \in DOMAIN k.subkeys : t # s => subs[t] = k.subkeys[t]
  BY <1>3, <1>4
<1> HIDE DEF subs
<1>6. l \in KeyPackets /\ l.subkeys = subs /\ l.users = k.users /\ l.revs = k.revs
  BY <1>5 DEF KeyPackets
<1> HIDE DEF l
<1>7. MoreRevoked(k, l)
  BY <1>1, <1>4, <1>5, <1>6 DEF MoreRevoked
<1> QED BY <1>1, <1>2, <1>4, <1>5, <1>6, <1>7

LEMMA UserRevokedRight ==
  ASSUME NEW k \in KeyPackets, NEW u \in DOMAIN k.users, NEW date \in Nat
  PROVE  LET l == RevokedUser(k, u, date)
         IN  l \in KeyPackets /\ MoreRevoked(k, l) /\ SelfRevoked(l.users[u].revs)
<1> DEFINE a == <<Revocation(date)>>
           user == [k.users[u] EXCEPT !.revs = a]
           users == [k.users EXCEPT ![u] = user]
           l == [k EXCEPT !.users = users]
<1>1. a \in Seq(Revocations) /\ SelfRevoked(a)
  BY KeyFacts, MadeRevocation, RevocationFacts
<1>2. RevokedUser(k, u, date) = l
  <2>1. k.users \in Seq(UserPackets) /\ DOMAIN k = {"created", "algorithm", "strong", "users", "directs", "revs", "subkeys"}
    BY DEF KeyPackets
  <2> QED BY <2>1 DEF RevokedUser
<1> HIDE DEF a
<1>3. k.users[u] \in UserPackets /\ k.users \in Seq(UserPackets)
  BY KeyFacts DEF KeyPackets
<1>4. user \in UserPackets /\ user.revs = a /\ user.self = k.users[u].self /\ user.other = k.users[u].other
  BY <1>1, <1>3 DEF UserPackets
<1> HIDE DEF user
<1>5. users \in Seq(UserPackets) /\ DOMAIN users = DOMAIN k.users /\ users[u] = user
      /\ \A v \in DOMAIN k.users : v # u => users[v] = k.users[v]
  BY <1>3, <1>4
<1> HIDE DEF users
<1>6. l \in KeyPackets /\ l.users = users /\ l.subkeys = k.subkeys /\ l.revs = k.revs
  BY <1>5 DEF KeyPackets
<1> HIDE DEF l
<1>7. MoreRevoked(k, l)
  BY <1>1, <1>4, <1>5, <1>6 DEF MoreRevoked, Certificates
<1> QED BY <1>1, <1>2, <1>4, <1>5, <1>6, <1>7

----------------------------------------------------------------------------
(* Every step keeps the invariant.                                         *)

\* The application revokes a component.
LEMMA RevokeKeeps ==
  ASSUME IInv, NEW component, NEW l \in KeyPackets, MoreRevoked(key, l), Revoke(component, l),
         RevokedRight(l, {component})
  PROVE  IInv'
<1>1. key' = l /\ revokedBy' = revokedBy \cup {component} /\ revoked' = revoked /\ answer' = NoAnswer
  BY DEF Revoke
<1>2. MarksRight(l, revoked) /\ RevokedRight(l, revokedBy)
  BY MoreRevokedRight DEF IInv
<1>3. RevokedRight(l, revokedBy \cup {component})
  BY <1>2 DEF RevokedRight
<1>4. HistoryIndependent' /\ RevocationHolds'
  BY <1>1 DEF HistoryIndependent, RevocationHolds, NoAnswer
<1>5. key' \in KeyPackets /\ MarksRight(key, revoked)' /\ RevokedRight(key, revokedBy)'
  BY <1>1, <1>2, <1>3
<1> QED BY <1>4, <1>5 DEF IInv

\* A query answers.
LEMMA AnswerKeeps ==
  ASSUME IInv, UNCHANGED <<key, revokedBy>>, NEW cache, revoked' = cache, MarksRight(key, cache),
         HistoryIndependent', RevocationHolds'
  PROVE  IInv'
<1>1. MarksRight(key, revoked)' /\ RevokedRight(key, revokedBy)'
  BY DEF IInv
<1> QED BY <1>1 DEF IInv

LEMMA RevokeKeyKeeps ==
  ASSUME IInv, RevokeKey
  PROVE  IInv'
<1>1. PICK d \in RevocationDates : Revoke(Primary, RevokedKey(key, d))
  BY DEF RevokeKey
<1>2. d \in Nat /\ key \in KeyPackets
  BY DateAssumption DEF IInv
<1>3. RevokedKey(key, d) \in KeyPackets /\ MoreRevoked(key, RevokedKey(key, d)) /\ SelfRevoked(RevokedKey(key, d).revs)
  BY <1>2, MadeRevocation, KeyRevokedRight DEF RevokedKey
<1>4. RevokedRight(RevokedKey(key, d), {Primary})
  BY <1>3, Outcomes DEF RevokedRight
<1> QED BY <1>1, <1>3, <1>4, RevokeKeeps

LEMMA RevokeSubkeyKeeps ==
  ASSUME IInv, RevokeSubkey
  PROVE  IInv'
<1>1. PICK d \in RevocationDates, s \in DOMAIN key.subkeys : Revoke(Subkey(s), RevokedSubkey(key, s, d))
  BY DEF RevokeSubkey
<1>2. d \in Nat /\ key \in KeyPackets
  BY DateAssumption DEF IInv
<1> DEFINE l == RevokedSubkey(key, s, d)
<1>3. l \in KeyPackets /\ MoreRevoked(key, l) /\ SelfRevoked(l.subkeys[s].revs)
  BY <1>2, SubkeyRevokedRight
<1> HIDE DEF l
<1>4. RevokedRight(l, {Subkey(s)})
  <2>1. s \in DOMAIN l.subkeys
    BY <1>3 DEF MoreRevoked
  <2> QED BY <1>3, <2>1, Outcomes DEF RevokedRight
<1> QED BY <1>1, <1>3, <1>4, RevokeKeeps DEF l

LEMMA RevokeUserKeeps ==
  ASSUME IInv, RevokeUser
  PROVE  IInv'
<1>1. PICK d \in RevocationDates, u \in DOMAIN key.users : Revoke(User(u), RevokedUser(key, u, d))
  BY DEF RevokeUser
<1>2. d \in Nat /\ key \in KeyPackets
  BY DateAssumption DEF IInv
<1> DEFINE l == RevokedUser(key, u, d)
<1>3. l \in KeyPackets /\ MoreRevoked(key, l) /\ SelfRevoked(l.users[u].revs)
  BY <1>2, UserRevokedRight
<1> HIDE DEF l
<1>4. RevokedRight(l, {User(u)})
  <2>1. u \in DOMAIN l.users
    BY <1>3 DEF MoreRevoked
  <2> QED BY <1>3, <2>1, Outcomes DEF RevokedRight
<1> QED BY <1>1, <1>3, <1>4, RevokeKeeps DEF l

LEMMA ApplyKeeps ==
  ASSUME IInv, ApplyRevocationCertificate
  PROVE  IInv'
<1>1. PICK c \in RevocationDates, issuer \in {"self", "third"}, good \in BOOLEAN, d \in Dated :
        LET certificate == [Revocation(c) EXCEPT !.issuer = issuer, !.good = good]
        IN  IF Verifies(certificate, "self", d)
            THEN Revoke(Primary, [key EXCEPT !.revs = Append(@, certificate)])
            ELSE Respond("apply", d, NoUser, Primary, LAMBDA cache : Outcome(Throws, cache))
  BY DEF ApplyRevocationCertificate
<1> DEFINE r == [Revocation(c) EXCEPT !.issuer = issuer, !.good = good]
<1>2. c \in Nat /\ key \in KeyPackets
  BY DateAssumption DEF IInv
<1>3. r \in Revocations /\ r.issuer = issuer /\ r.good = good
  BY <1>2 DEF Revocation, Revocations
<1>a. IF Verifies(r, "self", d)
      THEN Revoke(Primary, [key EXCEPT !.revs = Append(@, r)])
      ELSE Respond("apply", d, NoUser, Primary, LAMBDA cache : Outcome(Throws, cache))
  BY <1>1
<1> HIDE DEF r
<1>4. CASE Verifies(r, "self", d)
  <2> DEFINE l == [key EXCEPT !.revs = Append(@, r)]
  <2>1. r.issuer = "self" /\ r.good
    BY <1>4 DEF Verifies
  <2>2. l \in KeyPackets /\ MoreRevoked(key, l) /\ SelfRevoked(l.revs)
    BY <1>2, <1>3, <2>1, KeyRevokedRight
  <2>3. Revoke(Primary, l)
    BY <1>a, <1>4
  <2> HIDE DEF l
  <2>4. RevokedRight(l, {Primary})
    BY <2>2, Outcomes DEF RevokedRight
  <2> QED BY <2>2, <2>3, <2>4, RevokeKeeps
<1>5. CASE ~Verifies(r, "self", d)
  <2>1. /\ answer' = [query |-> "apply", date |-> d, uid |-> NoUser, on |-> Primary, result |-> Throws, fresh |-> Throws]
        /\ UNCHANGED <<key, revokedBy, revoked>>
    BY <1>a, <1>5 DEF Respond, Outcome
  <2>2. HistoryIndependent' /\ RevocationHolds'
    BY <2>1 DEF HistoryIndependent, RevocationHolds
  <2> QED BY <2>1, <2>2, AnswerKeeps DEF IInv
<1> QED BY <1>4, <1>5

LEMMA NotRevoked ==
  ASSUME IInv
  PROVE  /\ <<"throws", 0>> \notin revokedBy
         /\ Primary \in revokedBy => SelfRevoked(key.revs)
         /\ \A u \in DOMAIN key.users : User(u) \in revokedBy => SelfRevoked(key.users[u].revs)
         /\ \A s \in DOMAIN key.subkeys : Subkey(s) \in revokedBy => SelfRevoked(key.subkeys[s].revs)
BY Outcomes DEF IInv, RevokedRight

LEMMA GetPrimaryUserKeeps ==
  ASSUME ~RevocationsExpire, IInv, GetPrimaryUser
  PROVE  IInv'
<1>1. PICK d \in Dated, uid \in UserIDs :
        Respond("primaryUser", d, uid, Primary, LAMBDA c : getPrimaryUser(key, c, d, uid))
  BY DEF GetPrimaryUser
<1> DEFINE outcome == getPrimaryUser(key, revoked, d, uid)
           fresh == getPrimaryUser(key, {}, d, uid).result
<1>2. /\ UNCHANGED <<key, revokedBy>> /\ revoked' = outcome.revoked
      /\ answer' = [query |-> "primaryUser", date |-> d, uid |-> uid, on |-> Primary,
                    result |-> outcome.result, fresh |-> fresh]
  BY <1>1 DEF Respond
<1>3. /\ outcome.result = fresh /\ MarksRight(key, outcome.revoked)
      /\ outcome.result # Throws =>
            \E u \in Candidates(key, d, uid) : outcome.result = {User(u)} /\ ~SelfRevoked(key.users[u].revs)
  BY PrimaryUserSame DEF IInv
<1> HIDE DEF outcome, fresh
<1>4. HistoryIndependent'
  BY <1>2, <1>3 DEF HistoryIndependent
<1>5. outcome.result \cap revokedBy = {}
  BY <1>3, NotRevoked DEF Throws, Candidates
<1>6. RevocationHolds'
  BY <1>2, <1>5 DEF RevocationHolds
<1> QED BY <1>2, <1>3, <1>4, <1>6, AnswerKeeps

LEMMA VerifyPrimaryKeyKeeps ==
  ASSUME ~RevocationsExpire, IInv, VerifyPrimaryKey
  PROVE  IInv'
<1>1. PICK d \in Dated, uid \in UserIDs :
        Respond("verifyPrimary", d, uid, Primary, LAMBDA c : verifyPrimaryKey(key, c, d, uid))
  BY DEF VerifyPrimaryKey
<1> DEFINE outcome == verifyPrimaryKey(key, revoked, d, uid)
           fresh == verifyPrimaryKey(key, {}, d, uid).result
<1>2. /\ UNCHANGED <<key, revokedBy>> /\ revoked' = outcome.revoked
      /\ answer' = [query |-> "verifyPrimary", date |-> d, uid |-> uid, on |-> Primary,
                    result |-> outcome.result, fresh |-> fresh]
  BY <1>1 DEF Respond
<1>3. outcome.result = fresh /\ MarksRight(key, outcome.revoked)
  BY VerifyPrimarySame DEF IInv
<1> HIDE DEF outcome, fresh
<1>4. HistoryIndependent' /\ RevocationHolds'
  BY <1>2, <1>3 DEF HistoryIndependent, RevocationHolds
<1> QED BY <1>2, <1>3, <1>4, AnswerKeeps

LEMMA IsRevokedKeeps ==
  ASSUME IInv, IsRevoked
  PROVE  IInv'
<1>1. PICK d \in Dated :
        Respond("isRevoked", d, NoUser, Primary, LAMBDA c : Outcome(IF KeyRevoked(key, d) THEN Passes ELSE Throws, c))
  BY DEF IsRevoked
<1> DEFINE result == IF KeyRevoked(key, d) THEN Passes ELSE Throws
<1>2. /\ UNCHANGED <<key, revokedBy, revoked>>
      /\ answer' = [query |-> "isRevoked", date |-> d, uid |-> NoUser, on |-> Primary,
                    result |-> result, fresh |-> result]
  BY <1>1 DEF Respond, Outcome
<1> HIDE DEF result
<1>3. HistoryIndependent' /\ RevocationHolds'
  BY <1>2 DEF HistoryIndependent, RevocationHolds
<1> QED BY <1>2, <1>3, AnswerKeeps DEF IInv

LEMMA GetExpirationTimeKeeps ==
  ASSUME ~RevocationsExpire, IInv, GetExpirationTime
  PROVE  IInv'
<1>1. PICK uid \in UserIDs :
        Respond("expiration", NoDate, uid, Primary, LAMBDA c : getExpirationTime(key, c, uid))
  BY DEF GetExpirationTime
<1> DEFINE outcome == getExpirationTime(key, revoked, uid)
           fresh == getExpirationTime(key, {}, uid).result
<1>2. /\ UNCHANGED <<key, revokedBy>> /\ revoked' = outcome.revoked
      /\ answer' = [query |-> "expiration", date |-> NoDate, uid |-> uid, on |-> Primary,
                    result |-> outcome.result, fresh |-> fresh]
  BY <1>1 DEF Respond
<1>3. outcome.result = fresh /\ MarksRight(key, outcome.revoked)
  BY ExpirationSame DEF IInv
<1> HIDE DEF outcome, fresh
<1>4. HistoryIndependent' /\ RevocationHolds'
  BY <1>2, <1>3 DEF HistoryIndependent, RevocationHolds
<1> QED BY <1>2, <1>3, <1>4, AnswerKeeps

\* getSigningKey and getEncryptionKey.
LEMMA SelectKeeps ==
  ASSUME ~RevocationsExpire, IInv, NEW purpose \in {"signing", "encryption"}, NEW d, NEW id,
         UNCHANGED <<key, revokedBy>>,
         revoked' = SelectKey(purpose, key, revoked, id, d, NoUser).revoked,
         answer' = [query |-> purpose, date |-> d, uid |-> NoUser, on |-> id,
                    result |-> SelectKey(purpose, key, revoked, id, d, NoUser).result,
                    fresh |-> SelectKey(purpose, key, {}, id, d, NoUser).result]
  PROVE  IInv'
<1> DEFINE outcome == SelectKey(purpose, key, revoked, id, d, NoUser)
           fresh == SelectKey(purpose, key, {}, id, d, NoUser).result
<1>2. /\ UNCHANGED <<key, revokedBy>> /\ revoked' = outcome.revoked
      /\ answer' = [query |-> purpose, date |-> d, uid |-> NoUser, on |-> id,
                    result |-> outcome.result, fresh |-> fresh]
  OBVIOUS
<1>3. /\ outcome.result = fresh /\ MarksRight(key, outcome.revoked)
      /\ outcome.result # Throws =>
           /\ ~SelfRevoked(key.revs)
           /\ \/ outcome.result = {Primary}
              \/ \A c \in outcome.result : \E s \in DOMAIN key.subkeys : c = Subkey(s) /\ ~SelfRevoked(key.subkeys[s].revs)
  BY SelectSame DEF IInv
<1> HIDE DEF outcome, fresh
<1>4. HistoryIndependent'
  BY <1>2, <1>3 DEF HistoryIndependent
<1>5. outcome.result \cap revokedBy = {} /\ (Primary \in revokedBy => outcome.result = Throws)
  BY <1>3, NotRevoked DEF Throws
<1>6. RevocationHolds'
  BY <1>2, <1>5 DEF RevocationHolds, Failed
<1> QED BY <1>2, <1>3, <1>4, <1>6, AnswerKeeps

LEMMA GetSigningKeyKeeps ==
  ASSUME ~RevocationsExpire, IInv, GetSigningKey
  PROVE  IInv'
<1>1. PICK d \in Dated, id \in KeyIDs :
        Respond("signing", d, NoUser, id, LAMBDA c : getSigningKey(key, c, id, d, NoUser))
  BY DEF GetSigningKey
<1> QED BY <1>1, SelectKeeps DEF Respond, getSigningKey

LEMMA GetEncryptionKeyKeeps ==
  ASSUME ~RevocationsExpire, IInv, GetEncryptionKey
  PROVE  IInv'
<1>1. PICK d \in Dated, id \in KeyIDs :
        Respond("encryption", d, NoUser, id, LAMBDA c : getEncryptionKey(key, c, id, d, NoUser))
  BY DEF GetEncryptionKey
<1> QED BY <1>1, SelectKeeps DEF Respond, getEncryptionKey

LEMMA GetDecryptionKeysKeeps ==
  ASSUME ~RevocationsExpire, IInv, GetDecryptionKeys
  PROVE  IInv'
<1>1. PICK d \in Dated, id \in KeyIDs :
        Respond("decryption", d, NoUser, id, LAMBDA c : getDecryptionKeys(key, c, id, d, NoUser))
  BY DEF GetDecryptionKeys
<1> DEFINE outcome == getDecryptionKeys(key, revoked, id, d, NoUser)
           fresh == getDecryptionKeys(key, {}, id, d, NoUser).result
<1>2. /\ UNCHANGED <<key, revokedBy>> /\ revoked' = outcome.revoked
      /\ answer' = [query |-> "decryption", date |-> d, uid |-> NoUser, on |-> id,
                    result |-> outcome.result, fresh |-> fresh]
  BY <1>1 DEF Respond
<1>3. outcome.result = fresh /\ MarksRight(key, outcome.revoked)
  BY DecryptionSame DEF IInv
<1> HIDE DEF outcome, fresh
<1>4. HistoryIndependent' /\ RevocationHolds'
  BY <1>2, <1>3 DEF HistoryIndependent, RevocationHolds
<1> QED BY <1>2, <1>3, <1>4, AnswerKeeps

LEMMA SubkeyVerifyKeeps ==
  ASSUME ~RevocationsExpire, IInv, SubkeyVerify
  PROVE  IInv'
<1>1. PICK d \in Dated, s \in DOMAIN key.subkeys :
        Respond("subkeyVerify", d, NoUser, Subkey(s), LAMBDA c : subkeyVerify(key, c, s, d))
  BY DEF SubkeyVerify
<1> DEFINE outcome == subkeyVerify(key, revoked, s, d)
           fresh == subkeyVerify(key, {}, s, d).result
<1>2. /\ UNCHANGED <<key, revokedBy>> /\ revoked' = outcome.revoked
      /\ answer' = [query |-> "subkeyVerify", date |-> d, uid |-> NoUser, on |-> Subkey(s),
                    result |-> outcome.result, fresh |-> fresh]
  BY <1>1 DEF Respond
<1>3. /\ outcome.result = fresh /\ MarksRight(key, outcome.revoked)
      /\ outcome.result # Throws => ~SelfRevoked(key.subkeys[s].revs)
  BY SubkeyVerifySame DEF IInv
<1> HIDE DEF outcome, fresh
<1>4. HistoryIndependent'
  BY <1>2, <1>3 DEF HistoryIndependent
<1>5. Subkey(s) \in revokedBy => Failed(outcome.result)
  BY <1>3, NotRevoked DEF Failed
<1>6. RevocationHolds'
  BY <1>2, <1>5 DEF RevocationHolds
<1> QED BY <1>2, <1>3, <1>4, <1>6, AnswerKeeps

LEMMA SubkeyGetExpirationTimeKeeps ==
  ASSUME IInv, SubkeyGetExpirationTime
  PROVE  IInv'
<1>1. PICK d \in Dated, s \in DOMAIN key.subkeys :
        Respond("subkeyExpiration", d, NoUser, Subkey(s), LAMBDA c : subkeyGetExpirationTime(key, c, s, d))
  BY DEF SubkeyGetExpirationTime
<1> DEFINE result == subkeyGetExpirationTime(key, {}, s, d).result
<1>2. \A c : subkeyGetExpirationTime(key, c, s, d).result = result /\ subkeyGetExpirationTime(key, c, s, d).revoked = c
  BY DEF subkeyGetExpirationTime, Outcome
<1>3. /\ UNCHANGED <<key, revokedBy, revoked>>
      /\ answer' = [query |-> "subkeyExpiration", date |-> d, uid |-> NoUser, on |-> Subkey(s),
                    result |-> result, fresh |-> result]
  BY <1>1, <1>2 DEF Respond
<1> HIDE DEF result
<1>4. HistoryIndependent' /\ RevocationHolds'
  BY <1>3 DEF HistoryIndependent, RevocationHolds
<1> QED BY <1>3, <1>4, AnswerKeeps DEF IInv

LEMMA UserVerifyKeeps ==
  ASSUME ~RevocationsExpire, IInv, UserVerify
  PROVE  IInv'
<1>1. PICK d \in Dated, u \in DOMAIN key.users :
        Respond("userVerify", d, NoUser, User(u), LAMBDA c : userVerify(key, c, u, d))
  BY DEF UserVerify
<1> DEFINE outcome == userVerify(key, revoked, u, d)
           fresh == userVerify(key, {}, u, d).result
<1>2. /\ UNCHANGED <<key, revokedBy>> /\ revoked' = outcome.revoked
      /\ answer' = [query |-> "userVerify", date |-> d, uid |-> NoUser, on |-> User(u),
                    result |-> outcome.result, fresh |-> fresh]
  BY <1>1 DEF Respond
<1>3. /\ outcome.result = fresh /\ MarksRight(key, outcome.revoked)
      /\ outcome.result # Throws => ~SelfRevoked(key.users[u].revs)
  BY UserVerifySame DEF IInv
<1> HIDE DEF outcome, fresh
<1>4. HistoryIndependent'
  BY <1>2, <1>3 DEF HistoryIndependent
<1>5. User(u) \in revokedBy => Failed(outcome.result)
  BY <1>3, NotRevoked DEF Failed
<1>6. RevocationHolds'
  BY <1>2, <1>5 DEF RevocationHolds
<1> QED BY <1>2, <1>3, <1>4, <1>6, AnswerKeeps

LEMMA VerifyAllCertificationsKeeps ==
  ASSUME ~RevocationsExpire, IInv, VerifyAllCertifications
  PROVE  IInv'
<1>1. PICK d \in Dated, u \in DOMAIN key.users, verifier \in {"self", "third"} :
        Respond("certifications", d, NoUser, User(u), LAMBDA c : verifyAllCertifications(key, c, u, verifier, d))
  BY DEF VerifyAllCertifications
<1> DEFINE outcome == verifyAllCertifications(key, revoked, u, verifier, d)
           fresh == verifyAllCertifications(key, {}, u, verifier, d).result
<1>2. /\ UNCHANGED <<key, revokedBy>> /\ revoked' = outcome.revoked
      /\ answer' = [query |-> "certifications", date |-> d, uid |-> NoUser, on |-> User(u),
                    result |-> outcome.result, fresh |-> fresh]
  BY <1>1 DEF Respond
<1>3. outcome.result \subseteq fresh /\ MarksRight(key, outcome.revoked)
  BY CertificationsSame DEF IInv
<1> HIDE DEF outcome, fresh
<1>4. HistoryIndependent' /\ RevocationHolds'
  BY <1>2, <1>3 DEF HistoryIndependent, RevocationHolds
<1> QED BY <1>2, <1>3, <1>4, AnswerKeeps

LEMMA GetRevocationCertificateKeeps ==
  ASSUME IInv, GetRevocationCertificate
  PROVE  IInv'
<1>1. PICK d \in Dated :
        Respond("certificate", d, NoUser, Primary, LAMBDA c : getRevocationCertificate(key, c, d))
  BY DEF GetRevocationCertificate
<1> DEFINE i == getLatestValidSignature(key.revs, "self", d)
           result == IF i = 0 THEN Throws ELSE {<<"revocation", i>>}
<1>2. /\ UNCHANGED <<key, revokedBy, revoked>>
      /\ answer' = [query |-> "certificate", date |-> d, uid |-> NoUser, on |-> Primary,
                    result |-> result, fresh |-> result]
  BY <1>1 DEF Respond, getRevocationCertificate, Outcome
<1>3. ASSUME Primary \in revokedBy, d = NoDate PROVE ~Failed(result)
  <2>1. PICK j \in DOMAIN key.revs : key.revs[j].issuer = "self" /\ key.revs[j].good
    BY <1>3, NotRevoked DEF SelfRevoked
  <2>2. Verifies(key.revs[j], "self", d)
    BY <1>3, <2>1 DEF Verifies
  <2>3. key.revs \in Seq(Revocations)
    BY KeyFacts DEF IInv
  <2>4. i # 0
    BY <2>2, <2>3, LatestValid, CreatedFacts
  <2>5. {<<"revocation", i>>} # {<<"throws", 0>>}
    <3>1. <<"revocation", i>> # <<"throws", 0>>
      OBVIOUS
    <3> HIDE DEF i
    <3> QED BY <3>1
  <2> QED BY <2>4, <2>5 DEF Failed, Throws
<1> HIDE DEF result
<1>4. HistoryIndependent' /\ RevocationHolds'
  BY <1>2, <1>3 DEF HistoryIndependent, RevocationHolds
<1> QED BY <1>2, <1>4, AnswerKeeps DEF IInv

----------------------------------------------------------------------------
(* The theorems.                                                           *)

LEMMA InitInvariant == Init => IInv
<1> SUFFICES ASSUME Init PROVE IInv
  OBVIOUS
<1>1. key \in KeyPackets /\ MarksRight(key, revoked) /\ RevokedRight(key, revokedBy)
  BY KeyAssumption, NoMarks DEF Init, RevokedRight
<1>2. HistoryIndependent /\ RevocationHolds
  BY DEF Init, NoAnswer, HistoryIndependent, RevocationHolds
<1> QED BY <1>1, <1>2 DEF IInv

LEMMA NextInvariant ==
  ASSUME ~RevocationsExpire, IInv, [Next]_vars
  PROVE  IInv'
<1>1. CASE Proceed \/ UNCHANGED vars
  <2>1. UNCHANGED <<key, revoked, revokedBy>> /\ (answer' = answer \/ answer' = NoAnswer)
    BY <1>1 DEF Proceed, vars
  <2>2. CASE answer' = answer
    <3>1. HistoryIndependent' /\ RevocationHolds'
      BY <2>1, <2>2 DEF IInv, HistoryIndependent, RevocationHolds
    <3> QED BY <2>1, <3>1, AnswerKeeps DEF IInv
  <2>3. CASE answer' = NoAnswer
    <3>1. HistoryIndependent' /\ RevocationHolds'
      BY <2>3 DEF NoAnswer, HistoryIndependent, RevocationHolds
    <3> QED BY <2>1, <3>1, AnswerKeeps DEF IInv
  <2> QED BY <2>1, <2>2, <2>3
<1>2. CASE GetPrimaryUser \/ VerifyPrimaryKey \/ IsRevoked \/ GetExpirationTime
  BY <1>2, GetPrimaryUserKeeps, VerifyPrimaryKeyKeeps, IsRevokedKeeps, GetExpirationTimeKeeps, Zenon
<1>3. CASE GetSigningKey \/ GetEncryptionKey \/ GetDecryptionKeys
  BY <1>3, GetSigningKeyKeeps, GetEncryptionKeyKeeps, GetDecryptionKeysKeeps, Zenon
<1>4. CASE SubkeyVerify \/ SubkeyGetExpirationTime \/ UserVerify
  BY <1>4, SubkeyVerifyKeeps, SubkeyGetExpirationTimeKeeps, UserVerifyKeeps, Zenon
<1>5. CASE VerifyAllCertifications \/ GetRevocationCertificate
  BY <1>5, VerifyAllCertificationsKeeps, GetRevocationCertificateKeeps, Zenon
<1>6. CASE RevokeKey \/ RevokeSubkey \/ RevokeUser \/ ApplyRevocationCertificate
  BY <1>6, RevokeKeyKeeps, RevokeSubkeyKeeps, RevokeUserKeeps, ApplyKeeps, Zenon
<1> QED BY <1>1, <1>2, <1>3, <1>4, <1>5, <1>6, Zenon DEF Next

\* A mark that isDataRevoked leaves on a signature, at whatever date, says no
\* more than that its component has a good revocation by the key itself.
THEOREM InvariantHolds == ~RevocationsExpire => (Spec => []IInv)
<1> SUFFICES ASSUME ~RevocationsExpire PROVE Spec => []IInv
  OBVIOUS
<1>1. IInv /\ [Next]_vars => IInv'
  BY NextInvariant
<1> QED BY <1>1, InitInvariant, PTL DEF Spec

\* No query on a key answers otherwise because of the queries before it.
THEOREM HistoryNeverMatters == ~RevocationsExpire => (Spec => []HistoryIndependent)
<1> SUFFICES ASSUME ~RevocationsExpire PROVE Spec => []HistoryIndependent
  OBVIOUS
<1>1. Spec => []IInv
  BY InvariantHolds
<1>2. IInv => HistoryIndependent
  BY DEF IInv
<1> QED BY <1>1, <1>2, PTL

\* What the application has revoked is not selected any more, and does not verify.
THEOREM RevokedStaysRevoked == ~RevocationsExpire => (Spec => []RevocationHolds)
<1> SUFFICES ASSUME ~RevocationsExpire PROVE Spec => []RevocationHolds
  OBVIOUS
<1>1. Spec => []IInv
  BY InvariantHolds
<1>2. IInv => RevocationHolds
  BY DEF IInv
<1> QED BY <1>1, <1>2, PTL
-----------------------------------------------------------------------------
(***************************************************************************)
(* What the queries answer: SelectionRight, EncryptedStaysDecryptable and  *)
(* ExpirationTimeRight, for every key, every date and every history of     *)
(* queries and revocations.                                                *)
(*                                                                         *)
(* The model follows the code: loops over a list of signatures, users or   *)
(* subkeys, a sort, the first or the last that passes.  Each lemma "...Found" *)
(* says what such a loop finds in the words of the property, which has no  *)
(* order and no index.  The invariants HistoryIndependent and FreshRight   *)
(* reduce every answer to the query on the packets alone, so that no proof *)
(* here looks at a mark.                                                   *)
(***************************************************************************)

\* A finite set of indices with a total order has a last element.
LEMMA LastExists ==
  ASSUME NEW n \in Nat, NEW C, C \subseteq 1..n, C # {}, NEW before,
         \A u, v, w \in C : <<u, v>> \in before /\ <<v, w>> \in before => <<u, w>> \in before,
         \A u, v \in C : u = v \/ <<u, v>> \in before \/ <<v, u>> \in before
  PROVE  \E u \in C : \A v \in C \ {u} : <<v, u>> \in before
<1> DEFINE IsLast(u, D) == u \in D /\ \A v \in D \ {u} : <<v, u>> \in before
           T == {m \in 0..n : C \cap 1..m = {} \/ \E u \in C : IsLast(u, C \cap 1..m)}
<1>1. 0 \in T
  OBVIOUS
<1>2. ASSUME NEW m \in 0..(n - 1), m \in T PROVE m + 1 \in T
  <2>1. m + 1 \in 1..n /\ 1..(m + 1) = 1..m \cup {m + 1} /\ m + 1 \in 0..n /\ 1..m \subseteq 1..n
    OBVIOUS
  <2>2. CASE m + 1 \notin C
    <3>1. C \cap 1..(m + 1) = C \cap 1..m
      BY <2>1, <2>2
    <3> QED BY <1>2, <2>1, <3>1
  <2>3. CASE m + 1 \in C /\ C \cap 1..m = {}
    <3>1. C \cap 1..(m + 1) = {m + 1}
      BY <2>1, <2>3
    <3>2. IsLast(m + 1, C \cap 1..(m + 1))
      BY <3>1
    <3> QED BY <2>1, <2>3, <3>2
  <2>4. CASE m + 1 \in C /\ C \cap 1..m # {}
    <3>1. PICK u \in C : IsLast(u, C \cap 1..m)
      BY <1>2, <2>4
    <3>2. u \in 1..m /\ u \in 1..n /\ u # m + 1
      BY <2>1, <3>1
    <3> HIDE DEF T
    <3>3. CASE <<u, m + 1>> \in before
      <4>1. IsLast(m + 1, C \cap 1..(m + 1))
        BY <2>1, <2>4, <3>1, <3>2, <3>3
      <4> QED BY <2>1, <2>4, <4>1 DEF T
    <3>4. CASE <<m + 1, u>> \in before
      <4>1. IsLast(u, C \cap 1..(m + 1))
        BY <2>1, <2>4, <3>1, <3>2, <3>4
      <4> QED BY <2>1, <4>1 DEF T
    <3> QED BY <2>4, <3>2, <3>3, <3>4
  <2> QED BY <2>2, <2>3, <2>4
<1> HIDE DEF T
<1>3. n \in T
  BY <1>1, <1>2, BoundedInduction
<1>4. C \cap 1..n = C
  OBVIOUS
<1> QED BY <1>3, <1>4 DEF T

\* The signature in force is the one getLatestValidSignature finds.
LEMMA InForceFound ==
  ASSUME NEW sigs \in Seq(Signatures), NEW date
  PROVE  LET latest == getLatestValidSignature(sigs, "self", date)
         IN  /\ latest = 0 => InForceOf(sigs, date) = {}
             /\ latest # 0 => latest \in DOMAIN sigs /\ InForceOf(sigs, date) = {sigs[latest]}
<1> DEFINE latest == getLatestValidSignature(sigs, "self", date)
<1>1. \A i \in 1..Len(sigs) : sigs[i].created \in Nat
  BY CreatedFacts
<1>2. /\ latest = 0 => \A i \in DOMAIN sigs : ~Verifies(sigs[i], "self", date)
      /\ latest # 0 =>
            /\ latest \in DOMAIN sigs /\ Verifies(sigs[latest], "self", date)
            /\ \A j \in DOMAIN sigs : Verifies(sigs[j], "self", date) =>
                  \/ sigs[j].created < sigs[latest].created
                  \/ sigs[j].created = sigs[latest].created /\ latest <= j
  BY <1>1, LatestValid
<1> HIDE DEF latest
<1>3. latest = 0 => InForceOf(sigs, date) = {}
  BY <1>2 DEF InForceOf, InForce
<1>4. ASSUME latest # 0 PROVE InForceOf(sigs, date) = {sigs[latest]}
  <2>1. InForce(sigs, latest, date)
    BY <1>2, <1>4 DEF InForce
  <2>2. ASSUME NEW j \in DOMAIN sigs, InForce(sigs, j, date) PROVE j = latest
    <3>1. sigs[j].created \in Nat /\ sigs[latest].created \in Nat /\ j \in Nat /\ latest \in Nat
      BY <1>1, <1>2, <1>4
    <3>2. \/ sigs[j].created < sigs[latest].created
          \/ sigs[j].created = sigs[latest].created /\ latest <= j
      BY <1>2, <1>4, <2>2 DEF InForce
    <3>3. \/ sigs[latest].created < sigs[j].created
          \/ sigs[latest].created = sigs[j].created /\ j <= latest
      BY <1>2, <1>4, <2>2 DEF InForce
    <3> QED BY <3>1, <3>2, <3>3
  <2> QED BY <1>2, <1>4, <2>1, <2>2 DEF InForceOf
<1> QED BY <1>2, <1>3, <1>4 DEF latest

\* The sort of getPrimaryUser orders any two of the users it looks at.
LEMMA SortTotal ==
  ASSUME NEW k \in KeyPackets, NEW cache, NEW date, NEW uid,
         NEW u \in Candidates(k, date, uid), NEW v \in Candidates(k, date, uid)
  PROVE  /\ u = v \/ SortedBefore(k, cache, u, v, date) \/ SortedBefore(k, cache, v, u, date)
         /\ \A w \in Candidates(k, date, uid) :
               SortedBefore(k, cache, u, v, date) /\ SortedBefore(k, cache, v, w, date)
               => SortedBefore(k, cache, u, w, date)
<1> DEFINE C == Candidates(k, date, uid)
           gone(x) == CertRevoked(k, cache, x, date)
           cert(x) == Cert(k, x, date)
<1>1. \A x \in C : x \in DOMAIN k.users /\ x \in Nat /\ CertIndex(k, x, date) # 0
  BY KeyFacts DEF Candidates, CertIndex
<1>2. \A x \in C : cert(x) \in Signatures
  BY <1>1, KeyFacts, LatestFacts, ElementOfSeq DEF Cert, CertIndex
<1>3. \A x \in C : cert(x).created \in Nat /\ cert(x).primary \in BOOLEAN
  BY <1>2 DEF Signatures
<1>4. \A x, y : SortedBefore(k, cache, x, y, date) <=>
        \/ gone(x) /\ ~gone(y)
        \/ (gone(x) <=> gone(y)) /\ ~cert(x).primary /\ cert(y).primary
        \/ (gone(x) <=> gone(y)) /\ cert(x).primary = cert(y).primary /\ cert(x).created < cert(y).created
        \/ (gone(x) <=> gone(y)) /\ cert(x).primary = cert(y).primary /\ cert(x).created = cert(y).created /\ x < y
  BY DEF SortedBefore
<1> HIDE DEF C, gone, cert
<1>5. u = v \/ SortedBefore(k, cache, u, v, date) \/ SortedBefore(k, cache, v, u, date)
  BY <1>1, <1>3, <1>4 DEF C
<1>6. ASSUME NEW w \in C, SortedBefore(k, cache, u, v, date), SortedBefore(k, cache, v, w, date)
      PROVE  SortedBefore(k, cache, u, w, date)
  BY <1>1, <1>3, <1>4, <1>6 DEF C
<1> QED BY <1>5, <1>6 DEF C

\* The users that may speak for the key are candidates the key has not revoked.
LEMMA LiveFound ==
  ASSUME NEW k \in KeyPackets, NEW date, NEW uid
  PROVE  /\ LiveUsers(k, date, uid) = {u \in Candidates(k, date, uid) : ~SelfRevoked(k.users[u].revs)}
         /\ \A u \in Candidates(k, date, uid) :
               /\ u \in DOMAIN k.users /\ CertIndex(k, u, date) # 0
               /\ Cert(k, u, date) \in Signatures
               /\ InForceOf(k.users[u].self, date) = {Cert(k, u, date)}
<1>1. \A u \in DOMAIN k.users : k.users[u].self \in Seq(Signatures)
  BY KeyFacts
<1>2. \A u \in DOMAIN k.users :
        IF CertIndex(k, u, date) = 0 THEN InForceOf(k.users[u].self, date) = {}
        ELSE InForceOf(k.users[u].self, date) = {Cert(k, u, date)} /\ CertIndex(k, u, date) \in DOMAIN k.users[u].self
  BY <1>1, InForceFound DEF CertIndex, Cert
<1>3. \A u \in DOMAIN k.users : InForceOf(k.users[u].self, date) # {} <=> CertIndex(k, u, date) # 0
  BY <1>2
<1>4. LiveUsers(k, date, uid) = {u \in Candidates(k, date, uid) : ~SelfRevoked(k.users[u].revs)}
  BY <1>3 DEF LiveUsers, Candidates, CertIndex
<1>5. \A u \in Candidates(k, date, uid) : u \in DOMAIN k.users /\ CertIndex(k, u, date) # 0
  BY DEF Candidates, CertIndex
<1> QED BY <1>1, <1>2, <1>4, <1>5, ElementOfSeq, SMTT(30) DEF Cert

\* getPrimaryUser returns one of the users its documentation allows, and
\* throws only if there is none.
LEMMA PrimaryUserFound ==
  ASSUME ~RevocationsExpire, NEW k \in KeyPackets, NEW cache, MarksRight(k, cache), NEW date, NEW uid
  PROVE  LET result == getPrimaryUser(k, cache, date, uid).result
         IN  IF Speakers(k, date, uid) = {} THEN result = Throws
             ELSE \E u \in Speakers(k, date, uid) : result = {User(u)}
<1> DEFINE C == Candidates(k, date, uid)
           result == getPrimaryUser(k, cache, date, uid).result
           live == {u \in C : ~SelfRevoked(k.users[u].revs)}
           before == {p \in C \X C : SortedBefore(k, cache, p[1], p[2], date)}
           ranked == {u \in C : \A v \in C \ {u} : SortedBefore(k, cache, v, u, date)}
           n == Len(k.users)
<1>1. n \in Nat /\ DOMAIN k.users = 1..n
  BY DEF KeyPackets
<1>2. \A u \in C : u \in DOMAIN k.users /\ CertIndex(k, u, date) # 0 /\ Cert(k, u, date) \in Signatures
                   /\ InForceOf(k.users[u].self, date) = {Cert(k, u, date)}
  BY LiveFound
<1>3. \A u \in C : CertRevoked(k, cache, u, date) <=> SelfRevoked(k.users[u].revs)
  BY <1>2, CertRevokedSame
<1>4. LiveUsers(k, date, uid) = live
  BY LiveFound
<1>5. Speakers(k, date, uid) = {u \in live : \A v \in live : ~Outranks(Cert(k, v, date), Cert(k, u, date))}
  BY <1>2, <1>4 DEF Speakers
<1>6. result = IF \E u \in ranked : ~CertRevoked(k, cache, u, date) THEN {User(u) : u \in ranked} ELSE Throws
  BY DEF getPrimaryUser, Outcome
<1>7. C # {} => \E u \in C : u \in ranked
  <2>1. \A u, v \in C : u = v \/ <<u, v>> \in before \/ <<v, u>> \in before
    BY SortTotal
  <2>2. \A u, v, w \in C : <<u, v>> \in before /\ <<v, w>> \in before => <<u, w>> \in before
    BY SortTotal
  <2>3. C \subseteq 1..n
    BY <1>1, <1>2
  <2>4. ASSUME C # {} PROVE \E u \in C : \A v \in C \ {u} : <<v, u>> \in before
    <3> HIDE DEF before, C, n
    <3>1. n \in Nat
      BY <1>1
    <3> QED BY <2>1, <2>2, <2>3, <2>4, <3>1, LastExists, Zenon
  <2> QED BY <2>4
<1> HIDE DEF C, result
<1>8. ASSUME NEW u \in ranked, ~CertRevoked(k, cache, u, date)
      PROVE  u \in Speakers(k, date, uid) /\ result = {User(u)}
  <2>1. u \in live
    BY <1>3, <1>8
  <2>2. ASSUME NEW v \in live PROVE ~Outranks(Cert(k, v, date), Cert(k, u, date))
    <3>1. v = u \/ SortedBefore(k, cache, v, u, date)
      BY <1>8
    <3>2. ~CertRevoked(k, cache, v, date)
      BY <1>3
    <3>3. Cert(k, u, date) \in Signatures /\ Cert(k, v, date) \in Signatures
      BY <1>2, <2>1
    <3>4. /\ Cert(k, u, date).created \in Nat /\ Cert(k, v, date).created \in Nat
          /\ Cert(k, u, date).primary \in BOOLEAN /\ Cert(k, v, date).primary \in BOOLEAN
      BY <3>3 DEF Signatures
    <3> QED BY <1>8, <3>1, <3>2, <3>4 DEF SortedBefore, Outranks
  <2>3. u \in Speakers(k, date, uid)
    BY <1>5, <2>1, <2>2
  <2>4. result # Throws => \E v \in C : result = {User(v)}
    BY PrimaryUserSame DEF result, C
  <2>5. User(u) \in result
    BY <1>6, <1>8
  <2>6. result # Throws
    BY <2>5, Outcomes DEF Throws
  <2> QED BY <2>3, <2>4, <2>5, <2>6
<1>9. ASSUME \A u \in ranked : CertRevoked(k, cache, u, date)
      PROVE  Speakers(k, date, uid) = {} /\ result = Throws
  <2>1. result = Throws
    BY <1>6, <1>9
  <2>2. ASSUME NEW v \in live PROVE FALSE
    <3>1. PICK u \in C : u \in ranked
      BY <1>7
    <3>2. CertRevoked(k, cache, u, date) /\ ~CertRevoked(k, cache, v, date)
      BY <1>3, <1>9, <3>1
    <3>3. SortedBefore(k, cache, v, u, date)
      BY <3>1, <3>2
    <3> QED BY <3>2, <3>3 DEF SortedBefore
  <2> QED BY <1>5, <2>1, <2>2
<1> QED BY <1>8, <1>9 DEF result, C

\* The date argument of a query: null, or an ordinary date.
LEMMA DatedFacts == \A d \in Dated : (d \in Nat /\ d < Infinity) \/ d = NoDate
BY DateAssumption DEF Dated

\* isDataExpired is the negation of being alive.
LEMMA AliveNotExpired ==
  ASSUME NEW packet, packet.created \in Nat, NEW sig \in Signatures, NEW date \in Dated
  PROVE  AliveAt(packet, {sig}, date) <=> ~isDataExpired(packet, sig, date)
<1>1. sig.keyExpiration \in Nat
  BY DEF Signatures
<1>2. date # NoDate => date \in Nat /\ date < Infinity
  BY DatedFacts
<1> QED BY <1>1, <1>2, DateAssumption DEF AliveAt, isDataExpired, getKeyExpirationTime

\* The signature that verifyPrimaryKey judges the primary user by.
LEMMA CertOfUser ==
  ASSUME NEW k, NEW u \in DOMAIN k.users, NEW date
  PROVE  PrimaryCert(k, {User(u)}, date) = Cert(k, u, date)
<1>1. \A v : User(v) \in {User(u)} => v = u
  BY Outcomes
<1>2. (CHOOSE v \in DOMAIN k.users : User(v) \in {User(u)}) = u
  BY <1>1
<1> QED BY <1>2 DEF PrimaryCert

\* verifyPrimaryKey passes when the user that speaks for the key has a live
\* certificate, and the key is alive itself.
LEMMA VerifyPrimaryFound ==
  ASSUME ~RevocationsExpire, NEW k \in KeyPackets, NEW cache, MarksRight(k, cache), NEW date \in Dated, NEW uid
  PROVE  LET result == verifyPrimaryKey(k, cache, date, uid).result
             users  == Speakers(k, date, uid)
         IN  /\ result = Throws => users = {} \/ \E u \in users : ~PrimaryAlive(k, u, date)
             /\ result # Throws =>
                  \E u \in users : PrimaryAlive(k, u, date) /\ getPrimaryUser(k, cache, date, uid).result = {User(u)}
<1> DEFINE result == verifyPrimaryKey(k, cache, date, uid).result
           user   == getPrimaryUser(k, cache, date, uid).result
           users  == Speakers(k, date, uid)
           direct == getLatestValidSignature(k.directs, "self", date)
<1>1. KeyRevoked(k, date) <=> SelfRevoked(k.revs)
  BY RevocationSame DEF KeyRevoked
<1>2. result = IF \/ KeyRevoked(k, date)
                  \/ Failed(user)
                  \/ isDataExpired(k, PrimaryCert(k, user, date), date)
                  \/ direct # 0 /\ isDataExpired(k, k.directs[direct], date)
               THEN Throws ELSE Passes
  BY DEF verifyPrimaryKey, Outcome
<1>3. k.created \in Nat /\ k.directs \in Seq(Signatures)
  BY KeyFacts DEF KeyPackets
<1>4. AliveAt(k, InForceOf(k.directs, date), date) <=> ~(direct # 0 /\ isDataExpired(k, k.directs[direct], date))
  <2>1. /\ direct = 0 => InForceOf(k.directs, date) = {}
        /\ direct # 0 => direct \in DOMAIN k.directs /\ InForceOf(k.directs, date) = {k.directs[direct]}
    BY <1>3, InForceFound
  <2>2. AliveAt(k, {}, date)
    BY DEF AliveAt
  <2>3. direct # 0 => k.directs[direct] \in Signatures
    BY <1>3, <2>1, ElementOfSeq
  <2> HIDE DEF direct
  <2>4. direct # 0 => (AliveAt(k, {k.directs[direct]}, date) <=> ~isDataExpired(k, k.directs[direct], date))
    BY <1>3, <2>3, AliveNotExpired
  <2> QED BY <2>1, <2>2, <2>4
<1>5. IF users = {} THEN user = Throws ELSE \E u \in users : user = {User(u)}
  BY PrimaryUserFound
<1>6. ASSUME NEW u \in users, user = {User(u)}
      PROVE  PrimaryAlive(k, u, date) <=> /\ ~SelfRevoked(k.revs)
                                          /\ ~isDataExpired(k, PrimaryCert(k, user, date), date)
                                          /\ AliveAt(k, InForceOf(k.directs, date), date)
  <2>1. u \in Candidates(k, date, uid)
    BY LiveFound DEF Speakers
  <2>2. u \in DOMAIN k.users /\ Cert(k, u, date) \in Signatures /\ InForceOf(k.users[u].self, date) = {Cert(k, u, date)}
    BY <2>1, LiveFound
  <2>3. PrimaryCert(k, user, date) = Cert(k, u, date)
    BY <1>6, <2>2, CertOfUser
  <2>4. AliveAt(k, {Cert(k, u, date)}, date) <=> ~isDataExpired(k, Cert(k, u, date), date)
    BY <1>3, <2>2, AliveNotExpired
  <2> QED BY <2>2, <2>3, <2>4 DEF PrimaryAlive
<1> HIDE DEF result, user, users, direct
<1>7. \A u : user = {User(u)} => user # Throws
  BY Outcomes DEF Throws
<1>8. ASSUME result = Throws PROVE users = {} \/ \E u \in users : ~PrimaryAlive(k, u, date)
  <2>1. SUFFICES ASSUME NEW u \in users, user = {User(u)} PROVE ~PrimaryAlive(k, u, date)
    BY <1>5
  <2> QED BY <1>1, <1>2, <1>4, <1>6, <1>7, <1>8, <2>1, Outcomes DEF Failed
<1>9. ASSUME result # Throws PROVE \E u \in users : PrimaryAlive(k, u, date) /\ user = {User(u)}
  <2>1. user # Throws
    BY <1>2, <1>9 DEF Failed
  <2>2. PICK u \in users : user = {User(u)}
    BY <1>5, <2>1
  <2> QED BY <1>1, <1>2, <1>4, <1>6, <1>9, <2>2
<1> QED BY <1>8, <1>9 DEF result, user, users

\* The subkeys getSigningKey and getEncryptionKey take are those that may be
\* used for the purpose.
LEMMA SuitableMay ==
  ASSUME ~RevocationsExpire, NEW k \in KeyPackets, NEW cache, MarksRight(k, cache), NEW date \in Dated, NEW keyID,
         NEW purpose \in {"signing", "encryption"}
  PROVE  Suitable(purpose, k, cache, keyID, date) =
           {s \in DOMAIN k.subkeys : Asked(keyID, Subkey(s)) /\ SubkeyMay(purpose, k.subkeys[s], date)}
<1> SUFFICES ASSUME NEW s \in DOMAIN k.subkeys
             PROVE  /\ ~Failed(subkeyVerify(k, cache, s, date).result)
                    /\ LET sub == k.subkeys[s]
                           sig == sub.bindings[BindingIndex(sub, date)]
                       IN  Serves(purpose, sub, sig) /\ CrossSigned(purpose, sig, date)
                    /\ MeetsRequirements(k.subkeys[s])
                    <=> SubkeyMay(purpose, k.subkeys[s], date)
  BY DEF Suitable
<1> DEFINE sub == k.subkeys[s]
           i == BindingIndex(sub, date)
           sig == sub.bindings[i]
<1>1. sub.created \in Nat /\ sub.bindings \in Seq(Signatures)
  BY KeyFacts
<1>2. /\ i = 0 => InForceOf(sub.bindings, date) = {}
      /\ i # 0 => i \in DOMAIN sub.bindings /\ InForceOf(sub.bindings, date) = {sig}
  BY <1>1, InForceFound DEF BindingIndex
<1>3. SubkeyRevoked(k, cache, s, date) <=> i # 0 /\ SelfRevoked(sub.revs)
  BY SubkeyRevokedSame
<1>4. ~Failed(subkeyVerify(k, cache, s, date).result) <=>
        i # 0 /\ ~SelfRevoked(sub.revs) /\ ~isDataExpired(sub, sig, date)
  <2>1. subkeyVerify(k, cache, s, date).result =
          IF i = 0 \/ SubkeyRevoked(k, cache, s, date) \/ isDataExpired(sub, sig, date) THEN Throws ELSE Passes
    BY DEF subkeyVerify, Outcome
  <2> HIDE DEF i, sig, sub
  <2> QED BY <1>3, <2>1, Outcomes DEF Failed
<1>5. i # 0 => sig \in Signatures
  BY <1>1, <1>2, ElementOfSeq
<1> HIDE DEF i, sig, sub
<1>6. i # 0 => (AliveAt(sub, {sig}, date) <=> ~isDataExpired(sub, sig, date))
  BY <1>1, <1>5, AliveNotExpired
<1>7. SubkeyAlive(sub, date) <=> i # 0 /\ ~SelfRevoked(sub.revs) /\ ~isDataExpired(sub, sig, date)
  BY <1>2, <1>6 DEF SubkeyAlive
<1>8. Permits(purpose, sub, {sig}) <=> MeetsRequirements(sub) /\ Serves(purpose, sub, sig)
  BY DEF Permits, MeetsRequirements, Serves, isValidSigningKeyPacket, isValidEncryptionKeyPacket
<1>9. i # 0 => (CrossSigned(purpose, sig, date) <=>
                  (purpose = "signing" => \E e \in ToSet(sig.embedded) : Verifies(e, "subkey", date)))
  <2>1. SUFFICES ASSUME i # 0
                 PROVE  getLatestValidSignature(sig.embedded, "subkey", date) # 0 <=>
                          \E e \in ToSet(sig.embedded) : Verifies(e, "subkey", date)
    BY DEF CrossSigned
  <2>2. sig.embedded \in Seq(Revocations)
    BY <1>5, <2>1 DEF Signatures
  <2>3. \A j \in 1..Len(sig.embedded) : sig.embedded[j].created \in Nat
    BY <2>2, CreatedFacts
  <2> DEFINE latest == getLatestValidSignature(sig.embedded, "subkey", date)
  <2>4. /\ latest = 0 => \A j \in DOMAIN sig.embedded : ~Verifies(sig.embedded[j], "subkey", date)
        /\ latest # 0 => latest \in DOMAIN sig.embedded /\ Verifies(sig.embedded[latest], "subkey", date)
    BY <2>2, <2>3, LatestValid
  <2> HIDE DEF latest
  <2>5. \A e : e \in ToSet(sig.embedded) <=> \E j \in DOMAIN sig.embedded : e = sig.embedded[j]
    BY DEF ToSet
  <2> QED BY <2>4, <2>5 DEF latest
<1>10. SubkeyMay(purpose, sub, date) <=>
         /\ i # 0 /\ ~SelfRevoked(sub.revs) /\ ~isDataExpired(sub, sig, date)
         /\ MeetsRequirements(sub) /\ Serves(purpose, sub, sig)
         /\ CrossSigned(purpose, sig, date)
  BY <1>2, <1>7, <1>8, <1>9 DEF SubkeyMay
<1> QED BY <1>4, <1>10 DEF i, sig, sub

\* The loop over the subkeys stops at the one created last.
LEMMA FirstFound ==
  ASSUME NEW k \in KeyPackets, NEW subs, subs \subseteq DOMAIN k.subkeys
  PROVE  IF subs = {} THEN FirstOf(k, subs) = {}
         ELSE \E s \in subs : /\ FirstOf(k, subs) = {s}
                              /\ \A t \in subs : k.subkeys[t].created <= k.subkeys[s].created
<1> DEFINE n == Len(k.subkeys)
           before == {p \in subs \X subs : TriedBefore(k, p[2], p[1])}
           created(s) == k.subkeys[s].created
<1>1. n \in Nat /\ DOMAIN k.subkeys = 1..n
  BY DEF KeyPackets
<1>2. \A s \in subs : s \in Nat /\ created(s) \in Nat
  BY KeyFacts
<1>3. \A s, t : TriedBefore(k, s, t) <=> created(s) > created(t) \/ (created(s) = created(t) /\ s < t)
  BY DEF TriedBefore
<1> HIDE DEF created
<1>4. CASE subs = {}
  BY <1>4 DEF FirstOf
<1>5. CASE subs # {}
  <2>1. \A s, t, v \in subs : <<s, t>> \in before /\ <<t, v>> \in before => <<s, v>> \in before
    BY <1>2, <1>3
  <2>2. \A s, t \in subs : s = t \/ <<s, t>> \in before \/ <<t, s>> \in before
    BY <1>2, <1>3
  <2>3. \A s, t \in subs : <<s, t>> \in before <=> TriedBefore(k, t, s)
    OBVIOUS
  <2>4. \E s \in subs : \A t \in subs \ {s} : <<t, s>> \in before
    <3> HIDE DEF before, n
    <3>1. n \in Nat /\ subs \subseteq 1..n
      BY <1>1
    <3> QED BY <1>5, <2>1, <2>2, <3>1, LastExists, Zenon
  <2>5. PICK s \in subs : \A t \in subs \ {s} : TriedBefore(k, s, t)
    BY <2>3, <2>4
  <2>6. ASSUME NEW t \in FirstOf(k, subs) PROVE t = s
    BY <1>2, <1>3, <2>5 DEF FirstOf
  <2>7. FirstOf(k, subs) = {s}
    BY <2>5, <2>6 DEF FirstOf
  <2>8. \A t \in subs : created(t) <= created(s)
    BY <1>2, <1>3, <2>5
  <2> QED BY <1>5, <2>7, <2>8 DEF created
<1> QED BY <1>4, <1>5

\* What getSigningKey and getEncryptionKey may answer.
Selects(k, purpose, keyID, date, uid, result) ==
  LET subs   == {s \in DOMAIN k.subkeys : Asked(keyID, Subkey(s)) /\ SubkeyMay(purpose, k.subkeys[s], date)}
      latest == {s \in subs : \A t \in subs : k.subkeys[t].created <= k.subkeys[s].created}
      users  == Speakers(k, date, uid)
      alive  == {u \in users : PrimaryAlive(k, u, date)}
      may    == {u \in alive : Asked(keyID, Primary) /\ Permits(purpose, k, InForceOf(k.users[u].self, date))}
  IN  \/ result = Throws /\ (users = {} \/ alive # users \/ (subs = {} /\ may # users))
      \/ alive # {} /\ \E s \in latest : result = {Subkey(s)}
      \/ subs = {} /\ may # {} /\ result = {Primary}

LEMMA SelectFound ==
  ASSUME ~RevocationsExpire, NEW k \in KeyPackets, NEW cache, MarksRight(k, cache), NEW date \in Dated, NEW keyID,
         NEW purpose \in {"signing", "encryption"}, NEW uid
  PROVE  LET result == SelectKey(purpose, k, cache, keyID, date, uid).result
         IN  /\ Selects(k, purpose, keyID, date, uid, result)
             /\ result = {Primary} =>
                  \E u \in Speakers(k, date, uid) :
                     /\ getPrimaryUser(k, cache, date, uid).result = {User(u)}
                     /\ Permits(purpose, k, InForceOf(k.users[u].self, date))
<1> DEFINE subs   == {s \in DOMAIN k.subkeys : Asked(keyID, Subkey(s)) /\ SubkeyMay(purpose, k.subkeys[s], date)}
           latest == {s \in subs : \A t \in subs : k.subkeys[t].created <= k.subkeys[s].created}
           users  == Speakers(k, date, uid)
           alive  == {u \in users : PrimaryAlive(k, u, date)}
           may    == {u \in alive : Asked(keyID, Primary) /\ Permits(purpose, k, InForceOf(k.users[u].self, date))}
           primary == verifyPrimaryKey(k, cache, date, uid)
           first  == FirstOf(k, Suitable(purpose, k, cache, keyID, date))
           marked == primary.revoked \cup LoopMarks(k, cache, keyID, date, first)
           user   == getPrimaryUser(k, marked, date, uid)
           result == SelectKey(purpose, k, cache, keyID, date, uid).result
<1>1. result = IF Failed(primary.result) THEN primary.result
               ELSE IF first # {} THEN {Subkey(s) : s \in first}
               ELSE IF /\ ~Failed(user.result)
                       /\ Asked(keyID, Primary)
                       /\ Serves(purpose, k, PrimaryCert(k, user.result, date))
                       /\ MeetsRequirements(k)
                    THEN {Primary} ELSE Throws
  BY DEF SelectKey, SelectIf, SelectAmong, PrimaryOrThrow, Outcome
<1>2. IF subs = {} THEN first = {} ELSE \E s \in latest : first = {s}
  <2>1. Suitable(purpose, k, cache, keyID, date) = subs
    BY SuitableMay
  <2>2. subs \subseteq DOMAIN k.subkeys
    OBVIOUS
  <2> HIDE DEF subs
  <2>3. first = FirstOf(k, subs)
    BY <2>1
  <2> HIDE DEF first
  <2> QED BY <2>2, <2>3, FirstFound
<1>3. /\ primary.result = Throws => users = {} \/ \E u \in users : ~PrimaryAlive(k, u, date)
      /\ primary.result # Throws =>
           \E u \in users : PrimaryAlive(k, u, date) /\ getPrimaryUser(k, cache, date, uid).result = {User(u)}
  BY VerifyPrimaryFound
<1>4. user.result = getPrimaryUser(k, cache, date, uid).result
  <2>1. MarksRight(k, marked)
    BY VerifyPrimarySame, LoopMarksRight, MoreMarks
  <2> HIDE DEF marked
  <2> QED BY <2>1, PrimaryUserSame
<1>5. ASSUME NEW u \in users, user.result = {User(u)}, PrimaryAlive(k, u, date)
      PROVE  /\ user.result # Throws
             /\ (/\ Asked(keyID, Primary)
                 /\ Serves(purpose, k, PrimaryCert(k, user.result, date))
                 /\ MeetsRequirements(k)) <=> u \in may
  <2>1. u \in Candidates(k, date, uid)
    BY LiveFound DEF Speakers
  <2>2. u \in DOMAIN k.users /\ InForceOf(k.users[u].self, date) = {Cert(k, u, date)}
    BY <2>1, LiveFound
  <2>3. PrimaryCert(k, user.result, date) = Cert(k, u, date)
    BY <1>5, <2>2, CertOfUser
  <2> DEFINE cert == Cert(k, u, date)
  <2>4. Permits(purpose, k, {cert}) <=> MeetsRequirements(k) /\ Serves(purpose, k, cert)
    <3> HIDE DEF cert
    <3> QED BY DEF Permits, MeetsRequirements, Serves, isValidSigningKeyPacket, isValidEncryptionKeyPacket
  <2>5. user.result # Throws
    BY <1>5, Outcomes DEF Throws
  <2> QED BY <1>5, <2>2, <2>3, <2>4, <2>5
<1> HIDE DEF subs, users, primary, first, marked, user, result
<1>6. CASE primary.result = Throws
  <2>1. result = Throws /\ (users = {} \/ alive # users)
    BY <1>1, <1>3, <1>6 DEF Failed
  <2> QED BY <2>1, Outcomes DEF Selects, subs, users, result, Throws
<1>7. CASE primary.result # Throws /\ first # {}
  <2>1. alive # {}
    BY <1>3, <1>7
  <2>2. PICK s \in latest : first = {s}
    BY <1>2, <1>7
  <2>3. result = {Subkey(s)}
    BY <1>1, <1>7, <2>2 DEF Failed
  <2>4. result # {Primary}
    BY <2>3, Outcomes
  <2> QED BY <2>1, <2>2, <2>3, <2>4 DEF Selects, subs, users, result
<1>8. CASE primary.result # Throws /\ first = {}
  <2>1. subs = {}
    BY <1>2, <1>8
  <2>2. PICK u \in users : PrimaryAlive(k, u, date) /\ user.result = {User(u)}
    BY <1>3, <1>4, <1>8
  <2>3. result = IF u \in may THEN {Primary} ELSE Throws
    BY <1>1, <1>5, <1>8, <2>2 DEF Failed
  <2>4. CASE u \in may
    <3>1. Permits(purpose, k, InForceOf(k.users[u].self, date))
      BY <2>4
    <3> QED BY <1>4, <2>1, <2>2, <2>3, <2>4, <3>1 DEF Selects, subs, users, result
  <2>5. CASE u \notin may
    <3>1. may # users
      BY <2>2, <2>5
    <3>2. Throws # {Primary}
      BY Outcomes DEF Throws
    <3> QED BY <2>1, <2>3, <2>5, <3>1, <3>2 DEF Selects, subs, users, result
  <2> QED BY <2>4, <2>5
<1> QED BY <1>6, <1>7, <1>8 DEF result

----------------------------------------------------------------------------
(* What the answers are. *)

\* Every action answers with what its query makes of the packets alone, or
\* forgets the answer.
LEMMA NextFresh ==
  ASSUME FreshRight, [Next]_vars
  PROVE  FreshRight'
<1>a. NoUser \in UserIDs /\ NoDate \in Dated
  BY DEF UserIDs, Dated
<1>b. UNCHANGED key => UserIDs' = UserIDs
  BY DEF UserIDs
<1>1. CASE answer' = NoAnswer
  <2>1. NoUser \in UserIDs'
    BY DEF UserIDs
  <2> QED BY <1>a, <1>1, <2>1 DEF FreshRight, NoAnswer, Dated
<1>2. CASE UNCHANGED vars
  BY <1>2, <1>b DEF FreshRight, vars, Dated
<1>3. CASE GetPrimaryUser
  <2>1. PICK d \in Dated, uid \in UserIDs :
          Respond("primaryUser", d, uid, Primary, LAMBDA c : getPrimaryUser(key, c, d, uid))
    BY <1>3 DEF GetPrimaryUser
  <2>2. /\ UNCHANGED key
        /\ answer'.query = "primaryUser" /\ answer'.date = d /\ answer'.uid = uid /\ answer'.on = Primary
        /\ answer'.fresh = getPrimaryUser(key, {}, d, uid).result
    BY <2>1 DEF Respond
  <2> QED BY <1>a, <1>b, <2>1, <2>2 DEF FreshRight, Dated
<1>4. CASE VerifyPrimaryKey
  <2>1. PICK d \in Dated, uid \in UserIDs :
          Respond("verifyPrimary", d, uid, Primary, LAMBDA c : verifyPrimaryKey(key, c, d, uid))
    BY <1>4 DEF VerifyPrimaryKey
  <2>2. /\ UNCHANGED key
        /\ answer'.query = "verifyPrimary" /\ answer'.date = d /\ answer'.uid = uid /\ answer'.on = Primary
        /\ answer'.fresh = verifyPrimaryKey(key, {}, d, uid).result
    BY <2>1 DEF Respond
  <2> QED BY <1>a, <1>b, <2>1, <2>2 DEF FreshRight, Dated
<1>5. CASE IsRevoked
  <2>1. PICK d \in Dated :
          Respond("isRevoked", d, NoUser, Primary, LAMBDA c : Outcome(IF KeyRevoked(key, d) THEN Passes ELSE Throws, c))
    BY <1>5 DEF IsRevoked
  <2>2. /\ UNCHANGED key
        /\ answer'.query = "isRevoked" /\ answer'.date = d /\ answer'.uid = NoUser /\ answer'.on = Primary
        /\ answer'.fresh = Outcome(IF KeyRevoked(key, d) THEN Passes ELSE Throws, {}).result
    BY <2>1 DEF Respond
  <2> QED BY <1>a, <1>b, <2>1, <2>2 DEF FreshRight, Dated, Outcome
<1>6. CASE GetExpirationTime
  <2>1. PICK uid \in UserIDs :
          Respond("expiration", NoDate, uid, Primary, LAMBDA c : getExpirationTime(key, c, uid))
    BY <1>6 DEF GetExpirationTime
  <2>2. /\ UNCHANGED key
        /\ answer'.query = "expiration" /\ answer'.date = NoDate /\ answer'.uid = uid /\ answer'.on = Primary
        /\ answer'.fresh = getExpirationTime(key, {}, uid).result
    BY <2>1 DEF Respond
  <2> QED BY <1>a, <1>b, <2>1, <2>2 DEF FreshRight, Dated
<1>7. CASE GetSigningKey
  <2>1. PICK d \in Dated, id \in KeyIDs :
          Respond("signing", d, NoUser, id, LAMBDA c : getSigningKey(key, c, id, d, NoUser))
    BY <1>7 DEF GetSigningKey
  <2>2. /\ UNCHANGED key
        /\ answer'.query = "signing" /\ answer'.date = d /\ answer'.uid = NoUser /\ answer'.on = id
        /\ answer'.fresh = getSigningKey(key, {}, id, d, NoUser).result
    BY <2>1 DEF Respond
  <2> QED BY <1>a, <1>b, <2>1, <2>2 DEF FreshRight, Dated, getSigningKey
<1>8. CASE GetEncryptionKey
  <2>1. PICK d \in Dated, id \in KeyIDs :
          Respond("encryption", d, NoUser, id, LAMBDA c : getEncryptionKey(key, c, id, d, NoUser))
    BY <1>8 DEF GetEncryptionKey
  <2>2. /\ UNCHANGED key
        /\ answer'.query = "encryption" /\ answer'.date = d /\ answer'.uid = NoUser /\ answer'.on = id
        /\ answer'.fresh = getEncryptionKey(key, {}, id, d, NoUser).result
    BY <2>1 DEF Respond
  <2> QED BY <1>a, <1>b, <2>1, <2>2 DEF FreshRight, Dated, getEncryptionKey
<1>9. CASE GetDecryptionKeys
  <2>1. PICK d \in Dated, id \in KeyIDs :
          Respond("decryption", d, NoUser, id, LAMBDA c : getDecryptionKeys(key, c, id, d, NoUser))
    BY <1>9 DEF GetDecryptionKeys
  <2>2. /\ UNCHANGED key
        /\ answer'.query = "decryption" /\ answer'.date = d /\ answer'.uid = NoUser /\ answer'.on = id
        /\ answer'.fresh = getDecryptionKeys(key, {}, id, d, NoUser).result
    BY <2>1 DEF Respond
  <2> QED BY <1>a, <1>b, <2>1, <2>2 DEF FreshRight, Dated
<1>10. CASE SubkeyVerify
  <2>1. PICK d \in Dated, s \in DOMAIN key.subkeys :
          Respond("subkeyVerify", d, NoUser, Subkey(s), LAMBDA c : subkeyVerify(key, c, s, d))
    BY <1>10 DEF SubkeyVerify
  <2>2. /\ UNCHANGED key
        /\ answer'.query = "subkeyVerify" /\ answer'.date = d /\ answer'.uid = NoUser /\ answer'.on = Subkey(s)
        /\ answer'.fresh = subkeyVerify(key, {}, s, d).result
    BY <2>1 DEF Respond
  <2> QED BY <1>a, <1>b, <2>1, <2>2 DEF FreshRight, Dated
<1>11. CASE SubkeyGetExpirationTime
  <2>1. PICK d \in Dated, s \in DOMAIN key.subkeys :
          Respond("subkeyExpiration", d, NoUser, Subkey(s), LAMBDA c : subkeyGetExpirationTime(key, c, s, d))
    BY <1>11 DEF SubkeyGetExpirationTime
  <2>2. /\ UNCHANGED key
        /\ answer'.query = "subkeyExpiration" /\ answer'.date = d /\ answer'.uid = NoUser /\ answer'.on = Subkey(s)
        /\ answer'.fresh = subkeyGetExpirationTime(key, {}, s, d).result
    BY <2>1 DEF Respond
  <2> QED BY <1>a, <1>b, <2>1, <2>2 DEF FreshRight, Dated
<1>12. CASE UserVerify
  <2>1. PICK d \in Dated, u \in DOMAIN key.users :
          Respond("userVerify", d, NoUser, User(u), LAMBDA c : userVerify(key, c, u, d))
    BY <1>12 DEF UserVerify
  <2>2. /\ UNCHANGED key
        /\ answer'.query = "userVerify" /\ answer'.date = d /\ answer'.uid = NoUser /\ answer'.on = User(u)
        /\ answer'.fresh = userVerify(key, {}, u, d).result
    BY <2>1 DEF Respond
  <2> QED BY <1>a, <1>b, <2>1, <2>2 DEF FreshRight, Dated
<1>13. CASE VerifyAllCertifications
  <2>1. PICK d \in Dated, u \in DOMAIN key.users, verifier \in {"self", "third"} :
          Respond("certifications", d, NoUser, User(u), LAMBDA c : verifyAllCertifications(key, c, u, verifier, d))
    BY <1>13 DEF VerifyAllCertifications
  <2>2. /\ UNCHANGED key
        /\ answer'.query = "certifications" /\ answer'.date = d /\ answer'.uid = NoUser /\ answer'.on = User(u)
        /\ answer'.fresh = verifyAllCertifications(key, {}, u, verifier, d).result
    BY <2>1 DEF Respond
  <2> QED BY <1>a, <1>b, <2>1, <2>2 DEF FreshRight, Dated
<1>14. CASE GetRevocationCertificate
  <2>1. PICK d \in Dated :
          Respond("certificate", d, NoUser, Primary, LAMBDA c : getRevocationCertificate(key, c, d))
    BY <1>14 DEF GetRevocationCertificate
  <2>2. /\ UNCHANGED key
        /\ answer'.query = "certificate" /\ answer'.date = d /\ answer'.uid = NoUser /\ answer'.on = Primary
        /\ answer'.fresh = getRevocationCertificate(key, {}, d).result
    BY <2>1 DEF Respond
  <2> QED BY <1>a, <1>b, <2>1, <2>2 DEF FreshRight, Dated
<1>15. CASE ApplyRevocationCertificate
  <2>1. PICK c \in RevocationDates, issuer \in {"self", "third"}, good \in BOOLEAN, d \in Dated :
          LET certificate == [Revocation(c) EXCEPT !.issuer = issuer, !.good = good]
          IN  IF Verifies(certificate, "self", d)
              THEN Revoke(Primary, [key EXCEPT !.revs = Append(@, certificate)])
              ELSE Respond("apply", d, NoUser, Primary, LAMBDA cache : Outcome(Throws, cache))
    BY <1>15 DEF ApplyRevocationCertificate
  <2>2. CASE Respond("apply", d, NoUser, Primary, LAMBDA cache : Outcome(Throws, cache))
    <3>1. /\ UNCHANGED key
          /\ answer'.query = "apply" /\ answer'.date = d /\ answer'.uid = NoUser /\ answer'.fresh = Throws
      BY <2>2 DEF Respond, Outcome
    <3> QED BY <1>a, <1>b, <3>1 DEF FreshRight, Dated
  <2>3. CASE UNCHANGED answer /\ answer = NoAnswer
    BY <1>1, <2>3
  <2> QED BY <2>1, <2>2, <2>3 DEF Revoke
<1>16. CASE RevokeKey \/ RevokeSubkey \/ RevokeUser \/ Proceed
  BY <1>1, <1>16 DEF RevokeKey, RevokeSubkey, RevokeUser, Revoke, Proceed
<1> QED BY <1>2, <1>3, <1>4, <1>5, <1>6, <1>7, <1>8, <1>9, <1>10, <1>11, <1>12, <1>13, <1>14, <1>15, <1>16, Zenon DEF Next

\* One outcome is a set of one.
LEMMA Single == \A x : Cardinality({x}) = 1
BY FS_Singleton

\* Every query but those for a list answers with one outcome.
LEMMA OneAnswer ==
  ASSUME ~RevocationsExpire, IInv, FreshRight,
         answer.query \notin {"certifications", "none", "decryption"}
  PROVE  Cardinality(answer.result) = 1
<1> DEFINE q == answer.query
           date == answer.date
           uid == answer.uid
           fresh == answer.fresh
<1>0. answer.result = fresh /\ key \in KeyPackets /\ MarksRight(key, {}) /\ date \in Dated
  BY NoMarks DEF IInv, HistoryIndependent, FreshRight
<1>1. Cardinality(Throws) = 1 /\ Cardinality(Passes) = 1 /\ Cardinality(NullResult) = 1
      /\ \A t : Cardinality(ExpiresAt(t)) = 1
  BY Single DEF Throws, Passes, NullResult, ExpiresAt
<1>2. q = "primaryUser" => Cardinality(fresh) = 1
  <2>1. q = "primaryUser" => fresh = getPrimaryUser(key, {}, date, uid).result
    BY DEF FreshRight
  <2>2. getPrimaryUser(key, {}, date, uid).result = Throws
        \/ \E u : getPrimaryUser(key, {}, date, uid).result = {User(u)}
    BY <1>0, PrimaryUserFound
  <2> QED BY <1>1, <2>1, <2>2, Single
<1>3. q = "verifyPrimary" => Cardinality(fresh) = 1
  <2>1. q = "verifyPrimary" => fresh = verifyPrimaryKey(key, {}, date, uid).result
    BY DEF FreshRight
  <2>2. verifyPrimaryKey(key, {}, date, uid).result \in {Throws, Passes}
    BY DEF verifyPrimaryKey, Outcome
  <2> QED BY <1>1, <2>1, <2>2
<1>4. q = "expiration" => Cardinality(fresh) = 1
  <2>1. q = "expiration" => fresh = getExpirationTime(key, {}, uid).result
    BY DEF FreshRight
  <2>2. getExpirationTime(key, {}, uid).result = NullResult
        \/ \E t : getExpirationTime(key, {}, uid).result = ExpiresAt(t)
    BY DEF getExpirationTime, Outcome
  <2> QED BY <1>1, <2>1, <2>2
<1>5. q \in {"signing", "encryption"} => Cardinality(fresh) = 1
  <2> SUFFICES ASSUME q \in {"signing", "encryption"} PROVE Cardinality(fresh) = 1
    OBVIOUS
  <2>1. fresh = SelectKey(q, key, {}, answer.on, date, NoUser).result
    BY DEF FreshRight
  <2>2. Selects(key, q, answer.on, date, NoUser, fresh)
    BY <1>0, <2>1, SelectFound
  <2>3. fresh = Throws \/ fresh = {Primary} \/ \E s : fresh = {Subkey(s)}
    BY <2>2 DEF Selects
  <2> QED BY <1>1, <2>3, Single
<1>6. q = "subkeyVerify" => Cardinality(fresh) = 1
  <2>1. q = "subkeyVerify" => \E s : fresh = subkeyVerify(key, {}, s, date).result
    BY DEF FreshRight
  <2>2. \A s : subkeyVerify(key, {}, s, date).result \in {Throws, Passes}
    BY DEF subkeyVerify, Outcome
  <2> QED BY <1>1, <2>1, <2>2
<1>7. q = "subkeyExpiration" => Cardinality(fresh) = 1
  <2>1. q = "subkeyExpiration" => \E s : fresh = subkeyGetExpirationTime(key, {}, s, date).result
    BY DEF FreshRight
  <2>2. \A s : subkeyGetExpirationTime(key, {}, s, date).result = NullResult
               \/ \E t : subkeyGetExpirationTime(key, {}, s, date).result = ExpiresAt(t)
    BY DEF subkeyGetExpirationTime, Outcome
  <2> QED BY <1>1, <2>1, <2>2
<1>8. q = "userVerify" => Cardinality(fresh) = 1
  <2>1. q = "userVerify" => \E u : fresh = userVerify(key, {}, u, date).result
    BY DEF FreshRight
  <2>2. \A u : userVerify(key, {}, u, date).result \in {Throws, Passes}
    BY DEF userVerify, Outcome
  <2> QED BY <1>1, <2>1, <2>2
<1>9. q = "certificate" => Cardinality(fresh) = 1
  <2>1. q = "certificate" => fresh = getRevocationCertificate(key, {}, date).result
    BY DEF FreshRight
  <2>2. getRevocationCertificate(key, {}, date).result = Throws
        \/ \E i : getRevocationCertificate(key, {}, date).result = {<<"revocation", i>>}
    BY DEF getRevocationCertificate, Outcome
  <2> QED BY <1>1, <2>1, <2>2, Single
<1>10. q \in {"isRevoked", "apply"} => Cardinality(fresh) = 1
  BY <1>1 DEF FreshRight
<1>11. q \in {"primaryUser", "verifyPrimary", "isRevoked", "expiration", "signing", "encryption",
              "subkeyVerify", "subkeyExpiration", "userVerify", "certificate", "apply"}
  BY DEF FreshRight
<1> HIDE DEF q, fresh
<1> QED BY <1>0, <1>2, <1>3, <1>4, <1>5, <1>6, <1>7, <1>8, <1>9, <1>10, <1>11

\* What getPrimaryUser, getSigningKey and getEncryptionKey select.
LEMMA AnswersRight ==
  ASSUME ~RevocationsExpire, IInv, FreshRight
  PROVE  SelectionRight
<1>0. /\ key \in KeyPackets /\ MarksRight(key, {}) /\ answer.date \in Dated /\ answer.uid \in UserIDs
      /\ answer.query # "certifications" => answer.result = answer.fresh
  BY NoMarks DEF IInv, HistoryIndependent, FreshRight
<1>1. TypeOK
  <2>1. ASSUME NEW p \in revoked
        PROVE  \/ \E u \in DOMAIN key.users : p[1] = User(u) /\ p[2] \in DOMAIN (key.users[u].self \o key.users[u].other)
               \/ \E s \in DOMAIN key.subkeys : p[1] = Subkey(s) /\ p[2] \in DOMAIN key.subkeys[s].bindings
    <3>1. \/ \E u \in DOMAIN key.users : \E i \in DOMAIN (key.users[u].self \o key.users[u].other) : p = <<User(u), i>>
          \/ \E s \in DOMAIN key.subkeys : \E i \in DOMAIN key.subkeys[s].bindings : p = <<Subkey(s), i>>
      BY DEF IInv, MarksRight, Certificates
    <3>2. ASSUME NEW u \in DOMAIN key.users, NEW i \in DOMAIN (key.users[u].self \o key.users[u].other), p = <<User(u), i>>
          PROVE  p[1] = User(u) /\ p[2] \in DOMAIN (key.users[u].self \o key.users[u].other)
      BY <3>2
    <3>3. ASSUME NEW s \in DOMAIN key.subkeys, NEW i \in DOMAIN key.subkeys[s].bindings, p = <<Subkey(s), i>>
          PROVE  p[1] = Subkey(s) /\ p[2] \in DOMAIN key.subkeys[s].bindings
      BY <3>3
    <3> QED BY <3>1, <3>2, <3>3, Zenon
  <2> QED BY <1>0, <2>1, OneAnswer DEF TypeOK
<1>2. PrimaryUserRight
  <2> SUFFICES ASSUME answer.query = "primaryUser"
               PROVE  LET speakers == {User(u) : u \in Speakers(key, answer.date, answer.uid)}
                      IN  IF speakers = {} THEN Failed(answer.result)
                          ELSE answer.result # {} /\ answer.result \subseteq speakers
    BY DEF PrimaryUserRight
  <2>1. answer.result = getPrimaryUser(key, {}, answer.date, answer.uid).result
    BY <1>0 DEF FreshRight
  <2> DEFINE users == Speakers(key, answer.date, answer.uid)
  <2>2. IF users = {} THEN answer.result = Throws ELSE \E u \in users : answer.result = {User(u)}
    BY <1>0, <2>1, PrimaryUserFound
  <2> HIDE DEF users
  <2>3. IF {User(u) : u \in users} = {} THEN Failed(answer.result)
        ELSE answer.result # {} /\ answer.result \subseteq {User(u) : u \in users}
    BY <2>2 DEF Failed
  <2> QED BY <2>3 DEF users
<1>3. KeyRight
  <2>1. ASSUME answer.query \in {"signing", "encryption"}
        PROVE  Selects(key, answer.query, answer.on, answer.date, NoUser, answer.result)
    <3>1. answer.result = SelectKey(answer.query, key, {}, answer.on, answer.date, NoUser).result
      BY <1>0, <2>1 DEF FreshRight
    <3> QED BY <1>0, <2>1, <3>1, SelectFound
  <2> QED BY <2>1 DEF KeyRight, Selects, Failed
<1> QED BY <1>1, <1>2, <1>3 DEF SelectionRight

\* FreshRight is an invariant by itself: an answer is written together with
\* the query, and a step that changes the key forgets the answer.
LEMMA FreshHolds == Spec => []FreshRight
<1>1. Init => FreshRight
  BY DEF Init, FreshRight, NoAnswer, UserIDs, Dated
<1>2. FreshRight /\ [Next]_vars => FreshRight'
  BY NextFresh
<1> QED BY <1>1, <1>2, PTL DEF Spec

\* getPrimaryUser answers with a user that speaks for the key and no user speaks
\* better, getSigningKey and getEncryptionKey with a key that is allowed and
\* alive, and each of them fails only when there is none (key/key.js:259-349, 444-480).
THEOREM AnswersStayRight == ~RevocationsExpire => (Spec => []SelectionRight)
<1> SUFFICES ASSUME ~RevocationsExpire PROVE Spec => []SelectionRight
  OBVIOUS
<1>1. Spec => []IInv
  BY InvariantHolds
<1>2. IInv /\ FreshRight => SelectionRight
  BY AnswersRight
<1> QED BY <1>1, <1>2, FreshHolds, PTL

----------------------------------------------------------------------------
(* Encrypted data stay decryptable. *)

\* Which signature is found depends only on which signatures verify.
LEMMA LatestSame ==
  ASSUME NEW sigs \in Seq(Signatures), NEW d, NEW e,
         \A i \in DOMAIN sigs : Verifies(sigs[i], "self", d) <=> Verifies(sigs[i], "self", e)
  PROVE  getLatestValidSignature(sigs, "self", d) = getLatestValidSignature(sigs, "self", e)
<1> DEFINE a == getLatestValidSignature(sigs, "self", d)
           b == getLatestValidSignature(sigs, "self", e)
<1>1. \A i \in 1..Len(sigs) : sigs[i].created \in Nat
  BY CreatedFacts
<1>2. /\ a = 0 => \A i \in DOMAIN sigs : ~Verifies(sigs[i], "self", d)
      /\ a # 0 => /\ a \in DOMAIN sigs /\ Verifies(sigs[a], "self", d)
                  /\ \A j \in DOMAIN sigs : Verifies(sigs[j], "self", d) =>
                        \/ sigs[j].created < sigs[a].created
                        \/ sigs[j].created = sigs[a].created /\ a <= j
  BY <1>1, LatestValid
<1>3. /\ b = 0 => \A i \in DOMAIN sigs : ~Verifies(sigs[i], "self", e)
      /\ b # 0 => /\ b \in DOMAIN sigs /\ Verifies(sigs[b], "self", e)
                  /\ \A j \in DOMAIN sigs : Verifies(sigs[j], "self", e) =>
                        \/ sigs[j].created < sigs[b].created
                        \/ sigs[j].created = sigs[b].created /\ b <= j
  BY <1>1, LatestValid
<1> HIDE DEF a, b
<1>4. a = 0 <=> b = 0
  BY <1>2, <1>3
<1>5. ASSUME a # 0, b # 0 PROVE a = b
  <2>1. a \in Nat /\ b \in Nat /\ sigs[a].created \in Nat /\ sigs[b].created \in Nat
    BY <1>1, <1>2, <1>3, <1>5
  <2>2. sigs[b].created < sigs[a].created \/ (sigs[b].created = sigs[a].created /\ a <= b)
    BY <1>2, <1>3, <1>5
  <2>3. sigs[a].created < sigs[b].created \/ (sigs[a].created = sigs[b].created /\ b <= a)
    BY <1>2, <1>3, <1>5
  <2> QED BY <2>1, <2>2, <2>3
<1> QED BY <1>4, <1>5 DEF a, b

\* Of a key whose signatures have all been made and none of which expires, the
\* date does not matter.
LEMMA SettledVerifies ==
  ASSUME NEW k \in KeyPackets, NEW date \in Dated, Settled(k, date)
  PROVE  /\ \A sig \in AllSigs(k) : Verifies(sig, "self", date) <=> Verifies(sig, "self", NoDate)
         /\ \A u \in DOMAIN k.users : \A i \in DOMAIN k.users[u].self : k.users[u].self[i] \in AllSigs(k)
         /\ \A i \in DOMAIN k.directs : k.directs[i] \in AllSigs(k)
         /\ \A s \in DOMAIN k.subkeys : \A i \in DOMAIN k.subkeys[s].bindings : k.subkeys[s].bindings[i] \in AllSigs(k)
<1>1. ASSUME NEW sig \in AllSigs(k) PROVE Verifies(sig, "self", date) <=> Verifies(sig, "self", NoDate)
  <2>1. sig.expiration = 0 /\ sig.created <= date
    BY DEF Settled
  <2>2. date # NoDate => date < Infinity
    BY DatedFacts
  <2> QED BY <2>1, <2>2 DEF Verifies, SigExpirationTime
<1>2. \A s : \A i \in DOMAIN s : s[i] \in ToSet(s)
  BY DEF ToSet
<1> DEFINE selfs == UNION {ToSet(k.users[u].self) : u \in DOMAIN k.users}
           bindings == UNION {ToSet(k.subkeys[s].bindings) : s \in DOMAIN k.subkeys}
<1>3. \A u \in DOMAIN k.users : \A i \in DOMAIN k.users[u].self : k.users[u].self[i] \in selfs
  <2>1. \A u \in DOMAIN k.users : \A e \in ToSet(k.users[u].self) : e \in selfs
    OBVIOUS
  <2> HIDE DEF selfs
  <2> QED BY <1>2, <2>1
<1>4. \A s \in DOMAIN k.subkeys : \A i \in DOMAIN k.subkeys[s].bindings : k.subkeys[s].bindings[i] \in bindings
  <2>1. \A s \in DOMAIN k.subkeys : \A e \in ToSet(k.subkeys[s].bindings) : e \in bindings
    OBVIOUS
  <2> HIDE DEF bindings
  <2> QED BY <1>2, <2>1
<1>5. AllSigs(k) = (selfs \cup ToSet(k.directs)) \cup bindings
  BY DEF AllSigs
<1> HIDE DEF selfs, bindings
<1> QED BY <1>1, <1>2, <1>3, <1>4, <1>5

\* Of such a key the primary user and the signatures found are the same without
\* a date.
LEMMA SettledSame ==
  ASSUME ~RevocationsExpire, NEW k \in KeyPackets, NEW l \in KeyPackets, l.users = k.users,
         NEW date \in Dated, Settled(k, date), NEW uid
  PROVE  /\ getPrimaryUser(l, {}, NoDate, uid).result = getPrimaryUser(k, {}, date, uid).result
         /\ \A u \in DOMAIN k.users : Cert(l, u, NoDate) = Cert(k, u, date)
<1>1. \A u \in DOMAIN k.users : CertIndex(l, u, NoDate) = CertIndex(k, u, date)
  <2> SUFFICES ASSUME NEW u \in DOMAIN k.users PROVE CertIndex(l, u, NoDate) = CertIndex(k, u, date)
    OBVIOUS
  <2>1. k.users[u].self \in Seq(Signatures)
    BY KeyFacts
  <2>2. \A i \in DOMAIN k.users[u].self : Verifies(k.users[u].self[i], "self", NoDate) <=> Verifies(k.users[u].self[i], "self", date)
    BY SettledVerifies
  <2>3. getLatestValidSignature(k.users[u].self, "self", NoDate) = getLatestValidSignature(k.users[u].self, "self", date)
    BY <2>1, <2>2, LatestSame
  <2> QED BY <2>3 DEF CertIndex
<1>2. \A u \in DOMAIN k.users : Cert(l, u, NoDate) = Cert(k, u, date)
  BY <1>1 DEF Cert
<1> DEFINE C == Candidates(k, date, uid)
<1>3. Candidates(l, NoDate, uid) = C
  BY <1>1 DEF Candidates, CertIndex
<1>4. \A u \in C : u \in DOMAIN k.users /\ CertIndex(k, u, date) # 0
  BY LiveFound
<1>5. \A u \in C : CertRevoked(l, {}, u, NoDate) <=> CertRevoked(k, {}, u, date)
  BY <1>1, <1>4, NoMarks, CertRevokedSame
<1>6. \A u, v \in C : SortedBefore(l, {}, u, v, NoDate) <=> SortedBefore(k, {}, u, v, date)
  BY <1>2, <1>4, <1>5 DEF SortedBefore
<1> DEFINE last(m, d) == {u \in C : \A v \in C \ {u} : SortedBefore(m, {}, v, u, d)}
<1>7. /\ getPrimaryUser(k, {}, date, uid).result =
           IF \E u \in last(k, date) : ~CertRevoked(k, {}, u, date) THEN {User(u) : u \in last(k, date)} ELSE Throws
      /\ getPrimaryUser(l, {}, NoDate, uid).result =
           IF \E u \in last(l, NoDate) : ~CertRevoked(l, {}, u, NoDate) THEN {User(u) : u \in last(l, NoDate)} ELSE Throws
  BY <1>3 DEF getPrimaryUser, Outcome
<1> HIDE DEF C
<1>8. last(k, date) = last(l, NoDate) /\ last(k, date) \subseteq C
  BY <1>6
<1> HIDE DEF last
<1>9. (\E u \in last(k, date) : ~CertRevoked(k, {}, u, date)) <=> \E u \in last(l, NoDate) : ~CertRevoked(l, {}, u, NoDate)
  BY <1>5, <1>8
<1> QED BY <1>2, <1>7, <1>8, <1>9

\* A key that may encrypt at a date may decrypt without a date, whatever has
\* been revoked since.
LEMMA DecryptionFound ==
  ASSUME ~RevocationsExpire, NEW k \in KeyPackets, NEW l \in KeyPackets, l.users = k.users,
         DOMAIN l.subkeys = DOMAIN k.subkeys,
         \A s \in DOMAIN k.subkeys : l.subkeys[s].bindings = k.subkeys[s].bindings,
         NEW date \in Dated, Settled(k, date), NEW on,
         NEW c \in SelectKey("encryption", k, {}, on, date, NoUser).result,
         SelectKey("encryption", k, {}, on, date, NoUser).result # Throws
  PROVE  c \in getDecryptionKeys(l, {}, c, NoDate, NoUser).result
<1> DEFINE result == SelectKey("encryption", k, {}, on, date, NoUser).result
           user == getPrimaryUser(l, {}, NoDate, NoUser).result
           subs == {s \in DOMAIN l.subkeys : Asked(c, Subkey(s)) /\ DecryptsWith(l, {}, s, NoDate)}
<1>1. getDecryptionKeys(l, {}, c, NoDate, NoUser).result =
        IF Failed(user) THEN Throws
        ELSE {Subkey(s) : s \in subs} \cup
             {p \in {Primary} : Asked(c, p) /\ isValidDecryptionKeyPacket(PrimaryCert(l, user, NoDate))}
  BY DEF getDecryptionKeys, Outcome
<1>2. /\ Selects(k, "encryption", on, date, NoUser, result)
      /\ result = {Primary} =>
           \E u \in Speakers(k, date, NoUser) :
              /\ getPrimaryUser(k, {}, date, NoUser).result = {User(u)}
              /\ Permits("encryption", k, InForceOf(k.users[u].self, date))
  <2>1. MarksRight(k, {}) /\ "encryption" \in {"signing", "encryption"}
    BY NoMarks
  <2> DEFINE purpose == "encryption"
  <2> HIDE DEF purpose
  <2>2. purpose \in {"signing", "encryption"} /\ purpose = "encryption"
    BY DEF purpose
  <2>3. LET r == SelectKey(purpose, k, {}, on, date, NoUser).result
        IN  /\ Selects(k, purpose, on, date, NoUser, r)
            /\ r = {Primary} =>
                 \E u \in Speakers(k, date, NoUser) :
                    /\ getPrimaryUser(k, {}, date, NoUser).result = {User(u)}
                    /\ Permits(purpose, k, InForceOf(k.users[u].self, date))
    BY <2>1, <2>2, SelectFound
  <2> QED BY <2>2, <2>3
<1>3. user = getPrimaryUser(k, {}, date, NoUser).result
  BY SettledSame
<1>4. \A p : Asked(p, p)
  BY DEF Asked
<1>5. \A sig : Permits("encryption", k, {sig}) => isValidDecryptionKeyPacket(sig)
  BY DEF Permits, isValidDecryptionKeyPacket
<1>6. CASE result = {Primary}
  <2>1. PICK u \in Speakers(k, date, NoUser) :
           user = {User(u)} /\ Permits("encryption", k, InForceOf(k.users[u].self, date))
    BY <1>2, <1>3, <1>6
  <2>2. u \in Candidates(k, date, NoUser)
    BY LiveFound DEF Speakers
  <2>3. u \in DOMAIN k.users /\ InForceOf(k.users[u].self, date) = {Cert(k, u, date)}
    BY <2>2, LiveFound
  <2>4. PrimaryCert(l, user, NoDate) = Cert(k, u, date)
    BY <2>1, <2>3, CertOfUser, SettledSame
  <2>5. isValidDecryptionKeyPacket(PrimaryCert(l, user, NoDate))
    BY <1>5, <2>1, <2>3, <2>4
  <2>6. ~Failed(user)
    BY <2>1, Outcomes DEF Failed, Throws
  <2>7. c = Primary
    BY <1>6
  <2> QED BY <1>1, <1>4, <2>5, <2>6, <2>7
<1>7. CASE result # {Primary}
  <2>1. PICK s \in DOMAIN k.subkeys :
           /\ SubkeyMay("encryption", k.subkeys[s], date) /\ result = {Subkey(s)}
           /\ Speakers(k, date, NoUser) # {}
    BY <1>2, <1>7 DEF Selects
  <2> DEFINE sub == k.subkeys[s]
             i == BindingIndex(sub, date)
  <2>2. sub.bindings \in Seq(Signatures)
    BY KeyFacts
  <2>3. /\ i = 0 => InForceOf(sub.bindings, date) = {}
        /\ i # 0 => i \in DOMAIN sub.bindings /\ InForceOf(sub.bindings, date) = {sub.bindings[i]}
    BY <2>2, InForceFound DEF BindingIndex
  <2>4. i # 0 /\ Permits("encryption", sub, {sub.bindings[i]})
    BY <2>1, <2>3 DEF SubkeyMay, SubkeyAlive
  <2>5. BindingIndex(l.subkeys[s], NoDate) = i
    <3>1. \A j \in DOMAIN sub.bindings : Verifies(sub.bindings[j], "self", NoDate) <=> Verifies(sub.bindings[j], "self", date)
      BY SettledVerifies
    <3>2. getLatestValidSignature(sub.bindings, "self", NoDate) = getLatestValidSignature(sub.bindings, "self", date)
      BY <2>2, <3>1, LatestSame
    <3> QED BY <3>2 DEF BindingIndex
  <2> HIDE DEF i
  <2>6. isValidDecryptionKeyPacket(sub.bindings[i])
    BY <2>4 DEF Permits, isValidDecryptionKeyPacket
  <2>7. DecryptsWith(l, {}, s, NoDate)
    BY <2>4, <2>5, <2>6 DEF DecryptsWith
  <2>8. c = Subkey(s)
    BY <2>1
  <2>9. s \in subs
    BY <1>4, <2>7, <2>8
  <2>10. ~Failed(user)
    <3>1. \E u : user = {User(u)}
      <4>1. MarksRight(k, {})
        BY NoMarks
      <4> HIDE DEF user
      <4> QED BY <1>3, <2>1, <4>1, PrimaryUserFound
    <3> QED BY <3>1, Outcomes DEF Failed, Throws
  <2> HIDE DEF subs, user
  <2> QED BY <1>1, <2>8, <2>9, <2>10
<1> QED BY <1>6, <1>7

\* What getEncryptionKey selects, getDecryptionKeys offers, now and after a
\* revocation.
LEMMA DecryptionRight ==
  ASSUME ~RevocationsExpire, IInv, FreshRight
  PROVE  EncryptedStaysDecryptable
<1> SUFFICES ASSUME answer.query = "encryption", Settled(key, answer.date), ~Failed(answer.result),
                    NEW c \in answer.result, NEW d \in RevocationDates,
                    NEW k \in {key, RevokedKey(key, d)} \cup {RevokedSubkey(key, s, d) : s \in DOMAIN key.subkeys}
             PROVE  c \in getDecryptionKeys(k, revoked, c, NoDate, NoUser).result
  BY DEF EncryptedStaysDecryptable
<1>1. key \in KeyPackets /\ MarksRight(key, revoked) /\ RevokedRight(key, revokedBy) /\ answer.date \in Dated /\ d \in Nat
  BY DateAssumption DEF IInv, FreshRight
<1>2. answer.result = SelectKey("encryption", key, {}, answer.on, answer.date, NoUser).result
  BY DEF IInv, HistoryIndependent, FreshRight
<1>3. k \in KeyPackets /\ MoreRevoked(key, k)
  <2>1. key \in KeyPackets /\ MoreRevoked(key, key)
    BY <1>1 DEF MoreRevoked
  <2>2. RevokedKey(key, d) \in KeyPackets /\ MoreRevoked(key, RevokedKey(key, d))
    BY <1>1, MadeRevocation, KeyRevokedRight DEF RevokedKey
  <2>3. \A s \in DOMAIN key.subkeys : RevokedSubkey(key, s, d) \in KeyPackets /\ MoreRevoked(key, RevokedSubkey(key, s, d))
    BY <1>1, SubkeyRevokedRight
  <2> QED BY <2>1, <2>2, <2>3
<1>4. k.users = key.users
  <2>1. RevokedKey(key, d).users = key.users
    BY <1>1 DEF RevokedKey, KeyPackets
  <2>2. \A s \in DOMAIN key.subkeys : RevokedSubkey(key, s, d).users = key.users
    BY <1>1 DEF RevokedSubkey, KeyPackets
  <2> QED BY <2>1, <2>2
<1>5. /\ DOMAIN k.subkeys = DOMAIN key.subkeys
      /\ \A s \in DOMAIN key.subkeys : k.subkeys[s].bindings = key.subkeys[s].bindings
  BY <1>3 DEF MoreRevoked
<1>6. MarksRight(k, revoked)
  BY <1>1, <1>3, MoreRevokedRight
<1>7. getDecryptionKeys(k, revoked, c, NoDate, NoUser).result = getDecryptionKeys(k, {}, c, NoDate, NoUser).result
  BY <1>3, <1>6, DecryptionSame
<1>8. c \in getDecryptionKeys(k, {}, c, NoDate, NoUser).result
  BY <1>1, <1>2, <1>3, <1>4, <1>5, DecryptionFound DEF Failed
<1> QED BY <1>7, <1>8

\* What was encrypted to the key that getEncryptionKey answered with can be
\* decrypted later, and after the key or a subkey was revoked: getDecryptionKeys
\* of private_key.js:80 still lists that key.
THEOREM DecryptableStays == ~RevocationsExpire => (Spec => []EncryptedStaysDecryptable)
<1> SUFFICES ASSUME ~RevocationsExpire PROVE Spec => []EncryptedStaysDecryptable
  OBVIOUS
<1>1. Spec => []IInv
  BY InvariantHolds
<1>2. IInv /\ FreshRight => EncryptedStaysDecryptable
  BY DecryptionRight
<1> QED BY <1>1, <1>2, FreshHolds, PTL

----------------------------------------------------------------------------
(* Expiration times. *)

\* When an announced time is over.
LEMMA OverDate == \A t, date : Over(ExpiresAt(t), date) <=> t <= date
<1> SUFFICES ASSUME NEW t, NEW date PROVE Over(ExpiresAt(t), date) <=> t <= date
  OBVIOUS
<1>1. <<"date", t>>[1] = "date" /\ <<"date", t>>[2] = t
  OBVIOUS
<1> QED BY <1>1 DEF Over, ExpiresAt

\* No announced time counts as over.
LEMMA OverNull == \A date : Over(NullResult, date)
<1>1. <<"null", 0>>[1] # "date"
  OBVIOUS
<1> QED BY <1>1 DEF Over, NullResult

\* The expiration time of a key packet, and isDataExpired.
LEMMA KeyExpirationFacts ==
  ASSUME NEW packet, packet.created \in Nat, NEW sig \in Signatures
  PROVE  /\ getKeyExpirationTime(packet, sig) \in Nat /\ SigExpirationTime(sig) \in Nat
         /\ \A date \in Nat : date # NoDate /\ packet.created <= date =>
               (isDataExpired(packet, sig, date) <=> getKeyExpirationTime(packet, sig) <= date)
<1>1. sig.keyExpiration \in Nat /\ sig.created \in Nat /\ sig.expiration \in Nat
  BY DEF Signatures
<1>2. getKeyExpirationTime(packet, sig) \in Nat /\ SigExpirationTime(sig) \in Nat
  BY <1>1, DateAssumption DEF getKeyExpirationTime, SigExpirationTime
<1> QED BY <1>2 DEF isDataExpired

\* The earlier of two dates.
LEMMA EarliestFacts ==
  ASSUME NEW s \in Nat, NEW t \in Nat, NEW d \in Nat
  PROVE  Earliest(s, t) \in Nat /\ (Earliest(s, t) <= d <=> s <= d \/ t <= d)
BY DEF Earliest

\* Key.getExpirationTime.
LEMMA KeyExpires ==
  ASSUME ~RevocationsExpire, NEW k \in KeyPackets, ~SelfRevoked(k.revs), NEW date \in Dates, Settled(k, date), NEW uid
  PROVE  verifyPrimaryKey(k, {}, date, uid).result = Throws <=> Over(getExpirationTime(k, {}, uid).result, date)
<1> DEFINE user == getPrimaryUser(k, {}, date, uid).result
           direct == getLatestValidSignature(k.directs, "self", date)
           cert == PrimaryCert(k, user, date)
           bySelf == Earliest(getKeyExpirationTime(k, cert), SigExpirationTime(cert))
           ends == Earliest(bySelf, getKeyExpirationTime(k, k.directs[direct]))
<1>1. /\ date \in Dated /\ date \in Nat /\ date # NoDate /\ date < Infinity /\ MarksRight(k, {}) /\ k.created <= date
      /\ k.created \in Nat /\ k.directs \in Seq(Signatures)
  BY DateAssumption, NoMarks, KeyFacts DEF Dated, Settled, KeyPackets
<1>2. getPrimaryUser(k, {}, NoDate, uid).result = user /\ \A u \in DOMAIN k.users : Cert(k, u, NoDate) = Cert(k, u, date)
  BY <1>1, SettledSame
<1>3. getLatestValidSignature(k.directs, "self", NoDate) = direct
  <2>1. \A i \in DOMAIN k.directs : Verifies(k.directs[i], "self", NoDate) <=> Verifies(k.directs[i], "self", date)
    BY <1>1, SettledVerifies
  <2> QED BY <1>1, <2>1, LatestSame
<1>4. direct # 0 => k.directs[direct] \in Signatures
  BY <1>1, InForceFound, ElementOfSeq
<1>5. verifyPrimaryKey(k, {}, date, uid).result =
        IF \/ user = Throws
           \/ isDataExpired(k, cert, date)
           \/ direct # 0 /\ isDataExpired(k, k.directs[direct], date)
        THEN Throws ELSE Passes
  <2>1. ~KeyRevoked(k, date)
    BY RevocationSame DEF KeyRevoked
  <2> QED BY <2>1 DEF verifyPrimaryKey, Outcome, Failed
<1>6. user = Throws \/ \E u \in Speakers(k, date, uid) : user = {User(u)}
  BY <1>1, PrimaryUserFound
<1>7. getExpirationTime(k, {}, uid).result =
        IF user = Throws THEN NullResult
        ELSE IF direct = 0 THEN ExpiresAt(Earliest(getKeyExpirationTime(k, PrimaryCert(k, user, NoDate)),
                                                   SigExpirationTime(PrimaryCert(k, user, NoDate))))
        ELSE ExpiresAt(Earliest(Earliest(getKeyExpirationTime(k, PrimaryCert(k, user, NoDate)),
                                         SigExpirationTime(PrimaryCert(k, user, NoDate))),
                                getKeyExpirationTime(k, k.directs[direct])))
  BY <1>2, <1>3 DEF getExpirationTime, Outcome, Failed
<1> HIDE DEF user, direct
<1>8. CASE user = Throws
  BY <1>5, <1>7, <1>8, OverNull
<1>9. CASE user # Throws
  <2>1. PICK u \in Speakers(k, date, uid) : user = {User(u)}
    BY <1>6, <1>9
  <2>2. u \in Candidates(k, date, uid)
    BY LiveFound DEF Speakers
  <2>3. u \in DOMAIN k.users /\ CertIndex(k, u, date) # 0 /\ Cert(k, u, date) \in Signatures
    BY <2>2, LiveFound
  <2>4. cert = Cert(k, u, date) /\ PrimaryCert(k, user, NoDate) = cert
    BY <1>2, <2>1, <2>3, CertOfUser
  <2>5. cert.expiration = 0
    <3>1. CertIndex(k, u, date) \in DOMAIN k.users[u].self
      BY <1>1, <2>3, CertRevokedSame
    <3>2. Cert(k, u, date) \in AllSigs(k)
      BY <1>1, <2>3, <3>1, SettledVerifies DEF Cert
    <3> QED BY <2>4, <3>2 DEF Settled
  <2>6. SigExpirationTime(cert) = Infinity /\ cert \in Signatures
    BY <2>3, <2>4, <2>5 DEF SigExpirationTime
  <2> HIDE DEF cert
  <2>7. getKeyExpirationTime(k, cert) \in Nat
        /\ (isDataExpired(k, cert, date) <=> getKeyExpirationTime(k, cert) <= date)
    BY <1>1, <2>6, KeyExpirationFacts
  <2>8. bySelf \in Nat /\ (bySelf <= date <=> isDataExpired(k, cert, date))
    <3>1. ~(Infinity <= date) /\ Infinity \in Nat
      BY <1>1, DateAssumption
    <3> QED BY <1>1, <2>6, <2>7, <3>1, EarliestFacts
  <2> HIDE DEF bySelf
  <2>9. CASE direct = 0
    <3>1. getExpirationTime(k, {}, uid).result = ExpiresAt(bySelf)
      BY <1>7, <1>9, <2>4, <2>9 DEF bySelf
    <3> QED BY <1>5, <1>9, <2>8, <2>9, <3>1, OverDate, Outcomes
  <2>10. CASE direct # 0
    <3>1. getExpirationTime(k, {}, uid).result = ExpiresAt(ends)
      BY <1>7, <1>9, <2>4, <2>10 DEF bySelf
    <3>2. getKeyExpirationTime(k, k.directs[direct]) \in Nat
          /\ (isDataExpired(k, k.directs[direct], date) <=> getKeyExpirationTime(k, k.directs[direct]) <= date)
      BY <1>1, <1>4, <2>10, KeyExpirationFacts
    <3>3. ends <= date <=> isDataExpired(k, cert, date) \/ isDataExpired(k, k.directs[direct], date)
      BY <1>1, <2>8, <3>2, EarliestFacts, ZenonT(40)
    <3> HIDE DEF ends
    <3> QED BY <1>5, <1>9, <2>10, <3>1, <3>3, OverDate, Outcomes
  <2> QED BY <2>9, <2>10
<1> QED BY <1>8, <1>9

\* Subkey.getExpirationTime.
LEMMA SubkeyExpires ==
  ASSUME ~RevocationsExpire, NEW k \in KeyPackets, NEW s \in DOMAIN k.subkeys, ~SelfRevoked(k.subkeys[s].revs),
         NEW date \in Dated, date # NoDate, k.subkeys[s].created <= date, NEW cache
  PROVE  subkeyVerify(k, {}, s, date).result = Throws <=> Over(subkeyGetExpirationTime(k, cache, s, date).result, date)
<1> DEFINE sub == k.subkeys[s]
           i == BindingIndex(sub, date)
           sig == sub.bindings[i]
           ends == Earliest(getKeyExpirationTime(sub, sig), SigExpirationTime(sig))
<1>1. date \in Nat /\ sub.created \in Nat /\ sub.bindings \in Seq(Signatures)
  BY DatedFacts, KeyFacts
<1>2. ~SubkeyRevoked(k, {}, s, date)
  BY NoMarks, SubkeyRevokedSame
<1>3. subkeyVerify(k, {}, s, date).result = IF i = 0 \/ isDataExpired(sub, sig, date) THEN Throws ELSE Passes
  BY <1>2 DEF subkeyVerify, Outcome
<1>4. subkeyGetExpirationTime(k, cache, s, date).result = IF i = 0 THEN NullResult ELSE ExpiresAt(ends)
  BY DEF subkeyGetExpirationTime, Outcome
<1>5. i # 0 => i \in DOMAIN sub.bindings /\ Verifies(sig, "self", date)
  BY <1>1, LatestFacts DEF BindingIndex
<1>6. i # 0 => sig \in Signatures
  BY <1>1, <1>5, ElementOfSeq
<1> HIDE DEF i, sig
<1>7. CASE i = 0
  BY <1>3, <1>4, <1>7, OverNull
<1>8. CASE i # 0
  <2>1. ~(SigExpirationTime(sig) <= date) /\ SigExpirationTime(sig) \in Nat
    <3>1. date < SigExpirationTime(sig)
      BY <1>5, <1>8 DEF Verifies
    <3>2. SigExpirationTime(sig) \in Nat
      BY <1>1, <1>6, <1>8, KeyExpirationFacts
    <3> QED BY <1>1, <3>1, <3>2
  <2>2. getKeyExpirationTime(sub, sig) \in Nat
        /\ (isDataExpired(sub, sig, date) <=> getKeyExpirationTime(sub, sig) <= date)
    BY <1>1, <1>6, <1>8, KeyExpirationFacts
  <2>3. ends <= date <=> isDataExpired(sub, sig, date)
    BY <1>1, <2>1, <2>2, EarliestFacts
  <2> HIDE DEF ends
  <2> QED BY <1>3, <1>4, <1>8, <2>3, OverDate, Outcomes
<1> QED BY <1>7, <1>8

\* An answer of getExpirationTime, or of Subkey.verify.
LEMMA ExpirationRight ==
  ASSUME ~RevocationsExpire, IInv, FreshRight
  PROVE  ExpirationTimeRight
<1>0. key \in KeyPackets /\ MarksRight(key, revoked) /\ answer.date \in Dated
  BY DEF IInv, FreshRight
<1>1. ASSUME answer.query = "expiration", ~SelfRevoked(key.revs), NEW d \in Dates, Settled(key, d)
      PROVE  Failed(verifyPrimaryKey(key, revoked, d, answer.uid).result) <=> Over(answer.result, d)
  <2>1. answer.result = getExpirationTime(key, {}, answer.uid).result
    BY <1>1 DEF IInv, HistoryIndependent, FreshRight
  <2>2. verifyPrimaryKey(key, revoked, d, answer.uid).result = verifyPrimaryKey(key, {}, d, answer.uid).result
    BY <1>0, VerifyPrimarySame
  <2> QED BY <1>0, <1>1, <2>1, <2>2, KeyExpires DEF Failed
<1>2. ASSUME answer.query = "subkeyVerify", answer.date # NoDate, NEW s \in DOMAIN key.subkeys, answer.on = Subkey(s),
             ~SelfRevoked(key.subkeys[s].revs), key.subkeys[s].created <= answer.date
      PROVE  Failed(answer.result) <=> Over(subkeyGetExpirationTime(key, revoked, s, answer.date).result, answer.date)
  <2>1. PICK t \in DOMAIN key.subkeys : answer.on = Subkey(t) /\ answer.fresh = subkeyVerify(key, {}, t, answer.date).result
    BY <1>2 DEF FreshRight
  <2>2. t = s
    BY <1>2, <2>1, Outcomes
  <2>3. answer.result = subkeyVerify(key, {}, s, answer.date).result
    BY <1>2, <2>1, <2>2 DEF IInv, HistoryIndependent
  <2> QED BY <1>0, <1>2, <2>3, SubkeyExpires DEF Failed
<1> QED BY <1>1, <1>2 DEF ExpirationTimeRight

\* A key or subkey that is not revoked stops verifying at the time its
\* getExpirationTime answers, not before and not after (key/key.js:376-432,
\* subkey.js:83-125).
THEOREM ExpirationTimesRight == ~RevocationsExpire => (Spec => []ExpirationTimeRight)
<1> SUFFICES ASSUME ~RevocationsExpire PROVE Spec => []ExpirationTimeRight
  OBVIOUS
<1>1. Spec => []IInv
  BY InvariantHolds
<1>2. IInv /\ FreshRight => ExpirationTimeRight
  BY ExpirationRight
<1> QED BY <1>1, <1>2, FreshHolds, PTL
=============================================================================
