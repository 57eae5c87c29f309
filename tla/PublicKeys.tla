---------------------------- MODULE PublicKeys -----------------------------
(***************************************************************************)
(* biginteger/native.interface.js, and RSA, DSA and ElGamal with the       *)
(* search for primes (crypto/public_key/*.js) as operators on numbers.     *)
(* What is random in the code is a parameter; padding is in Padding.       *)
(***************************************************************************)
EXTENDS Integers, Sequences, SequencesExt, FiniteSetsExt

CONSTANTS
    MinQBits,   \* bits that the order of a DSA group must have: 150
    MinPBits,   \* bits that the prime of an ElGamal key must have: 1023
    Threshold   \* orders up to this one are too small for ElGamal: 2^18

ASSUME PublicKeysAssumption == MinQBits \in Nat /\ MinPBits \in Nat /\ Threshold \in Nat

None == -1  \* an operation that throws

(***************************************************************************)
(* BigInteger.                                                             *)
(***************************************************************************)
bitLength(n) == CHOOSE l \in 1..31 : n < 2 ^ l /\ (l > 1 => n >= 2 ^ (l - 1))
Rounds == [i \in 1..31 |-> i]

SquareAndMultiply(s, n) ==
    [exp |-> s.exp \div 2, r |-> IF s.exp % 2 = 1 THEN (s.r * s.x) % n ELSE s.r, x |-> (s.x * s.x) % n]
modExp(b, e, n) ==
    IF n = 1 THEN 0
    ELSE FoldLeft(LAMBDA s, i : IF s.exp > 0 THEN SquareAndMultiply(s, n) ELSE s, [exp |-> e, r |-> 1, x |-> b % n], Rounds).r

(* The extended Euclidean algorithm: the gcd is a, x its first coefficient.*)
egcd(a, b) ==
    FoldLeft(LAMBDA s, i : IF s.b = 0 THEN s
                           ELSE [a |-> s.b, b |-> s.a % s.b, x |-> s.xNext, xNext |-> s.x - (s.a \div s.b) * s.xNext],
             [a |-> a, b |-> b, x |-> 1, xNext |-> 0], Rounds)
gcd(a, b) == egcd(a, b).a
modInv(a, n) == LET g == egcd(a, n) IN IF g.a # 1 THEN None ELSE (g.x + n) % n

(***************************************************************************)
(* prime.js.  A search steps over multiples of 2, 3 and 5, and starts over *)
(* at the smallest number of its length.                                   *)
(***************************************************************************)
adds == <<1, 6, 5, 4, 3, 2, 1, 4, 3, 2, 1, 2, 1, 4, 3, 2, 1, 2, 1, 4, 3, 2, 1, 6, 5, 4, 3, 2, 1, 2>>

(* One turn of randomProbablePrime's loop, up to the test.                 *)
NextCandidate(search) ==
    LET n == search.n + adds[search.i + 1]
        m == (n % 2 ^ search.bits) + 2 ^ (search.bits - 1)
    IN  IF bitLength(n) > search.bits THEN [search EXCEPT !.n = m, !.i = m % 30]
        ELSE [search EXCEPT !.n = n, !.i = (search.i + adds[search.i + 1]) % 30]
Search(bits, start) == [bits |-> bits, n |-> start, i |-> start % 30]

(* The result of `mod' is an object, never equal to 0.                     *)
divisionTest(n) == TRUE
fermat(n) == modExp(2, n - 1, n) = 1

(* One witness a, with n - 1 = 2^s * d.                                    *)
Witnesses(n, a) ==
    LET s == CHOOSE z \in 0..30 : (n - 1) % 2 ^ z = 0 /\ (n - 1) % 2 ^ (z + 1) # 0
        x == modExp(a, n \div 2 ^ s, n)
        squared[i \in 0..s] == IF i = 0 THEN x ELSE (squared[i - 1] * squared[i - 1]) % n
    IN  /\ x # 1 /\ x # n - 1
        /\ s # 0
        /\ \A i \in 1..(s - 1) : squared[i] = n - 1 => \E j \in 1..(i - 1) : squared[j] = 1
millerRabin(n, as) == \A a \in as : ~Witnesses(n, a)

SuitsExponent(n, e) == e = 0 \/ gcd(n - 1, e) = 1
isProbablePrime(n, e, as) == SuitsExponent(n, e) /\ divisionTest(n) /\ fermat(n) /\ millerRabin(n, as)

(***************************************************************************)
(* rsa.js.                                                                 *)
(***************************************************************************)
(* generate, given the primes it drew; None when n is too short (it draws  *)
(* again) or when there is no inverse.                                     *)
rsaGenerate(bits, e, p, q) ==
    LET lo == Min({p, q})
        hi == Max({p, q})
        d == modInv(e, (p - 1) * (q - 1))
        u == modInv(lo, hi)
    IN  IF bitLength(p * q) # bits \/ d = None \/ u = None THEN [n |-> None]
        ELSE [n |-> p * q, e |-> e, d |-> d, p |-> lo, q |-> hi, u |-> u]

(* `r' blinds the product of the exponents.                                *)
rsaValidateParams(k, r) ==
    /\ k.p * k.q = k.n
    /\ (k.p * k.u) % k.q = 1
    /\ (r * k.d * k.e) % (k.p - 1) = r /\ (r * k.d * k.e) % (k.q - 1) = r
BlindingsOfRSA(k) == 2..(2 ^ (1 + (bitLength(k.n) \div 3)) - 1)

bnSign(k, m) == IF m >= k.n THEN None ELSE modExp(m, k.d, k.n)
bnVerify(k, m, s) == s < k.n /\ modExp(s, k.e, k.n) = m
bnEncrypt(k, m) == IF m >= k.n THEN None ELSE modExp(m, k.e, k.n)

CrtUnsigned(k, mp, mq) == k.u * (IF mq >= mp THEN mq - mp ELSE mp - mq)
CrtDifference(k, mp, mq) == k.u * (mq - mp)
bnDecrypt(k, c, unblinder) ==
    LET inverse == modInv(unblinder, k.n)
        data == (c * modExp(inverse, k.e, k.n)) % k.n
        mp == modExp(data, k.d % (k.p - 1), k.p)
        mq == modExp(data, k.d % (k.q - 1), k.q)
        h == CrtDifference(k, mp, mq) % k.q
    IN  IF c >= k.n \/ inverse = None THEN None ELSE ((h * k.p + mp) * unblinder) % k.n

(***************************************************************************)
(* dsa.js.  A key is [p, q, g, y, x].                                      *)
(***************************************************************************)
Hash(k, hashed) == hashed[1] % k.q  \* as many bytes as q has: one

SignOnce(k, hashed, nonce) ==
    LET r == modExp(k.g, nonce, k.p) % k.q
        t == (Hash(k, hashed) + k.x * r) % k.q
    IN  [r |-> r, s |-> (modInv(nonce, k.q) * t) % k.q]
(* With r or s zero another nonce is drawn.                                *)
TriedAgain(sig) == sig.r = 0 \/ sig.s = 0

dsaVerify(k, hashed, sig) ==
    LET w == modInv(sig.s, k.q)
        u1 == (Hash(k, hashed) * w) % k.q
        u2 == (sig.r * w) % k.q
    IN  /\ sig.r \in 1..(k.q - 1) /\ sig.s \in 1..(k.q - 1)
        /\ w # 0
        /\ ((modExp(k.g, u1, k.p) * modExp(k.y, u2, k.p)) % k.p) % k.q = sig.r

dsaValidateParams(k, r, as) ==
    /\ k.g > 1 /\ k.g < k.p
    /\ (k.p - 1) % k.q = 0
    /\ modExp(k.g, k.q, k.p) = 1
    /\ bitLength(k.q) >= MinQBits /\ isProbablePrime(k.q, 0, as)
    /\ k.y = modExp(k.g, k.q * r + k.x, k.p)

(***************************************************************************)
(* elgamal.js.  A key is [p, g, y, x].                                     *)
(***************************************************************************)
elgamalEncrypt(k, m, nonce) ==
    [c1 |-> modExp(k.g, nonce, k.p), c2 |-> (modExp(k.y, nonce, k.p) * m) % k.p]
elgamalDecrypt(k, c) == (modInv(modExp(c.c1, k.x, k.p), k.p) * c.c2) % k.p

(* g^2 up to g^Threshold are not 1.                                        *)
OrderLargeEnough(k) ==
    LET res[i \in 1..Threshold] == IF i = 1 THEN k.g ELSE (res[i - 1] * k.g) % k.p
    IN  \A i \in 2..Threshold : res[i] # 1
elgamalValidateParams(k, r) ==
    /\ k.g > 1 /\ k.g < k.p
    /\ bitLength(k.p) >= MinPBits
    /\ modExp(k.g, k.p - 1, k.p) = 1
    /\ OrderLargeEnough(k)
    /\ k.y = modExp(k.g, (k.p - 1) * r + k.x, k.p)
============================================================================
