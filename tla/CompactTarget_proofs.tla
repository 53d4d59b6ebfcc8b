------------------------ MODULE CompactTarget_proofs ------------------------
(***************************************************************************)
(* Why the workers' comparison of a hash with the decoded target is that   *)
(* of CheckProofOfWork, why what the pool returns is a block for the       *)
(* daemon, what encoding a target loses, and how far the retarget rule     *)
(* moves: for any even base, any width and any size of targets, so for     *)
(* bytes and 32 of them.                                                   *)
(*                                                                         *)
(* Numbers are what their digits make of them, one by one: so the proofs   *)
(* are by induction on digits.  A set of naturals that has 0 and with each *)
(* n its successor is all of Nat, because Nat is well founded; and what is *)
(* defined by recursion on Nat exists, as a union of finite parts.         *)
(***************************************************************************)
EXTENDS MCWorkerPool, WorkerPool_proofs, WellFoundedInduction, TLAPS

-----------------------------------------------------------------------------
(* Induction and recursion. *)

\* A set of naturals that is not empty has a least element.
LEMMA LeastNatural ==
  ASSUME NEW T \in SUBSET Nat, T # {}
  PROVE  \E x \in T : \A y \in T : x <= y
<1>1. IsWellFoundedOn(OpToRel(<,Nat), Nat)
  BY NatLessThanWellFounded
<1>2. PICK x \in T : \A y \in T : ~ (<<y, x>> \in OpToRel(<,Nat))
  BY <1>1, WFMin
<1>3. \A y \in T : ~(y < x)
  BY <1>2 DEF OpToRel
<1> QED BY <1>3

\* Induction, of a set instead of a predicate.
LEMMA AllNaturals ==
  ASSUME NEW T \in SUBSET Nat, 0 \in T, \A n \in T : n + 1 \in T
  PROVE  T = Nat
<1> SUFFICES ASSUME Nat \ T # {} PROVE FALSE
  OBVIOUS
<1>1. PICK m \in Nat \ T : \A y \in Nat \ T : m <= y
  <2> DEFINE R == Nat \ T
  <2>1. R \in SUBSET Nat /\ R # {}
    OBVIOUS
  <2> HIDE DEF R
  <2>2. \E x \in R : \A y \in R : x <= y
    BY <2>1, LeastNatural
  <2> QED BY <2>2 DEF R
<1>2. m # 0 /\ m - 1 \in Nat
  BY <1>1
<1>3. m - 1 \in T
  BY <1>1, <1>2
<1> QED BY <1>1, <1>2, <1>3

\* A function on the naturals may be defined by its value at 0 and a step.
Follows(f, s0, step) ==
  f[0] = s0 /\ \A k \in Nat : f[k + 1] = step[k][f[k]]

LEMMA RecursiveFunction ==
  ASSUME NEW S, NEW s0 \in S, NEW step \in [Nat -> [S -> S]]
  PROVE  \E f \in [Nat -> S] : Follows(f, s0, step)
<1> DEFINE Approx(n) == {g \in [0 .. n -> S] :
                           /\ g[0] = s0
                           /\ \A k \in 0 .. n - 1 : g[k + 1] = step[k][g[k]]}
<1>1. \A n \in Nat : Approx(n) # {}
  <2> DEFINE T == {n \in Nat : Approx(n) # {}}
  <2>1. 0 \in T
    <3>1. [i \in 0 .. 0 |-> s0] \in Approx(0)
      OBVIOUS
    <3> QED BY <3>1
  <2>2. ASSUME NEW n \in T PROVE n + 1 \in T
    <3>1. PICK g \in Approx(n) : TRUE
      OBVIOUS
    <3> DEFINE h == [i \in 0 .. n + 1 |-> IF i = n + 1 THEN step[n][g[n]] ELSE g[i]]
    <3>2. g \in [0 .. n -> S] /\ g[n] \in S /\ step[n][g[n]] \in S
      BY <3>1
    <3>3. h \in [0 .. n + 1 -> S]
      BY <3>2
    <3>4. h[0] = s0
      BY <3>1
    <3>5. ASSUME NEW k \in 0 .. n PROVE h[k + 1] = step[k][h[k]]
      <4>1. h[k] = g[k]
        OBVIOUS
      <4>2. CASE k = n
        BY <4>1, <4>2
      <4>3. CASE k # n
        <5>1. k \in 0 .. n - 1 /\ h[k + 1] = g[k + 1]
          BY <4>3
        <5> QED BY <3>1, <4>1, <5>1
      <4> QED BY <4>2, <4>3
    <3> HIDE DEF h
    <3>6. h \in Approx(n + 1)
      BY <3>3, <3>4, <3>5
    <3> HIDE DEF Approx
    <3> QED BY <3>6
  <2> HIDE DEF Approx
  <2>3. T = Nat
    <3> HIDE DEF T
    <3>1. T \in SUBSET Nat
      BY DEF T
    <3> QED BY <3>1, <2>1, <2>2, AllNaturals
  <2> QED BY <2>3
<1>2. \A m, n \in Nat : \A g \in Approx(m), h \in Approx(n) :
        \A k \in Nat : k <= m /\ k <= n => g[k] = h[k]
  <2> SUFFICES ASSUME NEW m \in Nat, NEW n \in Nat, NEW g \in Approx(m), NEW h \in Approx(n)
               PROVE  \A k \in Nat : k <= m /\ k <= n => g[k] = h[k]
    OBVIOUS
  <2> DEFINE T == {k \in Nat : k <= m /\ k <= n => g[k] = h[k]}
  <2>1. 0 \in T
    OBVIOUS
  <2>2. ASSUME NEW k \in T PROVE k + 1 \in T
    <3> SUFFICES ASSUME k + 1 <= m, k + 1 <= n PROVE g[k + 1] = h[k + 1]
      OBVIOUS
    <3>1. g[k] = h[k] /\ k \in 0 .. m - 1 /\ k \in 0 .. n - 1
      OBVIOUS
    <3> QED BY <3>1
  <2>3. T = Nat
    <3> HIDE DEF T
    <3>1. T \in SUBSET Nat
      BY DEF T
    <3> QED BY <3>1, <2>1, <2>2, AllNaturals
  <2> QED BY <2>3
<1> DEFINE f == [n \in Nat |-> (CHOOSE g : g \in Approx(n))[n]]
<1>3. \A n \in Nat : (CHOOSE g : g \in Approx(n)) \in Approx(n)
  BY <1>1
<1>4. f \in [Nat -> S]
  <2> SUFFICES ASSUME NEW n \in Nat PROVE (CHOOSE g : g \in Approx(n))[n] \in S
    OBVIOUS
  <2> DEFINE g == CHOOSE x : x \in Approx(n)
  <2>1. g \in Approx(n)
    BY <1>3
  <2> HIDE DEF g
  <2>2. g[n] \in S
    BY <2>1
  <2> QED BY <2>2 DEF g
<1>5. f[0] = s0
  <2> DEFINE g == CHOOSE x : x \in Approx(0)
  <2>1. g \in Approx(0)
    BY <1>3
  <2> HIDE DEF g
  <2>2. g[0] = s0
    BY <2>1
  <2> QED BY <2>2 DEF g
<1>6. ASSUME NEW k \in Nat PROVE f[k + 1] = step[k][f[k]]
  <2> DEFINE g == CHOOSE x : x \in Approx(k)
             h == CHOOSE x : x \in Approx(k + 1)
  <2>1. g \in Approx(k) /\ h \in Approx(k + 1)
    <3> HIDE DEF Approx
    <3>1. k + 1 \in Nat
      OBVIOUS
    <3> QED BY <1>3, <3>1
  <2>2. f[k] = g[k] /\ f[k + 1] = h[k + 1]
    OBVIOUS
  <2> HIDE DEF f, g, h
  <2>3. g[k] = h[k]
    <3> HIDE DEF Approx
    <3> QED BY <2>1, <1>2
  <2>4. h[k + 1] = step[k][h[k]]
    BY <2>1
  <2> QED BY <2>2, <2>3, <2>4
<1> HIDE DEF f
<1>7. Follows(f, s0, step)
  BY <1>5, <1>6 DEF Follows
<1> QED BY <1>4, <1>7

\* Weight is what its definition says.
LEMMA WeightIs ==
  /\ Weight \in [Nat -> Nat \ {0}]
  /\ Weight[0] = 1
  /\ \A k \in Nat : Weight[k + 1] = Base * Weight[k]
<1> DEFINE step == [k \in Nat |-> [w \in Nat \ {0} |-> Base * w]]
           body(f) == [k \in Nat |-> IF k = 0 THEN 1 ELSE Base * f[k - 1]]
<1>1. step \in [Nat -> [Nat \ {0} -> Nat \ {0}]]
  BY EncodingAssumption
<1>2. PICK f \in [Nat -> Nat \ {0}] : f[0] = 1 /\ \A k \in Nat : f[k + 1] = step[k][f[k]]
  <2> DEFINE Pos == Nat \ {0}
  <2>1. 1 \in Pos /\ step \in [Nat -> [Pos -> Pos]]
    BY <1>1
  <2> HIDE DEF step, Pos
  <2>2. \E f \in [Nat -> Pos] : Follows(f, 1, step)
    BY <2>1, RecursiveFunction
  <2> QED BY <2>2 DEF Pos, Follows
<1>3. \A k \in Nat : f[k + 1] = Base * f[k]
  BY <1>2
<1>4. f = body(f)
  <2>1. \A k \in Nat : k # 0 => f[k] = Base * f[k - 1]
    BY <1>3
  <2> QED BY <1>2, <2>1
<1>5. Weight = body(Weight)
  BY <1>4 DEF Weight
<1>6. Weight[0] = 1 /\ \A k \in Nat : Weight[k + 1] = Base * Weight[k]
  BY <1>5
<1> DEFINE T == {k \in Nat : Weight[k] \in Nat \ {0}}
<1>7. 0 \in T /\ \A k \in T : k + 1 \in T
  BY <1>6, EncodingAssumption
<1>8. T = Nat
  <2>1. T \in SUBSET Nat
    OBVIOUS
  <2> HIDE DEF T
  <2> QED BY <1>7, <2>1, AllNaturals
<1>9. \A k \in Nat : Weight[k] \in Nat \ {0}
  BY <1>8
<1> HIDE DEF T
<1>10. \E g : Weight = [k \in Nat |-> g[k]]
  <2>1. Weight = [k \in Nat |-> body(Weight)[k]]
    BY <1>5
  <2> QED BY <2>1
<1>11. Weight \in [Nat -> Nat \ {0}]
  BY <1>9, <1>10
<1> QED BY <1>6, <1>11

LEMMA MinIsLeast ==
  ASSUME NEW T \in SUBSET Nat, T # {}
  PROVE  Min(T) \in T /\ \A y \in T : Min(T) <= y
BY LeastNatural DEF Min

-----------------------------------------------------------------------------
(* Division. *)

LEMMA Product ==
  ASSUME NEW a \in Nat, NEW b \in Nat, NEW c \in Nat, a <= b
  PROVE  a * c \in Nat /\ a * c <= b * c
<1>1. (b - a) * c >= 0 /\ b - a \in Nat
  OBVIOUS
<1>2. (b - a) * c = b * c - a * c
  OBVIOUS
<1> QED BY <1>1, <1>2

LEMMA DivisionIs ==
  ASSUME NEW a \in Nat, NEW b \in Nat \ {0}
  PROVE  /\ a \div b \in Nat /\ a % b \in 0 .. b - 1
         /\ a = b * (a \div b) + (a % b)
  OBVIOUS

LEMMA QuotientIs ==
  ASSUME NEW q \in Nat, NEW b \in Nat \ {0}, NEW r \in 0 .. b - 1
  PROVE  (b * q + r) \div b = q /\ (b * q + r) % b = r
<1> DEFINE a == b * q + r
<1>1. a \in Nat
  OBVIOUS
<1> HIDE DEF a
<1>2. /\ a \div b \in Nat /\ a % b \in 0 .. b - 1
      /\ a = b * (a \div b) + (a % b)
  BY <1>1, DivisionIs
<1>3. a = b * q + r
  BY DEF a
<1> DEFINE p == a \div b
           s == a % b
<1>4. p = q
  <2>1. p \in Nat /\ s \in 0 .. b - 1 /\ b * p + s = b * q + r
    BY <1>2, <1>3
  <2> HIDE DEF p, s
  <2>2. CASE p > q
    <3>1. (q + 1) * b <= p * b
      BY <2>1, <2>2, Product
    <3>2. (q + 1) * b = b * q + b /\ p * b = b * p
      BY <2>1
    <3> QED BY <2>1, <3>1, <3>2
  <2>3. CASE p < q
    <3>1. (p + 1) * b <= q * b
      BY <2>1, <2>3, Product
    <3>2. (p + 1) * b = b * p + b /\ q * b = b * q
      BY <2>1
    <3> QED BY <2>1, <3>1, <3>2
  <2> QED BY <2>1, <2>2, <2>3
<1>5. a % b = r
  BY <1>2, <1>3, <1>4
<1> QED BY <1>4, <1>5 DEF a

LEMMA NestedQuotient ==
  ASSUME NEW a \in Nat, NEW b \in Nat \ {0}, NEW c \in Nat \ {0}
  PROVE  (a \div b) \div c = a \div (c * b)
<1> DEFINE q1 == a \div b
           r1 == a % b
           q2 == q1 \div c
           r2 == q1 % c
<1>1. q1 \in Nat /\ r1 \in 0 .. b - 1 /\ a = b * q1 + r1
  BY DivisionIs
<1>2. q2 \in Nat /\ r2 \in 0 .. c - 1 /\ q1 = c * q2 + r2
  BY <1>1, DivisionIs
<1> HIDE DEF q1, r1, q2, r2
<1>3. c * b \in Nat \ {0}
  OBVIOUS
<1> DEFINE r == b * r2 + r1
           d == c * b
<1>4. a = d * q2 + r
  <2>1. b * q1 = b * (c * q2) + b * r2
    BY <1>1, <1>2
  <2>2. b * (c * q2) = (c * b) * q2
    BY <1>2
  <2> QED BY <1>1, <1>2, <2>1, <2>2
<1>5. r \in 0 .. d - 1
  <2>1. r2 + 1 <= c /\ r2 \in Nat
    BY <1>2
  <2>2. (r2 + 1) * b <= c * b
    BY <2>1, Product
  <2>3. (r2 + 1) * b = b * r2 + b
    BY <2>1
  <2>4. b * r2 \in Nat
    BY <2>1
  <2>5. r \in Nat /\ r <= b * r2 + (b - 1)
    BY <1>1, <2>4
  <2> HIDE DEF r
  <2>6. r < c * b
    BY <2>2, <2>3, <2>4, <2>5, <1>3
  <2> QED BY <2>5, <2>6, <1>3
<1>6. d \in Nat \ {0}
  BY <1>3
<1> HIDE DEF r, d
<1>7. a \div d = q2
  BY <1>2, <1>4, <1>5, <1>6, QuotientIs
<1> QED BY <1>7 DEF d, q2, q1

LEMMA QuotientByOne == \A a \in Nat : a \div 1 = a
OBVIOUS

LEMMA QuotientOfLess ==
  ASSUME NEW b \in Nat \ {0}, NEW a \in 0 .. b - 1
  PROVE  a \div b = 0
<1>1. (b * 0 + a) \div b = 0
  BY QuotientIs
<1>2. b * 0 + a = a
  OBVIOUS
<1> QED BY <1>1, <1>2

\* A number between two multiples of b.
LEMMA QuotientBetween ==
  ASSUME NEW m \in Nat, NEW a \in Nat, NEW b \in Nat \ {0}, NEW c \in Nat,
         a * b <= m, m < c * b
  PROVE  /\ m \div b \in Nat /\ a <= m \div b /\ m \div b < c
         /\ (m \div b) * b <= m /\ m - (m \div b) * b < b
<1> DEFINE q == m \div b
           r == m % b
<1>1. q \in Nat /\ r \in 0 .. b - 1 /\ m = b * q + r
  BY DivisionIs
<1> HIDE DEF q, r
<1>2. b * q = q * b /\ q * b \in Nat
  BY <1>1
<1>3. q * b <= m /\ m - q * b < b
  BY <1>1, <1>2
<1>4. ~(q < a)
  <2> SUFFICES ASSUME q < a PROVE FALSE
    OBVIOUS
  <2>1. (q + 1) * b <= a * b
    BY <1>1, Product
  <2>2. (q + 1) * b = q * b + b /\ a * b \in Nat
    BY <1>1
  <2> QED BY <1>2, <1>3, <2>1, <2>2
<1>5. ~(c <= q)
  <2> SUFFICES ASSUME c <= q PROVE FALSE
    OBVIOUS
  <2>1. c * b <= q * b /\ c * b \in Nat
    BY <1>1, Product
  <2> QED BY <1>2, <1>3, <2>1
<1> QED BY <1>1, <1>3, <1>4, <1>5 DEF q

LEMMA QuotientOfProduct ==
  ASSUME NEW a \in Nat, NEW b \in Nat \ {0}
  PROVE  (a * b) \div b = a
<1>1. (b * a + 0) \div b = a
  BY QuotientIs
<1>2. b * a + 0 = a * b
  OBVIOUS
<1> QED BY <1>1, <1>2

\* A division rounds down.
LEMMA Floor ==
  ASSUME NEW x \in Int, NEW k \in Nat \ {0}
  PROVE  /\ x \div k \in Int
         /\ k * (x \div k) <= x /\ x < k * (x \div k) + k
OBVIOUS

-----------------------------------------------------------------------------
(* Digits. *)

\* Numbers with the same first digits are equal; else the first digit that
\* differs decides.
Decided(h, t, d, e, n) ==
  \/ h[n] = t[n] /\ \A i \in 0 .. n - 1 : d[i] = e[i]
  \/ \E m \in 0 .. n - 1 :
       /\ \A i \in 0 .. m - 1 : d[i] = e[i]
       /\ d[m] # e[m]
       /\ h[n] < t[n] <=> d[m] < e[m]
       /\ h[n] # t[n]

LEMMA FirstDigitDecides ==
  ASSUME NEW B \in Nat \ {0}, NEW n \in Nat,
         NEW d, NEW e, \A i \in 0 .. n - 1 : d[i] \in 0 .. B - 1 /\ e[i] \in 0 .. B - 1,
         NEW h, NEW t, \A k \in 0 .. n : h[k] \in Nat /\ t[k] \in Nat,
         h[0] = t[0],
         \A k \in 0 .. n - 1 : h[k + 1] = h[k] * B + d[k] /\ t[k + 1] = t[k] * B + e[k]
  PROVE  Decided(h, t, d, e, n)
<1> DEFINE Same(k) == h[k] = t[k] /\ \A i \in 0 .. k - 1 : d[i] = e[i]
           Differ(k, m) == /\ \A i \in 0 .. m - 1 : d[i] = e[i]
                           /\ d[m] # e[m]
                           /\ h[k] < t[k] <=> d[m] < e[m]
                           /\ h[k] # t[k]
           T == {k \in Nat : k <= n => Same(k) \/ \E m \in 0 .. k - 1 : Differ(k, m)}
<1>1. 0 \in T
  OBVIOUS
<1>2. ASSUME NEW k \in T PROVE k + 1 \in T
  <2> SUFFICES ASSUME k + 1 <= n PROVE Same(k + 1) \/ \E m \in 0 .. k : Differ(k + 1, m)
    OBVIOUS
  <2>1. /\ k \in 0 .. n - 1
        /\ h[k] \in Nat /\ t[k] \in Nat /\ h[k + 1] \in Nat /\ t[k + 1] \in Nat
        /\ d[k] \in 0 .. B - 1 /\ e[k] \in 0 .. B - 1
        /\ h[k + 1] = h[k] * B + d[k] /\ t[k + 1] = t[k] * B + e[k]
    OBVIOUS
  <2>2. ASSUME h[k] < t[k] PROVE h[k + 1] < t[k + 1]
    <3>0. h[k] + 1 \in Nat /\ h[k] + 1 <= t[k] /\ B \in Nat
      BY <2>1, <2>2
    <3>1. (h[k] + 1) * B <= t[k] * B
      BY <2>1, <3>0, Product
    <3>2. (h[k] + 1) * B = h[k] * B + B
      BY <2>1
    <3>3. h[k] * B \in Nat /\ t[k] * B \in Nat
      BY <2>1
    <3> QED BY <2>1, <3>1, <3>2, <3>3
  <2>3. ASSUME t[k] < h[k] PROVE t[k + 1] < h[k + 1]
    <3>0. t[k] + 1 \in Nat /\ t[k] + 1 <= h[k] /\ B \in Nat
      BY <2>1, <2>3
    <3>1. (t[k] + 1) * B <= h[k] * B
      BY <2>1, <3>0, Product
    <3>2. (t[k] + 1) * B = t[k] * B + B
      BY <2>1
    <3>3. h[k] * B \in Nat /\ t[k] * B \in Nat
      BY <2>1
    <3> QED BY <2>1, <3>1, <3>2, <3>3
  <2>4. CASE Same(k)
    <3>1. t[k] * B \in Nat /\ h[k] * B = t[k] * B
      BY <2>1, <2>4
    <3>2. CASE d[k] = e[k]
      <4>1. h[k + 1] = t[k + 1]
        BY <2>1, <3>1, <3>2
      <4>2. \A i \in 0 .. k : d[i] = e[i]
        BY <2>4, <3>2
      <4> QED BY <4>1, <4>2
    <3>3. CASE d[k] # e[k]
      <4>1. (h[k + 1] < t[k + 1] <=> d[k] < e[k]) /\ h[k + 1] # t[k + 1]
        <5>1. PICK x \in Nat : h[k + 1] = x + d[k] /\ t[k + 1] = x + e[k]
          BY <2>1, <3>1
        <5>2. d[k] \in Nat /\ e[k] \in Nat
          BY <2>1
        <5>3. \A y, z \in Nat : y # z => (x + y < x + z <=> y < z) /\ x + y # x + z
          OBVIOUS
        <5> QED BY <3>3, <5>1, <5>2, <5>3
      <4>2. Differ(k + 1, k)
        BY <2>4, <3>3, <4>1
      <4>3. k \in 0 .. k
        OBVIOUS
      <4> HIDE DEF Same, Differ
      <4> QED BY <4>2, <4>3
    <3> QED BY <3>2, <3>3
  <2>5. CASE \E m \in 0 .. k - 1 : Differ(k, m)
    <3>1. PICK m \in 0 .. k - 1 : Differ(k, m)
      BY <2>5
    <3>2. Differ(k + 1, m)
      <4>1. (h[k + 1] < t[k + 1] <=> h[k] < t[k]) /\ h[k + 1] # t[k + 1]
        <5>0. h[k] # t[k] /\ h[k] \in Nat /\ t[k] \in Nat
          BY <2>1, <3>1
        <5>1. h[k] < t[k] \/ t[k] < h[k]
          <6>1. \A x, y \in Nat : x # y => x < y \/ y < x
            OBVIOUS
          <6> QED BY <5>0, <6>1
        <5> QED BY <2>1, <2>2, <2>3, <5>1
      <4> QED BY <3>1, <4>1
    <3>3. m \in 0 .. k
      OBVIOUS
    <3> HIDE DEF Same, Differ
    <3> QED BY <3>2, <3>3
  <2> HIDE DEF Same, Differ
  <2> QED BY <2>1, <2>4, <2>5
<1>3. T = Nat
  <2>1. T \in SUBSET Nat
    OBVIOUS
  <2> HIDE DEF T
  <2> QED BY <1>1, <1>2, <2>1, AllNaturals
<1>4. Same(n) \/ \E m \in 0 .. n - 1 : Differ(n, m)
  <2> HIDE DEF Same, Differ
  <2> QED BY <1>3
<1> QED BY <1>4 DEF Decided

\* SetBytes takes the digits of a hash one by one, its last first.
LEMMA HashIs ==
  ASSUME NEW hash \in Digits
  PROVE  \E big : /\ HashToBig(hash) = big[Width]
                  /\ big[0] = 0
                  /\ \A k \in 0 .. Width - 1 : big[k + 1] = big[k] * Base + hash[Width - (k + 1)]
                  /\ \A k \in 0 .. Width : big[k] \in Nat
<1> DEFINE step == [k \in Nat |-> [v \in Nat |->
                      IF k < Width THEN v * Base + hash[Width - (k + 1)] ELSE 0]]
           body(b) == [k \in 0 .. Width |-> IF k = 0 THEN 0 ELSE b[k - 1] * Base + hash[Width - k]]
           big == CHOOSE b : b = body(b)
<1>0. Width \in Nat /\ Base \in Nat \ {0}
  BY EncodingAssumption
<1>1. \A k \in 0 .. Width - 1 : hash[Width - (k + 1)] \in 0 .. Base - 1
  BY <1>0 DEF Digits
<1>2. step \in [Nat -> [Nat -> Nat]]
  <2> SUFFICES ASSUME NEW k \in Nat, NEW v \in Nat, k < Width
               PROVE  v * Base + hash[Width - (k + 1)] \in Nat
    OBVIOUS
  <2>1. hash[Width - (k + 1)] \in Nat
    BY <1>0, <1>1
  <2> QED BY <1>0, <2>1
<1>3. PICK f \in [Nat -> Nat] : Follows(f, 0, step)
  <2> HIDE DEF step
  <2> QED BY <1>2, RecursiveFunction
<1>4. f[0] = 0 /\ \A k \in 0 .. Width - 1 : f[k + 1] = f[k] * Base + hash[Width - (k + 1)]
  <2>1. f[0] = 0 /\ \A k \in Nat : f[k + 1] = step[k][f[k]]
    BY <1>3 DEF Follows
  <2> SUFFICES ASSUME NEW k \in 0 .. Width - 1
               PROVE  f[k + 1] = f[k] * Base + hash[Width - (k + 1)]
    BY <2>1
  <2>2. k \in Nat /\ k < Width /\ f[k] \in Nat
    BY <1>0
  <2> QED BY <2>1, <2>2
<1> DEFINE g == [k \in 0 .. Width |-> f[k]]
<1>5. g = body(g)
  <2>1. ASSUME NEW k \in 0 .. Width, k # 0 PROVE g[k] = g[k - 1] * Base + hash[Width - k]
    <3>1. k - 1 \in 0 .. Width - 1 /\ (k - 1) + 1 = k /\ k - 1 \in 0 .. Width
      BY <1>0, <2>1
    <3>2. f[(k - 1) + 1] = f[k - 1] * Base + hash[Width - ((k - 1) + 1)]
      BY <1>4, <3>1
    <3> QED BY <3>1, <3>2
  <2>2. g[0] = 0 /\ 0 \in 0 .. Width
    BY <1>0, <1>4
  <2> HIDE DEF g
  <2>3. \A k \in 0 .. Width : g[k] = body(g)[k]
    BY <2>1, <2>2
  <2>4. g = [k \in 0 .. Width |-> g[k]]
    BY DEF g
  <2>5. body(g) = [k \in 0 .. Width |-> body(g)[k]]
    OBVIOUS
  <2> QED BY <2>3, <2>4, <2>5
<1>6. big = body(big)
  <2> HIDE DEF body, g
  <2> QED BY <1>5
<1>7. HashToBig(hash) = big[Width]
  BY DEF HashToBig
<1> HIDE DEF big
<1>8. big[0] = 0
  BY <1>0, <1>6
<1>9. \A k \in 0 .. Width - 1 : big[k + 1] = big[k] * Base + hash[Width - (k + 1)]
  <2> SUFFICES ASSUME NEW k \in 0 .. Width - 1
               PROVE  big[k + 1] = big[k] * Base + hash[Width - (k + 1)]
    OBVIOUS
  <2>1. k + 1 \in 0 .. Width /\ k + 1 # 0 /\ (k + 1) - 1 = k
    BY <1>0
  <2>2. big[k + 1] = body(big)[k + 1]
    BY <1>6
  <2> QED BY <2>1, <2>2
<1> HIDE DEF body
<1> DEFINE T == {k \in Nat : k <= Width => big[k] \in Nat}
<1>10. 0 \in T
  BY <1>8
<1>11. ASSUME NEW k \in T PROVE k + 1 \in T
  <2> SUFFICES ASSUME k + 1 <= Width PROVE big[k + 1] \in Nat
    OBVIOUS
  <2>1. k \in 0 .. Width - 1 /\ big[k] \in Nat
    BY <1>0
  <2>2. hash[Width - (k + 1)] \in Nat /\ big[k] * Base \in Nat
    BY <1>0, <1>1, <2>1
  <2> QED BY <1>9, <2>1, <2>2
<1>12. T = Nat
  <2>1. T \in SUBSET Nat
    OBVIOUS
  <2> HIDE DEF T
  <2> QED BY <1>10, <1>11, <2>1, AllNaturals
<1>13. \A k \in 0 .. Width : big[k] \in Nat
  BY <1>0, <1>12
<1> QED BY <1>7, <1>8, <1>9, <1>13

\* What a compact target stands for is an integer.
LEMMA TargetIsInteger ==
  ASSUME NEW compact \in Compacts PROVE CompactToBig(compact) \in Int
<1> DEFINE size == compact \div Weight[3]
           word == compact % SignBit
           n    == IF size <= 3 THEN word \div Weight[3 - size] ELSE word * Weight[size - 3]
<1>1. compact \in Nat /\ Weight[3] \in Nat \ {0} /\ SignBit \in Nat \ {0}
  <2>1. Weight[3] \in Nat \ {0}
    BY WeightIs
  <2>2. (MaxSize + 1) * Weight[3] \in Nat
    BY <2>1, EncodingAssumption
  <2>3. compact \in Nat
    BY <2>2 DEF Compacts
  <2>4. SignBit \in Nat \ {0}
    <3>1. Weight[3] >= 2
      <4>1. Base \in Nat /\ Base >= 2
        BY EncodingAssumption
      <4>2. Weight[3] = Base * Weight[2] /\ Weight[2] \in Nat \ {0}
        <5>1. Weight[2 + 1] = Base * Weight[2] /\ Weight[2] \in Nat \ {0}
          BY WeightIs
        <5> QED BY <5>1
      <4>3. 1 * Base <= Weight[2] * Base
        BY <4>1, <4>2, Product
      <4> QED BY <4>1, <4>2, <4>3
    <3> DEFINE w == Weight[3]
    <3>2. w \in Nat /\ w >= 2
      BY <2>1, <3>1
    <3> HIDE DEF w
    <3>3. w \div 2 \in Nat \ {0}
      BY <3>2
    <3> QED BY <3>3 DEF SignBit, w
  <2> QED BY <2>1, <2>3, <2>4
<1>2. size \in Nat /\ word \in Nat
  <2>1. size \in Nat
    BY <1>1, DivisionIs
  <2>2. word \in 0 .. SignBit - 1
    BY <1>1, DivisionIs
  <2> QED BY <1>1, <2>1, <2>2
<1>3. CompactToBig(compact) \in {n, -n}
  BY DEF CompactToBig
<1> HIDE DEF size, word
<1>4. n \in Nat
  <2>1. CASE size <= 3
    <3>1. 3 - size \in Nat
      BY <1>2, <2>1
    <3>2. Weight[3 - size] \in Nat \ {0}
      BY <3>1, WeightIs
    <3>3. word \div Weight[3 - size] \in Nat
      BY <1>2, <3>2, DivisionIs
    <3> QED BY <2>1, <3>3
  <2>2. CASE ~(size <= 3)
    <3>1. size - 3 \in Nat
      BY <1>2, <2>2
    <3>2. Weight[size - 3] \in Nat \ {0}
      BY <3>1, WeightIs
    <3>3. word * Weight[size - 3] \in Nat
      BY <1>2, <3>2
    <3> QED BY <2>2, <3>3
  <2> QED BY <2>1, <2>2
<1> HIDE DEF n
<1> QED BY <1>3, <1>4

-----------------------------------------------------------------------------
(* Both comparisons. *)

\* The first digits of a number, as TargetFromBits writes them.
LEMMA TopDigits ==
  ASSUME NEW a \in Nat, a < Weight[Width]
  PROVE  LET top == [k \in 0 .. Width |-> a \div Weight[Width - k]]
         IN  /\ top[0] = 0 /\ top[Width] = a
             /\ \A k \in 0 .. Width : top[k] \in Nat
             /\ \A k \in 0 .. Width - 1 :
                  LET digit == (a \div Weight[Width - 1 - k]) % Base
                  IN  /\ digit \in 0 .. Base - 1
                      /\ top[k + 1] = top[k] * Base + digit
<1> DEFINE top == [k \in 0 .. Width |-> a \div Weight[Width - k]]
<1>0. Width \in Nat /\ Base \in Nat \ {0}
  BY EncodingAssumption
<1>1. \A k \in 0 .. Width : Width - k \in Nat /\ Weight[Width - k] \in Nat \ {0}
  BY <1>0, WeightIs
<1>2. \A k \in 0 .. Width : top[k] \in Nat
  <2> SUFFICES ASSUME NEW k \in 0 .. Width PROVE a \div Weight[Width - k] \in Nat
    OBVIOUS
  <2> QED BY <1>1, DivisionIs
<1>3. top[0] = 0
  <2>1. Weight[Width] \in Nat \ {0} /\ a \in 0 .. Weight[Width] - 1
    BY <1>0, WeightIs
  <2>2. a \div Weight[Width] = 0
    BY <2>1, QuotientOfLess
  <2>3. 0 \in 0 .. Width /\ Width - 0 = Width
    BY <1>0
  <2> QED BY <2>2, <2>3
<1>4. top[Width] = a
  <2>1. Width \in 0 .. Width /\ Width - Width = 0
    BY <1>0
  <2>2. Weight[0] = 1 /\ a \div 1 = a
    BY WeightIs, QuotientByOne
  <2> QED BY <2>1, <2>2
<1>5. ASSUME NEW k \in 0 .. Width - 1
      PROVE  LET digit == (a \div Weight[Width - 1 - k]) % Base
             IN  /\ digit \in 0 .. Base - 1
                 /\ top[k + 1] = top[k] * Base + digit
  <2> DEFINE m == Width - 1 - k
             w == Weight[m]
             q == a \div w
  <2>1. m \in Nat /\ m + 1 = Width - k /\ m = Width - (k + 1) /\ k \in 0 .. Width /\ k + 1 \in 0 .. Width
    BY <1>0
  <2>2. w \in Nat \ {0} /\ Weight[Width - k] = Base * w
    <3> HIDE DEF m
    <3>1. Weight[m] \in Nat \ {0} /\ Weight[m + 1] = Base * Weight[m]
      BY <2>1, WeightIs
    <3> QED BY <2>1, <3>1
  <2>3. top[k + 1] = q /\ top[k] = a \div (Base * w)
    BY <2>1, <2>2
  <2> HIDE DEF w, top
  <2>4. q \div Base = a \div (Base * w)
    BY <1>0, <2>2, NestedQuotient
  <2>5. q \in Nat
    BY <2>2, DivisionIs
  <2> HIDE DEF q
  <2>6. q \div Base \in Nat /\ q % Base \in 0 .. Base - 1 /\ q = Base * (q \div Base) + (q % Base)
    BY <1>0, <2>5, DivisionIs
  <2>7. top[k + 1] = top[k] * Base + (q % Base)
    <3>1. Base * (q \div Base) = (q \div Base) * Base
      BY <1>0, <2>6
    <3> QED BY <2>3, <2>4, <2>6, <3>1
  <2> QED BY <2>6, <2>7 DEF q, w
<1> HIDE DEF top
<1> QED BY <1>2, <1>3, <1>4, <1>5 DEF top

LEMMA LimitFits == PowLimit \in Nat /\ PowLimit < Weight[Width]
<1> DEFINE w == Weight[Width]
<1>1. w \in Nat \ {0}
  BY WeightIs, EncodingAssumption
<1> HIDE DEF w
<1>2. (w - 1) \div 2 \in Nat /\ (w - 1) \div 2 < w
  BY <1>1
<1> QED BY <1>2 DEF PowLimit, w

LEMMA Agreement ==
  ASSUME NEW compact \in Compacts, CompactToBig(compact) > 0, CompactToBig(compact) <= PowLimit
  PROVE  /\ ~TargetPanics(compact)
         /\ \A hash \in Digits :
              CheckHashTarget(hash, TargetFromBits(compact)) <=> CheckProofOfWork(hash, compact)
<1> DEFINE a == CompactToBig(compact)
<1>0. Width \in Nat /\ Base \in Nat \ {0} /\ MaxSize \in Nat /\ Width < MaxSize
  BY EncodingAssumption
<1>1. a \in Nat /\ a > 0 /\ a <= PowLimit /\ a < Weight[Width] /\ Magnitude(a) = a
  <2>1. a \in Int /\ a > 0 /\ a <= PowLimit
    BY TargetIsInteger
  <2> HIDE DEF a
  <2>2. Weight[Width] \in Nat
    BY <1>0, WeightIs
  <2>3. Magnitude(a) = a
    BY <2>1 DEF Magnitude
  <2> QED BY <2>1, <2>2, <2>3, LimitFits
<1>2. ~TargetPanics(compact)
  <2> DEFINE T == {k \in 0 .. MaxSize + 1 : Magnitude(a) < Weight[k]}
  <2>1. Width \in T /\ T \in SUBSET Nat
    BY <1>0, <1>1
  <2>2. TargetPanics(compact) <=> Min(T) > Width
    BY DEF TargetPanics, Len3
  <2> HIDE DEF T
  <2>3. Min(T) \in T /\ Min(T) <= Width
    BY <2>1, MinIsLeast
  <2>4. Min(T) \in Nat
    BY <2>1, <2>3
  <2> QED BY <1>0, <2>2, <2>3, <2>4
<1>3. ASSUME NEW hash \in Digits
      PROVE  CheckHashTarget(hash, TargetFromBits(compact)) <=> CheckProofOfWork(hash, compact)
  <2> DEFINE target == TargetFromBits(compact)
             d == [i \in 0 .. Width - 1 |-> hash[Width - 1 - i]]
             top == [k \in 0 .. Width |-> a \div Weight[Width - k]]
             diff == {i \in 0 .. Width - 1 : hash[Width - 1 - i] # target[i]}
  <2>1. target = [i \in 0 .. Width - 1 |-> (a \div Weight[Width - 1 - i]) % Base]
    BY <1>1 DEF TargetFromBits
  <2>2. /\ top[0] = 0 /\ top[Width] = a
        /\ \A k \in 0 .. Width : top[k] \in Nat
        /\ \A k \in 0 .. Width - 1 :
             target[k] \in 0 .. Base - 1 /\ top[k + 1] = top[k] * Base + target[k]
    <3> HIDE DEF a
    <3>1. /\ top[0] = 0 /\ top[Width] = a
          /\ \A k \in 0 .. Width : top[k] \in Nat
          /\ \A k \in 0 .. Width - 1 :
               LET digit == (a \div Weight[Width - 1 - k]) % Base
               IN  digit \in 0 .. Base - 1 /\ top[k + 1] = top[k] * Base + digit
      BY <1>1, TopDigits
    <3> HIDE DEF target, top
    <3> QED BY <2>1, <3>1
  <2>3. PICK big : /\ HashToBig(hash) = big[Width]
                   /\ big[0] = 0
                   /\ \A k \in 0 .. Width - 1 : big[k + 1] = big[k] * Base + hash[Width - (k + 1)]
                   /\ \A k \in 0 .. Width : big[k] \in Nat
    BY HashIs
  <2>4. \A k \in 0 .. Width - 1 : d[k] \in 0 .. Base - 1 /\ d[k] = hash[Width - (k + 1)]
                                 /\ d[k] = hash[Width - 1 - k]
    <3> SUFFICES ASSUME NEW k \in 0 .. Width - 1
                 PROVE  d[k] \in 0 .. Base - 1 /\ d[k] = hash[Width - (k + 1)]
                        /\ d[k] = hash[Width - 1 - k]
      OBVIOUS
    <3>1. Width - 1 - k \in 0 .. Width - 1 /\ Width - 1 - k = Width - (k + 1)
      BY <1>0
    <3> QED BY <3>1 DEF Digits
  <2> HIDE DEF target, top, d
  <2>5. Decided(big, top, d, target, Width)
    <3>1. \A i \in 0 .. Width - 1 : d[i] \in 0 .. Base - 1 /\ target[i] \in 0 .. Base - 1
      BY <2>2, <2>4
    <3>2. \A k \in 0 .. Width : big[k] \in Nat /\ top[k] \in Nat
      BY <2>2, <2>3
    <3>3. big[0] = top[0]
      BY <2>2, <2>3
    <3>4. \A k \in 0 .. Width - 1 :
            big[k + 1] = big[k] * Base + d[k] /\ top[k + 1] = top[k] * Base + target[k]
      BY <2>2, <2>3, <2>4
    <3> QED BY <1>0, <3>1, <3>2, <3>3, <3>4, FirstDigitDecides
  <2>6. CheckProofOfWork(hash, compact) <=> big[Width] <= a
    BY <1>1, <2>3 DEF CheckProofOfWork
  <2>7. CheckHashTarget(hash, target)
          <=> diff = {} \/ hash[Width - 1 - Min(diff)] < target[Min(diff)]
    BY DEF CheckHashTarget
  <2>8. big[Width] \in Nat
    BY <1>0, <2>3
  <2>9. diff = {i \in 0 .. Width - 1 : d[i] # target[i]}
    BY <2>4
  <2> HIDE DEF a
  <2>10. CASE big[Width] = top[Width] /\ \A i \in 0 .. Width - 1 : d[i] = target[i]
    <3>1. diff = {}
      BY <2>9, <2>10
    <3>2. big[Width] <= a
      BY <1>1, <2>2, <2>10
    <3> QED BY <2>6, <2>7, <3>1, <3>2 DEF target
  <2>11. CASE \E m \in 0 .. Width - 1 :
             /\ \A i \in 0 .. m - 1 : d[i] = target[i]
             /\ d[m] # target[m]
             /\ big[Width] < top[Width] <=> d[m] < target[m]
             /\ big[Width] # top[Width]
    <3>1. PICK m \in 0 .. Width - 1 :
             /\ \A i \in 0 .. m - 1 : d[i] = target[i]
             /\ d[m] # target[m]
             /\ big[Width] < top[Width] <=> d[m] < target[m]
             /\ big[Width] # top[Width]
      BY <2>11
    <3>2. m \in diff /\ diff \in SUBSET Nat /\ \A i \in diff : i >= m
      BY <1>0, <2>9, <3>1
    <3> HIDE DEF diff
    <3>3. Min(diff) \in diff /\ Min(diff) <= m
      BY <3>2, MinIsLeast
    <3>4. Min(diff) = m
      <4>1. Min(diff) >= m /\ Min(diff) \in Nat /\ m \in Nat
        BY <3>2, <3>3
      <4> QED BY <3>3, <4>1
    <3>5. big[Width] <= a <=> d[m] < target[m]
      <4>1. \A x, y \in Nat : x # y => (x <= y <=> x < y)
        OBVIOUS
      <4> QED BY <1>1, <2>2, <2>8, <3>1, <4>1
    <3>6. diff # {} /\ hash[Width - 1 - m] = d[m]
      BY <2>4, <3>2
    <3> QED BY <2>6, <2>7, <3>4, <3>5, <3>6 DEF target
  <2> QED BY <2>5, <2>10, <2>11 DEF Decided
<1> QED BY <1>2, <1>3

\* The comparison without big integers decides as CheckProofOfWork does, and
\* decoding the target does not panic: for any base, width and size of targets,
\* every target that is one, and every hash (CheckHashTarget, TargetFromBits,
\* target.go:128-151; run.go:355, mining.go:111).
THEOREM FastCheckIsExact == Spec => []FastCheckAgrees
<1>1. ComparisonsAgree
  BY Agreement DEF ComparisonsAgree
<1>2. FastCheckAgrees
  BY <1>1 DEF FastCheckAgrees
<1> QED BY <1>2, PTL

-----------------------------------------------------------------------------
(* The pool and the target together. *)

\* Of the nonces counted exactly the solutions have hit.
Tally == hits = hashed \cap Solutions

LEMMA TallyKept == Spec => [](TypeOK /\ Tally)
<1>1. Init => Tally
  BY DEF Init, Tally
<1>2. ASSUME TypeOK, Tally, [Next]_vars PROVE Tally'
  <2>1. CASE UNCHANGED <<hashed, hits>>
    BY <1>2, <2>1 DEF Tally
  <2>2. ASSUME NEW w \in Workers, HashMiss(w) PROVE Tally'
    BY <1>2, <2>2 DEF HashMiss, Tally
  <2>3. ASSUME NEW w \in Workers, HashHit(w) PROVE Tally'
    BY <1>2, <2>3 DEF HashHit, Tally
  <2>4. ASSUME NEW w \in Workers, Worker(w) PROVE Tally'
    BY <2>1, <2>2, <2>3, <2>4
       DEF Worker, CheckCtx, CheckStale, HashError, Send, Done
  <2>5. CASE Caller \/ Closer \/ Others
    BY <2>1, <2>5 DEF Caller, Spawn, StartCloser, ReturnFirst, ReturnNone, MiningCancel,
                      Closer, CloserWait, CloserClose, Others, CancelParent, RaiseStale,
                      ClearStale
  <2> QED BY <1>2, <2>1, <2>4, <2>5 DEF Next, vars
<1> QED BY <1>1, <1>2, TypeCorrect, PTL DEF Spec

\* What a call finds is a block for everybody else: with the nonces whose hash
\* passes the workers' comparison as solutions, the nonce that mineBlockHashed
\* returns passes CheckProofOfWork, and when it returns none, no hash that a
\* worker has finished passed (mining.go:99-130, run.go:355-361).
THEOREM FoundBlocksMeetTarget ==
  ASSUME NEW compact \in Compacts, NEW hash \in [Nonces -> Digits],
         CompactToBig(compact) > 0, CompactToBig(compact) <= PowLimit,
         Solutions = {n \in Nonces : CheckHashTarget(hash[n], TargetFromBits(compact))}
  PROVE  Spec => [](/\ result.ok => CheckProofOfWork(hash[result.nonce], compact)
                    /\ Returned /\ ~result.ok
                         => \A n \in hashed : ~CheckProofOfWork(hash[n], compact))
<1> DEFINE Passes(n) == CheckProofOfWork(hash[n], compact)
<1>1. \A n \in Nonces : n \in Solutions <=> Passes(n)
  BY Agreement
<1> HIDE DEF Passes
<1>2. TypeOK /\ Tally /\ ResultSound /\ FoundNotLost
        => /\ result.ok => Passes(result.nonce)
           /\ Returned /\ ~result.ok => \A n \in hashed : ~Passes(n)
  BY <1>1 DEF TypeOK, Tally, ResultSound, FoundNotLost
<1> QED BY <1>2, TallyKept, ResultIsSound, FoundIsNeverLost, PTL DEF Passes
-----------------------------------------------------------------------------
(* Sizes and mantissas. *)

\* A shift by k and then by j bytes is one by k + j.
LEMMA WeightSplits == \A k, j \in Nat : Weight[k + j] = Weight[k] * Weight[j]
<1> SUFFICES ASSUME NEW k \in Nat PROVE \A j \in Nat : Weight[k + j] = Weight[k] * Weight[j]
  OBVIOUS
<1> DEFINE T == {j \in Nat : Weight[k + j] = Weight[k] * Weight[j]}
<1>1. 0 \in T
  BY WeightIs
<1>2. ASSUME NEW j \in T PROVE j + 1 \in T
  <2>1. k + (j + 1) = (k + j) + 1 /\ k + j \in Nat
    OBVIOUS
  <2>2. Weight[k + (j + 1)] = Base * (Weight[k] * Weight[j])
    BY <2>1, WeightIs
  <2>3. Weight[j + 1] = Base * Weight[j]
    BY WeightIs
  <2>4. Base \in Nat /\ Weight[k] \in Nat /\ Weight[j] \in Nat
    BY WeightIs, EncodingAssumption
  <2>5. \A a, b, c \in Nat : a * (b * c) = b * (a * c)
    OBVIOUS
  <2> QED BY <2>2, <2>3, <2>4, <2>5
<1>3. T = Nat
  <2>1. T \in SUBSET Nat
    OBVIOUS
  <2> HIDE DEF T
  <2> QED BY <1>1, <1>2, <2>1, AllNaturals
<1> QED BY <1>3

\* More digits weigh more.
LEMMA WeightGrows ==
  ASSUME NEW k \in Nat, NEW l \in Nat, k <= l
  PROVE  Weight[k] <= Weight[l]
<1>1. l - k \in Nat /\ k + (l - k) = l
  OBVIOUS
<1>2. Weight[l] = Weight[k] * Weight[l - k]
  BY <1>1, WeightSplits
<1>3. Weight[k] \in Nat /\ Weight[l - k] \in Nat \ {0}
  BY <1>1, WeightIs
<1>4. \A a \in Nat : \A b \in Nat \ {0} : a <= a * b
  <2> SUFFICES ASSUME NEW a \in Nat, NEW b \in Nat \ {0} PROVE a <= a * b
    OBVIOUS
  <2>1. a * b = a + a * (b - 1) /\ a * (b - 1) \in Nat
    OBVIOUS
  <2> QED BY <2>1
<1> QED BY <1>2, <1>3, <1>4

\* The sign bit is half of the third digit's weight, and a multiple of Base.
LEMMA SignIs ==
  /\ Weight[1] = Base /\ Weight[3] = Base * Weight[2] /\ Weight[3] = 2 * SignBit
  /\ SignBit \in Nat \ {0} /\ Weight[2] <= SignBit
  /\ \E half \in Nat : SignBit = half * Base /\ Weight[1] <= half
<1> DEFINE b == Base \div 2
<1>1. Base = 2 * b /\ b \in Nat \ {0} /\ Base \in Nat \ {0}
  BY EncodingAssumption
<1> HIDE DEF b
<1>2. Weight[0] = 1 /\ Weight[1] = Base * Weight[0] /\ Weight[2] = Base * Weight[1]
      /\ Weight[3] = Base * Weight[2]
  <2>1. /\ Weight[0 + 1] = Base * Weight[0] /\ Weight[1 + 1] = Base * Weight[1]
        /\ Weight[2 + 1] = Base * Weight[2]
    BY WeightIs
  <2> QED BY <2>1, WeightIs
<1>3. Weight[1] = Base /\ Weight[2] = Base * Base
  BY <1>1, <1>2
<1>4. /\ Weight[3] = 2 * (b * Weight[2])
      /\ b * Weight[2] = (b * Base) * Base
      /\ b * Weight[2] \in Nat
  BY <1>1, <1>2, <1>3
<1> DEFINE h == b * Weight[2]
<1>5. (2 * h + 0) \div 2 = h
  BY <1>4, QuotientIs
<1>6. SignBit = h
  BY <1>4, <1>5 DEF SignBit
<1>7. \A x \in Nat : x <= b * x
  BY <1>1
<1>8. Weight[2] \in Nat \ {0} /\ Weight[1] <= b * Base /\ Weight[2] <= b * Weight[2]
  BY <1>1, <1>3, <1>7, WeightIs
<1>9. b * Base \in Nat
  BY <1>1
<1> QED BY <1>1, <1>2, <1>3, <1>4, <1>6, <1>8, <1>9

\* The digits a number has.
LEMMA LenIs ==
  ASSUME NEW x \in Int, NEW k \in 1 .. MaxSize + 1,
         Weight[k - 1] <= Magnitude(x), Magnitude(x) < Weight[k]
  PROVE  Len3(x) = k
<1> DEFINE T == {i \in 0 .. MaxSize + 1 : Magnitude(x) < Weight[i]}
           m == Magnitude(x)
<1>0. MaxSize \in Nat
  BY EncodingAssumption
<1>1. k \in T /\ T \in SUBSET Nat
  BY <1>0
<1>2. \A i \in T : i >= k
  <2> SUFFICES ASSUME NEW i \in T, i < k PROVE FALSE
    BY <1>0
  <2>1. i \in Nat /\ k - 1 \in Nat /\ i <= k - 1
    BY <1>0
  <2>2. Weight[i] <= Weight[k - 1]
    BY <2>1, WeightGrows
  <2>3. Weight[i] \in Nat /\ Weight[k - 1] \in Nat /\ m \in Nat
    BY <2>1, WeightIs DEF Magnitude
  <2> HIDE DEF m
  <2>4. m < Weight[i] /\ Weight[k - 1] <= m
    BY DEF m
  <2> QED BY <2>2, <2>3, <2>4
<1>3. Len3(x) = Min(T)
  BY DEF Len3
<1> HIDE DEF T
<1>4. Min(T) \in T /\ Min(T) <= k /\ Min(T) >= k
  BY <1>1, <1>2, MinIsLeast
<1>5. Min(T) \in Nat
  BY <1>1, <1>4
<1> QED BY <1>3, <1>4, <1>5

\* A number within the limit has at most Width digits.
LEMMA LenBounds ==
  ASSUME NEW x \in -PowLimit .. PowLimit, x # 0
  PROVE  /\ Len3(x) \in 1 .. Width
         /\ Weight[Len3(x) - 1] <= Magnitude(x) /\ Magnitude(x) < Weight[Len3(x)]
<1> DEFINE T == {i \in 0 .. MaxSize + 1 : Magnitude(x) < Weight[i]}
           m == Magnitude(x)
<1>0. MaxSize \in Nat /\ Width \in Nat /\ Width < MaxSize
  BY EncodingAssumption
<1>1. m \in Nat /\ m >= 1 /\ m <= PowLimit
  BY LimitFits DEF Magnitude
<1> HIDE DEF m
<1>2. Width \in T /\ T \in SUBSET Nat
  <2>1. Weight[Width] \in Nat
    BY <1>0, WeightIs
  <2>2. m < Weight[Width]
    BY <1>1, <2>1, LimitFits
  <2> QED BY <1>0, <2>2 DEF m
<1>3. 0 \notin T
  BY <1>1, WeightIs DEF m
<1>4. Len3(x) = Min(T)
  BY DEF Len3
<1>5. \A i \in Nat : i \in T <=> i <= MaxSize + 1 /\ m < Weight[i]
  BY <1>0 DEF m
<1> HIDE DEF T
<1> DEFINE l == Min(T)
<1>6. l \in T /\ \A i \in T : l <= i
  BY <1>2, MinIsLeast
<1>7. l \in Nat /\ l # 0 /\ l <= Width
  BY <1>2, <1>3, <1>6
<1> HIDE DEF l
<1>8. l - 1 \in Nat /\ l - 1 \notin T
  BY <1>2, <1>6, <1>7
<1>9. Weight[l - 1] \in Nat /\ Weight[l - 1] <= m
  BY <1>0, <1>1, <1>5, <1>7, <1>8, WeightIs
<1>10. m < Weight[l]
  BY <1>5, <1>6, <1>7
<1> QED BY <1>0, <1>4, <1>7, <1>9, <1>10 DEF l, m

\* Size, sign and mantissa can be read from their sum.
LEMMA Unpacked ==
  ASSUME NEW size \in 0 .. MaxSize, NEW mant \in 0 .. SignBit - 1, NEW neg \in {0, 1},
         NEW c, c = size * Weight[3] + mant + neg * SignBit
  PROVE  /\ c \in Compacts /\ c \div Weight[3] = size
         /\ c % SignBit = mant /\ (c \div SignBit) % 2 = neg
<1> DEFINE w == Weight[3]
           h == SignBit
<1>0. w \in Nat \ {0} /\ h \in Nat \ {0} /\ w = 2 * h /\ MaxSize \in Nat
  BY SignIs, EncodingAssumption, WeightIs
<1>1. c = size * w + mant + neg * h /\ mant \in 0 .. h - 1
  OBVIOUS
<1>2. Compacts = 0 .. (MaxSize + 1) * w - 1
  BY DEF Compacts
<1> HIDE DEF w, h
<1>3. neg * h \in {0, h} /\ size * w \in Nat
  BY <1>0
<1>4. neg * h + mant \in 0 .. w - 1
  BY <1>0, <1>1, <1>3
<1>5. c = w * size + (neg * h + mant)
  BY <1>0, <1>1, <1>3
<1>6. c \div w = size
  <2>1. PICK r \in 0 .. w - 1 : c = w * size + r
    BY <1>4, <1>5
  <2>2. size \in Nat
    BY <1>0
  <2>3. (w * size + r) \div w = size
    BY <1>0, <2>2, QuotientIs
  <2> QED BY <2>1, <2>3
<1>7. c = h * (2 * size + neg) + mant
  BY <1>0, <1>1
<1>8. 2 * size + neg \in Nat
  BY <1>0
<1>9. c \div h = 2 * size + neg /\ c % h = mant
  <2>1. PICK q \in Nat : q = 2 * size + neg
    BY <1>8
  <2>2. (h * q + mant) \div h = q /\ (h * q + mant) % h = mant
    BY <1>0, <1>1, QuotientIs
  <2> QED BY <1>7, <2>1, <2>2
<1>10. (2 * size + neg) % 2 = neg
  BY <1>0, QuotientIs
<1>11. c \in 0 .. (MaxSize + 1) * w - 1
  <2>1. (size + 1) * w <= (MaxSize + 1) * w
    BY <1>0, Product
  <2>2. (size + 1) * w = size * w + w
    BY <1>0
  <2>3. (MaxSize + 1) * w \in Nat
    BY <1>0
  <2>4. c \in Nat /\ c <= size * w + (w - 1)
    BY <1>0, <1>1, <1>3, <1>4
  <2> QED BY <1>0, <1>3, <2>1, <2>2, <2>3, <2>4
<1> QED BY <1>2, <1>6, <1>9, <1>10, <1>11 DEF w, h

\* BigToCompact of a number m of l digits: its three first digits, and what
\* becomes of them when they reach the sign bit.
Word(m, l) == IF l <= 3 THEN m * Weight[3 - l] ELSE m \div Weight[l - 3]

Packs(m, l, size, mant) ==
  \/ Word(m, l) < SignBit /\ size = l /\ mant = Word(m, l)
  \/ Word(m, l) >= SignBit /\ size = l + 1 /\ mant = Word(m, l) \div Base

SignOf(n) == IF n < 0 THEN 1 ELSE 0

\* The three first digits are three digits.
LEMMA WordBounds ==
  ASSUME NEW l \in Nat, l > 0, NEW m \in Nat, Weight[l - 1] <= m, m < Weight[l]
  PROVE  Word(m, l) \in Nat /\ Weight[2] <= Word(m, l) /\ Word(m, l) < Weight[3]
<1>1. CASE l <= 3
  <2> DEFINE c == Weight[3 - l]
  <2>1. 3 - l \in Nat /\ l - 1 \in Nat /\ (l - 1) + (3 - l) = 2 /\ l + (3 - l) = 3
    BY <1>1
  <2>2. Weight[2] = Weight[l - 1] * c /\ Weight[3] = Weight[l] * c /\ c \in Nat \ {0}
    BY <2>1, WeightSplits, WeightIs
  <2>3. Weight[l - 1] \in Nat /\ Weight[l] \in Nat
    BY <2>1, WeightIs
  <2>4. Word(m, l) = m * c
    BY <1>1 DEF Word
  <2> HIDE DEF c
  <2>5. Weight[l - 1] * c <= m * c /\ m * c \in Nat
    BY <2>2, <2>3, Product
  <2>6. (m + 1) * c <= Weight[l] * c
    BY <2>2, <2>3, Product
  <2>7. (m + 1) * c = m * c + c /\ Weight[l] * c \in Nat /\ Weight[l - 1] * c \in Nat
    BY <2>2, <2>3
  <2> QED BY <2>2, <2>4, <2>5, <2>6, <2>7
<1>2. CASE l > 3
  <2> DEFINE c == Weight[l - 3]
  <2>1. l - 3 \in Nat /\ 2 + (l - 3) = l - 1 /\ 3 + (l - 3) = l
    BY <1>2
  <2>2. Weight[l - 1] = Weight[2] * c /\ Weight[l] = Weight[3] * c /\ c \in Nat \ {0}
    <3>1. Weight[2 + (l - 3)] = Weight[2] * c /\ Weight[3 + (l - 3)] = Weight[3] * c
      BY <2>1, WeightSplits
    <3> QED BY <2>1, <3>1, WeightIs
  <2>3. Weight[2] \in Nat /\ Weight[3] \in Nat
    BY WeightIs
  <2>4. Word(m, l) = m \div c
    BY <1>2 DEF Word
  <2> HIDE DEF c
  <2> QED BY <2>2, <2>3, <2>4, QuotientBetween
<1> QED BY <1>1, <1>2

\* The carried mantissa keeps two digits, the first of which is at least half
\* of Base.
LEMMA CarryBounds ==
  ASSUME NEW w \in Nat, SignBit <= w, w < Weight[3]
  PROVE  /\ w \div Base \in 1 .. SignBit - 1 /\ Weight[1] <= w \div Base
         /\ SignBit <= (w \div Base) * Base
         /\ (w \div Base) * Base <= w /\ w - (w \div Base) * Base < Base
<1>1. PICK half \in Nat : SignBit = half * Base /\ Weight[1] <= half
  BY SignIs
<1>2. Base \in Nat \ {0} /\ Weight[1] = Base
  BY EncodingAssumption, SignIs
<1>3. Weight[2] \in Nat /\ Weight[2] * Base = Base * Weight[2]
  BY <1>2, WeightIs
<1>4. w < Weight[2] * Base
  BY <1>3, SignIs
<1> DEFINE q == w \div Base
<1>5. q \in Nat /\ half <= q /\ q < Weight[2] /\ q * Base <= w /\ w - q * Base < Base
  BY <1>1, <1>2, <1>3, <1>4, QuotientBetween
<1> HIDE DEF q
<1>6. half * Base <= q * Base
  BY <1>2, <1>5, Product
<1>7. SignBit \in Nat /\ Weight[2] <= SignBit
  BY SignIs
<1>8. q \in 1 .. SignBit - 1 /\ Weight[1] <= q
  BY <1>1, <1>2, <1>3, <1>5, <1>7
<1> QED BY <1>1, <1>5, <1>6, <1>8 DEF q

\* What is packed, what it is worth, and that packing what it is worth gives
\* the same.
LEMMA Packing ==
  ASSUME NEW l \in Nat, l > 0, NEW m \in Nat, Weight[l - 1] <= m, m < Weight[l]
  PROVE  \E size \in l .. l + 1, mant \in 1 .. SignBit - 1 :
           /\ Packs(m, l, size, mant)
           /\ size <= 3 => mant \div Weight[3 - size] = m
           /\ size > 3 => LET p == mant * Weight[size - 3]
                          IN  /\ p \in Nat /\ p <= m /\ m - p < Weight[size - 3]
                              /\ Weight[l - 1] <= p /\ Packs(p, l, size, mant)
<1> DEFINE w == Word(m, l)
<1>0. /\ Base \in Nat \ {0} /\ SignBit \in Nat \ {0} /\ Weight[2] \in Nat \ {0}
      /\ Weight[3] \in Nat
  BY EncodingAssumption, SignIs, WeightIs
<1>1. w \in Nat /\ Weight[2] <= w /\ w < Weight[3]
  BY WordBounds
<1>2. CASE w < SignBit
  <2>1. w \in 1 .. SignBit - 1
    BY <1>0, <1>1, <1>2
  <2>2. Packs(m, l, l, w)
    BY <1>2 DEF Packs
  <2>3. CASE l <= 3
    <3>1. 3 - l \in Nat /\ w = m * Weight[3 - l]
      BY <2>3 DEF Word
    <3>2. w \div Weight[3 - l] = m
      BY <3>1, WeightIs, QuotientOfProduct
    <3> QED BY <2>1, <2>2, <2>3, <3>2
  <2>4. CASE l > 3
    <3> DEFINE c == Weight[l - 3]
               p == w * c
    <3>1. l - 3 \in Nat /\ 2 + (l - 3) = l - 1 /\ 3 + (l - 3) = l
      BY <2>4
    <3>2. Weight[l - 1] = Weight[2] * c /\ Weight[l] = Weight[3] * c /\ c \in Nat \ {0}
      <4>1. Weight[2 + (l - 3)] = Weight[2] * c /\ Weight[3 + (l - 3)] = Weight[3] * c
        BY <3>1, WeightSplits
      <4> QED BY <3>1, <4>1, WeightIs
    <3>3. w = m \div c
      BY <2>4 DEF Word
    <3>4. \A x : Word(x, l) = x \div c
      BY <2>4 DEF Word
    <3> HIDE DEF w, c
    <3>5. p <= m /\ m - p < c
      BY <1>0, <3>2, <3>3, QuotientBetween
    <3>6. Weight[2] * c <= p /\ p \in Nat
      BY <1>0, <1>1, <3>2, Product
    <3>7. p \div c = w
      BY <1>1, <3>2, QuotientOfProduct
    <3>8. Packs(p, l, l, w)
      BY <1>2, <3>4, <3>7 DEF Packs
    <3> HIDE DEF p
    <3>9. /\ l > 3 /\ p = w * c /\ p \in Nat /\ p <= m /\ m - p < c
          /\ Weight[l - 1] <= p /\ Packs(p, l, l, w)
      BY <2>4, <3>2, <3>5, <3>6, <3>8 DEF p
    <3> QED BY <2>1, <2>2, <3>9 DEF c, w
  <2> QED BY <2>3, <2>4
<1>3. CASE w >= SignBit
  <2> DEFINE mant == w \div Base
  <2>1. /\ mant \in 1 .. SignBit - 1 /\ Weight[1] <= mant /\ SignBit <= mant * Base
        /\ mant * Base <= w /\ w - mant * Base < Base
    BY <1>1, <1>3, CarryBounds
  <2>2. Packs(m, l, l + 1, mant)
    BY <1>3 DEF Packs
  <2>3. mant \in Nat /\ (mant * Base) \div Base = mant
    <3> HIDE DEF mant
    <3> QED BY <1>0, <2>1, QuotientOfProduct
  <2>4. CASE l < 3
    <3> DEFINE c == Weight[2 - l]
    <3>1. 2 - l \in Nat /\ 3 - l = (2 - l) + 1 /\ 3 - (l + 1) = 2 - l
      BY <2>4
    <3>2. Weight[3 - l] = Base * c /\ c \in Nat \ {0}
      BY <3>1, WeightIs
    <3>3. w = m * Weight[3 - l]
      BY <2>4 DEF Word
    <3> HIDE DEF w, c
    <3>4. w = (m * c) * Base /\ m * c \in Nat
      BY <1>0, <3>2, <3>3
    <3>5. mant = m * c
      BY <1>0, <3>4, QuotientOfProduct
    <3>6. mant \div c = m
      BY <3>2, <3>5, QuotientOfProduct
    <3> HIDE DEF mant
    <3>7. mant \div Weight[3 - (l + 1)] = m /\ l + 1 <= 3
      BY <2>4, <3>1, <3>6 DEF c
    <3> QED BY <2>1, <2>2, <3>7
  <2>5. CASE l = 3
    <3> DEFINE p == mant * Weight[1]
    <3>1. Weight[1] = Base /\ Weight[0] = 1 /\ Weight[2] <= SignBit
      BY SignIs, WeightIs
    <3>2. \A x : Word(x, l) = x * Weight[3 - 3]
      BY <2>5 DEF Word
    <3>3. \A x \in Nat : Word(x, l) = x
      BY <3>1, <3>2
    <3>4. w = m
      BY <3>3
    <3> HIDE DEF w, mant
    <3>5. p \in Nat /\ p = mant * Base
      BY <1>0, <2>3, <3>1
    <3>6. p <= m /\ m - p < Weight[1] /\ Weight[2] <= p
      BY <1>0, <2>1, <3>1, <3>4, <3>5
    <3>7. Packs(p, l, l + 1, mant)
      BY <2>1, <2>3, <3>3, <3>5 DEF Packs
    <3> HIDE DEF p
    <3>8. p = mant * Weight[(l + 1) - 3] /\ m - p < Weight[(l + 1) - 3] /\ Weight[l - 1] <= p
      BY <2>5, <3>6 DEF p
    <3>9. l + 1 > 3
      BY <2>5
    <3> QED BY <2>1, <2>2, <3>5, <3>6, <3>7, <3>8, <3>9
  <2>6. CASE l > 3
    <3> DEFINE c == Weight[l - 3]
               d == Weight[l - 2]
               p == mant * d
    <3>1. /\ l - 3 \in Nat /\ l - 2 = (l - 3) + 1 /\ l - 2 \in Nat /\ 1 + (l - 2) = l - 1
          /\ 2 + (l - 2) = l /\ (l + 1) - 3 = l - 2
      BY <2>6
    <3>2. /\ d = Base * c /\ c \in Nat \ {0} /\ d \in Nat \ {0}
          /\ Weight[l - 1] = Weight[1] * d /\ Weight[l] = Weight[2] * d
      <4>1. Weight[1 + (l - 2)] = Weight[1] * d /\ Weight[2 + (l - 2)] = Weight[2] * d
        BY <3>1, WeightSplits
      <4>2. d = Base * c
        BY <3>1, WeightIs
      <4> QED BY <3>1, <4>1, <4>2, WeightIs
    <3>3. \A x : Word(x, l) = x \div c
      BY <2>6 DEF Word
    <3>4. w = m \div c
      BY <3>3
    <3> HIDE DEF w, c, d
    <3>5. mant = m \div d
      BY <1>0, <3>2, <3>4, NestedQuotient
    <3> HIDE DEF mant
    <3>6. Weight[1] \in Nat
      BY WeightIs
    <3>7. p <= m /\ m - p < d
      <4>1. Weight[1] * d <= m /\ m < Weight[2] * d
        BY <3>2
      <4>2. (m \div d) * d <= m /\ m - (m \div d) * d < d
        BY <1>0, <3>2, <3>6, <4>1, QuotientBetween
      <4> QED BY <3>5, <4>2
    <3>8. p \in Nat /\ Weight[1] * d <= p
      BY <2>1, <2>3, <3>2, <3>6, Product
    <3>9. p = (mant * Base) * c /\ mant * Base \in Nat
      BY <1>0, <2>3, <3>2
    <3> HIDE DEF p
    <3>10. p \div c = mant * Base
      BY <3>2, <3>9, QuotientOfProduct
    <3>11. Packs(p, l, l + 1, mant)
      BY <2>1, <2>3, <3>3, <3>10 DEF Packs
    <3>12. /\ l + 1 > 3 /\ p = mant * Weight[(l + 1) - 3] /\ m - p < Weight[(l + 1) - 3]
           /\ Weight[l - 1] <= p
      BY <2>6, <3>1, <3>2, <3>7, <3>8 DEF p, d
    <3> QED BY <2>1, <2>2, <3>7, <3>8, <3>11, <3>12
  <2> QED BY <2>4, <2>5, <2>6
<1> QED BY <1>0, <1>1, <1>2, <1>3

\* BigToCompact of a number that is not zero.
LEMMA EncodingIs ==
  ASSUME NEW n \in Int, n # 0, NEW l \in 1 .. Width, Len3(n) = l,
         NEW size \in l .. l + 1, NEW mant \in 1 .. SignBit - 1,
         Packs(Magnitude(n), l, size, mant)
  PROVE  BigToCompact(n) = size * Weight[3] + mant + SignOf(n) * SignBit
<1> DEFINE w == Word(Magnitude(n), l)
           carry == w >= SignBit
           m == IF carry THEN w \div Base ELSE w
           s == IF carry THEN l + 1 ELSE l
<1>1. BigToCompact(n) = s * Weight[3] + m + (IF n < 0 /\ m # 0 THEN SignBit ELSE 0)
  BY DEF BigToCompact, Word
<1>2. s = size /\ m = mant
  <2>1. CASE w < SignBit /\ size = l /\ mant = w
    <3>1. ~carry
      BY <2>1, SignIs
    <3> QED BY <2>1, <3>1
  <2>2. CASE w >= SignBit /\ size = l + 1 /\ mant = w \div Base
    BY <2>2
  <2> QED BY <2>1, <2>2 DEF Packs
<1> HIDE DEF m, s
<1>3. (IF n < 0 /\ m # 0 THEN SignBit ELSE 0) = SignOf(n) * SignBit
  BY <1>2, SignIs DEF SignOf
<1> QED BY <1>1, <1>2, <1>3

\* CompactToBig of what BigToCompact has put together.
LEMMA DecodingIs ==
  ASSUME NEW size \in 0 .. MaxSize, NEW mant \in 0 .. SignBit - 1, NEW neg \in {0, 1},
         NEW c, c = size * Weight[3] + mant + neg * SignBit,
         NEW value, value = IF size <= 3 THEN mant \div Weight[3 - size]
                                         ELSE mant * Weight[size - 3]
  PROVE  CompactToBig(c) = IF neg = 1 THEN -value ELSE value
<1>1. c \div Weight[3] = size /\ c % SignBit = mant /\ (c \div SignBit) % 2 = neg
  BY Unpacked
<1> QED BY <1>1 DEF CompactToBig

\* Zero has no digits.
LEMMA ZeroRoundTrip == BigToCompact(0) = 0 /\ CompactToBig(0) = 0
<1>1. BigToCompact(0) = 0
  BY DEF BigToCompact
<1>2. MaxSize \in Nat /\ SignBit \in Nat \ {0} /\ Weight[3] \in Nat \ {0}
  BY EncodingAssumption, SignIs, WeightIs
<1>3. 0 = 0 * Weight[3] + 0 + 0 * SignBit
  BY <1>2
<1>4. 0 \div Weight[3 - 0] = 0
  BY <1>2, QuotientOfLess
<1>5. CompactToBig(0) = 0
  BY <1>2, <1>3, <1>4, DecodingIs
<1> QED BY <1>1, <1>5

\* One number encoded, decoded and encoded again.
LEMMA EncodingRounds ==
  ASSUME NEW n \in -PowLimit .. PowLimit
  PROVE  LET compact == BigToCompact(n)
             back    == CompactToBig(compact)
             size    == compact \div Weight[3]
         IN  /\ compact \in Compacts
             /\ Magnitude(back) <= Magnitude(n)
             /\ Magnitude(n) - Magnitude(back) < Weight[IF size <= 3 THEN 0 ELSE size - 3]
             /\ n # 0 => (back < 0 <=> n < 0)
             /\ BigToCompact(back) = compact
<1> DEFINE compact == BigToCompact(n)
           back == CompactToBig(compact)
           m == Magnitude(n)
<1>0. /\ MaxSize \in Nat /\ Width \in Nat /\ Width < MaxSize /\ PowLimit \in Nat
      /\ SignBit \in Nat \ {0} /\ Weight[3] \in Nat \ {0} /\ Weight[0] = 1
  BY EncodingAssumption, LimitFits, SignIs, WeightIs
<1>1. n \in Int /\ m \in Nat /\ (n # 0 => m > 0)
  BY <1>0 DEF Magnitude
<1>2. CASE n = 0
  <2>1. compact = 0 /\ back = 0
    BY <1>2, ZeroRoundTrip
  <2>2. 0 \div Weight[3] = 0 /\ 0 \in Compacts
    <3>1. (MaxSize + 1) * Weight[3] \in Nat \ {0}
      BY <1>0
    <3> QED BY <1>0, <3>1, QuotientOfLess DEF Compacts
  <2> HIDE DEF compact, back
  <2>3. Magnitude(back) = 0 /\ Magnitude(n) = 0
    BY <1>2, <2>1 DEF Magnitude
  <2>4. BigToCompact(back) = compact
    BY <2>1, ZeroRoundTrip
  <2> QED BY <1>0, <1>2, <2>1, <2>2, <2>3, <2>4 DEF compact, back
<1>3. CASE n # 0
  <2> DEFINE l == Len3(n)
             neg == SignOf(n)
  <2>1. l \in 1 .. Width /\ Weight[l - 1] <= m /\ m < Weight[l]
    BY <1>3, LenBounds
  <2>2. l \in Nat /\ l > 0 /\ l + 1 <= MaxSize /\ l - 1 \in Nat /\ neg \in {0, 1}
        /\ l \in 1 .. MaxSize + 1
    BY <1>0, <2>1 DEF SignOf
  <2> HIDE DEF l, m
  <2>3. PICK size \in l .. l + 1, mant \in 1 .. SignBit - 1 :
           /\ Packs(m, l, size, mant)
           /\ size <= 3 => mant \div Weight[3 - size] = m
           /\ size > 3 => LET p == mant * Weight[size - 3]
                          IN  /\ p \in Nat /\ p <= m /\ m - p < Weight[size - 3]
                              /\ Weight[l - 1] <= p /\ Packs(p, l, size, mant)
    BY <1>1, <2>1, <2>2, Packing
  <2>4. compact = size * Weight[3] + mant + neg * SignBit
    BY <1>1, <1>3, <2>1, <2>3, EncodingIs DEF l, m
  <2>5. size \in 0 .. MaxSize /\ mant \in 0 .. SignBit - 1
    BY <1>0, <2>2
  <2> DEFINE value == IF size <= 3 THEN mant \div Weight[3 - size] ELSE mant * Weight[size - 3]
  <2> HIDE DEF compact, neg
  <2>6. compact \in Compacts /\ compact \div Weight[3] = size
    BY <2>2, <2>4, <2>5, Unpacked
  <2>7. back = IF neg = 1 THEN -value ELSE value
    BY <2>2, <2>4, <2>5, DecodingIs
  <2>8. value \in Nat /\ value > 0 /\ value <= m
        /\ m - value < Weight[IF size <= 3 THEN 0 ELSE size - 3]
        /\ Weight[l - 1] <= value
        /\ Packs(value, l, size, mant)
    <3>1. CASE size <= 3
      <4>1. value = m
        BY <2>3, <3>1
      <4> HIDE DEF value
      <4>2. m - value = 0
        BY <1>1, <4>1
      <4> QED BY <1>0, <1>1, <1>3, <2>1, <2>3, <3>1, <4>1, <4>2
    <3>2. CASE size > 3
      <4>1. ~(size <= 3)
        BY <2>2, <3>2
      <4>2. /\ value \in Nat /\ value <= m /\ m - value < Weight[size - 3]
            /\ Weight[l - 1] <= value /\ Packs(value, l, size, mant)
        BY <2>3, <3>2, <4>1
      <4>3. Weight[l - 1] \in Nat \ {0}
        BY <2>2, WeightIs
      <4> HIDE DEF value
      <4> QED BY <4>1, <4>2, <4>3
    <3> QED BY <2>2, <3>1, <3>2
  <2> HIDE DEF value, back
  <2>9. /\ back \in Int /\ back # 0 /\ Magnitude(back) = value /\ SignOf(back) = neg
        /\ (back < 0 <=> n < 0)
    BY <1>1, <2>7, <2>8 DEF Magnitude, SignOf, neg
  <2>10. Len3(back) = l
    <3>1. value < Weight[l]
      BY <1>1, <2>1, <2>2, <2>8, WeightIs
    <3> QED BY <2>2, <2>8, <2>9, <3>1, LenIs
  <2>11. BigToCompact(back) = size * Weight[3] + mant + neg * SignBit
    BY <2>1, <2>8, <2>9, <2>10, EncodingIs
  <2> QED BY <2>4, <2>6, <2>8, <2>9, <2>11 DEF compact, back, m
<1> QED BY <1>2, <1>3

\* Encoding a target rounds it towards zero by less than the last digit kept,
\* keeps its sign, and is stable: for any base, width and size of targets
\* (BigToCompact, CompactToBig, target.go:24-66).
THEOREM EncodingRoundsDown == RoundTrip
BY EncodingRounds DEF RoundTrip

-----------------------------------------------------------------------------
(* The retarget rule. *)

\* A step of the running average stays between the average and the target.
LEMMA MeanBetween ==
  ASSUME NEW lo \in Nat, NEW hi \in Nat, NEW a \in lo .. hi, NEW t \in lo .. hi,
         NEW k \in Nat \ {0}
  PROVE  a + (t - a) \div k \in lo .. hi
<1> DEFINE x == t - a
           q == x \div k
<1>1. q \in Int /\ x \in Int /\ k * q <= x /\ x < k * q + k
  BY Floor
<1>2. a \in Int /\ t \in Int /\ lo <= a /\ a <= hi /\ lo <= t /\ t <= hi /\ a + x = t
  OBVIOUS
<1> HIDE DEF q, x
<1>3. CASE x >= 0
  <2>1. q >= 0
    <3> SUFFICES ASSUME q < 0 PROVE FALSE
      BY <1>1
    <3>1. k * (-1 - q) >= 0
      BY <1>1
    <3>2. k * (-1 - q) = -k - k * q
      BY <1>1
    <3> QED BY <1>1, <1>3, <3>1, <3>2
  <2>2. q <= k * q
    <3>1. (k - 1) * q >= 0
      BY <1>1, <2>1
    <3>2. (k - 1) * q = k * q - q
      BY <1>1
    <3> QED BY <1>1, <3>1, <3>2
  <2>3. k * q \in Int
    BY <1>1
  <2> QED BY <1>1, <1>2, <2>1, <2>2, <2>3 DEF q, x
<1>4. CASE x < 0
  <2>1. q < 0
    <3> SUFFICES ASSUME q >= 0 PROVE FALSE
      BY <1>1
    <3>1. k * q >= 0
      BY <1>1
    <3> QED BY <1>1, <1>4, <3>1
  <2>2. q >= x
    <3> SUFFICES ASSUME q < x PROVE FALSE
      BY <1>1
    <3>1. k * (x - 1 - q) >= 0 /\ (k - 1) * (-x) >= 0
      BY <1>1, <1>4
    <3>2. k * (x - 1 - q) = k * x - k - k * q /\ (k - 1) * (-x) = x - k * x
      BY <1>1
    <3>3. k * x \in Int /\ k * q \in Int
      BY <1>1
    <3> QED BY <1>1, <3>1, <3>2, <3>3
  <2> QED BY <1>1, <1>2, <2>1, <2>2 DEF q, x
<1> QED BY <1>1, <1>3, <1>4

\* A past target is one that CheckProofOfWork takes, or the limit.
LEMMA PastTargetIs ==
  ASSUME NEW block, block.bits \in Compacts
  PROVE  PastTarget(block, PowLimit) \in 1 .. PowLimit \/ PastTarget(block, PowLimit) = PowLimit
<1>1. CompactToBig(block.bits) \in Int /\ PowLimit \in Nat
  BY TargetIsInteger, LimitFits
<1> QED BY <1>1 DEF PastTarget

\* The running average lies between what it averages.
LEMMA AverageBetween ==
  ASSUME NEW recent, NEW limit, NEW lo \in Nat, NEW hi \in Nat,
         \A i \in 1 .. PastBlocks : PastTarget(recent[i], limit) \in lo .. hi
  PROVE  Average(recent, limit) \in lo .. hi
<1> DEFINE past == [i \in 1 .. PastBlocks |-> PastTarget(recent[i], limit)]
           step == [k \in Nat |-> [v \in Int |->
                      IF k < PastBlocks THEN v + (past[k + 1] - v) \div (k + 1) ELSE 0]]
           body(b) == [count \in 0 .. PastBlocks |->
                         IF count = 0 THEN 0
                         ELSE b[count - 1]
                                + (PastTarget(recent[count], limit) - b[count - 1]) \div count]
           avg == CHOOSE b : b = body(b)
<1>0. PastBlocks \in Nat \ {0}
  BY EncodingAssumption
<1>1. \A i \in 1 .. PastBlocks : past[i] \in lo .. hi /\ past[i] = PastTarget(recent[i], limit)
  OBVIOUS
<1> HIDE DEF past
<1>2. step \in [Nat -> [Int -> Int]]
  <2> SUFFICES ASSUME NEW k \in Nat, NEW v \in Int, k < PastBlocks
               PROVE  v + (past[k + 1] - v) \div (k + 1) \in Int
    OBVIOUS
  <2>1. past[k + 1] - v \in Int /\ k + 1 \in Nat \ {0}
    BY <1>0, <1>1
  <2>2. (past[k + 1] - v) \div (k + 1) \in Int
    <3> DEFINE x == past[k + 1] - v
               n == k + 1
    <3>1. x \in Int /\ n \in Nat \ {0}
      BY <2>1
    <3> HIDE DEF x, n
    <3>2. x \div n \in Int
      BY <3>1, Floor
    <3> QED BY <3>2 DEF x, n
  <2> QED BY <2>2
<1>3. PICK f \in [Nat -> Int] : Follows(f, 0, step)
  <2>1. 0 \in Int
    OBVIOUS
  <2> HIDE DEF step
  <2> QED BY <1>2, <2>1, RecursiveFunction
<1>4. f[0] = 0 /\ \A k \in 0 .. PastBlocks - 1 :
                    f[k + 1] = f[k] + (past[k + 1] - f[k]) \div (k + 1)
  <2>1. f[0] = 0 /\ \A k \in Nat : f[k + 1] = step[k][f[k]]
    BY <1>3 DEF Follows
  <2> SUFFICES ASSUME NEW k \in 0 .. PastBlocks - 1
               PROVE  f[k + 1] = f[k] + (past[k + 1] - f[k]) \div (k + 1)
    BY <2>1
  <2>2. k \in Nat /\ k < PastBlocks /\ f[k] \in Int
    BY <1>0
  <2> QED BY <2>1, <2>2
<1> HIDE DEF step
<1> DEFINE g == [k \in 0 .. PastBlocks |-> f[k]]
<1>5. g = body(g)
  <2>1. ASSUME NEW k \in 0 .. PastBlocks, k # 0
        PROVE  g[k] = g[k - 1] + (PastTarget(recent[k], limit) - g[k - 1]) \div k
    <3>1. k - 1 \in 0 .. PastBlocks - 1 /\ (k - 1) + 1 = k /\ k - 1 \in 0 .. PastBlocks
          /\ k \in 1 .. PastBlocks
      BY <1>0, <2>1
    <3>2. f[(k - 1) + 1] = f[k - 1] + (past[(k - 1) + 1] - f[k - 1]) \div ((k - 1) + 1)
      BY <1>4, <3>1
    <3>3. f[k] = f[k - 1] + (past[k] - f[k - 1]) \div k
      BY <3>1, <3>2
    <3>4. g[k] = f[k] /\ g[k - 1] = f[k - 1] /\ past[k] = PastTarget(recent[k], limit)
      BY <1>1, <3>1
    <3> QED BY <3>3, <3>4
  <2>2. g[0] = 0 /\ 0 \in 0 .. PastBlocks
    BY <1>0, <1>4
  <2> HIDE DEF g
  <2>3. \A k \in 0 .. PastBlocks : g[k] = body(g)[k]
    BY <2>1, <2>2
  <2>4. g = [k \in 0 .. PastBlocks |-> g[k]]
    BY DEF g
  <2>5. body(g) = [k \in 0 .. PastBlocks |-> body(g)[k]]
    OBVIOUS
  <2> QED BY <2>3, <2>4, <2>5
<1>6. avg = body(avg)
  <2> HIDE DEF body, g
  <2> QED BY <1>5
<1>7. Average(recent, limit) = avg[PastBlocks]
  BY DEF Average
<1> HIDE DEF avg
<1>8. avg[0] = 0
  BY <1>0, <1>6
<1>9. \A k \in 0 .. PastBlocks - 1 :
        avg[k + 1] = avg[k] + (past[k + 1] - avg[k]) \div (k + 1)
  <2> SUFFICES ASSUME NEW k \in 0 .. PastBlocks - 1
               PROVE  avg[k + 1] = avg[k] + (past[k + 1] - avg[k]) \div (k + 1)
    OBVIOUS
  <2>1. /\ k + 1 \in 0 .. PastBlocks /\ k + 1 # 0 /\ (k + 1) - 1 = k
        /\ k + 1 \in 1 .. PastBlocks
    BY <1>0
  <2>2. avg[k + 1] = body(avg)[k + 1]
    BY <1>6
  <2> DEFINE n == k + 1
  <2>3. body(avg)[n] = avg[n - 1] + (PastTarget(recent[n], limit) - avg[n - 1]) \div n
    <3> HIDE DEF n
    <3>1. n \in 0 .. PastBlocks /\ n # 0
      BY <2>1 DEF n
    <3> QED BY <3>1
  <2>4. past[n] = PastTarget(recent[n], limit)
    BY <1>1, <2>1
  <2> HIDE DEF body
  <2> QED BY <2>1, <2>2, <2>3, <2>4
<1> HIDE DEF body
<1> DEFINE T == {k \in Nat : k < PastBlocks => avg[k + 1] \in lo .. hi}
<1>10. 0 \in T
  <2>1. 0 \in 0 .. PastBlocks - 1 /\ past[0 + 1] \in lo .. hi
    BY <1>0, <1>1
  <2>2. avg[0 + 1] = 0 + (past[0 + 1] - 0) \div (0 + 1)
    BY <1>8, <1>9, <2>1
  <2>3. \A x \in Nat : 0 + (x - 0) \div (0 + 1) = x
    OBVIOUS
  <2> QED BY <2>1, <2>2, <2>3
<1>11. ASSUME NEW k \in T PROVE k + 1 \in T
  <2> SUFFICES ASSUME k + 1 < PastBlocks PROVE avg[(k + 1) + 1] \in lo .. hi
    OBVIOUS
  <2>1. k + 1 \in 0 .. PastBlocks - 1 /\ avg[k + 1] \in lo .. hi /\ (k + 1) + 1 \in Nat \ {0}
        /\ past[(k + 1) + 1] \in lo .. hi
    BY <1>0, <1>1
  <2>2. avg[(k + 1) + 1] = avg[k + 1] + (past[(k + 1) + 1] - avg[k + 1]) \div ((k + 1) + 1)
    BY <1>9, <2>1
  <2> QED BY <2>1, <2>2, MeanBetween
<1>12. T = Nat
  <2>1. T \in SUBSET Nat
    OBVIOUS
  <2> HIDE DEF T
  <2> QED BY <1>10, <1>11, <2>1, AllNaturals
<1> HIDE DEF T
<1>13. PastBlocks - 1 \in T /\ (PastBlocks - 1) + 1 = PastBlocks /\ PastBlocks - 1 < PastBlocks
  BY <1>0, <1>12
<1> QED BY <1>7, <1>13 DEF T

\* What the retarget rule encodes, before it is encoded.
LEMMA NextBetween ==
  ASSUME NEW A \in Nat, NEW span \in Int, NEW third \in Nat \ {0},
         NEW raw, raw = (A * Clamped(span, 3 * third)) \div (3 * third)
  PROVE  raw \in Nat /\ raw <= 3 * A /\ A < 3 * (raw + 1)
<1> DEFINE actual == Clamped(span, 3 * third)
           b == 3 * third
           m == A * actual
<1>1. b \in Nat \ {0} /\ b \div 3 = third /\ b * 3 = 9 * third
  BY QuotientIs
<1>2. actual \in Nat /\ third <= actual /\ actual <= 9 * third
  BY <1>1 DEF Clamped
<1> HIDE DEF actual
<1>3. third * A <= actual * A /\ actual * A <= (9 * third) * A
  BY <1>2, Product
<1>4. /\ m \in Nat /\ third * A <= m /\ m <= (3 * A) * b
      /\ (3 * A + 1) * b = (3 * A) * b + b /\ 0 * b = 0
      /\ (3 * A) * b \in Nat
  BY <1>1, <1>2, <1>3
<1>5. 0 * b <= m /\ m < (3 * A + 1) * b /\ 3 * A + 1 \in Nat
  BY <1>1, <1>4
<1>6. raw = m \div b
  BY DEF actual
<1> HIDE DEF m, b
<1>7. raw \in Nat /\ raw < 3 * A + 1 /\ m - raw * b < b
  <2>1. PICK a \in Nat, c \in Nat : a = 0 /\ c = 3 * A + 1 /\ a * b <= m /\ m < c * b
    BY <1>5
  <2>2. m \div b \in Nat /\ m \div b < c /\ m - (m \div b) * b < b
    BY <1>1, <1>4, <2>1, QuotientBetween
  <2> QED BY <1>6, <2>1, <2>2
<1>8. m < (3 * (raw + 1)) * third
  <2>1. (3 * (raw + 1)) * third = raw * b + b
    BY <1>7 DEF b
  <2>2. raw * b \in Nat
    BY <1>1, <1>7
  <2> QED BY <1>1, <1>4, <1>7, <2>1, <2>2
<1>9. A < 3 * (raw + 1)
  <2> SUFFICES ASSUME 3 * (raw + 1) <= A PROVE FALSE
    BY <1>7
  <2>1. (3 * (raw + 1)) * third <= A * third
    BY <1>7, Product
  <2>2. A * third = third * A /\ third * A \in Nat /\ (3 * (raw + 1)) * third \in Nat
    BY <1>7
  <2> QED BY <1>4, <1>8, <2>1, <2>2
<1> QED BY <1>7, <1>9

\* Whatever the blocks before say, the next target (DarkGravityWaveV3,
\* target.go:68-105) is in range, at most three times the easiest target seen,
\* and at least a third of the hardest, but for what rounding takes: for any
\* number of blocks whose time span is a multiple of three (24 blocks are), any
\* times, any bits, and any base, width and size of targets.  It is a target if
\* none of those seen is below three.
THEOREM RetargetKeepsBounds ==
  ASSUME NEW recent, NEW spacing \in Nat \ {0}, NEW limitBits,
         Len(recent) \in Nat, Len(recent) >= PastBlocks,
         \A i \in 1 .. PastBlocks : recent[i].time \in Nat /\ recent[i].bits \in Compacts,
         NEW third \in Nat, PastBlocks * spacing = 3 * third,
         NEW lo \in Nat, NEW hi \in Nat,
         \A i \in 1 .. PastBlocks : PastTarget(recent[i], PowLimit) \in lo .. hi
  PROVE  LET compact == DarkGravityWaveV3(recent, spacing, PowLimit, limitBits)
             next    == CompactToBig(compact)
             size    == compact \div Weight[3]
             unit    == Weight[IF size <= 3 THEN 0 ELSE size - 3]
         IN  /\ compact \in Compacts
             /\ next >= 0 /\ next <= PowLimit /\ next <= 3 * hi
             /\ 3 * (next + unit + 1) >= lo
             /\ lo >= 3 => next > 0
<1> DEFINE A == Average(recent, PowLimit)
           span == recent[1].time - recent[PastBlocks].time
           raw == (A * Clamped(span, 3 * third)) \div (3 * third)
           n == IF raw > PowLimit THEN PowLimit ELSE raw
           compact == DarkGravityWaveV3(recent, spacing, PowLimit, limitBits)
           next == CompactToBig(compact)
           size == compact \div Weight[3]
           unit == Weight[IF size <= 3 THEN 0 ELSE size - 3]
<1>0. PastBlocks \in Nat \ {0} /\ PowLimit \in Nat
  BY EncodingAssumption, LimitFits
<1>1. A \in lo .. hi
  BY <1>0, AverageBetween
<1>2. 1 \in 1 .. PastBlocks /\ PastBlocks \in 1 .. PastBlocks
  BY <1>0
<1>3. span \in Int
  BY <1>2
<1>4. third \in Nat \ {0}
  <2>1. PastBlocks * spacing > 0
    BY <1>0
  <2> QED BY <2>1
<1>5. lo <= PowLimit
  <2>1. PastTarget(recent[1], PowLimit) \in lo .. hi /\ recent[1].bits \in Compacts
    BY <1>2
  <2>2. PastTarget(recent[1], PowLimit) <= PowLimit
    BY <1>0, <1>2, PastTargetIs
  <2> QED BY <1>0, <2>1, <2>2
<1>6. compact = BigToCompact(n)
  <2>1. ~(Len(recent) < PastBlocks \/ spacing <= 0)
    BY <1>0
  <2> QED BY <2>1 DEF DarkGravityWaveV3
<1> HIDE DEF A, span
<1>7. A \in Nat
  BY <1>1
<1> HIDE DEF raw
<1>8. raw \in Nat /\ raw <= 3 * A /\ A < 3 * (raw + 1)
  BY <1>3, <1>4, <1>7, NextBetween DEF raw
<1>9. /\ n \in 0 .. PowLimit /\ n <= 3 * hi /\ lo < 3 * (n + 1)
      /\ lo >= 3 => n > 0
  BY <1>0, <1>1, <1>5, <1>8
<1> HIDE DEF n, compact
<1>10. n \in -PowLimit .. PowLimit
  BY <1>0, <1>9
<1>11. /\ compact \in Compacts
       /\ Magnitude(next) <= Magnitude(n)
       /\ Magnitude(n) - Magnitude(next) < unit
       /\ n # 0 => (next < 0 <=> n < 0)
       /\ BigToCompact(next) = compact
  BY <1>6, <1>10, EncodingRounds
<1>12. next \in Int
  BY <1>11, TargetIsInteger
<1>13. ASSUME n = 0
       PROVE  /\ next >= 0 /\ next <= PowLimit /\ next <= 3 * hi
              /\ 3 * (next + unit + 1) >= lo /\ (lo >= 3 => next > 0)
  <2>1. next = 0
    BY <1>6, <1>13, ZeroRoundTrip
  <2>2. compact = 0
    BY <1>6, <1>13, ZeroRoundTrip
  <2>3. Weight[3] \in Nat \ {0} /\ Weight[0] = 1
    BY WeightIs
  <2>4. unit = 1
    <3>1. size = 0
      <4>1. 0 \div Weight[3] = 0
        BY <2>3, QuotientOfLess
      <4> QED BY <2>2, <4>1
    <3> QED BY <2>3, <3>1
  <2> HIDE DEF next, unit
  <2> QED BY <1>0, <1>9, <1>13, <2>1, <2>4
<1>14. ASSUME n # 0
       PROVE  /\ next >= 0 /\ next <= PowLimit /\ next <= 3 * hi
              /\ 3 * (next + unit + 1) >= lo /\ (lo >= 3 => next > 0)
  <2>1. next # 0
    <3> SUFFICES ASSUME next = 0 PROVE FALSE
      OBVIOUS
    <3>1. compact = 0
      BY <1>11, ZeroRoundTrip
    <3>2. Weight[3] \in Nat \ {0} /\ Weight[0] = 1
      BY WeightIs
    <3>3. unit = 1
      <4>1. size = 0
        <5>1. 0 \div Weight[3] = 0
          BY <3>2, QuotientOfLess
        <5> QED BY <3>1, <5>1
      <4> QED BY <3>2, <4>1
    <3> HIDE DEF next, unit
    <3> QED BY <1>9, <1>11, <1>14, <3>3 DEF Magnitude
  <2>2. next > 0 /\ next <= n /\ n - next < unit
    <3> HIDE DEF next, unit
    <3> QED BY <1>9, <1>11, <1>12, <1>14, <2>1 DEF Magnitude
  <2>3. unit \in Nat
    <3>1. (IF size <= 3 THEN 0 ELSE size - 3) \in Nat
      <4>1. size \in Nat
        <5>1. compact \in Nat
          <6>1. Weight[3] \in Nat /\ MaxSize \in Nat
            BY WeightIs, EncodingAssumption
          <6>2. (MaxSize + 1) * Weight[3] \in Nat
            BY <6>1
          <6> QED BY <1>11, <6>2 DEF Compacts
        <5> QED BY <5>1, WeightIs, DivisionIs
      <4> HIDE DEF size
      <4> QED BY <4>1
    <3> HIDE DEF size
    <3> QED BY <3>1, WeightIs
  <2> HIDE DEF next, unit
  <2> QED BY <1>0, <1>9, <1>12, <2>2, <2>3
<1> QED BY <1>11, <1>13, <1>14 DEF compact
=============================================================================
