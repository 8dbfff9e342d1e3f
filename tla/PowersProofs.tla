----------------------------- MODULE PowersProofs ------------------------------
(***************************************************************************)
(* What the other proofs need of numbers: least numbers, induction and     *)
(* functions that are defined step by step; powers of two; and division.   *)
(***************************************************************************)
EXTENDS Powers, WellFoundedInduction, TLAPS

(* A set of numbers has a least one; so a set that has 0 and the successor *)
(* of every number it has, has all.                                        *)
LEMMA LeastNumber ==
    ASSUME NEW S \in SUBSET Nat, S # {}
    PROVE  \E x \in S : \A y \in S : x <= y
<1> DEFINE R == OpToRel(<, Nat)
<1>1. R = {ss \in Nat \X Nat : ss[1] < ss[2]}
  BY DEF OpToRel
<1>2. PICK x \in S : \A y \in S : ~ (<<y, x>> \in R)
  <2>1. IsWellFoundedOn(R, Nat)
    BY NatLessThanWellFounded
  <2> HIDE DEF R
  <2> QED
    BY <2>1, WFMin
<1>3. ASSUME NEW y \in S PROVE x <= y
  <2>1. ~ (<<y, x>> \in R) /\ y \in Nat /\ x \in Nat
    BY <1>2
  <2>2. ~ (y < x)
    BY <1>1, <2>1
  <2>3. y \in Nat /\ x \in Nat
    OBVIOUS
  <2> QED
    BY <2>2, <2>3
<1> QED
  BY <1>3

LEMMA SetInduction ==
    ASSUME NEW S \in SUBSET Nat, 0 \in S, \A n \in S : n + 1 \in S
    PROVE  S = Nat
<1> SUFFICES ASSUME Nat \ S # {} PROVE FALSE
  OBVIOUS
<1>1. PICK m \in Nat \ S : \A n \in Nat \ S : m <= n
  BY LeastNumber
<1>2. m # 0
  BY <1>1
<1>3. m - 1 \in S
  BY <1>1, <1>2
<1> QED
  BY <1>1, <1>3

(* The numbers of f come from base by the steps, up to n.                  *)
Steps(f, base, step, n) == f[0] = base /\ \A i \in 1 .. n : f[i] = step[i - 1][f[i - 1]]

LEMMA StepsExist ==
    ASSUME NEW base \in Nat, NEW step \in [Nat -> [Nat -> Nat]]
    PROVE  \A n \in Nat : \E f \in [Nat -> Nat] : Steps(f, base, step, n)
<1> DEFINE S == {n \in Nat : \E f \in [Nat -> Nat] : Steps(f, base, step, n)}
<1>1. 0 \in S
  <2> DEFINE f == [i \in Nat |-> base]
  <2>1. f \in [Nat -> Nat] /\ Steps(f, base, step, 0)
    BY DEF Steps
  <2> QED
    BY <2>1
<1>2. ASSUME NEW n \in S PROVE n + 1 \in S
  <2>1. PICK f \in [Nat -> Nat] : Steps(f, base, step, n)
    OBVIOUS
  <2> DEFINE x == step[n][f[n]]
             g == [f EXCEPT ![n + 1] = x]
  <2>2. n \in Nat /\ n + 1 \in Nat /\ x \in Nat
    <3>1. step[n] \in [Nat -> Nat] /\ f[n] \in Nat
      OBVIOUS
    <3> QED
      BY <3>1
  <2> HIDE DEF x
  <2>3. g \in [Nat -> Nat] /\ g[n + 1] = x /\ \A i \in 0 .. n : g[i] = f[i]
    <3> DEFINE m == n + 1
    <3>1. m \in Nat /\ g = [f EXCEPT ![m] = x] /\ \A i \in 0 .. n : i \in Nat /\ i # m
      BY <2>2
    <3> HIDE DEF m, g
    <3> QED
      BY <2>2, <3>1 DEF m
  <2> HIDE DEF g
  <2>4. ASSUME NEW i \in 1 .. n PROVE g[i] = step[i - 1][g[i - 1]]
    <3>1. g[i] = f[i] /\ g[i - 1] = f[i - 1]
      <4>1. i \in 0 .. n /\ i - 1 \in 0 .. n
        BY <2>2
      <4> QED
        BY <2>3, <4>1
    <3>2. f[i] = step[i - 1][f[i - 1]]
      BY <2>1 DEF Steps
    <3> QED
      BY <3>1, <3>2
  <2>5. g[n + 1] = step[(n + 1) - 1][g[(n + 1) - 1]]
    <3>1. (n + 1) - 1 = n /\ g[n] = f[n]
      BY <2>2, <2>3
    <3> QED
      BY <2>3, <3>1 DEF x
  <2>6. g[0] = base
    BY <2>1, <2>2, <2>3 DEF Steps
  <2>7. Steps(g, base, step, n + 1)
    <3>1. \A i \in 1 .. n + 1 : i \in 1 .. n \/ i = n + 1
      BY <2>2
    <3> QED
      BY <2>4, <2>5, <2>6, <3>1 DEF Steps
  <2> QED
    BY <2>2, <2>3, <2>7
<1>3. S = Nat
  <2> HIDE DEF S
  <2>1. S \in SUBSET Nat
    BY DEF S
  <2> QED
    BY <1>1, <1>2, <2>1, SetInduction
<1> QED
  BY <1>3

LEMMA StepsAgree ==
    ASSUME NEW base, NEW step, NEW f, NEW g, NEW m \in Nat,
           Steps(f, base, step, m), Steps(g, base, step, m)
    PROVE  \A n \in 0 .. m : f[n] = g[n]
<1> DEFINE S == {n \in Nat : n <= m => f[n] = g[n]}
<1>1. 0 \in S
  BY DEF Steps
<1>2. ASSUME NEW n \in S PROVE n + 1 \in S
  <2>1. CASE n + 1 <= m
    <3>1. n + 1 \in 1 .. m /\ (n + 1) - 1 = n /\ f[n] = g[n]
      BY <2>1
    <3>2. f[n + 1] = step[(n + 1) - 1][f[(n + 1) - 1]]
      BY <3>1 DEF Steps
    <3>3. g[n + 1] = step[(n + 1) - 1][g[(n + 1) - 1]]
      BY <3>1 DEF Steps
    <3>4. f[n + 1] = g[n + 1]
      BY <3>1, <3>2, <3>3
    <3> QED
      BY <3>4
  <2> QED
    BY <2>1
<1>3. S = Nat
  <2> HIDE DEF S
  <2>1. S \in SUBSET Nat
    BY DEF S
  <2> QED
    BY <1>1, <1>2, <2>1, SetInduction
<1> QED
  BY <1>3

(* Numbers can be defined step by step.                                    *)
LEMMA Recursion ==
    ASSUME NEW base \in Nat, NEW step \in [Nat -> [Nat -> Nat]]
    PROVE  \E f \in [Nat -> Nat] : f[0] = base /\ \A n \in Nat : f[n + 1] = step[n][f[n]]
<1> DEFINE Up(n) == CHOOSE f \in [Nat -> Nat] : Steps(f, base, step, n)
           F == [n \in Nat |-> Up(n)[n]]
<1>1. \A n \in Nat : Up(n) \in [Nat -> Nat] /\ Steps(Up(n), base, step, n)
  BY StepsExist
<1> HIDE DEF Up
<1>2. F \in [Nat -> Nat] /\ F[0] = base
  BY <1>1 DEF Steps
<1>3. ASSUME NEW n \in Nat PROVE F[n + 1] = step[n][F[n]]
  <2> DEFINE m == n + 1
  <2>1. m \in Nat /\ m \in 1 .. m /\ m - 1 = n /\ n \in 0 .. n
    OBVIOUS
  <2>2. Steps(Up(m), base, step, m) /\ Steps(Up(n), base, step, n)
    BY <1>1, <2>1
  <2>3. Up(m)[m] = step[m - 1][Up(m)[m - 1]]
    BY <2>1, <2>2 DEF Steps
  <2>4. Steps(Up(m), base, step, n)
    BY <2>1, <2>2 DEF Steps
  <2>5. Up(m)[n] = Up(n)[n]
    BY <2>1, <2>2, <2>4, StepsAgree
  <2> HIDE DEF m
  <2> QED
    BY <2>1, <2>3, <2>5 DEF m
<1> QED
  BY <1>2, <1>3

(* The function pow2 doubles for ever.                                     *)
LEMMA Pow2 ==
    /\ pow2[0] = 1
    /\ \A n \in Nat : pow2[n + 1] = 2 * pow2[n]
    /\ pow2 \in [Nat -> Nat]
<1> DEFINE Body(f) == [n \in Nat |-> IF n = 0 THEN 1 ELSE 2 * f[n - 1]]
           step == [n \in Nat |-> [x \in Nat |-> 2 * x]]
<1>1. step \in [Nat -> [Nat -> Nat]]
  OBVIOUS
<1>2. PICK F \in [Nat -> Nat] : F[0] = 1 /\ \A n \in Nat : F[n + 1] = step[n][F[n]]
  <2> DEFINE base == 1
  <2>1. base \in Nat
    OBVIOUS
  <2> HIDE DEF step, base
  <2>2. \E F \in [Nat -> Nat] : F[0] = base /\ \A n \in Nat : F[n + 1] = step[n][F[n]]
    BY <1>1, <2>1, Recursion
  <2> QED
    BY <2>2 DEF base
<1>3. F = Body(F)
  <2>1. ASSUME NEW n \in Nat \ {0} PROVE F[n] = 2 * F[n - 1]
    <3> DEFINE m == n - 1
    <3>1. m \in Nat /\ m + 1 = n
      OBVIOUS
    <3> HIDE DEF m
    <3>2. F[m + 1] = step[m][F[m]] /\ F[m] \in Nat
      BY <1>2, <3>1
    <3>3. F[n] = 2 * F[m]
      BY <3>1, <3>2
    <3> QED
      BY <3>3 DEF m
  <2> QED
    BY <1>2, <2>1
<1>4. pow2 = CHOOSE f : f = Body(f)
  BY DEF pow2
<1>5. pow2 = Body(pow2)
  BY <1>3, <1>4
<1>6. pow2[0] = 1 /\ \A n \in Nat : pow2[n + 1] = 2 * pow2[n]
  <2>1. \A n \in Nat : pow2[n] = IF n = 0 THEN 1 ELSE 2 * pow2[n - 1]
    BY <1>5
  <2> QED
    BY <2>1
<1>7. pow2 \in [Nat -> Nat]
  <2> DEFINE S == {n \in Nat : pow2[n] \in Nat}
  <2>1. 0 \in S /\ \A n \in S : n + 1 \in S
    BY <1>6
  <2>2. S \in SUBSET Nat
    OBVIOUS
  <2> HIDE DEF S
  <2>3. S = Nat
    BY <2>1, <2>2, SetInduction
  <2>4. pow2 = [n \in Nat |-> pow2[n]]
    BY <1>5
  <2> QED
    BY <2>3, <2>4 DEF S
<1> QED
  BY <1>6, <1>7

(* Powers of two are positive, exceed their exponents and grow with them.  *)
LEMMA Pow2Grows ==
    /\ \A n \in Nat : pow2[n] \in Nat /\ n < pow2[n]
    /\ \A m, n \in Nat : m < n => 2 * pow2[m] <= pow2[n]
    /\ \A m, n \in Nat : m <= n => pow2[m] <= pow2[n]
<1>1. \A n \in Nat : n < pow2[n]
  <2> DEFINE S == {n \in Nat : n < pow2[n]}
  <2>1. 0 \in S /\ \A n \in S : n + 1 \in S
    BY Pow2
  <2>2. S \in SUBSET Nat
    OBVIOUS
  <2> HIDE DEF S
  <2>3. S = Nat
    BY <2>1, <2>2, SetInduction
  <2> QED
    BY <2>3 DEF S
<1>2. ASSUME NEW m \in Nat PROVE \A n \in Nat : m < n => 2 * pow2[m] <= pow2[n]
  <2> DEFINE S == {n \in Nat : m < n => 2 * pow2[m] <= pow2[n]}
  <2>0. \A n \in Nat : pow2[n] \in Nat
    BY Pow2
  <2>1. 0 \in S
    OBVIOUS
  <2>2. ASSUME NEW n \in S PROVE n + 1 \in S
    <3>1. pow2[n + 1] = 2 * pow2[n] /\ pow2[n] \in Nat /\ pow2[m] \in Nat
      BY Pow2, <2>0
    <3>2. CASE n = m
      BY <3>1, <3>2
    <3>3. CASE m < n
      BY <3>1, <3>3
    <3> QED
      BY <3>2, <3>3
  <2>3. S \in SUBSET Nat
    OBVIOUS
  <2> HIDE DEF S
  <2>4. S = Nat
    BY <2>1, <2>2, <2>3, SetInduction
  <2> QED
    BY <2>4 DEF S
<1>3. ASSUME NEW m \in Nat, NEW n \in Nat, m <= n PROVE pow2[m] <= pow2[n]
  <2>1. pow2[m] \in Nat /\ pow2[n] \in Nat
    BY Pow2
  <2> QED
    BY <1>2, <1>3, <2>1
<1> QED
  BY <1>1, <1>2, <1>3, Pow2

(* A number is its quotient and its remainder.                             *)
LEMMA Division ==
    ASSUME NEW n \in Nat, NEW a \in Nat \ {0}
    PROVE  n = a * (n \div a) + (n % a) /\ n % a \in 0 .. a - 1 /\ (n \div a) \in Nat
  OBVIOUS

-----------------------------------------------------------------------------
(* Division rounds down.                                                   *)
LEMMA Quotient ==
    ASSUME NEW n \in Nat, NEW a \in Nat \ {0}
    PROVE  /\ (n \div a) \in Nat
           /\ (n \div a) * a <= n
           /\ n < (n \div a) * a + a
<1>1. n = a * (n \div a) + (n % a) /\ n % a \in 0 .. a - 1 /\ (n \div a) \in Nat
  OBVIOUS
<1> QED
  BY <1>1

(* The quotient and the remainder are the only ones that fit.              *)
LEMMA QuotientUnique ==
    ASSUME NEW q \in Int, NEW r \in Nat, NEW a \in Nat \ {0}, r < a
    PROVE  (q * a + r) \div a = q /\ (q * a + r) % a = r
<1> DEFINE n == q * a + r
<1>1. n \in Int
  OBVIOUS
<1> HIDE DEF n
<1>2. n = a * (n \div a) + (n % a) /\ n % a \in 0 .. a - 1 /\ (n \div a) \in Int
  BY <1>1
<1> QED
  BY <1>2 DEF n

(* A multiple adds to the quotient only.                                   *)
LEMMA QuotientOfSum ==
    ASSUME NEW n \in Nat, NEW k \in Nat, NEW a \in Nat \ {0}
    PROVE  /\ (n + k * a) \div a = n \div a + k
           /\ (n + k * a) % a = n % a
<1>1. n = a * (n \div a) + (n % a) /\ n % a \in 0 .. a - 1 /\ (n \div a) \in Nat
  OBVIOUS
<1> DEFINE q == n \div a
           r == n % a
           p == q + k
<1>2. q \in Nat /\ r \in Nat /\ r < a /\ n = a * q + r
  BY <1>1
<1> HIDE DEF q, r
<1>3. p \in Nat /\ n + k * a = p * a + r
  BY <1>2
<1> HIDE DEF p
<1>4. (p * a + r) \div a = p /\ (p * a + r) % a = r
  BY <1>2, <1>3, QuotientUnique
<1> QED
  BY <1>3, <1>4 DEF p, q, r

(* A sum of exponents is a product of powers.                              *)
LEMMA Pow2Sum ==
    ASSUME NEW m \in Nat
    PROVE  \A n \in Nat : pow2[m + n] = pow2[m] * pow2[n]
<1> DEFINE S == {n \in Nat : pow2[m + n] = pow2[m] * pow2[n]}
<1>1. pow2 \in [Nat -> Nat] /\ pow2[0] = 1 /\ \A n \in Nat : pow2[n + 1] = 2 * pow2[n]
  BY Pow2
<1>2. 0 \in S
  BY <1>1
<1>3. ASSUME NEW n \in S PROVE n + 1 \in S
  <2>1. n \in Nat /\ m + n \in Nat /\ m + (n + 1) = (m + n) + 1
    OBVIOUS
  <2>2. pow2[m + (n + 1)] = 2 * pow2[m + n] /\ pow2[n + 1] = 2 * pow2[n]
    BY <1>1, <2>1
  <2>3. pow2[m + n] = pow2[m] * pow2[n] /\ pow2[m] \in Nat /\ pow2[n] \in Nat
    BY <1>1, <2>1
  <2>4. 2 * (pow2[m] * pow2[n]) = pow2[m] * (2 * pow2[n])
    BY <2>3
  <2> QED
    BY <2>1, <2>2, <2>3, <2>4
<1>4. S \in SUBSET Nat
  OBVIOUS
<1> HIDE DEF S
<1>5. S = Nat
  BY <1>2, <1>3, <1>4, SetInduction
<1> QED
  BY <1>5 DEF S

=============================================================================
