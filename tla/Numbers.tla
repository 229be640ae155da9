------------------------------ MODULE Numbers -------------------------------
(***************************************************************************)
(* Facts about whole numbers that the proofs about the drivers share:      *)
(* products and quotients, induction without an operator as a parameter,   *)
(* and the order in which the drivers' loops descend to their ends.        *)
(***************************************************************************)
EXTENDS Integers, WellFoundedInduction, TLAPS

(* Products keep the order, quotient and remainder are unique.               *)
LEMMA MulMono ==
  ASSUME NEW a \in Int, NEW b \in Int, NEW s \in Int, s > 0
  PROVE  a <= b <=> a * s <= b * s
<1>1. a <= b => a * s <= b * s
  <2>1. SUFFICES ASSUME a <= b PROVE a * s <= b * s
    OBVIOUS
  <2>2. (b - a) * s >= 0
    BY <2>1
  <2>3. (b - a) * s = b * s - a * s
    OBVIOUS
  <2> QED
    BY <2>2, <2>3
<1>2. b < a => b * s < a * s
  <2>1. SUFFICES ASSUME b < a PROVE b * s < a * s
    OBVIOUS
  <2>2. (a - b) * s > 0
    BY <2>1
  <2>3. (a - b) * s = a * s - b * s
    OBVIOUS
  <2> QED
    BY <2>2, <2>3
<1> QED
  BY <1>1, <1>2

(* Quotient and remainder are the only ones. *)
LEMMA DivModUnique ==
  ASSUME NEW d \in Nat \ {0}, NEW q \in Int, NEW r \in 0..(d - 1)
  PROVE  (q * d + r) \div d = q /\ (q * d + r) % d = r
<1> DEFINE n == q * d + r  p == n \div d  e == n % d
<1>1. n \in Int
  OBVIOUS
<1>2. p \in Int /\ e \in 0..(d - 1) /\ n = p * d + e
  <2> HIDE DEF n
  <2> QED
    BY <1>1
<1>3. (q - p) * d = e - r
  <2> HIDE DEF p, e
  <2> QED
    BY <1>2
<1> HIDE DEF n, p, e
<1>4. q - p <= 0
  <2>1. 1 <= q - p => 1 * d <= (q - p) * d
    BY <1>2, MulMono
  <2> QED
    BY <1>2, <1>3, <2>1
<1>5. 0 <= q - p
  <2>1. q - p <= -1 => (q - p) * d <= (-1) * d
    BY <1>2, MulMono
  <2> QED
    BY <1>2, <1>3, <2>1
<1>6. p = q
  BY <1>2, <1>4, <1>5
<1>7. e = r
  BY <1>2, <1>3, <1>6
<1> QED
  BY <1>6, <1>7 DEF n, p, e

-----------------------------------------------------------------------------
(* Induction over the natural numbers, stated with sets.                     *)
Less == {p \in Nat \X Nat : p[1] < p[2]}

LEMMA LessWellFounded == IsWellFoundedOn(Less, Nat)
<1>1. OpToRel(<, Nat) = Less
  BY Zenon DEF OpToRel, Less
<1> QED
  BY <1>1, NatLessThanWellFounded, Zenon

LEMMA LeastNatural ==
  ASSUME NEW T \in SUBSET Nat, T # {}
  PROVE  \E n \in T : \A m \in T : n <= m
<1>1. PICK n \in T : \A m \in T : <<m, n>> \notin Less
  BY WFMin, LessWellFounded
<1>2. ASSUME NEW m \in T PROVE n <= m
  <2>1. m \in Nat /\ n \in Nat /\ <<m, n>> \notin Less
    BY <1>1
  <2> QED
    BY <2>1 DEF Less
<1> QED
  BY <1>2

(* A set that holds 0, and with each number below n the next one. *)
LEMMA InductionUpTo ==
  ASSUME NEW n \in Nat, NEW S, 0 \in S,
         \A k \in 1..n : k - 1 \in S => k \in S
  PROVE  \A k \in 0..n : k \in S
<1> SUFFICES ASSUME {k \in 0..n : k \notin S} # {} PROVE FALSE
  OBVIOUS
<1>1. {k \in 0..n : k \notin S} \in SUBSET Nat
  OBVIOUS
<1>2. PICK k \in {i \in 0..n : i \notin S} : \A m \in {i \in 0..n : i \notin S} : k <= m
  BY <1>1, LeastNatural
<1>3. k \in 1..n /\ k - 1 \in 0..n /\ ~(k <= k - 1)
  BY <1>2
<1>4. k - 1 \in S
  BY <1>2, <1>3
<1> QED
  BY <1>2, <1>3, <1>4

(* A function defined along the numbers up to n exists: f begins with base   *)
(* and g gives the next value.                                               *)
Iterates(f, n, base, g) == f[0] = base /\ \A k \in 1..n : f[k] = g[k][f[k - 1]]

LEMMA IterationExists ==
  ASSUME NEW n \in Nat, NEW T, NEW base \in T, NEW g \in [1..n -> [T -> T]]
  PROVE  \E f \in [0..n -> T] : Iterates(f, n, base, g)
<1> DEFINE Has(m) == \E f \in [0..m -> T] : /\ f[0] = base
                                            /\ \A k \in 1..m : f[k] = g[k][f[k - 1]]
           S == {m \in 0..n : Has(m)}
<1>1. 0 \in S
  <2> DEFINE f == [k \in 0..0 |-> base]
  <2>1. /\ f \in [0..0 -> T] /\ f[0] = base
        /\ \A k \in 1..0 : f[k] = g[k][f[k - 1]]
    OBVIOUS
  <2> HIDE DEF f
  <2>2. Has(0)
    BY <2>1
  <2> QED
    BY <2>2
<1>2. ASSUME NEW m \in 1..n, m - 1 \in S PROVE m \in S
  <2>1. PICK f \in [0..(m - 1) -> T] : /\ f[0] = base
                                       /\ \A k \in 1..(m - 1) : f[k] = g[k][f[k - 1]]
    BY <1>2
  <2> DEFINE h == [k \in 0..m |-> IF k = m THEN g[m][f[m - 1]] ELSE f[k]]
  <2>2. h \in [0..m -> T]
    <3>1. g[m] \in [T -> T] /\ m - 1 \in 0..(m - 1)
      OBVIOUS
    <3> QED
      BY <3>1
  <2>3. h[0] = base
    BY <2>1
  <2>4. ASSUME NEW k \in 1..m PROVE h[k] = g[k][h[k - 1]]
    <3>1. k - 1 \in 0..m /\ k - 1 # m /\ h[k - 1] = f[k - 1]
      OBVIOUS
    <3>2. k # m => k \in 1..(m - 1)
      OBVIOUS
    <3> QED
      BY <2>1, <3>1, <3>2
  <2>5. Has(m)
    BY <2>2, <2>3, <2>4
  <2> HIDE DEF Has
  <2> QED
    BY <2>5
<1> HIDE DEF Has
<1>3. n \in S
  <2>1. \A k \in 0..n : k \in S
    BY <1>1, <1>2, InductionUpTo
  <2> QED
    BY <2>1
<1> QED
  BY <1>3 DEF Has, Iterates

-----------------------------------------------------------------------------
(* The first of three numbers in which p and q differ is smaller in p. *)
Triples == Nat \X Nat \X Nat

Descends(p, q) ==
  /\ p \in Triples /\ q \in Triples
  /\ \/ p[1] < q[1]
     \/ p[1] = q[1] /\ p[2] < q[2]
     \/ p[1] = q[1] /\ p[2] = q[2] /\ p[3] < q[3]

(* Descent ends: of any triples some have nothing below. *)
LEMMA DescentEnds ==
  ASSUME NEW T \in SUBSET Triples, T # {}
  PROVE  \E p \in T : \A q \in T : ~Descends(q, p)
<1>1. \A p \in T : p[1] \in Nat /\ p[2] \in Nat /\ p[3] \in Nat
  BY DEF Triples
<1>2. PICK a \in {p[1] : p \in T} : \A n \in {p[1] : p \in T} : a <= n
  <2>1. {p[1] : p \in T} \in SUBSET Nat /\ {p[1] : p \in T} # {}
    BY <1>1
  <2> QED
    BY <2>1, LeastNatural
<1> DEFINE A == {p \in T : p[1] = a}
<1>3. PICK b \in {p[2] : p \in A} : \A n \in {p[2] : p \in A} : b <= n
  <2>1. {p[2] : p \in A} \in SUBSET Nat /\ {p[2] : p \in A} # {}
    BY <1>1, <1>2
  <2> QED
    BY <2>1, LeastNatural
<1> DEFINE B == {p \in A : p[2] = b}
<1>4. PICK c \in {p[3] : p \in B} : \A n \in {p[3] : p \in B} : c <= n
  <2>1. {p[3] : p \in B} \in SUBSET Nat /\ {p[3] : p \in B} # {}
    BY <1>1, <1>3
  <2> QED
    BY <2>1, LeastNatural
<1>5. PICK p \in B : p[3] = c
  BY <1>4
<1>6. p \in T /\ p[1] = a /\ p[2] = b /\ p[3] = c
  BY <1>5
<1>7. ASSUME NEW q \in T, Descends(q, p) PROVE FALSE
  <2>1. a <= q[1] /\ (q[1] = a => b <= q[2]) /\ (q[1] = a /\ q[2] = b => c <= q[3])
    BY <1>2, <1>3, <1>4
  <2>2. a \in Nat /\ b \in Nat /\ c \in Nat /\ q[1] \in Nat /\ q[2] \in Nat /\ q[3] \in Nat
    BY <1>1, <1>6
  <2> QED
    BY <1>6, <1>7, <2>1, <2>2 DEF Descends
<1> QED
  BY <1>6, <1>7
=============================================================================
