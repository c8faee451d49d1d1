------------------------------ MODULE Extremes ------------------------------
(***************************************************************************)
(* A set of naturals has a least element, and a bounded one a greatest:    *)
(* what the proofs about latest rows, tasks and cursors rest on.  Counting *)
(* up to a number, and repeating a step that often, are of the same kind.  *)
(***************************************************************************)
EXTENDS Naturals, TLAPS, WellFoundedInduction

\* A set of naturals that is not empty has a least element.
LEMMA Least ==
    ASSUME NEW T, T \subseteq Nat, T # {}
    PROVE  \E x \in T : \A y \in T : x <= y
<1> DEFINE R == OpToRel(<, Nat)
<1>1. IsWellFoundedOn(R, Nat)
  BY NatLessThanWellFounded, Zenon
<1>2. \A x, y \in Nat : y < x => <<y, x>> \in R
  BY DEF OpToRel
<1> HIDE DEF R
<1>3. PICK x \in T : \A y \in T : <<y, x>> \notin R
  BY <1>1, WFMin
<1>4. ASSUME NEW y \in T
      PROVE  x <= y
  <2>1. x \in Nat /\ y \in Nat /\ <<y, x>> \notin R
    BY <1>3
  <2>2. ~(y < x)
    BY <1>2, <2>1
  <2> QED
    BY <2>1, <2>2
<1> QED
  BY <1>4

\* So has one that is bounded a greatest.
LEMMA Greatest ==
    ASSUME NEW n \in Nat, NEW T, T \subseteq 0..n, T # {}
    PROVE  \E x \in T : \A y \in T : y <= x
<1> DEFINE U == {n - x : x \in T}
<1>1. U \subseteq Nat /\ U # {}
  <2>1. \A x \in T : x \in Int /\ x <= n
    OBVIOUS
  <2>2. \A x \in T : n - x \in Nat
    BY <2>1
  <2> QED
    BY <2>2
<1>2. PICK u \in U : \A v \in U : u <= v
  BY <1>1, Least
<1>3. PICK x \in T : u = n - x
  BY <1>2
<1>4. \A y \in T : n - x <= n - y
  BY <1>2, <1>3
<1> QED
  BY <1>3, <1>4

\* What holds of 0, and of a number if of the one before, holds up to N.
LEMMA Counting ==
    ASSUME NEW N \in Nat, NEW P, 0 \in P, \A n \in 1..N : n - 1 \in P => n \in P
    PROVE  0..N \subseteq P
<1> DEFINE Bad == 0..N \ P
<1> SUFFICES ASSUME Bad # {} PROVE FALSE
  OBVIOUS
<1>1. PICK n \in Bad : \A m \in Bad : n <= m
  <2>1. Bad \subseteq Nat
    OBVIOUS
  <2>2. QED
    BY <2>1, Least
<1>2. n \in 1..N /\ n - 1 \in 0..N
  OBVIOUS
<1>3. n - 1 \in P
  BY <1>1, <1>2
<1>4. QED
  BY <1>2, <1>3

\* So can one count from another place.
LEMMA CountingFrom ==
    ASSUME NEW a \in Nat, NEW b \in Nat, a <= b, NEW P, a \in P,
           \A n \in a + 1..b : n - 1 \in P => n \in P
    PROVE  a..b \subseteq P
<1> DEFINE Q == {k \in 0..b - a : a + k \in P}
<1>1. PICK N \in Nat : N = b - a
  OBVIOUS
<1>2. 0 \in Q
  BY <1>1
<1>3. ASSUME NEW k \in 1..N, k - 1 \in Q PROVE k \in Q
  <2>1. PICK n \in a + 1..b : n = a + k
    BY <1>1, <1>3
  <2>2. n - 1 = a + (k - 1) /\ k \in 0..b - a
    BY <1>1, <2>1
  <2>3. n - 1 \in P
    BY <1>3, <2>2
  <2>4. QED
    BY <2>1, <2>2, <2>3
<1>4. 0..N \subseteq Q
  <2> HIDE DEF Q
  <2>1. QED
    BY <1>2, <1>3, Counting
<1>5. ASSUME NEW n \in a..b PROVE n \in P
  <2>1. n - a \in 0..N /\ a + (n - a) = n
    BY <1>1
  <2>2. QED
    BY <1>4, <2>1
<1>6. QED
  BY <1>5

\* Functions can be applied one after the other.
Iterated(f, n, g, a) == f = [k \in 0..n |-> IF k = 0 THEN a ELSE g[k][f[k - 1]]]

LEMMA Iterates ==
    ASSUME NEW N \in Nat, NEW g, NEW a
    PROVE  \E f : Iterated(f, N, g, a)
<1> DEFINE P == {n \in Nat : \E f : Iterated(f, n, g, a)}
<1>1. 0 \in P
  <2> DEFINE f == [k \in 0..0 |-> a]
  <2>1. Iterated(f, 0, g, a)
    BY DEF Iterated
  <2>2. QED
    BY <2>1
<1>2. ASSUME NEW n \in 1..N, n - 1 \in P PROVE n \in P
  <2>1. PICK f : Iterated(f, n - 1, g, a)
    BY <1>2
  <2> DEFINE h == [k \in 0..n |-> IF k = n THEN g[n][f[n - 1]] ELSE f[k]]
  <2>2. \A k \in 0..n - 1 : f[k] = IF k = 0 THEN a ELSE g[k][f[k - 1]]
    BY <2>1 DEF Iterated
  <2>3. ASSUME NEW k \in 0..n
        PROVE  h[k] = IF k = 0 THEN a ELSE g[k][h[k - 1]]
    <3>1. CASE k = n
      <4>1. h[k - 1] = f[n - 1]
        BY <3>1
      <4>2. QED
        BY <3>1, <4>1
    <3>2. CASE k # n
      <4>1. k \in 0..n - 1 /\ h[k] = f[k] /\ (k # 0 => h[k - 1] = f[k - 1])
        BY <3>2
      <4>2. QED
        BY <2>2, <4>1
    <3>3. QED
      BY <3>1, <3>2
  <2>4. h = [k \in 0..n |-> IF k = 0 THEN a ELSE g[k][h[k - 1]]]
    <3>1. h = [k \in 0..n |-> h[k]]
      OBVIOUS
    <3> HIDE DEF h
    <3>2. QED
      BY <2>3, <3>1
  <2>5. Iterated(h, n, g, a)
    BY <2>4 DEF Iterated
  <2>6. QED
    BY <2>5
<1> HIDE DEF P
<1>3. 0..N \subseteq P
  BY <1>1, <1>2, Counting
<1>4. QED
  BY <1>3 DEF P

\* So can functions on a set, which they do not leave.
IteratedIn(f, n, T, g, a) ==
    /\ f \in [0..n -> T]
    /\ f[0] = a
    /\ \A k \in 1..n : f[k] = g[k][f[k - 1]]

LEMMA IteratesIn ==
    ASSUME NEW N \in Nat, NEW T, NEW a \in T, NEW g \in [1..N -> [T -> T]]
    PROVE  \E f : IteratedIn(f, N, T, g, a)
<1>1. PICK f : Iterated(f, N, g, a)
  BY Iterates
<1>2. /\ f = [k \in 0..N |-> f[k]]
      /\ \A k \in 0..N : f[k] = IF k = 0 THEN a ELSE g[k][f[k - 1]]
  BY <1>1 DEF Iterated
<1>3. f[0] = a /\ \A k \in 1..N : f[k] = g[k][f[k - 1]]
  <2>1. 0 \in 0..N
    OBVIOUS
  <2>2. \A k \in 1..N : k \in 0..N /\ k # 0
    OBVIOUS
  <2>3. QED
    BY <1>2, <2>1, <2>2
<1> DEFINE P == {k \in 0..N : f[k] \in T}
<1>4. 0 \in P
  BY <1>3
<1>5. ASSUME NEW k \in 1..N, k - 1 \in P PROVE k \in P
  <2>1. f[k] = g[k][f[k - 1]] /\ f[k - 1] \in T /\ k \in 0..N
    BY <1>3, <1>5
  <2>2. QED
    BY <2>1
<1>6. 0..N \subseteq P
  <2> HIDE DEF P
  <2>1. QED
    BY <1>4, <1>5, Counting
<1>7. f \in [0..N -> T]
  BY <1>2, <1>6
<1>8. QED
  BY <1>3, <1>7 DEF IteratedIn
=============================================================================
