----------------------------- MODULE NumberLemmas -----------------------------
(***************************************************************************)
(* Facts about natural numbers that several proof modules need.            *)
(***************************************************************************)
EXTENDS Integers, FiniteSetTheorems, WellFoundedInduction, TLAPS

\* A set of numbers that is not empty has a least one.
LEMMA LeastNumber ==
    ASSUME NEW T, T \subseteq Nat, T # {}
    PROVE  \E n \in T : \A m \in T : n <= m
<1> DEFINE Below == {0 .. n : n \in T}
<1>1. Below \subseteq FiniteSubsetsOf(Nat)
  <2>1. \A n \in T : 0 .. n \in SUBSET Nat /\ IsFiniteSet(0 .. n)
    BY FS_Interval
  <2>. QED BY <2>1 DEF FiniteSubsetsOf
<1>2. PICK b \in Below : \A a \in Below : <<a, b>> \notin StrictSubsetOrdering(Nat)
  <2>1. Below # {}
    OBVIOUS
  <2> HIDE DEF Below
  <2>. QED BY <1>1, <2>1, WFMin, FS_StrictSubsetOrderingWellFounded
<1>3. PICK n \in T : b = 0 .. n
  OBVIOUS
<1>4. ASSUME NEW m \in T, m < n PROVE FALSE
  <2>1. 0 .. m \in Below /\ 0 .. m \subseteq 0 .. n /\ n \in 0 .. n /\ n \notin 0 .. m
    BY <1>4
  <2>2. 0 .. m \in SUBSET Nat /\ 0 .. n \in SUBSET Nat /\ 0 .. m # 0 .. n
    BY <2>1
  <2>. QED BY <1>2, <1>3, <2>1, <2>2 DEF StrictSubsetOrdering
<1>. QED BY <1>4

\* A finite set of numbers that is not empty has a greatest one.
LEMMA GreatestNumber ==
    ASSUME NEW T, T \subseteq Nat, T # {}, IsFiniteSet(T)
    PROVE  \E u \in T : \A t \in T : t <= u
<1>1. PICK n \in Nat : ExistsSurjection(1 .. n, T)
  BY FS_NatSurjection
<1>2. PICK f \in [1 .. n -> T] : \A t \in T : \E i \in 1 .. n : f[i] = t
  BY <1>1 DEF ExistsSurjection, Surjection
<1> DEFINE Unbounded == {k \in 0 .. n : ~\E b \in Nat : \A i \in 1 .. k : f[i] <= b}
           Bounds == {b \in Nat : \A t \in T : t <= b}
<1>3. Unbounded = {}
  <2> SUFFICES ASSUME Unbounded # {} PROVE FALSE
    OBVIOUS
  <2>1. PICK k \in Unbounded : \A j \in Unbounded : k <= j
    <3>1. Unbounded \subseteq Nat
      OBVIOUS
    <3> HIDE DEF Unbounded
    <3>. QED BY <3>1, LeastNumber
  <2>2. k \in Nat /\ k <= n /\ ~\E b \in Nat : \A i \in 1 .. k : f[i] <= b
    OBVIOUS
  <2>3. k # 0
    BY <2>2
  <2>4. k - 1 \notin Unbounded
    <3> HIDE DEF Unbounded
    <3>. QED BY <2>1, <2>2
  <2>5. k - 1 \in 0 .. n
    BY <2>2, <2>3
  <2>6. PICK b \in Nat : \A i \in 1 .. k - 1 : f[i] <= b
    BY <2>4, <2>5
  <2> HIDE DEF Unbounded
  <2>7. \A i \in 1 .. k : f[i] \in Nat
    <3> SUFFICES ASSUME NEW i \in 1 .. k PROVE f[i] \in Nat
      OBVIOUS
    <3>1. i \in 1 .. n
      BY <2>2
    <3>2. f[i] \in T
      BY <3>1
    <3>. QED BY <3>2
  <2>8. f[k] \in Nat
    BY <2>2, <2>3, <2>7
  <2>9. \A i \in 1 .. k : i # k => i \in 1 .. k - 1
    BY <2>2
  <2>10. \A i \in 1 .. k : f[i] <= b + f[k]
    BY <2>6, <2>7, <2>8, <2>9
  <2>11. b + f[k] \in Nat
    BY <2>8
  <2>. QED BY <2>2, <2>10, <2>11
<1>4. Bounds # {}
  <2>1. n \notin Unbounded
    BY <1>3
  <2>2. PICK b \in Nat : \A i \in 1 .. n : f[i] <= b
    BY <2>1
  <2>. QED BY <1>2, <2>2
<1>5. PICK u \in Bounds : \A b \in Bounds : u <= b
  <2>1. Bounds \subseteq Nat
    OBVIOUS
  <2> HIDE DEF Bounds
  <2>. QED BY <1>4, <2>1, LeastNumber
<1>6. u \in T
  <2> SUFFICES ASSUME u \notin T PROVE FALSE
    OBVIOUS
  <2>0. PICK s \in T : s \in Nat
    OBVIOUS
  <2>1. u \in Nat /\ \A t \in T : t \in Nat /\ t < u
    OBVIOUS
  <2> HIDE DEF Bounds
  <2>2. u - 1 \in Nat /\ \A t \in T : t <= u - 1
    BY <2>0, <2>1
  <2> USE DEF Bounds
  <2>. QED BY <1>5, <2>1, <2>2
<1>. QED BY <1>6
-----------------------------------------------------------------------------
(* Sums of the first k of n numbers, as a recursive function *)

ArePartialSums(f, a, n) == f = [k \in 0 .. n |-> IF k = 0 THEN 0 ELSE f[k - 1] + a[k]]

LEMMA PartialSumsExist ==
    ASSUME NEW n \in Nat, NEW a, \A k \in 1 .. n : a[k] \in Nat
    PROVE  \E f \in [0 .. n -> Nat] : ArePartialSums(f, a, n)
<1> DEFINE Sums(k) == {f \in [0 .. k -> Nat] :
                          f[0] = 0 /\ \A i \in 1 .. k : f[i] = f[i - 1] + a[i]}
           Without == {k \in 0 .. n : Sums(k) = {}}
<1> HIDE DEF Sums
<1>1. Without = {}
  <2> SUFFICES ASSUME Without # {} PROVE FALSE
    OBVIOUS
  <2>1. PICK k \in Without : \A j \in Without : k <= j
    <3>1. Without \subseteq Nat
      OBVIOUS
    <3> HIDE DEF Without
    <3>. QED BY <3>1, LeastNumber
  <2>2. k \in 0 .. n /\ Sums(k) = {} /\ k \in Nat
    OBVIOUS
  <2>3. k # 0
    <3>1. [i \in 0 .. 0 |-> 0] \in Sums(0)
      BY DEF Sums
    <3>. QED BY <2>2, <3>1
  <2>4. k - 1 \in 0 .. n /\ k - 1 \notin Without
    <3> HIDE DEF Without
    <3>. QED BY <2>1, <2>2, <2>3
  <2>5. PICK f : f \in Sums(k - 1)
    BY <2>4
  <2>6. f \in [0 .. k - 1 -> Nat] /\ f[0] = 0 /\ \A i \in 1 .. k - 1 : f[i] = f[i - 1] + a[i]
    BY <2>5 DEF Sums
  <2> DEFINE g == [i \in 0 .. k |-> IF i = k THEN f[k - 1] + a[k] ELSE f[i]]
  <2> HIDE DEF Without
  <2>7. g \in [0 .. k -> Nat]
    BY <2>2, <2>3, <2>6
  <2>8. g[0] = 0 /\ \A i \in 1 .. k : g[i] = g[i - 1] + a[i]
    BY <2>2, <2>3, <2>6
  <2> HIDE DEF g
  <2>9. g \in Sums(k)
    BY <2>7, <2>8 DEF Sums
  <2>. QED BY <2>2, <2>9
<1>2. PICK f : f \in Sums(n)
  BY <1>1
<1>3. f \in [0 .. n -> Nat] /\ f[0] = 0 /\ \A i \in 1 .. n : f[i] = f[i - 1] + a[i]
  BY <1>2 DEF Sums
<1>. QED BY <1>3 DEF ArePartialSums

\* Any such function adds one number at a time, and never falls.
LEMMA PartialSumsSteps ==
    ASSUME NEW n \in Nat, NEW a, \A k \in 1 .. n : a[k] \in Nat,
           NEW f, ArePartialSums(f, a, n)
    PROVE  /\ f[0] = 0 /\ \A k \in 1 .. n : f[k] = f[k - 1] + a[k]
           /\ \A k \in 0 .. n : f[k] \in Nat /\ f[k] <= f[n]
<1> DEFINE sum == [k \in 0 .. n |-> IF k = 0 THEN 0 ELSE f[k - 1] + a[k]]
<1>1. f[0] = 0 /\ \A k \in 1 .. n : f[k] = f[k - 1] + a[k]
  <2>1. \A k \in 0 .. n : sum[k] = IF k = 0 THEN 0 ELSE f[k - 1] + a[k]
    OBVIOUS
  <2>2. f = sum
    BY DEF ArePartialSums
  <2> HIDE DEF sum
  <2>3. \A k \in 0 .. n : f[k] = IF k = 0 THEN 0 ELSE f[k - 1] + a[k]
    BY <2>1, <2>2
  <2>4. 0 \in 0 .. n /\ \A k \in 1 .. n : k \in 0 .. n /\ k # 0
    OBVIOUS
  <2>. QED BY <2>3, <2>4
<1> DEFINE Untyped == {k \in 0 .. n : f[k] \notin Nat}
           Above == {k \in 0 .. n : ~(f[n - k] <= f[n])}
<1>2. Untyped = {}
  <2> SUFFICES ASSUME Untyped # {} PROVE FALSE
    OBVIOUS
  <2>1. PICK k \in Untyped : \A j \in Untyped : k <= j
    <3>1. Untyped \subseteq Nat
      OBVIOUS
    <3> HIDE DEF Untyped
    <3>. QED BY <3>1, LeastNumber
  <2>2. k \in 0 .. n /\ f[k] \notin Nat /\ k \in Nat /\ k # 0
    BY <1>1
  <2>3. k - 1 \in 0 .. n /\ k - 1 \notin Untyped
    <3> HIDE DEF Untyped
    <3>. QED BY <2>1, <2>2
  <2>. QED BY <1>1, <2>2, <2>3
<1>3. Above = {}
  <2> SUFFICES ASSUME Above # {} PROVE FALSE
    OBVIOUS
  <2>1. PICK k \in Above : \A j \in Above : k <= j
    <3>1. Above \subseteq Nat
      OBVIOUS
    <3> HIDE DEF Above
    <3>. QED BY <3>1, LeastNumber
  <2>2. k \in 0 .. n /\ ~(f[n - k] <= f[n]) /\ k \in Nat /\ k # 0
    BY <1>2
  <2>3. k - 1 \in 0 .. n /\ k - 1 \notin Above
    <3> HIDE DEF Above
    <3>. QED BY <2>1, <2>2
  <2>4. /\ n - (k - 1) \in 1 .. n /\ (n - (k - 1)) - 1 = n - k
        /\ n - k \in 0 .. n /\ n - (k - 1) \in 0 .. n /\ n \in 0 .. n
    BY <2>2
  <2>5. f[n - (k - 1)] = f[n - k] + a[n - (k - 1)] /\ f[n - (k - 1)] <= f[n]
    BY <1>1, <2>3, <2>4
  <2>6. f[n - k] \in Nat /\ f[n - (k - 1)] \in Nat /\ f[n] \in Nat /\ a[n - (k - 1)] \in Nat
    BY <1>2, <2>4
  <2>. QED BY <2>2, <2>5, <2>6
<1>4. ASSUME NEW k \in 0 .. n PROVE f[k] <= f[n]
  <2>1. n - k \in 0 .. n /\ n - (n - k) = k
    OBVIOUS
  <2>. QED BY <1>3, <2>1
<1>. QED BY <1>1, <1>2, <1>4
=============================================================================
