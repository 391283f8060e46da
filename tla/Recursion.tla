------------------------------- MODULE Recursion -------------------------------
(***************************************************************************)
(* Induction, for the proofs about definitions that recur: recursive       *)
(* functions on 0..n, and FlattenSeq, which is one.                        *)
(*                                                                         *)
(* An induction theorem would have to take the predicate as a parameter.   *)
(* Here a set T stands for it, the numbers of which it holds, and so the   *)
(* step from one number to the next is a fact about T.  That a set of      *)
(* numbers has a least one comes from the library, which knows that strict *)
(* inclusion of finite sets is well-founded, by way of the sets 0..n.      *)
(***************************************************************************)
EXTENDS Integers, SequencesExt, FiniteSetTheorems, SequenceTheorems, TLAPS

\* A set of numbers that is not empty has a least one.
LEMMA NatLeast ==
  ASSUME NEW T \in SUBSET Nat, T # {}
  PROVE  \E n \in T : \A m \in T : n <= m
<1> DEFINE R == StrictSubsetOrdering(Nat)
           U == {0..n : n \in T}
<1>1. IsWellFoundedOn(R, FiniteSubsetsOf(Nat))
  BY FS_StrictSubsetOrderingWellFounded
<1>2. U \subseteq FiniteSubsetsOf(Nat) /\ U # {}
  <2>1. ASSUME NEW n \in T PROVE 0..n \in SUBSET Nat /\ IsFiniteSet(0..n)
    BY FS_Interval
  <2> QED BY <2>1 DEF FiniteSubsetsOf
<1>3. PICK x \in U : \A y \in U : ~(<<y, x>> \in R)
  <2> HIDE DEF R, U
  <2> QED BY <1>1, <1>2, WFMin
<1>4. PICK n \in T : x = 0..n
  BY <1>3
<1>5. ASSUME NEW k \in T, k < n PROVE FALSE
  <2>1. 0..k \subseteq 0..n /\ n \notin 0..k /\ n \in 0..n
    BY <1>5
  <2>2. <<0..k, 0..n>> \in R
    BY <2>1 DEF StrictSubsetOrdering
  <2> QED BY <1>3, <1>4, <2>2
<1> QED BY <1>5

\* Induction up to n: the set T stands for the predicate.
LEMMA UpTo ==
  ASSUME NEW T, NEW n \in Nat, 0 \in T,
         \A k \in 0..n : k < n /\ k \in T => k + 1 \in T
  PROVE  0..n \subseteq T
<1> DEFINE Bad == (0..n) \ T
<1> SUFFICES ASSUME Bad # {} PROVE FALSE
  OBVIOUS
<1>1. PICK m \in Bad : \A k \in Bad : m <= k
  <2>1. Bad \in SUBSET Nat
    OBVIOUS
  <2> HIDE DEF Bad
  <2> QED BY <2>1, NatLeast
<1>2. m - 1 \in 0..n /\ m - 1 \in T
  BY <1>1
<1> QED BY <1>1, <1>2

\* What holds of the first value of a function, and of each if of the one before, holds of all.
LEMMA StaysIn ==
  ASSUME NEW V, NEW f, NEW n \in Nat, f[0] \in V,
         \A k \in 1..n : f[k - 1] \in V => f[k] \in V
  PROVE  \A k \in 0..n : f[k] \in V
<1> DEFINE T == {k \in 0..n : f[k] \in V}
<1>1. 0 \in T
  OBVIOUS
<1>2. ASSUME NEW k \in 0..n, k < n, k \in T PROVE k + 1 \in T
  <2>1. k + 1 \in 1..n /\ k + 1 \in 0..n /\ (k + 1) - 1 = k
    BY <1>2
  <2> QED BY <1>2, <2>1
<1>3. 0..n \subseteq T
  <2> HIDE DEF T
  <2> QED BY <1>1, <1>2, UpTo
<1> QED BY <1>3

\* The function f on 0..n that begins at base and takes these steps in V.
Iterates(f, V, base, n, step) ==
  f \in [0..n -> V] /\ f[0] = base /\ \A k \in 1..n : f[k] = step[k][f[k - 1]]

\* There is always such a function.
LEMMA Recursive ==
  ASSUME NEW V, NEW base \in V, NEW n \in Nat, NEW step \in [1..n -> [V -> V]]
  PROVE  \E f : Iterates(f, V, base, n, step)
<1> DEFINE Eq(f, m) == f[0] = base /\ \A k \in 1..m : f[k] = step[k][f[k - 1]]
           Has(m) == \E f \in [0..m -> V] : Eq(f, m)
           T == {m \in 0..n : Has(m)}
<1>1. 0 \in T
  <2> DEFINE f == [k \in 0..0 |-> base]
  <2>1. f \in [0..0 -> V] /\ Eq(f, 0)
    OBVIOUS
  <2> HIDE DEF f
  <2> QED BY <2>1
<1>2. ASSUME NEW m \in 0..n, m < n, m \in T PROVE m + 1 \in T
  <2>1. PICK f \in [0..m -> V] : Eq(f, m)
    BY <1>2
  <2> DEFINE g == [k \in 0..(m + 1) |-> IF k = m + 1 THEN step[k][f[m]] ELSE f[k]]
  <2>2. g \in [0..(m + 1) -> V]
    BY <1>2
  <2>3. g[0] = base
    BY <2>1, <1>2
  <2>4. ASSUME NEW k \in 1..(m + 1) PROVE g[k] = step[k][g[k - 1]]
    <3>1. g[k - 1] = f[k - 1]
      BY <1>2
    <3>2. CASE k = m + 1
      BY <3>1, <3>2, <1>2
    <3>3. CASE k # m + 1
      <4>1. k \in 1..m /\ g[k] = f[k]
        BY <3>3, <1>2
      <4> HIDE DEF g
      <4> QED BY <2>1, <3>1, <4>1
    <3> QED BY <3>2, <3>3
  <2>5. Has(m + 1)
    <3> HIDE DEF g
    <3> QED BY <2>2, <2>3, <2>4
  <2> HIDE DEF Has
  <2> QED BY <1>2, <2>5
<1>3. 0..n \subseteq T
  <2> HIDE DEF T
  <2> QED BY <1>1, <1>2, UpTo
<1>4. n \in T
  BY <1>3
<1> QED BY <1>4 DEF Iterates

-----------------------------------------------------------------------------
(* Sequences put together *)

\* A set of sequences that has the empty one and, of any two, their concatenation.
Concatenable(W) ==
  /\ <<>> \in W
  /\ \A v, w \in W : v \o w \in W
  /\ \A w \in W : <<>> \o w = w

\* FlattenSeq's function, which the sequences define.
Flattening(s) ==
  CHOOSE f : f = [i \in 1..Len(s) |-> IF i = 1 THEN s[i] ELSE f[i - 1] \o s[i]]

LEMMA Flattened ==
  ASSUME NEW W, NEW s \in Seq(W), Concatenable(W)
  PROVE  /\ Flattening(s) \in [1..Len(s) -> W]
         /\ \A i \in 1..Len(s) :
              Flattening(s)[i] = IF i = 1 THEN s[i] ELSE Flattening(s)[i - 1] \o s[i]
<1> DEFINE n == Len(s)
           step == [i \in 1..n |-> [w \in W |-> w \o s[i]]]
<1>1. n \in Nat /\ \A i \in 1..n : s[i] \in W
  OBVIOUS
<1>2. step \in [1..n -> [W -> W]]
  BY <1>1 DEF Concatenable
<1>3. PICK g \in [0..n -> W] :
        g[0] = <<>> /\ \A k \in 1..n : g[k] = step[k][g[k - 1]]
  <2> DEFINE none == <<>>
  <2>1. n \in Nat /\ none \in W
    BY DEF Concatenable
  <2> HIDE DEF step, n, none
  <2>2. \E g : Iterates(g, W, none, n, step)
    BY <1>2, <2>1, Recursive
  <2> QED BY <2>2 DEF none, Iterates
<1> DEFINE h == [i \in 1..n |-> g[i]]
           f == Flattening(s)
           Eq(a) == a = [i \in 1..n |-> IF i = 1 THEN s[i] ELSE a[i - 1] \o s[i]]
<1>4. ASSUME NEW i \in 1..n PROVE h[i] = IF i = 1 THEN s[i] ELSE h[i - 1] \o s[i]
  <2>1. i - 1 \in 0..n /\ g[i - 1] \in W
    <3> HIDE DEF n
    <3> QED BY <1>1, <1>3
  <2>2. g[i] = g[i - 1] \o s[i]
    BY <1>3, <2>1
  <2>3. h[i] = g[i] /\ (i # 1 => h[i - 1] = g[i - 1])
    BY <1>1
  <2>4. i = 1 => i - 1 = 0
    BY <1>1
  <2>5. <<>> \o s[i] = s[i]
    BY <1>1 DEF Concatenable
  <2> HIDE DEF h, n
  <2> QED BY <1>3, <2>2, <2>3, <2>4, <2>5
<1>5. Eq(h)
  BY <1>4
<1>6. Eq(f)
  <2> HIDE DEF h
  <2> QED BY <1>5 DEF Flattening
<1> HIDE DEF f, n
<1>7. \A i \in 1..n : f[i] = IF i = 1 THEN s[i] ELSE f[i - 1] \o s[i]
  BY <1>6
<1> DEFINE T == {k \in 0..n : k # 0 => f[k] \in W}
<1>8. 0 \in T
  BY <1>1
<1>9. ASSUME NEW k \in 0..n, k < n, k \in T PROVE k + 1 \in T
  <2>1. k + 1 \in 1..n /\ k + 1 \in 0..n
    BY <1>1, <1>9
  <2>2. f[k + 1] = IF k + 1 = 1 THEN s[k + 1] ELSE f[k] \o s[k + 1]
    BY <1>1, <1>7, <2>1
  <2> QED BY <1>1, <1>9, <2>1, <2>2 DEF Concatenable
<1>10. 0..n \subseteq T
  <2> HIDE DEF T
  <2> QED BY <1>1, <1>8, <1>9, UpTo
<1>11. f \in [1..n -> W]
  <2>1. \A i \in 1..n : f[i] \in W
    BY <1>1, <1>10
  <2> QED BY <1>6, <2>1
<1> QED BY <1>7, <1>11 DEF f, n

\* FlattenSeq, one sequence at a time.
LEMMA FlattenAppend ==
  ASSUME NEW W, NEW s \in Seq(W), NEW t \in W, Concatenable(W)
  PROVE  /\ FlattenSeq(s) \in W
         /\ FlattenSeq(Append(s, t)) = FlattenSeq(s) \o t
<1> DEFINE a == Append(s, t)
           n == Len(s)
           f == Flattening(s)
           g == Flattening(a)
<1>1. /\ a \in Seq(W) /\ Len(a) = n + 1 /\ n \in Nat
      /\ \A i \in 1..n : a[i] = s[i]
      /\ a[n + 1] = t
  BY AppendProperties
<1>2. /\ f \in [1..n -> W]
      /\ \A i \in 1..n : f[i] = IF i = 1 THEN s[i] ELSE f[i - 1] \o s[i]
  BY Flattened
<1>3. /\ g \in [1..(n + 1) -> W]
      /\ \A i \in 1..(n + 1) : g[i] = IF i = 1 THEN a[i] ELSE g[i - 1] \o a[i]
  <2> HIDE DEF a
  <2> QED BY <1>1, Flattened
<1>4. FlattenSeq(s) = IF n = 0 THEN <<>> ELSE f[n]
  BY DEF FlattenSeq, Flattening
<1>5. FlattenSeq(a) = g[n + 1]
  <2> HIDE DEF a
  <2> QED BY <1>1 DEF FlattenSeq, Flattening
<1> HIDE DEF a, n, f, g
<1> DEFINE T == {k \in 0..n : k # 0 => g[k] = f[k]}
<1>6. 0 \in T
  BY <1>1
<1>7. ASSUME NEW k \in 0..n, k < n, k \in T PROVE k + 1 \in T
  <2>1. k + 1 \in 1..n /\ k + 1 \in 1..(n + 1) /\ k + 1 \in 0..n /\ (k + 1) - 1 = k
    BY <1>1, <1>7
  <2>2. g[k + 1] = IF k + 1 = 1 THEN s[k + 1] ELSE g[k] \o s[k + 1]
    BY <1>1, <1>3, <2>1
  <2>3. f[k + 1] = IF k + 1 = 1 THEN s[k + 1] ELSE f[k] \o s[k + 1]
    BY <1>1, <1>2, <2>1
  <2> QED BY <1>1, <1>7, <2>1, <2>2, <2>3
<1>8. 0..n \subseteq T
  <2> HIDE DEF T
  <2> QED BY <1>1, <1>6, <1>7, UpTo
<1>9. CASE n = 0
  <2>1. g[n + 1] = t
    BY <1>1, <1>3, <1>9
  <2> QED BY <1>4, <1>5, <1>9, <2>1 DEF a, Concatenable
<1>10. CASE n # 0
  <2>1. n \in 1..n /\ n + 1 \in 1..(n + 1) /\ n + 1 # 1 /\ (n + 1) - 1 = n
    BY <1>1, <1>10
  <2>2. g[n] = f[n]
    BY <1>1, <1>8, <1>10
  <2>3. g[n + 1] = g[n] \o a[n + 1]
    BY <1>3, <2>1
  <2> QED BY <1>1, <1>2, <1>4, <1>5, <1>10, <2>1, <2>2, <2>3 DEF a, Concatenable
<1> QED BY <1>9, <1>10
================================================================================
