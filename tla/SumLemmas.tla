----------------------------- MODULE SumLemmas -----------------------------
(***************************************************************************)
(* Sums of the values of a function over a finite set, as SumFunctionOnSet *)
(* of module Functions recursively defines them: the facts by which the    *)
(* invariants on totals follow a step that adds one value.                 *)
(*                                                                         *)
(* An induction is an argument on the set of the numbers for which the     *)
(* statement holds: if 0 is in it, and n + 1 is with n, it has them all.   *)
(***************************************************************************)
EXTENDS Integers, Sequences, FiniteSets, Functions, WellFoundedInduction, FiniteSetTheorems, TLAPS

\* A set of numbers with 0 in it, and with n + 1 whenever n is in it, has all
\* of them.
LEMMA NatSetInduction ==
  ASSUME NEW N, 0 \in N, \A n \in Nat : n \in N => n + 1 \in N
  PROVE  Nat \subseteq N
<1> DEFINE Out == Nat \ N
<1> SUFFICES ASSUME Out # {} PROVE FALSE
  OBVIOUS
<1>1. PICK m \in Out : \A k \in Out : <<k, m>> \notin OpToRel(<, Nat)
  <2> HIDE DEF Out
  <2>1. Out \subseteq Nat  BY DEF Out
  <2> QED  BY <2>1, WFMin, NatLessThanWellFounded
<1>2. m \in Nat /\ m # 0 /\ m \notin N
  OBVIOUS
<1>3. m - 1 \in Out
  BY <1>2
<1>4. <<m - 1, m>> \in OpToRel(<, Nat)
  BY <1>2, SMT DEF OpToRel
<1> QED
  BY <1>1, <1>3, <1>4

One(s) == CHOOSE x \in s : TRUE

\* One step of the recursion of SumFunctionOnSet.
AddUp(fun, it, s) == IF s = {} THEN 0 ELSE fun[One(s)] + it[s \ {One(s)}]

\* it holds the sums of f over all subsets of S.
Sums(f, S, it) == it = [s \in SUBSET S |-> AddUp(f, it, s)]

Subsets(S, n) == {s \in SUBSET S : Cardinality(s) <= n}

\* A subset of at most n + 1 elements has at most n without one of them.
LEMMA SubsetWithoutOne ==
  ASSUME NEW S, IsFiniteSet(S), NEW n \in Nat, NEW s \in Subsets(S, n + 1), NEW x \in s
  PROVE  s \ {x} \in Subsets(S, n)
<1>1. s \subseteq S /\ IsFiniteSet(s) /\ Cardinality(s) \in Nat /\ Cardinality(s) <= n + 1
  BY FS_Subset, FS_CardinalityType DEF Subsets
<1>2. Cardinality(s \ {x}) = Cardinality(s) - 1
  BY <1>1, FS_RemoveElement
<1> QED BY <1>1, <1>2 DEF Subsets

\* The recursion has a solution on the subsets of at most n elements.
LEMMA SumExistsUpTo ==
  ASSUME NEW fun, NEW S, IsFiniteSet(S), NEW n \in Nat
  PROVE  \E it : it = [s \in Subsets(S, n) |-> AddUp(fun, it, s)]
<1> DEFINE N == {k \in Nat : \E it : it = [s \in Subsets(S, k) |-> AddUp(fun, it, s)]}
<1>1. 0 \in N
  <2>1. \A s \in Subsets(S, 0) : s = {}
    BY FS_EmptySet, FS_Subset, FS_CardinalityType DEF Subsets
  <2> DEFINE it == [s \in Subsets(S, 0) |-> 0]
  <2>2. it = [s \in Subsets(S, 0) |-> AddUp(fun, it, s)]
    BY <2>1 DEF AddUp
  <2> QED  BY <2>2
<1>2. ASSUME NEW k \in Nat, k \in N PROVE k + 1 \in N
  <2>1. PICK lo : lo = [s \in Subsets(S, k) |-> AddUp(fun, lo, s)]
    BY <1>2
  <2> DEFINE hi == [s \in Subsets(S, k + 1) |-> AddUp(fun, lo, s)]
  <2>2. ASSUME NEW s \in Subsets(S, k + 1) PROVE AddUp(fun, lo, s) = AddUp(fun, hi, s)
    <3>1. CASE s = {}  BY <3>1 DEF AddUp
    <3>2. CASE s # {}
      <4> DEFINE r == s \ {One(s)}
      <4>1. One(s) \in s  BY <3>2 DEF One
      <4>2. IsFiniteSet(s) /\ s \subseteq S  /\ Cardinality(s) \in Nat /\ Cardinality(s) <= k + 1
        BY FS_Subset, FS_CardinalityType DEF Subsets
      <4>3. Cardinality(r) <= k
        <5>1. Cardinality(r) = Cardinality(s) - 1  BY <4>1, <4>2, FS_RemoveElement
        <5> QED BY <5>1, <4>2
      <4>4. r \in Subsets(S, k) /\ r \in Subsets(S, k + 1)
        <5>1. Cardinality(r) \in Nat BY <4>2, FS_RemoveElement, FS_CardinalityType
        <5> QED BY <5>1, <4>2, <4>3 DEF Subsets
      <4>5. lo[r] = AddUp(fun, lo, r)
        BY <2>1, <4>4
      <4>6. hi[r] = AddUp(fun, lo, r)
        BY <4>4
      <4> QED BY <3>2, <4>5, <4>6 DEF AddUp
    <3> QED BY <3>1, <3>2
  <2>3. hi = [s \in Subsets(S, k + 1) |-> AddUp(fun, hi, s)]
    BY <2>2
  <2>4. \E it : it = [s \in Subsets(S, k + 1) |-> AddUp(fun, it, s)]
    <3> HIDE DEF hi
    <3> QED BY <2>3
  <2>5. k + 1 \in Nat  OBVIOUS
  <2> QED BY <2>4, <2>5
<1>3. Nat \subseteq N
  <2> HIDE DEF N
  <2> QED BY <1>1, <1>2, NatSetInduction
<1> QED BY <1>3

\* SumFunctionOnSet is a solution of the recursion on all subsets.
LEMMA SumFunctionDef ==
  ASSUME NEW fun, NEW S, IsFiniteSet(S)
  PROVE  \E it : Sums(fun, S, it) /\ SumFunctionOnSet(fun, S) = it[S]
<1> DEFINE It == CHOOSE it : Sums(fun, S, it)
<1>1. SumFunctionOnSet(fun, S) = It[S]
  BY DEF Sums, SumFunctionOnSet, FoldFunctionOnSet, MapThenFoldSet, AddUp, One
<1>2. Subsets(S, Cardinality(S)) = SUBSET S
  BY FS_Subset DEF Subsets
<1>3. \E it : Sums(fun, S, it)
  <2> DEFINE c == Cardinality(S)
  <2>1. c \in Nat  BY FS_CardinalityType
  <2> HIDE DEF c
  <2>2. \E it : it = [s \in Subsets(S, c) |-> AddUp(fun, it, s)]
    BY <2>1, SumExistsUpTo
  <2> QED BY <1>2, <2>2 DEF c, Sums
<1> HIDE DEF It
<1> QED BY <1>1, <1>3 DEF It

\* Solutions for functions that agree on T agree there.
LEMMA SameSums ==
  ASSUME NEW f, NEW g, NEW S, NEW T, IsFiniteSet(S), T \subseteq S,
         \A x \in T : f[x] = g[x],
         NEW a, Sums(f, S, a), NEW b, Sums(g, T, b)
  PROVE  a[T] = b[T]
<1> DEFINE N == {n \in Nat : \A s \in Subsets(T, n) : a[s] = b[s]}
<1>0. \A s \in SUBSET T : a[s] = AddUp(f, a, s) /\ b[s] = AddUp(g, b, s)
  BY DEF Sums
<1>1. 0 \in N
  <2>1. \A s \in Subsets(T, 0) : s = {}
    BY FS_EmptySet, FS_Subset, FS_CardinalityType DEF Subsets
  <2>2. a[{}] = b[{}]  BY <1>0 DEF AddUp
  <2> QED BY <2>1, <2>2
<1>2. ASSUME NEW n \in Nat, n \in N PROVE n + 1 \in N
  <2>1. ASSUME NEW s \in Subsets(T, n + 1), s # {} PROVE a[s] = b[s]
    <3> DEFINE r == s \ {One(s)}
    <3>1. One(s) \in s  BY <2>1 DEF One
    <3>2. s \subseteq T /\ Cardinality(s) <= n + 1 BY DEF Subsets
    <3>0. IsFiniteSet(T)  BY FS_Subset
    <3>3. r \in Subsets(T, n)
      BY <3>0, <3>1, SubsetWithoutOne
    <3>4. a[r] = b[r]  BY <1>2, <3>3
    <3>5. a[s] = f[One(s)] + a[r] /\ b[s] = g[One(s)] + b[r]
      BY <1>0, <2>1, <3>2 DEF AddUp
    <3> QED BY <3>1, <3>2, <3>4, <3>5
  <2>2. a[{}] = b[{}]  BY <1>0 DEF AddUp
  <2>3. n + 1 \in Nat OBVIOUS
  <2> QED BY <2>1, <2>2, <2>3
<1>3. Nat \subseteq N
  <2> HIDE DEF N
  <2> QED BY <1>1, <1>2, NatSetInduction
<1>4. T \in Subsets(T, Cardinality(T)) /\ Cardinality(T) \in Nat
  BY FS_Subset, FS_CardinalityType DEF Subsets
<1> QED BY <1>3, <1>4

\* Nothing sums up to 0.
LEMMA SumEmpty ==
  ASSUME NEW f
  PROVE  SumFunctionOnSet(f, {}) = 0
<1>1. PICK a : Sums(f, {}, a) /\ SumFunctionOnSet(f, {}) = a[{}]
  BY SumFunctionDef, FS_EmptySet
<1> QED BY <1>1 DEF Sums, AddUp

\* Functions that agree have the same sum.
LEMMA SumSame ==
  ASSUME NEW f, NEW g, NEW S, IsFiniteSet(S), \A x \in S : f[x] = g[x]
  PROVE  SumFunctionOnSet(f, S) = SumFunctionOnSet(g, S)
<1>1. PICK a : Sums(f, S, a) /\ SumFunctionOnSet(f, S) = a[S]
  BY SumFunctionDef
<1>2. PICK b : Sums(g, S, b) /\ SumFunctionOnSet(g, S) = b[S]
  BY SumFunctionDef
<1> QED BY <1>1, <1>2, SameSums

\* A sum is that of the rest and of the element chosen first.
LEMMA SumOneMore ==
  ASSUME NEW f, NEW S, IsFiniteSet(S), S # {}
  PROVE  /\ One(S) \in S
         /\ SumFunctionOnSet(f, S) = f[One(S)] + SumFunctionOnSet(f, S \ {One(S)})
<1> DEFINE T == S \ {One(S)}
<1>1. PICK a : Sums(f, S, a) /\ SumFunctionOnSet(f, S) = a[S]
  BY SumFunctionDef
<1>0. IsFiniteSet(T) BY FS_RemoveElement
<1>2. PICK b : Sums(f, T, b) /\ SumFunctionOnSet(f, T) = b[T]
  BY <1>0, SumFunctionDef
<1>3. a[T] = b[T]
  BY <1>1, <1>2, SameSums
<1>4. a[S] = AddUp(f, a, S)
  BY <1>1 DEF Sums
<1>5. One(S) \in S BY DEF One
<1> QED BY <1>1, <1>2, <1>3, <1>4, <1>5 DEF AddUp

\* A sum stays in any set that is closed under addition.
LEMMA SumType ==
  ASSUME NEW f, NEW S, IsFiniteSet(S), NEW M, 0 \in M, \A m, n \in M : m + n \in M, \A x \in S : f[x] \in M
  PROVE  SumFunctionOnSet(f, S) \in M
<1> DEFINE N == {n \in Nat : \A s \in Subsets(S, n) : SumFunctionOnSet(f, s) \in M}
<1>1. 0 \in N
  <2>1. \A s \in Subsets(S, 0) : s = {}
    BY FS_EmptySet, FS_Subset, FS_CardinalityType DEF Subsets
  <2> QED BY <2>1, SumEmpty
<1>2. ASSUME NEW n \in Nat, n \in N PROVE n + 1 \in N
  <2>1. ASSUME NEW s \in Subsets(S, n + 1), s # {} PROVE SumFunctionOnSet(f, s) \in M
    <3> DEFINE r == s \ {One(s)}
    <3>2. s \subseteq S /\ Cardinality(s) <= n + 1 /\ IsFiniteSet(s) BY FS_Subset DEF Subsets
    <3>1. One(s) \in s /\ SumFunctionOnSet(f, s) = f[One(s)] + SumFunctionOnSet(f, r) BY <2>1, <3>2, SumOneMore
    <3>3. r \in Subsets(S, n)
      BY <3>1, <3>2, SubsetWithoutOne
    <3> QED BY <1>2, <3>1, <3>2, <3>3
  <2>3. n + 1 \in Nat OBVIOUS
  <2> QED BY <2>1, <2>3, SumEmpty
<1>3. Nat \subseteq N
  <2> HIDE DEF N
  <2> QED BY <1>1, <1>2, NatSetInduction
<1>4. S \in Subsets(S, Cardinality(S)) /\ Cardinality(S) \in Nat
  BY FS_CardinalityType DEF Subsets
<1> QED BY <1>3, <1>4

\* A sum of integers is an integer.
LEMMA SumInt ==
  ASSUME NEW f, NEW S, IsFiniteSet(S), \A x \in S : f[x] \in Int
  PROVE  SumFunctionOnSet(f, S) \in Int
BY SumType, 0 \in Int, \A m, n \in Int : m + n \in Int

\* The order in which the elements are chosen makes no difference.
LEMMA SumRemove ==
  ASSUME NEW f, NEW S, IsFiniteSet(S), \A x \in S : f[x] \in Int, NEW y \in S
  PROVE  SumFunctionOnSet(f, S) = f[y] + SumFunctionOnSet(f, S \ {y})
<1> DEFINE Sum(s) == SumFunctionOnSet(f, s)
           N == {n \in Nat : \A s \in Subsets(S, n) : \A x \in s : Sum(s) = f[x] + Sum(s \ {x})}
<1> HIDE DEF Sum
<1>0. ASSUME NEW s \in SUBSET S PROVE Sum(s) \in Int /\ IsFiniteSet(s)
  BY FS_Subset, SumInt DEF Sum
<1>1. 0 \in N
  BY FS_EmptySet, FS_Subset, FS_CardinalityType DEF Subsets
<1>2. ASSUME NEW n \in Nat, n \in N PROVE n + 1 \in N
  <2>1. ASSUME NEW s \in Subsets(S, n + 1), NEW x \in s PROVE Sum(s) = f[x] + Sum(s \ {x})
    <3> DEFINE c == One(s)
               r == s \ {c}
               q == s \ {x}
    <3>2. s \subseteq S /\ Cardinality(s) <= n + 1 /\ IsFiniteSet(s) /\ s # {} BY FS_Subset DEF Subsets
    <3>1. c \in s /\ Sum(s) = f[c] + Sum(r) BY <2>1, <3>2, SumOneMore DEF Sum
    <3>3. r \in Subsets(S, n) /\ q \in Subsets(S, n)
      BY <3>1, <3>2, SubsetWithoutOne
    <3>4. CASE x = c  BY <3>4, <3>1
    <3>5. CASE x # c
      <4> HIDE DEF c
      <4>1. Sum(r) = f[x] + Sum(r \ {x}) /\ Sum(q) = f[c] + Sum(q \ {c})
        BY <1>2, <3>1, <3>3, <3>5
      <4>2. r \ {x} = q \ {c} /\ r \ {x} \in SUBSET S
        BY <3>2
      <4>3. Sum(r \ {x}) \in Int /\ f[x] \in Int /\ f[c] \in Int
        BY <4>2, <1>0, <3>1, <3>2
      <4>4. Sum(s) = f[c] + (f[x] + Sum(r \ {x})) /\ Sum(q) = f[c] + Sum(r \ {x})
        BY <4>1, <4>2, <3>1
      <4>5. \A d \in Int : f[c] + (f[x] + d) = f[x] + (f[c] + d)
        BY <4>3
      <4> QED BY <4>3, <4>4, <4>5
    <3> QED BY <3>4, <3>5
  <2>3. n + 1 \in Nat OBVIOUS
  <2> QED BY <2>1, <2>3
<1>3. Nat \subseteq N
  <2> HIDE DEF N
  <2> QED BY <1>1, <1>2, NatSetInduction
<1>4. S \in Subsets(S, Cardinality(S)) /\ Cardinality(S) \in Nat
  BY FS_CardinalityType DEF Subsets
<1> QED BY <1>3, <1>4 DEF Sum

\* A new element adds its value.
LEMMA SumAdd ==
  ASSUME NEW f, NEW S, IsFiniteSet(S), NEW y, y \notin S, \A x \in S \cup {y} : f[x] \in Int
  PROVE  SumFunctionOnSet(f, S \cup {y}) = SumFunctionOnSet(f, S) + f[y]
<1> DEFINE T == S \cup {y}
<1>1. IsFiniteSet(T) /\ y \in T /\ T \ {y} = S
  BY FS_AddElement
<1>2. \A x \in T : f[x] \in Int
  OBVIOUS
<1>3. SumFunctionOnSet(f, S) \in Int /\ f[y] \in Int
  BY SumInt
<1> HIDE DEF T
<1>4. SumFunctionOnSet(f, T) = f[y] + SumFunctionOnSet(f, T \ {y})
  BY <1>1, <1>2, SumRemove
<1>5. SumFunctionOnSet(f, T) = f[y] + SumFunctionOnSet(f, S)
  BY <1>1, <1>4
<1> QED BY <1>3, <1>5 DEF T

(* A running sum over a sequence. *)
LEMMA SumAppend ==
  ASSUME NEW s \in Seq(Int), NEW v \in Int
  PROVE  /\ SumFunction(s) \in Int
         /\ SumFunction(Append(s, v)) = SumFunction(s) + v
<1> DEFINE n == Len(s)
           t == Append(s, v)
<1>1. n \in Nat /\ DOMAIN s = 1..n /\ DOMAIN t = (1..n) \cup {n + 1} /\ n + 1 \notin 1..n
  OBVIOUS
<1>2. IsFiniteSet(1..n) 
  BY <1>1, FS_Interval
<1>3. \A i \in 1..n : s[i] = t[i] /\ s[i] \in Int /\ t[i] \in Int
  OBVIOUS
<1>4. t[n + 1] = v
  OBVIOUS
<1> HIDE DEF t, n
<1>5. SumFunctionOnSet(s, 1..n) = SumFunctionOnSet(t, 1..n)
  BY <1>2, <1>3, SumSame
<1>6. SumFunctionOnSet(t, (1..n) \cup {n + 1}) = SumFunctionOnSet(t, 1..n) + v
  BY <1>1, <1>2, <1>3, <1>4, SumAdd
<1>7. SumFunctionOnSet(s, 1..n) \in Int
  BY <1>2, <1>3, SumInt
<1> QED BY <1>1, <1>5, <1>6, <1>7 DEF SumFunction, t
=============================================================================
