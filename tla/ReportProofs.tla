---------------------------- MODULE ReportProofs ----------------------------
(***************************************************************************)
(* Theorems about Report, for every source file: what datadump adds up is  *)
(* what the split moves.  First, sums of functions over finite sets.       *)
(***************************************************************************)
EXTENDS Report, AsmXomSplitProofs, SetInduction, FiniteSetTheorems

USE ConstantsOK, OptionsOK, ModulusOK

(***************************************************************************)
(* Sums.                                                                   *)
(***************************************************************************)

\* The element SumFunctionOnSet takes next.
Pick(s) == CHOOSE x \in s : TRUE

\* g gives the sums of f over the subsets of S.
IsSum(g, f, S) ==
  g = [s \in SUBSET S |->
         IF s = {} THEN 0 ELSE f[Pick(s)] + g[s \ {Pick(s)}]]

LEMMA SumUnfolds ==
  ASSUME NEW f, NEW S
  PROVE  SumFunctionOnSet(f, S) = (CHOOSE g : IsSum(g, f, S))[S]
  BY DEF SumFunctionOnSet, FoldFunctionOnSet, MapThenFoldSet, IsSum, Pick

\* The subsets of a finite set, one element less at a time.
LEMMA Subsets ==
  ASSUME NEW S, IsFiniteSet(S), NEW s \in SUBSET S
  PROVE  /\ IsFiniteSet(s) /\ Cardinality(s) \in Nat
         /\ Cardinality(s) <= Cardinality(S) /\ Cardinality(S) \in Nat
         /\ Cardinality(s) = 0 <=> s = {}
         /\ \A x \in s : /\ s \ {x} \in SUBSET S
                         /\ Cardinality(s \ {x}) = Cardinality(s) - 1
         /\ s # {} => Pick(s) \in s
<1>1. IsFiniteSet(s) /\ Cardinality(s) <= Cardinality(S)
  BY FS_Subset
<1>2. Cardinality(s) \in Nat /\ Cardinality(S) \in Nat
  BY <1>1, FS_CardinalityType
<1>3. Cardinality(s) = 0 <=> s = {}
  BY <1>1, FS_EmptySet
<1>4. ASSUME NEW x \in s
      PROVE  s \ {x} \in SUBSET S /\ Cardinality(s \ {x}) = Cardinality(s) - 1
  BY <1>1, FS_RemoveElement
<1>5. s # {} => Pick(s) \in s
  BY DEF Pick
<1> QED BY <1>1, <1>2, <1>3, <1>4, <1>5

\* The same for the subsets of at most n elements.
Small(S, n) == {s \in SUBSET S : Cardinality(s) <= n}

IsSmallSum(g, f, S, n) ==
  g = [s \in Small(S, n) |->
         IF s = {} THEN 0 ELSE f[Pick(s)] + g[s \ {Pick(s)}]]

LEMMA SumGrows ==
  ASSUME NEW S, IsFiniteSet(S), NEW f, NEW n \in Nat, NEW g,
         IsSmallSum(g, f, S, n)
  PROVE  \E h : IsSmallSum(h, f, S, n + 1)
<1> DEFINE h == [s \in Small(S, n + 1) |->
                   IF s = {} THEN 0 ELSE f[Pick(s)] + g[s \ {Pick(s)}]]
<1>1. ASSUME NEW s \in Small(S, n)
      PROVE  s \in Small(S, n + 1) /\ h[s] = g[s]
  <2>1. s \in SUBSET S /\ Cardinality(s) <= n /\ Cardinality(s) \in Nat
    BY Subsets DEF Small
  <2>2. s \in Small(S, n + 1)
    BY <2>1 DEF Small
  <2>3. g[s] = IF s = {} THEN 0 ELSE f[Pick(s)] + g[s \ {Pick(s)}]
    BY DEF IsSmallSum
  <2> QED BY <2>2, <2>3
<1>2. ASSUME NEW s \in Small(S, n + 1), s # {}
      PROVE  s \ {Pick(s)} \in Small(S, n)
  <2>1. s \in SUBSET S /\ Cardinality(s) <= n + 1
    BY DEF Small
  <2>2. /\ Cardinality(s) \in Nat /\ s \ {Pick(s)} \in SUBSET S
        /\ Cardinality(s \ {Pick(s)}) = Cardinality(s) - 1
    BY <1>2, <2>1, Subsets
  <2> QED BY <2>1, <2>2 DEF Small
<1>3. ASSUME NEW s \in Small(S, n + 1)
      PROVE  h[s] = IF s = {} THEN 0 ELSE f[Pick(s)] + h[s \ {Pick(s)}]
  <2>1. h[s] = IF s = {} THEN 0 ELSE f[Pick(s)] + g[s \ {Pick(s)}]
    OBVIOUS
  <2> HIDE DEF h
  <2>2. s # {} => h[s \ {Pick(s)}] = g[s \ {Pick(s)}]
    BY <1>1, <1>2
  <2> QED BY <2>1, <2>2
<1>4. h = [s \in Small(S, n + 1) |-> h[s]]
  OBVIOUS
<1> HIDE DEF h
<1>5. h = [s \in Small(S, n + 1) |->
             IF s = {} THEN 0 ELSE f[Pick(s)] + h[s \ {Pick(s)}]]
  BY <1>3, <1>4
<1> QED BY <1>5 DEF IsSmallSum

LEMMA SumExists ==
  ASSUME NEW S, IsFiniteSet(S), NEW f
  PROVE  \E g : IsSum(g, f, S)
<1> DEFINE N    == Cardinality(S)
           Good == {n \in Nat : \E g : IsSmallSum(g, f, S, n)}
<1>1. N \in Nat
  BY FS_CardinalityType
<1>2. 0 \in Good
  <2> DEFINE z == [s \in Small(S, 0) |-> 0]
  <2>1. ASSUME NEW s \in Small(S, 0) PROVE s = {}
    <3>1. s \in SUBSET S /\ Cardinality(s) <= 0
      BY DEF Small
    <3>2. Cardinality(s) \in Nat /\ (Cardinality(s) = 0 <=> s = {})
      BY <3>1, Subsets
    <3>3. Cardinality(s) = 0
      BY <3>1, <3>2
    <3> QED BY <3>2, <3>3
  <2>2. z = [s \in Small(S, 0) |->
               IF s = {} THEN 0 ELSE f[Pick(s)] + z[s \ {Pick(s)}]]
    BY <2>1
  <2> HIDE DEF z
  <2>3. IsSmallSum(z, f, S, 0)
    BY <2>2 DEF IsSmallSum
  <2> QED BY <2>3
<1>3. \A k \in 0 .. N - 1 : k \in Good => k + 1 \in Good
  BY <1>1, SumGrows
<1> HIDE DEF Good
<1>4. N \in Good
  <2>1. 0 .. N \subseteq Good
    <3> HIDE DEF N
    <3> QED BY <1>1, <1>2, <1>3, Induct
  <2> QED BY <2>1, <1>1
<1>5. PICK g : IsSmallSum(g, f, S, N)
  BY <1>4 DEF Good
<1>6. Small(S, N) = SUBSET S
  BY Subsets DEF Small
<1> HIDE DEF N
<1> QED BY <1>5, <1>6 DEF IsSmallSum, IsSum

\* Any element can be taken out of the sum first.
TakesAny(g, f, S) ==
  /\ g[{}] = 0
  /\ \A s \in SUBSET S : /\ g[s] \in Nat
                         /\ \A x \in s : g[s] = f[x] + g[s \ {x}]

LEMMA SumSteps ==
  ASSUME NEW S, IsFiniteSet(S), NEW f, \A x \in S : f[x] \in Nat,
         NEW g, IsSum(g, f, S)
  PROVE  TakesAny(g, f, S)
<1> DEFINE Steps(s) == g[s] \in Nat /\ \A x \in s : g[s] = f[x] + g[s \ {x}]
           N    == Cardinality(S)
           Good == {n \in Nat : \A s \in Small(S, n) : Steps(s)}
<1>1. N \in Nat
  BY FS_CardinalityType
<1>2. \A s \in SUBSET S :
        g[s] = IF s = {} THEN 0 ELSE f[Pick(s)] + g[s \ {Pick(s)}]
  BY DEF IsSum
<1>3. g[{}] = 0
  BY <1>2
<1>4. 0 \in Good
  <2>1. ASSUME NEW s \in Small(S, 0) PROVE Steps(s)
    <3>1. s \in SUBSET S /\ Cardinality(s) <= 0
      BY DEF Small
    <3>2. Cardinality(s) \in Nat /\ (Cardinality(s) = 0 <=> s = {})
      BY <3>1, Subsets
    <3>3. s = {}
      BY <3>1, <3>2
    <3> QED BY <3>3, <1>3
  <2> QED BY <2>1
<1>5. ASSUME NEW k \in 0 .. N - 1, k \in Good PROVE k + 1 \in Good
  <2>0. k \in Nat
    BY <1>1
  <2>1. \A t \in Small(S, k) : Steps(t)
    BY <1>5
  <2>2. ASSUME NEW s \in Small(S, k + 1) PROVE Steps(s)
    <3>1. s \in SUBSET S /\ Cardinality(s) <= k + 1
      BY DEF Small
    <3>2. /\ Cardinality(s) \in Nat /\ (Cardinality(s) = 0 <=> s = {})
          /\ \A x \in s : /\ s \ {x} \in SUBSET S
                         /\ Cardinality(s \ {x}) = Cardinality(s) - 1
          /\ s # {} => Pick(s) \in s
      BY <3>1, Subsets
    <3>3. CASE s = {}
      BY <3>3, <1>3
    <3>4. CASE s # {}
      <4> DEFINE y == Pick(s)
      <4>1. y \in s /\ g[s] = f[y] + g[s \ {y}]
        BY <3>1, <3>2, <3>4, <1>2
      <4> HIDE DEF y
      <4>2. \A x \in s : s \ {x} \in Small(S, k)
        <5>1. \A x \in s : s \ {x} \in SUBSET S
                          /\ Cardinality(s \ {x}) = Cardinality(s) - 1
          BY <3>2
        <5>2. Cardinality(s) - 1 <= k
          BY <3>1, <3>2, <2>0
        <5> QED BY <5>1, <5>2 DEF Small
      <4>3. \A x \in s : /\ f[x] \in Nat /\ g[s \ {x}] \in Nat
                         /\ \A z \in s \ {x} : g[s \ {x}] =
                                                 f[z] + g[(s \ {x}) \ {z}]
        BY <4>2, <2>1, <3>1
      <4>4. g[s] \in Nat
        <5>1. f[y] \in Nat /\ g[s \ {y}] \in Nat
          BY <4>1, <4>3
        <5>2. g[s] = f[y] + g[s \ {y}]
          BY <4>1
        <5> HIDE DEF N, Good
        <5> QED BY <5>1, <5>2
      <4>5. ASSUME NEW x \in s, x # y PROVE g[s] = f[x] + g[s \ {x}]
        <5> DEFINE r == (s \ {x}) \ {y}
        <5>1. x \in s \ {y} /\ y \in s \ {x} /\ (s \ {y}) \ {x} = r
          BY <4>1, <4>5
        <5>2. g[s \ {y}] = f[x] + g[r]
          BY <4>1, <4>3, <5>1
        <5>3. g[s \ {x}] = f[y] + g[r]
          BY <4>3, <5>1
        <5>4. r \in Small(S, k)
          <6> DEFINE t == s \ {x}
          <6>1. t \in SUBSET S /\ Cardinality(t) <= k /\ y \in t /\ r = t \ {y}
            BY <4>2, <5>1 DEF Small
          <6> HIDE DEF t, r
          <6>2. /\ Cardinality(t) \in Nat
                /\ \A z \in t : /\ t \ {z} \in SUBSET S
                               /\ Cardinality(t \ {z}) = Cardinality(t) - 1
            BY <6>1, Subsets
          <6>3. r \in SUBSET S /\ Cardinality(r) = Cardinality(t) - 1
            BY <6>1, <6>2
          <6>4. Cardinality(r) <= k
            BY <6>1, <6>2, <6>3, <2>0
          <6> QED BY <6>3, <6>4 DEF Small
        <5> HIDE DEF r
        <5>5. g[r] \in Nat /\ f[x] \in Nat /\ f[y] \in Nat
          BY <5>4, <2>1, <4>1, <4>3
        <5> QED BY <4>1, <5>2, <5>3, <5>5
      <4> QED BY <4>1, <4>4, <4>5
    <3> QED BY <3>3, <3>4
  <2> QED BY <2>0, <2>2
<1>6. N \in Good
  <2>1. 0 .. N \subseteq Good
    <3> HIDE DEF N, Good
    <3> QED BY <1>1, <1>4, <1>5, Induct
  <2> QED BY <2>1, <1>1
<1>7. ASSUME NEW s \in SUBSET S PROVE Steps(s)
  <2>1. s \in Small(S, N)
    BY Subsets DEF Small
  <2> QED BY <2>1, <1>6
<1> QED BY <1>3, <1>7 DEF TakesAny

\* The sum over S that SumFunctionOnSet computes, as the last of a function of
\* sums over its subsets.
LEMMA SumIs ==
  ASSUME NEW S, IsFiniteSet(S), NEW f, \A x \in S : f[x] \in Nat
  PROVE  \E g : SumFunctionOnSet(f, S) = g[S] /\ TakesAny(g, f, S)
<1> DEFINE h == CHOOSE g : IsSum(g, f, S)
<1>1. SumFunctionOnSet(f, S) = h[S]
  BY SumUnfolds
<1>2. IsSum(h, f, S)
  BY SumExists
<1> HIDE DEF h
<1>3. TakesAny(h, f, S)
  BY <1>2, SumSteps
<1> QED BY <1>1, <1>3

(***************************************************************************)
(* A sum over entries and a sum over frags.                                *)
(***************************************************************************)

\* Each frag of P has one entry, with its bytes, or two, the first without.
Listed(E, f, P, w) ==
  /\ \A x \in E : x[1] \in P
  /\ \A i \in P :
       \/ /\ <<i, 1>> \in E /\ <<i, 2>> \notin E
          /\ f[<<i, 1>>] = w[i]
       \/ /\ <<i, 1>> \in E /\ <<i, 2>> \in E
          /\ f[<<i, 1>>] = 0 /\ f[<<i, 2>>] = w[i]

\* g and h give the sums over the entries and over the frags.
Summed(N, E, f, g, P, w, h) ==
  /\ E \in SUBSET ((1 .. N) \X {1, 2}) /\ P \in SUBSET (1 .. N)
  /\ Listed(E, f, P, w)
  /\ TakesAny(g, f, E) /\ TakesAny(h, w, P)

\* They agree as far as frag n.
Agree(E, g, P, h, n) == g[{x \in E : x[1] <= n}] = h[{i \in P : i <= n}]

\* Going on to the next frag adds the same to both sums.
LEMMA NextFrag ==
  ASSUME NEW N \in Nat, NEW E, NEW f, NEW g, NEW P, NEW w, NEW h,
         Summed(N, E, f, g, P, w, h),
         NEW k \in 0 .. N - 1, Agree(E, g, P, h, k)
  PROVE  Agree(E, g, P, h, k + 1)
<1> SUFFICES g[{x \in E : x[1] <= k + 1}] = h[{i \in P : i <= k + 1}]
  BY DEF Agree
<1>a. /\ E \in SUBSET ((1 .. N) \X {1, 2}) /\ P \in SUBSET (1 .. N)
      /\ Listed(E, f, P, w)
      /\ TakesAny(g, f, E) /\ TakesAny(h, w, P)
  BY DEF Summed
<1>b. g[{x \in E : x[1] <= k}] = h[{i \in P : i <= k}]
  BY DEF Agree
<1> USE <1>a, <1>b
<1> DEFINE n  == k + 1
           Ek == {x \in E : x[1] <= k}
           En == {x \in E : x[1] <= n}
           Pk == {i \in P : i <= k}
           Pn == {i \in P : i <= n}
<1>1. CASE n \notin P
  <2>1. Pn = Pk
    <3>1. \A i \in P : i # n /\ i \in Nat
      BY <1>1
    <3>2. \A i \in P : i <= n <=> i <= k
      BY <3>1
    <3> QED BY <3>2
  <2>2. \A x \in E : x[1] \in P /\ x[1] \in Nat
    BY DEF Listed
  <2>3. En = Ek
    BY <1>1, <2>2
  <2> QED BY <2>1, <2>3
<1>2. CASE n \in P
  <2>1. Pn \in SUBSET P /\ n \in Pn /\ Pn \ {n} = Pk
    <3>1. \A i \in P : /\ i <= n <=> i <= k \/ i = n
                       /\ ~(n <= k)
      OBVIOUS
    <3>2. n <= n
      OBVIOUS
    <3> HIDE DEF n
    <3> QED BY <1>2, <3>1, <3>2
  <2>2. h[Pn] = w[n] + h[Pk] /\ h[Pk] \in Nat /\ h[Pn] \in Nat
    <3> HIDE DEF Pn, n
    <3>1. \A s \in SUBSET P : /\ h[s] \in Nat
                             /\ \A x \in s : h[s] = w[x] + h[s \ {x}]
      BY DEF TakesAny
    <3>2. Pk \in SUBSET P
      OBVIOUS
    <3> HIDE DEF Pk
    <3> QED BY <2>1, <3>1, <3>2
  <2>3. \A s \in SUBSET E : /\ g[s] \in Nat
                            /\ \A x \in s : g[s] = f[x] + g[s \ {x}]
    BY DEF TakesAny
  <2>4. Ek \in SUBSET E /\ En \in SUBSET E
    OBVIOUS
  <2>5. \A x \in E : \/ x[1] <= k
                     \/ x[1] > n
                     \/ x = <<n, 1>>
                     \/ x = <<n, 2>>
    OBVIOUS
  <2>6. \A x \in Ek : x # <<n, 1>> /\ x # <<n, 2>>
    OBVIOUS
  <2>7. \A x \in E : x[1] <= k => x \in En
    OBVIOUS
  <2>8. \A x \in En : x[1] <= n /\ ~(x[1] > n)
    OBVIOUS
  <2>9. /\ <<n, 1>> \in E => <<n, 1>> \in En
        /\ <<n, 2>> \in E => <<n, 2>> \in En
        /\ <<n, 1>> # <<n, 2>>
    OBVIOUS
  <2>10. CASE <<n, 1>> \in E /\ <<n, 2>> \notin E /\ f[<<n, 1>>] = w[n]
    <3>1. En \ {<<n, 1>>} = Ek
      <4>1. \A x : x \in En => x \in E /\ (x \in Ek <=> x[1] <= k)
        OBVIOUS
      <4>2. \A x \in Ek : x \in En
        BY <2>7
      <4> HIDE DEF n, En, Ek
      <4> QED BY <2>5, <2>6, <2>8, <2>10, <4>1, <4>2
    <3> HIDE DEF n, En, Ek
    <3>2. g[En] = f[<<n, 1>>] + g[Ek]
      BY <2>3, <2>4, <2>9, <2>10, <3>1
    <3> QED BY <2>2, <2>10, <3>2 DEF Ek, En, n
  <2>11. CASE /\ <<n, 1>> \in E /\ <<n, 2>> \in E
              /\ f[<<n, 1>>] = 0 /\ f[<<n, 2>>] = w[n]
    <3> DEFINE Em == En \ {<<n, 1>>}
    <3>1. Em \ {<<n, 2>>} = Ek
      <4>1. \A x : x \in En => x \in E /\ (x \in Ek <=> x[1] <= k)
        OBVIOUS
      <4>2. \A x \in Ek : x \in En
        BY <2>7
      <4> HIDE DEF n, En, Ek
      <4> QED BY <2>5, <2>6, <2>8, <4>1, <4>2
    <3> HIDE DEF n, En, Ek
    <3>2. Em \in SUBSET E /\ <<n, 2>> \in Em
      BY <2>4, <2>9, <2>11
    <3>3. g[En] = f[<<n, 1>>] + g[Em]
      BY <2>3, <2>4, <2>9, <2>11
    <3>4. g[Em] = f[<<n, 2>>] + g[Ek] /\ g[Em] \in Nat
      BY <2>3, <3>1, <3>2
    <3>5. g[En] = g[Em]
      <4> HIDE DEF Em
      <4> QED BY <2>11, <3>3, <3>4
    <3> HIDE DEF Em
    <3> QED BY <2>2, <2>11, <3>4, <3>5 DEF Ek, En, n
  <2> QED BY <1>2, <2>10, <2>11 DEF Listed
<1> QED BY <1>1, <1>2

LEMMA PairsFinite ==
  ASSUME NEW N \in Nat
  PROVE  IsFiniteSet((1 .. N) \X {1, 2})
<1>1. 1 \in Int /\ 2 \in Int /\ N \in Int
  OBVIOUS
<1>2. \A b \in Int : IsFiniteSet(1 .. b)
  BY <1>1, FS_Interval
<1>3. 1 .. 2 = {1, 2}
  OBVIOUS
<1>4. IsFiniteSet({1, 2}) /\ IsFiniteSet(1 .. N)
  BY <1>1, <1>2, <1>3
<1> QED BY <1>4, FS_Product

\* Both sums are the same.
LEMMA SumByFrag ==
  ASSUME NEW N \in Nat, NEW E \in SUBSET ((1 .. N) \X {1, 2}),
         NEW P \in SUBSET (1 .. N), NEW f, NEW w, Listed(E, f, P, w),
         \A x \in E : f[x] \in Nat, \A i \in P : w[i] \in Nat
  PROVE  SumFunctionOnSet(f, E) = SumFunctionOnSet(w, P)
<1>1. IsFiniteSet(E) /\ IsFiniteSet(P)
  <2>1. IsFiniteSet(1 .. N)
    BY FS_Interval
  <2>2. IsFiniteSet((1 .. N) \X {1, 2})
    BY PairsFinite
  <2> QED BY <2>1, <2>2, FS_Subset
<1>2. PICK g : SumFunctionOnSet(f, E) = g[E] /\ TakesAny(g, f, E)
  BY <1>1, SumIs
<1>3. PICK h : SumFunctionOnSet(w, P) = h[P] /\ TakesAny(h, w, P)
  BY <1>1, SumIs
<1> DEFINE Good == {n \in 0 .. N : Agree(E, g, P, h, n)}
<1>0. \A x \in E : x[1] \in 1 .. N
  OBVIOUS
<1>4. Agree(E, g, P, h, 0)
  <2>1. {x \in E : x[1] <= 0} = {} /\ {i \in P : i <= 0} = {}
    <3>1. \A i \in 1 .. N : ~(i <= 0)
      OBVIOUS
    <3> QED BY <1>0, <3>1
  <2>2. g[{}] = 0 /\ h[{}] = 0
    BY <1>2, <1>3 DEF TakesAny
  <2> QED BY <2>1, <2>2 DEF Agree
<1>5. Summed(N, E, f, g, P, w, h)
  BY <1>2, <1>3 DEF Summed
<1>6. \A k \in 0 .. N - 1 : Agree(E, g, P, h, k) => Agree(E, g, P, h, k + 1)
  BY <1>5, NextFrag
<1>7. N \in Good
  <2>1. 0 \in Good
    BY <1>4
  <2>2. \A k \in 0 .. N - 1 : k \in Good => k + 1 \in Good
    BY <1>6
  <2>3. 0 .. N \subseteq Good
    <3> HIDE DEF Good
    <3> QED BY <2>1, <2>2, Induct
  <2> QED BY <2>3
<1>8. {x \in E : x[1] <= N} = E /\ {i \in P : i <= N} = P
  <2>1. \A i \in 1 .. N : i <= N
    OBVIOUS
  <2> QED BY <1>0, <2>1
<1>9. Agree(E, g, P, h, N)
  BY <1>7
<1>10. g[E] = h[P]
  BY <1>8, <1>9 DEF Agree
<1> QED BY <1>2, <1>3, <1>10

(***************************************************************************)
(* The entries of .xomtwo.                                                 *)
(***************************************************************************)

\* The entries of the frags the split moves, and of no others.
LEMMA EntriesListed ==
  ASSUME TypeOK, entries = [i \in FragId |-> EntriesOf(i)]
  PROVE  /\ \A x \in EntryIds : x[1] \in SplitData
         /\ \A i \in SplitData :
              \/ /\ entries[i] = <<[frag_size |-> fr_fix[i],
                                   name |-> frag_symbol[i]]>>
                 /\ <<i, 1>> \in EntryIds /\ <<i, 2>> \notin EntryIds
              \/ /\ entries[i] = <<[frag_size |-> 0, name |-> frag_anchor[i]],
                                  [frag_size |-> fr_fix[i],
                                   name |-> frag_symbol[i]]>>
                 /\ <<i, 1>> \in EntryIds /\ <<i, 2>> \in EntryIds
<1>0. SplitData \subseteq FragId /\ \A i : IsEntry(i) <=> i \in SplitData
  <2>1. last \in 1 .. MaxFrags
    BY DEF TypeOK, FragTypeOK, FragId
  <2> QED BY <2>1 DEF SplitData, IsEntry, Walked, FragId
<1>1. ASSUME NEW x \in EntryIds PROVE x[1] \in SplitData
  <2>1. x[1] \in FragId /\ x[2] \in {1, 2} /\ x[2] <= Len(entries[x[1]])
    BY DEF EntryIds
  <2>2. Len(entries[x[1]]) # 0
    BY <2>1
  <2>3. entries[x[1]] # << >>
    BY <2>2
  <2> QED BY <1>0, <2>1, <2>3 DEF EntriesOf
<1>2. ASSUME NEW i \in SplitData
      PROVE  \/ /\ entries[i] = <<[frag_size |-> fr_fix[i],
                                   name |-> frag_symbol[i]]>>
                /\ <<i, 1>> \in EntryIds /\ <<i, 2>> \notin EntryIds
             \/ /\ entries[i] = <<[frag_size |-> 0, name |-> frag_anchor[i]],
                                 [frag_size |-> fr_fix[i],
                                  name |-> frag_symbol[i]]>>
                /\ <<i, 1>> \in EntryIds /\ <<i, 2>> \in EntryIds
  <2> DEFINE own    == [frag_size |-> fr_fix[i], name |-> frag_symbol[i]]
             anchor == [frag_size |-> 0, name |-> frag_anchor[i]]
  <2>1. i \in FragId /\ (entries[i] = <<own>> \/ entries[i] = <<anchor, own>>)
    BY <1>0 DEF EntriesOf
  <2> HIDE DEF own, anchor
  <2>0. \A j \in {1, 2} : <<i, j>> \in EntryIds <=> j <= Len(entries[i])
    BY <2>1 DEF EntryIds
  <2>2. CASE entries[i] = <<own>>
    <3>1. Len(entries[i]) = 1
      BY <2>2
    <3>2. <<i, 1>> \in EntryIds /\ <<i, 2>> \notin EntryIds
      BY <2>0, <3>1
    <3> QED BY <2>2, <3>2 DEF own
  <2>3. CASE entries[i] = <<anchor, own>>
    <3>1. Len(entries[i]) = 2
      BY <2>3
    <3>2. <<i, 1>> \in EntryIds /\ <<i, 2>> \in EntryIds
      BY <2>0, <3>1
    <3> QED BY <2>3, <3>2 DEF own, anchor
  <2> QED BY <2>1, <2>2, <2>3
<1> QED BY <1>1, <1>2

\* The sizes of the entries add up to the bytes of the fixed parts, whichever
\* function w on the frags gives them.
LEMMA EntrySizes ==
  ASSUME TypeOK, entries = [i \in FragId |-> EntriesOf(i)],
         NEW w, \A i \in SplitData : w[i] = fr_fix[i]
  PROVE  SumFunction([x \in EntryIds |-> SizeOf(x)])
           = SumFunctionOnSet(w, SplitData)
<1> DEFINE f == [x \in EntryIds |-> SizeOf(x)]
<1>1. SplitData \in SUBSET (1 .. MaxFrags)
  BY DEF TypeOK, FragTypeOK, FragId, SplitData, Walked
<1>2. EntryIds \in SUBSET ((1 .. MaxFrags) \X {1, 2})
  BY DEF EntryIds, FragId
<1>3. \A i \in SplitData : fr_fix[i] \in Nat /\ w[i] \in Nat
  BY <1>1 DEF TypeOK, FragTypeOK, FragId
<1>4. Listed(EntryIds, f, SplitData, w)
  <2>1. \A x \in EntryIds : x[1] \in SplitData
    BY EntriesListed
  <2>2. ASSUME NEW i \in SplitData
        PROVE  \/ /\ <<i, 1>> \in EntryIds /\ <<i, 2>> \notin EntryIds
                  /\ f[<<i, 1>>] = w[i]
               \/ /\ <<i, 1>> \in EntryIds /\ <<i, 2>> \in EntryIds
                  /\ f[<<i, 1>>] = 0 /\ f[<<i, 2>>] = w[i]
    <3>1. \A j \in {1, 2} : <<i, j>> \in EntryIds =>
             f[<<i, j>>] = entries[i][j].frag_size
      BY DEF SizeOf
    <3> HIDE DEF f
    <3>2. CASE /\ entries[i] = <<[frag_size |-> fr_fix[i],
                                 name |-> frag_symbol[i]]>>
               /\ <<i, 1>> \in EntryIds /\ <<i, 2>> \notin EntryIds
      BY <3>1, <3>2
    <3>3. CASE /\ entries[i] = <<[frag_size |-> 0, name |-> frag_anchor[i]],
                                [frag_size |-> fr_fix[i],
                                 name |-> frag_symbol[i]]>>
               /\ <<i, 1>> \in EntryIds /\ <<i, 2>> \in EntryIds
      BY <3>1, <3>3
    <3> QED BY <3>2, <3>3, EntriesListed
  <2> HIDE DEF f
  <2> QED BY <2>1, <2>2 DEF Listed
<1>5. \A x \in EntryIds : f[x] \in Nat
  <2>1. ASSUME NEW x \in EntryIds
        PROVE  \E i \in SplitData : x = <<i, 1>> \/ x = <<i, 2>>
    <3>1. x[1] \in SplitData /\ x \in (1 .. MaxFrags) \X {1, 2}
      BY <1>2, EntriesListed
    <3> QED BY <3>1
  <2> HIDE DEF f
  <2>2. ASSUME NEW i \in SplitData
        PROVE  /\ <<i, 1>> \in EntryIds => f[<<i, 1>>] \in Nat
               /\ <<i, 2>> \in EntryIds => f[<<i, 2>>] \in Nat
    <3>1. w[i] \in Nat /\ 0 \in Nat
      BY <1>3
    <3>2. \/ f[<<i, 1>>] = w[i] /\ <<i, 2>> \notin EntryIds
          \/ f[<<i, 1>>] = 0 /\ f[<<i, 2>>] = w[i]
      BY <1>4, Zenon DEF Listed
    <3> QED BY <3>1, <3>2
  <2>3. ASSUME NEW x \in EntryIds PROVE f[x] \in Nat
    <3>1. PICK i \in SplitData : x = <<i, 1>> \/ x = <<i, 2>>
      BY <2>1
    <3>2. CASE x = <<i, 1>>
      <4>1. <<i, 1>> \in EntryIds
        BY <3>2
      <4>2. f[<<i, 1>>] \in Nat
        BY <2>2, <4>1
      <4> QED BY <3>2, <4>2
    <3>3. CASE x = <<i, 2>>
      <4>1. <<i, 2>> \in EntryIds
        BY <3>3
      <4>2. f[<<i, 2>>] \in Nat
        BY <2>2, <4>1
      <4> QED BY <3>3, <4>2
    <3> QED BY <3>1, <3>2, <3>3
  <2> QED BY <2>3
<1>6. DOMAIN f = EntryIds
  OBVIOUS
<1> HIDE DEF f
<1>7. SumFunctionOnSet(f, EntryIds) = SumFunctionOnSet(w, SplitData)
  BY <1>1, <1>2, <1>3, <1>4, <1>5, SumByFrag
<1> QED BY <1>6, <1>7 DEF SumFunction, f

\* The entries that count are one for each labelled frag.
LEMMA EntryBlocks ==
  ASSUME TypeOK, entries = [i \in FragId |-> EntriesOf(i)]
  PROVE  Cardinality({x \in EntryIds : Counted(x)})
           = Cardinality({i \in SplitData : frag_symbol[i] # NULL})
<1> DEFINE C == {x \in EntryIds : Counted(x)}
           Q == {i \in SplitData : frag_symbol[i] # NULL}
           b == [x \in C |-> x[1]]
<1>1. SplitData \in SUBSET (1 .. MaxFrags)
  BY DEF TypeOK, FragTypeOK, FragId, SplitData, Walked
<1>2. EntryIds \in SUBSET ((1 .. MaxFrags) \X {1, 2})
  BY DEF EntryIds, FragId
<1>3. \A i \in SplitData : fr_fix[i] > 0 /\ fr_fix[i] # 0
  <2>1. \A i \in SplitData : fr_fix[i] \in Nat /\ fr_fix[i] > 0
    BY <1>1 DEF TypeOK, FragTypeOK, FragId, SplitData
  <2> QED BY <2>1
\* The entry of a frag that counts, when there is one, is its last.
<1>4. ASSUME NEW i \in SplitData
      PROVE  \E m \in {1, 2} :
               /\ \A j \in {1, 2} : <<i, j>> \in C => j = m
               /\ <<i, m>> \in C <=> frag_symbol[i] # NULL
  <2>1. \A j \in {1, 2} : <<i, j>> \in C <=>
           /\ <<i, j>> \in EntryIds
           /\ entries[i][j].frag_size # 0 /\ entries[i][j].name # NULL
    BY DEF Counted, SizeOf
  <2> HIDE DEF C
  <2>2. CASE /\ entries[i] = <<[frag_size |-> fr_fix[i],
                               name |-> frag_symbol[i]]>>
             /\ <<i, 1>> \in EntryIds /\ <<i, 2>> \notin EntryIds
    <3>1. /\ entries[i][1].frag_size = fr_fix[i]
          /\ entries[i][1].name = frag_symbol[i]
      BY <2>2
    <3>2. /\ <<i, 1>> \in C <=> frag_symbol[i] # NULL
          /\ <<i, 2>> \notin C
      BY <1>3, <2>1, <2>2, <3>1
    <3> QED BY <3>2
  <2>3. CASE /\ entries[i] = <<[frag_size |-> 0, name |-> frag_anchor[i]],
                              [frag_size |-> fr_fix[i],
                               name |-> frag_symbol[i]]>>
             /\ <<i, 1>> \in EntryIds /\ <<i, 2>> \in EntryIds
    <3>1. /\ entries[i][1].frag_size = 0
          /\ entries[i][2].frag_size = fr_fix[i]
          /\ entries[i][2].name = frag_symbol[i]
      BY <2>3
    <3>2. /\ <<i, 2>> \in C <=> frag_symbol[i] # NULL
          /\ <<i, 1>> \notin C
      BY <1>3, <2>1, <2>3, <3>1
    <3> QED BY <3>2
  <2> QED BY <2>2, <2>3, EntriesListed
<1>5. ASSUME NEW x \in C
      PROVE  x[1] \in SplitData /\ x[2] \in {1, 2} /\ x = <<x[1], x[2]>>
  <2>1. x \in EntryIds /\ x[1] \in SplitData
    BY EntriesListed
  <2>2. x \in (1 .. MaxFrags) \X {1, 2}
    BY <1>2, <2>1
  <2> QED BY <2>1, <2>2
<1>6. IsFiniteSet(C)
  <2>2. IsFiniteSet((1 .. MaxFrags) \X {1, 2})
    BY PairsFinite DEF ConstantsOK
  <2>3. C \subseteq (1 .. MaxFrags) \X {1, 2}
    BY <1>2
  <2> HIDE DEF C
  <2> QED BY <2>2, <2>3, FS_Subset
<1> HIDE DEF C
<1>7. ASSUME NEW x \in C, NEW y \in C, x[1] = y[1] PROVE x = y
  <2>1. PICK m \in {1, 2} : \A j \in {1, 2} : <<x[1], j>> \in C => j = m
    BY <1>4, <1>5
  <2>2. x[2] = m /\ y[2] = m
    BY <1>5, <1>7, <2>1
  <2> QED BY <1>5, <1>7, <2>2
<1>8. ASSUME NEW x \in C PROVE x[1] \in Q
  <2>1. PICK m \in {1, 2} :
          /\ \A j \in {1, 2} : <<x[1], j>> \in C => j = m
          /\ <<x[1], m>> \in C <=> frag_symbol[x[1]] # NULL
    BY <1>4, <1>5
  <2>2. <<x[1], m>> \in C
    BY <1>5, <2>1
  <2> QED BY <1>5, <2>1, <2>2
<1>9. ASSUME NEW i \in Q PROVE \E x \in C : x[1] = i
  <2>1. PICK m \in {1, 2} : <<i, m>> \in C
    BY <1>4
  <2>2. <<i, m>>[1] = i
    OBVIOUS
  <2> QED BY <2>1, <2>2
<1>10. b \in Bijection(C, Q)
  <2> HIDE DEF Q
  <2>1. b \in [C -> Q] /\ \A x \in C : b[x] = x[1]
    BY <1>8
  <2>2. DOMAIN b = C
    OBVIOUS
  <2> HIDE DEF b
  <2>3. b \in Injection(C, Q)
    BY <1>7, <2>1, <2>2 DEF Injection, IsInjective
  <2>4. b \in Surjection(C, Q)
    BY <1>9, <2>1 DEF Surjection
  <2> QED BY <2>3, <2>4 DEF Bijection
<1>11. ExistsBijection(C, Q)
  <2> HIDE DEF Q, b
  <2> QED BY <1>10 DEF ExistsBijection
<1>12. Cardinality(Q) = Cardinality(C)
  <2> HIDE DEF Q
  <2> QED BY <1>6, <1>11, FS_Bijection
<1> QED BY <1>12 DEF C

(***************************************************************************)
(* The report.                                                             *)
(***************************************************************************)

\* The table is printed when the object file has been written, and then
\* nothing it was made from changes.
ReportInv ==
  report # NULL =>
    /\ phase = "done" /\ DCollect
    /\ report.data_size = SumFunction([x \in EntryIds |-> SizeOf(x)])
    /\ report.data_block = Cardinality({x \in EntryIds : Counted(x)})

\* datadump runs on what the assembler wrote and does not change it.
LEMMA ReportAssembles == ReportSpec => Spec
<1>1. ReportInit => Init
  BY DEF ReportInit
<1>2. [ReportNext]_reportVars => [Next]_vars
  BY DEF ReportNext, reportVars, Dump
<1> QED BY <1>1, <1>2, PTL DEF ReportSpec, Spec

\* Behind the end of write_object_file only stuttering is left.
LEMMA DoneStays ==
  ASSUME phase = "done", Next
  PROVE  UNCHANGED vars
  BY ReadPhase DEF Next, ParseSymbols, ParseFrags, Split, Done

\* What the table is made of follows from the state of the assembler.
LEMMA ReportKept ==
  ASSUME UNCHANGED vars, UNCHANGED report, ReportInv
  PROVE  ReportInv'
<1>1. UNCHANGED <<phase, entries>>
  BY DEF vars, writeVars
<1>2. EntryIds' = EntryIds
  BY <1>1 DEF EntryIds
<1>3. \A x : SizeOf(x)' = SizeOf(x) /\ (Counted(x)' <=> Counted(x))
  BY <1>1 DEF SizeOf, Counted
<1>4. /\ [x \in EntryIds |-> SizeOf(x)]' = [x \in EntryIds |-> SizeOf(x)]
      /\ {x \in EntryIds : Counted(x)}' = {x \in EntryIds : Counted(x)}
  BY <1>2, <1>3
<1>5. /\ SumFunction([x \in EntryIds |-> SizeOf(x)])'
           = SumFunction([x \in EntryIds |-> SizeOf(x)])
      /\ Cardinality({x \in EntryIds : Counted(x)})'
           = Cardinality({x \in EntryIds : Counted(x)})
  BY <1>4
<1> QED BY <1>1, <1>5 DEF ReportInv

LEMMA ReportKnown == ReportSpec => []ReportInv
<1>1. ReportInit => ReportInv
  BY DEF ReportInit, ReportInv
<1>2. ReportInv /\ [ReportNext]_reportVars => ReportInv'
  <2> SUFFICES ASSUME ReportInv, [ReportNext]_reportVars PROVE ReportInv'
    OBVIOUS
  <2>1. CASE UNCHANGED reportVars
    BY <2>1, ReportKept DEF reportVars
  <2>2. CASE Next /\ UNCHANGED report /\ report = NULL
    BY <2>2 DEF ReportInv
  <2>3. CASE Next /\ UNCHANGED report /\ report # NULL
    <3>1. UNCHANGED vars
      BY <2>3, DoneStays DEF ReportInv
    <3> QED BY <2>3, <3>1, ReportKept
  <2>4. CASE Dump
    <3>1. UNCHANGED <<vars, phase, entries>> /\ phase = "done" /\ DCollect
      BY <2>4 DEF Dump, vars, writeVars
    <3>2. EntryIds' = EntryIds
      BY <3>1 DEF EntryIds
    <3>3. \A x : SizeOf(x)' = SizeOf(x) /\ (Counted(x)' <=> Counted(x))
      BY <3>1 DEF SizeOf, Counted
    <3>4. /\ [x \in EntryIds |-> SizeOf(x)]' = [x \in EntryIds |-> SizeOf(x)]
          /\ {x \in EntryIds : Counted(x)}' = {x \in EntryIds : Counted(x)}
      BY <3>2, <3>3
    <3>5. /\ report'.data_size = SumFunction([x \in EntryIds |-> SizeOf(x)])
          /\ report'.data_block = Cardinality({x \in EntryIds : Counted(x)})
      BY <2>4 DEF Dump
    <3>6. /\ report'.data_size = SumFunction([x \in EntryIds |-> SizeOf(x)])'
          /\ report'.data_block = Cardinality({x \in EntryIds : Counted(x)})'
      BY <3>4, <3>5
    <3> QED BY <3>1, <3>6 DEF ReportInv
  <2> QED BY <2>1, <2>2, <2>3, <2>4 DEF ReportNext
<1> QED BY <1>1, <1>2, PTL DEF ReportSpec

\* Without reserved bytes the bytes of data of the frags that move are those
\* of their fixed parts.
LEMMA DataFixed ==
  ASSUME TypeOK, \A i \in SplitData : Reserved(i) = 0
  PROVE  \A i \in SplitData : DataBytes[i] = fr_fix[i]
<1>1. \A i \in SplitData : i \in FragId /\ fr_fix[i] \in Nat
  BY DEF TypeOK, FragTypeOK, FragId, SplitData, Walked
<1> QED BY <1>1 DEF DataBytes

\* Of the embedded data that --fiy-dsplit takes out of .text datadump prints,
\* for every source file, the number of labelled pieces, and the number of
\* bytes of all pieces as long as none that moves ends in a .space or .zero:
\* the anchors add to neither, and the entries, written before the split, are
\* still those of the frags that then move.
THEOREM ReportIsExact == ReportSpec => []ReportsWhatMoved
<1>1. TypeOK /\ SplitInv /\ ReportInv => ReportsWhatMoved
  <2> SUFFICES ASSUME TypeOK, SplitInv, ReportInv, report # NULL, DSplit
               PROVE  /\ (\A i \in Pieces : Reserved(i) = 0) =>
                           report.data_size = SumFunctionOnSet(DataBytes, Pieces)
                      /\ report.data_block =
                           Cardinality({i \in Pieces : frag_symbol[i] # NULL})
    BY DEF ReportsWhatMoved
  <2>1. /\ phase = "done" /\ DCollect
        /\ report.data_size = SumFunction([x \in EntryIds |-> SizeOf(x)])
        /\ report.data_block = Cardinality({x \in EntryIds : Counted(x)})
    BY DEF ReportInv
  <2>2. entries = [i \in FragId |-> EntriesOf(i)]
    BY <2>1 DEF SplitInv, EntriesCurrent
  <2>3. moved = SplitData \cup SplitAlign
    BY <2>1 DEF SplitInv, MovedIsSplit
  <2>4. Pieces = SplitData
    BY <2>3 DEF Pieces, SplitData, SplitAlign
  <2>5. ASSUME \A i \in Pieces : Reserved(i) = 0
        PROVE  report.data_size = SumFunctionOnSet(DataBytes, Pieces)
    <3>1. \A i \in SplitData : DataBytes[i] = fr_fix[i]
      BY <2>4, <2>5, DataFixed
    <3>2. SumFunction([x \in EntryIds |-> SizeOf(x)])
            = SumFunctionOnSet(DataBytes, SplitData)
      BY <2>2, <3>1, EntrySizes
    <3> QED BY <2>1, <2>4, <3>2
  <2>6. report.data_block = Cardinality({i \in SplitData : frag_symbol[i] # NULL})
    BY <2>1, <2>2, EntryBlocks
  <2> QED BY <2>4, <2>5, <2>6
<1> QED BY <1>1, ReportAssembles, ReportKnown, SplitAgrees, PTL
=============================================================================
