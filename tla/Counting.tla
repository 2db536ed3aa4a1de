------------------------------ MODULE Counting ------------------------------
(***************************************************************************)
(* Lemmas about the four seats of a card game, and about the sums of the    *)
(* community modules, which the proofs about Spades and Hearts share.       *)
(***************************************************************************)
EXTENDS Integers, Functions, FiniteSetTheorems, WellFoundedInduction, TLAPS

-----------------------------------------------------------------------------
(* Four seats *)

Four == 0 .. 3

\* How many of the four seats hold.
HowMany(f) == Cardinality({s \in Four : f[s]})

LEMMA FourFinite == IsFiniteSet(Four) /\ Cardinality(Four) = 4
<1>1. 0 \in Int /\ 3 \in Int
    OBVIOUS
<1>2. IsFiniteSet(0 .. 3) /\ Cardinality(0 .. 3) = IF 0 > 3 THEN 0 ELSE 3 - 0 + 1
    BY <1>1, FS_Interval, Zenon
<1> QED
    BY <1>2 DEF Four

\* HowMany counts to four, one at a time, and is four when all seats hold.
LEMMA HowManyCounts ==
    ASSUME NEW f \in [Four -> BOOLEAN]
    PROVE  /\ HowMany(f) \in 0 .. 4
           /\ HowMany(f) = 4 => \A s \in Four : f[s]
           /\ (\A s \in Four : f[s]) => HowMany(f) = 4
           /\ (\A s \in Four : ~f[s]) => HowMany(f) = 0
           /\ \A s \in Four : ~f[s] => HowMany([f EXCEPT ![s] = TRUE]) = HowMany(f) + 1
<1> DEFINE H == {s \in Four : f[s]}
<1>1. H \in SUBSET Four
    OBVIOUS
<1>2. IsFiniteSet(H) /\ Cardinality(H) <= 4 /\ (Cardinality(H) = 4 => H = Four)
    BY <1>1, FourFinite, FS_Subset
<1>3. Cardinality(H) \in Nat
    BY <1>2, FS_CardinalityType
<1>4. ASSUME NEW s \in Four, ~f[s] PROVE HowMany([f EXCEPT ![s] = TRUE]) = HowMany(f) + 1
    <2>1. {t \in Four : [f EXCEPT ![s] = TRUE][t]} = H \cup {s}
        OBVIOUS
    <2>2. Cardinality(H \cup {s}) = Cardinality(H) + 1
        BY <1>2, <1>4, FS_AddElement
    <2> QED
        BY <2>1, <2>2 DEF HowMany
<1>5. /\ (\A s \in Four : f[s]) => H = Four
      /\ H = Four => \A s \in Four : f[s]
    OBVIOUS
<1>6. (\A s \in Four : ~f[s]) => Cardinality(H) = 0
    <2>1. (\A s \in Four : ~f[s]) => H = {}
        OBVIOUS
    <2> QED
        BY <2>1, FS_EmptySet
<1>7. Cardinality(H) = HowMany(f)
    BY DEF HowMany
<1> HIDE DEF H
<1> QED
    BY <1>2, <1>3, <1>4, <1>5, <1>6, <1>7, FourFinite

\* HowMany is a sum of ones and zeros.
LEMMA HowManySum ==
    ASSUME NEW f \in [Four -> BOOLEAN]
    PROVE  HowMany(f) = (IF f[0] THEN 1 ELSE 0) + (IF f[1] THEN 1 ELSE 0)
                        + (IF f[2] THEN 1 ELSE 0) + (IF f[3] THEN 1 ELSE 0)
<1> DEFINE H(n) == {s \in 0 .. n - 1 : f[s]}
<1>1. \A n \in 0 .. 3 : H(n + 1) = IF f[n] THEN H(n) \cup {n} ELSE H(n)
    BY DEF Four
<1>2. H(0) = {} /\ \A n \in 0 .. 3 : n \notin H(n)
    OBVIOUS
<1>3. H(4) = {s \in Four : f[s]}
    BY DEF Four
<1> HIDE DEF H
<1>4. \A n \in 0 .. 3 : IsFiniteSet(H(n)) =>
          /\ IsFiniteSet(H(n + 1))
          /\ Cardinality(H(n + 1)) = Cardinality(H(n)) + (IF f[n] THEN 1 ELSE 0)
    <2> SUFFICES ASSUME NEW n \in 0 .. 3, IsFiniteSet(H(n))
                 PROVE  /\ IsFiniteSet(H(n + 1))
                        /\ Cardinality(H(n + 1)) = Cardinality(H(n)) + (IF f[n] THEN 1 ELSE 0)
        OBVIOUS
    <2>1. Cardinality(H(n)) \in Nat
        BY FS_CardinalityType
    <2>2. CASE f[n]
        <3>1. H(n + 1) = H(n) \cup {n} /\ n \notin H(n)
            BY <1>1, <1>2, <2>2
        <3> QED
            BY <2>1, <2>2, <3>1, FS_AddElement
    <2>3. CASE ~f[n]
        BY <1>1, <2>1, <2>3
    <2> QED
        BY <2>2, <2>3
<1>5. IsFiniteSet(H(0)) /\ Cardinality(H(0)) = 0
    BY <1>2, FS_EmptySet
<1>6. IsFiniteSet(H(1)) /\ Cardinality(H(1)) = (IF f[0] THEN 1 ELSE 0)
    BY <1>4, <1>5
<1>7. IsFiniteSet(H(2)) /\ Cardinality(H(2)) = Cardinality(H(1)) + (IF f[1] THEN 1 ELSE 0)
    BY <1>4, <1>6
<1>8. IsFiniteSet(H(3)) /\ Cardinality(H(3)) = Cardinality(H(2)) + (IF f[2] THEN 1 ELSE 0)
    BY <1>4, <1>7
<1>9. Cardinality(H(4)) = Cardinality(H(3)) + (IF f[3] THEN 1 ELSE 0)
    BY <1>4, <1>8
<1> QED
    BY <1>3, <1>6, <1>7, <1>8, <1>9 DEF HowMany

\* One of the seats that contend has a value no other beats.
LEMMA BestSeat ==
    ASSUME NEW f \in [Four -> Int], NEW S \in SUBSET Four, S # {}
    PROVE  \E s \in S : \A t \in S : f[s] >= f[t]
<1> SUFFICES ASSUME \A s \in S : \E t \in S : f[t] > f[s] PROVE FALSE
    OBVIOUS
<1>1. PICK a \in S : TRUE
    OBVIOUS
<1>2. PICK b \in S : f[b] > f[a]
    OBVIOUS
<1>3. PICK c \in S : f[c] > f[b]
    OBVIOUS
<1>4. PICK d \in S : f[d] > f[c]
    OBVIOUS
<1>5. PICK e \in S : f[e] > f[d]
    OBVIOUS
<1> QED
    BY <1>2, <1>3, <1>4, <1>5 DEF Four

\* Going round the table from any seat one comes to each.
LEMMA EveryPlace ==
    ASSUME NEW from \in Four, NEW t \in Four
    PROVE  \E i \in Four : t = (from + i) % 4
<1> DEFINE i == (t + 4 - from) % 4
<1>1. i \in Four
    BY DEF Four
<1>2. t = (from + i) % 4
    BY DEF Four
<1> HIDE DEF i
<1> QED
    BY <1>1, <1>2

-----------------------------------------------------------------------------
(* Sums over a finite set.  The library's induction takes an operator, which   *)
(* the provers cannot give it; these two take a set.                           *)

\* Induction on the natural numbers.
LEMMA CountingUp ==
    ASSUME NEW P \in SUBSET Nat, 0 \in P, \A n \in P : n + 1 \in P
    PROVE  \A n \in Nat : n \in P
<1> DEFINE Q == Nat \ P
<1>1. Q \in SUBSET Nat
    OBVIOUS
<1> SUFFICES ASSUME Q # {} PROVE FALSE
    OBVIOUS
<1>2. \E n \in Q : \A m \in Q : ~(<<m, n>> \in OpToRel(<, Nat))
    <2> HIDE DEF Q
    <2> QED
        BY <1>1, NatLessThanWellFounded, WFMin
<1>3. PICK n \in Q : \A m \in Q : ~(m < n)
    <2> HIDE DEF Q
    <2> QED
        BY <1>1, <1>2 DEF OpToRel
<1>4. n \in Nat /\ n \notin P
    BY <1>3
<1>5. n # 0 /\ n - 1 \in Nat /\ n - 1 < n
    BY <1>4
<1>6. n - 1 \in P
    BY <1>3, <1>5
<1>7. n - 1 + 1 = n
    BY <1>4
<1> QED
    BY <1>4, <1>6, <1>7

\* Induction on the subsets of a finite set: P has all of them, if it has each of
\* which it has the subsets smaller by one element.
LEMMA TakingAway ==
    ASSUME NEW S, IsFiniteSet(S), NEW P \in SUBSET (SUBSET S),
           \A T \in SUBSET S : (\A x \in T : T \ {x} \in P) => T \in P
    PROVE  \A T \in SUBSET S : T \in P
<1> DEFINE N == {n \in Nat : \A T \in SUBSET S : Cardinality(T) = n => T \in P}
<1>1. \A T \in SUBSET S : /\ IsFiniteSet(T) /\ Cardinality(T) \in Nat
                          /\ Cardinality(T) = 0 => T = {}
    BY FS_Subset, FS_CardinalityType, FS_EmptySet
<1>2. 0 \in N
    <2>1. {} \in P
        OBVIOUS
    <2> QED
        BY <1>1, <2>1
<1>3. ASSUME NEW n \in N PROVE n + 1 \in N
    <2> SUFFICES ASSUME NEW T \in SUBSET S, Cardinality(T) = n + 1 PROVE T \in P
        BY DEF N
    <2>1. ASSUME NEW x \in T PROVE T \ {x} \in P
        <3>1. Cardinality(T \ {x}) = Cardinality(T) - 1
            BY <1>1, FS_RemoveElement
        <3>2. Cardinality(T \ {x}) = n
            BY <3>1
        <3> QED
            BY <3>2
    <2> QED
        BY <2>1
<1>4. \A n \in Nat : n \in N
    <2>1. N \in SUBSET Nat
        OBVIOUS
    <2> HIDE DEF N
    <2> QED
        BY <1>2, <1>3, <2>1, CountingUp
<1> QED
    BY <1>1, <1>4

Picked(T) == CHOOSE x \in T : TRUE

\* What the fold computes for each subset of S, and how.
AddsUp(g, f, T) == g[T] = IF T = {} THEN 0 ELSE f[Picked(T)] + g[T \ {Picked(T)}]

\* There is such a function.
LEMMA SumsExist ==
    ASSUME NEW S, IsFiniteSet(S), NEW f, \A x \in S : f[x] \in Int
    PROVE  \E g \in [SUBSET S -> Int] : \A T \in SUBSET S : AddsUp(g, f, T)
<1> DEFINE N == {n \in Nat : \E g \in [SUBSET S -> Int] :
                    \A T \in SUBSET S : Cardinality(T) <= n => AddsUp(g, f, T)}
<1>1. \A T \in SUBSET S : IsFiniteSet(T) /\ Cardinality(T) \in Nat /\ (Cardinality(T) = 0 <=> T = {})
    BY FS_Subset, FS_CardinalityType, FS_EmptySet
<1>2. \A T \in SUBSET S : T # {} => /\ Picked(T) \in T /\ f[Picked(T)] \in Int
                                    /\ T \ {Picked(T)} \in SUBSET S
                                    /\ Cardinality(T \ {Picked(T)}) = Cardinality(T) - 1
    <2> SUFFICES ASSUME NEW T \in SUBSET S, T # {}
                 PROVE  /\ Picked(T) \in T /\ f[Picked(T)] \in Int
                        /\ T \ {Picked(T)} \in SUBSET S
                        /\ Cardinality(T \ {Picked(T)}) = Cardinality(T) - 1
        OBVIOUS
    <2>1. Picked(T) \in T
        BY DEF Picked
    <2> QED
        BY <1>1, <2>1, FS_RemoveElement
<1>3. 0 \in N
    <2> DEFINE g == [T \in SUBSET S |-> 0]
    <2>1. g \in [SUBSET S -> Int] /\ \A T \in SUBSET S : Cardinality(T) <= 0 => AddsUp(g, f, T)
        BY <1>1 DEF AddsUp
    <2> QED
        BY <2>1
<1>4. ASSUME NEW n \in N PROVE n + 1 \in N
    <2>1. PICK g \in [SUBSET S -> Int] : \A T \in SUBSET S : Cardinality(T) <= n => AddsUp(g, f, T)
        OBVIOUS
    <2> DEFINE h == [T \in SUBSET S |-> IF T = {} THEN 0 ELSE f[Picked(T)] + g[T \ {Picked(T)}]]
    <2>2. h \in [SUBSET S -> Int]
        <3>1. \A T \in SUBSET S : (IF T = {} THEN 0 ELSE f[Picked(T)] + g[T \ {Picked(T)}]) \in Int
            BY <1>2
        <3> QED
            BY <3>1
    <2>3. \A T \in SUBSET S : Cardinality(T) <= n => h[T] = g[T]
        BY <2>1 DEF AddsUp
    <2>4. \A T \in SUBSET S : h[T] = IF T = {} THEN 0 ELSE f[Picked(T)] + g[T \ {Picked(T)}]
        OBVIOUS
    <2> HIDE DEF h
    <2>5. ASSUME NEW T \in SUBSET S, Cardinality(T) <= n + 1 PROVE AddsUp(h, f, T)
        <3>1. CASE T = {}
            BY <2>4, <3>1 DEF AddsUp
        <3>2. CASE T # {}
            <4>1. h[T \ {Picked(T)}] = g[T \ {Picked(T)}]
                BY <1>1, <1>2, <2>3, <2>5, <3>2
            <4> QED
                BY <2>4, <3>2, <4>1 DEF AddsUp
        <3> QED
            BY <3>1, <3>2
    <2> QED
        BY <2>2, <2>5
<1>5. \A n \in Nat : n \in N
    <2>1. N \in SUBSET Nat
        OBVIOUS
    <2> HIDE DEF N
    <2> QED
        BY <1>3, <1>4, <2>1, CountingUp
<1>6. Cardinality(S) \in N
    BY <1>1, <1>5
<1>7. \A T \in SUBSET S : Cardinality(T) <= Cardinality(S)
    BY FS_Subset
<1> QED
    BY <1>6, <1>7

\* The sum over any subset is a number; over none it is zero, and an element adds
\* its value, whichever the library's CHOOSE takes first.
LEMMA SumSteps ==
    ASSUME NEW S, IsFiniteSet(S), NEW f, \A x \in S : f[x] \in Int
    PROVE  /\ \A T \in SUBSET S : SumFunctionOnSet(f, T) \in Int
           /\ SumFunctionOnSet(f, {}) = 0
           /\ \A T \in SUBSET S : \A x \in T :
                  SumFunctionOnSet(f, T) = f[x] + SumFunctionOnSet(f, T \ {x})
<1>1. PICK g \in [SUBSET S -> Int] : \A T \in SUBSET S : AddsUp(g, f, T)
    BY SumsExist
<1>2. \A T \in SUBSET S : T # {} => Picked(T) \in T
    BY DEF Picked
<1>3. ASSUME NEW T \in SUBSET S PROVE SumFunctionOnSet(f, T) = g[T]
    <2> DEFINE Fold(h) == [U \in SUBSET T |->
                              IF U = {} THEN 0 ELSE f[Picked(U)] + h[U \ {Picked(U)}]]
               iter == CHOOSE h : h = Fold(h)
               P == {U \in SUBSET T : iter[U] = g[U]}
               h0 == [U \in SUBSET T |-> g[U]]
    <2>1. SumFunctionOnSet(f, T) = iter[T]
        BY DEF SumFunctionOnSet, FoldFunctionOnSet, MapThenFoldSet, Picked
    <2>2. h0 = Fold(h0)
        <3>1. ASSUME NEW U \in SUBSET T
              PROVE  g[U] = IF U = {} THEN 0 ELSE f[Picked(U)] + h0[U \ {Picked(U)}]
            <4>1. U \ {Picked(U)} \in SUBSET T /\ U \in SUBSET S
                OBVIOUS
            <4>2. h0[U \ {Picked(U)}] = g[U \ {Picked(U)}]
                BY <4>1
            <4> QED
                BY <1>1, <4>1, <4>2 DEF AddsUp
        <3> QED
            BY <3>1
    <2>3. iter = Fold(iter)
        <3> HIDE DEF h0
        <3> QED
            BY <2>2
    <2> HIDE DEF iter
    <2>4. \A U \in SUBSET T : iter[U] = IF U = {} THEN 0 ELSE f[Picked(U)] + iter[U \ {Picked(U)}]
        BY <2>3
    <2>5. ASSUME NEW U \in SUBSET T, \A x \in U : U \ {x} \in P PROVE U \in P
        <3>1. g[U] = IF U = {} THEN 0 ELSE f[Picked(U)] + g[U \ {Picked(U)}]
            BY <1>1 DEF AddsUp
        <3>2. U # {} => iter[U \ {Picked(U)}] = g[U \ {Picked(U)}]
            BY <1>2, <2>5
        <3> QED
            BY <2>4, <3>1, <3>2
    <2>6. T \in P
        <3>1. IsFiniteSet(T) /\ P \in SUBSET (SUBSET T) /\ T \in SUBSET T
            BY FS_Subset
        <3> HIDE DEF P
        <3> QED
            BY <2>5, <3>1, TakingAway
    <2> QED
        BY <2>1, <2>6
<1>4. ASSUME NEW T \in SUBSET S, NEW x \in T PROVE g[T] = f[x] + g[T \ {x}]
    <2> DEFINE P == {U \in SUBSET S : \A z \in U : g[U] = f[z] + g[U \ {z}]}
    <2>1. ASSUME NEW U \in SUBSET S, \A z \in U : U \ {z} \in P PROVE U \in P
        <3> SUFFICES ASSUME NEW z \in U PROVE g[U] = f[z] + g[U \ {z}]
            OBVIOUS
        <3> DEFINE y == Picked(U)
        <3>1. y \in U /\ g[U] = f[y] + g[U \ {y}]
            BY <1>1, <1>2 DEF AddsUp
        <3> HIDE DEF y
        <3>2. CASE z = y
            BY <3>1, <3>2
        <3>3. CASE z # y
            <4>1. g[U \ {y}] = f[z] + g[(U \ {y}) \ {z}]
                BY <2>1, <3>1, <3>3
            <4>2. g[U \ {z}] = f[y] + g[(U \ {z}) \ {y}]
                BY <2>1, <3>1, <3>3
            <4>3. (U \ {y}) \ {z} = (U \ {z}) \ {y}
                OBVIOUS
            <4>4. g[U \ {z}] = f[y] + g[(U \ {y}) \ {z}]
                BY <4>2, <4>3
            <4>5. f[z] \in Int /\ f[y] \in Int /\ g[(U \ {y}) \ {z}] \in Int
                BY <3>1
            <4>6. g[U] = f[y] + (f[z] + g[(U \ {y}) \ {z}])
                BY <3>1, <4>1
            <4>7. g[U] = f[z] + (f[y] + g[(U \ {y}) \ {z}])
                BY <4>5, <4>6
            <4> QED
                BY <4>4, <4>7
        <3> QED
            BY <3>2, <3>3
    <2>2. T \in P
        <3>1. P \in SUBSET (SUBSET S)
            OBVIOUS
        <3> HIDE DEF P
        <3> QED
            BY <2>1, <3>1, TakingAway
    <2> QED
        BY <2>2
<1>5. g[{}] = 0
    BY <1>1 DEF AddsUp
<1> QED
    BY <1>3, <1>4, <1>5

\* Of equal functions the sums are equal, and a sum of functions is that of sums.
LEMMA SumAdds ==
    ASSUME NEW S, IsFiniteSet(S), NEW e, NEW f, NEW g,
           \A x \in S : f[x] \in Int /\ g[x] \in Int /\ e[x] = f[x] + g[x]
    PROVE  SumFunctionOnSet(e, S) = SumFunctionOnSet(f, S) + SumFunctionOnSet(g, S)
<1> DEFINE P == {T \in SUBSET S :
                    SumFunctionOnSet(e, T) = SumFunctionOnSet(f, T) + SumFunctionOnSet(g, T)}
<1>1. \A x \in S : e[x] \in Int
    OBVIOUS
<1>2. ASSUME NEW T \in SUBSET S, \A x \in T : T \ {x} \in P PROVE T \in P
    <2>1. CASE T = {}
        BY <1>1, <2>1, SumSteps
    <2>2. CASE T # {}
        <3>1. PICK x \in T : TRUE
            BY <2>2
        <3>2. T \ {x} \in P /\ x \in S /\ T \ {x} \in SUBSET S
            BY <1>2
        <3>3. /\ SumFunctionOnSet(e, T) = e[x] + SumFunctionOnSet(e, T \ {x})
              /\ SumFunctionOnSet(f, T) = f[x] + SumFunctionOnSet(f, T \ {x})
              /\ SumFunctionOnSet(g, T) = g[x] + SumFunctionOnSet(g, T \ {x})
              /\ SumFunctionOnSet(f, T \ {x}) \in Int /\ SumFunctionOnSet(g, T \ {x}) \in Int
            BY <1>1, <3>2, SumSteps
        <3> QED
            BY <3>2, <3>3
    <2> QED
        BY <2>1, <2>2
<1>3. P \in SUBSET (SUBSET S) /\ S \in SUBSET S
    OBVIOUS
<1>4. S \in P
    <2> HIDE DEF P
    <2> QED
        BY <1>2, <1>3, TakingAway
<1> QED
    BY <1>4

\* A function that is nowhere less than another has no lesser sum, and the same sum
\* only if it is the same.
LEMMA SumGrows ==
    ASSUME NEW S, IsFiniteSet(S), NEW f, NEW g,
           \A x \in S : f[x] \in Int /\ g[x] \in Int /\ f[x] <= g[x]
    PROVE  /\ SumFunctionOnSet(f, S) <= SumFunctionOnSet(g, S)
           /\ SumFunctionOnSet(f, S) = SumFunctionOnSet(g, S) => \A x \in S : f[x] = g[x]
<1> DEFINE P == {T \in SUBSET S :
                    /\ SumFunctionOnSet(f, T) <= SumFunctionOnSet(g, T)
                    /\ SumFunctionOnSet(f, T) = SumFunctionOnSet(g, T)
                           => \A x \in T : f[x] = g[x]}
<1>1. (\A x \in S : f[x] \in Int) /\ (\A x \in S : g[x] \in Int)
    OBVIOUS
<1>2. ASSUME NEW T \in SUBSET S, \A x \in T : T \ {x} \in P PROVE T \in P
    <2>1. CASE T = {}
        BY <2>1, SumSteps
    <2>2. CASE T # {}
        <3>1. ASSUME NEW x \in T
              PROVE  /\ SumFunctionOnSet(f, T) <= SumFunctionOnSet(g, T)
                     /\ SumFunctionOnSet(f, T) = SumFunctionOnSet(g, T) => f[x] = g[x]
            <4>1. T \ {x} \in P /\ x \in S /\ T \ {x} \in SUBSET S
                BY <1>2
            <4>2. /\ SumFunctionOnSet(f, T) = f[x] + SumFunctionOnSet(f, T \ {x})
                  /\ SumFunctionOnSet(f, T \ {x}) \in Int
                BY <1>1, <4>1, SumSteps
            <4>3. /\ SumFunctionOnSet(g, T) = g[x] + SumFunctionOnSet(g, T \ {x})
                  /\ SumFunctionOnSet(g, T \ {x}) \in Int
                BY <1>1, <4>1, SumSteps
            <4>4. SumFunctionOnSet(f, T \ {x}) <= SumFunctionOnSet(g, T \ {x})
                BY <4>1
            <4> QED
                BY <4>1, <4>2, <4>3, <4>4
        <3> QED
            BY <2>2, <3>1
    <2> QED
        BY <2>1, <2>2
<1>3. P \in SUBSET (SUBSET S) /\ S \in SUBSET S
    OBVIOUS
<1>4. S \in P
    <2> HIDE DEF P
    <2> QED
        BY <1>2, <1>3, TakingAway
<1> QED
    BY <1>4

\* Where a function is zero it does not count.
LEMMA SumWithin ==
    ASSUME NEW S, IsFiniteSet(S), NEW A \in SUBSET S, NEW f, NEW g,
           \A x \in S : f[x] = IF x \in A THEN g[x] ELSE 0,
           \A x \in A : g[x] \in Int
    PROVE  SumFunctionOnSet(f, S) = SumFunctionOnSet(g, A)
<1> DEFINE P == {T \in SUBSET S : SumFunctionOnSet(f, T) = SumFunctionOnSet(g, T \cap A)}
<1>1. \A x \in S : f[x] \in Int
    OBVIOUS
<1>0. IsFiniteSet(A)
    BY FS_Subset
<1>2. ASSUME NEW T \in SUBSET S, \A x \in T : T \ {x} \in P PROVE T \in P
    <2>1. CASE T = {}
        <3>1. T \cap A = {}
            BY <2>1
        <3> QED
            BY <1>0, <1>1, <2>1, <3>1, SumSteps
    <2>2. CASE T # {}
        <3>1. PICK x \in T : TRUE
            BY <2>2
        <3>2. T \ {x} \in P /\ x \in S /\ T \ {x} \in SUBSET S /\ T \cap A \in SUBSET A
            BY <1>2
        <3>3. /\ SumFunctionOnSet(f, T) = f[x] + SumFunctionOnSet(f, T \ {x})
              /\ SumFunctionOnSet(f, T \ {x}) \in Int
            BY <1>1, <3>2, SumSteps
        <3>4. CASE x \in A
            <4>1. (T \ {x}) \cap A = (T \cap A) \ {x} /\ x \in T \cap A /\ f[x] = g[x]
                BY <3>2, <3>4
            <4>2. SumFunctionOnSet(g, T \cap A) = g[x] + SumFunctionOnSet(g, (T \cap A) \ {x})
                BY <1>0, <3>2, <4>1, SumSteps
            <4> QED
                BY <3>2, <3>3, <4>1, <4>2
        <3>5. CASE x \notin A
            <4>1. (T \ {x}) \cap A = T \cap A /\ f[x] = 0
                BY <3>2, <3>5
            <4>2. SumFunctionOnSet(f, T) = SumFunctionOnSet(f, T \ {x})
                BY <3>3, <4>1
            <4>3. SumFunctionOnSet(f, T \ {x}) = SumFunctionOnSet(g, T \cap A)
                BY <3>2, <4>1
            <4> QED
                BY <4>2, <4>3
        <3> QED
            BY <3>4, <3>5
    <2> QED
        BY <2>1, <2>2
<1>3. P \in SUBSET (SUBSET S) /\ S \in SUBSET S /\ S \cap A = A
    OBVIOUS
<1>4. S \in P
    <2> HIDE DEF P
    <2> QED
        BY <1>2, <1>3, TakingAway
<1> QED
    BY <1>3, <1>4

\* A sum of ones counts.
LEMMA SumOfOnes ==
    ASSUME NEW S, IsFiniteSet(S), NEW f, \A x \in S : f[x] = 1
    PROVE  SumFunctionOnSet(f, S) = Cardinality(S)
<1> DEFINE P == {T \in SUBSET S : SumFunctionOnSet(f, T) = Cardinality(T)}
<1>1. ASSUME NEW T \in SUBSET S, \A x \in T : T \ {x} \in P PROVE T \in P
    <2>1. CASE T = {}
        BY <2>1, SumSteps, FS_EmptySet
    <2>2. CASE T # {}
        <3>1. PICK x \in T : TRUE
            BY <2>2
        <3>2. T \ {x} \in P /\ x \in S
            BY <1>1
        <3>3. IsFiniteSet(T) /\ Cardinality(T) \in Nat
            BY FS_Subset, FS_CardinalityType
        <3>4. Cardinality(T \ {x}) = Cardinality(T) - 1
            BY <3>3, FS_RemoveElement
        <3>5. SumFunctionOnSet(f, T) = f[x] + SumFunctionOnSet(f, T \ {x})
            BY <3>2, SumSteps
        <3> QED
            BY <3>2, <3>3, <3>4, <3>5
    <2> QED
        BY <2>1, <2>2
<1>2. P \in SUBSET (SUBSET S) /\ S \in SUBSET S
    OBVIOUS
<1>3. S \in P
    <2> HIDE DEF P
    <2> QED
        BY <1>1, <1>2, TakingAway
<1> QED
    BY <1>3
=============================================================================
