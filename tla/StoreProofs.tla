---------------------------- MODULE StoreProofs ----------------------------
(***************************************************************************)
(* Induction over finite sets, and what it shows of the sums that the      *)
(* invariants use: over the partitions of a buffer, the batches of the     *)
(* workers, the minutes of a day.  Store: what a committed InsertBatch     *)
(* preserves, for batches of any size and any set of ids, names and users. *)
(***************************************************************************)
EXTENDS Store, Functions, FiniteSetTheorems, TLAPS

\* A leaf goes to Zenon for two seconds, then to the SMT solver.
USE ZenonT(2), SMTT(30)

\* A set of naturals that is not empty has a least element...
LEMMA LeastNatural ==
    ASSUME NEW S \in SUBSET Nat, S # {}
    PROVE  \E m \in S : \A n \in S : m <= n
<1> DEFINE R == OpToRel(<, Nat)
<1>1. IsWellFoundedOn(R, Nat)
    BY NatLessThanWellFounded, ZenonT(30)
<1> HIDE DEF R
<1>2. PICK m \in S : \A n \in S : <<n, m>> \notin R
    BY <1>1, WFMin, ZenonT(30)
<1>3. ASSUME NEW n \in S PROVE ~(n < m)
    <2>1. <<n, m>> \in Nat \X Nat
        OBVIOUS
    <2> QED  BY <1>2, <2>1 DEF R, OpToRel
<1> QED  BY <1>3

\* ...so a set that holds 0 and with every number the next one is Nat.
LEMMA NatSetInduction ==
    ASSUME NEW P \in SUBSET Nat, 0 \in P, \A n \in P : n + 1 \in P
    PROVE  P = Nat
<1> SUFFICES ASSUME Nat \ P # {} PROVE FALSE
    OBVIOUS
<1>1. PICK m \in Nat \ P : \A n \in Nat \ P : m <= n
    BY LeastNatural
<1>2. m # 0 /\ m - 1 \in Nat /\ (m - 1) + 1 = m /\ ~(m <= m - 1)
    BY <1>1
<1> QED  BY <1>1, <1>2

\* Induction over the subsets of a finite set: each one is in P when those that
\* have one element less are.
LEMMA SubsetInduction ==
    ASSUME NEW S, IsFiniteSet(S), NEW P,
           \A s \in SUBSET S : (\A x \in s : s \ {x} \in P) => s \in P
    PROVE  \A s \in SUBSET S : s \in P
<1> DEFINE Q == {n \in Nat : \A s \in SUBSET S : Cardinality(s) = n => s \in P}
<1>1. \A s \in SUBSET S : IsFiniteSet(s) /\ Cardinality(s) \in Nat
    BY FS_Subset, FS_CardinalityType
<1>2. 0 \in Q
    <2> SUFFICES ASSUME NEW s \in SUBSET S, Cardinality(s) = 0 PROVE s \in P
        OBVIOUS
    <2>1. s = {}
        BY <1>1, FS_EmptySet
    <2> QED  BY <2>1
<1>3. ASSUME NEW n \in Q PROVE n + 1 \in Q
    <2> SUFFICES ASSUME NEW s \in SUBSET S, Cardinality(s) = n + 1 PROVE s \in P
        OBVIOUS
    <2>1. ASSUME NEW x \in s PROVE s \ {x} \in P
        <3>1. Cardinality(s \ {x}) = n
            BY <1>1, FS_RemoveElement
        <3> QED  BY <3>1
    <2> QED  BY <2>1
<1> HIDE DEF Q
<1>4. Q = Nat
    <2>1. Q \in SUBSET Nat BY DEF Q
    <2> QED BY <1>2, <1>3, <2>1, NatSetInduction
<1> QED  BY <1>1, <1>4 DEF Q

\* In a finite set with a strict order some element has none after it.
LEMMA MaximalExists ==
    ASSUME NEW T, IsFiniteSet(T), NEW R,
           \A t \in T : <<t, t>> \notin R,
           \A t, u, v \in T : <<t, u>> \in R /\ <<u, v>> \in R => <<t, v>> \in R
    PROVE  \A S \in SUBSET T : S # {} => \E t \in S : \A u \in S : <<t, u>> \notin R
<1> DEFINE P == {S \in SUBSET T : S # {} => \E t \in S : \A u \in S : <<t, u>> \notin R}
<1>1. ASSUME NEW S \in SUBSET T, \A x \in S : S \ {x} \in P PROVE S \in P
    <2> SUFFICES ASSUME S # {} PROVE \E t \in S : \A u \in S : <<t, u>> \notin R
        OBVIOUS
    <2>1. PICK x \in S : TRUE
        OBVIOUS
    <2>2. CASE S = {x}
        BY <2>2
    <2>3. CASE S # {x}
        <3>1. PICK m \in S \ {x} : \A u \in S \ {x} : <<m, u>> \notin R
            BY <1>1, <2>1, <2>3
        <3>2. CASE <<m, x>> \notin R
            BY <3>1, <3>2
        <3>3. CASE <<m, x>> \in R
            <4>1. ASSUME NEW u \in S, <<x, u>> \in R PROVE FALSE
                <5>1. u # x /\ <<m, u>> \in R
                    BY <3>3, <4>1
                <5> QED  BY <3>1, <5>1
            <4> QED  BY <4>1
        <3> QED  BY <3>2, <3>3
    <2> QED  BY <2>2, <2>3
<1> HIDE DEF P
<1>2. \A S \in SUBSET T : S \in P
    BY <1>1, SubsetInduction
<1> QED  BY <1>2 DEF P

\* A recursion over the subsets of a set, as the folds of the community modules do it:
\* pick[s] is the element that is taken off s, step[x][v] what x makes of the rest's v.
Rec(step, pick, base, g, s) ==
    IF s = {} THEN base ELSE step[pick[s]][g[s \ {pick[s]}]]
Picks(S, pick) == \A s \in SUBSET S : s # {} => pick[s] \in s
Steps(S, V, step) == \A x \in S : \A v \in V : step[x][v] \in V
Solvable(S, V, step, pick, base) ==
    \E g \in [SUBSET S -> V] : \A s \in SUBSET S : g[s] = Rec(step, pick, base, g, s)

\* On a finite set the recursion has a solution, by induction over the size.
LEMMA RecursionExists ==
    ASSUME NEW S, IsFiniteSet(S), NEW V, NEW base \in V, NEW pick, NEW step,
           Picks(S, pick), Steps(S, V, step)
    PROVE  Solvable(S, V, step, pick, base)
<1> DEFINE P == {n \in Nat : \E g \in [SUBSET S -> V] : \A s \in SUBSET S :
                    Cardinality(s) <= n => g[s] = Rec(step, pick, base, g, s)}
<1>1. \A s \in SUBSET S : IsFiniteSet(s) /\ Cardinality(s) \in Nat
    BY FS_Subset, FS_CardinalityType
<1>2. 0 \in P
    <2>1. \A s \in SUBSET S : Cardinality(s) <= 0 => s = {}
        BY <1>1, FS_EmptySet
    <2>2. [s \in SUBSET S |-> base] \in [SUBSET S -> V]
        OBVIOUS
    <2> QED  BY <2>1, <2>2 DEF Rec
<1>3. ASSUME NEW n \in P PROVE n + 1 \in P
    <2> PICK g \in [SUBSET S -> V] : \A s \in SUBSET S :
            Cardinality(s) <= n => g[s] = Rec(step, pick, base, g, s)
        OBVIOUS
    <2> DEFINE h == [s \in SUBSET S |->
                        IF Cardinality(s) <= n THEN g[s] ELSE Rec(step, pick, base, g, s)]
    <2>1. ASSUME NEW s \in SUBSET S, s # {}
          PROVE  /\ pick[s] \in S /\ s \ {pick[s]} \in SUBSET S
                 /\ Cardinality(s \ {pick[s]}) = Cardinality(s) - 1
        BY <1>1, <2>1, FS_RemoveElement DEF Picks
    <2>2. ASSUME NEW s \in SUBSET S PROVE Rec(step, pick, base, g, s) \in V
        <3>1. CASE s = {}
            BY <3>1 DEF Rec
        <3>2. CASE s # {}
            <4>1. pick[s] \in S /\ g[s \ {pick[s]}] \in V
                BY <2>1, <3>2
            <4> QED  BY <3>2, <4>1 DEF Rec, Steps
        <3> QED  BY <3>1, <3>2
    <2>3. h \in [SUBSET S -> V]
        BY <2>2
    <2>4. ASSUME NEW s \in SUBSET S, Cardinality(s) <= n + 1
          PROVE  h[s] = Rec(step, pick, base, h, s)
        <3>1. CASE s = {}
            <4>1. Cardinality(s) <= n
                BY <3>1, FS_EmptySet
            <4> QED  BY <3>1, <4>1 DEF Rec
        <3>2. CASE s # {}
            <4>1. Cardinality(s \ {pick[s]}) <= n
                BY <1>1, <2>1, <2>4, <3>2
            <4>2. h[s \ {pick[s]}] = g[s \ {pick[s]}]
                BY <2>1, <3>2, <4>1
            <4>3. Rec(step, pick, base, h, s) = Rec(step, pick, base, g, s)
                BY <3>2, <4>2 DEF Rec
            <4> QED  BY <4>3
        <3> QED  BY <3>1, <3>2
    <2> HIDE DEF h
    <2> QED  BY <2>3, <2>4
<1> HIDE DEF P
<1>4. Cardinality(S) \in P
    <2>1. P \in SUBSET Nat BY DEF P
    <2>2. P = Nat BY <1>2, <1>3, <2>1, NatSetInduction
    <2> QED  BY <1>1, <2>2
<1>5. PICK g \in [SUBSET S -> V] : \A s \in SUBSET S :
        Cardinality(s) <= Cardinality(S) => g[s] = Rec(step, pick, base, g, s)
    BY <1>4 DEF P
<1>6. \A s \in SUBSET S : Cardinality(s) <= Cardinality(S)
    BY FS_Subset
<1> QED  BY <1>5, <1>6 DEF Solvable

\* The recursion, for a sum.
Pick(s) == CHOOSE x \in s : TRUE
Body(f, g, s) == IF s = {} THEN 0 ELSE f[Pick(s)] + g[s \ {Pick(s)}]
Summing(f, S, g) ==
    g = [s \in SUBSET S |-> Body(f, g, s)]

\* SumFunctionOnSet is defined by the recursion of Summing.
LEMMA SumIs ==
    ASSUME NEW f, NEW S
    PROVE SumFunctionOnSet(f, S) = (CHOOSE g : Summing(f, S, g))[S]
BY ZenonT(30) DEF SumFunctionOnSet, FoldFunctionOnSet, MapThenFoldSet, Summing, Body, Pick

\* The element the recursion takes first.
LEMMA PickIn == ASSUME NEW s, s # {} PROVE Pick(s) \in s
BY DEF Pick

\* On a finite set the recursion has a solution...
LEMMA SummingExists ==
    ASSUME NEW S, IsFiniteSet(S), NEW f, \A x \in S : f[x] \in Int
    PROVE  \E g \in [SUBSET S -> Int] : Summing(f, S, g)
<1> DEFINE pick == [s \in SUBSET S |-> Pick(s)]
           step == [x \in S |-> [v \in Int |-> f[x] + v]]
<1>1. \A s \in SUBSET S : pick[s] = Pick(s) /\ (s # {} => pick[s] \in s)
    BY PickIn
<1>2. \A x \in S : \A v \in Int : step[x][v] = f[x] + v /\ step[x][v] \in Int
    OBVIOUS
<1>3. 0 \in Int
    OBVIOUS
<1> HIDE DEF pick, step
<1>4. PICK g \in [SUBSET S -> Int] : \A s \in SUBSET S : g[s] = Rec(step, pick, 0, g, s)
    <2>1. Picks(S, pick)
        BY <1>1 DEF Picks
    <2>2. Steps(S, Int, step)
        BY <1>2 DEF Steps
    <2>3. Solvable(S, Int, step, pick, 0)
        BY <1>3, <2>1, <2>2, RecursionExists
    <2> QED  BY <2>3 DEF Solvable
<1>5. ASSUME NEW s \in SUBSET S PROVE g[s] = Body(f, g, s)
    <2>1. CASE s = {}
        BY <1>4, <2>1 DEF Rec, Body
    <2>2. CASE s # {}
        <3>1. pick[s] = Pick(s) /\ Pick(s) \in S /\ g[s \ {Pick(s)}] \in Int
            BY <1>1, <2>2
        <3>2. g[s] = step[Pick(s)][g[s \ {Pick(s)}]]
            BY <1>4, <2>2, <3>1 DEF Rec
        <3>3. step[Pick(s)][g[s \ {Pick(s)}]] = f[Pick(s)] + g[s \ {Pick(s)}]
            BY <1>2, <3>1
        <3> QED  BY <2>2, <3>2, <3>3 DEF Body
    <2> QED  BY <2>1, <2>2
<1>6. g = [s \in SUBSET S |-> Body(f, g, s)]
    BY <1>5
<1> QED  BY <1>6 DEF Summing

\* ...and its solutions on a set and on a subset of it agree on the subset.
LEMMA SummingAgrees ==
    ASSUME NEW S, IsFiniteSet(S), NEW f, NEW g, Summing(f, S, g),
           NEW T \in SUBSET S, NEW h, Summing(f, T, h)
    PROVE  \A s \in SUBSET T : g[s] = h[s]
<1> DEFINE P == {s \in SUBSET T : g[s] = h[s]}
<1>1. ASSUME NEW s \in SUBSET T, \A x \in s : s \ {x} \in P PROVE s \in P
    <2>1. g[s] = Body(f, g, s) /\ h[s] = Body(f, h, s)
        BY DEF Summing
    <2>2. s # {} => g[s \ {Pick(s)}] = h[s \ {Pick(s)}]
        BY <1>1, PickIn
    <2> QED  BY <2>1, <2>2 DEF Body
<1>2. IsFiniteSet(T)
    BY FS_Subset
<1> HIDE DEF P
<1>3. \A s \in SUBSET T : s \in P
    BY <1>1, <1>2, SubsetInduction
<1> QED  BY <1>3 DEF P

\* A sum is an integer, and the recursion takes one summand off it.
LEMMA SumPick ==
    ASSUME NEW S, IsFiniteSet(S), NEW f, \A x \in S : f[x] \in Int
    PROVE  /\ SumFunctionOnSet(f, S) \in Int
           /\ S # {} => SumFunctionOnSet(f, S) = f[Pick(S)] + SumFunctionOnSet(f, S \ {Pick(S)})
<1>1. ASSUME NEW T \in SUBSET S
      PROVE  \E g \in [SUBSET T -> Int] : Summing(f, T, g) /\ SumFunctionOnSet(f, T) = g[T]
    <2>1. PICK g \in [SUBSET T -> Int] : Summing(f, T, g)
        BY FS_Subset, SummingExists
    <2> DEFINE c == CHOOSE h : Summing(f, T, h)
    <2>2. Summing(f, T, c)
        BY <2>1
    <2> HIDE DEF c
    <2>3. c[T] = g[T]
        BY <2>1, <2>2, FS_Subset, SummingAgrees
    <2> QED  BY <2>1, <2>3, SumIs DEF c
<1>2. PICK g \in [SUBSET S -> Int] : Summing(f, S, g) /\ SumFunctionOnSet(f, S) = g[S]
    BY <1>1
<1>3. ASSUME S # {} PROVE SumFunctionOnSet(f, S) = f[Pick(S)] + SumFunctionOnSet(f, S \ {Pick(S)})
    <2>1. PICK h \in [SUBSET (S \ {Pick(S)}) -> Int] :
            Summing(f, S \ {Pick(S)}, h) /\ SumFunctionOnSet(f, S \ {Pick(S)}) = h[S \ {Pick(S)}]
        BY <1>1
    <2>2. g[S \ {Pick(S)}] = h[S \ {Pick(S)}]
        BY <1>2, <2>1, SummingAgrees
    <2>3. g[S] = f[Pick(S)] + g[S \ {Pick(S)}]
        BY <1>2, <1>3 DEF Summing, Body
    <2> QED  BY <1>2, <2>1, <2>2, <2>3
<1> QED  BY <1>2, <1>3

\* The sum over nothing.
LEMMA SumEmpty == ASSUME NEW f PROVE SumFunctionOnSet(f, {}) = 0
<1>1. PICK g \in [SUBSET {} -> Int] : Summing(f, {}, g)
    BY FS_EmptySet, SummingExists
<1>2. Summing(f, {}, CHOOSE h : Summing(f, {}, h))
    BY <1>1
<1> QED  BY <1>2, SumIs DEF Summing, Body

\* Any summand can be taken off first: the order leaves no trace.
LEMMA SumRemove ==
    ASSUME NEW S, IsFiniteSet(S), NEW f, \A x \in S : f[x] \in Int
    PROVE  \A x \in S : SumFunctionOnSet(f, S) = f[x] + SumFunctionOnSet(f, S \ {x})
<1> DEFINE P == {s \in SUBSET S :
                    \A x \in s : SumFunctionOnSet(f, s) = f[x] + SumFunctionOnSet(f, s \ {x})}
<1>1. \A s \in SUBSET S :
        /\ SumFunctionOnSet(f, s) \in Int
        /\ s # {} => SumFunctionOnSet(f, s) = f[Pick(s)] + SumFunctionOnSet(f, s \ {Pick(s)})
    BY FS_Subset, SumPick
<1>2. ASSUME NEW s \in SUBSET S, \A x \in s : s \ {x} \in P PROVE s \in P
    <2> SUFFICES ASSUME NEW x \in s, x # Pick(s)
                 PROVE  SumFunctionOnSet(f, s) = f[x] + SumFunctionOnSet(f, s \ {x})
        BY <1>1
    <2> PICK y \in s : y = Pick(s)
        BY PickIn
    <2>1. SumFunctionOnSet(f, s) = f[y] + SumFunctionOnSet(f, s \ {y})
        BY <1>1
    <2>2. SumFunctionOnSet(f, s \ {y}) = f[x] + SumFunctionOnSet(f, (s \ {y}) \ {x})
        BY <1>2
    <2>3. SumFunctionOnSet(f, s \ {x}) = f[y] + SumFunctionOnSet(f, (s \ {x}) \ {y})
        BY <1>2
    <2>4. (s \ {y}) \ {x} = (s \ {x}) \ {y} /\ (s \ {x}) \ {y} \in SUBSET S
        OBVIOUS
    <2>5. PICK z \in Int : z = SumFunctionOnSet(f, (s \ {x}) \ {y})
        BY <1>1, <2>4
    <2>6. f[x] \in Int /\ f[y] \in Int
        OBVIOUS
    <2>7. f[y] + (f[x] + z) = f[x] + (f[y] + z)
        BY <2>6
    <2> QED  BY <2>1, <2>2, <2>3, <2>4, <2>5, <2>7
<1> HIDE DEF P
<1>3. \A s \in SUBSET S : s \in P
    BY <1>2, SubsetInduction
<1> QED  BY <1>3 DEF P

\* The sum of zeros.
LEMMA SumZero ==
    ASSUME NEW S, IsFiniteSet(S), NEW f, \A x \in S : f[x] = 0
    PROVE  SumFunctionOnSet(f, S) = 0
<1> DEFINE P == {s \in SUBSET S : SumFunctionOnSet(f, s) = 0}
<1>1. ASSUME NEW s \in SUBSET S, \A x \in s : s \ {x} \in P PROVE s \in P
    <2>1. CASE s = {}
        BY <2>1, SumEmpty
    <2>2. CASE s # {}
        <3>1. PICK x \in s : TRUE
            BY <2>2
        <3>2. IsFiniteSet(s) /\ \A y \in s : f[y] \in Int
            BY FS_Subset
        <3>3. SumFunctionOnSet(f, s) = f[x] + SumFunctionOnSet(f, s \ {x})
            BY <3>2, SumRemove
        <3>4. SumFunctionOnSet(f, s \ {x}) = 0 /\ f[x] = 0
            BY <1>1
        <3> QED  BY <3>3, <3>4
    <2> QED  BY <2>1, <2>2
<1> HIDE DEF P
<1>2. \A s \in SUBSET S : s \in P
    BY <1>1, SubsetInduction
<1> QED  BY <1>2 DEF P

\* Equal summands, equal sums.
LEMMA SumSame ==
    ASSUME NEW S, IsFiniteSet(S), NEW f, NEW g, \A x \in S : f[x] \in Int /\ f[x] = g[x]
    PROVE  SumFunctionOnSet(f, S) = SumFunctionOnSet(g, S)
<1> DEFINE P == {s \in SUBSET S : SumFunctionOnSet(f, s) = SumFunctionOnSet(g, s)}
<1>1. ASSUME NEW s \in SUBSET S, \A x \in s : s \ {x} \in P PROVE s \in P
    <2>1. IsFiniteSet(s) /\ \A x \in s : f[x] \in Int /\ g[x] \in Int
        BY FS_Subset
    <2>2. CASE s = {}
        BY <2>2, SumEmpty
    <2>3. CASE s # {}
        <3>1. PICK x \in s : TRUE
            BY <2>3
        <3>2. SumFunctionOnSet(f, s) = f[x] + SumFunctionOnSet(f, s \ {x})
            BY <2>1, SumRemove
        <3>3. SumFunctionOnSet(g, s) = g[x] + SumFunctionOnSet(g, s \ {x})
            BY <2>1, SumRemove
        <3> QED  BY <1>1, <3>2, <3>3
    <2> QED  BY <2>2, <2>3
<1> HIDE DEF P
<1>2. \A s \in SUBSET S : s \in P
    BY <1>1, SubsetInduction
<1> QED  BY <1>2 DEF P

\* One summand changes: the sum changes by as much.
LEMMA SumUpdate ==
    ASSUME NEW S, IsFiniteSet(S), NEW x \in S, NEW f, NEW g,
           \A y \in S : f[y] \in Int /\ g[y] \in Int,
           \A y \in S \ {x} : f[y] = g[y]
    PROVE  /\ SumFunctionOnSet(f, S) \in Int /\ SumFunctionOnSet(g, S) \in Int
           /\ SumFunctionOnSet(g, S) = SumFunctionOnSet(f, S) + g[x] - f[x]
<1>1. SumFunctionOnSet(f, S) = f[x] + SumFunctionOnSet(f, S \ {x})
    BY SumRemove
<1>2. SumFunctionOnSet(g, S) = g[x] + SumFunctionOnSet(g, S \ {x})
    BY SumRemove
<1>3. IsFiniteSet(S \ {x})
    BY FS_RemoveElement
<1>4. /\ SumFunctionOnSet(f, S \ {x}) = SumFunctionOnSet(g, S \ {x})
      /\ SumFunctionOnSet(f, S \ {x}) \in Int
    BY <1>3, SumSame, SumPick
<1>5. SumFunctionOnSet(f, S) \in Int /\ SumFunctionOnSet(g, S) \in Int
    BY SumPick
<1> QED  BY <1>1, <1>2, <1>4, <1>5

\* No summand shrinks: neither does the sum.
LEMMA SumGrows ==
    ASSUME NEW S, IsFiniteSet(S), NEW f, NEW g,
           \A x \in S : f[x] \in Int /\ g[x] \in Int /\ f[x] <= g[x]
    PROVE  SumFunctionOnSet(f, S) <= SumFunctionOnSet(g, S)
<1> DEFINE P == {s \in SUBSET S : SumFunctionOnSet(f, s) <= SumFunctionOnSet(g, s)}
<1>1. ASSUME NEW s \in SUBSET S, \A x \in s : s \ {x} \in P PROVE s \in P
    <2>1. IsFiniteSet(s) /\ \A x \in s : f[x] \in Int /\ g[x] \in Int
        BY FS_Subset
    <2>2. CASE s = {}
        <3>1. SumFunctionOnSet(f, s) = 0 /\ SumFunctionOnSet(g, s) = 0
            BY <2>2, SumEmpty
        <3> QED  BY <3>1
    <2>3. CASE s # {}
        <3>1. PICK x \in s : TRUE
            BY <2>3
        <3>2. SumFunctionOnSet(f, s) = f[x] + SumFunctionOnSet(f, s \ {x})
            BY <2>1, SumRemove
        <3>3. SumFunctionOnSet(g, s) = g[x] + SumFunctionOnSet(g, s \ {x})
            BY <2>1, SumRemove
        <3>4. IsFiniteSet(s \ {x})
            BY <2>1, FS_RemoveElement
        <3>5. SumFunctionOnSet(f, s \ {x}) \in Int /\ SumFunctionOnSet(g, s \ {x}) \in Int
            BY <2>1, <3>4, SumPick
        <3>6. SumFunctionOnSet(f, s \ {x}) <= SumFunctionOnSet(g, s \ {x})
            BY <1>1
        <3> QED  BY <2>1, <3>2, <3>3, <3>5, <3>6
    <2> QED  BY <2>2, <2>3
<1> HIDE DEF P
<1>2. \A s \in SUBSET S : s \in P
    BY <1>1, SubsetInduction
<1> QED  BY <1>2 DEF P

\* The sizes of disjoint finite sets add up to the size of their union.
LEMMA SumOfSizes ==
    ASSUME NEW S, IsFiniteSet(S), NEW C, NEW f,
           \A x \in S : IsFiniteSet(C[x]) /\ f[x] = Cardinality(C[x]),
           \A x, y \in S : x # y => C[x] \cap C[y] = {}
    PROVE  SumFunctionOnSet(f, S) = Cardinality(UNION {C[x] : x \in S})
<1> DEFINE U(s) == UNION {C[x] : x \in s}
           P == {s \in SUBSET S : IsFiniteSet(U(s)) /\ SumFunctionOnSet(f, s) = Cardinality(U(s))}
<1>1. \A x \in S : f[x] \in Int
    BY FS_CardinalityType
<1>2. ASSUME NEW s \in SUBSET S, \A x \in s : s \ {x} \in P PROVE s \in P
    <2>1. IsFiniteSet(s) /\ \A x \in s : f[x] \in Int
        BY <1>1, FS_Subset
    <2>2. CASE s = {}
        <3>1. U(s) = {}
            BY <2>2
        <3>2. SumFunctionOnSet(f, s) = 0
            BY <2>2, SumEmpty
        <3> QED  BY <3>1, <3>2, FS_EmptySet
    <2>3. CASE s # {}
        <3>1. PICK x \in s : TRUE
            BY <2>3
        <3>2. SumFunctionOnSet(f, s) = f[x] + SumFunctionOnSet(f, s \ {x})
            BY <2>1, SumRemove
        <3>3. /\ IsFiniteSet(U(s \ {x}))
              /\ SumFunctionOnSet(f, s \ {x}) = Cardinality(U(s \ {x}))
            BY <1>2
        <3>4. U(s) = C[x] \cup U(s \ {x}) /\ C[x] \cap U(s \ {x}) = {}
            OBVIOUS
        <3> HIDE DEF U
        <3>5. /\ IsFiniteSet(U(s))
              /\ Cardinality(U(s)) = Cardinality(C[x]) + Cardinality(U(s \ {x})) - Cardinality({})
            <4>1. IsFiniteSet(C[x])
                OBVIOUS
            <4>2. /\ IsFiniteSet(C[x] \cup U(s \ {x}))
                  /\ Cardinality(C[x] \cup U(s \ {x}))
                       = Cardinality(C[x]) + Cardinality(U(s \ {x})) - Cardinality(C[x] \cap U(s \ {x}))
                BY <3>3, <4>1, FS_Union, ZenonT(30)
            <4> QED  BY <3>4, <4>2
        <3>6. Cardinality(C[x]) \in Int /\ Cardinality(U(s \ {x})) \in Int /\ Cardinality({}) = 0
            BY <3>3, FS_CardinalityType, FS_EmptySet
        <3>7. SumFunctionOnSet(f, s) = Cardinality(U(s))
            BY <3>2, <3>3, <3>5, <3>6
        <3> QED  BY <3>5, <3>7
    <2> QED  BY <2>2, <2>3
<1> HIDE DEF P
<1>3. \A s \in SUBSET S : s \in P
    BY <1>2, SubsetInduction
<1> QED  BY <1>3 DEF P

-----------------------------------------------------------------------------
(***************************************************************************)
(* Store.                                                                  *)
(***************************************************************************)
\* After InsertBatch every id of the batch is stored, and no id is forgotten.
LEMMA InsertBatchStores ==
    ASSUME NEW b, b \subseteq Event, IsFiniteSet(b),
           NEW new, InsertBatch(b, new)
    PROVE  /\ StoredIds \subseteq StoredIds'
           /\ \A e \in b : e.id \in StoredIds'
BY DEF InsertBatch, InsertedRows, StoredIds, IdsOf

\* A committed batch adds rows of the batch, one for each of its ids that was
\* not stored, and stores no other id.
LEMMA InsertBatchCounts ==
    ASSUME NEW b, NEW new, InsertBatch(b, new)
    PROVE  /\ new \subseteq b /\ events' = events \cup new
           /\ \A r, s \in new : r.id = s.id => r = s
           /\ \A e \in new : e.id \notin StoredIds
           /\ \A e \in b : e.id \in StoredIds'
           /\ \A e : e.id \notin StoredIds' <=> e.id \notin StoredIds /\ \A r \in new : r.id # e.id
<1>1. /\ new \subseteq b /\ IdsOf(new) \cap StoredIds = {}
      /\ IdsOf(b) \subseteq StoredIds \cup IdsOf(new) /\ events' = events \cup new
      /\ \A r, s \in new : r.id = s.id => r = s
    BY DEF InsertBatch, InsertedRows
<1>2. StoredIds' = StoredIds \cup IdsOf(new)
    BY <1>1 DEF StoredIds, IdsOf
<1> QED  BY <1>1, <1>2 DEF IdsOf

\* The rows of one key before InsertBatch, and those it adds, are disjoint:
\* their numbers add up.
LEMMA RowsAdd ==
    ASSUME NEW b, b \subseteq Event, IsFiniteSet(b),
           NEW new, InsertBatch(b, new), StoreTypeOK,
           NEW k
    PROVE  /\ Cardinality(RowsOf(new, k)) \in Nat
           /\ Cardinality(RowsOf(events', k)) =
                  Cardinality(RowsOf(events, k)) + Cardinality(RowsOf(new, k))
<1>1. new \subseteq b /\ events' = events \cup new
    BY DEF InsertBatch, InsertedRows
<1>2. events \cap new = {}
    <2>1. \A e \in new : e.id \notin StoredIds
        BY DEF InsertBatch, InsertedRows, IdsOf
    <2>2. \A e \in events : e.id \in StoredIds
        BY DEF StoredIds, IdsOf
    <2> QED  BY <2>1, <2>2
<1>3. IsFiniteSet(new)
    BY <1>1, FS_Subset
<1>4. IsFiniteSet(RowsOf(events, k)) /\ IsFiniteSet(RowsOf(new, k))
    <2>1. RowsOf(events, k) \in SUBSET events /\ RowsOf(new, k) \in SUBSET new
        BY DEF RowsOf
    <2> QED  BY <1>3, <2>1, FS_Subset DEF StoreTypeOK
<1>5. RowsOf(events, k) \cap RowsOf(new, k) = {}
    BY <1>2 DEF RowsOf
<1>6. RowsOf(events', k) = RowsOf(events, k) \cup RowsOf(new, k)
    BY <1>1 DEF RowsOf
<1>7. Cardinality(RowsOf(events', k)) = Cardinality(RowsOf(events, k))
          + Cardinality(RowsOf(new, k)) - Cardinality({})
    BY <1>4, <1>5, <1>6, FS_Union
<1>8. /\ Cardinality(RowsOf(events, k)) \in Nat /\ Cardinality(RowsOf(new, k)) \in Nat
      /\ Cardinality({}) = 0
    BY <1>4, FS_CardinalityType, FS_EmptySet
<1> QED  BY <1>7, <1>8

\* InsertBatch keeps the tables well-typed and in agreement with each other.
LEMMA InsertBatchKeepsStoreInv ==
    ASSUME NEW b, b \subseteq Event, IsFiniteSet(b),
           NEW new, InsertBatch(b, new), StoreInv
    PROVE  StoreInv'
<1>1. new \subseteq b /\ IsFiniteSet(new)
    BY FS_Subset DEF InsertBatch, InsertedRows
<1>2. StoreTypeOK'
    <2>1. events' \subseteq Event /\ IsFiniteSet(events')
        BY <1>1, FS_Union, ZenonT(30) DEF InsertBatch, StoreInv, StoreTypeOK
    <2>2. counts' \in [Names \X Minutes -> Nat]
        <3>1. \A k \in Names \X Minutes : Cardinality(RowsOf(new, k)) \in Nat
            BY RowsAdd DEF StoreInv
        <3> QED  BY <3>1 DEF InsertBatch, Rolled, StoreInv, StoreTypeOK
    <2>3. uniques' \in [Names \X Days -> SUBSET Users]
        BY DEF InsertBatch, updateUniques, UsersOf, StoreInv, StoreTypeOK
    <2> QED  BY <2>1, <2>2, <2>3 DEF StoreTypeOK
<1>3. StoredOnce'
    BY DEF InsertBatch, InsertedRows, StoredIds, IdsOf, StoreInv, StoredOnce
<1>4. RollupsMatchEvents'
    <2> SUFFICES ASSUME NEW k \in Names \X Minutes
                 PROVE  counts'[k] = Cardinality(RowsOf(events', k))
        BY DEF RollupsMatchEvents, RowsOf, minuteKey
    <2>1. counts'[k] = counts[k] + Cardinality(RowsOf(new, k))
        BY DEF InsertBatch, Rolled
    <2> QED  BY <2>1, RowsAdd DEF StoreInv, RollupsMatchEvents
<1>5. SketchesCoverEvents'
    <2> SUFFICES ASSUME NEW r \in events', r.user # NoUser
                 PROVE  r.user \in uniques'[uniqueKey(r)]
        BY DEF SketchesCoverEvents, uniqueKey
    <2>1. r \in Event
        BY <1>2 DEF StoreTypeOK
    <2>2. uniqueKey(r) \in Names \X Days
        BY <2>1 DEF uniqueKey, Event, Days
    <2>3. uniques'[uniqueKey(r)] = uniques[uniqueKey(r)] \cup UsersOf(b, uniqueKey(r))
        BY <2>2 DEF InsertBatch, updateUniques
    <2>4. CASE r \in events
        BY <2>3, <2>4 DEF StoreInv, SketchesCoverEvents
    <2>5. CASE r \in new
        <3>1. r \in b /\ r.user \in Users
            BY <1>1, <2>1, <2>5 DEF Event
        <3> QED  BY <2>3, <3>1 DEF UsersOf
    <2> QED  BY <2>4, <2>5 DEF InsertBatch
<1> QED  BY <1>2, <1>3, <1>4, <1>5 DEF StoreInv

\* The empty tables agree.
LEMMA StoreInitInv == StoreInit => StoreInv
<1> SUFFICES ASSUME StoreInit PROVE StoreInv
    OBVIOUS
<1>1. \A k : RowsOf(events, k) = {}
    BY DEF StoreInit, RowsOf
<1>2. IsFiniteSet({}) /\ Cardinality({}) = 0
    BY FS_EmptySet
<1> QED  BY <1>1, <1>2, ZenonT(30) DEF StoreInit, StoreInv, StoreTypeOK, StoredOnce,
            RollupsMatchEvents, SketchesCoverEvents

\* A step that leaves the tables alone leaves their agreement alone.
LEMMA StoreUnchanged == StoreInv /\ UNCHANGED storeVars => StoreInv'
BY DEF storeVars, StoreInv, StoreTypeOK, StoredOnce, RollupsMatchEvents,
   SketchesCoverEvents, RowsOf, minuteKey, uniqueKey

\* internal/store keeps its tables in agreement, whatever batches it is given
\* and however often: ids stored once, rollups equal to the rows they count,
\* sketches that cover the rows.
THEOREM StoreCorrect == StoreSpec => []StoreInv
<1>1. StoreInit => StoreInv
    BY StoreInitInv
<1>2. StoreInv /\ [StoreNext]_storeVars => StoreInv'
    BY InsertBatchKeepsStoreInv, StoreUnchanged, StoreAssumption DEF StoreNext
<1> QED  BY <1>1, <1>2, PTL DEF StoreSpec

\* In particular: no id has two rows...
THEOREM OneRowPerId == StoreSpec => []StoredOnce
BY StoreCorrect, PTL DEF StoreInv

\* ...every rollup counter is the number of rows of its name and minute...
THEOREM RollupsExact == StoreSpec => []RollupsMatchEvents
BY StoreCorrect, PTL DEF StoreInv

\* ...and every sketch holds the users of the rows of its name and day.
THEOREM SketchesComplete == StoreSpec => []SketchesCoverEvents
BY StoreCorrect, PTL DEF StoreInv
=============================================================================
