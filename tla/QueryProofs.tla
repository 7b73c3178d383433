---------------------------- MODULE QueryProofs ----------------------------
(***************************************************************************)
(* Sketch: what a row of event_uniques_day holds.  Queries: the answers    *)
(* are those of the rows committed, whatever order and grouping of batches *)
(* brought them in, for any hash, any number of names and any limits.      *)
(***************************************************************************)
EXTENDS Queries, StoreProofs

\* A leaf goes to Zenon for two seconds, then to the SMT solver.
USE ZenonT(2), SMTT(30)

\* A hash picks an existing register and gives a rank the encoding holds.
LEMMA Lands ==
    ASSUME NEW v \in Values
    PROVE  idx(v) \in Registers /\ rank(v) \in 1 .. MaxRank
<1>1. idx(v) \in Registers
    <2> DEFINE h == hash64[v]
               B == 2^(HashBits - Precision)
               A == 2^Precision
               q == h \div B
    <2>1. h \in Nat /\ h < A * B /\ A \in Nat /\ B \in Nat /\ B > 0
        BY SketchAssumption
    <2> HIDE DEF h, A, B
    <2>2. q \in Nat /\ q * B <= h
        BY <2>1
    <2>3. q < A
        <3>1. SUFFICES ASSUME q >= A PROVE FALSE
            BY <2>1, <2>2
        <3>2. (q - A) \in Nat /\ (q - A) * B \in Nat
            BY <2>1, <2>2, <3>1
        <3>3. q * B = A * B + (q - A) * B
            BY <2>1, <2>2
        <3> QED  BY <2>1, <2>2, <3>2, <3>3
    <2> QED  BY <2>1, <2>2, <2>3 DEF idx, Registers, h, A, B
<1>2. rank(v) \in 1 .. MaxRank
    <2> DEFINE Z == {n \in 1 .. HashBits : rest(v) < 2^(HashBits - n)}
    <2>1. IsFiniteSet(1 .. HashBits)
        BY FS_Interval, SketchAssumption
    <2>2. Cardinality(Z) \in Nat
        BY <2>1, FS_Subset, FS_CardinalityType, ZenonT(30)
    <2>3. LeadingZeros(rest(v)) \in Nat
        BY <2>2 DEF LeadingZeros
    <2> QED  BY <2>3, SketchAssumption DEF rank, MaxRank
<1> QED  BY <1>1, <1>2

\* hll.New is the sketch of the empty set.
LEMMA NewIsEmpty == IsSketchOf(New, {})
BY SketchAssumption DEF IsSketchOf, New, MaxRank

\* Sketch.Add turns the sketch of a set into that of the set with one more value,
\* whether or not the value was in it: order and repetition leave no trace.
THEOREM AddExtends ==
    ASSUME NEW s, NEW S \in SUBSET Values, NEW v \in Values, IsSketchOf(s, S)
    PROVE  IsSketchOf(Add(s, v), S \cup {v})
<1>1. /\ idx(v) \in Registers /\ rank(v) \in 1 .. MaxRank
      /\ \A u \in S : idx(u) \in Registers /\ rank(u) \in 1 .. MaxRank
    BY Lands
<1>2. s \in [Registers -> 0 .. MaxRank] /\ MaxRank \in Nat
    BY SketchAssumption DEF IsSketchOf, MaxRank
<1>3. CASE rank(v) > s[idx(v)]
    <2>1. Add(s, v) = [s EXCEPT ![idx(v)] = rank(v)]
        BY <1>3 DEF Add
    <2>2. \A u \in S : rank(u) <= Add(s, v)[idx(u)]
        BY <1>1, <1>2, <1>3, <2>1 DEF IsSketchOf
    <2> QED  BY <1>1, <1>2, <2>1, <2>2 DEF IsSketchOf
<1>4. CASE ~(rank(v) > s[idx(v)])
    <2>1. Add(s, v) = s /\ rank(v) <= s[idx(v)]
        BY <1>1, <1>2, <1>4 DEF Add
    <2> QED  BY <2>1 DEF IsSketchOf
<1> QED  BY <1>3, <1>4

\* Sketch.Merge of two sketches is the sketch of the union: merging is lossless
\* ("sketches can be aggregated across days, workers, or shards").
THEOREM MergeUnites ==
    ASSUME NEW s, NEW S \in SUBSET Values, IsSketchOf(s, S),
           NEW t, NEW T \in SUBSET Values, IsSketchOf(t, T)
    PROVE  IsSketchOf(Merge(s, t), S \cup T)
<1>1. /\ s \in [Registers -> 0 .. MaxRank] /\ t \in [Registers -> 0 .. MaxRank] /\ MaxRank \in Nat
      /\ \A u \in S \cup T : idx(u) \in Registers /\ rank(u) \in 1 .. MaxRank
    BY Lands, SketchAssumption DEF IsSketchOf, MaxRank
<1>2. \A i \in Registers : /\ Merge(s, t)[i] \in {s[i], t[i]}
                           /\ s[i] <= Merge(s, t)[i] /\ t[i] <= Merge(s, t)[i]
    BY <1>1 DEF Merge
<1>3. Merge(s, t) \in [Registers -> 0 .. MaxRank]
    BY <1>1 DEF Merge
<1>4. \A u \in S \cup T : rank(u) <= Merge(s, t)[idx(u)]
    BY <1>1, <1>2, <1>3 DEF IsSketchOf
<1>5. \A i \in Registers : \/ Merge(s, t)[i] = 0
                           \/ \E v \in S \cup T : idx(v) = i /\ rank(v) = Merge(s, t)[i]
    BY <1>2, ZenonT(30) DEF IsSketchOf
<1> QED  BY <1>3, <1>4, <1>5, ZenonT(30) DEF IsSketchOf

\* A set has one sketch: with AddExtends, every grouping of the same events into
\* batches leaves the same registers in event_uniques_day.
THEOREM SketchUnique ==
    ASSUME NEW S \in SUBSET Values, NEW s, NEW t, IsSketchOf(s, S), IsSketchOf(t, S)
    PROVE  s = t
<1>1. s \in [Registers -> 0 .. MaxRank] /\ t \in [Registers -> 0 .. MaxRank] /\ MaxRank \in Nat
    BY SketchAssumption DEF IsSketchOf, MaxRank
<1>2. ASSUME NEW i \in Registers PROVE s[i] <= t[i]
    <2>1. CASE s[i] = 0
        BY <1>1, <2>1
    <2>2. CASE s[i] # 0
        BY <2>2 DEF IsSketchOf
    <2> QED  BY <2>1, <2>2
<1>3. ASSUME NEW i \in Registers PROVE t[i] <= s[i]
    <2>1. CASE t[i] = 0
        BY <1>1, <2>1
    <2>2. CASE t[i] # 0
        BY <2>2 DEF IsSketchOf
    <2> QED  BY <2>1, <2>2
<1> QED  BY <1>1, <1>2, <1>3

\* Sketch.Bytes writes what FromBytes accepts, and FromBytes gives back the registers.
THEOREM RoundTrip ==
    ASSUME NEW s \in [Registers -> 0 .. MaxRank]
    PROVE  Readable(Bytes(s)) /\ FromBytes(Bytes(s)) = s
<1>1. 2^Precision \in Nat
    BY SketchAssumption
<1>2. \A i \in Registers : i + 3 \in 1 .. 2 + 2^Precision /\ i + 3 # 1 /\ i + 3 # 2 /\ (i + 3) - 3 = i
    BY <1>1 DEF Registers
<1> QED  BY <1>1, <1>2 DEF Readable, FromBytes, Bytes

-----------------------------------------------------------------------------
(***************************************************************************)
(* updateUniques: the fold of Add over the events of a batch.              *)
(***************************************************************************)
Row == [Registers -> 0 .. MaxRank]

\* The greatest index, with which FoldLeft ends.
LEMMA MaxIn ==
    ASSUME NEW D, D \subseteq Int, IsFiniteSet(D)
    PROVE  \A s \in SUBSET D : s # {} => Max(s) \in s
<1> DEFINE R == {p \in Int \X Int : p[1] < p[2]}
<1>1. \A x, y \in Int : <<x, y>> \in R <=> x < y
    OBVIOUS
<1> HIDE DEF R
<1>2. /\ \A x \in D : <<x, x>> \notin R
      /\ \A x, y, z \in D : <<x, y>> \in R /\ <<y, z>> \in R => <<x, z>> \in R
    BY <1>1
<1>3. \A s \in SUBSET D : s # {} => \E x \in s : \A y \in s : <<x, y>> \notin R
    BY <1>2, MaximalExists, ZenonT(30)
<1>4. ASSUME NEW s \in SUBSET D, s # {} PROVE \E x \in s : \A y \in s : x >= y
    <2>1. PICK x \in s : \A y \in s : <<x, y>> \notin R
        BY <1>3, <1>4
    <2>2. ASSUME NEW y \in s PROVE x >= y
        <3>1. x \in Int /\ y \in Int
            OBVIOUS
        <3>2. ~(x < y)
            BY <1>1, <2>1, <3>1
        <3> QED  BY <3>1, <3>2
    <2> QED  BY <2>2
<1> QED  BY <1>4 DEF Max

\* The recursion of FoldLeft, for updateUniques.
FoldBody(k, order, base, g, s) ==
    IF s = {} THEN base ELSE AddUser(k, g[s \ {Max(s)}], order[Max(s)])
Folding(k, order, base, g) ==
    g = [s \in SUBSET (DOMAIN order) |-> FoldBody(k, order, base, g, s)]
FoldOf(k, order, base) == FoldLeft(LAMBDA s, e : AddUser(k, s, e), base, order)

\* FoldLeft is defined by that recursion.
LEMMA FoldIs ==
    ASSUME NEW k, NEW order, NEW base
    PROVE  FoldOf(k, order, base) = (CHOOSE g : Folding(k, order, base, g))[DOMAIN order]
BY ZenonT(30) DEF FoldOf, FoldLeft, MapThenFoldSet, Folding, FoldBody

\* One step keeps the registers in range.
LEMMA AddUserType ==
    ASSUME NEW k, NEW s \in Row, NEW e \in Event
    PROVE  AddUser(k, s, e) \in Row
<1>1. CASE e.user = NoUser \/ uniqueKey(e) # k
    BY <1>1 DEF AddUser
<1>2. CASE e.user # NoUser /\ uniqueKey(e) = k
    <2>1. e.user \in Values
        BY <1>2, QueryAssumption DEF Event
    <2>2. idx(e.user) \in Registers /\ rank(e.user) \in 1 .. MaxRank
        BY <2>1, Lands
    <2>3. rank(e.user) \in 0 .. MaxRank
        BY <2>2 DEF MaxRank
    <2>4. Add(s, e.user) \in Row
        BY <2>2, <2>3 DEF Add, Row
    <2> QED  BY <1>2, <2>4 DEF AddUser
<1> QED  BY <1>1, <1>2

\* The recursion has a solution.
LEMMA FoldingExists ==
    ASSUME NEW k, NEW order, DOMAIN order \subseteq Int, IsFiniteSet(DOMAIN order),
           \A i \in DOMAIN order : order[i] \in Event, NEW base \in Row
    PROVE  \E g : Folding(k, order, base, g)
<1> DEFINE D == DOMAIN order
           pick == [s \in SUBSET D |-> Max(s)]
           step == [i \in D |-> [v \in Row |-> AddUser(k, v, order[i])]]
<1>1. \A s \in SUBSET D : pick[s] = Max(s) /\ (s # {} => pick[s] \in s)
    BY MaxIn
<1>2. \A i \in D : \A v \in Row : step[i][v] = AddUser(k, v, order[i]) /\ step[i][v] \in Row
    BY AddUserType
<1> HIDE DEF pick, step, D
<1>3. IsFiniteSet(D)
    BY DEF D
<1>4. PICK g \in [SUBSET D -> Row] : \A s \in SUBSET D : g[s] = Rec(step, pick, base, g, s)
    <2>1. Picks(D, pick)
        BY <1>1 DEF Picks
    <2>2. Steps(D, Row, step)
        BY <1>2 DEF Steps
    <2>3. Solvable(D, Row, step, pick, base)
        BY <1>3, <2>1, <2>2, RecursionExists
    <2> QED  BY <2>3 DEF Solvable
<1>5. ASSUME NEW s \in SUBSET D PROVE g[s] = FoldBody(k, order, base, g, s)
    <2>1. CASE s = {}
        BY <1>4, <2>1 DEF Rec, FoldBody
    <2>2. CASE s # {}
        <3>1. pick[s] = Max(s) /\ Max(s) \in D /\ g[s \ {Max(s)}] \in Row
            BY <1>1, <1>4, <2>2
        <3>2. g[s] = step[Max(s)][g[s \ {Max(s)}]]
            BY <1>4, <2>2, <3>1 DEF Rec
        <3>3. step[Max(s)][g[s \ {Max(s)}]] = AddUser(k, g[s \ {Max(s)}], order[Max(s)])
            BY <1>2, <3>1
        <3> QED  BY <2>2, <3>2, <3>3 DEF FoldBody
    <2> QED  BY <2>1, <2>2
<1>6. g = [s \in SUBSET D |-> FoldBody(k, order, base, g, s)]
    BY <1>5
<1> QED  BY <1>6 DEF Folding, D

\* The users that some places of a sequence of events bring to a row.
UsersAt(k, order, s) ==
    {u \in Users : \E i \in s : order[i].user = u /\ uniqueKey(order[i]) = k}

\* Folding events into the sketch of a set leaves the sketch of the set with their users,
\* whatever their order.
LEMMA FoldSketches ==
    ASSUME NEW k, NEW order, DOMAIN order \subseteq Int, IsFiniteSet(DOMAIN order),
           \A i \in DOMAIN order : order[i] \in Event,
           NEW base, NEW S \in SUBSET Users, IsSketchOf(base, S)
    PROVE  IsSketchOf(FoldOf(k, order, base), S \cup UsersAt(k, order, DOMAIN order))
<1> DEFINE g == CHOOSE h : Folding(k, order, base, h)
           D == DOMAIN order
           P == {s \in SUBSET D : IsSketchOf(g[s], S \cup UsersAt(k, order, s))}
<1>1. Folding(k, order, base, g)
    BY FoldingExists DEF IsSketchOf, Row
<1>2. FoldOf(k, order, base) = g[D]
    BY FoldIs
<1> HIDE DEF g
<1>3. \A s \in SUBSET D : g[s] = FoldBody(k, order, base, g, s)
    BY <1>1 DEF Folding
<1>4. ASSUME NEW s \in SUBSET D, \A x \in s : s \ {x} \in P PROVE s \in P
    <2>1. CASE s = {}
        <3>1. S \cup UsersAt(k, order, s) = S
            BY <2>1 DEF UsersAt
        <3>2. g[s] = base
            BY <1>3, <2>1 DEF FoldBody
        <3> QED  BY <3>1, <3>2
    <2>2. CASE s # {}
        <3>1. PICK m \in s : m = Max(s)
            BY <2>2, MaxIn
        <3>2. g[s] = AddUser(k, g[s \ {m}], order[m])
            BY <1>3, <2>2, <3>1 DEF FoldBody
        <3> DEFINE T == S \cup UsersAt(k, order, s \ {m})
        <3>3. IsSketchOf(g[s \ {m}], T) /\ T \in SUBSET Users
            BY <1>4 DEF UsersAt
        <3>4. order[m] \in Event
            OBVIOUS
        <3>5. CASE order[m].user = NoUser \/ uniqueKey(order[m]) # k
            <4>1. UsersAt(k, order, s) = UsersAt(k, order, s \ {m})
                BY <3>5, StoreAssumption DEF UsersAt
            <4> QED  BY <3>2, <3>3, <3>5, <4>1 DEF AddUser
        <3>6. CASE order[m].user # NoUser /\ uniqueKey(order[m]) = k
            <4>1. order[m].user \in Users
                BY <3>4, <3>6 DEF Event
            <4>2. S \cup UsersAt(k, order, s) = T \cup {order[m].user}
                BY <3>6, <4>1 DEF UsersAt
            <4> HIDE DEF T
            <4>3. IsSketchOf(Add(g[s \ {m}], order[m].user), T \cup {order[m].user})
                BY <3>3, <4>1, AddExtends, QueryAssumption
            <4> QED  BY <3>2, <3>6, <4>2, <4>3 DEF AddUser
        <3> QED  BY <3>5, <3>6
    <2> QED  BY <2>1, <2>2
<1> HIDE DEF P
<1>5. \A s \in SUBSET D : s \in P
    BY <1>4, SubsetInduction
<1>6. D \in P
    BY <1>5
<1> QED  BY <1>2, <1>6 DEF P

\* An order of a batch leaves no event of it out.
LEMMA OrderCovers ==
    ASSUME NEW batch, IsFiniteSet(batch), NEW order \in SetToSeqs(batch)
    PROVE  /\ DOMAIN order \subseteq Int /\ IsFiniteSet(DOMAIN order)
           /\ \A i \in DOMAIN order : order[i] \in batch
           /\ \A e \in batch : \E i \in DOMAIN order : order[i] = e
<1>1. PICK n \in Nat : n = Cardinality(batch)
    BY FS_CardinalityType
<1>2. order \in [1 .. n -> batch] /\ \A i, j \in 1 .. n : i # j => order[i] # order[j]
    BY <1>1 DEF SetToSeqs
<1>3. IsFiniteSet(1 .. n) /\ Cardinality(1 .. n) = n
    <2>1. IsFiniteSet(1 .. n) /\ Cardinality(1 .. n) = IF 1 > n THEN 0 ELSE n - 1 + 1
        BY FS_Interval
    <2> QED  BY <2>1
<1>4. order \in Injection(1 .. n, batch)
    BY <1>2 DEF Injection, IsInjective
<1>5. order \in Surjection(1 .. n, batch)
    BY <1>1, <1>3, <1>4, FS_Injection
<1> QED  BY <1>2, <1>3, <1>5 DEF Surjection

-----------------------------------------------------------------------------
(***************************************************************************)
(* Rows of event_uniques_day.                                              *)
(***************************************************************************)
\* What QueryInv says of a row: it encodes the sketch of its users.
Encodes(b, U) ==
    IF U = {} THEN b = NoRow ELSE \E s \in Row : b = Bytes(s) /\ IsSketchOf(s, U)

\* More users, no smaller register.
LEMMA SketchGrows ==
    ASSUME NEW s, NEW S, IsSketchOf(s, S), NEW t, NEW T, IsSketchOf(t, T), S \subseteq T
    PROVE  \A i \in Registers : t[i] >= s[i]
<1>1. s \in [Registers -> 0 .. MaxRank] /\ t \in [Registers -> 0 .. MaxRank] /\ MaxRank \in Nat
    BY SketchAssumption DEF IsSketchOf, MaxRank
<1>2. ASSUME NEW i \in Registers PROVE t[i] >= s[i]
    <2>1. s[i] \in Int /\ t[i] \in Int /\ t[i] >= 0
        BY <1>1
    <2>2. CASE s[i] = 0
        BY <2>1, <2>2
    <2>3. CASE s[i] # 0
        <3>1. PICK v \in S : idx(v) = i /\ rank(v) = s[i]
            BY <2>3 DEF IsSketchOf
        <3>2. rank(v) <= t[idx(v)]
            BY DEF IsSketchOf
        <3> QED  BY <2>1, <3>1, <3>2
    <2> QED  BY <2>2, <2>3
<1> QED  BY <1>2

\* What is read from a row, when there is one, is the sketch of its users.
LEMMA RowRead ==
    ASSUME NEW b, NEW U, Encodes(b, U)
    PROVE  /\ b = NoRow <=> U = {}
           /\ b # NoRow => Readable(b) /\ IsSketchOf(FromBytes(b), U)
<1>1. CASE U = {}
    BY <1>1 DEF Encodes
<1>2. CASE U # {}
    <2>1. PICK s \in Row : b = Bytes(s) /\ IsSketchOf(s, U)
        BY <1>2 DEF Encodes
    <2>2. b # NoRow
        BY <2>1, QueryAssumption DEF Row
    <2>3. Readable(b) /\ FromBytes(b) = s
        BY <2>1, RoundTrip DEF Row
    <2> QED  BY <1>2, <2>1, <2>2, <2>3
<1> QED  BY <1>1, <1>2

\* updateUniques reads a row that encodes its users and writes one that encodes
\* them and those of the batch.
LEMMA FoldedRow ==
    ASSUME NEW batch, batch \subseteq Event, IsFiniteSet(batch),
           NEW order \in SetToSeqs(batch), NEW k, NEW U \in SUBSET Users,
           Encodes(sketches[k], U)
    PROVE  \E s \in Row : Folded(k, order) = Bytes(s) /\ IsSketchOf(s, U \cup UsersOf(batch, k))
<1> DEFINE base == FromBytes(Ensured(k))
           s == FoldOf(k, order, base)
<1>1. IsSketchOf(base, U)
    <2>1. CASE sketches[k] = NoRow
        <3>1. U = {} /\ Ensured(k) = Bytes(New)
            BY <2>1, RowRead DEF Ensured
        <3>2. New \in Row
            BY NewIsEmpty DEF IsSketchOf, Row
        <3>3. base = New
            BY <3>1, <3>2, RoundTrip DEF Row
        <3> QED  BY <3>1, <3>3, NewIsEmpty
    <2>2. CASE sketches[k] # NoRow
        BY <2>2, RowRead DEF Ensured
    <2> QED  BY <2>1, <2>2
<1>2. Folded(k, order) = Bytes(s)
    BY DEF Folded, FoldOf
<1> HIDE DEF base
<1>3. /\ DOMAIN order \subseteq Int /\ IsFiniteSet(DOMAIN order)
      /\ \A i \in DOMAIN order : order[i] \in batch
      /\ \A e \in batch : \E i \in DOMAIN order : order[i] = e
    BY OrderCovers
<1>4. IsSketchOf(s, U \cup UsersAt(k, order, DOMAIN order))
    <2>1. \A i \in DOMAIN order : order[i] \in Event
        BY <1>3
    <2> QED  BY <1>1, <1>3, <2>1, FoldSketches, ZenonT(30)
<1>5. UsersAt(k, order, DOMAIN order) = UsersOf(batch, k)
    BY <1>3, ZenonT(30) DEF UsersAt, UsersOf
<1> HIDE DEF s
<1>6. s \in Row
    BY <1>4 DEF IsSketchOf, Row
<1> QED  BY <1>2, <1>4, <1>5, <1>6

\* So a committed batch leaves rows that encode their users.
LEMMA InsertEncodes ==
    ASSUME NEW batch \in Batches, NEW new, Insert(batch, new), StoreTypeOK,
           \A k \in Names \X Days : Encodes(sketches[k], uniques[k])
    PROVE  \A k \in Names \X Days : /\ Encodes(sketches'[k], uniques'[k])
                                    /\ uniques[k] \subseteq uniques'[k]
<1>1. batch \subseteq Event /\ IsFiniteSet(batch)
    BY StoreAssumption
<1>2. PICK order \in SetToSeqs(batch) :
        sketches' = [k \in Names \X Days |->
            IF UsersOf(batch, k) = {} THEN sketches[k] ELSE Folded(k, order)]
    BY DEF Insert
<1>3. SUFFICES ASSUME NEW k \in Names \X Days
               PROVE  Encodes(sketches'[k], uniques'[k]) /\ uniques[k] \subseteq uniques'[k]
    OBVIOUS
<1>4. uniques'[k] = uniques[k] \cup UsersOf(batch, k) /\ uniques[k] \in SUBSET Users
    BY DEF Insert, InsertBatch, updateUniques, StoreTypeOK
<1>5. CASE UsersOf(batch, k) = {}
    <2>1. sketches'[k] = sketches[k] /\ uniques'[k] = uniques[k]
        BY <1>2, <1>4, <1>5
    <2> QED  BY <2>1
<1>6. CASE UsersOf(batch, k) # {}
    <2>1. sketches'[k] = Folded(k, order)
        BY <1>2, <1>6
    <2>2. Encodes(sketches[k], uniques[k])
        OBVIOUS
    <2>3. \E s \in Row : /\ Folded(k, order) = Bytes(s)
                         /\ IsSketchOf(s, uniques[k] \cup UsersOf(batch, k))
        BY <1>1, <1>4, <2>2, FoldedRow, ZenonT(30)
    <2> QED  BY <1>4, <1>6, <2>1, <2>3 DEF Encodes
<1> QED  BY <1>5, <1>6

-----------------------------------------------------------------------------
(***************************************************************************)
(* Counts.                                                                 *)
(***************************************************************************)
\* A statement about today is about the minutes from the day's first on.
LEMMA DayOf ==
    ASSUME NEW t \in Nat, NEW d \in Nat, t >= d * MinutesPerDay
    PROVE  t \div MinutesPerDay >= d
<1> DEFINE q == t \div MinutesPerDay
<1>1. PICK m \in Nat : m = MinutesPerDay /\ m > 0
    BY StoreAssumption
<1>2. q \in Nat /\ t < (q + 1) * m
    BY <1>1
<1> HIDE DEF q
<1>3. SUFFICES ASSUME q < d PROVE FALSE
    BY <1>2 DEF q
<1>4. d - (q + 1) \in Nat /\ (d - (q + 1)) * m \in Nat
    BY <1>1, <1>2, <1>3
<1>5. d * m = (q + 1) * m + (d - (q + 1)) * m
    BY <1>1, <1>2
<1>6. d * m \in Nat /\ (q + 1) * m \in Nat /\ t >= d * m
    BY <1>1, <1>2
<1> QED  BY <1>2, <1>4, <1>5, <1>6

\* The modelled time begins with day 0.
LEMMA FirstDay == 0 \in Minutes /\ 0 \in Days
<1>1. 0 \in Minutes /\ 0 \div MinutesPerDay = 0
    BY StoreAssumption DEF Minutes
<1> QED  BY <1>1 DEF Days

\* The date is one of the modelled days.
LEMMA TodayType ==
    ASSUME clock \in Minutes
    PROVE  Today \in Days /\ Today \in Nat /\ DayStart \in Nat
<1>1. MinutesPerDay \in Nat /\ MinutesPerDay > 0 /\ clock \in Nat
    BY StoreAssumption DEF Minutes
<1>2. Today \in Nat
    BY <1>1 DEF Today
<1>3. DayStart \in Nat
    BY <1>1, <1>2 DEF DayStart
<1> QED  BY <1>2, <1>3 DEF Today, Days

\* CountToday adds up rollups: it is the number of rows of today.
LEMMA CountIs ==
    ASSUME StoreInv, clock \in Minutes, NEW n \in Names
    PROVE  CountToday(n) = Cardinality({e \in RowsToday : e.name = n})
<1> DEFINE f == [t \in Minutes |-> counts[<<n, t>>]]
           C == [t \in Minutes |-> RowsOf(events, <<n, t>>)]
<1>1. IsFiniteSet(TodayMinutes)
    <2>1. IsFiniteSet(Minutes)
        BY StoreAssumption, FS_Interval DEF Minutes
    <2>2. TodayMinutes \subseteq Minutes
        BY DEF TodayMinutes
    <2> QED  BY <2>1, <2>2, FS_Subset
<1>2. \A t \in TodayMinutes : IsFiniteSet(C[t]) /\ f[t] = Cardinality(C[t])
    <2>1. SUFFICES ASSUME NEW t \in Minutes PROVE IsFiniteSet(C[t]) /\ f[t] = Cardinality(C[t])
        BY DEF TodayMinutes
    <2>2. C[t] = RowsOf(events, <<n, t>>) /\ f[t] = counts[<<n, t>>] /\ <<n, t>> \in Names \X Minutes
        OBVIOUS
    <2>3. IsFiniteSet(events) /\ RowsOf(events, <<n, t>>) \subseteq events
        BY DEF StoreInv, StoreTypeOK, RowsOf
    <2>4. IsFiniteSet(RowsOf(events, <<n, t>>))
        BY <2>3, FS_Subset
    <2> QED  BY <2>2, <2>4 DEF StoreInv, RollupsMatchEvents
<1>3. \A t, u \in TodayMinutes : t # u => C[t] \cap C[u] = {}
    BY DEF TodayMinutes, RowsOf, minuteKey
<1>4. UNION {C[t] : t \in TodayMinutes} = {e \in RowsToday : e.name = n}
    <2>1. \A e \in events : e.ts \in Minutes
        BY DEF StoreInv, StoreTypeOK, Event
    <2>2. \A t \in TodayMinutes : \A e : e \in C[t] <=> e \in events /\ e.name = n /\ e.ts = t
        BY DEF TodayMinutes, RowsOf, minuteKey
    <2>3. \A e \in events : e \in RowsToday <=> e.ts \in TodayMinutes
        BY <2>1 DEF RowsToday, TodayMinutes
    <2>4. RowsToday \subseteq events
        BY DEF RowsToday
    <2> HIDE DEF C
    <2> QED  BY <2>2, <2>3, <2>4
<1> HIDE DEF f, C
<1>5. SumFunctionOnSet(f, TodayMinutes) = Cardinality(UNION {C[t] : t \in TodayMinutes})
    BY <1>1, <1>2, <1>3, SumOfSizes
<1> QED  BY <1>4, <1>5 DEF CountToday, f

\* Only finitely many names have rows today: those of the rows stored.
LEMMA NamesFinite ==
    ASSUME StoreInv, clock \in Minutes
    PROVE  IsFiniteSet(NamesToday) /\ \A n \in Names : CountToday(n) \in Nat
<1>1. IsFiniteSet(events) /\ events \subseteq Event /\ RowsToday \subseteq events
    BY DEF StoreInv, StoreTypeOK, RowsToday
<1>2. ASSUME NEW n \in Names
      PROVE  CountToday(n) \in Nat /\ (CountToday(n) > 0 => \E e \in events : e.name = n)
    <2> DEFINE R == {e \in RowsToday : e.name = n}
    <2>1. IsFiniteSet(R) /\ R \subseteq events
        BY <1>1, FS_Subset
    <2>2. CountToday(n) = Cardinality(R) /\ Cardinality(R) \in Nat
        BY <2>1, CountIs, FS_CardinalityType
    <2>3. CountToday(n) > 0 => R # {}
        BY <2>2, FS_EmptySet
    <2> QED  BY <1>1, <2>2, <2>3
<1> DEFINE f == [e \in events |-> e.name]
           T == {f[e] : e \in events}
<1>3. f \in Surjection(events, T)
    BY DEF Surjection
<1>4. IsFiniteSet(T)
    BY <1>1, <1>3, FS_Surjection
<1>5. NamesToday \subseteq T
    BY <1>2 DEF NamesToday
<1> HIDE DEF T
<1> QED  BY <1>2, <1>4, <1>5, FS_Subset

-----------------------------------------------------------------------------
(***************************************************************************)
(* The inductive invariant, action by action.                              *)
(***************************************************************************)
\* QueryInv, with Encodes.
LEMMA QueryInvRows == QueryInv => \A k \in Names \X Days : Encodes(sketches[k], uniques[k])
BY ZenonT(30) DEF QueryInv, Encodes, Row

\* At the start the tables are empty and nothing has been asked.
LEMMA QueryInitInv == Init => QueryInv
<1> SUFFICES ASSUME Init PROVE QueryInv
    OBVIOUS
<1>1. StoreInv
    BY StoreInitInv DEF Init
<1>2. 0 \in Minutes /\ 0 \in Days
    BY FirstDay
<1>3. stats = NoStats /\ spc = "idle" /\ clock = 0
    BY DEF Init
<1>4. QueryTypeOK
    BY <1>1, <1>2, <1>3 DEF QueryTypeOK, StoreInv, NoStats
<1>5. TotalsCounted /\ StatsCohere
    BY <1>3 DEF TotalsCounted, StatsCohere
<1>6. \A k \in Names \X Days : uniques[k] = {} /\ sketches[k] = NoRow
    BY DEF Init, StoreInit
<1>7. stats = [totals |-> stats.totals, day |-> stats.day, seen |-> stats.seen,
               uniques |-> stats.uniques, uniquesDay |-> stats.uniquesDay,
               series |-> stats.series, since |-> stats.since]
    BY <1>3 DEF NoStats
<1> QED  BY <1>1, <1>4, <1>5, <1>6, <1>7 DEF QueryInv

\* What TotalsCounted says of an answer, as a fact about its three fields.
Exact(totals, seen, day) ==
    LET Rows(n) == Cardinality({e \in seen : e.name = n})
    IN  /\ \A n \in DOMAIN totals : totals[n] = Rows(n)
        /\ \A n \in Names \ DOMAIN totals :
               \/ Rows(n) = 0
               \/ /\ Cardinality(DOMAIN totals) = Limit
                  /\ \A o \in DOMAIN totals : Rows(n) <= Rows(o)
        /\ \A e \in seen : e.ts \div MinutesPerDay >= day

\* Reading the other fields leaves it alone.
LEMMA TotalsKept ==
    ASSUME TotalsCounted, spc # "idle",
           stats'.totals = stats.totals, stats'.seen = stats.seen, stats'.day = stats.day
    PROVE  TotalsCounted'
<1>1. Exact(stats.totals, stats.seen, stats.day)
    BY DEF TotalsCounted, Exact
<1>2. Exact(stats'.totals, stats'.seen, stats'.day)
    BY <1>1
<1>3. Exact(stats'.totals, stats'.seen, stats'.day) => TotalsCounted'
    BY DEF TotalsCounted, Exact
<1> QED  BY <1>2, <1>3

\* A step that leaves an answer alone leaves what is said of it alone.
LEMMA AnswerUnchanged ==
    ASSUME QueryInv, UNCHANGED <<spc, stats>>, events \subseteq events',
           StoreInv', clock' \in Minutes,
           \A k \in Names \X Days : Encodes(sketches'[k], uniques'[k])
    PROVE  QueryInv'
<1>1. QueryTypeOK'
    BY DEF QueryInv, QueryTypeOK, StoreInv
<1>2. TotalsCounted'
    BY DEF QueryInv, TotalsCounted
<1>3. StatsCohere'
    BY DEF QueryInv, StatsCohere, RowsOf, minuteKey
<1>4. \A k \in Names \X Days :
        IF uniques'[k] = {} THEN sketches'[k] = NoRow
        ELSE \E s \in [Registers -> 0 .. MaxRank] :
                sketches'[k] = Bytes(s) /\ IsSketchOf(s, uniques'[k])
    BY ZenonT(30) DEF Encodes, Row
<1> QED  BY <1>1, <1>2, <1>3, <1>4 DEF QueryInv

\* A step that leaves the tables and the clock alone only has to explain its answer.
LEMMA TablesUnchanged ==
    ASSUME QueryInv, UNCHANGED <<storeVars, sketches, clock>>,
           QueryTypeOK', TotalsCounted', StatsCohere',
           stats' = [totals |-> stats'.totals, day |-> stats'.day, seen |-> stats'.seen,
                     uniques |-> stats'.uniques, uniquesDay |-> stats'.uniquesDay,
                     series |-> stats'.series, since |-> stats'.since]
    PROVE  QueryInv'
<1>1. StoreInv'
    BY StoreUnchanged DEF QueryInv
<1>2. uniques' = uniques /\ sketches' = sketches
    BY DEF storeVars
<1> QED  BY <1>1, <1>2 DEF QueryInv

\* A committed batch.
LEMMA InsertKeeps ==
    ASSUME QueryInv, NEW batch \in Batches, NEW new, Insert(batch, new)
    PROVE  QueryInv'
<1>1. InsertBatch(batch, new) /\ UNCHANGED <<spc, stats, clock>>
    BY DEF Insert, queryVars
<1>2. batch \subseteq Event /\ IsFiniteSet(batch) /\ StoreInv
    BY StoreAssumption DEF QueryInv
<1>3. StoreInv'
    BY <1>1, <1>2, InsertBatchKeepsStoreInv
<1>4. events \subseteq events'
    BY <1>1 DEF InsertBatch
<1>5. \A k \in Names \X Days : Encodes(sketches'[k], uniques'[k])
    BY <1>2, QueryInvRows, InsertEncodes DEF StoreInv
<1>6. clock' \in Minutes
    BY <1>1 DEF QueryInv, QueryTypeOK
<1> QED  BY <1>1, <1>3, <1>4, <1>5, <1>6, AnswerUnchanged

\* A minute passes.
LEMMA MinuteKeeps ==
    ASSUME QueryInv, MinutePasses
    PROVE  QueryInv'
<1>1. UNCHANGED storeVars /\ UNCHANGED <<sketches, spc, stats>>
    BY DEF MinutePasses
<1>2. StoreInv'
    BY <1>1, StoreUnchanged DEF QueryInv
<1>3. \A k \in Names \X Days : Encodes(sketches'[k], uniques'[k])
    BY <1>1, QueryInvRows DEF storeVars
<1>4. clock' \in Minutes
    BY StoreAssumption DEF QueryInv, QueryTypeOK, MinutePasses, Minutes
<1>5. events \subseteq events'
    BY <1>1 DEF storeVars
<1> QED  BY <1>1, <1>2, <1>3, <1>4, <1>5, AnswerUnchanged

\* TotalsToday: the names it leaves out have no rows or there is no room for them.
LEMMA TopIs ==
    ASSUME StoreInv, clock \in Minutes, NEW T \in TopNames
    PROVE  /\ T \subseteq Names
           /\ \A n \in Names \ T : \/ CountToday(n) = 0
                                   \/ /\ Cardinality(T) = Limit
                                      /\ \A o \in T : CountToday(n) <= CountToday(o)
<1>1. /\ T \subseteq NamesToday /\ NamesToday \subseteq Names
      /\ \A n \in T, o \in NamesToday \ T : CountToday(n) >= CountToday(o)
    BY DEF TopNames, NamesToday
<1>2. IsFiniteSet(NamesToday) /\ \A n \in Names : CountToday(n) \in Nat
    BY NamesFinite
<1>3. ASSUME NEW n \in Names \ T
      PROVE  \/ CountToday(n) = 0
             \/ Cardinality(T) = Limit /\ \A o \in T : CountToday(n) <= CountToday(o)
    <2>1. CASE n \notin NamesToday
        <3>1. CountToday(n) \in Nat /\ ~(CountToday(n) > 0)
            BY <1>2, <2>1 DEF NamesToday
        <3> QED  BY <3>1
    <2>2. CASE n \in NamesToday
        <3>1. IsFiniteSet(T)
            BY <1>1, <1>2, FS_Subset
        <3>2. PICK c \in Nat : c = Cardinality(T)
            BY <3>1, FS_CardinalityType
        <3>3. PICK d \in Nat : d = Cardinality(NamesToday)
            BY <1>2, FS_CardinalityType
        <3>4. c # d
            BY <1>1, <1>2, <2>2, <3>2, <3>3, FS_Subset
        <3>5. c = Min({Limit, d})
            BY <3>2, <3>3 DEF TopNames
        <3>6. Min({Limit, d}) \in {Limit, d}
            <4>1. Limit \in Nat
                BY QueryAssumption
            <4>2. \E x \in {Limit, d} : \A y \in {Limit, d} : x <= y
                BY <4>1
            <4> QED  BY <4>2 DEF Min
        <3>7. c = Limit
            BY <3>4, <3>5, <3>6
        <3>8. ASSUME NEW o \in T PROVE CountToday(n) <= CountToday(o)
            <4>1. CountToday(o) >= CountToday(n)
                BY <1>1, <2>2
            <4>2. CountToday(o) \in Nat /\ CountToday(n) \in Nat
                BY <1>1, <1>2
            <4> QED  BY <4>1, <4>2
        <3> QED  BY <3>2, <3>7, <3>8
    <2> QED  BY <2>1, <2>2
<1> QED  BY <1>1, <1>3

\* getStats reads the totals.
LEMMA GetStatsKeeps ==
    ASSUME QueryInv, getStats
    PROVE  QueryInv'
<1>1. StoreInv /\ clock \in Minutes
    BY DEF QueryInv, QueryTypeOK
<1>2. PICK T \in TopNames :
        stats' = [NoStats EXCEPT !.totals = [n \in T |-> CountToday(n)],
                                 !.day = Today, !.seen = RowsToday]
    BY DEF getStats
<1>3. /\ stats'.totals = [n \in T |-> CountToday(n)]
      /\ stats'.day = Today /\ stats'.seen = RowsToday
      /\ stats'.uniques = <<>> /\ stats'.uniquesDay = 0
      /\ stats' = [totals |-> stats'.totals, day |-> stats'.day, seen |-> stats'.seen,
                   uniques |-> stats'.uniques, uniquesDay |-> stats'.uniquesDay,
                   series |-> stats'.series, since |-> stats'.since]
    BY <1>2 DEF NoStats
<1>4. /\ T \subseteq Names
      /\ \A n \in Names \ T : \/ CountToday(n) = 0
                              \/ /\ Cardinality(T) = Limit
                                 /\ \A o \in T : CountToday(n) <= CountToday(o)
    BY <1>1, TopIs
<1>5. \A n \in Names : CountToday(n) = Cardinality({e \in RowsToday : e.name = n})
    BY <1>1, CountIs
<1>6. UNCHANGED <<storeVars, sketches, clock>> /\ spc' = "uniques"
    BY DEF getStats
<1>7. QueryTypeOK'
    <2>1. StoreTypeOK'
        BY <1>6 DEF QueryInv, QueryTypeOK, StoreTypeOK, storeVars
    <2>2. Today \in Days /\ 0 \in Days
        BY <1>1, TodayType, FirstDay
    <2>3. RowsToday \subseteq events'
        BY <1>6 DEF RowsToday, storeVars
    <2>4. DOMAIN stats'.totals = T /\ DOMAIN stats'.uniques = {}
        BY <1>3
    <2>5. clock' \in Minutes
        BY <1>1, <1>6
    <2> QED  BY <1>3, <1>4, <1>6, <2>1, <2>2, <2>3, <2>4, <2>5 DEF QueryTypeOK
<1>8. TotalsCounted'
    <2>1. \A n \in T : stats'.totals[n] = Cardinality({e \in stats'.seen : e.name = n})
        BY <1>3, <1>4, <1>5
    <2>2. \A n \in Names \ T :
            \/ Cardinality({e \in stats'.seen : e.name = n}) = 0
            \/ /\ Cardinality(T) = Limit
               /\ \A o \in T : Cardinality({e \in stats'.seen : e.name = n})
                                   <= Cardinality({e \in stats'.seen : e.name = o})
        BY <1>3, <1>4, <1>5, ZenonT(30)
    <2>3. DOMAIN stats'.totals = T
        BY <1>3
    <2>4. ASSUME NEW e \in stats'.seen PROVE e.ts \div MinutesPerDay >= stats'.day
        <3>1. e \in events /\ e.ts >= DayStart
            BY <1>3 DEF RowsToday
        <3>2. e.ts \in Nat
            BY <1>1, <3>1, StoreAssumption DEF StoreInv, StoreTypeOK, Event, Minutes
        <3>3. Today \in Nat
            BY <1>1, TodayType
        <3>4. e.ts \div MinutesPerDay >= Today
            BY <3>1, <3>2, <3>3, DayOf DEF DayStart
        <3> QED  BY <1>3, <3>4
    <2> QED  BY <2>1, <2>2, <2>3, <2>4, ZenonT(30) DEF TotalsCounted
<1>9. StatsCohere'
    BY <1>6 DEF StatsCohere
<1> QED  BY <1>3, <1>6, <1>7, <1>8, <1>9, TablesUnchanged

\* It reads the sketches: later than the totals, so they hold the users of the
\* rows those counted.
LEMMA StatsUniquesKeeps ==
    ASSUME QueryInv, StatsUniques
    PROVE  QueryInv'
<1>1. StoreInv /\ clock \in Minutes /\ QueryTypeOK /\ TotalsCounted
    BY DEF QueryInv, QueryTypeOK
<1>2. /\ stats = [totals |-> stats.totals, day |-> stats.day, seen |-> stats.seen,
                  uniques |-> stats.uniques, uniquesDay |-> stats.uniquesDay,
                  series |-> stats.series, since |-> stats.since]
      /\ stats' = [stats EXCEPT !.uniques = UniquesTodayAll, !.uniquesDay = Today]
    BY DEF QueryInv, StatsUniques
<1>3. stats' = [totals |-> stats.totals, day |-> stats.day, seen |-> stats.seen,
                uniques |-> UniquesTodayAll, uniquesDay |-> Today,
                series |-> stats.series, since |-> stats.since]
    BY <1>2
<1>4. /\ stats'.totals = stats.totals /\ stats'.day = stats.day /\ stats'.seen = stats.seen
      /\ stats'.uniques = UniquesTodayAll /\ stats'.uniquesDay = Today
      /\ stats' = [totals |-> stats'.totals, day |-> stats'.day, seen |-> stats'.seen,
                   uniques |-> stats'.uniques, uniquesDay |-> stats'.uniquesDay,
                   series |-> stats'.series, since |-> stats'.since]
    BY <1>3
<1>5. UNCHANGED <<storeVars, sketches, clock>> /\ spc = "uniques" /\ spc' = "series"
    BY DEF StatsUniques
<1>6. QueryTypeOK'
    <2>1. StoreTypeOK'
        BY <1>1, <1>5 DEF QueryTypeOK, StoreTypeOK, storeVars
    <2>2. Today \in Days
        BY <1>1, TodayType
    <2>3. DOMAIN stats'.uniques \subseteq Names
        BY <1>4 DEF UniquesTodayAll, NamesWithUniques
    <2>4. clock' \in Minutes /\ events' = events
        BY <1>1, <1>5 DEF storeVars
    <2> QED  BY <1>1, <1>4, <1>5, <2>1, <2>2, <2>3, <2>4 DEF QueryTypeOK
<1>7. TotalsCounted'
    BY <1>1, <1>4, <1>5, TotalsKept
<1>8. StatsCohere'
    <2>1. SUFFICES ASSUME Today = stats.day, NEW e \in stats.seen, e.user # NoUser,
                          e.ts \div MinutesPerDay = stats.day
                   PROVE  /\ e.name \in DOMAIN UniquesTodayAll
                          /\ rank(e.user) <= UniquesTodayAll[e.name][idx(e.user)]
        BY <1>4, <1>5 DEF StatsCohere
    <2> DEFINE k == <<e.name, Today>>
    <2>2. e \in events /\ e \in Event
        BY <1>1 DEF QueryTypeOK, StoreTypeOK
    <2>3. e.name \in Names /\ k \in Names \X Days /\ uniqueKey(e) = k
        BY <1>1, <2>1, <2>2, TodayType DEF Event, uniqueKey
    <2>4. e.user \in uniques[k]
        BY <1>1, <2>1, <2>2, <2>3 DEF StoreInv, SketchesCoverEvents
    <2>5. Encodes(sketches[k], uniques[k])
        BY <2>3, QueryInvRows
    <2>6. sketches[k] # NoRow /\ IsSketchOf(FromBytes(sketches[k]), uniques[k])
        BY <2>4, <2>5, RowRead
    <2>7. e.name \in NamesWithUniques
        BY <2>3, <2>6 DEF NamesWithUniques
    <2>8. UniquesTodayAll[e.name] = FromBytes(sketches[k])
        BY <2>7 DEF UniquesTodayAll
    <2>9. rank(e.user) <= FromBytes(sketches[k])[idx(e.user)]
        BY <2>4, <2>6 DEF IsSketchOf
    <2> QED  BY <2>7, <2>8, <2>9 DEF UniquesTodayAll
<1> QED  BY <1>4, <1>5, <1>6, <1>7, <1>8, TablesUnchanged

\* It reads the series, later still: the rollups have only grown.
LEMMA StatsSeriesKeeps ==
    ASSUME QueryInv, StatsSeries
    PROVE  QueryInv'
<1>1. StoreInv /\ clock \in Minutes /\ QueryTypeOK /\ TotalsCounted /\ StatsCohere
    BY DEF QueryInv, QueryTypeOK
<1>2. /\ stats = [totals |-> stats.totals, day |-> stats.day, seen |-> stats.seen,
                  uniques |-> stats.uniques, uniquesDay |-> stats.uniquesDay,
                  series |-> stats.series, since |-> stats.since]
      /\ stats' = [stats EXCEPT !.series = [k \in Recent |-> counts[k]], !.since = clock - Window]
    BY DEF QueryInv, StatsSeries
<1>3. stats' = [totals |-> stats.totals, day |-> stats.day, seen |-> stats.seen,
                uniques |-> stats.uniques, uniquesDay |-> stats.uniquesDay,
                series |-> [k \in Recent |-> counts[k]], since |-> clock - Window]
    BY <1>2
<1>4. /\ stats'.totals = stats.totals /\ stats'.day = stats.day /\ stats'.seen = stats.seen
      /\ stats'.uniques = stats.uniques /\ stats'.uniquesDay = stats.uniquesDay
      /\ stats'.series = [k \in Recent |-> counts[k]] /\ stats'.since = clock - Window
      /\ stats' = [totals |-> stats'.totals, day |-> stats'.day, seen |-> stats'.seen,
                   uniques |-> stats'.uniques, uniquesDay |-> stats'.uniquesDay,
                   series |-> stats'.series, since |-> stats'.since]
    BY <1>3
<1>5. UNCHANGED <<storeVars, sketches, clock>> /\ spc = "series" /\ spc' = "done"
    BY DEF StatsSeries
<1>6. QueryTypeOK'
    <2>1. StoreTypeOK'
        BY <1>1, <1>5 DEF QueryTypeOK, StoreTypeOK, storeVars
    <2>2. clock' \in Minutes /\ events' = events
        BY <1>1, <1>5 DEF storeVars
    <2> QED  BY <1>1, <1>4, <1>5, <2>1, <2>2 DEF QueryTypeOK
<1>7. TotalsCounted'
    BY <1>1, <1>4, <1>5, TotalsKept
<1>8. ASSUME NEW e \in stats.seen, e.ts >= clock - Window
      PROVE  /\ minuteKey(e) \in Recent
             /\ Cardinality(RowsOf(stats.seen, minuteKey(e))) <= counts[minuteKey(e)]
    <2> DEFINE k == minuteKey(e)
    <2>1. e \in events /\ e \in Event /\ stats.seen \subseteq events /\ IsFiniteSet(events)
        BY <1>1 DEF QueryTypeOK, StoreTypeOK
    <2>2. k \in Names \X Minutes /\ k[2] = e.ts
        BY <2>1 DEF minuteKey, Event
    <2>3. counts[k] = Cardinality(RowsOf(events, k)) /\ counts[k] \in Nat
        BY <1>1, <2>2 DEF StoreInv, StoreTypeOK, RollupsMatchEvents
    <2>4. /\ RowsOf(events, k) \subseteq events /\ e \in RowsOf(events, k)
          /\ RowsOf(stats.seen, k) \subseteq RowsOf(events, k)
        BY <2>1 DEF RowsOf
    <2>5. IsFiniteSet(RowsOf(events, k))
        BY <2>1, <2>4, FS_Subset
    <2>6. Cardinality(RowsOf(stats.seen, k)) <= counts[k]
        BY <2>3, <2>4, <2>5, FS_Subset
    <2>7. counts[k] # 0
        BY <2>3, <2>4, <2>5, FS_EmptySet
    <2>8. counts[k] > 0
        BY <2>3, <2>7
    <2> QED  BY <1>8, <2>2, <2>6, <2>8 DEF Recent
<1>9. StatsCohere'
    <2>1. ASSUME stats'.uniquesDay = stats'.day, NEW e \in stats'.seen,
                 e.user # NoUser, e.ts \div MinutesPerDay = stats'.day
          PROVE  /\ e.name \in DOMAIN stats'.uniques
                 /\ rank(e.user) <= stats'.uniques[e.name][idx(e.user)]
        BY <1>1, <1>4, <1>5, <2>1 DEF StatsCohere
    <2>2. ASSUME NEW e \in stats'.seen, e.ts >= stats'.since
          PROVE  /\ minuteKey(e) \in DOMAIN stats'.series
                 /\ Cardinality(RowsOf(stats'.seen, minuteKey(e))) <= stats'.series[minuteKey(e)]
        <3>1. /\ minuteKey(e) \in Recent
              /\ Cardinality(RowsOf(stats.seen, minuteKey(e))) <= counts[minuteKey(e)]
            BY <1>4, <1>8, <2>2
        <3>2. /\ DOMAIN stats'.series = Recent
              /\ stats'.series[minuteKey(e)] = counts[minuteKey(e)]
            BY <1>4, <3>1
        <3> QED  BY <1>4, <3>1, <3>2
    <2> QED  BY <2>1, <2>2 DEF StatsCohere, RowsOf, minuteKey
<1> QED  BY <1>4, <1>5, <1>6, <1>7, <1>9, TablesUnchanged

\* A failed query leaves no answer.
LEMMA StatsFailsKeeps ==
    ASSUME QueryInv, StatsFails
    PROVE  QueryInv'
<1>1. UNCHANGED <<storeVars, sketches, clock>> /\ spc' = "idle" /\ stats' = NoStats
    BY DEF StatsFails
<1>2. 0 \in Days
    BY FirstDay
<1>3. StoreTypeOK' /\ clock' \in Minutes
    BY <1>1 DEF QueryInv, QueryTypeOK, StoreTypeOK, storeVars
<1>4. QueryTypeOK'
    BY <1>1, <1>2, <1>3 DEF QueryTypeOK, NoStats
<1>5. TotalsCounted' /\ StatsCohere'
    BY <1>1 DEF TotalsCounted, StatsCohere
<1>6. stats' = [totals |-> stats'.totals, day |-> stats'.day, seen |-> stats'.seen,
                uniques |-> stats'.uniques, uniquesDay |-> stats'.uniquesDay,
                series |-> stats'.series, since |-> stats'.since]
    BY <1>1 DEF NoStats
<1> QED  BY <1>1, <1>4, <1>5, <1>6, TablesUnchanged

\* Every step keeps the invariant.
LEMMA QueryNextInv == QueryInv /\ [Next]_vars => QueryInv'
<1> SUFFICES ASSUME QueryInv, [Next]_vars PROVE QueryInv'
    OBVIOUS
<1>1. CASE \E batch \in Batches : \E new \in SUBSET batch : Insert(batch, new)
    BY <1>1, InsertKeeps
<1>2. CASE MinutePasses
    BY <1>2, MinuteKeeps
<1>3. CASE getStats
    BY <1>3, GetStatsKeeps
<1>4. CASE StatsUniques
    BY <1>4, StatsUniquesKeeps
<1>5. CASE StatsSeries
    BY <1>5, StatsSeriesKeeps
<1>6. CASE StatsFails
    BY <1>6, StatsFailsKeeps
<1>7. CASE UNCHANGED vars
    <2>1. UNCHANGED storeVars /\ UNCHANGED <<sketches, clock, spc, stats>>
        BY <1>7 DEF vars, queryVars
    <2>2. StoreInv'
        BY <2>1, StoreUnchanged DEF QueryInv
    <2>3. \A k \in Names \X Days : Encodes(sketches'[k], uniques'[k])
        BY <2>1, QueryInvRows DEF storeVars
    <2>4. clock' \in Minutes /\ events \subseteq events'
        BY <2>1 DEF QueryInv, QueryTypeOK, storeVars
    <2> QED  BY <2>1, <2>2, <2>3, <2>4, AnswerUnchanged
<1> QED  BY <1>1, <1>2, <1>3, <1>4, <1>5, <1>6, <1>7 DEF Next

\* The inductive invariant of the read side.
THEOREM QueryKeeps == Spec => []QueryInv
BY QueryInitInv, QueryNextInv, PTL DEF Spec

\* The types: an answer counts only rows that are stored.
THEOREM QueryTypes == Spec => []QueryTypeOK
<1>1. QueryInv => QueryTypeOK
    BY DEF QueryInv
<1> QED  BY <1>1, QueryKeeps, PTL

\* Rows of event_uniques_day are readable and hold the sketch of exactly the
\* users folded into them, whatever the batches and the order within them.
THEOREM QueryEncodes == Spec => []SketchesEncode
<1>1. QueryInv => SketchesEncode
    <2> SUFFICES ASSUME QueryInv, NEW k \in Names \X Days
                 PROVE  IF uniques[k] = {} THEN sketches[k] = NoRow
                        ELSE Readable(sketches[k]) /\ IsSketchOf(FromBytes(sketches[k]), uniques[k])
        BY DEF SketchesEncode
    <2>1. Encodes(sketches[k], uniques[k])
        BY QueryInvRows
    <2> QED  BY <2>1, RowRead
<1> QED  BY <1>1, QueryKeeps, PTL

\* The totals of /v1/stats are the rows stored when they were read.
THEOREM QueryTotals == Spec => []TotalsCounted
<1>1. QueryInv => TotalsCounted
    BY DEF QueryInv
<1> QED  BY <1>1, QueryKeeps, PTL

\* The three statements of /v1/stats see states that only go forwards.
THEOREM QueryCoheres == Spec => []StatsCohere
<1>1. QueryInv => StatsCohere
    BY DEF QueryInv
<1> QED  BY <1>1, QueryKeeps, PTL

\* getUniques answers from the sketch of today's users, an empty one for no row.
LEMMA UniquesIs ==
    QueryInv => \A n \in Names : IsSketchOf(UniquesToday(n), uniques[<<n, Today>>])
<1> SUFFICES ASSUME QueryInv, NEW n \in Names
             PROVE  IsSketchOf(UniquesToday(n), uniques[<<n, Today>>])
    OBVIOUS
<1> DEFINE k == <<n, Today>>
<1>1. k \in Names \X Days
    BY TodayType DEF QueryInv, QueryTypeOK
<1>2. Encodes(sketches[k], uniques[k])
    BY <1>1, QueryInvRows
<1>3. CASE sketches[k] = NoRow
    <2>1. uniques[k] = {}
        BY <1>2, <1>3, RowRead
    <2>2. UniquesToday(n) = New
        BY <1>3 DEF UniquesToday, NamesWithUniques
    <2> QED  BY <2>1, <2>2, NewIsEmpty
<1>4. CASE sketches[k] # NoRow
    <2>1. IsSketchOf(FromBytes(sketches[k]), uniques[k])
        BY <1>2, <1>4, RowRead
    <2>2. UniquesToday(n) = FromBytes(sketches[k])
        BY <1>4 DEF UniquesToday, UniquesTodayAll, NamesWithUniques
    <2> QED  BY <2>1, <2>2
<1> QED  BY <1>3, <1>4

\* Whatever a step commits, no rollup shrinks and no sketch loses a user.
LEMMA TablesGrow ==
    ASSUME QueryInv, [Next]_vars
    PROVE  /\ \A k \in Names \X Minutes : counts[k] \in Nat /\ counts'[k] \in Nat /\ counts[k] <= counts'[k]
           /\ \A k \in Names \X Days : uniques[k] \subseteq uniques'[k]
<1>1. StoreTypeOK
    BY DEF QueryInv, StoreInv
<1>2. ASSUME NEW batch \in Batches, NEW new, Insert(batch, new)
      PROVE  /\ \A k \in Names \X Minutes : counts'[k] \in Nat /\ counts[k] <= counts'[k]
             /\ \A k \in Names \X Days : uniques[k] \subseteq uniques'[k]
    <2>1. batch \subseteq Event /\ IsFiniteSet(batch) /\ InsertBatch(batch, new)
        BY <1>2, StoreAssumption DEF Insert
    <2>2. ASSUME NEW k \in Names \X Minutes PROVE counts'[k] \in Nat /\ counts[k] <= counts'[k]
        <3>1. Cardinality(RowsOf(new, k)) \in Nat
            BY <1>1, <2>1, RowsAdd
        <3>2. counts'[k] = counts[k] + Cardinality(RowsOf(new, k)) /\ counts[k] \in Nat
            BY <1>1, <2>1 DEF InsertBatch, Rolled, StoreTypeOK
        <3> QED  BY <3>1, <3>2
    <2>3. \A k \in Names \X Days : uniques[k] \subseteq uniques'[k]
        BY <1>1, <1>2, QueryInvRows, InsertEncodes
    <2> QED  BY <2>2, <2>3
<1>3. CASE UNCHANGED storeVars
    BY <1>1, <1>3 DEF storeVars, StoreTypeOK
<1>4. (\E batch \in Batches : \E new \in SUBSET batch : Insert(batch, new)) \/ UNCHANGED storeVars
    BY DEF Next, vars, MinutePasses, getStats, StatsUniques, StatsSeries, StatsFails
<1> QED  BY <1>1, <1>2, <1>3, <1>4 DEF StoreTypeOK

\* Within a day no answer of /v1/counts shrinks, and no register behind an
\* answer of /v1/uniques does.
THEOREM QueryGrows == Spec => AnswersGrow
<1>1. QueryInv' => (\A n \in Names : IsSketchOf(UniquesToday(n), uniques[<<n, Today>>]))'
    BY UniquesIs, PTL
<1>2. ASSUME QueryInv, QueryInv', [Next]_vars, Today' = Today, NEW n \in Names
      PROVE  /\ CountToday(n)' >= CountToday(n)
             /\ \A i \in Registers : UniquesToday(n)'[i] >= UniquesToday(n)[i]
    <2>1. \A k \in Names \X Minutes : counts[k] \in Nat /\ counts'[k] \in Nat /\ counts[k] <= counts'[k]
        BY <1>2, TablesGrow
    <2>2. \A k \in Names \X Days : uniques[k] \subseteq uniques'[k]
        BY <1>2, TablesGrow
    <2>3. CountToday(n)' >= CountToday(n)
        <3> DEFINE f == [t \in Minutes |-> counts[<<n, t>>]]
                   g == [t \in Minutes |-> counts'[<<n, t>>]]
                   T == TodayMinutes
        <3>1. IsFiniteSet(Minutes) /\ T \subseteq Minutes
            BY StoreAssumption, FS_Interval DEF Minutes, TodayMinutes
        <3>2. IsFiniteSet(T)
            BY <3>1, FS_Subset
        <3>3. \A t \in T : f[t] \in Int /\ g[t] \in Int /\ f[t] <= g[t]
            <4>1. SUFFICES ASSUME NEW t \in Minutes PROVE f[t] \in Int /\ g[t] \in Int /\ f[t] <= g[t]
                BY <3>1
            <4>2. <<n, t>> \in Names \X Minutes
                OBVIOUS
            <4> QED  BY <2>1, <4>2
        <3>4. CountToday(n) = SumFunctionOnSet(f, T)
            BY DEF CountToday
        <3>5. CountToday(n)' = SumFunctionOnSet(g, T)
            <4>1. TodayMinutes' = T
                BY <1>2 DEF TodayMinutes, DayStart
            <4> QED  BY <4>1 DEF CountToday
        <3> HIDE DEF f, g, T
        <3>6. SumFunctionOnSet(f, T) <= SumFunctionOnSet(g, T)
            BY <3>2, <3>3, SumGrows, ZenonT(30)
        <3>7. SumFunctionOnSet(f, T) \in Int
            BY <3>2, <3>3, SumPick, ZenonT(30)
        <3>8. SumFunctionOnSet(g, T) \in Int
            BY <3>2, <3>3, SumPick, ZenonT(30)
        <3>9. PICK x \in Int, y \in Int : x = SumFunctionOnSet(f, T) /\ y = SumFunctionOnSet(g, T)
            BY <3>7, <3>8
        <3>10. y >= x
            BY <3>6, <3>9
        <3> QED  BY <3>4, <3>5, <3>9, <3>10
    <2>4. \A i \in Registers : UniquesToday(n)'[i] >= UniquesToday(n)[i]
        <3>1. IsSketchOf(UniquesToday(n), uniques[<<n, Today>>])
            BY <1>2, UniquesIs
        <3>2. IsSketchOf(UniquesToday(n)', uniques'[<<n, Today>>])
            BY <1>1, <1>2
        <3>3. uniques[<<n, Today>>] \subseteq uniques'[<<n, Today>>]
            <4>1. Today \in Days
                BY <1>2, TodayType DEF QueryInv, QueryTypeOK
            <4> QED  BY <2>2, <4>1
        <3> QED  BY <3>1, <3>2, <3>3, SketchGrows, ZenonT(30)
    <2> QED  BY <2>3, <2>4
<1>3. QueryInv /\ QueryInv' /\ [Next]_vars =>
        [Today' = Today => \A n \in Names :
            /\ CountToday(n)' >= CountToday(n)
            /\ \A i \in Registers : UniquesToday(n)'[i] >= UniquesToday(n)[i]]_vars
    BY <1>2
<1> QED  BY <1>3, QueryKeeps, PTL DEF Spec, AnswersGrow
=============================================================================
