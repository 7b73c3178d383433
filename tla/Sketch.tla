------------------------------- MODULE Sketch -------------------------------
(***************************************************************************)
(* internal/hll: HyperLogLog registers, and their encoding in a row of     *)
(* event_uniques_day.  hash64 is any function to HashBits bits, the same   *)
(* in every process.  Estimate, a float computed from the registers, is    *)
(* left out: an answer stands for the registers it is computed from.       *)
(***************************************************************************)
EXTENDS Integers, FiniteSets

CONSTANTS
    Values,         \* what is counted: the distinct_id values
    hash64,         \* the hash of each value
    HashBits,       \* 64
    Precision,      \* 14: the bits that pick a register
    formatVersion

ASSUME SketchAssumption ==
    /\ HashBits \in Nat /\ Precision \in Nat /\ Precision <= HashBits
    /\ hash64 \in [Values -> 0 .. 2^HashBits - 1]
    /\ 2^Precision \in Nat /\ 2^(HashBits - Precision) \in Nat \ {0}
    /\ 2^HashBits = 2^Precision * 2^(HashBits - Precision)

Registers == 0 .. 2^Precision - 1
MaxRank == HashBits - Precision + 1

New == [i \in Registers |-> 0]

-----------------------------------------------------------------------------
idx(v) == hash64[v] \div 2^(HashBits - Precision)
rest(v) == (hash64[v] * 2^Precision) % 2^HashBits

\* bits.LeadingZeros64: there are n of them when x is below 2^(HashBits - n).
LeadingZeros(x) == Cardinality({n \in 1 .. HashBits : x < 2^(HashBits - n)})

\* The low Precision bits of rest are shifted in: they are no evidence.
rank(v) ==
    LET r == LeadingZeros(rest(v)) + 1
    IN  IF r > MaxRank THEN MaxRank ELSE r

\* Faulty variant: the register is set, not raised.
Add_Sets(s, v) == [s EXCEPT ![idx(v)] = rank(v)]

Add(s, v) == IF rank(v) > s[idx(v)] THEN [s EXCEPT ![idx(v)] = rank(v)] ELSE s

\* The code only tests it; theorem MergeUnites says what it is for.
Merge(s, t) == [i \in Registers |-> IF t[i] > s[i] THEN t[i] ELSE s[i]]

\* [version][precision][registers...]
Bytes(s) ==
    [i \in 1 .. 2 + 2^Precision |->
        IF i = 1 THEN formatVersion ELSE IF i = 2 THEN Precision ELSE s[i - 3]]

\* FromBytes answers an error unless the encoding is this program's...
Readable(b) == DOMAIN b = 1 .. 2 + 2^Precision /\ b[1] = formatVersion /\ b[2] = Precision

\* ...and else the registers.
FromBytes(b) == [i \in Registers |-> b[i + 3]]

-----------------------------------------------------------------------------
(***************************************************************************)
(* What a sketch is: s is the sketch of the set S when a register holds    *)
(* the highest rank of the members of S that land there, 0 for none.       *)
(***************************************************************************)
IsSketchOf(s, S) ==
    /\ s \in [Registers -> 0 .. MaxRank]
    /\ \A v \in S : rank(v) <= s[idx(v)]
    /\ \A i \in Registers : s[i] = 0 \/ \E v \in S : idx(v) = i /\ rank(v) = s[i]
=============================================================================
