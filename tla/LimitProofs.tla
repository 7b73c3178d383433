---------------------------- MODULE LimitProofs ----------------------------
(***************************************************************************)
(* The rate limiters.  RateLimit: a key gets what the token bucket         *)
(* promises and, for a burst that does not refill in 10 minutes, what each *)
(* eviction adds, for any number of keys and callers, although the token   *)
(* is taken after the mutex is released.                                   *)
(* RedisLimit: the limit holds over all instances, for any number of them. *)
(* Limits: and so in a process, whichever of the two it runs.              *)
(***************************************************************************)
EXTENDS Limits, TLAPS

\* A leaf goes to Zenon for two seconds, then to the SMT solver.
USE ZenonT(2), SMTT(30)

\* The rate earns no less over a longer time...
LEMMA Earns ==
    ASSUME NEW m \in Nat, NEW n \in Nat, m <= n
    PROVE  Rate * m \in Nat /\ Rate * m <= Rate * n
<1>1. Rate * (n - m) \in Nat
    BY RateAssumption
<1>2. Rate * n = Rate * m + Rate * (n - m)
    BY RateAssumption
<1> QED  BY <1>1, <1>2, RateAssumption

\* ...and one Rate in a tick.
LEMMA EarnsTick ==
    ASSUME NEW n \in Nat
    PROVE  Rate * (n + 1) = Rate * n + Rate
BY RateAssumption

\* The level of an entry is a number of tokens, at most the burst.
LEMMA LevelBounds ==
    ASSUME MemTypeOK, NEW b \in Buckets, at[b] <= now
    PROVE  Level(b) \in Nat /\ Level(b) <= Burst
<1>1. Rate * (now - at[b]) \in Nat
    BY Earns DEF MemTypeOK
<1> QED  BY <1>1, RateAssumption DEF Level, AtMost, MemTypeOK

\* The credit of a key too.
LEMMA CreditBounds ==
    ASSUME RateInv, NEW k \in Keys
    PROVE  Credit(k) \in Nat /\ Credit(k) <= Burst
<1>1. CASE buckets[k] = None
    BY <1>1, RateAssumption DEF Credit
<1>2. CASE buckets[k] # None
    <2>1. buckets[k] \in Buckets /\ at[buckets[k]] <= now
        BY <1>2 DEF RateInv, MemTypeOK, EntryInv
    <2> QED  BY <1>2, <2>1, LevelBounds DEF RateInv, Credit
<1> QED  BY <1>1, <1>2

\* So is the budget, and a sweep adds the excess to it.
LEMMA BudgetType ==
    ASSUME RateInv, NEW k \in Keys
    PROVE  /\ Budget(k) \in Nat /\ Burst <= Budget(k)
           /\ Excess \in Nat /\ Excess * (evicted[k] + 1) = Excess * evicted[k] + Excess
<1>1. now - start \in Nat /\ evicted[k] \in Nat
    BY DEF RateInv, MemTypeOK
<1>2. Rate * (now - start) \in Nat
    BY <1>1, Earns
<1>3. Excess \in Nat
    BY RateAssumption DEF Excess
<1>4. Excess * evicted[k] \in Nat /\ Excess * (evicted[k] + 1) = Excess * evicted[k] + Excess
    BY <1>1, <1>3
<1> QED  BY <1>2, <1>3, <1>4, RateAssumption DEF Budget

\* A caller past Unlock is in a well-formed call.
LEMMA CallType ==
    ASSUME RateInv, NEW c \in Callers, call[c] # None
    PROVE  /\ call[c].key \in Keys /\ call[c].entry \in Buckets /\ call[c].since \in Nat
           /\ buckets[call[c].key] = call[c].entry
           /\ call[c].entry # None
BY RateAssumption DEF RateInv, MemTypeOK, CallInv

-----------------------------------------------------------------------------
\* Allow up to Unlock keeps the invariant: the entry found is stamped, an entry
\* created is full, as was the credit of a key without one.
LEMMA LookupKeeps ==
    ASSUME RateInv, NEW c \in Callers, NEW k \in Keys, Lookup(c, k)
    PROVE  RateInv'
<1> PICK b \in Buckets :
        /\ Find(k, b) \/ Create(k, b)
        /\ last' = [last EXCEPT ![b] = now]
        /\ call' = [call EXCEPT ![c] = [key |-> k, entry |-> b, since |-> now]]
    BY ZenonT(30) DEF Lookup
<1>1. /\ now' = now /\ UNCHANGED history /\ call[c] = None
      /\ b # None /\ buckets'[k] = b /\ at'[b] <= now
      /\ at'[b] \in Nat
    <2>1. CASE Find(k, b)
        BY <2>1, RateAssumption DEF Lookup, Find, RateInv, MemTypeOK, EntryInv
    <2>2. CASE Create(k, b)
        BY <2>2, RateAssumption DEF Lookup, Create, RateInv, MemTypeOK
    <2> QED  BY <2>1, <2>2
<1>2. MemTypeOK'
    <2>1. last' \in [Buckets -> Nat]
        BY DEF RateInv, MemTypeOK
    <2>2. call' \in [Callers -> [key : Keys, entry : Buckets, since : Nat] \cup {None}]
        BY DEF RateInv, MemTypeOK
    <2>3. /\ buckets' \in [Keys -> Buckets \cup {None}]
          /\ tokens' \in [Buckets -> Nat] /\ at' \in [Buckets -> Nat]
        BY RateAssumption DEF Find, Create, RateInv, MemTypeOK
    <2> QED  BY <1>1, <2>1, <2>2, <2>3 DEF RateInv, MemTypeOK, history
<1>3. \A j \in Keys : j # k =>
          /\ buckets'[j] = buckets[j] /\ buckets[j] # b
          /\ buckets[j] # None => /\ last'[buckets[j]] = last[buckets[j]]
                                  /\ at'[buckets[j]] = at[buckets[j]]
                                  /\ tokens'[buckets[j]] = tokens[buckets[j]]
    <2> SUFFICES ASSUME NEW j \in Keys, j # k
                 PROVE  /\ buckets'[j] = buckets[j] /\ buckets[j] # b
                        /\ buckets[j] # None => /\ last'[buckets[j]] = last[buckets[j]]
                                                /\ at'[buckets[j]] = at[buckets[j]]
                                                /\ tokens'[buckets[j]] = tokens[buckets[j]]
        OBVIOUS
    <2>1. CASE Find(k, b)
        BY <2>1 DEF Find, RateInv, MemTypeOK, EntryInv
    <2>2. CASE Create(k, b)
        BY <2>2 DEF Create, RateInv, MemTypeOK
    <2> QED  BY <2>1, <2>2
<1>4. \A j \in Keys : EntryInv(j)'
    <2> SUFFICES ASSUME NEW j \in Keys PROVE EntryInv(j)'
        OBVIOUS
    <2>1. CASE j = k
        <3>1. last'[b] = now
            BY DEF RateInv, MemTypeOK
        <3> QED  BY <1>1, <1>3, <2>1, <3>1, RateAssumption DEF EntryInv, RateInv, MemTypeOK
    <2>2. CASE j # k
        BY <1>1, <1>3, <2>2 DEF EntryInv, RateInv
    <2> QED  BY <2>1, <2>2
<1>5. \A d \in Callers : CallInv(d)'
    <2> SUFFICES ASSUME NEW d \in Callers, call'[d] # None PROVE CallInv(d)'
        BY DEF CallInv
    <2>1. CASE d = c
        BY <1>1, <2>1, RateAssumption DEF CallInv, RateInv, MemTypeOK
    <2>2. CASE d # c
        <3>1. call'[d] = call[d] /\ CallInv(d)
            BY <2>2 DEF RateInv, MemTypeOK
        <3>2. /\ call[d].key \in Keys /\ call[d].entry \in Buckets /\ call[d].since \in Nat
              /\ buckets[call[d].key] = call[d].entry /\ call[d].entry # None
            BY <3>1, CallType
        <3>3. buckets'[call[d].key] = call[d].entry
            <4>1. CASE Find(k, b)
                BY <3>2, <4>1 DEF Find
            <4>2. CASE Create(k, b)
                BY <1>3, <3>2, <4>2 DEF Create
            <4> QED  BY <4>1, <4>2
        <3>4. last[call[d].entry] <= last'[call[d].entry]
            BY <3>2 DEF RateInv, MemTypeOK, EntryInv
        <3> QED  BY <1>1, <1>2, <3>1, <3>2, <3>3, <3>4 DEF CallInv, RateInv, MemTypeOK
    <2> QED  BY <2>1, <2>2
<1>6. \A j \in Keys : Credit(j)' = Credit(j)
    <2> SUFFICES ASSUME NEW j \in Keys PROVE Credit(j)' = Credit(j)
        OBVIOUS
    <2>1. CASE j # k
        BY <1>1, <1>3, <2>1 DEF Credit, Level
    <2>2. CASE j = k /\ Find(k, b)
        BY <1>1, <2>2 DEF Find, Credit, Level
    <2>3. CASE j = k /\ Create(k, b)
        <3>1. tokens'[b] = Burst /\ at'[b] = now
            BY <2>3 DEF Create, RateInv, MemTypeOK
        <3>2. now - now = 0 /\ Rate * 0 = 0
            BY RateAssumption DEF RateInv, MemTypeOK
        <3> QED  BY <1>1, <2>3, <3>1, <3>2, RateAssumption DEF Create, Credit, Level, AtMost
    <2> QED  BY <2>1, <2>2, <2>3
<1> QED  BY <1>1, <1>2, <1>4, <1>5, <1>6 DEF RateInv, Budget, history

\* A grant moves one token from the key's credit to what it was granted.
LEMMA GrantKeeps ==
    ASSUME RateInv, NEW c \in Callers, Grant(c)
    PROVE  RateInv'
<1> PICK b \in Buckets, k \in Keys : b = call[c].entry /\ k = call[c].key
    BY CallType DEF Grant
<1>1. /\ buckets[k] = b /\ b # None
      /\ last[b] \in Nat /\ now \in Nat /\ now <= last[b] + MaxStall /\ at[b] <= now
    <2>1. call[c].since \in Nat /\ buckets[k] = b /\ b # None
        BY CallType DEF Grant
    <2> QED  BY <2>1, RateAssumption DEF Grant, RateInv, MemTypeOK, CallInv, EntryInv
<1>2. Level(b) \in Nat /\ Level(b) >= 1 /\ Level(b) <= Burst
    BY <1>1, LevelBounds DEF RateInv, Grant
<1>3. MemTypeOK'
    <2>1. /\ tokens' \in [Buckets -> Nat] /\ at' \in [Buckets -> Nat]
        BY <1>1, <1>2 DEF Grant, RateInv, MemTypeOK
    <2>2. granted' \in [Keys -> Nat]
        BY DEF Grant, RateInv, MemTypeOK
    <2>3. call' \in [Callers -> [key : Keys, entry : Buckets, since : Nat] \cup {None}]
        BY DEF Grant, RateInv, MemTypeOK
    <2> QED  BY <2>1, <2>2, <2>3 DEF Grant, RateInv, MemTypeOK
<1>4. \A j \in Keys : EntryInv(j)'
    <2> SUFFICES ASSUME NEW j \in Keys, buckets[j] # None PROVE EntryInv(j)'
        BY DEF EntryInv, Grant
    <2>1. CASE buckets[j] = b
        BY <1>1, <2>1 DEF Grant, EntryInv, RateInv, MemTypeOK
    <2>2. CASE buckets[j] # b
        BY <1>1, <2>2 DEF Grant, EntryInv, RateInv, MemTypeOK
    <2> QED  BY <2>1, <2>2
<1>5. \A d \in Callers : CallInv(d)'
    BY DEF CallInv, Grant, RateInv, MemTypeOK
<1>6. \A j \in Keys : granted'[j] + Credit(j)' <= Budget(j)
    <2> SUFFICES ASSUME NEW j \in Keys PROVE granted'[j] + Credit(j)' <= Budget(j)
        OBVIOUS
    <2>1. CASE j = k
        <3>1. tokens'[b] = Level(b) - 1 /\ at'[b] = now /\ granted'[k] = granted[k] + 1
            BY <1>1 DEF Grant, RateInv, MemTypeOK
        <3>2. now - now = 0 /\ Rate * 0 = 0
            BY <1>1, RateAssumption
        <3>3. Credit(k)' = Credit(k) - 1
            BY <1>1, <1>2, <3>1, <3>2, RateAssumption DEF Grant, Credit, Level, AtMost
        <3>4. granted[k] + Credit(k) <= Budget(k)
            BY <1>1 DEF RateInv
        <3>5. granted[k] \in Nat /\ Credit(k) \in Nat
            BY <1>1, CreditBounds DEF RateInv, MemTypeOK
        <3>6. granted'[k] + Credit(k)' = granted[k] + Credit(k)
            BY <3>1, <3>3, <3>5
        <3> QED  BY <2>1, <3>4, <3>6
    <2>2. CASE j # k
        <3>1. granted'[j] = granted[j]
            BY <2>2 DEF Grant, RateInv, MemTypeOK
        <3>2. Credit(j)' = Credit(j)
            <4>1. CASE buckets[j] = None
                BY <4>1 DEF Grant, Credit
            <4>2. CASE buckets[j] # None
                <5>1. buckets[j] \in Buckets /\ buckets[j] # b
                    BY <1>1, <2>2, <4>2 DEF RateInv, MemTypeOK, EntryInv
                <5>2. tokens'[buckets[j]] = tokens[buckets[j]] /\ at'[buckets[j]] = at[buckets[j]]
                    BY <5>1 DEF Grant, RateInv, MemTypeOK
                <5> QED  BY <5>2 DEF Grant, Credit, Level
            <4> QED  BY <4>1, <4>2
        <3> QED  BY <3>1, <3>2 DEF RateInv
    <2> QED  BY <2>1, <2>2
<1> QED  BY <1>3, <1>4, <1>5, <1>6 DEF RateInv, Grant, Budget

\* A refusal only ends the call.
LEMMA DenyKeeps ==
    ASSUME RateInv, NEW c \in Callers, Deny(c)
    PROVE  RateInv'
<1>1. MemTypeOK'
    BY DEF Deny, history, RateInv, MemTypeOK
<1>2. \A d \in Callers : CallInv(d)'
    BY DEF Deny, RateInv, MemTypeOK, CallInv
<1>3. \A k \in Keys : EntryInv(k)' /\ Credit(k)' = Credit(k)
    BY DEF Deny, RateInv, EntryInv, Credit, Level
<1> QED  BY <1>1, <1>2, <1>3 DEF Deny, history, RateInv, Budget

\* A sweep takes no entry that a caller holds, and a bucket that lacks no more than
\* the excess, which the budget of its key gains.
LEMMA JanitorKeeps ==
    ASSUME RateInv, janitor
    PROVE  RateInv'
<1> DEFINE swept == {k \in Keys : buckets[k] # None /\ last[buckets[k]] < now - IdleFor}
<1>1. /\ UNCHANGED <<now, last, tokens, at, call, start, granted>>
      /\ \A k \in Keys \ swept : buckets'[k] = buckets[k] /\ evicted'[k] = evicted[k]
      /\ \A k \in swept : buckets'[k] = None /\ evicted'[k] = evicted[k] + 1
    BY DEF janitor, Evict
<1>2. MemTypeOK'
    BY DEF janitor, Evict, RateInv, MemTypeOK
<1>3. \A k \in Keys : EntryInv(k)'
    BY <1>1 DEF RateInv, EntryInv
<1>4. \A d \in Callers : CallInv(d)'
    <2> SUFFICES ASSUME NEW d \in Callers, call[d] # None PROVE CallInv(d)'
        BY <1>1 DEF CallInv
    <2>1. /\ call[d].key \in Keys /\ call[d].entry \in Buckets /\ call[d].since \in Nat
          /\ buckets[call[d].key] = call[d].entry
        BY CallType
    <2>2. ~(last[call[d].entry] < now - IdleFor)
        BY <2>1, RateAssumption DEF CallInv, RateInv, MemTypeOK
    <2> QED  BY <1>1, <2>1, <2>2 DEF CallInv, RateInv
<1>5. ASSUME NEW k \in Keys PROVE (granted[k] + Credit(k) <= Budget(k))'
    <2>1. /\ granted[k] \in Nat /\ Credit(k) \in Nat /\ Budget(k) \in Nat /\ Excess \in Nat
          /\ granted[k] + Credit(k) <= Budget(k)
        BY CreditBounds, BudgetType DEF RateInv, MemTypeOK
    <2>2. CASE k \notin swept
        <3>1. Credit(k)' = Credit(k) /\ Budget(k)' = Budget(k)
            BY <1>1, <2>2 DEF Credit, Level, Budget
        <3> QED  BY <1>1, <2>1, <3>1
    <2>3. CASE k \in swept
        <3> DEFINE b == buckets[k]
        <3>1. b # None /\ b \in Buckets /\ last[b] < now - IdleFor
            BY <2>3 DEF RateInv, MemTypeOK
        <3>2. IdleFor - MaxStall \in Nat /\ now - at[b] \in Nat /\ IdleFor - MaxStall <= now - at[b]
            BY <3>1, RateAssumption DEF RateInv, MemTypeOK, EntryInv
        <3>3. /\ Rate * (now - at[b]) \in Nat
              /\ Rate * (IdleFor - MaxStall) \in Nat
              /\ Rate * (IdleFor - MaxStall) <= Rate * (now - at[b])
            BY <3>2, Earns
        <3>4. tokens[b] \in Nat /\ Burst \in Nat
            BY <3>1, RateAssumption DEF RateInv, MemTypeOK
        <3>5. Burst <= Level(b) + Excess
            BY <3>3, <3>4 DEF Level, AtMost, Excess
        <3>6. Credit(k)' = Burst /\ Credit(k) = Level(b)
            BY <1>1, <2>3, <3>1 DEF Credit
        <3>7. Budget(k)' = Budget(k) + Excess
            <4>1. Budget(k)' = Burst + Rate * (now - start) + (Excess * evicted[k] + Excess)
                BY <1>1, <2>3, BudgetType DEF Budget
            <4>2. now - start \in Nat /\ evicted[k] \in Nat
                BY DEF RateInv, MemTypeOK
            <4>3. Rate * (now - start) \in Nat /\ Excess * evicted[k] \in Nat
                BY <2>1, <4>2, Earns
            <4> QED  BY <2>1, <3>4, <4>1, <4>3 DEF Budget
        <3> QED  BY <1>1, <2>1, <3>4, <3>5, <3>6, <3>7
    <2> QED  BY <2>2, <2>3
<1> QED  BY <1>1, <1>2, <1>3, <1>4, <1>5 DEF RateInv

\* A tick earns a key at most Rate.
LEMMA TickKeeps ==
    ASSUME RateInv, MemTick
    PROVE  RateInv'
<1>1. MemTypeOK' /\ start' <= now'
    BY DEF MemTick, history, RateInv, MemTypeOK
<1>2. \A k \in Keys : EntryInv(k)'
    BY DEF MemTick, RateInv, MemTypeOK, EntryInv
<1>3. \A c \in Callers : CallInv(c)'
    <2> SUFFICES ASSUME NEW c \in Callers, call[c] # None PROVE CallInv(c)'
        BY DEF CallInv, MemTick
    <2> QED  BY CallType, RateAssumption DEF CallInv, MemTick, RateInv, MemTypeOK
<1>4. \A k \in Keys : Credit(k)' \in Nat /\ Credit(k)' <= Credit(k) + Rate
    <2> SUFFICES ASSUME NEW k \in Keys
                 PROVE  Credit(k)' \in Nat /\ Credit(k)' <= Credit(k) + Rate
        OBVIOUS
    <2>1. CASE buckets[k] = None
        BY <2>1, RateAssumption DEF MemTick, Credit
    <2>2. CASE buckets[k] # None
        <3> DEFINE b == buckets[k]
        <3>1. b \in Buckets /\ now - at[b] \in Nat /\ tokens[b] \in Nat
            BY <2>2 DEF RateInv, MemTypeOK, EntryInv
        <3>2. now' - at'[b] = (now - at[b]) + 1 /\ tokens'[b] = tokens[b] /\ buckets' = buckets
            BY <3>1 DEF MemTick, RateInv, MemTypeOK
        <3>3. Rate * (now' - at'[b]) = Rate * (now - at[b]) + Rate
            BY <3>1, <3>2, EarnsTick
        <3>4. Rate * (now - at[b]) \in Nat
            BY <3>1, Earns
        <3>5. /\ Level(b)' \in Nat
              /\ Level(b)' <= Level(b) + Rate
            BY <3>1, <3>2, <3>3, <3>4, RateAssumption DEF Level, AtMost
        <3> QED  BY <2>2, <3>2, <3>5 DEF Credit
    <2> QED  BY <2>1, <2>2
<1>5. \A k \in Keys : (granted[k] + Credit(k) <= Budget(k))'
    <2> SUFFICES ASSUME NEW k \in Keys
                 PROVE  (granted[k] + Credit(k) <= Budget(k))'
        OBVIOUS
    <2>1. now - start \in Nat /\ now' - start' = (now - start) + 1 /\ UNCHANGED <<granted, evicted>>
        BY DEF MemTick, history, RateInv, MemTypeOK
    <2>2. /\ Rate * (now' - start') = Rate * (now - start) + Rate
          /\ Rate * (now - start) \in Nat
        BY <2>1, EarnsTick, Earns
    <2>3. granted[k] \in Nat /\ Credit(k) \in Nat /\ evicted[k] \in Nat /\ Excess \in Nat
        BY CreditBounds, BudgetType DEF RateInv, MemTypeOK
    <2>4. granted[k] + Credit(k) <= Budget(k)
        BY DEF RateInv
    <2>5. Budget(k) \in Nat /\ Budget(k)' = Budget(k) + Rate
        <3>1. Excess * evicted[k] \in Nat
            BY <2>3
        <3> QED  BY <2>1, <2>2, <3>1, RateAssumption DEF Budget
    <2> QED  BY <1>4, <2>1, <2>3, <2>4, <2>5, RateAssumption
<1> QED  BY <1>1, <1>2, <1>3, <1>5 DEF RateInv

\* An observer that starts to count finds at most a full bucket.
LEMMA ObserveKeeps ==
    ASSUME RateInv, Observe
    PROVE  RateInv'
<1>1. MemTypeOK' /\ start' <= now'
    BY DEF Observe, RateInv, MemTypeOK
<1>2. \A c \in Callers : CallInv(c)'
    BY DEF Observe, RateInv, CallInv
<1>3. \A k \in Keys : EntryInv(k)' /\ Credit(k)' = Credit(k)
    BY DEF Observe, RateInv, EntryInv, Credit, Level
<1>4. \A k \in Keys : (granted[k] + Credit(k) <= Budget(k))'
    <2> SUFFICES ASSUME NEW k \in Keys PROVE (granted[k] + Credit(k) <= Budget(k))'
        OBVIOUS
    <2>1. granted'[k] = 0 /\ evicted'[k] = 0 /\ now' - start' = 0
        BY DEF Observe, RateInv, MemTypeOK
    <2>2. Rate * 0 = 0 /\ Excess * 0 = 0
        BY BudgetType, RateAssumption
    <2>3. Budget(k)' = Burst
        BY <2>1, <2>2, RateAssumption DEF Budget
    <2> QED  BY <1>3, <2>1, <2>3, CreditBounds
<1> QED  BY <1>1, <1>2, <1>3, <1>4 DEF RateInv

\* The invariant of the buckets holds at the start.
LEMMA RateInitInv ==
    ASSUME MemInit
    PROVE  RateInv
<1>1. MemTypeOK /\ start <= now
    BY RateAssumption DEF MemInit, MemTypeOK
<1>2. \A k \in Keys : EntryInv(k) /\ granted[k] = 0 /\ Credit(k) = Burst
    BY RateAssumption DEF MemInit, EntryInv, Credit
<1>3. \A c \in Callers : CallInv(c)
    BY DEF MemInit, CallInv
<1>4. ASSUME NEW k \in Keys PROVE Budget(k) = Burst
    <2>1. now - start = 0 /\ Rate * 0 = 0 /\ evicted[k] = 0
        BY RateAssumption DEF MemInit
    <2>2. Excess \in Nat /\ Excess * 0 = 0
        BY RateAssumption DEF Excess
    <2> QED  BY <2>1, <2>2, RateAssumption DEF Budget
<1> QED  BY <1>1, <1>2, <1>3, <1>4, RateAssumption DEF RateInv

\* Every step of the limiter, of the clock and of the observer keeps it.
LEMMA RateNextInv ==
    ASSUME RateInv, [MemNext]_memVars
    PROVE  RateInv'
<1>1. ASSUME NEW c \in Callers, NEW k \in Keys, Lookup(c, k) PROVE RateInv'
    BY <1>1, LookupKeeps
<1>2. ASSUME NEW c \in Callers, Grant(c) \/ Deny(c) PROVE RateInv'
    BY <1>2, GrantKeeps, DenyKeeps
<1>3. CASE janitor \/ MemTick \/ Observe
    BY <1>3, JanitorKeeps, TickKeeps, ObserveKeeps
<1>4. CASE UNCHANGED memVars
    BY <1>4 DEF memVars, history, RateInv, MemTypeOK, EntryInv, CallInv, Credit, Level, Budget
<1> QED  BY <1>1, <1>2, <1>3, <1>4 DEF MemNext

-----------------------------------------------------------------------------
\* Grants and remaining credit of a key stay within its budget, in every order of
\* lookups, grants and sweeps, for any rate and burst: a bucket that the janitor
\* evicts lacks no more than the excess.
THEOREM RateKeeps == MemSpec => []RateInv
BY RateInitInv, RateNextInv, PTL DEF MemSpec

-----------------------------------------------------------------------------
\* Seconds are whole: a tick lies in the second it is divided into.
LEMMA InSecond ==
    ASSUME NEW x \in Nat
    PROVE  /\ x \div Second \in Nat
           /\ (x \div Second) * Second <= x
           /\ x <= (x \div Second) * Second + Second - 1
BY RedisAssumption

\* A second of the modelled time has a time of day, and lasts Second ticks.
LEMMA SecondType ==
    ASSUME NEW w \in Seconds
    PROVE  w \in Nat /\ w * Second \in Nat /\ windowKey(w) \in TimesOfDay
<1>1. MaxClock + MaxSkew \in Nat
    BY RedisAssumption
<1>2. w \in Nat
    BY <1>1, InSecond DEF Seconds
<1> QED  BY <1>2, RedisAssumption DEF windowKey, TimesOfDay

\* The second an instance's clock shows is one of them.
LEMMA AskedSecond ==
    ASSUME NEW c \in 0 .. MaxClock, NEW k \in 0 .. MaxSkew
    PROVE  (c + k) \div Second \in Seconds
<1> DEFINE x == c + k
           y == MaxClock + MaxSkew
           q == x \div Second
           r == y \div Second
<1>1. x \in Nat /\ y \in Nat /\ x <= y /\ Second \in Nat /\ Second > 0
    BY RedisAssumption
<1>2. q \in Nat /\ r \in Nat /\ q * Second <= x /\ y <= r * Second + Second - 1
    BY <1>1, InSecond
<1> HIDE DEF x, y, q, r
<1>3. q <= r
    <2> SUFFICES ASSUME q >= r + 1 PROVE FALSE
        BY <1>2
    <2>1. (q - (r + 1)) * Second \in Nat
        BY <1>1, <1>2
    <2>2. q * Second = (r + 1) * Second + (q - (r + 1)) * Second
        BY <1>1, <1>2
    <2>3. (r + 1) * Second = r * Second + Second
        BY <1>1, <1>2
    <2> QED  BY <1>1, <1>2, <2>1, <2>2, <2>3
<1> QED  BY <1>2, <1>3 DEF Seconds, x, y, q, r

\* Two seconds at the same time of day are a day apart.
LEMMA DayApart ==
    ASSUME NEW u \in Nat, NEW v \in Nat, u < v, windowKey(u) = windowKey(v)
    PROVE  u * Second + Second * SecondsPerDay <= v * Second
<1> DEFINE n == SecondsPerDay
<1>1. n \in Nat /\ n > 0 /\ Second \in Nat
    BY RedisAssumption
<1>2. PICK a \in Nat, b \in Nat, r \in Nat : u = n * a + r /\ v = n * b + r
    <2>1. \A x \in Nat : x = n * (x \div n) + (x % n) /\ x \div n \in Nat /\ x % n \in Nat
        BY <1>1
    <2>2. u % n = v % n
        BY DEF windowKey
    <2>3. u = n * (u \div n) + (u % n) /\ v = n * (v \div n) + (u % n)
        BY <2>1, <2>2, ZenonT(30)
    <2>4. u \div n \in Nat /\ v \div n \in Nat /\ u % n \in Nat
        BY <2>1
    <2> HIDE DEF n
    <2> QED  BY <2>3, <2>4
<1> HIDE DEF n
<1>3. b >= a + 1
    <2> SUFFICES ASSUME b <= a PROVE FALSE
        BY <1>2
    <2>1. n * (a - b) \in Nat /\ n * a = n * b + n * (a - b)
        BY <1>1, <1>2
    <2>2. PICK p \in Int, q \in Int : p = n * a /\ q = n * b
        BY <1>1, <1>2
    <2>3. u = p + r /\ v = q + r /\ p >= q
        BY <1>2, <2>1, <2>2
    <2> QED  BY <1>2, <2>2, <2>3
<1>4. u + n <= v
    <2>1. n * (b - (a + 1)) \in Nat /\ n * b = n * (a + 1) + n * (b - (a + 1))
        BY <1>1, <1>2, <1>3
    <2>2. n * (a + 1) = n * a + n
        BY <1>1, <1>2
    <2> QED  BY <1>1, <1>2, <2>1, <2>2
<1>5. v * Second = (u + n) * Second + (v - (u + n)) * Second /\ (v - (u + n)) * Second \in Nat
    BY <1>1, <1>4
<1>6. (u + n) * Second = u * Second + Second * n
    BY <1>1
<1> QED  BY <1>1, <1>5, <1>6 DEF n
-----------------------------------------------------------------------------
\* A call under way asks while its second is open.
LEMMA AskOpen ==
    ASSUME RedisInv, NEW i \in Instances, asks[i] # <<>>
    PROVE  /\ asks[i][1] \in Seconds /\ asks[i][2] \in Nat
           /\ Opens(asks[i][1]) <= clock /\ clock <= Closes(asks[i][1])
<1>1. /\ asks[i][1] \in Seconds /\ asks[i][2] \in 0 .. MaxClock
      /\ clock \in Nat /\ MaxDelay \in Nat /\ MaxSkew \in Nat /\ Second \in Nat
    BY RedisAssumption DEF RedisInv, RedisTypeOK
<1>2. asks[i][1] * Second \in Nat
    BY <1>1, SecondType
<1>3. AskInv(i)
    BY DEF RedisInv
<1> QED  BY <1>1, <1>2, <1>3 DEF AskInv, Opens, Closes

\* The script counts: the counter it leaves is the number of requests of the
\* second that have reached Redis.
LEMMA ScriptCounts ==
    ASSUME RedisInv, NEW w \in Seconds, Opens(w) <= clock, clock <= Closes(w),
           allowScript(w), clock' = clock
    PROVE  /\ CounterOf(windowKey(w), w)'
           /\ \A u \in Seconds : windowKey(u) = windowKey(w) /\ u > w => hits'[u] = 0
           /\ counter' \in [TimesOfDay -> Nat] /\ expires' \in [TimesOfDay -> Nat]
<1> PICK t, n : t \in TimesOfDay /\ t = windowKey(w) /\ n = INCR(t)
    BY SecondType
<1>1. /\ counter' = [counter EXCEPT ![t] = n]
      /\ expires' = [expires EXCEPT ![t] = IF n = 1 THEN clock + Expiry ELSE @]
      /\ hits' = [hits EXCEPT ![w] = @ + 1]
    BY DEF allowScript
<1>2. /\ clock \in Nat /\ counter[t] \in Nat /\ expires[t] \in Nat /\ hits \in [Seconds -> Nat]
      /\ counter \in [TimesOfDay -> Nat] /\ expires \in [TimesOfDay -> Nat]
      /\ w \in Nat /\ w * Second \in Nat
    BY SecondType DEF RedisInv, RedisTypeOK
<1>3. /\ Second \in Nat /\ Second > 0 /\ MaxSkew \in Nat /\ MaxDelay \in Nat /\ Expiry \in Nat
      /\ SecondsPerDay \in Nat /\ Second * SecondsPerDay \in Nat
      /\ MaxSkew + Second - 1 + MaxDelay < Expiry /\ 2 * Expiry <= Second * SecondsPerDay
    BY RedisAssumption
<1> DEFINE Counts ==
        /\ n \in Nat /\ n > 0 /\ n = hits[w] + 1
        /\ \A u \in Seconds : windowKey(u) = t /\ u > w => hits[u] = 0
        /\ n # 1 => /\ Opens(w) <= expires[t] - Expiry /\ expires[t] - Expiry <= Closes(w)
                    /\ expires[t] - Expiry <= clock
<1>4. Counts
    <2>1. CASE expires[t] = 0 /\ \A u \in Seconds : windowKey(u) = t => hits[u] = 0
        <3>1. n = 1
            BY <1>2, <2>1 DEF INCR
        <3> QED  BY <2>1, <3>1
    <2>2. ASSUME NEW v \in Seconds, CounterOf(t, v),
                 \A u \in Seconds : windowKey(u) = t /\ u > v => hits[u] = 0
          PROVE  Counts
        <3>1. v \in Nat /\ v * Second \in Nat
            BY SecondType
        <3>2. /\ windowKey(v) = t /\ counter[t] = hits[v] /\ counter[t] > 0
              /\ v * Second - MaxSkew <= expires[t] - Expiry
              /\ expires[t] - Expiry <= v * Second + Second - 1 + MaxDelay
              /\ expires[t] - Expiry <= clock
            BY <2>2 DEF CounterOf, Opens, Closes
        <3>3. w * Second - MaxSkew <= clock /\ clock <= w * Second + Second - 1 + MaxDelay
            BY DEF Opens, Closes
        <3>4. CASE w = v
            <4>1. clock < expires[t]
                BY <1>2, <1>3, <3>1, <3>2, <3>3, <3>4
            <4>2. n = counter[t] + 1
                BY <4>1 DEF INCR
            <4> QED  BY <1>2, <2>2, <3>2, <3>4, <4>2 DEF Opens, Closes
        <3>5. CASE w > v
            <4>1. v * Second + Second * SecondsPerDay <= w * Second
                BY <1>2, <3>1, <3>2, <3>5, DayApart
            <4>2. ~(clock < expires[t])
                BY <1>2, <1>3, <3>1, <3>2, <3>3, <4>1
            <4>3. n = 1 /\ hits[w] = 0
                BY <2>2, <3>5, <4>2 DEF INCR
            <4>4. \A u \in Seconds : windowKey(u) = t /\ u > w => hits[u] = 0
                BY <1>2, <2>2, <3>1, <3>5, SecondType
            <4> QED  BY <4>3, <4>4
        <3>6. CASE w < v
            <4>1. w * Second + Second * SecondsPerDay <= v * Second
                BY <1>2, <3>1, <3>2, <3>6, DayApart
            <4>2. FALSE
                BY <1>2, <1>3, <3>1, <3>2, <3>3, <4>1
            <4> QED  BY <4>2
        <3> QED  BY <1>2, <3>1, <3>4, <3>5, <3>6
    <2> QED  BY <2>1, <2>2 DEF RedisInv, CounterInv
<1>5. counter'[t] = n /\ hits'[w] = n
    BY <1>1, <1>2, <1>4
<1>6. /\ Opens(w) <= expires'[t] - Expiry /\ expires'[t] - Expiry <= Closes(w)
      /\ expires'[t] - Expiry <= clock /\ expires'[t] \in Nat
    <2>1. expires'[t] = IF n = 1 THEN clock + Expiry ELSE expires[t]
        BY <1>1, <1>2
    <2> QED  BY <1>2, <1>3, <1>4, <2>1
<1>7. \A u \in Seconds : windowKey(u) = t /\ u > w => hits'[u] = 0
    BY <1>1, <1>2, <1>4
<1>8. counter' \in [TimesOfDay -> Nat] /\ expires' \in [TimesOfDay -> Nat]
    BY <1>1, <1>2, <1>3, <1>4
<1> QED  BY <1>4, <1>5, <1>6, <1>7, <1>8 DEF CounterOf, Opens, Closes, windowKey

\* The script touches the counter of its own time of day only.
LEMMA ScriptKeeps ==
    ASSUME RedisInv, NEW w \in Seconds, Opens(w) <= clock, clock <= Closes(w),
           allowScript(w), clock' = clock
    PROVE  /\ \A t \in TimesOfDay : CounterInv(t)'
           /\ counter' \in [TimesOfDay -> Nat] /\ expires' \in [TimesOfDay -> Nat]
           /\ hits' \in [Seconds -> Nat] /\ counter'[windowKey(w)] = hits'[w]
           /\ hits'[w] = hits[w] + 1 /\ \A u \in Seconds : u # w => hits'[u] = hits[u]
<1>1. /\ CounterOf(windowKey(w), w)'
      /\ \A u \in Seconds : windowKey(u) = windowKey(w) /\ u > w => hits'[u] = 0
      /\ counter' \in [TimesOfDay -> Nat] /\ expires' \in [TimesOfDay -> Nat]
    BY ScriptCounts
<1>2. /\ counter \in [TimesOfDay -> Nat] /\ expires \in [TimesOfDay -> Nat]
      /\ hits \in [Seconds -> Nat]
    BY DEF RedisInv, RedisTypeOK
<1>3. hits' = [hits EXCEPT ![w] = @ + 1]
    BY DEF allowScript
<1>4. /\ hits' \in [Seconds -> Nat] /\ hits'[w] = hits[w] + 1
      /\ \A u \in Seconds : u # w => hits'[u] = hits[u]
    BY <1>2, <1>3
<1>5. ASSUME NEW t \in TimesOfDay PROVE CounterInv(t)'
    <2>1. CASE t = windowKey(w)
        BY <1>1, <2>1 DEF CounterInv
    <2>2. CASE t # windowKey(w)
        <3>1. counter'[t] = counter[t] /\ expires'[t] = expires[t]
            BY <1>2, <2>2 DEF allowScript
        <3>2. \A u \in Seconds : windowKey(u) = t => hits'[u] = hits[u]
            BY <1>4, <2>2
        <3>3. CounterInv(t)
            BY DEF RedisInv
        <3> QED  BY <3>1, <3>2, <3>3 DEF CounterInv, CounterOf, windowKey, Opens, Closes
    <2> QED  BY <2>1, <2>2
<1>6. counter'[windowKey(w)] = hits'[w]
    BY <1>1 DEF CounterOf, windowKey
<1> QED  BY <1>1, <1>4, <1>5, <1>6

\* What a call does to its own ask leaves the others as they are.
LEMMA AsksKept ==
    ASSUME RedisInv, NEW i \in Instances, clock' = clock,
           asks' = [asks EXCEPT ![i] = <<>>] \/ asks' = asks
    PROVE  /\ asks' \in [Instances -> (Seconds \X (0 .. MaxClock)) \cup {<<>>}]
           /\ \A j \in Instances : AskInv(j)'
<1>1. asks \in [Instances -> (Seconds \X (0 .. MaxClock)) \cup {<<>>}]
    BY DEF RedisInv, RedisTypeOK
<1>2. asks' \in [Instances -> (Seconds \X (0 .. MaxClock)) \cup {<<>>}]
    BY <1>1
<1>3. ASSUME NEW j \in Instances PROVE AskInv(j)'
    <2>1. asks'[j] = <<>> \/ asks'[j] = asks[j]
        BY <1>1
    <2>2. AskInv(j)
        BY DEF RedisInv
    <2> QED  BY <2>1, <2>2 DEF AskInv, Opens, Closes
<1> QED  BY <1>2, <1>3

\* Reading the clock asks for a second that has just opened or not yet closed.
LEMMA AskKeeps ==
    ASSUME RedisInv, NEW i \in Instances, AskRedis(i)
    PROVE  RedisInv'
<1>1. /\ clock \in 0 .. MaxClock /\ skew \in [Instances -> 0 .. MaxSkew]
      /\ skew[i] \in 0 .. MaxSkew /\ calls \in 0 .. MaxCalls /\ calls < MaxCalls
      /\ asks \in [Instances -> (Seconds \X (0 .. MaxClock)) \cup {<<>>}]
      /\ MaxDelay \in Nat /\ MaxCalls \in Nat /\ MaxSkew \in Nat /\ Second \in Nat
    BY RedisAssumption DEF RedisInv, RedisTypeOK, AskRedis
<1> PICK w : w = (clock + skew[i]) \div Second
    OBVIOUS
<1>2. /\ w \in Seconds /\ w * Second <= clock + skew[i]
      /\ clock + skew[i] <= w * Second + Second - 1
    <2>1. clock + skew[i] \in Nat
        BY <1>1
    <2>2. w \in Seconds
        BY <1>1, AskedSecond
    <2> QED  BY <2>1, <2>2, InSecond
<1>3. asks' = [asks EXCEPT ![i] = <<w, clock>>] /\ calls' = calls + 1
    BY DEF AskRedis
<1>4. UNCHANGED <<clock, skew, counter, expires, hits, allowed, refused>>
    BY DEF AskRedis
<1>5. RedisTypeOK'
    <2>1. asks' \in [Instances -> (Seconds \X (0 .. MaxClock)) \cup {<<>>}]
        BY <1>1, <1>2, <1>3
    <2> QED  BY <1>1, <1>3, <1>4, <2>1 DEF RedisInv, RedisTypeOK
<1>6. ASSUME NEW j \in Instances PROVE AskInv(j)'
    <2>1. CASE j = i
        <3>1. asks'[j] = <<w, clock>>
            BY <1>1, <1>3, <2>1
        <3>2. w * Second \in Nat
            BY <1>2, SecondType
        <3> QED  BY <1>1, <1>2, <1>4, <3>1, <3>2 DEF AskInv, Opens, Closes
    <2>2. CASE j # i
        <3>1. asks'[j] = asks[j]
            BY <1>1, <1>3, <2>2
        <3>2. AskInv(j)
            BY DEF RedisInv
        <3> QED  BY <1>4, <3>1, <3>2 DEF AskInv, Opens, Closes
    <2> QED  BY <2>1, <2>2
<1>7. \A t \in TimesOfDay : CounterInv(t)'
    BY <1>4 DEF RedisInv, CounterInv, CounterOf, Opens, Closes, windowKey
<1> QED  BY <1>4, <1>5, <1>6, <1>7 DEF RedisInv, LimitIsGlobal, RefusedOnlyOverLimit

\* The script run, whatever becomes of its answer.
LEMMA ScriptRuns ==
    ASSUME RedisInv, NEW i \in Instances, asks[i] # <<>>, allowScript(asks[i][1]),
           clock' = clock, skew' = skew, calls' \in 0 .. MaxCalls,
           asks' = [asks EXCEPT ![i] = <<>>] \/ asks' = asks,
           \/ allowed' = allowed /\ refused' = refused
           \/ /\ counter'[windowKey(asks[i][1])] <= Limit
              /\ allowed' = [allowed EXCEPT ![asks[i][1]] = @ + 1] /\ refused' = refused
           \/ /\ counter'[windowKey(asks[i][1])] > Limit
              /\ refused' = refused \cup {asks[i][1]} /\ allowed' = allowed
    PROVE  RedisInv'
<1> PICK w : w = asks[i][1]
    OBVIOUS
<1>1. w \in Seconds /\ Opens(w) <= clock /\ clock <= Closes(w) /\ allowScript(w)
    BY AskOpen
<1>2. /\ \A t \in TimesOfDay : CounterInv(t)'
      /\ counter' \in [TimesOfDay -> Nat] /\ expires' \in [TimesOfDay -> Nat]
      /\ hits' \in [Seconds -> Nat] /\ counter'[windowKey(w)] = hits'[w]
      /\ hits'[w] = hits[w] + 1 /\ \A u \in Seconds : u # w => hits'[u] = hits[u]
    BY <1>1, ScriptKeeps
<1>3. /\ asks' \in [Instances -> (Seconds \X (0 .. MaxClock)) \cup {<<>>}]
      /\ \A j \in Instances : AskInv(j)'
    BY AsksKept
<1>4. /\ hits \in [Seconds -> Nat] /\ allowed \in [Seconds -> Nat] /\ refused \subseteq Seconds
      /\ \A u \in Seconds : allowed[u] <= hits[u] /\ allowed[u] <= Limit
      /\ \A u \in refused : hits[u] > Limit
      /\ Limit \in Nat
    BY RedisAssumption DEF RedisInv, RedisTypeOK, LimitIsGlobal, RefusedOnlyOverLimit
<1>5. /\ allowed' \in [Seconds -> Nat] /\ refused' \subseteq Seconds
      /\ \A u \in Seconds : allowed'[u] <= hits'[u] /\ allowed'[u] <= Limit
      /\ \A u \in refused' : hits'[u] > Limit
    <2>1. \A u \in refused : hits'[u] > Limit
        BY <1>1, <1>2, <1>4
    <2>2. CASE allowed' = allowed
        <3>1. \A u \in Seconds : allowed[u] <= hits'[u]
            BY <1>1, <1>2, <1>4
        <3>2. \A u \in refused' : hits'[u] > Limit /\ u \in Seconds
            BY <1>1, <1>2, <1>4, <2>1, <2>2
        <3> QED  BY <1>4, <2>2, <3>1, <3>2
    <2>3. CASE /\ counter'[windowKey(w)] <= Limit
               /\ allowed' = [allowed EXCEPT ![w] = @ + 1] /\ refused' = refused
        <3>1. /\ allowed' \in [Seconds -> Nat] /\ allowed'[w] = allowed[w] + 1
              /\ \A u \in Seconds : u # w => allowed'[u] = allowed[u]
            BY <1>1, <1>4, <2>3
        <3>2. allowed'[w] <= hits'[w] /\ hits'[w] <= Limit
            BY <1>1, <1>2, <1>4, <2>3, <3>1
        <3>3. ASSUME NEW u \in Seconds PROVE allowed'[u] <= hits'[u] /\ allowed'[u] <= Limit
            BY <1>1, <1>2, <1>4, <3>1, <3>2
        <3> QED  BY <1>4, <2>1, <2>3, <3>1, <3>3
    <2> QED  BY <2>2, <2>3
<1>6. clock' \in 0 .. MaxClock /\ skew' \in [Instances -> 0 .. MaxSkew]
    BY DEF RedisInv, RedisTypeOK
<1> QED  BY <1>2, <1>3, <1>5, <1>6 DEF RedisInv, RedisTypeOK, LimitIsGlobal, RefusedOnlyOverLimit

\* Time passes only while every call under way is within its timeout.
LEMMA RedisTickKeeps ==
    ASSUME RedisInv, RedisTick
    PROVE  RedisInv'
<1>1. /\ clock \in 0 .. MaxClock /\ clock < MaxClock /\ clock' = clock + 1
      /\ MaxClock \in Nat /\ MaxDelay \in Nat
      /\ asks \in [Instances -> (Seconds \X (0 .. MaxClock)) \cup {<<>>}]
      /\ expires \in [TimesOfDay -> Nat] /\ Expiry \in Nat
    BY RedisAssumption DEF RedisInv, RedisTypeOK, RedisTick
<1>2. UNCHANGED <<skew, asks, calls, counter, expires, hits, allowed, refused>>
    BY DEF RedisTick
<1>3. RedisTypeOK'
    BY <1>1, <1>2 DEF RedisInv, RedisTypeOK
<1>4. ASSUME NEW j \in Instances PROVE AskInv(j)'
    <2>1. AskInv(j) /\ (asks[j] # <<>> => clock < asks[j][2] + MaxDelay)
        BY DEF RedisInv, RedisTick
    <2>2. asks[j] # <<>> => asks[j][2] \in 0 .. MaxClock
        BY <1>1
    <2> QED  BY <1>1, <1>2, <2>1, <2>2 DEF AskInv, Opens, Closes
<1>5. ASSUME NEW t \in TimesOfDay PROVE CounterInv(t)'
    <2>1. CounterInv(t) /\ expires[t] \in Nat
        BY <1>1 DEF RedisInv
    <2>2. \A v \in Seconds : CounterOf(t, v) => CounterOf(t, v)'
        BY <1>1, <1>2, <2>1 DEF CounterOf, Opens, Closes, windowKey
    <2> QED  BY <1>2, <2>1, <2>2 DEF CounterInv, windowKey
<1> QED  BY <1>2, <1>3, <1>4, <1>5 DEF RedisInv, LimitIsGlobal, RefusedOnlyOverLimit

\* Every step of Redis and of its callers keeps the invariant.
LEMMA RedisNextInv ==
    RedisInv /\ [RedisNext]_redisVars => RedisInv'
<1> SUFFICES ASSUME RedisInv, [RedisNext]_redisVars PROVE RedisInv'
    OBVIOUS
<1>1. CASE UNCHANGED redisVars
    BY <1>1 DEF redisVars, RedisInv, RedisTypeOK, AskInv, CounterInv, CounterOf, Opens, Closes,
                windowKey, LimitIsGlobal, RefusedOnlyOverLimit
<1>2. calls \in 0 .. MaxCalls /\ MaxCalls \in Nat
    BY RedisAssumption DEF RedisInv, RedisTypeOK
<1>3. ASSUME NEW i \in Instances, Answered(i) PROVE RedisInv'
    BY <1>2, <1>3, ScriptRuns DEF Answered, Return
<1>4. ASSUME NEW i \in Instances, Repeated(i) PROVE RedisInv'
    <2>1. calls' \in 0 .. MaxCalls
        BY <1>2, <1>4 DEF Repeated
    <2> QED  BY <1>4, <2>1, ScriptRuns DEF Repeated
<1>5. ASSUME NEW i \in Instances, AnswerLost(i) PROVE RedisInv'
    BY <1>2, <1>5, ScriptRuns DEF AnswerLost, Return
<1>6. ASSUME NEW i \in Instances, NotSent(i) PROVE RedisInv'
    <2>1. /\ asks' \in [Instances -> (Seconds \X (0 .. MaxClock)) \cup {<<>>}]
          /\ \A j \in Instances : AskInv(j)'
        BY <1>6, AsksKept DEF NotSent, Return
    <2>2. UNCHANGED <<clock, skew, calls, counter, expires, hits, allowed, refused>>
        BY <1>6 DEF NotSent, Return
    <2>3. \A t \in TimesOfDay : CounterInv(t)'
        BY <2>2 DEF RedisInv, CounterInv, CounterOf, Opens, Closes, windowKey
    <2> QED  BY <2>1, <2>2, <2>3 DEF RedisInv, RedisTypeOK, LimitIsGlobal, RefusedOnlyOverLimit
<1> QED  BY <1>1, <1>3, <1>4, <1>5, <1>6, AskKeeps, RedisTickKeeps DEF RedisNext

\* No counter has been used when Redis starts.
LEMMA RedisInitInv == RedisInit => RedisInv
<1> SUFFICES ASSUME RedisInit PROVE RedisInv
    OBVIOUS
<1>1. RedisTypeOK
    BY RedisAssumption DEF RedisInit, RedisTypeOK
<1>2. \A t \in TimesOfDay : CounterInv(t)
    BY DEF RedisInit, CounterInv
<1> QED  BY <1>1, <1>2, RedisAssumption
         DEF RedisInit, RedisInv, AskInv, LimitIsGlobal, RefusedOnlyOverLimit

-----------------------------------------------------------------------------
\* Redis counts the requests of a second: the counters of two seconds at the same
\* time of day never meet, and none expires while its second is asked for.
THEOREM RedisCounts == RedisSpec => []RedisInv
<1> QED  BY RedisInitInv, RedisNextInv, PTL DEF RedisSpec

-----------------------------------------------------------------------------
\* A process starts with both limiters in their initial states.
LEMMA LimitsInit ==
    ASSUME Init
    PROVE  RateInv /\ RedisInv /\ limiter \in {"redis", "memory"}
BY RateInitInv, RedisInitInv DEF Init

\* A step of the process is a step of each limiter, or leaves it alone.
LEMMA LimitsNext ==
    ASSUME [Next]_limitVars
    PROVE  [MemNext]_memVars /\ [RedisNext]_redisVars /\ limiter' = limiter
<1> SUFFICES [MemNext]_memVars /\ [RedisNext]_redisVars
    BY DEF Next, limitVars
<1>1. CASE Ask
    <2>1. (\E c \in Callers, r \in Requests : Lookup(c, ClientKey(r))) => MemNext
        BY RequestAssumption DEF MemNext
    <2>2. (\E i \in Instances : AskRedis(i)) => RedisNext
        BY DEF RedisNext
    <2> QED  BY <1>1, <2>1, <2>2 DEF Ask
<1>2. CASE MemStep
    BY <1>2 DEF MemStep, MemNext
<1>3. CASE RedisStep
    BY <1>3 DEF RedisStep, RedisNext
<1>4. CASE UNCHANGED limitVars
    BY <1>4 DEF limitVars
<1>5. Rest => UNCHANGED limitVars
    BY DEF Rest
<1> QED  BY <1>1, <1>2, <1>3, <1>4, <1>5 DEF Next

\* The invariants of both limiters hold of the process.
LEMMA LimitsInv == Spec => [](RateInv /\ RedisInv /\ limiter \in {"redis", "memory"})
<1>1. RateInv /\ [MemNext]_memVars => RateInv'
    BY RateNextInv
<1>2. Init => RateInv /\ RedisInv /\ limiter \in {"redis", "memory"}
    BY LimitsInit
<1>3. [Next]_limitVars => [MemNext]_memVars /\ [RedisNext]_redisVars /\ limiter' = limiter
    BY LimitsNext
<1>4. /\ RateInv /\ RedisInv /\ limiter \in {"redis", "memory"}
      /\ [Next]_limitVars
      => (RateInv /\ RedisInv /\ limiter \in {"redis", "memory"})'
    BY <1>1, <1>3, RedisNextInv
<1> QED  BY <1>2, <1>4, PTL DEF Spec

-----------------------------------------------------------------------------
\* The state of both limiters is well-formed in a process that runs either.
THEOREM LimitTypes == Spec => []LimitTypeOK
<1>1. RateInv /\ RedisInv /\ limiter \in {"redis", "memory"} => LimitTypeOK
    BY DEF RateInv, RedisInv, LimitTypeOK
<1> QED  BY <1>1, LimitsInv, PTL

\* Redis: a key is allowed no more than RATE_LIMIT_RPS requests in a second, over
\* all instances, for any skew and delay that 1999 ms cover.
THEOREM RedisLimited == Spec => []LimitIsGlobal
<1>1. RedisInv => LimitIsGlobal
    BY DEF RedisInv
<1> QED  BY <1>1, LimitsInv, PTL

\* Redis: whoever is refused came after more than RATE_LIMIT_RPS requests of the
\* same second.
THEOREM RedisRefuses == Spec => []RefusedOnlyOverLimit
<1>1. RedisInv => RefusedOnlyOverLimit
    BY DEF RedisInv
<1> QED  BY <1>1, LimitsInv, PTL

\* A key has been granted no more than its budget.
LEMMA WithinBudget ==
    ASSUME RateInv, NEW k \in Keys
    PROVE  granted[k] <= Budget(k)
<1>1. granted[k] \in Nat /\ Credit(k) \in Nat /\ Budget(k) \in Nat
    BY CreditBounds, BudgetType DEF RateInv, MemTypeOK
<1> QED  BY <1>1 DEF RateInv

\* Memory.Allow under the janitor: in no interval does a key get more than the
\* burst, the rate times its length, and the excess of each bucket it loses.
THEOREM RateLimited == Spec => []RateHolds
<1>1. RateInv => RateHolds
    BY WithinBudget DEF RateHolds
<1> QED  BY <1>1, LimitsInv, PTL

\* With a burst that refills in the 10 minutes evictions add nothing: the burst and
\* the rate times the length bound what a key gets in any interval.
THEOREM RefilledBurst ==
    ASSUME Burst <= Rate * (IdleFor - MaxStall)
    PROVE  Spec => [](\A k \in Keys : granted[k] <= Burst + Rate * (now - start))
<1>1. RateInv => \A k \in Keys : granted[k] <= Burst + Rate * (now - start)
    <2> SUFFICES ASSUME RateInv, NEW k \in Keys
                 PROVE  granted[k] <= Burst + Rate * (now - start)
        OBVIOUS
    <2>1. Excess = 0 /\ evicted[k] \in Nat /\ now - start \in Nat
        BY DEF Excess, RateInv, MemTypeOK
    <2>2. Rate * (now - start) \in Nat /\ Excess * evicted[k] = 0
        BY <2>1, Earns
    <2>3. Budget(k) = Burst + Rate * (now - start)
        BY <2>2, RateAssumption DEF Budget
    <2> QED  BY <2>3, WithinBudget
<1> QED  BY <1>1, LimitsInv, PTL

\* Between Unlock and lim.Allow the bucket a caller found stays in the map.
THEOREM BucketHeld == Spec => []HeldInMap
<1>1. RateInv => HeldInMap
    BY DEF RateInv, CallInv, HeldInMap
<1> QED  BY <1>1, LimitsInv, PTL
=============================================================================
