----------------------------- MODULE RateLimit -----------------------------
(***************************************************************************)
(* internal/ratelimit Memory: a token bucket for each key, in a map that   *)
(* the janitor sweeps.  Allow finds the bucket under the mutex, unlocks,   *)
(* and only then takes the token: between the two the janitor may run, and *)
(* other requests of the same key.  A bucket is an object: a caller may    *)
(* hold one that is no longer in the map.                                  *)
(***************************************************************************)
EXTENDS Integers

CONSTANTS
    Keys, Callers,
    Buckets, None,  \* entries of the map, and no entry
    Rate, Burst,    \* RATE_LIMIT_RPS, in tokens per tick of the clock, and RATE_LIMIT_BURST
    IdleFor,        \* the janitor's 10 minutes
    MaxStall,       \* bound: the ticks a caller may wait between Unlock and lim.Allow
    MaxTime         \* bound: the last tick of the modelled time

\* Any rate and any burst: loadConfig checks neither against the other.
ASSUME RateAssumption ==
    /\ None \notin Buckets
    /\ Rate \in Nat /\ Burst \in Nat
    /\ IdleFor \in Nat /\ MaxStall \in Nat /\ MaxTime \in Nat
    /\ MaxStall < IdleFor

VARIABLES
    now,        \* the clock
    buckets,    \* m.buckets, by key
    last,       \* entry.last
    tokens, at, \* entry.lim: the tokens it had at the time of the last grant
    call,       \* a caller past Unlock: its key, the entry it found, and when
    start,      \* history: the beginning of an arbitrary interval...
    granted,    \* ...what each key was granted in it...
    evicted     \* ...and how often its bucket was evicted in it

history == <<start, granted, evicted>>
memVars == <<now, buckets, last, tokens, at, call, history>>

MemInit ==
    /\ now = 0 /\ buckets = [k \in Keys |-> None]
    /\ last = [b \in Buckets |-> 0]
    /\ tokens = [b \in Buckets |-> 0] /\ at = [b \in Buckets |-> 0]
    /\ call = [c \in Callers |-> None]
    /\ start = 0 /\ granted = [k \in Keys |-> 0] /\ evicted = [k \in Keys |-> 0]

-----------------------------------------------------------------------------
\* Allow, up to Unlock: an entry that is there...
Find(k, b) ==
    /\ buckets[k] = b /\ b # None
    /\ UNCHANGED <<buckets, tokens, at>>

\* ...or a new one, with a full bucket.
Create(k, b) ==
    /\ buckets[k] = None
    /\ \A j \in Keys : buckets[j] # b
    /\ \A d \in Callers : call[d] # None => call[d].entry # b
    /\ buckets' = [buckets EXCEPT ![k] = b]
    /\ tokens' = [tokens EXCEPT ![b] = Burst]
    /\ at' = [at EXCEPT ![b] = now]

\* Faulty variant: the time of use is set only when the bucket is created.
Lookup_OnlyNewStamped(c, k) ==
    /\ call[c] = None
    /\ \E b \in Buckets :
        /\ \/ Find(k, b) /\ UNCHANGED last
           \/ Create(k, b) /\ last' = [last EXCEPT ![b] = now]
        /\ call' = [call EXCEPT ![c] = [key |-> k, entry |-> b, since |-> now]]
    /\ UNCHANGED <<now, history>>

Lookup(c, k) ==
    /\ call[c] = None
    /\ \E b \in Buckets :
        /\ Find(k, b) \/ Create(k, b)
        /\ last' = [last EXCEPT ![b] = now]
        /\ call' = [call EXCEPT ![c] = [key |-> k, entry |-> b, since |-> now]]
    /\ UNCHANGED <<now, history>>

AtMost(n, max) == IF n <= max THEN n ELSE max

\* rate.Limiter: the tokens of a bucket now.
Level(b) == AtMost(tokens[b] + Rate * (now - at[b]), Burst)

\* Faulty variant: a grant does not look at the tokens.
Grant_Unchecked(c) ==
    /\ call[c] # None
    /\ tokens' = [tokens EXCEPT ![call[c].entry] = Level(call[c].entry) - 1]
    /\ at' = [at EXCEPT ![call[c].entry] = now]
    /\ granted' = [granted EXCEPT ![call[c].key] = @ + 1]
    /\ call' = [call EXCEPT ![c] = None]
    /\ UNCHANGED <<now, buckets, last, start, evicted>>

\* lim.Allow: a token is taken, and the caller answers true...
Grant(c) ==
    /\ call[c] # None
    /\ Level(call[c].entry) >= 1
    /\ tokens' = [tokens EXCEPT ![call[c].entry] = Level(call[c].entry) - 1]
    /\ at' = [at EXCEPT ![call[c].entry] = now]
    /\ granted' = [granted EXCEPT ![call[c].key] = @ + 1]
    /\ call' = [call EXCEPT ![c] = None]
    /\ UNCHANGED <<now, buckets, last, start, evicted>>

\* ...or there is none, and it answers false (429, RESOURCE_EXHAUSTED).
Deny(c) ==
    /\ call[c] # None
    /\ Level(call[c].entry) < 1
    /\ call' = [call EXCEPT ![c] = None]
    /\ UNCHANGED <<now, buckets, last, tokens, at, history>>

\* The buckets of some keys are deleted.
Evict(keys) ==
    /\ buckets' = [k \in Keys |-> IF k \in keys THEN None ELSE buckets[k]]
    /\ evicted' = [k \in Keys |-> IF k \in keys THEN evicted[k] + 1 ELSE evicted[k]]
    /\ UNCHANGED <<now, last, tokens, at, call, start, granted>>

\* Faulty variant: the sweep takes every bucket that is not in use this tick.
janitor_Eager == Evict({k \in Keys : buckets[k] # None /\ last[buckets[k]] < now})

\* One sweep.
janitor == Evict({k \in Keys : buckets[k] # None /\ last[buckets[k]] < now - IdleFor})

\* Time passes, but not for a caller that has been off the processor MaxStall.
MemTick ==
    /\ now < MaxTime
    /\ \A c \in Callers : call[c] # None => now < call[c].since + MaxStall
    /\ now' = now + 1
    /\ UNCHANGED <<buckets, last, tokens, at, call, history>>

\* An observer starts to count.
Observe ==
    /\ start' = now
    /\ granted' = [k \in Keys |-> 0] /\ evicted' = [k \in Keys |-> 0]
    /\ UNCHANGED <<now, buckets, last, tokens, at, call>>

MemNext ==
    \/ \E c \in Callers, k \in Keys : Lookup(c, k)
    \/ \E c \in Callers : Grant(c) \/ Deny(c)
    \/ janitor \/ MemTick \/ Observe

MemSpec == MemInit /\ [][MemNext]_memVars

-----------------------------------------------------------------------------
MemTypeOK ==
    /\ now \in Nat
    /\ buckets \in [Keys -> Buckets \cup {None}]
    /\ last \in [Buckets -> Nat]
    /\ tokens \in [Buckets -> Nat] /\ at \in [Buckets -> Nat]
    /\ call \in [Callers -> [key : Keys, entry : Buckets, since : Nat] \cup {None}]
    /\ start \in Nat /\ granted \in [Keys -> Nat] /\ evicted \in [Keys -> Nat]

\* A caller that has found its bucket takes the token from the bucket in the
\* map: however the janitor's sweeps fall between Unlock and lim.Allow, two
\* requests of a key never draw on two buckets.
HeldInMap == \A c \in Callers : call[c] # None => buckets[call[c].key] = call[c].entry

\* What a new bucket holds more than the evicted one did at least: nothing when
\* the burst refills in the time the janitor leaves a bucket alone, as the default
\* of twice the rate does in 2 s.
Excess ==
    LET refilled == Rate * (IdleFor - MaxStall)
    IN  IF Burst <= refilled THEN 0 ELSE Burst - refilled

\* What a key may be granted in the interval.
Budget(k) == Burst + Rate * (now - start) + Excess * evicted[k]

\* In an interval of any length, starting at any time, a key is granted no
\* more than the burst and the rate times the length, and the excess of each
\* bucket of its own that the janitor evicts: with a burst that refills between
\* sweeps this is "holding the long-run average to the configured rate" (ADR 0004).
RateHolds == \A k \in Keys : granted[k] <= Budget(k)

\* What a key would be granted now; without a bucket it gets a full one.
Credit(k) == IF buckets[k] = None THEN Burst ELSE Level(buckets[k])

\* The entry of a key is its own, and used at most MaxStall after its stamp.
EntryInv(k) ==
    buckets[k] # None =>
        /\ \A j \in Keys : buckets[j] = buckets[k] => j = k
        /\ last[buckets[k]] <= now
        /\ at[buckets[k]] <= now /\ at[buckets[k]] <= last[buckets[k]] + MaxStall

\* A caller past Unlock holds an entry stamped when it looked, or later.
CallInv(c) ==
    call[c] # None =>
        /\ buckets[call[c].key] = call[c].entry
        /\ call[c].since <= last[call[c].entry]
        /\ now <= call[c].since + MaxStall

\* The inductive invariant: grants and credit together stay within the budget,
\* and an evicted bucket lacked at most the excess.
RateInv ==
    /\ MemTypeOK /\ start <= now
    /\ \A k \in Keys : EntryInv(k)
    /\ \A c \in Callers : CallInv(c)
    /\ \A k \in Keys : granted[k] + Credit(k) <= Budget(k)
=============================================================================
