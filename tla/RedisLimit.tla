----------------------------- MODULE RedisLimit -----------------------------
(***************************************************************************)
(* internal/ratelimit Redis: the requests of a key in one second of the    *)
(* day, counted in Redis by a script for all ingest instances.  The second *)
(* is read from the instance's own clock, before the script is sent; the   *)
(* counter expires 1999 ms after its first request, by the clock of Redis. *)
(* Keys do not interact: this is one of them.                              *)
(***************************************************************************)
EXTENDS Integers

CONSTANTS
    Instances,      \* concurrent calls of Allow, each at an instance
    Limit,          \* RATE_LIMIT_RPS
    Second,         \* one second, in ticks
    Expiry,         \* the 1999 ms, in ticks: the first one that finds the counter gone
    SecondsPerDay,
    MaxSkew,        \* bound: how far the clocks of the instances differ
    MaxDelay,       \* bound: ticks from reading the clock to the script (200 ms timeout)
    MaxCalls,       \* bound: the calls of Allow, and the repeats of the script
    MaxClock        \* bound: the last tick of the modelled time

\* With times in ms: the clocks differ by less than 800.  A counter is gone
\* long before its second of the day returns.  MaxDelay is assumed of the
\* network: the 200 ms end a call that waits for a connection, but the client
\* cuts a read short only with ContextTimeoutEnabled, which NewRedis leaves off.
ASSUME RedisAssumption ==
    /\ Limit \in Nat /\ MaxCalls \in Nat /\ MaxClock \in Nat
    /\ Second \in Nat \ {0} /\ SecondsPerDay \in Nat \ {0}
    /\ MaxSkew \in Nat /\ MaxDelay \in Nat /\ Expiry \in Nat
    /\ MaxSkew + Second - 1 + MaxDelay < Expiry
    /\ 2 * Expiry <= Second * SecondsPerDay

VARIABLES
    clock,          \* true time
    skew,           \* how far the clock of each instance is ahead
    asks,           \* at an instance: the second asked for and when, <<>> when idle
    calls,
    counter,        \* Redis: the counters by second of the day, 0 = no key
    expires,        \* ...and when they expire
    hits,           \* history: the runs of the script, by second
    allowed,        \* history: those it allowed, and the caller knows
    refused         \* history: the seconds in which it refused one

redisVars == <<clock, skew, asks, calls, counter, expires, hits, allowed, refused>>

\* Seconds since the start, and what Format("15:04:05") leaves of them.
Seconds == 0 .. (MaxClock + MaxSkew) \div Second
TimesOfDay == 0 .. SecondsPerDay - 1
windowKey(w) == w % SecondsPerDay

RedisInit ==
    /\ clock = 0 /\ skew \in [Instances -> 0 .. MaxSkew]
    /\ asks = [i \in Instances |-> <<>>] /\ calls = 0
    /\ counter = [t \in TimesOfDay |-> 0] /\ expires = [t \in TimesOfDay |-> 0]
    /\ hits = [w \in Seconds |-> 0] /\ allowed = [w \in Seconds |-> 0]
    /\ refused = {}

-----------------------------------------------------------------------------
\* Allow reads the clock.
AskRedis(i) ==
    /\ asks[i] = <<>>
    /\ asks' = [asks EXCEPT ![i] = <<(clock + skew[i]) \div Second, clock>>]
    /\ calls < MaxCalls /\ calls' = calls + 1
    /\ UNCHANGED <<clock, skew, counter, expires, hits, allowed, refused>>

\* INCR: the new value of a counter, which starts again once it has expired.
INCR(t) == (IF clock < expires[t] THEN counter[t] ELSE 0) + 1

\* Faulty variant: the counter lives for the second it counts.
allowScript_Second(w) ==
    LET t == windowKey(w)  n == INCR(t) IN
    /\ counter' = [counter EXCEPT ![t] = n]
    /\ expires' = [expires EXCEPT ![t] = IF n = 1 THEN clock + Second ELSE @]
    /\ hits' = [hits EXCEPT ![w] = @ + 1]

\* Faulty variant: INCR without PEXPIRE.
allowScript_NoExpiry(w) ==
    LET t == windowKey(w) IN
    /\ counter' = [counter EXCEPT ![t] = @ + 1]
    /\ expires' = [expires EXCEPT ![t] = MaxClock + 1]
    /\ hits' = [hits EXCEPT ![w] = @ + 1]

\* The script, atomic at Redis.
allowScript(w) ==
    LET t == windowKey(w)  n == INCR(t) IN
    /\ counter' = [counter EXCEPT ![t] = n]
    /\ expires' = [expires EXCEPT ![t] = IF n = 1 THEN clock + Expiry ELSE @]
    /\ hits' = [hits EXCEPT ![w] = @ + 1]

Return(i) ==
    /\ asks' = [asks EXCEPT ![i] = <<>>]
    /\ UNCHANGED <<clock, skew, calls>>

\* The script runs and its answer arrives...
Answered(i) ==
    /\ asks[i] # <<>>
    /\ allowScript(asks[i][1])
    /\ \/ /\ counter'[windowKey(asks[i][1])] <= Limit
          /\ allowed' = [allowed EXCEPT ![asks[i][1]] = @ + 1]
          /\ UNCHANGED refused
       \/ /\ counter'[windowKey(asks[i][1])] > Limit
          /\ refused' = refused \cup {asks[i][1]}
          /\ UNCHANGED allowed
    /\ Return(i)

\* ...or the connection breaks first, and the client sends the script again...
Repeated(i) ==
    /\ asks[i] # <<>>
    /\ allowScript(asks[i][1])
    /\ calls < MaxCalls /\ calls' = calls + 1
    /\ UNCHANGED <<clock, skew, asks, allowed, refused>>

\* ...or the answer comes after the 200 ms: Allow fails open, and the request is counted...
AnswerLost(i) ==
    /\ asks[i] # <<>>
    /\ allowScript(asks[i][1])
    /\ Return(i)
    /\ UNCHANGED <<allowed, refused>>

\* ...or it never reached Redis, and Allow fails open too.
NotSent(i) ==
    /\ asks[i] # <<>>
    /\ Return(i)
    /\ UNCHANGED <<counter, expires, hits, allowed, refused>>

RedisTick ==
    /\ clock < MaxClock
    /\ \A i \in Instances : asks[i] # <<>> => clock < asks[i][2] + MaxDelay
    /\ clock' = clock + 1
    /\ UNCHANGED <<skew, asks, calls, counter, expires, hits, allowed, refused>>

RedisNext ==
    \/ \E i \in Instances : AskRedis(i) \/ Answered(i) \/ Repeated(i) \/ AnswerLost(i) \/ NotSent(i)
    \/ RedisTick

RedisSpec == RedisInit /\ [][RedisNext]_redisVars

-----------------------------------------------------------------------------
RedisTypeOK ==
    /\ clock \in 0 .. MaxClock
    /\ skew \in [Instances -> 0 .. MaxSkew]
    /\ asks \in [Instances -> (Seconds \X (0 .. MaxClock)) \cup {<<>>}]
    /\ calls \in 0 .. MaxCalls
    /\ counter \in [TimesOfDay -> Nat] /\ expires \in [TimesOfDay -> Nat]
    /\ hits \in [Seconds -> Nat] /\ allowed \in [Seconds -> Nat]
    /\ refused \subseteq Seconds

\* Redis allows a key no more than RATE_LIMIT_RPS requests in any second, over
\* all instances: the counter of a second outlives the last request for it,
\* although the clocks differ and requests are under way ("enforces rps per
\* key across ALL ingest instances").  Those that pass because Redis did not
\* answer are not counted.
LimitIsGlobal == \A w \in Seconds : allowed[w] <= Limit

\* A request is refused only when more than RATE_LIMIT_RPS requests of the same
\* second have reached Redis (one sent again counts again): what was counted at
\* this time of day on another day has expired, and an unreachable Redis refuses
\* nobody.
RefusedOnlyOverLimit == \A w \in refused : hits[w] > Limit

\* The requests for a second reach Redis between these two times.
Opens(w) == w * Second - MaxSkew
Closes(w) == w * Second + Second - 1 + MaxDelay

\* A call under way asks for a second of its instance's clock, and not for long.
AskInv(i) ==
    asks[i] # <<>> =>
        /\ Opens(asks[i][1]) <= asks[i][2] /\ asks[i][2] + MaxDelay <= Closes(asks[i][1])
        /\ asks[i][2] <= clock /\ clock <= asks[i][2] + MaxDelay

\* The counter at a time of day: no request has ever come for it, or it counts
\* the last second there was one for, from the first of them on.
CounterOf(t, v) ==
    /\ windowKey(v) = t /\ counter[t] = hits[v] /\ counter[t] > 0
    /\ Opens(v) <= expires[t] - Expiry /\ expires[t] - Expiry <= Closes(v)
    /\ expires[t] - Expiry <= clock

CounterInv(t) ==
    \/ expires[t] = 0 /\ \A w \in Seconds : windowKey(w) = t => hits[w] = 0
    \/ \E v \in Seconds :
        CounterOf(t, v) /\ \A w \in Seconds : windowKey(w) = t /\ w > v => hits[w] = 0

\* The inductive invariant: a counter is neither lost nor taken over by another
\* second while its own is being asked for, so the script counts the hits.
RedisInv ==
    /\ RedisTypeOK
    /\ \A i \in Instances : AskInv(i)
    /\ \A t \in TimesOfDay : CounterInv(t)
    /\ \A w \in Seconds : allowed[w] <= hits[w]
    /\ LimitIsGlobal /\ RefusedOnlyOverLimit
=============================================================================
