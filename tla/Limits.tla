------------------------------- MODULE Limits -------------------------------
(***************************************************************************)
(* The rate limiter of a process: the one main chooses, asked by both      *)
(* doors for the key of the client.                                        *)
(***************************************************************************)
EXTENDS RateLimit, RedisLimit

CONSTANTS
    Requests,   \* what identifies a client: its API key and its address
    NoKey       \* no X-API-Key header

VARIABLE limiter

limitVars == <<limiter, memVars, redisVars>>

\* main: Redis when REDIS_ADDR is set, else buckets in this process.
Init ==
    /\ limiter \in {"redis", "memory"}
    /\ MemInit /\ RedisInit
    /\ limiter = "memory" => skew = [i \in Instances |-> 0]

\* ClientKey, and clientKey of the gRPC door.
ClientKey(r) == IF r.apiKey # NoKey THEN r.apiKey ELSE r.host

\* The keys of the buckets are those of the clients.
ASSUME RequestAssumption == \A r \in Requests : ClientKey(r) \in Keys

\* A door asks.
Ask ==
    \/ /\ limiter = "memory"
       /\ \E c \in Callers, r \in Requests : Lookup(c, ClientKey(r))
       /\ UNCHANGED redisVars
    \/ /\ limiter = "redis"
       /\ \E i \in Instances : AskRedis(i)
       /\ UNCHANGED memVars

MemStep ==
    /\ limiter = "memory"
    /\ \/ \E c \in Callers : Grant(c) \/ Deny(c)
       \/ janitor \/ MemTick \/ Observe
    /\ UNCHANGED redisVars

RedisStep ==
    /\ limiter = "redis"
    /\ \/ \E i \in Instances : Answered(i) \/ Repeated(i) \/ AnswerLost(i) \/ NotSent(i)
       \/ RedisTick
    /\ UNCHANGED memVars

\* The modelled time is over.
Rest == clock = MaxClock /\ UNCHANGED limitVars

Next == (Ask \/ MemStep \/ RedisStep \/ Rest) /\ UNCHANGED limiter

Spec == Init /\ [][Next]_limitVars

LimitTypeOK == MemTypeOK /\ RedisTypeOK /\ limiter \in {"redis", "memory"}
=============================================================================
