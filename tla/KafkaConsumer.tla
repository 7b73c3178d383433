--------------------------- MODULE KafkaConsumer ---------------------------
(***************************************************************************)
(* internal/queue KafkaConsumer: the members of the consumer group, each   *)
(* in the loop poll -> insert -> commit of Run, over the broker's log,     *)
(* committed offsets and partition assignment (external: modelled from     *)
(* what Run relies on).  An offset counts the records before it.           *)
(*                                                                         *)
(* The group may take a partition away from a member at any point of its   *)
(* loop, and the member goes on with the records it has polled: it inserts *)
(* them and commits their offsets, which the broker may accept or refuse.  *)
(***************************************************************************)
EXTENDS Store, Sequences, Functions

CONSTANTS
    Partitions, Consumers,
    Nobody,         \* the owner of a partition that is not assigned
    Malformed,      \* a record that json.Unmarshal refuses
    PollSize        \* BATCH_SIZE: the records one PollRecords returns at most

ASSUME ConsumerAssumption ==
    /\ Nobody \notin Consumers
    /\ Malformed \notin Event
    /\ PollSize \in Nat \ {0}
    /\ IsFiniteSet(Partitions)

VARIABLES
    log,        \* the records of each partition
    committed,  \* the group's committed offset of each partition
    owner,      \* the member each partition is assigned to
    pos,        \* the fetch offset of each partition at its owner
    cpc,        \* "down", "poll", "insert", "commit"
    stopping,   \* the members whose context is cancelled
    from, upto  \* the offsets a member's polled records lie between

brokerVars == <<log, committed>>
groupVars == <<owner, pos>>
consumerVars == <<groupVars, cpc, stopping, from, upto>>

NoOffsets == [p \in Partitions |-> 0]

ConsumersInit ==
    /\ log = [p \in Partitions |-> <<>>]
    /\ committed = NoOffsets
    /\ owner = [p \in Partitions |-> Nobody]
    /\ pos = NoOffsets
    /\ cpc = [c \in Consumers |-> "poll"]
    /\ stopping = {}
    /\ from = [c \in Consumers |-> NoOffsets]
    /\ upto = [c \in Consumers |-> NoOffsets]

-----------------------------------------------------------------------------
(***************************************************************************)
(* The group.  A new owner starts at the committed offset.                 *)
(***************************************************************************)
GiveTo(p, c) ==
    /\ cpc[c] # "down" /\ c \notin stopping
    /\ owner' = [owner EXCEPT ![p] = c]
    /\ pos' = [pos EXCEPT ![p] = committed[p]]
    /\ UNCHANGED <<brokerVars, cpc, stopping, from, upto, storeVars>>

Assign(p, c) == owner[p] = Nobody /\ GiveTo(p, c)

\* A member joined, or the owner missed its heartbeats: it is not told.
Reassign(p, c) == owner[p] \notin {Nobody, c} /\ GiveTo(p, c)

-----------------------------------------------------------------------------
(***************************************************************************)
(* Run.                                                                    *)
(***************************************************************************)
Offsets == UNION {0 .. Len(log[p]) : p \in Partitions}

\* Faulty variant: auto-commit of what the poll returns.
Poll_AutoCommit(c) ==
    /\ cpc[c] = "poll" /\ c \notin stopping
    /\ \E next \in [Partitions -> Offsets] :
        /\ \A p \in Partitions :
            /\ next[p] \in pos[p] .. Len(log[p])
            /\ owner[p] # c => next[p] = pos[p]
        /\ next # pos
        /\ pos' = next
        /\ from' = [from EXCEPT ![c] = pos]
        /\ upto' = [upto EXCEPT ![c] = next]
        /\ committed' = [p \in Partitions |-> IF owner[p] = c THEN next[p] ELSE committed[p]]
    /\ cpc' = [cpc EXCEPT ![c] = "insert"]
    /\ UNCHANGED <<log, owner, stopping, storeVars>>

\* PollRecords returns records of some of the member's partitions.  What the
\* client has fetched of a partition goes with the partition.
Poll(c) ==
    /\ cpc[c] = "poll" /\ c \notin stopping
    /\ \E next \in [Partitions -> Offsets] :
        /\ \A p \in Partitions :
            /\ next[p] \in pos[p] .. Len(log[p])
            /\ owner[p] # c => next[p] = pos[p]
        /\ SumFunction([p \in Partitions |-> next[p] - pos[p]]) \in 1 .. PollSize
        /\ pos' = next
        /\ from' = [from EXCEPT ![c] = pos]
        /\ upto' = [upto EXCEPT ![c] = next]
    /\ cpc' = [cpc EXCEPT ![c] = "insert"]
    /\ UNCHANGED <<brokerVars, owner, stopping, storeVars>>

\* The polled records that decode; the others are skipped.
RecordsOf(p, c) == {log[p][i] : i \in from[c][p] + 1 .. upto[c][p]}
Decoded(c) == (UNION {RecordsOf(p, c) : p \in Partitions}) \ {Malformed}

\* Faulty variant: a batch that fails to insert is skipped, as the pool does.
InsertOk_GivesUp(c) ==
    /\ cpc[c] = "insert"
    /\ cpc' = [cpc EXCEPT ![c] = "commit"]
    /\ UNCHANGED <<brokerVars, groupVars, stopping, from, upto, storeVars>>

\* Faulty variant: a batch with nothing to insert is polled again.
InsertOk_NonEmpty(c) ==
    /\ cpc[c] = "insert"
    /\ Decoded(c) # {}
    /\ \E new \in SUBSET Decoded(c) : InsertBatch(Decoded(c), new)
    /\ cpc' = [cpc EXCEPT ![c] = "commit"]
    /\ UNCHANGED <<brokerVars, groupVars, stopping, from, upto>>

\* InsertBatch succeeds.  A failed attempt changes nothing and is repeated.
InsertOk(c) ==
    /\ cpc[c] = "insert"
    /\ \E new \in SUBSET Decoded(c) : InsertBatch(Decoded(c), new)
    /\ cpc' = [cpc EXCEPT ![c] = "commit"]
    /\ UNCHANGED <<brokerVars, groupVars, stopping, from, upto>>

\* InsertBatch commits, the answer is lost, and the attempt is repeated.
InsertUnacknowledged(c) ==
    /\ cpc[c] = "insert"
    /\ \E new \in SUBSET Decoded(c) : InsertBatch(Decoded(c), new)
    /\ UNCHANGED <<brokerVars, consumerVars>>

\* The polled records go out of scope.
Forget(c) ==
    /\ from' = [from EXCEPT ![c] = NoOffsets]
    /\ upto' = [upto EXCEPT ![c] = NoOffsets]

\* CommitRecords: all, some or none of the offsets are committed; an error is
\* only logged.
CommitRecords(c) ==
    /\ cpc[c] = "commit"
    /\ \E done \in SUBSET {p \in Partitions : from[c][p] < upto[c][p]} :
        committed' = [p \in Partitions |-> IF p \in done THEN upto[c][p] ELSE committed[p]]
    /\ Forget(c)
    /\ cpc' = [cpc EXCEPT ![c] = "poll"]
    /\ UNCHANGED <<log, groupVars, stopping, storeVars>>

\* stopConsuming: the context is cancelled.
Stop(c) ==
    /\ cpc[c] # "down" /\ c \notin stopping
    /\ stopping' = stopping \cup {c}
    /\ UNCHANGED <<brokerVars, groupVars, cpc, from, upto, storeVars>>

\* A member is gone: its partitions wait for another one.
Gone(c) ==
    /\ cpc[c] # "down"
    /\ cpc' = [cpc EXCEPT ![c] = "down"]
    /\ stopping' = stopping \ {c}
    /\ owner' = [p \in Partitions |-> IF owner[p] = c THEN Nobody ELSE owner[p]]
    /\ Forget(c)
    /\ UNCHANGED <<brokerVars, pos, storeVars>>

\* Run returns: at the poll, after a failed insert, or because main waits for
\* it no longer than 15 s.
Return(c) == c \in stopping /\ Gone(c)

\* SIGKILL.
Kill(c) == c \notin stopping /\ Gone(c)

Start(c) ==
    /\ cpc[c] = "down"
    /\ cpc' = [cpc EXCEPT ![c] = "poll"]
    /\ UNCHANGED <<brokerVars, groupVars, stopping, from, upto, storeVars>>

RunStep(c) ==
    \/ Poll(c) \/ InsertOk(c) \/ InsertUnacknowledged(c) \/ CommitRecords(c) \/ Return(c)

-----------------------------------------------------------------------------
ConsumerTypeOK ==
    /\ log \in [Partitions -> Seq(Event \cup {Malformed})]
    /\ committed \in [Partitions -> Nat]
    /\ owner \in [Partitions -> Consumers \cup {Nobody}]
    /\ pos \in [Partitions -> Nat]
    /\ cpc \in [Consumers -> {"down", "poll", "insert", "commit"}]
    /\ stopping \subseteq Consumers
    /\ from \in [Consumers -> [Partitions -> Nat]]
    /\ upto \in [Consumers -> [Partitions -> Nat]]

\* A record that need not be delivered again.
Settled(p, i) == log[p][i] = Malformed \/ log[p][i].id \in StoredIds

\* Every record below a committed offset is in the store: whatever members do
\* with batches of partitions they have lost, killing all of them at any point
\* loses nothing, since the next owner starts at the committed offset.
CommittedStored == \A p \in Partitions : \A i \in 1 .. committed[p] : Settled(p, i)

\* Why: what is below the fetch offset is settled or in its owner's hands...
FetchedInHand(p, c) ==
    owner[p] = c => \A i \in 1 .. pos[p] :
        Settled(p, i) \/ (cpc[c] = "insert" /\ i \in from[c][p] + 1 .. upto[c][p])

\* ...what lies below a polled batch was settled before the batch was polled,
\* and its own records before its offsets are committed.
PolledAfterSettled(p, c) ==
    from[c][p] < upto[c][p] =>
        /\ \A i \in 1 .. from[c][p] : Settled(p, i)
        /\ cpc[c] = "commit" => \A i \in 1 .. upto[c][p] : Settled(p, i)

OffsetsInLog(p) ==
    /\ committed[p] <= Len(log[p]) /\ pos[p] <= Len(log[p])
    /\ \A c \in Consumers : upto[c][p] <= Len(log[p])

\* The inductive invariant behind CommittedStored: no order of polls, inserts,
\* commits, kills and reassignments settles an offset before its records.
DeliveryInv ==
    /\ CommittedStored
    /\ \A p \in Partitions : OffsetsInLog(p)
    /\ \A p \in Partitions, c \in Consumers : FetchedInHand(p, c) /\ PolledAfterSettled(p, c)
=============================================================================
