------------------------------- MODULE Store -------------------------------
(***************************************************************************)
(* internal/store: the three Postgres tables and InsertBatch, the one      *)
(* operation that writes them, as a single atomic step.  StoreTx splits    *)
(* the step into its SQL statements and row locks and implements this one. *)
(*                                                                         *)
(* An event keeps what the tables tell apart: its id, its name, the user   *)
(* (NoUser when distinct_id is empty) and its time, at the granularity of  *)
(* a rollup row, the minute.  A HyperLogLog sketch is the set of users     *)
(* folded into it: Add is idempotent and commutative, so the registers are *)
(* a function of that set.  A batch is the set of its events: a repeated   *)
(* event conflicts with itself and folds its user twice, to no effect.     *)
(***************************************************************************)
EXTENDS Integers, FiniteSets

CONSTANTS
    Ids,            \* event_id values
    Names,          \* event names
    Users, NoUser,  \* distinct_id values, and the empty one
    MaxMinute,      \* bound: the last minute of the modelled time
    MinutesPerDay,
    Unstorable,     \* ids of well-formed events that Postgres refuses
    Batches         \* batches the specification of this module inserts

Minutes == 0 .. MaxMinute
Days == {m \div MinutesPerDay : m \in Minutes}

Event == [id : Ids, name : Names, user : Users \cup {NoUser}, ts : Minutes]

ASSUME StoreAssumption ==
    /\ MaxMinute \in Nat
    /\ MinutesPerDay \in Nat \ {0}
    /\ NoUser \notin Users
    /\ Unstorable \subseteq Ids
    /\ \A batch \in Batches : batch \subseteq Event /\ IsFiniteSet(batch)

VARIABLES
    events,     \* table events: the stored rows, event_id UNIQUE
    counts,     \* table event_counts_minute: n by (name, minute), 0 = no row
    uniques     \* table event_uniques_day: sketch by (name, day)

storeVars == <<events, counts, uniques>>

\* The primary keys of the two aggregate tables.
minuteKey(e) == <<e.name, e.ts>>
uniqueKey(e) == <<e.name, e.ts \div MinutesPerDay>>

IdsOf(S) == {e.id : e \in S}
StoredIds == IdsOf(events)

StoreInit ==
    /\ events = {}
    /\ counts = [k \in Names \X Minutes |-> 0]
    /\ uniques = [k \in Names \X Days |-> {}]

-----------------------------------------------------------------------------
\* Faulty variant: event_id without its UNIQUE constraint.
InsertedRows_NoConflict(batch) == {batch}

(***************************************************************************)
(* The rows the CTE "inserted" may return for a batch: one per id that has *)
(* no row yet.  Two events of the batch with the same id are ordered only  *)
(* by event_id, so either may be the one that is stored.                   *)
(***************************************************************************)
InsertedRows(batch) ==
    {S \in SUBSET batch :
        /\ IdsOf(S) \cap StoredIds = {}
        /\ \A e, f \in S : e.id = f.id => e = f
        /\ IdsOf(batch) \subseteq StoredIds \cup IdsOf(S)}

\* A statement that Postgres rejects fails the whole batch, at every attempt.
Storable(batch) == IdsOf(batch) \cap Unstorable = {}

\* The rows that a counter of event_counts_minute counts.
RowsOf(S, k) == {r \in S : minuteKey(r) = k}

\* "rolled": the counters grow by the rows that were really inserted.
Rolled(new) ==
    [k \in Names \X Minutes |-> counts[k] + Cardinality(RowsOf(new, k))]

\* updateUniques folds the users of the whole batch, duplicates included.
UsersOf(batch, k) ==
    {u \in Users : \E e \in batch : e.user = u /\ uniqueKey(e) = k}
\* Faulty variant: the stored sketch is replaced, not merged.
updateUniques_Replaces(batch) ==
    [k \in Names \X Days |-> IF UsersOf(batch, k) = {} THEN uniques[k] ELSE UsersOf(batch, k)]

updateUniques(batch) ==
    [k \in Names \X Days |-> uniques[k] \cup UsersOf(batch, k)]

\* Faulty variant: the rollup counts the batch, not the inserted rows.
InsertBatch_CountsBatch(batch, new) ==
    /\ new \in InsertedRows(batch)
    /\ events' = events \cup new
    /\ counts' = Rolled(batch)
    /\ uniques' = updateUniques(batch)

\* Faulty variant: ON CONFLICT DO UPDATE.
InsertBatch_Overwrites(batch, new) ==
    /\ IdsOf(new) = IdsOf(batch) /\ \A e, f \in new : e.id = f.id => e = f
    /\ events' = {r \in events : r.id \notin IdsOf(new)} \cup new
    /\ counts' = Rolled(new)
    /\ uniques' = updateUniques(batch)

\* A committed InsertBatch that stores the rows in new.
InsertBatch(batch, new) ==
    /\ Storable(batch)
    /\ new \in InsertedRows(batch)
    /\ events' = events \cup new
    /\ counts' = Rolled(new)
    /\ uniques' = updateUniques(batch)

StoreNext ==
    \E batch \in Batches : \E new \in SUBSET batch : InsertBatch(batch, new)

StoreSpec == StoreInit /\ [][StoreNext]_storeVars

-----------------------------------------------------------------------------
StoreTypeOK ==
    /\ events \subseteq Event /\ IsFiniteSet(events)
    /\ counts \in [Names \X Minutes -> Nat]
    /\ uniques \in [Names \X Days -> SUBSET Users]

\* No event id has two rows, however often the event is sent or redelivered
\* (ON CONFLICT (event_id) DO NOTHING).
StoredOnce == \A r, s \in events : r.id = s.id => r = s

\* A rollup counter is the number of raw rows of its name and minute: replays
\* and duplicates never move it (insertBatchSQL counts inserted rows only).
RollupsMatchEvents ==
    \A k \in Names \X Minutes : counts[k] = Cardinality(RowsOf(events, k))

\* The user of every stored row has been folded into the sketch of the row's
\* name and day (one transaction covers insertBatchSQL and updateUniques).
SketchesCoverEvents ==
    \A r \in events : r.user # NoUser => r.user \in uniques[uniqueKey(r)]

\* A sketch holds only users of stored rows of its name and day: duplicate
\* sends do not inflate the number of unique users.
SketchesOnlyStored ==
    \A k \in Names \X Days : \A u \in uniques[k] :
        \E r \in events : r.user = u /\ uniqueKey(r) = k

StoreInv ==
    /\ StoreTypeOK
    /\ StoredOnce
    /\ RollupsMatchEvents
    /\ SketchesCoverEvents
=============================================================================
