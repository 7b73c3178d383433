------------------------------ MODULE StoreTx ------------------------------
(***************************************************************************)
(* internal/store InsertBatch, statement by statement: concurrent READ     *)
(* COMMITTED transactions that take row locks one at a time.  The locks    *)
(* and what a blocked statement sees when it goes on are Postgres's,       *)
(* modelled from the SQL that relies on them.  What a transaction writes   *)
(* is kept aside until it commits; an event id that another transaction    *)
(* has inserted and not yet committed blocks, as does a row it has written.*)
(***************************************************************************)
EXTENDS Store

CONSTANTS
    Txs, Free,      \* transactions, and the holder of a lock nobody holds
    Rank,           \* the text order of ids and of names
    MaxBegins       \* bound: the transactions begun

\* The connection pool is finite.
ASSUME TxAssumption ==
    /\ IsFiniteSet(Txs) /\ Free \notin Txs
    /\ Rank \in [Ids \cup Names -> Nat]
    /\ \A i, j \in Ids : Rank[i] = Rank[j] => i = j
    /\ \A m, n \in Names : Rank[m] = Rank[n] => m = n
    /\ MaxBegins \in Nat

MinuteKeys == Names \X Minutes
DayKeys == Names \X Days

VARIABLES
    tpc,        \* "idle", "insert", "rollup", "ensure", "select"
    rows,       \* the batch
    todo,       \* the keys the statement has still to lock
    new,        \* the rows "inserted" has returned
    idLock, minuteLock, dayLock,    \* the holder of each row lock
    dayRows,    \* the committed rows of event_uniques_day
    newCounts, newSketches,         \* what the transaction writes to locked rows
    begun

lockVars == <<idLock, minuteLock, dayLock>>
writeVars == <<newCounts, newSketches>>
txVars == <<storeVars, tpc, rows, todo, new, lockVars, dayRows, writeVars, begun>>

NoCounts == [k \in MinuteKeys |-> 0]
NoSketches == [k \in DayKeys |-> {}]

TxInit ==
    /\ StoreInit
    /\ tpc = [t \in Txs |-> "idle"]
    /\ rows = [t \in Txs |-> {}]
    /\ todo = [t \in Txs |-> {}]
    /\ new = [t \in Txs |-> {}]
    /\ idLock = [i \in Ids |-> Free]
    /\ minuteLock = [k \in MinuteKeys |-> Free]
    /\ dayLock = [k \in DayKeys |-> Free]
    /\ dayRows = {}
    /\ newCounts = [t \in Txs |-> NoCounts]
    /\ newSketches = [t \in Txs |-> NoSketches]
    /\ begun = 0

-----------------------------------------------------------------------------
\* ORDER BY event_id; ORDER BY 1, 2 and sort.Slice, by name, then time.
Before(i, j) == Rank[i] < Rank[j]
KeyBefore(k, l) == Rank[k[1]] < Rank[l[1]] \/ (k[1] = l[1] /\ k[2] < l[2])

\* Faulty variant: the keys in the order of the batch.
FirstId_Any(t, i) == i \in todo[t]
FirstKey_Any(t, k) == k \in todo[t]

\* The key a statement locks next.
FirstId(t, i) == i \in todo[t] /\ \A j \in todo[t] \ {i} : Before(i, j)
FirstKey(t, k) == k \in todo[t] /\ \A l \in todo[t] \ {k} : KeyBefore(k, l)

Goto(t, stage, keys) ==
    /\ tpc' = [tpc EXCEPT ![t] = stage]
    /\ todo' = [todo EXCEPT ![t] = keys]

\* BEGIN, and insertBatchSQL starts.
Begin(t, b) ==
    /\ tpc[t] = "idle" /\ begun < MaxBegins
    /\ Goto(t, "insert", IdsOf(b))
    /\ rows' = [rows EXCEPT ![t] = b]
    /\ begun' = begun + 1
    /\ UNCHANGED <<storeVars, new, lockVars, dayRows, writeVars>>

\* "inserted", one id: it waits for a transaction that has inserted the id,
\* and skips it when it is stored.  An id Postgres refuses fails (Rollback).
InsertRow(t) ==
    /\ tpc[t] = "insert"
    /\ \E i \in todo[t] \ Unstorable :
        /\ FirstId(t, i) /\ idLock[i] = Free
        /\ Goto(t, "insert", todo[t] \ {i})
        /\ \/ i \in StoredIds /\ UNCHANGED <<new, idLock>>
           \/ /\ i \notin StoredIds
              /\ idLock' = [idLock EXCEPT ![i] = t]
              /\ \E e \in rows[t] : e.id = i /\ new' = [new EXCEPT ![t] = @ \cup {e}]
    /\ UNCHANGED <<storeVars, rows, minuteLock, dayLock, dayRows, writeVars, begun>>

\* "rolled" groups the inserted rows...
StartRollup(t) ==
    /\ tpc[t] = "insert" /\ todo[t] = {}
    /\ Goto(t, "rollup", {minuteKey(e) : e \in new[t]})
    /\ UNCHANGED <<storeVars, rows, new, lockVars, dayRows, writeVars, begun>>

\* Faulty variant: a counter somebody else has locked is read all the same.
LockCounter_NoWait(t) ==
    /\ tpc[t] = "rollup"
    /\ \E k \in todo[t] :
        /\ FirstKey(t, k)
        /\ Goto(t, "rollup", todo[t] \ {k})
        /\ minuteLock' = [minuteLock EXCEPT ![k] = t]
        /\ newCounts' = [newCounts EXCEPT ![t] =
               [@ EXCEPT ![k] = counts[k] + Cardinality(RowsOf(new[t], k))]]
    /\ UNCHANGED <<storeVars, rows, new, idLock, dayLock, dayRows, newSketches, begun>>

\* ...and adds to one counter after the other, each as last committed.
LockCounter(t) ==
    /\ tpc[t] = "rollup"
    /\ \E k \in todo[t] :
        /\ FirstKey(t, k) /\ minuteLock[k] = Free
        /\ Goto(t, "rollup", todo[t] \ {k})
        /\ minuteLock' = [minuteLock EXCEPT ![k] = t]
        /\ newCounts' = [newCounts EXCEPT ![t] =
               [@ EXCEPT ![k] = counts[k] + Cardinality(RowsOf(new[t], k))]]
    /\ UNCHANGED <<storeVars, rows, new, idLock, dayLock, dayRows, newSketches, begun>>

\* updateUniques: the keys of the whole batch.
StartUniques(t) ==
    /\ tpc[t] = "rollup" /\ todo[t] = {}
    /\ Goto(t, "ensure", {uniqueKey(e) : e \in {r \in rows[t] : r.user # NoUser}})
    /\ UNCHANGED <<storeVars, rows, new, lockVars, dayRows, writeVars, begun>>

\* INSERT .. DO NOTHING: waits only for a transaction that is inserting the row.
EnsureRow(t) ==
    /\ tpc[t] = "ensure"
    /\ \E k \in todo[t] :
        /\ FirstKey(t, k)
        /\ \/ k \in dayRows /\ UNCHANGED dayLock
           \/ k \notin dayRows /\ dayLock[k] = Free /\ dayLock' = [dayLock EXCEPT ![k] = t]
    /\ Goto(t, "select", todo[t])
    /\ UNCHANGED <<storeVars, rows, new, idLock, minuteLock, dayRows, writeVars, begun>>

\* Faulty variant: SELECT without FOR UPDATE.
SelectForUpdate_NoLock(t) ==
    /\ tpc[t] = "select"
    /\ \E k \in todo[t] :
        /\ FirstKey(t, k)
        /\ Goto(t, "ensure", todo[t] \ {k})
        /\ dayLock' = [dayLock EXCEPT ![k] = t]
        /\ newSketches' = [newSketches EXCEPT ![t] =
               [@ EXCEPT ![k] = uniques[k] \cup UsersOf(rows[t], k)]]
    /\ UNCHANGED <<storeVars, rows, new, idLock, minuteLock, dayRows, newCounts, begun>>

\* SELECT .. FOR UPDATE, the merge in Go, UPDATE.
SelectForUpdate(t) ==
    /\ tpc[t] = "select"
    /\ \E k \in todo[t] :
        /\ FirstKey(t, k) /\ dayLock[k] \in {Free, t}
        /\ Goto(t, "ensure", todo[t] \ {k})
        /\ dayLock' = [dayLock EXCEPT ![k] = t]
        /\ newSketches' = [newSketches EXCEPT ![t] =
               [@ EXCEPT ![k] = uniques[k] \cup UsersOf(rows[t], k)]]
    /\ UNCHANGED <<storeVars, rows, new, idLock, minuteLock, dayRows, newCounts, begun>>

\* The end of a transaction: its locks are free.
Release(t) ==
    /\ Goto(t, "idle", {})
    /\ rows' = [rows EXCEPT ![t] = {}]
    /\ new' = [new EXCEPT ![t] = {}]
    /\ idLock' = [i \in Ids |-> IF idLock[i] = t THEN Free ELSE idLock[i]]
    /\ minuteLock' = [k \in MinuteKeys |-> IF minuteLock[k] = t THEN Free ELSE minuteLock[k]]
    /\ dayLock' = [k \in DayKeys |-> IF dayLock[k] = t THEN Free ELSE dayLock[k]]
    /\ newCounts' = [newCounts EXCEPT ![t] = NoCounts]
    /\ newSketches' = [newSketches EXCEPT ![t] = NoSketches]
    /\ UNCHANGED begun

Commit(t) ==
    /\ tpc[t] = "ensure" /\ todo[t] = {}
    /\ events' = events \cup new[t]
    /\ counts' = [k \in MinuteKeys |-> IF minuteLock[k] = t THEN newCounts[t][k] ELSE counts[k]]
    /\ uniques' = [k \in DayKeys |-> IF dayLock[k] = t THEN newSketches[t][k] ELSE uniques[k]]
    /\ dayRows' = dayRows \cup {k \in DayKeys : dayLock[k] = t}
    /\ Release(t)

\* An error, the 10 s context, a lost connection or Postgres itself ends it.
Rollback(t) == tpc[t] # "idle" /\ Release(t) /\ UNCHANGED <<storeVars, dayRows>>

\* Every transaction has ended and no more are begun.
AllEnded == begun = MaxBegins /\ tpc = [t \in Txs |-> "idle"] /\ UNCHANGED txVars

TxStep(t) ==
    \/ \E b \in Batches : Begin(t, b)
    \/ InsertRow(t) \/ StartRollup(t) \/ LockCounter(t) \/ StartUniques(t)
    \/ EnsureRow(t) \/ SelectForUpdate(t) \/ Commit(t) \/ Rollback(t)

TxNext == (\E t \in Txs : TxStep(t)) \/ AllEnded
TxSpec == TxInit /\ [][TxNext]_txVars

-----------------------------------------------------------------------------
TxTypeOK ==
    /\ StoreTypeOK
    /\ tpc \in [Txs -> {"idle", "insert", "rollup", "ensure", "select"}]
    /\ rows \in [Txs -> SUBSET Event] /\ new \in [Txs -> SUBSET Event]
    /\ todo \in [Txs -> SUBSET (Ids \cup MinuteKeys \cup DayKeys)]
    /\ \A t \in Txs : /\ tpc[t] = "idle" => todo[t] = {}
                      /\ tpc[t] = "insert" => todo[t] \subseteq Ids
                      /\ tpc[t] = "rollup" => todo[t] \subseteq MinuteKeys
                      /\ tpc[t] \in {"ensure", "select"} => todo[t] \subseteq DayKeys
    /\ idLock \in [Ids -> Txs \cup {Free}]
    /\ minuteLock \in [MinuteKeys -> Txs \cup {Free}]
    /\ dayLock \in [DayKeys -> Txs \cup {Free}]
    /\ dayRows \subseteq DayKeys
    /\ newCounts \in [Txs -> [MinuteKeys -> Nat]]
    /\ newSketches \in [Txs -> [DayKeys -> SUBSET Users]]

\* Transaction t cannot go on before u ends.
WaitsFor(t, u) ==
    /\ t # u
    /\ \/ tpc[t] = "insert" /\ \E i \in todo[t] : FirstId(t, i) /\ idLock[i] = u
       \/ tpc[t] = "rollup" /\ \E k \in todo[t] : FirstKey(t, k) /\ minuteLock[k] = u
       \/ /\ tpc[t] \in {"ensure", "select"}
          /\ \E k \in todo[t] : /\ FirstKey(t, k) /\ dayLock[k] = u
                                /\ tpc[t] = "select" \/ k \notin dayRows

\* Concurrent batches queue, they never deadlock, whatever ids, minutes and
\* days they share (the ORDER BYs of insertBatchSQL and the sort of
\* updateUniques): in every set of transactions one waits for none of them.
NoDeadlock ==
    \A S \in (SUBSET Txs) \ {{}} : \E t \in S : \A u \in S : ~WaitsFor(t, u)

\* The transactions, however they interleave, abort and block each other, do
\* what the one atomic InsertBatch of module Store does: no row, count or
\* sketch update is lost or made twice.
ImplementsStore == StoreSpec

\* Every lock a transaction holds comes before every one it will still ask
\* for, in the one order all of them follow: ids, then counters, then sketches.
HeldInOrder(t) ==
    /\ tpc[t] = "insert" => \A i \in Ids : idLock[i] = t => \A j \in todo[t] : Before(i, j)
    /\ tpc[t] = "rollup" =>
           \A k \in MinuteKeys : minuteLock[k] = t => \A l \in todo[t] : KeyBefore(k, l)
    /\ tpc[t] \in {"ensure", "select"} =>
           \A k \in DayKeys : dayLock[k] = t => \A l \in todo[t] :
               KeyBefore(k, l) \/ (tpc[t] = "select" /\ FirstKey(t, k))
    /\ tpc[t] = "idle" => \A i \in Ids : idLock[i] # t
    /\ tpc[t] \in {"idle", "insert"} => \A k \in MinuteKeys : minuteLock[k] # t
    /\ tpc[t] \in {"idle", "insert", "rollup"} => \A k \in DayKeys : dayLock[k] # t

\* So a transaction that waits is waiting for one further on in that order.
LocksInOrder == \A t \in Txs : HeldInOrder(t)

\* Why ImplementsStore: what a transaction is about to write is what InsertBatch
\* would write now, since nobody else touches the rows it has locked...
WritesCurrent(t) ==
    /\ \A e \in new[t] : idLock[e.id] = t /\ e.id \notin StoredIds
    /\ \A e, f \in new[t] : e.id = f.id => e = f
    /\ \A k \in MinuteKeys : minuteLock[k] = t =>
           newCounts[t][k] = counts[k] + Cardinality(RowsOf(new[t], k))
    /\ \A k \in DayKeys : dayLock[k] = t /\ k \notin todo[t] =>
           newSketches[t][k] = uniques[k] \cup UsersOf(rows[t], k)

\* ...and what it has not yet dealt with is on its list.
NothingSkipped(t) ==
    /\ new[t] \subseteq rows[t] /\ rows[t] \in Batches
    /\ \A e \in rows[t] : \/ tpc[t] = "insert" /\ e.id \in todo[t]
                          \/ e.id \notin Unstorable /\ e.id \in StoredIds \cup IdsOf(new[t])
    /\ \A e \in new[t] : \/ tpc[t] = "insert"
                         \/ tpc[t] = "rollup" /\ minuteKey(e) \in todo[t]
                         \/ minuteLock[minuteKey(e)] = t
    /\ \A e \in rows[t] : \/ tpc[t] \in {"insert", "rollup"} \/ e.user = NoUser
                          \/ uniqueKey(e) \in todo[t] \/ dayLock[uniqueKey(e)] = t

\* The inductive invariant behind ImplementsStore: the locks protect what each
\* open transaction is going to commit.
LockInv ==
    \A t \in Txs : WritesCurrent(t) /\ (tpc[t] # "idle" => NothingSkipped(t))
=============================================================================
