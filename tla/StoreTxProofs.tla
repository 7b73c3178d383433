--------------------------- MODULE StoreTxProofs ---------------------------
(***************************************************************************)
(* StoreTx: the transactions of InsertBatch implement the atomic step of   *)
(* module Store, take their locks in one order and never deadlock, for any *)
(* number of transactions and any batches.                                 *)
(***************************************************************************)
EXTENDS StoreTx, StoreProofs

\* A leaf goes to Zenon for two seconds, then to the SMT solver.
USE ZenonT(2), SMTT(30)

TxInv == TxTypeOK /\ LockInv /\ LocksInOrder

\* The keys of an event.
LEMMA EventKeys ==
    ASSUME NEW e \in Event
    PROVE  e.id \in Ids /\ minuteKey(e) \in MinuteKeys /\ uniqueKey(e) \in DayKeys
BY DEF minuteKey, uniqueKey, MinuteKeys, DayKeys, Days, Event

\* The three lists of keys of a batch.
LEMMA KeyTypes ==
    ASSUME NEW S, S \subseteq Event
    PROVE  /\ IdsOf(S) \subseteq Ids
           /\ {minuteKey(e) : e \in S} \subseteq MinuteKeys
           /\ {uniqueKey(e) : e \in S} \subseteq DayKeys
BY DEF IdsOf, minuteKey, uniqueKey, MinuteKeys, DayKeys, Days, Event

\* The rows a transaction has inserted are finite: they come from a batch.
LEMMA NewFinite ==
    ASSUME TxInv, NEW t \in Txs, tpc[t] # "idle"
    PROVE  /\ IsFiniteSet(new[t])
           /\ \A k : Cardinality(RowsOf(new[t], k)) \in Nat
<1>1. IsFiniteSet(new[t])
    BY StoreAssumption, FS_Subset DEF TxInv, LockInv, NothingSkipped
<1>2. \A k : RowsOf(new[t], k) \subseteq new[t]
    BY DEF RowsOf
<1> QED  BY <1>1, <1>2, FS_Subset, FS_CardinalityType

-----------------------------------------------------------------------------
(***************************************************************************)
(* Types.                                                                  *)
(***************************************************************************)
\* The list of keys, whatever stage a step goes to.
LEMMA GotoType ==
    ASSUME TxTypeOK, NEW t \in Txs, NEW keys,
           NEW stage \in {"idle", "insert", "rollup", "ensure", "select"},
           Goto(t, stage, keys),
           stage = "idle" => keys = {},
           stage = "insert" => keys \subseteq Ids,
           stage = "rollup" => keys \subseteq MinuteKeys,
           stage \in {"ensure", "select"} => keys \subseteq DayKeys
    PROVE  /\ tpc' \in [Txs -> {"idle", "insert", "rollup", "ensure", "select"}]
           /\ todo' \in [Txs -> SUBSET (Ids \cup MinuteKeys \cup DayKeys)]
           /\ \A u \in Txs : /\ tpc'[u] = "idle" => todo'[u] = {}
                             /\ tpc'[u] = "insert" => todo'[u] \subseteq Ids
                             /\ tpc'[u] = "rollup" => todo'[u] \subseteq MinuteKeys
                             /\ tpc'[u] \in {"ensure", "select"} => todo'[u] \subseteq DayKeys
<1>1. keys \subseteq Ids \cup MinuteKeys \cup DayKeys
    OBVIOUS
<1>2. /\ tpc' = [tpc EXCEPT ![t] = stage] /\ todo' = [todo EXCEPT ![t] = keys]
      /\ tpc \in [Txs -> {"idle", "insert", "rollup", "ensure", "select"}]
      /\ todo \in [Txs -> SUBSET (Ids \cup MinuteKeys \cup DayKeys)]
    BY DEF Goto, TxTypeOK
<1>3. /\ tpc' \in [Txs -> {"idle", "insert", "rollup", "ensure", "select"}]
      /\ todo' \in [Txs -> SUBSET (Ids \cup MinuteKeys \cup DayKeys)]
    BY <1>1, <1>2
<1>4. tpc'[t] = stage /\ todo'[t] = keys
    BY <1>2
<1>5. \A u \in Txs \ {t} : tpc'[u] = tpc[u] /\ todo'[u] = todo[u]
    BY <1>2
<1> QED  BY <1>3, <1>4, <1>5, ZenonT(30) DEF TxTypeOK

\* The steps of a transaction.
LEMMA TxType ==
    ASSUME TxInv, NEW t \in Txs, TxStep(t)
    PROVE  TxTypeOK'
<1>0. TxTypeOK
    BY DEF TxInv
<1>1. ASSUME NEW b \in Batches, Begin(t, b) PROVE TxTypeOK'
    <2>1. b \subseteq Event /\ IdsOf(b) \subseteq Ids
        BY StoreAssumption, KeyTypes
    <2>2. rows' \in [Txs -> SUBSET Event]
        BY <1>0, <1>1, <2>1 DEF Begin, TxTypeOK
    <2> QED  BY <1>0, <1>1, <2>1, <2>2, GotoType
             DEF Begin, TxTypeOK, StoreTypeOK, storeVars, lockVars, writeVars
<1>2. CASE InsertRow(t)
    <2>1. PICK i \in todo[t] :
              /\ Goto(t, "insert", todo[t] \ {i})
              /\ \/ UNCHANGED <<new, idLock>>
                 \/ /\ idLock' = [idLock EXCEPT ![i] = t]
                    /\ \E e \in rows[t] : new' = [new EXCEPT ![t] = @ \cup {e}]
        BY <1>2 DEF InsertRow
    <2>2. tpc[t] = "insert" /\ i \in Ids /\ todo[t] \ {i} \subseteq Ids
        BY <1>0, <1>2 DEF InsertRow, TxTypeOK
    <2>3. idLock' \in [Ids -> Txs \cup {Free}]
        BY <1>0, <2>1, <2>2, ZenonT(30) DEF TxTypeOK
    <2>4. new' \in [Txs -> SUBSET Event]
        <3>1. ASSUME NEW e \in rows[t], new' = [new EXCEPT ![t] = new[t] \cup {e}]
              PROVE  new' \in [Txs -> SUBSET Event]
            <4>1. new[t] \cup {e} \in SUBSET Event /\ new \in [Txs -> SUBSET Event]
                BY <1>0 DEF TxTypeOK
            <4> QED  BY <3>1, <4>1
        <3> QED  BY <1>0, <2>1, <3>1, ZenonT(30) DEF TxTypeOK
    <2> QED  BY <1>0, <1>2, <2>1, <2>2, <2>3, <2>4, GotoType
             DEF InsertRow, TxTypeOK, StoreTypeOK, storeVars, writeVars
<1>3. CASE StartRollup(t)
    <2>1. {minuteKey(e) : e \in new[t]} \subseteq MinuteKeys
        BY <1>0, KeyTypes, ZenonT(30) DEF TxTypeOK
    <2> QED  BY <1>0, <1>3, <2>1, GotoType
             DEF StartRollup, TxTypeOK, StoreTypeOK, storeVars, lockVars, writeVars
<1>4. CASE LockCounter(t)
    <2>1. PICK k \in todo[t] :
              /\ Goto(t, "rollup", todo[t] \ {k})
              /\ minuteLock' = [minuteLock EXCEPT ![k] = t]
              /\ newCounts' = [newCounts EXCEPT ![t] =
                     [newCounts[t] EXCEPT ![k] = counts[k] + Cardinality(RowsOf(new[t], k))]]
        BY <1>4, ZenonT(30) DEF LockCounter
    <2>2. tpc[t] = "rollup" /\ k \in MinuteKeys /\ todo[t] \ {k} \subseteq MinuteKeys
        BY <1>0, <1>4 DEF LockCounter, TxTypeOK
    <2>3. counts[k] + Cardinality(RowsOf(new[t], k)) \in Nat
        <3>1. counts[k] \in Nat
            BY <1>0, <2>2 DEF TxTypeOK, StoreTypeOK, MinuteKeys
        <3>2. Cardinality(RowsOf(new[t], k)) \in Nat
            BY <2>2, NewFinite
        <3> QED  BY <3>1, <3>2
    <2>4. [newCounts[t] EXCEPT ![k] = counts[k] + Cardinality(RowsOf(new[t], k))] \in [MinuteKeys -> Nat]
        BY <1>0, <2>2, <2>3 DEF TxTypeOK
    <2>5. newCounts' \in [Txs -> [MinuteKeys -> Nat]] /\ minuteLock' \in [MinuteKeys -> Txs \cup {Free}]
        BY <1>0, <2>1, <2>2, <2>4 DEF TxTypeOK
    <2> QED  BY <1>0, <1>4, <2>1, <2>2, <2>5, GotoType DEF LockCounter, TxTypeOK, StoreTypeOK,
                storeVars
<1>5. CASE StartUniques(t)
    <2>1. {uniqueKey(e) : e \in {r \in rows[t] : r.user # NoUser}} \subseteq DayKeys
        BY <1>0, KeyTypes, ZenonT(30) DEF TxTypeOK
    <2> QED  BY <1>0, <1>5, <2>1, GotoType
             DEF StartUniques, TxTypeOK, StoreTypeOK, storeVars, lockVars, writeVars
<1>6. CASE EnsureRow(t)
    <2>1. tpc[t] = "ensure" /\ todo[t] \subseteq DayKeys
        BY <1>0, <1>6 DEF EnsureRow, TxTypeOK
    <2>2. dayLock' \in [DayKeys -> Txs \cup {Free}]
        BY <1>0, <1>6, <2>1, ZenonT(30) DEF EnsureRow, TxTypeOK
    <2> QED  BY <1>0, <1>6, <2>1, <2>2, GotoType
             DEF EnsureRow, TxTypeOK, StoreTypeOK, storeVars, writeVars
<1>7. CASE SelectForUpdate(t)
    <2>1. PICK k \in todo[t] :
              /\ Goto(t, "ensure", todo[t] \ {k})
              /\ dayLock' = [dayLock EXCEPT ![k] = t]
              /\ newSketches' = [newSketches EXCEPT ![t] =
                     [newSketches[t] EXCEPT ![k] = uniques[k] \cup UsersOf(rows[t], k)]]
        BY <1>7, ZenonT(30) DEF SelectForUpdate
    <2>2. tpc[t] = "select" /\ k \in DayKeys /\ todo[t] \ {k} \subseteq DayKeys
        BY <1>0, <1>7 DEF SelectForUpdate, TxTypeOK
    <2>3. uniques[k] \cup UsersOf(rows[t], k) \subseteq Users
        BY <1>0, <2>2 DEF TxTypeOK, StoreTypeOK, DayKeys, UsersOf
    <2>4. [newSketches[t] EXCEPT ![k] = uniques[k] \cup UsersOf(rows[t], k)] \in [DayKeys -> SUBSET Users]
        BY <1>0, <2>2, <2>3 DEF TxTypeOK
    <2>5. newSketches' \in [Txs -> [DayKeys -> SUBSET Users]] /\ dayLock' \in [DayKeys -> Txs \cup {Free}]
        BY <1>0, <2>1, <2>2, <2>4 DEF TxTypeOK
    <2> QED  BY <1>0, <1>7, <2>1, <2>2, <2>5, GotoType
             DEF SelectForUpdate, TxTypeOK, StoreTypeOK, storeVars
<1>8. ASSUME Release(t), StoreTypeOK', dayRows' \subseteq DayKeys PROVE TxTypeOK'
    <2>1. NoCounts \in [MinuteKeys -> Nat] /\ NoSketches \in [DayKeys -> SUBSET Users]
        BY DEF NoCounts, NoSketches
    <2>2. newCounts' \in [Txs -> [MinuteKeys -> Nat]] /\ newSketches' \in [Txs -> [DayKeys -> SUBSET Users]]
        BY <1>0, <1>8, <2>1 DEF Release, TxTypeOK
    <2>3. rows' \in [Txs -> SUBSET Event] /\ new' \in [Txs -> SUBSET Event]
        BY <1>0, <1>8 DEF Release, TxTypeOK
    <2>4. idLock' \in [Ids -> Txs \cup {Free}] /\ minuteLock' \in [MinuteKeys -> Txs \cup {Free}]
          /\ dayLock' \in [DayKeys -> Txs \cup {Free}]
        BY <1>0, <1>8 DEF Release, TxTypeOK
    <2> QED  BY <1>0, <1>8, <2>2, <2>3, <2>4, GotoType DEF Release, TxTypeOK
<1>9. CASE Commit(t)
    <2>1. IsFiniteSet(new[t]) /\ new[t] \subseteq Event
        BY <1>0, <1>9, NewFinite DEF Commit, TxTypeOK
    <2>2. events' \subseteq Event /\ IsFiniteSet(events')
        BY <1>0, <1>9, <2>1, FS_Union, ZenonT(30) DEF Commit, TxTypeOK, StoreTypeOK
    <2>3. counts' \in [Names \X Minutes -> Nat] /\ uniques' \in [Names \X Days -> SUBSET Users]
        BY <1>0, <1>9 DEF Commit, TxTypeOK, StoreTypeOK, MinuteKeys, DayKeys
    <2> QED  BY <1>0, <1>8, <1>9, <2>2, <2>3 DEF Commit, TxTypeOK, StoreTypeOK
<1>10. CASE Rollback(t)
    BY <1>0, <1>8, <1>10 DEF Rollback, TxTypeOK, StoreTypeOK, storeVars
<1> QED  BY <1>1, <1>2, <1>3, <1>4, <1>5, <1>6, <1>7, <1>9, <1>10 DEF TxStep

-----------------------------------------------------------------------------
(***************************************************************************)
(* The locks.  Guarded(t) is what the invariant says of one transaction.   *)
(***************************************************************************)
Guarded(t) ==
    WritesCurrent(t) /\ (tpc[t] # "idle" => NothingSkipped(t)) /\ HeldInOrder(t)

\* A transaction that does not move stays guarded while others take free locks
\* and commit what they have locked themselves.
LEMMA OthersGuarded ==
    ASSUME TxInv, NEW u \in Txs,
           /\ tpc'[u] = tpc[u] /\ todo'[u] = todo[u] /\ rows'[u] = rows[u] /\ new'[u] = new[u]
           /\ newCounts'[u] = newCounts[u] /\ newSketches'[u] = newSketches[u],
           \A i \in Ids : idLock'[i] = u <=> idLock[i] = u,
           \A k \in MinuteKeys : minuteLock'[k] = u <=> minuteLock[k] = u,
           \A k \in DayKeys : dayLock'[k] = u <=> dayLock[k] = u,
           StoredIds \subseteq StoredIds',
           \A i \in Ids : idLock[i] = u /\ i \notin StoredIds => i \notin StoredIds',
           \A k \in MinuteKeys : minuteLock[k] = u => counts'[k] = counts[k],
           \A k \in DayKeys : dayLock[k] = u => uniques'[k] = uniques[k]
    PROVE  Guarded(u)'
<1>1. Guarded(u) /\ new[u] \subseteq Event /\ rows[u] \subseteq Event
    BY ZenonT(30) DEF TxInv, LockInv, LocksInOrder, Guarded, TxTypeOK
<1>2. /\ \A e \in new[u] : e.id \in Ids /\ minuteKey(e) \in MinuteKeys
      /\ \A e \in rows[u] : uniqueKey(e) \in DayKeys
    BY <1>1, EventKeys
<1>3. WritesCurrent(u)'
    <2>1. \A e \in new'[u] : idLock'[e.id] = u /\ e.id \notin StoredIds'
        BY <1>1, <1>2 DEF Guarded, WritesCurrent
    <2>2. \A e, f \in new'[u] : e.id = f.id => e = f
        BY <1>1 DEF Guarded, WritesCurrent
    <2>3. \A k \in MinuteKeys : minuteLock'[k] = u =>
              newCounts'[u][k] = counts'[k] + Cardinality(RowsOf(new'[u], k))
        BY <1>1 DEF Guarded, WritesCurrent
    <2>4. \A k \in DayKeys : dayLock'[k] = u /\ k \notin todo'[u] =>
              newSketches'[u][k] = uniques'[k] \cup UsersOf(rows'[u], k)
        BY <1>1 DEF Guarded, WritesCurrent
    <2> QED  BY <2>1, <2>2, <2>3, <2>4 DEF WritesCurrent, RowsOf, UsersOf, minuteKey, uniqueKey
<1>4. tpc'[u] # "idle" => NothingSkipped(u)'
    BY <1>1, <1>2 DEF Guarded, NothingSkipped, IdsOf, minuteKey, uniqueKey
<1>5. HeldInOrder(u)'
    BY <1>1 DEF Guarded, HeldInOrder, FirstKey, KeyBefore, Before
<1> QED  BY <1>3, <1>4, <1>5 DEF Guarded

\* The others, at any step of a transaction.
LEMMA StepGuardsOthers ==
    ASSUME TxInv, NEW t \in Txs, TxStep(t), NEW u \in Txs \ {t}
    PROVE  Guarded(u)'
<1>0. TxTypeOK
    BY DEF TxInv
<1>1. /\ tpc'[u] = tpc[u] /\ todo'[u] = todo[u] /\ rows'[u] = rows[u] /\ new'[u] = new[u]
      /\ newCounts'[u] = newCounts[u] /\ newSketches'[u] = newSketches[u]
    BY <1>0, ZenonT(30) DEF TxStep, Begin, InsertRow, StartRollup, LockCounter, StartUniques,
       EnsureRow, SelectForUpdate, Commit, Rollback, Release, Goto, writeVars, TxTypeOK
<1>2. t # Free /\ u # Free
    BY TxAssumption
<1>3. \A i \in Ids : idLock'[i] = u <=> idLock[i] = u
    <2>1. CASE InsertRow(t)
        <3>1. \/ idLock' = idLock
              \/ \E j : idLock[j] = Free /\ idLock' = [idLock EXCEPT ![j] = t]
            BY <2>1 DEF InsertRow
        <3> QED  BY <1>0, <1>2, <3>1 DEF TxTypeOK
    <2>2. CASE idLock' = idLock \/ Release(t)
        BY <1>0, <1>2, <2>2 DEF Release, TxTypeOK
    <2> QED  BY <2>1, <2>2 DEF TxStep, Begin, InsertRow, StartRollup, LockCounter, StartUniques,
                EnsureRow, SelectForUpdate, Commit, Rollback, lockVars
<1>4. \A k \in MinuteKeys : minuteLock'[k] = u <=> minuteLock[k] = u
    <2>1. CASE LockCounter(t)
        <3>1. \/ minuteLock' = minuteLock
              \/ \E j : minuteLock[j] = Free /\ minuteLock' = [minuteLock EXCEPT ![j] = t]
            BY <2>1, ZenonT(30) DEF LockCounter
        <3> QED  BY <1>0, <1>2, <3>1 DEF TxTypeOK
    <2>2. CASE minuteLock' = minuteLock \/ Release(t)
        BY <1>0, <1>2, <2>2 DEF Release, TxTypeOK
    <2> QED  BY <2>1, <2>2, ZenonT(30) DEF TxStep, Begin, InsertRow, StartRollup, LockCounter,
                StartUniques, EnsureRow, SelectForUpdate, Commit, Rollback, lockVars
<1>5. \A k \in DayKeys : dayLock'[k] = u <=> dayLock[k] = u
    BY <1>0, <1>2, ZenonT(30) DEF TxStep, Begin, InsertRow, StartRollup, LockCounter,
       StartUniques, EnsureRow, SelectForUpdate, Commit, Rollback, Release, lockVars, TxTypeOK
<1>6. CASE UNCHANGED storeVars
    BY <1>1, <1>3, <1>4, <1>5, <1>6, OthersGuarded, ZenonT(30) DEF storeVars, StoredIds
<1>7. CASE Commit(t)
    <2>1. StoredIds' = StoredIds \cup IdsOf(new[t])
        BY <1>7 DEF Commit, StoredIds, IdsOf
    <2>2. \A i \in IdsOf(new[t]) : idLock[i] = t
        BY DEF TxInv, LockInv, WritesCurrent, IdsOf
    <2>3. \A i \in Ids : idLock[i] = u /\ i \notin StoredIds => i \notin StoredIds'
        BY <2>1, <2>2
    <2>4. /\ \A k \in MinuteKeys : minuteLock[k] = u => counts'[k] = counts[k]
          /\ \A k \in DayKeys : dayLock[k] = u => uniques'[k] = uniques[k]
        BY <1>7 DEF Commit
    <2> QED  BY <1>1, <1>3, <1>4, <1>5, <2>1, <2>3, <2>4, OthersGuarded
<1> QED  BY <1>6, <1>7 DEF TxStep, Begin, InsertRow, StartRollup, LockCounter, StartUniques,
            EnsureRow, SelectForUpdate, Rollback

\* The transaction that begins or ends.
LEMMA EndsGuarded ==
    ASSUME TxInv, NEW t \in Txs, (\E b \in Batches : Begin(t, b)) \/ Release(t)
    PROVE  Guarded(t)'
<1>0. TxTypeOK /\ Guarded(t) /\ t # Free
    BY TxAssumption DEF TxInv, LockInv, LocksInOrder, Guarded
<1>1. ASSUME NEW b \in Batches, Begin(t, b) PROVE Guarded(t)'
    <2>1. /\ tpc'[t] = "insert" /\ todo'[t] = IdsOf(b) /\ rows'[t] = b
          /\ UNCHANGED <<storeVars, new, idLock, minuteLock, dayLock>> /\ tpc[t] = "idle"
        BY <1>0, <1>1 DEF Begin, Goto, lockVars, TxTypeOK
    <2>2. /\ \A i \in Ids : idLock[i] # t
          /\ \A k \in MinuteKeys : minuteLock[k] # t
          /\ \A k \in DayKeys : dayLock[k] # t
        BY <1>0, <2>1 DEF Guarded, HeldInOrder
    <2>3. new[t] = {}
        BY <1>0, <2>2, EventKeys DEF Guarded, WritesCurrent, TxTypeOK
    <2>4. WritesCurrent(t)'
        BY <2>1, <2>2, <2>3 DEF WritesCurrent
    <2>5. NothingSkipped(t)'
        BY <2>1, <2>3 DEF NothingSkipped, IdsOf
    <2>6. HeldInOrder(t)'
        BY <2>1, <2>2 DEF HeldInOrder
    <2> QED  BY <2>4, <2>5, <2>6 DEF Guarded
<1>2. CASE Release(t)
    <2>1. tpc'[t] = "idle" /\ new'[t] = {}
        BY <1>0, <1>2 DEF Release, Goto, TxTypeOK
    <2>2. /\ \A i \in Ids : idLock'[i] # t
          /\ \A k \in MinuteKeys : minuteLock'[k] # t
          /\ \A k \in DayKeys : dayLock'[k] # t
        BY <1>0, <1>2, ZenonT(30) DEF Release
    <2> QED  BY <2>1, <2>2, ZenonT(30) DEF Guarded, WritesCurrent, HeldInOrder
<1> QED  BY <1>1, <1>2

\* A list has one first key.
LEMMA OneFirst ==
    ASSUME TxTypeOK, NEW t \in Txs, todo[t] \subseteq DayKeys,
           NEW k, NEW l, FirstKey(t, k), FirstKey(t, l)
    PROVE  k = l
<1>1. k \in Names \X Days /\ l \in Names \X Days
    BY DEF FirstKey, DayKeys
<1>2. Rank[k[1]] \in Nat /\ Rank[l[1]] \in Nat /\ k[2] \in Int /\ l[2] \in Int
    BY <1>1, TxAssumption, StoreAssumption DEF Days, Minutes
<1> QED  BY <1>2 DEF FirstKey, KeyBefore

\* insertBatchSQL, the raw rows.
LEMMA InsertGuarded ==
    ASSUME TxInv, NEW t \in Txs, InsertRow(t)
    PROVE  Guarded(t)'
<1>0. TxTypeOK /\ Guarded(t) /\ t # Free /\ tpc[t] = "insert"
    BY TxAssumption DEF TxInv, LockInv, LocksInOrder, Guarded, InsertRow
<1>1. PICK i \in todo[t] \ Unstorable :
          /\ FirstId(t, i) /\ idLock[i] = Free
          /\ Goto(t, "insert", todo[t] \ {i})
          /\ \/ i \in StoredIds /\ UNCHANGED <<new, idLock>>
             \/ /\ i \notin StoredIds
                /\ idLock' = [idLock EXCEPT ![i] = t]
                /\ \E e \in rows[t] : e.id = i /\ new' = [new EXCEPT ![t] = @ \cup {e}]
    BY DEF InsertRow
<1>2. /\ tpc'[t] = "insert" /\ todo'[t] = todo[t] \ {i} /\ i \in Ids
      /\ UNCHANGED <<storeVars, rows, minuteLock, dayLock>> /\ StoredIds' = StoredIds
    BY <1>0, <1>1 DEF InsertRow, Goto, TxTypeOK, storeVars, StoredIds
<1>3. /\ \A k \in MinuteKeys : minuteLock[k] # t
      /\ \A k \in DayKeys : dayLock[k] # t
    BY <1>0, ZenonT(30) DEF Guarded, HeldInOrder
<1>4. /\ new[t] \subseteq rows[t] /\ rows[t] \in Batches
      /\ \A e \in rows[t] : e.id \in todo[t] \/ (e.id \notin Unstorable /\ e.id \in StoredIds \cup IdsOf(new[t]))
    BY <1>0 DEF Guarded, NothingSkipped
<1>5. \A e \in new[t] : idLock[e.id] = t /\ e.id \notin StoredIds /\ e.id \in Ids
    BY <1>0, EventKeys DEF Guarded, WritesCurrent, TxTypeOK
<1>6. CASE i \in StoredIds /\ UNCHANGED <<new, idLock>>
    <2>1. WritesCurrent(t)'
        BY <1>0, <1>2, <1>3, <1>6 DEF Guarded, WritesCurrent
    <2>2. NothingSkipped(t)'
        BY <1>1, <1>2, <1>4, <1>6 DEF NothingSkipped, IdsOf
    <2>3. HeldInOrder(t)'
        BY <1>0, <1>2, <1>3, <1>6 DEF Guarded, HeldInOrder
    <2> QED  BY <2>1, <2>2, <2>3 DEF Guarded
<1>7. CASE i \notin StoredIds /\ idLock' = [idLock EXCEPT ![i] = t]
    <2>1. PICK e \in rows[t] : e.id = i /\ new'[t] = new[t] \cup {e}
        BY <1>0, <1>1, <1>5, <1>7, ZenonT(30) DEF TxTypeOK
    <2>2. idLock'[i] = t /\ \A j \in Ids \ {i} : idLock'[j] = idLock[j]
        BY <1>0, <1>2, <1>7 DEF TxTypeOK
    <2>3. WritesCurrent(t)'
        <3>1. \A f \in new'[t] : idLock'[f.id] = t /\ f.id \notin StoredIds'
            BY <1>2, <1>5, <1>7, <2>1, <2>2
        <3>2. \A f, g \in new'[t] : f.id = g.id => f = g
            <4>1. \A f, g \in new[t] : f.id = g.id => f = g
                BY <1>0 DEF Guarded, WritesCurrent
            <4>2. \A f \in new[t] : f.id # i
                BY <1>0, <1>1, <1>5
            <4> QED  BY <2>1, <4>1, <4>2
        <3> QED  BY <1>2, <1>3, <3>1, <3>2 DEF WritesCurrent
    <2>4. NothingSkipped(t)'
        <3>1. new'[t] \subseteq rows'[t] /\ rows'[t] \in Batches
            BY <1>2, <1>4, <2>1
        <3>2. ASSUME NEW f \in rows[t]
              PROVE  \/ f.id \in todo'[t]
                     \/ f.id \notin Unstorable /\ f.id \in StoredIds \cup IdsOf(new'[t])
            <4>1. CASE f.id = i
                BY <1>1, <2>1, <4>1 DEF IdsOf
            <4>2. CASE f.id # i
                BY <1>2, <1>4, <2>1, <4>2 DEF IdsOf
            <4> QED  BY <4>1, <4>2
        <3> QED  BY <1>2, <3>1, <3>2 DEF NothingSkipped, IdsOf
    <2>5. \A j \in Ids : idLock'[j] = t => \A l \in todo'[t] : Before(j, l)
        BY <1>0, <1>1, <1>2, <2>2, ZenonT(30) DEF Guarded, HeldInOrder, FirstId
    <2>6. HeldInOrder(t)'
        BY <1>2, <1>3, <2>5, ZenonT(30) DEF HeldInOrder, Before
    <2> QED  BY <2>3, <2>4, <2>6 DEF Guarded
<1> QED  BY <1>1, <1>6, <1>7

\* insertBatchSQL, the counters.
LEMMA RollupGuarded ==
    ASSUME TxInv, NEW t \in Txs, StartRollup(t) \/ LockCounter(t)
    PROVE  Guarded(t)'
<1>0. TxTypeOK /\ Guarded(t) /\ t # Free
    BY TxAssumption DEF TxInv, LockInv, LocksInOrder, Guarded
<1>1. /\ UNCHANGED <<storeVars, rows, new, idLock, dayLock>> /\ StoredIds' = StoredIds
      /\ tpc'[t] = "rollup" /\ tpc[t] \in {"insert", "rollup"}
      /\ \A k \in DayKeys : dayLock[k] # t
    BY <1>0 DEF StartRollup, LockCounter, Goto, lockVars, storeVars, StoredIds, TxTypeOK,
       Guarded, HeldInOrder
<1>2. CASE StartRollup(t)
    <2>1. todo'[t] = {minuteKey(e) : e \in new[t]} /\ tpc[t] = "insert" /\ todo[t] = {}
          /\ UNCHANGED <<minuteLock, newCounts>> /\ \A k \in MinuteKeys : minuteLock[k] # t
        BY <1>0, <1>2 DEF StartRollup, Goto, lockVars, writeVars, TxTypeOK, Guarded, HeldInOrder
    <2>2. WritesCurrent(t)'
        BY <1>0, <1>1, <2>1 DEF Guarded, WritesCurrent
    <2>3. NothingSkipped(t)'
        BY <1>0, <1>1, <2>1, ZenonT(30) DEF Guarded, NothingSkipped, IdsOf, minuteKey
    <2>4. HeldInOrder(t)'
        BY <1>1, <2>1 DEF HeldInOrder
    <2> QED  BY <2>2, <2>3, <2>4 DEF Guarded
<1>3. CASE LockCounter(t)
    <2>1. PICK k \in todo[t] :
              /\ FirstKey(t, k) /\ minuteLock[k] = Free
              /\ Goto(t, "rollup", todo[t] \ {k})
              /\ minuteLock' = [minuteLock EXCEPT ![k] = t]
              /\ newCounts' = [newCounts EXCEPT ![t] =
                     [newCounts[t] EXCEPT ![k] = counts[k] + Cardinality(RowsOf(new[t], k))]]
        BY <1>3, ZenonT(30) DEF LockCounter
    <2>2. tpc[t] = "rollup" /\ k \in MinuteKeys /\ todo'[t] = todo[t] \ {k}
        BY <1>0, <1>3, <2>1 DEF LockCounter, Goto, TxTypeOK
    <2>3. minuteLock'[k] = t /\ \A l \in MinuteKeys \ {k} : minuteLock'[l] = minuteLock[l]
        BY <1>0, <2>1, <2>2, ZenonT(30) DEF TxTypeOK
    <2>4. /\ newCounts'[t][k] = counts[k] + Cardinality(RowsOf(new[t], k))
          /\ \A l \in MinuteKeys \ {k} : newCounts'[t][l] = newCounts[t][l]
        BY <1>0, <2>1, <2>2, ZenonT(30) DEF TxTypeOK
    <2>5. \A l \in MinuteKeys : minuteLock'[l] = t =>
              newCounts'[t][l] = counts[l] + Cardinality(RowsOf(new[t], l))
        BY <1>0, <2>3, <2>4, ZenonT(30) DEF Guarded, WritesCurrent
    <2>6. WritesCurrent(t)'
        <3>1. \A l : RowsOf(new[t], l)' = RowsOf(new[t], l)
            BY <1>1 DEF RowsOf, minuteKey
        <3>2. counts' = counts
            BY <1>1 DEF storeVars
        <3>3. \A l \in MinuteKeys : minuteLock'[l] = t =>
                  newCounts'[t][l] = counts'[l] + Cardinality(RowsOf(new'[t], l))
            BY <1>1, <2>5, <3>2
        <3> QED  BY <1>0, <1>1, <3>3 DEF Guarded, WritesCurrent, RowsOf, minuteKey
    <2>7. NothingSkipped(t)'
        BY <1>0, <1>1, <2>2, <2>3, EventKeys, ZenonT(30) DEF Guarded, NothingSkipped, IdsOf,
           minuteKey, TxTypeOK
    <2>8. HeldInOrder(t)'
        <3>1. \A l \in MinuteKeys : minuteLock'[l] = t => \A m \in todo'[t] : KeyBefore(l, m)
            BY <1>0, <2>1, <2>2, <2>3 DEF Guarded, HeldInOrder, FirstKey
        <3> QED  BY <1>1, <3>1, ZenonT(30) DEF HeldInOrder, KeyBefore
    <2> QED  BY <2>6, <2>7, <2>8 DEF Guarded
<1> QED  BY <1>2, <1>3

\* updateUniques.
LEMMA UniquesGuarded ==
    ASSUME TxInv, NEW t \in Txs, StartUniques(t) \/ EnsureRow(t) \/ SelectForUpdate(t)
    PROVE  Guarded(t)'
<1>0. TxTypeOK /\ Guarded(t) /\ t # Free
    BY TxAssumption DEF TxInv, LockInv, LocksInOrder, Guarded
<1>1. /\ UNCHANGED <<storeVars, rows, new, idLock, minuteLock, newCounts>> /\ StoredIds' = StoredIds
      /\ tpc'[t] \in {"ensure", "select"} /\ tpc[t] \in {"rollup", "ensure", "select"}
    BY <1>0, ZenonT(30) DEF StartUniques, EnsureRow, SelectForUpdate, Goto, lockVars, storeVars,
       writeVars, StoredIds, TxTypeOK
<1>2. CASE StartUniques(t)
    <2>1. todo'[t] = {uniqueKey(e) : e \in {r \in rows[t] : r.user # NoUser}} /\ tpc[t] = "rollup"
          /\ todo[t] = {} /\ UNCHANGED <<dayLock, newSketches>> /\ \A k \in DayKeys : dayLock[k] # t
        BY <1>0, <1>2 DEF StartUniques, Goto, lockVars, writeVars, TxTypeOK, Guarded, HeldInOrder
    <2>2. WritesCurrent(t)'
        BY <1>0, <1>1, <2>1, ZenonT(30) DEF Guarded, WritesCurrent, RowsOf, minuteKey, storeVars
    <2>3. NothingSkipped(t)'
        BY <1>0, <1>1, <2>1, ZenonT(30) DEF Guarded, NothingSkipped, IdsOf, minuteKey, uniqueKey
    <2>4. HeldInOrder(t)'
        BY <1>1, <2>1, ZenonT(30) DEF HeldInOrder
    <2> QED  BY <2>2, <2>3, <2>4 DEF Guarded
<1>3. CASE EnsureRow(t)
    <2>1. PICK k \in todo[t] :
              /\ FirstKey(t, k)
              /\ UNCHANGED dayLock \/ (dayLock[k] = Free /\ dayLock' = [dayLock EXCEPT ![k] = t])
        BY <1>3 DEF EnsureRow
    <2>2. /\ tpc[t] = "ensure" /\ tpc'[t] = "select" /\ todo'[t] = todo[t] /\ k \in DayKeys
          /\ UNCHANGED newSketches
        BY <1>0, <1>3 DEF EnsureRow, Goto, TxTypeOK, writeVars
    <2>3. \A l \in DayKeys : l # k => dayLock'[l] = dayLock[l]
        BY <1>0, <2>1, <2>2, ZenonT(30) DEF TxTypeOK
    <2>4. \A l \in DayKeys : dayLock[l] = t => dayLock'[l] = t
        BY <1>0, <2>1, <2>2, ZenonT(30) DEF TxTypeOK
    <2>5. WritesCurrent(t)'
        BY <1>0, <1>1, <2>2, <2>3 DEF Guarded, WritesCurrent, RowsOf, minuteKey, UsersOf,
           uniqueKey, storeVars
    <2>6. NothingSkipped(t)'
        BY <1>0, <1>1, <2>2, <2>4, EventKeys, ZenonT(30) DEF Guarded, NothingSkipped, IdsOf,
           minuteKey, uniqueKey, TxTypeOK
    <2>7. HeldInOrder(t)'
        <3>1. \A l \in DayKeys : dayLock'[l] = t =>
                  \A m \in todo[t] : KeyBefore(l, m) \/ FirstKey(t, l)
            BY <1>0, <2>1, <2>2, <2>3, ZenonT(30) DEF Guarded, HeldInOrder
        <3> QED  BY <1>1, <2>2, <3>1, ZenonT(30) DEF HeldInOrder, KeyBefore, FirstKey
    <2> QED  BY <2>5, <2>6, <2>7, ZenonT(30) DEF Guarded
<1>4. CASE SelectForUpdate(t)
    <2>1. PICK k \in todo[t] :
              /\ FirstKey(t, k) /\ dayLock[k] \in {Free, t}
              /\ Goto(t, "ensure", todo[t] \ {k})
              /\ dayLock' = [dayLock EXCEPT ![k] = t]
              /\ newSketches' = [newSketches EXCEPT ![t] =
                     [newSketches[t] EXCEPT ![k] = uniques[k] \cup UsersOf(rows[t], k)]]
        BY <1>4, ZenonT(30) DEF SelectForUpdate
    <2>2. /\ tpc[t] = "select" /\ tpc'[t] = "ensure" /\ todo'[t] = todo[t] \ {k} /\ k \in DayKeys
          /\ todo[t] \subseteq DayKeys
        BY <1>0, <1>4, <2>1, ZenonT(30) DEF SelectForUpdate, Goto, TxTypeOK
    <2>3. dayLock'[k] = t /\ \A l \in DayKeys \ {k} : dayLock'[l] = dayLock[l]
        BY <1>0, <2>1, <2>2, ZenonT(30) DEF TxTypeOK
    <2>4. /\ newSketches'[t][k] = uniques[k] \cup UsersOf(rows[t], k)
          /\ \A l \in DayKeys \ {k} : newSketches'[t][l] = newSketches[t][l]
        BY <1>0, <2>1, <2>2, ZenonT(30) DEF TxTypeOK
    <2>5. \A l \in DayKeys : dayLock'[l] = t /\ l \notin todo'[t] =>
              newSketches'[t][l] = uniques[l] \cup UsersOf(rows[t], l)
        BY <1>0, <2>2, <2>3, <2>4, ZenonT(30) DEF Guarded, WritesCurrent
    <2>6. WritesCurrent(t)'
        BY <1>0, <1>1, <2>5, ZenonT(30) DEF Guarded, WritesCurrent, RowsOf, minuteKey, UsersOf,
           uniqueKey, storeVars
    <2>7. NothingSkipped(t)'
        BY <1>0, <1>1, <2>2, <2>3, EventKeys, ZenonT(30) DEF Guarded, NothingSkipped, IdsOf,
           minuteKey, uniqueKey, TxTypeOK
    <2>8. HeldInOrder(t)'
        <3>1. ASSUME NEW l \in DayKeys, dayLock'[l] = t, NEW m \in todo'[t] PROVE KeyBefore(l, m)
            <4>1. CASE l = k
                BY <2>1, <2>2, <4>1 DEF FirstKey
            <4>2. CASE l # k
                BY <1>0, <2>1, <2>2, <2>3, <3>1, <4>2, OneFirst DEF Guarded, HeldInOrder
            <4> QED  BY <4>1, <4>2, ZenonT(30)
        <3> QED  BY <1>1, <2>2, <3>1, ZenonT(30) DEF HeldInOrder, KeyBefore
    <2> QED  BY <2>6, <2>7, <2>8, ZenonT(30) DEF Guarded
<1> QED  BY <1>2, <1>3, <1>4

-----------------------------------------------------------------------------
\* The empty tables and no transaction.
LEMMA TxInitInv == TxInit => TxInv
<1> SUFFICES ASSUME TxInit PROVE TxInv
    OBVIOUS
<1>1. StoreTypeOK
    BY FS_EmptySet, ZenonT(30) DEF TxInit, StoreInit, StoreTypeOK
<1>2. NoCounts \in [MinuteKeys -> Nat] /\ NoSketches \in [DayKeys -> SUBSET Users]
    BY DEF NoCounts, NoSketches
<1>3. TxTypeOK
    BY <1>1, <1>2 DEF TxInit, TxTypeOK
<1>4. ASSUME NEW t \in Txs
      PROVE  WritesCurrent(t) /\ tpc[t] = "idle" /\ HeldInOrder(t)
    BY TxAssumption, ZenonT(30) DEF TxInit, WritesCurrent, HeldInOrder
<1> QED  BY <1>3, <1>4 DEF TxInv, LockInv, LocksInOrder

\* Every step keeps the types, the locks and their order.
LEMMA TxInvStep == TxInv /\ [TxNext]_txVars => TxInv'
<1> SUFFICES ASSUME TxInv, [TxNext]_txVars PROVE TxInv'
    OBVIOUS
<1>1. ASSUME NEW t \in Txs, TxStep(t) PROVE TxInv'
    <2>1. Guarded(t)'
        BY <1>1, EndsGuarded, InsertGuarded, RollupGuarded, UniquesGuarded DEF TxStep, Commit,
           Rollback
    <2>2. \A u \in Txs \ {t} : Guarded(u)'
        BY <1>1, StepGuardsOthers
    <2>3. TxTypeOK'
        BY <1>1, TxType
    <2> QED  BY <2>1, <2>2, <2>3, ZenonT(30) DEF Guarded, TxInv, LockInv, LocksInOrder
<1>2. CASE UNCHANGED txVars
    <2>1. \A u \in Txs : Guarded(u)'
        BY <1>2, OthersGuarded DEF txVars, storeVars, lockVars, writeVars, StoredIds
    <2>2. TxTypeOK'
        BY <1>2 DEF TxInv, TxTypeOK, StoreTypeOK, txVars, storeVars, lockVars, writeVars
    <2> QED  BY <2>1, <2>2 DEF Guarded, TxInv, LockInv, LocksInOrder
<1> QED  BY <1>1, <1>2 DEF TxNext, AllEnded

\* A commit is an InsertBatch of the transaction's batch.
LEMMA CommitInserts ==
    ASSUME TxInv, NEW t \in Txs, Commit(t)
    PROVE  rows[t] \in Batches /\ InsertBatch(rows[t], new[t])
<1>0. /\ TxTypeOK /\ WritesCurrent(t) /\ NothingSkipped(t)
      /\ tpc[t] = "ensure" /\ todo[t] = {}
    BY ZenonT(30) DEF TxInv, LockInv, Commit
<1>1. Storable(rows[t]) /\ new[t] \in InsertedRows(rows[t])
    <2>1. \A e \in rows[t] : e.id \notin Unstorable /\ e.id \in StoredIds \cup IdsOf(new[t])
        BY <1>0 DEF NothingSkipped
    <2>2. Storable(rows[t]) /\ IdsOf(rows[t]) \subseteq StoredIds \cup IdsOf(new[t])
        BY <2>1 DEF Storable, IdsOf
    <2>3. new[t] \subseteq rows[t] /\ IdsOf(new[t]) \cap StoredIds = {}
        BY <1>0 DEF WritesCurrent, NothingSkipped, IdsOf
    <2>4. \A e, f \in new[t] : e.id = f.id => e = f
        BY <1>0, ZenonT(30) DEF WritesCurrent
    <2> QED  BY <2>2, <2>3, <2>4, ZenonT(30) DEF InsertedRows
<1>2. counts' = Rolled(new[t])
    <2>1. ASSUME NEW k \in MinuteKeys
          PROVE  counts'[k] = counts[k] + Cardinality(RowsOf(new[t], k))
        <3>1. CASE minuteLock[k] = t
            BY <1>0, <3>1 DEF Commit, WritesCurrent
        <3>2. CASE minuteLock[k] # t
            <4>1. RowsOf(new[t], k) = {}
                BY <1>0, <3>2, ZenonT(30) DEF RowsOf, NothingSkipped
            <4>2. Cardinality({}) = 0 /\ counts[k] \in Nat
                BY <1>0, FS_EmptySet DEF TxTypeOK, StoreTypeOK, MinuteKeys
            <4>3. counts'[k] = counts[k]
                BY <3>2 DEF Commit
            <4> QED  BY <4>1, <4>2, <4>3
        <3> QED  BY <3>1, <3>2
    <2> QED  BY <2>1, ZenonT(30) DEF Commit, Rolled, MinuteKeys
<1>3. uniques' = updateUniques(rows[t])
    <2>1. ASSUME NEW k \in DayKeys
          PROVE  uniques'[k] = uniques[k] \cup UsersOf(rows[t], k)
        <3>1. CASE dayLock[k] = t
            BY <1>0, <3>1, ZenonT(30) DEF Commit, WritesCurrent
        <3>2. CASE dayLock[k] # t
            <4>1. UsersOf(rows[t], k) = {}
                BY <1>0, <3>2, StoreAssumption DEF UsersOf, NothingSkipped
            <4> QED  BY <3>2, <4>1, ZenonT(30) DEF Commit
        <3> QED  BY <3>1, <3>2
    <2> QED  BY <2>1 DEF Commit, updateUniques, DayKeys
<1> QED  BY <1>0, <1>1, <1>2, <1>3, ZenonT(30) DEF NothingSkipped, InsertBatch, Commit

\* The transactions of InsertBatch, run concurrently on any batches, implement
\* the atomic InsertBatch of module Store: everything proved of Store holds of
\* them.
THEOREM TxImplements == TxSpec => ImplementsStore
<1>1. TxInit => TxInv /\ StoreInit
    BY TxInitInv DEF TxInit
<1>2. TxInv /\ [TxNext]_txVars => TxInv'
    BY TxInvStep
<1>3. TxInv /\ [TxNext]_txVars => [StoreNext]_storeVars
    <2> SUFFICES ASSUME TxInv, [TxNext]_txVars, storeVars' # storeVars PROVE StoreNext
        OBVIOUS
    <2>1. PICK t \in Txs : Commit(t)
        BY ZenonT(30) DEF TxNext, TxStep, AllEnded, Begin, InsertRow, StartRollup, LockCounter,
           StartUniques, EnsureRow, SelectForUpdate, Rollback, txVars
    <2>2. new[t] \subseteq rows[t]
        BY <2>1, ZenonT(30) DEF TxInv, LockInv, NothingSkipped, Commit
    <2> QED  BY <2>1, <2>2, CommitInserts DEF StoreNext
<1> QED  BY <1>1, <1>2, <1>3, PTL DEF TxSpec, ImplementsStore, StoreSpec

\* What an open transaction is about to write is what InsertBatch would write at
\* that moment: the row locks protect it until the commit.
THEOREM TxLocksGuard == TxSpec => [](TxTypeOK /\ LockInv)
<1>1. TxInv => TxTypeOK /\ LockInv
    BY DEF TxInv
<1> QED  BY <1>1, TxInitInv, TxInvStep, PTL DEF TxSpec

\* Row locks are taken in one order by all transactions, so that they queue
\* and never wait for each other in a circle.
THEOREM TxLocksInOrder == TxSpec => []LocksInOrder
<1>1. TxInit => TxInv
    BY TxInitInv
<1>2. TxInv /\ [TxNext]_txVars => TxInv'
    BY TxInvStep
<1>3. TxInv => LocksInOrder
    BY DEF TxInv
<1> QED  BY <1>1, <1>2, <1>3, PTL DEF TxSpec

-----------------------------------------------------------------------------
(***************************************************************************)
(* No deadlock.  A transaction that asks for a lock stands at a place in   *)
(* the order of the locks; one that waits stands before the one it waits   *)
(* for, if that one waits too.                                             *)
(***************************************************************************)
Stage(t) == IF tpc[t] = "insert" THEN 1 ELSE IF tpc[t] = "rollup" THEN 2 ELSE 3

Ahead(t, u) ==
    \/ Stage(t) < Stage(u)
    \/ /\ Stage(t) = 1 /\ Stage(u) = 1
       /\ \E i, j \in Ids : FirstId(t, i) /\ FirstId(u, j) /\ Before(i, j)
    \/ /\ Stage(t) = Stage(u) /\ Stage(t) # 1
       /\ \E k, l \in Names \X Nat : FirstKey(t, k) /\ FirstKey(u, l) /\ KeyBefore(k, l)

\* The orders of ids and of keys are strict.
LEMMA OrdersStrict ==
    /\ \A i \in Ids : ~Before(i, i)
    /\ \A i, j, m \in Ids : Before(i, j) /\ Before(j, m) => Before(i, m)
    /\ \A k \in Names \X Nat : ~KeyBefore(k, k)
    /\ \A k, l, m \in Names \X Nat : KeyBefore(k, l) /\ KeyBefore(l, m) => KeyBefore(k, m)
<1>1. /\ \A i \in Ids : Rank[i] \in Nat
      /\ \A n \in Names : Rank[n] \in Nat
    BY TxAssumption
<1>2. \A k \in Names \X Nat : k[1] \in Names /\ k[2] \in Nat
    OBVIOUS
<1>3. /\ \A i \in Ids : ~Before(i, i)
      /\ \A i, j, m \in Ids : Before(i, j) /\ Before(j, m) => Before(i, m)
    BY <1>1 DEF Before
<1>4. \A k \in Names \X Nat : ~KeyBefore(k, k)
    BY <1>1, <1>2 DEF KeyBefore
<1>5. ASSUME NEW k \in Names \X Nat, NEW l \in Names \X Nat, NEW m \in Names \X Nat,
             KeyBefore(k, l), KeyBefore(l, m)
      PROVE  KeyBefore(k, m)
    <2>1. /\ Rank[k[1]] \in Nat /\ Rank[l[1]] \in Nat /\ Rank[m[1]] \in Nat
          /\ k[2] \in Nat /\ l[2] \in Nat /\ m[2] \in Nat
        BY <1>1, <1>2
    <2> QED  BY <1>5, <2>1 DEF KeyBefore
<1> QED  BY <1>3, <1>4, <1>5

\* A statement locks one key next.
LEMMA OneFirstOf ==
    ASSUME NEW t \in Txs
    PROVE  /\ \A i, j \in Ids : FirstId(t, i) /\ FirstId(t, j) => i = j
           /\ \A k, l \in Names \X Nat : FirstKey(t, k) /\ FirstKey(t, l) => k = l
<1>1. ASSUME NEW i \in Ids, NEW j \in Ids, FirstId(t, i), FirstId(t, j), i # j PROVE FALSE
    <2>1. Before(i, j) /\ Before(j, i)
        BY <1>1 DEF FirstId
    <2> QED  BY <2>1, OrdersStrict
<1>2. ASSUME NEW k \in Names \X Nat, NEW l \in Names \X Nat,
             FirstKey(t, k), FirstKey(t, l), k # l
      PROVE  FALSE
    <2>1. KeyBefore(k, l) /\ KeyBefore(l, k)
        BY <1>2 DEF FirstKey
    <2> QED  BY <2>1, OrdersStrict
<1> QED  BY <1>1, <1>2

\* Standing ahead is a strict order of the transactions.
LEMMA AheadStrict ==
    /\ \A t \in Txs : ~Ahead(t, t)
    /\ \A t, u, v \in Txs : Ahead(t, u) /\ Ahead(u, v) => Ahead(t, v)
<1>1. \A t \in Txs : Stage(t) \in 1 .. 3
    BY DEF Stage
<1>2. ASSUME NEW t \in Txs, Ahead(t, t) PROVE FALSE
    <2>1. ~(Stage(t) < Stage(t))
        BY <1>1
    <2>2. ASSUME NEW i \in Ids, NEW j \in Ids, FirstId(t, i), FirstId(t, j), Before(i, j)
          PROVE  FALSE
        BY <2>2, OneFirstOf, OrdersStrict
    <2>3. ASSUME NEW k \in Names \X Nat, NEW l \in Names \X Nat,
                 FirstKey(t, k), FirstKey(t, l), KeyBefore(k, l)
          PROVE  FALSE
        BY <2>3, OneFirstOf, OrdersStrict
    <2> QED  BY <1>2, <2>1, <2>2, <2>3 DEF Ahead
<1>3. ASSUME NEW t \in Txs, NEW u \in Txs, NEW v \in Txs, Ahead(t, u), Ahead(u, v)
      PROVE  Ahead(t, v)
    <2>1. Stage(t) <= Stage(u) /\ Stage(u) <= Stage(v)
        BY <1>1, <1>3 DEF Ahead
    <2>2. CASE Stage(t) < Stage(v)
        BY <2>2 DEF Ahead
    <2>3. CASE Stage(t) = Stage(v)
        <3>1. Stage(t) = Stage(u) /\ ~(Stage(t) < Stage(u)) /\ ~(Stage(u) < Stage(v))
            BY <1>1, <2>1, <2>3
        <3>2. CASE Stage(t) = 1
            <4>1. PICK i \in Ids, j \in Ids : FirstId(t, i) /\ FirstId(u, j) /\ Before(i, j)
                BY <1>3, <3>1, <3>2 DEF Ahead
            <4>2. PICK m \in Ids, n \in Ids : FirstId(u, m) /\ FirstId(v, n) /\ Before(m, n)
                BY <1>3, <3>1, <3>2 DEF Ahead
            <4>3. j = m
                BY <4>1, <4>2, OneFirstOf
            <4>4. Before(i, n)
                BY <4>1, <4>2, <4>3, OrdersStrict
            <4> QED  BY <2>3, <3>2, <4>1, <4>2, <4>4 DEF Ahead
        <3>3. CASE Stage(t) # 1
            <4>1. PICK k \in Names \X Nat, l \in Names \X Nat :
                    FirstKey(t, k) /\ FirstKey(u, l) /\ KeyBefore(k, l)
                BY <1>3, <3>1, <3>3 DEF Ahead
            <4>2. PICK m \in Names \X Nat, n \in Names \X Nat :
                    FirstKey(u, m) /\ FirstKey(v, n) /\ KeyBefore(m, n)
                BY <1>3, <3>1, <3>3 DEF Ahead
            <4>3. l = m
                BY <4>1, <4>2, OneFirstOf
            <4>4. KeyBefore(k, n)
                BY <4>1, <4>2, <4>3, OrdersStrict
            <4> QED  BY <2>3, <3>3, <4>1, <4>2, <4>4 DEF Ahead
        <3> QED  BY <3>2, <3>3
    <2>4. Stage(t) < Stage(v) \/ Stage(t) = Stage(v)
        BY <1>1, <2>1
    <2> QED  BY <2>2, <2>3, <2>4
<1> QED  BY <1>2, <1>3

\* The keys of both aggregate tables are a name and a number.
LEMMA KeysNumbered == MinuteKeys \subseteq Names \X Nat /\ DayKeys \subseteq Names \X Nat
<1>1. Minutes \subseteq Nat
    BY DEF Minutes
<1>2. \A m \in Minutes : m \div MinutesPerDay \in Nat
    BY <1>1, StoreAssumption
<1> QED  BY <1>1, <1>2 DEF MinuteKeys, DayKeys, Days

\* A transaction waits for one that holds the lock it asks for; that one holds no
\* lock after those it asks for itself.
LEMMA WaitsAhead ==
    ASSUME TxTypeOK, LocksInOrder, NEW t \in Txs, NEW u \in Txs, NEW v \in Txs,
           WaitsFor(t, u), WaitsFor(u, v)
    PROVE  Ahead(t, u)
<1>1. HeldInOrder(u) /\ u # v /\ tpc[u] \in {"insert", "rollup", "ensure", "select"}
    BY DEF LocksInOrder, WaitsFor
<1>2. /\ tpc[t] = "insert" => todo[t] \subseteq Ids
      /\ tpc[t] = "rollup" => todo[t] \subseteq MinuteKeys
      /\ tpc[t] \in {"ensure", "select"} => todo[t] \subseteq DayKeys
      /\ tpc[u] = "insert" => todo[u] \subseteq Ids
      /\ tpc[u] = "rollup" => todo[u] \subseteq MinuteKeys
      /\ tpc[u] \in {"ensure", "select"} => todo[u] \subseteq DayKeys
    BY DEF TxTypeOK
<1>3. CASE tpc[t] = "insert"
    <2>1. PICK i \in Ids : FirstId(t, i) /\ idLock[i] = u
        BY <1>2, <1>3 DEF WaitsFor
    <2>2. CASE tpc[u] = "insert"
        <3>1. PICK j \in Ids : j \in todo[u] /\ FirstId(u, j)
            BY <1>2, <2>2 DEF WaitsFor
        <3>2. Before(i, j)
            BY <1>1, <2>1, <2>2, <3>1 DEF HeldInOrder
        <3> QED  BY <1>3, <2>1, <2>2, <3>1, <3>2 DEF Ahead, Stage
    <2>3. CASE tpc[u] # "insert"
        BY <1>3, <2>3 DEF Ahead, Stage
    <2> QED  BY <2>2, <2>3
<1>4. CASE tpc[t] = "rollup"
    <2>1. PICK k \in MinuteKeys : FirstKey(t, k) /\ minuteLock[k] = u
        BY <1>2, <1>4 DEF WaitsFor
    <2>2. CASE tpc[u] = "rollup"
        <3>1. PICK l \in MinuteKeys : l \in todo[u] /\ FirstKey(u, l)
            BY <1>2, <2>2 DEF WaitsFor
        <3>2. KeyBefore(k, l)
            BY <1>1, <2>1, <2>2, <3>1 DEF HeldInOrder
        <3>3. Stage(t) = Stage(u) /\ Stage(t) # 1
            BY <1>4, <2>2 DEF Stage
        <3> QED  BY <2>1, <3>1, <3>2, <3>3, KeysNumbered DEF Ahead
    <2>3. CASE tpc[u] # "rollup"
        <3>1. tpc[u] # "insert"
            BY <1>1, <2>1 DEF HeldInOrder
        <3> QED  BY <1>4, <2>3, <3>1 DEF Ahead, Stage
    <2> QED  BY <2>2, <2>3
<1>5. CASE tpc[t] \in {"ensure", "select"}
    <2>1. PICK k \in DayKeys : FirstKey(t, k) /\ dayLock[k] = u
        BY <1>2, <1>5 DEF WaitsFor
    <2>2. tpc[u] \in {"ensure", "select"}
        BY <1>1, <2>1 DEF HeldInOrder
    <2>3. PICK l \in DayKeys : l \in todo[u] /\ FirstKey(u, l) /\ dayLock[l] = v
        BY <1>2, <2>2 DEF WaitsFor
    <2>4. KeyBefore(k, l) \/ FirstKey(u, k)
        BY <1>1, <2>1, <2>2, <2>3 DEF HeldInOrder
    <2>5. ~FirstKey(u, k)
        BY <1>1, <2>1, <2>3, OneFirstOf, KeysNumbered
    <2>6. Stage(t) = Stage(u) /\ Stage(t) # 1
        BY <1>5, <2>2 DEF Stage
    <2> QED  BY <2>1, <2>3, <2>4, <2>5, <2>6, KeysNumbered DEF Ahead
<1> QED  BY <1>3, <1>4, <1>5 DEF WaitsFor

\* Concurrent InsertBatch calls never deadlock, whatever ids, minutes and days their
\* batches share: no set of transactions has every one waiting for another of them.
THEOREM TxNoDeadlock == TxSpec => []NoDeadlock
<1>1. TxTypeOK /\ LocksInOrder => NoDeadlock
    <2> SUFFICES ASSUME TxTypeOK, LocksInOrder, NEW S \in SUBSET Txs, S # {},
                        \A t \in S : \E u \in S : WaitsFor(t, u)
                 PROVE  FALSE
        BY DEF NoDeadlock
    <2> DEFINE R == {p \in Txs \X Txs : Ahead(p[1], p[2])}
    <2>1. \A t, u \in Txs : <<t, u>> \in R <=> Ahead(t, u)
        OBVIOUS
    <2>2. IsFiniteSet(Txs)
        BY TxAssumption
    <2> HIDE DEF R
    <2>3. /\ \A t \in Txs : <<t, t>> \notin R
          /\ \A t, u, v \in Txs : <<t, u>> \in R /\ <<u, v>> \in R => <<t, v>> \in R
        BY <2>1, AheadStrict
    <2>4. PICK m \in S : \A u \in S : <<m, u>> \notin R
        <3>1. \A X \in SUBSET Txs : X # {} => \E t \in X : \A u \in X : <<t, u>> \notin R
            BY <2>2, <2>3, MaximalExists, ZenonT(30)
        <3> QED  BY <3>1
    <2>5. PICK u \in S, v \in S : WaitsFor(m, u) /\ WaitsFor(u, v)
        OBVIOUS
    <2>6. Ahead(m, u)
        BY <2>5, WaitsAhead
    <2> QED  BY <2>1, <2>4, <2>6
<1>2. TxSpec => [](TxTypeOK /\ LockInv)
    BY TxLocksGuard
<1>3. TxSpec => []LocksInOrder
    BY TxLocksInOrder
<1> QED  BY <1>1, <1>2, <1>3, PTL
=============================================================================
