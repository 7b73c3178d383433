---------------------------- MODULE MemoryProofs ----------------------------
(***************************************************************************)
(* MemoryTally: its types; no accepted event slips away; the shutdown      *)
(* drains, and a panic on the closed channel needs a shutdown that timed   *)
(* out; the counters add up; it implements Tally: for any number of doors, *)
(* workers, requests and crashes and any capacity.                         *)
(***************************************************************************)
EXTENDS MemoryTally, PipelineProofs

\* A leaf goes to Zenon for two seconds, then to the SMT solver.
USE ZenonT(2), SMTT(30)

\* What happens to the union of the batches when one of them changes.
LEMMA InHandAfter ==
    ASSUME batch \in [Workers -> Seq(Event)], NEW w \in Workers, NEW b,
           batch' = [batch EXCEPT ![w] = b]
    PROVE  /\ Range(b) \subseteq InHand'
           /\ \A e \in InHand : e \in Range(batch[w]) \/ e \in InHand'
           /\ InHand' \subseteq InHand \cup Range(b)
BY DEF InHand

-----------------------------------------------------------------------------
(***************************************************************************)
(* Types.  The store's invariant is part of the induction: it is what      *)
(* keeps the tables typed.                                                 *)
(***************************************************************************)
TypeInv == TypeOK /\ StoreInv

\* The first state of the process.
LEMMA TypeInit == Init => TypeInv
<1> SUFFICES ASSUME Init PROVE TypeInv
    OBVIOUS
<1>1. StoreInv /\ DoorTypeOK
    BY StoreInitInv, DoorsInitType DEF Init
<1>2. PoolTypeOK
    BY PoolAssumption DEF Init, PoolInit, PoolTypeOK
<1>3. crashes \in Nat /\ ch \in Seq(Event)
    BY DEF Init, QueueInit
<1>4. phase \in Phases /\ timedOut \in BOOLEAN /\ closed \in BOOLEAN /\ chClosed \in BOOLEAN
      /\ panicked \subseteq Doors /\ lost \subseteq Event
    BY ZenonT(30) DEF Init, DoorsInit, QueueInit, Phases
<1> QED  BY <1>1, <1>2, <1>3, <1>4 DEF TypeInv, TypeOK, StoreInv

\* The workers' steps.
LEMMA WorkerType ==
    ASSUME TypeInv, NEW w \in Workers, WorkerMoves(w)
    PROVE  TypeInv'
<1>1. /\ batch[w] \in Seq(Event) /\ Len(batch[w]) \in Nat
      /\ Range(batch[w]) \subseteq Event /\ IsFiniteSet(Range(batch[w]))
    BY BatchRange DEF TypeInv, TypeOK, PoolTypeOK
<1>2. StoreInv'
    <2>1. \A new : InsertBatch(Range(batch[w]), new) => StoreInv'
        BY <1>1, InsertBatchKeepsStoreInv DEF TypeInv
    <2> QED  BY <2>1, StoreUnchanged DEF TypeInv, WorkerMoves, WorkerStep, Receive, ReceiveClosed,
                Tick, InsertOk, InsertFail, InsertUnacknowledged
<1>3. ASSUME AttemptFailed(w)
      PROVE  PoolTypeOK' /\ UNCHANGED queueVars
    <2>1. CASE /\ attempt[w] < MaxRetries
               /\ attempt' = [attempt EXCEPT ![w] = @ + 1]
               /\ UNCHANGED <<wpc, batch, exiting, dropped, metrics, queueVars>>
        <3>1. attempt' \in [Workers -> 1 .. MaxRetries]
            BY <2>1, PoolAssumption DEF TypeInv, TypeOK, PoolTypeOK
        <3> QED  BY <2>1, <3>1 DEF TypeInv, TypeOK, PoolTypeOK, metrics
    <2>2. CASE /\ dropped' = dropped \cup Range(batch[w])
               /\ EventsDropped' = EventsDropped + Len(batch[w])
               /\ UNCHANGED <<EventsInserted, EventsDuplicate>>
               /\ FlushEnd(w)
        BY <1>1, <2>2, PoolAssumption DEF FlushEnd, TypeInv, TypeOK, PoolTypeOK
    <2> QED  BY <1>3, <2>1, <2>2 DEF AttemptFailed
<1>4. ASSUME InsertOk(w)
      PROVE  PoolTypeOK' /\ UNCHANGED queueVars
    <2>1. PICK new \in SUBSET Range(batch[w]) :
              /\ EventsInserted' = EventsInserted + Cardinality(new)
              /\ EventsDuplicate' = EventsDuplicate + Len(batch[w]) - Cardinality(new)
        BY <1>4 DEF InsertOk
    <2>2. Cardinality(new) \in Nat /\ Cardinality(new) <= Len(batch[w])
        <3>1. IsFiniteSet(Range(batch[w])) /\ Cardinality(Range(batch[w])) <= Len(batch[w])
            BY <1>1, BatchRange
        <3>2. IsFiniteSet(new) /\ Cardinality(new) <= Cardinality(Range(batch[w]))
            BY <3>1, FS_Subset
        <3> QED  BY <1>1, <3>1, <3>2, FS_CardinalityType
    <2>3. EventsInserted' \in Nat /\ EventsDuplicate' \in Nat
        BY <1>1, <2>1, <2>2 DEF TypeInv, TypeOK, PoolTypeOK
    <2> QED  BY <1>4, <2>3, PoolAssumption DEF InsertOk, FlushEnd, TypeInv, TypeOK, PoolTypeOK
<1>5. ASSUME Receive(w)
      PROVE  PoolTypeOK' /\ UNCHANGED <<closed, chClosed>> /\ ch' \in Seq(Event)
    BY <1>1, <1>5 DEF Receive, ChanReceive, TypeInv, TypeOK, PoolTypeOK, metrics
<1>6. ASSUME ReceiveClosed(w) \/ Tick(w)
      PROVE  PoolTypeOK' /\ UNCHANGED queueVars
    BY <1>6, ZenonT(30) DEF ReceiveClosed, Tick, TypeInv, TypeOK, PoolTypeOK, metrics
<1>7. PoolTypeOK' /\ UNCHANGED <<closed, chClosed>> /\ ch' \in Seq(Event)
    BY <1>3, <1>4, <1>5, <1>6
       DEF WorkerMoves, WorkerStep, InsertFail, InsertUnacknowledged, queueVars, TypeInv, TypeOK
<1>8. DoorTypeOK'
    BY MainType DEF WorkerMoves, TypeInv, TypeOK
<1> QED  BY <1>2, <1>7, <1>8 DEF WorkerMoves, TypeInv, TypeOK, StoreInv, doorVars, mainVars

\* The doors' steps.
LEMMA DoorType ==
    ASSUME TypeInv, NEW h \in Doors, DoorStep(h)
    PROVE  TypeInv'
<1>1. DoorTypeOK'
    BY HandlerType DEF DoorStep, EnqueueLoad, EnqueueSend, EnqueueFull, EnqueuePanic, TypeInv,
       TypeOK
<1>2. UNCHANGED <<phase, timedOut, closed, chClosed>> /\ ch' \in Seq(Event)
    <2>1. InEnqueue(h) => Head(todo[h]) \in Event
        BY DEF TypeInv, TypeOK, DoorTypeOK, InEnqueue
    <2>2. ch \in Seq(Event)
        BY DEF TypeInv, TypeOK
    <2> QED  BY <2>1, <2>2 DEF DoorStep, EnqueueLoad, EnqueueSend, EnqueueFull, EnqueuePanic,
                 RejectInvalid, GoOn, Fail, Enqueued, NextEvent, ChanSend, queueVars, mainVars
<1>3. StoreInv' /\ PoolTypeOK'
    BY StoreUnchanged DEF DoorStep, TypeInv, TypeOK, PoolTypeOK, poolVars, metrics
<1>4. panicked' \subseteq Doors /\ UNCHANGED <<crashes, lost>>
    BY DEF DoorStep, EnqueueLoad, EnqueueSend, EnqueueFull, EnqueuePanic, TypeInv, TypeOK
<1> QED  BY <1>1, <1>2, <1>3, <1>4 DEF TypeInv, TypeOK, StoreInv

\* Steps that leave the queue, the pool and the store alone.
LEMMA PipeUnchanged ==
    ASSUME TypeInv, UNCHANGED pipeVars, DoorTypeOK', phase' \in Phases, timedOut' \in BOOLEAN
    PROVE  TypeInv'
<1>1. StoreInv' /\ PoolTypeOK'
    BY StoreUnchanged DEF TypeInv, TypeOK, PoolTypeOK, pipeVars, poolVars, metrics
<1> QED  BY <1>1 DEF TypeInv, TypeOK, StoreInv, pipeVars, queueVars

\* main.
LEMMA MainStepType ==
    ASSUME TypeInv, MainStep
    PROVE  TypeInv'
<1>1. StoreInv' /\ PoolTypeOK'
    BY StoreUnchanged DEF MainStep, TypeInv, TypeOK, PoolTypeOK, poolVars, metrics
<1>2. DoorTypeOK'
    BY MainType DEF MainStep, ShutdownReturns, CloseQueue, GracefulStopReturns, CloseChannel, Exit,
       TypeInv, TypeOK
<1>3. phase' \in Phases
    BY DEF MainStep, ShutdownReturns, CloseQueue, GracefulStopReturns, CloseChannel, Exit, Goto,
       Phases
<1>4. ch' = ch /\ closed' \in BOOLEAN /\ chClosed' \in BOOLEAN /\ timedOut' \in BOOLEAN
    BY ZenonT(30) DEF MainStep, ShutdownReturns, CloseQueue, GracefulStopReturns, CloseChannel,
       Exit, CloseFlag, CloseChan, queueVars, TypeInv, TypeOK, Idle
<1> QED  BY <1>1, <1>2, <1>3, <1>4 DEF MainStep, TypeInv, TypeOK, StoreInv

\* The end of a process and the start of the next.
LEMMA CrashType ==
    ASSUME TypeInv, Crash
    PROVE  TypeInv'
<1>1. Range(ch) \subseteq Event /\ InHand \subseteq Event
    BY BatchRange DEF InHand, TypeInv, TypeOK, PoolTypeOK
<1>2. PoolTypeOK'
    BY PoolAssumption DEF Crash, PoolStart, TypeInv, TypeOK, PoolTypeOK
<1>3. DoorTypeOK' /\ StoreInv'
    BY MainType, StoreUnchanged DEF Crash, TypeInv, TypeOK
<1>4. crashes' \in Nat /\ ch' \in Seq(Event) /\ lost' \subseteq Event
    BY <1>1 DEF Crash, TypeInv, TypeOK
<1>5. phase' \in Phases /\ closed' \in BOOLEAN /\ chClosed' \in BOOLEAN
      /\ timedOut' \in BOOLEAN /\ panicked' \subseteq Doors
    BY ZenonT(30) DEF Crash, Restart, Phases
<1> QED  BY <1>2, <1>3, <1>4, <1>5 DEF TypeInv, TypeOK, StoreInv

\* Every step keeps the types and the agreement of the tables.
LEMMA TypeStep == TypeInv /\ [Next]_vars => TypeInv'
<1> SUFFICES ASSUME TypeInv, [Next]_vars PROVE TypeInv'
    OBVIOUS
<1>1. CASE \/ \E h \in HttpDoors, p \in Posts : postEvent(h, p) /\ UNCHANGED pipeVars
           \/ \E h \in GrpcDoors, ps \in Publishes : Publish(h, ps) /\ UNCHANGED pipeVars
    <2>1. DoorTypeOK'
        BY <1>1, ArrivalsType DEF TypeInv, TypeOK
    <2>2. UNCHANGED pipeVars /\ phase' = phase /\ timedOut' = timedOut
        BY <1>1, ZenonT(30) DEF postEvent, Publish, Arrive, mainVars
    <2> QED  BY <2>1, <2>2, PipeUnchanged DEF TypeInv, TypeOK
<1>2. CASE (Sigterm \/ MinutePasses) /\ UNCHANGED pipeVars
    <2>1. DoorTypeOK'
        BY <1>2, MainType DEF Sigterm, TypeInv, TypeOK
    <2>2. phase' \in Phases /\ timedOut' \in BOOLEAN
        BY <1>2 DEF Sigterm, Goto, MinutePasses, mainVars, Phases, TypeInv, TypeOK
    <2> QED  BY <1>2, <2>1, <2>2, PipeUnchanged
<1>3. CASE UNCHANGED vars
    <2>1. DoorTypeOK' /\ UNCHANGED pipeVars /\ phase' = phase /\ timedOut' = timedOut
        BY <1>3, MainType DEF vars, pipeVars, doorVars, mainVars, TypeInv, TypeOK
    <2> QED  BY <2>1, PipeUnchanged DEF TypeInv, TypeOK
<1> QED  BY <1>1, <1>2, <1>3, DoorType, WorkerType, MainStepType, CrashType DEF Next, Stopped

\* The tables of the memory pipeline agree and every variable is typed, in
\* every state that any interleaving reaches.
THEOREM MemoryTypes == Spec => [](TypeOK /\ StoreInv)
<1>1. Init => TypeInv
    BY TypeInit
<1>2. TypeInv /\ [Next]_vars => TypeInv'
    BY TypeStep
<1> QED  BY <1>1, <1>2, PTL DEF Spec, TypeInv

-----------------------------------------------------------------------------
(***************************************************************************)
(* No accepted event slips away.                                           *)
(***************************************************************************)
\* What a worker takes it keeps, stores or gives up.
LEMMA WorkerAccounts ==
    ASSUME TypeInv, AcceptedAccounted, NEW w \in Workers, WorkerMoves(w)
    PROVE  AcceptedAccounted'
<1>1. batch \in [Workers -> Seq(Event)] /\ batch[w] \in Seq(Event) /\ ch \in Seq(Event)
    BY DEF TypeInv, TypeOK, PoolTypeOK
<1>2. accepted' = accepted /\ lost' = lost
    BY DEF WorkerMoves, doorVars, acceptVars
<1> SUFFICES ASSUME NEW e \in accepted
             PROVE  \/ e.id \in StoredIds'
                    \/ e \in Range(ch') \cup InHand'
                    \/ e \in dropped' \cup lost
    BY <1>2 DEF AcceptedAccounted
<1>3. \/ e.id \in StoredIds \/ e \in Range(ch) \/ e \in InHand \/ e \in dropped \cup lost
    BY DEF AcceptedAccounted
<1>4. CASE Receive(w)
    <2>1. Range(ch) = {Head(ch)} \cup Range(Tail(ch)) /\ ch' = Tail(ch)
        BY <1>1, <1>4, RangeHeadTail DEF Receive, ChanReceive
    <2>2. Range(Append(batch[w], Head(ch))) = Range(batch[w]) \cup {Head(ch)}
        BY <1>1, RangeAppend
    <2>3. InHand \cup {Head(ch)} \subseteq InHand'
        BY <1>1, <1>4, <2>2, InHandAfter, ZenonT(30) DEF Receive
    <2>4. StoredIds' = StoredIds /\ dropped' = dropped
        BY <1>4 DEF Receive, storeVars, StoredIds
    <2> QED  BY <1>3, <2>1, <2>3, <2>4
<1>5. CASE ReceiveClosed(w) \/ Tick(w)
    BY <1>3, <1>5 DEF ReceiveClosed, Tick, storeVars, StoredIds, queueVars, InHand
<1>6. ASSUME \E new : InsertBatch(Range(batch[w]), new)
      PROVE  StoredIds \subseteq StoredIds' /\ \A f \in Range(batch[w]) : f.id \in StoredIds'
    BY <1>1, <1>6, BatchRange, InsertBatchStores
<1>7. ASSUME FlushEnd(w)
      PROVE  /\ ch' = ch
             /\ \A f \in InHand : f \in Range(batch[w]) \/ f \in InHand'
    BY <1>1, <1>7, InHandAfter, ZenonT(30) DEF FlushEnd, queueVars
<1>8. CASE InsertOk(w)
    BY <1>3, <1>6, <1>7, <1>8 DEF InsertOk
<1>9. CASE InsertFail(w) \/ InsertUnacknowledged(w)
    <2>1. StoredIds \subseteq StoredIds'
        BY <1>6, <1>9 DEF InsertFail, InsertUnacknowledged, storeVars, StoredIds
    <2>2. AttemptFailed(w)
        BY <1>9 DEF InsertFail, InsertUnacknowledged
    <2>3. CASE UNCHANGED <<batch, dropped, queueVars>>
        BY <1>3, <2>1, <2>3 DEF InHand, queueVars
    <2>4. CASE dropped' = dropped \cup Range(batch[w]) /\ FlushEnd(w)
        BY <1>3, <1>7, <2>1, <2>4
    <2> QED  BY <2>2, <2>3, <2>4 DEF AttemptFailed
<1> QED  BY <1>4, <1>5, <1>8, <1>9 DEF WorkerMoves, WorkerStep

\* What a door accepts is in the queue; a crash takes what is in flight.
LEMMA OtherAccounts ==
    ASSUME TypeInv, AcceptedAccounted,
           \/ UNCHANGED <<pipeVars, accepted>>
           \/ \E h \in Doors : DoorStep(h)
           \/ MainStep \/ Crash
    PROVE  AcceptedAccounted'
<1>1. ASSUME UNCHANGED <<storeVars, ch, batch, dropped, accepted, lost>>
      PROVE  AcceptedAccounted'
    BY <1>1 DEF AcceptedAccounted, storeVars, StoredIds, InHand
<1>2. CASE UNCHANGED <<pipeVars, accepted>> \/ MainStep
    <2>1. UNCHANGED <<storeVars, ch, batch, dropped, accepted, lost>>
        BY <1>2, ZenonT(30) DEF pipeVars, MainStep, ShutdownReturns, CloseQueue,
           GracefulStopReturns, CloseChannel, Exit, Goto, CloseFlag, CloseChan, queueVars,
           poolVars, acceptVars
    <2> QED  BY <1>1, <2>1
<1>3. ASSUME NEW h \in Doors, DoorStep(h) PROVE AcceptedAccounted'
    <2>1. UNCHANGED <<storeVars, batch, dropped, lost>>
        BY <1>3 DEF DoorStep, poolVars
    <2>2. CASE EnqueueSend(h)
        <3>1. ch' = Append(ch, Head(todo[h])) /\ accepted' = accepted \cup {Head(todo[h])}
            BY <2>2, ZenonT(30) DEF EnqueueSend, ChanSend, Enqueued
        <3>2. Range(ch') = Range(ch) \cup {Head(todo[h])}
            BY <3>1, RangeAppend DEF TypeInv, TypeOK
        <3> QED  BY <2>1, <3>1, <3>2, ZenonT(30) DEF AcceptedAccounted, storeVars, StoredIds, InHand
    <2>3. CASE ~EnqueueSend(h)
        BY <1>1, <1>3, <2>1, <2>3, ZenonT(30) DEF DoorStep, EnqueueLoad, EnqueueFull, EnqueuePanic,
           RejectInvalid, GoOn, Fail, acceptVars, queueVars
    <2> QED  BY <2>2, <2>3
<1>4. CASE Crash
    <2>1. /\ lost' = lost \cup Range(ch) \cup InHand
          /\ UNCHANGED <<storeVars, accepted, dropped>>
        BY <1>4 DEF Crash, Restart
    <2> QED  BY <2>1 DEF AcceptedAccounted, storeVars, StoredIds
<1> QED  BY <1>2, <1>3, <1>4

\* A client that got a 202, or a count in a PublishResponse, can rely on it: the
\* event is in the queue, in a batch or in the store, unless its batch failed
\* MaxRetries times or the process died with it.
THEOREM MemoryAccounts == Spec => []AcceptedAccounted
<1>1. Init => AcceptedAccounted
    BY DEF Init, DoorsInit, AcceptedAccounted
<1>2. TypeInv /\ AcceptedAccounted /\ [Next]_vars => AcceptedAccounted'
    BY WorkerAccounts, OtherAccounts, ZenonT(30) DEF Next, postEvent, Publish, Arrive, Sigterm,
       Goto, MinutePasses, Stopped, vars, pipeVars, doorVars, acceptVars
<1>3. Init => TypeInv
    BY TypeInit
<1>4. TypeInv /\ [Next]_vars => TypeInv'
    BY TypeStep
<1> QED  BY <1>1, <1>2, <1>3, <1>4, PTL DEF Spec

-----------------------------------------------------------------------------
\* A worker leaves only when the closed channel is dry and its batch flushed.
LEMMA WorkerShutdown ==
    ASSUME TypeInv, ShutdownInv, NEW w \in Workers, WorkerMoves(w)
    PROVE  ShutdownInv'
<1>1. /\ UNCHANGED <<hpc, panicked, phase, timedOut, closed, chClosed>>
      /\ ch' = ch \/ (ch' = Tail(ch) /\ ch # <<>>)
    BY ZenonT(30) DEF WorkerMoves, WorkerStep, Receive, ReceiveClosed, Tick, InsertOk, InsertFail,
       InsertUnacknowledged, AttemptFailed, FlushEnd, ChanReceive, queueVars, doorVars, mainVars
<1>2. wpc[w] # "done"
    BY ZenonT(30) DEF WorkerMoves, WorkerStep, Receive, ReceiveClosed, Tick, InsertOk, InsertFail,
       InsertUnacknowledged
<1>3. \A v \in Workers \ {w} : /\ wpc'[v] = wpc[v] /\ batch'[v] = batch[v]
                               /\ exiting'[v] = exiting[v]
    BY ZenonT(30) DEF WorkerMoves, WorkerStep, Receive, ReceiveClosed, Tick, InsertOk, InsertFail,
       InsertUnacknowledged, AttemptFailed, FlushEnd, TypeInv, TypeOK, PoolTypeOK
<1>4. \A v \in Workers : exiting'[v] => ch' = <<>> /\ chClosed'
    BY <1>1, <1>3, ZenonT(30) DEF ShutdownInv, WorkerMoves, WorkerStep, Receive, ReceiveClosed,
       Tick, InsertOk, InsertFail, InsertUnacknowledged, AttemptFailed, FlushEnd, ChanReceive,
       ChanDrained, queueVars, TypeInv, TypeOK, PoolTypeOK
<1>5. wpc'[w] = "done" => exiting'[w] /\ batch'[w] = <<>>
    BY <1>2, ZenonT(30) DEF WorkerMoves, WorkerStep, Receive, ReceiveClosed, Tick, InsertOk,
       InsertFail, InsertUnacknowledged, AttemptFailed, FlushEnd, TypeInv, TypeOK, PoolTypeOK
<1>6. phase # "exited"
    BY <1>2 DEF ShutdownInv
<1> QED  BY <1>1, <1>3, <1>4, <1>5, <1>6, ZenonT(30) DEF ShutdownInv, Idle, PanicOnlyAfterTimeout

\* A door main has waited for stays idle; only one it gave up on can panic.
LEMMA DoorShutdown ==
    ASSUME TypeInv, ShutdownInv, NEW h \in Doors,
           \/ DoorStep(h)
           \/ \E ps : Arrive(h, ps) /\ phase \in {"serving", "shutdown"} /\ UNCHANGED pipeVars
    PROVE  ShutdownInv'
<1> USE DEF DoorStep, RejectInvalid, EnqueueLoad, EnqueueSend, EnqueueFull, EnqueuePanic
<1>1. /\ UNCHANGED <<wpc, batch, exiting, phase, timedOut, closed, chClosed>>
      /\ ch' = ch \/ ~chClosed
    BY DEF Arrive, ChanSend, GoOn, Fail, Enqueued, NextEvent, pipeVars, queueVars, poolVars,
       mainVars
<1>2. \A g \in Doors \ {h} : hpc'[g] = hpc[g]
    BY DEF Arrive, GoOn, Fail, Enqueued, NextEvent, TypeInv, TypeOK, DoorTypeOK
<1>3. hpc[h] # "idle" \/ phase \in {"serving", "shutdown"}
    BY DEF Ready, InEnqueue
<1>4. closed' => Idle(GrpcDoors)'
    BY <1>1, <1>2, <1>3, ZenonT(30) DEF ShutdownInv, Idle, Doors
<1>5. phase' \notin {"serving", "shutdown"} /\ ~timedOut' => Idle(HttpDoors)'
    BY <1>1, <1>2, <1>3, ZenonT(30) DEF ShutdownInv, Idle, Doors
<1>6. panicked' = panicked \/ (EnqueuePanic(h) /\ panicked' = panicked \cup {h})
    BY DEF pipeVars
<1>7. EnqueuePanic(h) => h \in HttpDoors /\ timedOut /\ phase \notin {"serving", "shutdown"}
    BY DEF InEnqueue, ChanPanics, ShutdownInv, Idle, Doors
<1> QED  BY <1>1, <1>4, <1>5, <1>6, <1>7, ZenonT(30) DEF ShutdownInv, PanicOnlyAfterTimeout

\* main goes through its phases in order; a crash starts again.
LEMMA OtherShutdown ==
    ASSUME TypeInv, ShutdownInv,
           \/ (Sigterm \/ MinutePasses) /\ UNCHANGED pipeVars
           \/ MainStep \/ Crash \/ UNCHANGED vars
    PROVE  ShutdownInv'
<1> USE DEF ShutdownInv, Idle, PanicOnlyAfterTimeout, queueVars, poolVars
<1>1. CASE Sigterm /\ UNCHANGED pipeVars
    BY <1>1, ZenonT(30) DEF Sigterm, Goto, pipeVars
<1>2. CASE MainStep /\ ShutdownReturns
    <2>1. UNCHANGED <<wpc, batch, exiting, panicked, hpc, ch, closed, chClosed>>
          /\ phase = "shutdown" /\ phase' = "gracefulStop" /\ timedOut' = ~Idle(HttpDoors)
        BY <1>2, ZenonT(30) DEF MainStep, ShutdownReturns, Goto, CloseQueue, GracefulStopReturns,
           CloseChannel, Exit
    <2> QED  BY <2>1, ZenonT(30)
<1>3. CASE MainStep /\ CloseQueue
    BY <1>3, ZenonT(30) DEF MainStep, CloseQueue, GracefulStopReturns, Goto, CloseFlag
<1>4. CASE MainStep /\ CloseChannel
    BY <1>4, ZenonT(30) DEF MainStep, CloseChannel, Goto, CloseChan
<1>5. CASE MainStep /\ Exit
    BY <1>5, ZenonT(30) DEF MainStep, Exit, HandlersDie, Goto, Doors
<1>6. CASE Crash
    BY <1>6, ZenonT(30) DEF Crash, Restart, HandlersDie, PoolStart, Doors
<1>7. CASE (MinutePasses /\ UNCHANGED pipeVars) \/ UNCHANGED vars
    <2>1. UNCHANGED <<wpc, batch, exiting, panicked, hpc, ch, closed, chClosed, phase, timedOut>>
        BY <1>7, ZenonT(30) DEF MinutePasses, vars, pipeVars, doorVars, mainVars
    <2> QED  BY <2>1, ZenonT(30)
<1> QED  BY <1>1, <1>2, <1>3, <1>4, <1>5, <1>6, <1>7, ZenonT(30) DEF MainStep

\* How far main has come fixes the state of the queue, of the doors it has waited
\* for and of the workers, whatever handlers outlive srv.Shutdown.
THEOREM ShutdownHolds == Spec => []ShutdownInv
<1>1. Init => ShutdownInv
    BY DEF Init, DoorsInit, QueueInit, PoolInit, ShutdownInv, Idle, Doors, PanicOnlyAfterTimeout
<1>2. TypeInv /\ ShutdownInv /\ [Next]_vars => ShutdownInv'
    BY WorkerShutdown, DoorShutdown, OtherShutdown, ZenonT(30) DEF Next, postEvent, Publish,
       Doors, Stopped
<1>3. Init => TypeInv
    BY TypeInit
<1>4. TypeInv /\ [Next]_vars => TypeInv'
    BY TypeStep
<1> QED  BY <1>1, <1>2, <1>3, <1>4, PTL DEF Spec

\* When main returns after a SIGTERM, the queue and every batch are empty,
\* even if handlers outlived srv.Shutdown.
THEOREM MemoryDrains == Spec => []DrainedAtExit
<1>1. ShutdownInv => DrainedAtExit
    <2> SUFFICES ASSUME ShutdownInv, phase = "exited"
                 PROVE  ch = <<>> /\ InHand = {}
        BY DEF DrainedAtExit
    <2>1. \A w \in Workers : batch[w] = <<>> /\ exiting[w]
        BY ZenonT(30) DEF ShutdownInv
    <2>2. ch = <<>>
        BY <2>1, PoolAssumption DEF ShutdownInv
    <2>3. \A w \in Workers : Range(batch[w]) = {}
        BY <2>1 DEF Range
    <2> QED  BY <2>2, <2>3 DEF InHand
<1> QED  BY <1>1, ShutdownHolds, PTL

\* A send on the closed channel happens only in an HTTP handler that
\* srv.Shutdown stopped waiting for; GracefulStop keeps RPCs from it.
THEOREM MemoryPanics == Spec => []PanicOnlyAfterTimeout
<1>1. ShutdownInv => PanicOnlyAfterTimeout
    BY DEF ShutdownInv
<1> QED  BY <1>1, ShutdownHolds, PTL
-----------------------------------------------------------------------------
(***************************************************************************)
(* The limits.                                                             *)
(***************************************************************************)
\* A worker's batch and attempts: the part of Bounded about one worker.
WorkerBounded(w) ==
    /\ Len(batch[w]) <= BatchSize /\ attempt[w] <= MaxRetries
    /\ wpc[w] # "insert" => Len(batch[w]) < BatchSize /\ attempt[w] = 1

\* The workers' steps.
LEMMA BoundWorker ==
    ASSUME TypeInv, Bounded, NEW w \in Workers, WorkerMoves(w)
    PROVE  Bounded'
<1>1. /\ batch \in [Workers -> Seq(Event)] /\ wpc \in [Workers -> {"select", "insert", "done"}]
      /\ batch[w] \in Seq(Event) /\ Len(batch[w]) \in Nat /\ ch \in Seq(Event) /\ Len(ch) \in Nat
      /\ attempt \in [Workers -> 1 .. MaxRetries] /\ attempt[w] \in Nat
      /\ BatchSize \in Nat \ {0} /\ QueueSize \in Nat /\ MaxRetries \in Nat \ {0}
    BY PoolAssumption, QueueAssumption DEF TypeInv, TypeOK, PoolTypeOK
<1>2. Len(ch') <= QueueSize
    <2>1. ch' = ch \/ (ch' = Tail(ch) /\ ch # <<>>)
        BY ZenonT(30) DEF WorkerMoves, WorkerStep, Receive, ReceiveClosed, Tick, InsertOk, InsertFail,
           InsertUnacknowledged, AttemptFailed, FlushEnd, ChanReceive, queueVars
    <2> QED  BY <1>1, <2>1 DEF Bounded
<1>3. \A v \in Workers \ {w} :
        wpc'[v] = wpc[v] /\ batch'[v] = batch[v] /\ attempt'[v] = attempt[v]
    BY <1>1, ZenonT(30) DEF WorkerMoves, WorkerStep, Receive, ReceiveClosed, Tick, InsertOk, InsertFail,
       InsertUnacknowledged, AttemptFailed, FlushEnd
<1>4. WorkerBounded(w)
    BY DEF Bounded, WorkerBounded
<1>5. WorkerBounded(w)'
    <2>1. CASE Receive(w)
        <3>1. batch'[w] = Append(batch[w], Head(ch)) /\ wpc[w] = "select" /\ ch # <<>>
              /\ wpc'[w] = IF Len(batch[w]) + 1 >= BatchSize THEN "insert" ELSE wpc[w]
            BY <1>1, <2>1 DEF Receive, ChanReceive
        <3>2. Len(batch'[w]) = Len(batch[w]) + 1
            BY <1>1, <3>1
        <3>3. attempt' = attempt
            BY <2>1 DEF Receive
        <3>4. wpc[w] # "insert"
            BY <3>1
        <3>5. attempt'[w] <= MaxRetries /\ attempt'[w] = 1 /\ Len(batch[w]) < BatchSize
            BY <1>4, <3>3, <3>4 DEF WorkerBounded
        <3>6. Len(batch'[w]) <= BatchSize /\ (wpc'[w] # "insert" => Len(batch'[w]) < BatchSize)
            BY <1>1, <3>1, <3>2, <3>5
        <3> QED  BY <3>5, <3>6 DEF WorkerBounded
    <2>2. CASE ReceiveClosed(w) \/ Tick(w)
        <3>1. wpc[w] = "select" /\ batch' = batch /\ attempt' = attempt
            BY <2>2 DEF ReceiveClosed, Tick
        <3> QED  BY <1>1, <1>4, <3>1 DEF WorkerBounded
    <2>3. CASE FlushEnd(w)
        <3>1. batch'[w] = <<>> /\ attempt'[w] = 1
            BY <1>1, <2>3 DEF FlushEnd
        <3> QED  BY <1>1, <3>1 DEF WorkerBounded
    <2>4. CASE AttemptFailed(w) /\ wpc[w] = "insert"
        <3>1. CASE UNCHANGED <<wpc, batch>> /\ attempt[w] < MaxRetries
                   /\ attempt' = [attempt EXCEPT ![w] = @ + 1]
            BY <1>1, <1>4, <2>4, <3>1 DEF WorkerBounded
        <3> QED  BY <2>3, <2>4, <3>1 DEF AttemptFailed
    <2> QED  BY <2>1, <2>2, <2>3, <2>4, ZenonT(30) DEF WorkerMoves, WorkerStep, InsertOk, InsertFail,
                InsertUnacknowledged
<1> QED  BY <1>2, <1>3, <1>5, ZenonT(30) DEF Bounded, WorkerBounded

\* The channel never holds more than QUEUE_SIZE events and a batch never more than
\* BATCH_SIZE, whatever the doors do, and no flush begins with attempts used up.
THEOREM MemoryBounded == Spec => []Bounded
<1>1. Init => Bounded
    BY PoolAssumption, QueueAssumption DEF Init, QueueInit, PoolInit, Bounded
<1>2. TypeInv /\ Bounded /\ [Next]_vars => Bounded'
    <2> SUFFICES ASSUME TypeInv, Bounded, [Next]_vars PROVE Bounded'
        OBVIOUS
    <2>1. ASSUME UNCHANGED <<wpc, batch, attempt>>, ch' = ch \/ \E e \in Event : ChanSend(e)
          PROVE  Bounded'
        <3>1. Len(ch') <= QueueSize
            <4>1. CASE ch' = ch
                BY <4>1 DEF Bounded
            <4>2. ASSUME NEW e \in Event, ChanSend(e) PROVE Len(ch') <= QueueSize
                BY <4>2, QueueAssumption DEF ChanSend, TypeInv, TypeOK
            <4> QED  BY <2>1, <4>1, <4>2
        <3> QED  BY <2>1, <3>1, ZenonT(30) DEF Bounded
    <2>2. CASE \E h \in Doors : DoorStep(h)
        BY <2>1, <2>2 DEF DoorStep, EnqueueLoad, EnqueueSend, EnqueueFull, EnqueuePanic, InEnqueue,
           queueVars, poolVars, TypeInv, TypeOK, DoorTypeOK
    <2>3. CASE Crash
        BY <2>3, PoolAssumption, QueueAssumption DEF Crash, PoolStart, Bounded
    <2>4. CASE UNCHANGED pipeVars \/ UNCHANGED vars \/ MainStep
        <3>1. UNCHANGED <<wpc, batch, attempt, ch>>
            BY <2>4, ZenonT(30) DEF pipeVars, vars, MainStep, ShutdownReturns, CloseQueue,
               CloseChannel, Exit, CloseFlag, CloseChan, queueVars, poolVars
        <3> QED  BY <2>1, <3>1
    <2> QED  BY <2>2, <2>3, <2>4, BoundWorker, ZenonT(30) DEF Next, Stopped
<1>3. Init => TypeInv
    BY TypeInit
<1>4. TypeInv /\ [Next]_vars => TypeInv'
    BY TypeStep
<1> QED  BY <1>1, <1>2, <1>3, <1>4, PTL DEF Spec

-----------------------------------------------------------------------------
(***************************************************************************)
(* The counters.                                                           *)
(***************************************************************************)
\* The number of events in the batches, when one batch changes...
LEMMA BatchedAfter ==
    ASSUME TypeOK, TypeOK', NEW w \in Workers, NEW s,
           batch' = [batch EXCEPT ![w] = s]
    PROVE  /\ SumFunction([v \in Workers |-> Len(batch[v])]) \in Int
           /\ SumFunction([v \in Workers |-> Len(batch'[v])])
                = SumFunction([v \in Workers |-> Len(batch[v])]) + Len(s) - Len(batch[w])
<1> DEFINE f == [v \in Workers |-> Len(batch[v])]
           g == [v \in Workers |-> Len(batch'[v])]
<1>1. \A v \in Workers : Len(batch[v]) \in Int /\ Len(batch'[v]) \in Int
    BY DEF TypeOK, PoolTypeOK
<1>2. batch'[w] = s /\ \A v \in Workers \ {w} : batch'[v] = batch[v]
    BY DEF TypeOK, PoolTypeOK
<1>3. /\ \A v \in Workers : f[v] \in Int /\ g[v] \in Int
      /\ \A v \in Workers \ {w} : f[v] = g[v]
      /\ g[w] = Len(s) /\ f[w] = Len(batch[w])
    BY <1>1, <1>2
<1>4. DOMAIN f = Workers /\ DOMAIN g = Workers
    OBVIOUS
<1> SUFFICES /\ SumFunction(f) \in Int
             /\ SumFunction(g) = SumFunction(f) + Len(s) - Len(batch[w])
    OBVIOUS
<1>5. SumFunction(f) = SumFunctionOnSet(f, Workers) /\ SumFunction(g) = SumFunctionOnSet(g, Workers)
    BY <1>4 DEF SumFunction
<1> HIDE DEF f, g
<1>6. IsFiniteSet(Workers)
    BY PoolAssumption
<1>7. /\ SumFunctionOnSet(f, Workers) \in Int /\ SumFunctionOnSet(g, Workers) \in Int
      /\ SumFunctionOnSet(g, Workers) = SumFunctionOnSet(f, Workers) + g[w] - f[w]
    BY <1>3, <1>6, SumUpdate, ZenonT(30)
<1> QED  BY <1>3, <1>5, <1>7

\* ...and when the batches are empty.
LEMMA BatchedNone ==
    ASSUME NEW b, b = [w \in Workers |-> <<>>]
    PROVE  SumFunction([w \in Workers |-> Len(b[w])]) = 0
<1> DEFINE f == [w \in Workers |-> Len(b[w])]
<1>1. \A w \in Workers : f[w] = 0
    OBVIOUS
<1>2. DOMAIN f = Workers
    OBVIOUS
<1>3. SumFunction(f) = SumFunctionOnSet(f, Workers)
    BY <1>2 DEF SumFunction
<1> HIDE DEF f
<1>4. IsFiniteSet(Workers)
    BY PoolAssumption
<1>5. SumFunction(f) = 0
    BY <1>1, <1>3, <1>4, SumZero
<1> QED  BY <1>5 DEF f

\* A worker that takes an event moves it from the queue to its batch; one that ends a
\* flush moves its batch to the counters of onFlush; the others move nothing.
LEMMA WorkerReconciles ==
    ASSUME TypeOK, TypeOK', MetricsReconcile, NEW w \in Workers, WorkerMoves(w)
    PROVE  MetricsReconcile'
<1> DEFINE Batched == SumFunction([v \in Workers |-> Len(batch[v])])
<1>1. ch \in Seq(Event) /\ batch[w] \in Seq(Event)
    BY DEF TypeOK, PoolTypeOK
<1>2. /\ EventsAccepted' = EventsAccepted /\ EventsAccepted \in Int
      /\ EventsInserted \in Int /\ EventsDuplicate \in Int /\ EventsDropped \in Int
    BY DEF WorkerMoves, doorVars, acceptVars, TypeOK, PoolTypeOK, DoorTypeOK
<1>3. Len(ch) \in Int /\ Len(batch[w]) \in Int
    BY <1>1
<1>4. PICK c \in Int, l \in Int : c = Len(ch) /\ l = Len(batch[w])
    BY <1>3, ZenonT(10)
<1>5. CASE Receive(w)
    <2>1. /\ ch # <<>> /\ ch' = Tail(ch)
          /\ batch' = [batch EXCEPT ![w] = Append(batch[w], Head(ch))]
          /\ UNCHANGED metrics
        BY <1>5 DEF Receive, ChanReceive
    <2>2. Len(ch') = Len(ch) - 1 /\ Head(ch) \in Event
        BY <1>1, <2>1
    <2>3. Len(Append(batch[w], Head(ch))) = Len(batch[w]) + 1
        BY <1>1, <2>2
    <2>4. Batched \in Int /\ Batched' = Batched + Len(Append(batch[w], Head(ch))) - Len(batch[w])
        BY <2>1, BatchedAfter
    <2>5. PICK b, d : b = Batched /\ d = Batched' /\ b \in Int /\ d = b + (l + 1) - l
        BY <1>4, <2>3, <2>4, ZenonT(10)
    <2>6. b \in Int /\ d = b + (l + 1) - l
        BY <2>5
    <2>7. EventsAccepted = EventsInserted + EventsDuplicate + EventsDropped + c + b
        BY <1>4, <2>5 DEF MetricsReconcile
    <2>8. EventsAccepted = EventsInserted + EventsDuplicate + EventsDropped + (c - 1) + d
        BY <1>2, <2>6, <2>7
    <2>9. Len(ch') = c - 1 /\ d = Batched'
        BY <1>4, <2>2, <2>5
    <2> QED  BY <1>2, <2>1, <2>8, <2>9, ZenonT(10) DEF MetricsReconcile, metrics
<1>6. CASE UNCHANGED <<batch, queueVars, metrics>>
    BY <1>2, <1>6 DEF MetricsReconcile, metrics, queueVars
<1>7. ASSUME FlushEnd(w),
             EventsInserted' + EventsDuplicate' + EventsDropped'
                = EventsInserted + EventsDuplicate + EventsDropped + Len(batch[w])
      PROVE  MetricsReconcile'
    <2>1. batch' = [batch EXCEPT ![w] = <<>>] /\ ch' = ch
        BY <1>7 DEF FlushEnd, queueVars
    <2>2. Batched \in Int /\ Batched' = Batched + Len(<<>>) - Len(batch[w])
        BY <2>1, BatchedAfter
    <2>3. Len(<<>>) = 0
        OBVIOUS
    <2>4. PICK b, d : b \in Int /\ b = Batched /\ d = Batched' /\ d = b + 0 - l
        BY <1>4, <2>2, <2>3, ZenonT(10)
    <2>5. b \in Int /\ d = b + 0 - l
        BY <2>4
    <2>6. EventsAccepted = EventsInserted + EventsDuplicate + EventsDropped + c + b
        BY <1>4, <2>4 DEF MetricsReconcile
    <2>7. /\ EventsInserted' \in Int /\ EventsDuplicate' \in Int /\ EventsDropped' \in Int
          /\ EventsInserted' + EventsDuplicate' + EventsDropped'
                = EventsInserted + EventsDuplicate + EventsDropped + l
        BY <1>4, <1>7 DEF TypeOK, PoolTypeOK
    <2>8. EventsAccepted = EventsInserted' + EventsDuplicate' + EventsDropped' + c + d
        <3>1. PICK x \in Int, y \in Int :
                /\ x = EventsInserted' + EventsDuplicate' + EventsDropped'
                /\ y = EventsInserted + EventsDuplicate + EventsDropped
            <4>1. EventsInserted' + EventsDuplicate' + EventsDropped' \in Int
                BY <2>7
            <4>2. EventsInserted + EventsDuplicate + EventsDropped \in Int
                BY <1>2
            <4> QED  BY <4>1, <4>2, ZenonT(10)
        <3>2. x = y + l /\ EventsAccepted = y + c + b
            BY <2>6, <2>7, <3>1
        <3>3. EventsAccepted = x + c + d
            BY <2>5, <3>2
        <3> QED  BY <3>1, <3>3
    <2>9. Len(ch') = c /\ d = Batched'
        BY <1>4, <2>1, <2>4
    <2> QED  BY <1>2, <2>8, <2>9, ZenonT(10) DEF MetricsReconcile
<1>8. CASE InsertOk(w)
    <2>1. PICK new \in SUBSET Range(batch[w]) :
            /\ EventsInserted' = EventsInserted + Cardinality(new)
            /\ EventsDuplicate' = EventsDuplicate + Len(batch[w]) - Cardinality(new)
        BY <1>8 DEF InsertOk
    <2>2. IsFiniteSet(new)
        BY <1>1, BatchRange, FS_Subset
    <2>3. PICK n \in Int : n = Cardinality(new)
        BY <2>2, FS_CardinalityType
    <2>4. EventsInserted' = EventsInserted + n /\ EventsDuplicate' = EventsDuplicate + l - n
        BY <1>4, <2>1, <2>3
    <2>5. FlushEnd(w) /\ EventsDropped' = EventsDropped
        BY <1>8 DEF InsertOk
    <2>6. EventsInserted' + EventsDuplicate' + EventsDropped'
            = EventsInserted + EventsDuplicate + EventsDropped + l
        BY <1>2, <2>4, <2>5
    <2> QED  BY <1>4, <1>7, <2>5, <2>6
<1>9. CASE AttemptFailed(w)
    <2>1. CASE attempt[w] = MaxRetries
        <3>1. CASE UNCHANGED <<batch, queueVars, metrics>>
            BY <1>6, <3>1
        <3>2. CASE /\ EventsDropped' = EventsDropped + Len(batch[w])
                   /\ UNCHANGED <<EventsInserted, EventsDuplicate>> /\ FlushEnd(w)
            <4>1. EventsInserted' + EventsDuplicate' + EventsDropped'
                    = EventsInserted + EventsDuplicate + EventsDropped + l
                <5>1. /\ EventsDropped' = EventsDropped + l
                      /\ EventsInserted' = EventsInserted /\ EventsDuplicate' = EventsDuplicate
                    BY <1>4, <3>2
                <5> QED  BY <1>2, <5>1
            <4> QED  BY <1>4, <1>7, <3>2, <4>1
        <3> QED  BY <1>9, <2>1, <3>1, <3>2 DEF AttemptFailed
    <2>2. CASE attempt[w] # MaxRetries
        BY <1>6, <1>9, <2>2 DEF AttemptFailed
    <2> QED  BY <2>1, <2>2
<1>10. Receive(w) \/ InsertOk(w) \/ AttemptFailed(w) \/ UNCHANGED <<batch, queueVars, metrics>>
    BY DEF WorkerMoves, WorkerStep, ReceiveClosed, Tick, InsertFail, InsertUnacknowledged
<1> QED  BY <1>5, <1>6, <1>8, <1>9, <1>10

\* What /metrics counts as accepted is what the workers' counters have settled and
\* what is still queued or in a batch, in every process from its start.
THEOREM MemoryReconciles == Spec => []MetricsReconcile
<1>1. Init => MetricsReconcile
    <2> SUFFICES ASSUME Init PROVE MetricsReconcile
        OBVIOUS
    <2>1. SumFunction([w \in Workers |-> Len(batch[w])]) = 0
        BY BatchedNone DEF Init, PoolInit
    <2>2. ch = <<>> /\ EventsAccepted = 0
          /\ EventsInserted = 0 /\ EventsDuplicate = 0 /\ EventsDropped = 0
        BY DEF Init, QueueInit, PoolInit, DoorsInit
    <2> QED  BY <2>1, <2>2 DEF MetricsReconcile
<1>2. TypeOK /\ TypeOK' /\ MetricsReconcile /\ [Next]_vars => MetricsReconcile'
    <2> SUFFICES ASSUME TypeOK, TypeOK', MetricsReconcile, [Next]_vars PROVE MetricsReconcile'
        OBVIOUS
    <2>1. ASSUME UNCHANGED <<ch, batch, metrics, EventsAccepted>> PROVE MetricsReconcile'
        BY <2>1 DEF MetricsReconcile, metrics
    <2>2. ASSUME NEW h \in Doors, EnqueueSend(h), UNCHANGED poolVars PROVE MetricsReconcile'
        <3>1. Head(todo[h]) \in Event /\ ch \in Seq(Event)
            BY <2>2 DEF EnqueueSend, InEnqueue, TypeOK, DoorTypeOK
        <3>2. /\ ch' = Append(ch, Head(todo[h])) /\ EventsAccepted' = EventsAccepted + 1
              /\ UNCHANGED <<batch, metrics>>
            BY <2>2 DEF EnqueueSend, ChanSend, Enqueued, poolVars
        <3>3. Len(ch') = Len(ch) + 1 /\ Len(ch) \in Int
            BY <3>1, <3>2
        <3>4. /\ EventsInserted \in Int /\ EventsDuplicate \in Int /\ EventsDropped \in Int
              /\ EventsAccepted \in Int
            BY DEF TypeOK, PoolTypeOK, DoorTypeOK
        <3> DEFINE Batched == SumFunction([v \in Workers |-> Len(batch[v])])
        <3>5. PICK w \in Workers : TRUE
            BY PoolAssumption
        <3>6. batch = [batch EXCEPT ![w] = batch[w]]
            BY DEF TypeOK, PoolTypeOK
        <3>7. Batched \in Int
            BY <3>2, <3>6, BatchedAfter DEF metrics
        <3>8. Batched' = Batched
            BY <3>2
        <3> HIDE DEF Batched
        <3> QED  BY <3>2, <3>3, <3>4, <3>7, <3>8 DEF MetricsReconcile, Batched, metrics
    <2>3. CASE \E h \in Doors : DoorStep(h)
        BY <2>1, <2>2, <2>3 DEF DoorStep, EnqueueLoad, EnqueueFull, EnqueuePanic, RejectInvalid,
            Fail, GoOn, acceptVars, queueVars, poolVars
    <2>4. CASE Crash
        <3>1. SumFunction([w \in Workers |-> Len(batch'[w])]) = 0
            BY <2>4, BatchedNone DEF Crash, PoolStart
        <3>2. ch' = <<>> /\ EventsAccepted' = 0
              /\ EventsInserted' = 0 /\ EventsDuplicate' = 0 /\ EventsDropped' = 0
            BY <2>4 DEF Crash, PoolStart, Restart
        <3> QED  BY <3>1, <3>2 DEF MetricsReconcile
    <2>5. CASE MainStep
        BY <2>1, <2>5 DEF MainStep, ShutdownReturns, CloseQueue, CloseChannel, Exit, CloseFlag,
            CloseChan, GracefulStopReturns, Goto, acceptVars, queueVars, poolVars
    <2>6. CASE UNCHANGED pipeVars /\ UNCHANGED acceptVars
        BY <2>1, <2>6 DEF pipeVars, acceptVars, queueVars, poolVars
    <2>7. CASE UNCHANGED vars
        BY <2>1, <2>7 DEF vars, doorVars, acceptVars, queueVars, poolVars
    <2> QED  BY <2>3, <2>4, <2>5, <2>6, <2>7, WorkerReconciles DEF Next, Stopped, postEvent,
                Publish, Arrive, Sigterm, Goto, MinutePasses
<1>3. Spec => []TypeOK
    BY MemoryTypes, PTL
<1> QED  BY <1>1, <1>2, <1>3, PTL DEF Spec

-----------------------------------------------------------------------------
(***************************************************************************)
(* The process implements Tally: the events in flight whose id is not      *)
(* stored are the pending ones, the rows the counted ones.                 *)
(***************************************************************************)
InFlight == Range(ch) \cup InHand

\* A send on the channel is the acceptance of the event.
LEMMA AcceptMaps ==
    ASSUME NEW e \in Event, events' = events, InFlight' = InFlight \cup {e}
    PROVE  Abstract!Next
<1>1. Abstract!Accept(e)
    BY DEF Abstract!Accept, Abstract!Uncounted, InFlight, StoredIds, IdsOf
<1> QED  BY <1>1 DEF Abstract!Next

\* A step that stores nothing and adds nothing at most loses events.
LEMMA LossMaps ==
    ASSUME events' = events, InFlight' \subseteq InFlight
    PROVE  Abstract!Next
<1>1. PICK S : S = {e \in InFlight : e.id \notin StoredIds /\ e \notin InFlight'}
    OBVIOUS
<1>2. StoredIds' = StoredIds
    BY DEF StoredIds, IdsOf
<1>3. Abstract!Lose(S) /\ S \in SUBSET {e \in Range(ch) \cup InHand : e.id \notin StoredIds}
    BY <1>1, <1>2 DEF Abstract!Lose, InFlight
<1> QED  BY <1>3, ZenonT(30) DEF Abstract!Next

\* A batch that commits counts its new rows; what it takes out of flight is stored.
LEMMA InsertMaps ==
    ASSUME NEW b, NEW new, InsertBatch(b, new), b \subseteq InFlight, InFlight' \subseteq InFlight,
           \A e \in InFlight : e \in b \/ e \in InFlight'
    PROVE  Abstract!Next
<1>1. /\ new \subseteq b /\ events' = events \cup new
      /\ \A r, s \in new : r.id = s.id => r = s
      /\ \A e \in new : e.id \notin StoredIds
      /\ \A e \in b : e.id \in StoredIds'
      /\ \A e : e.id \notin StoredIds' <=> e.id \notin StoredIds /\ \A r \in new : r.id # e.id
    BY InsertBatchCounts, ZenonT(30)
<1>2. Abstract!CountRows(new) /\ new \in SUBSET {e \in Range(ch) \cup InHand : e.id \notin StoredIds}
    BY <1>1 DEF Abstract!CountRows, Abstract!Uncounted, InFlight
<1> QED  BY <1>2, ZenonT(30) DEF Abstract!Next

\* The workers' steps.
LEMMA WorkerMaps ==
    ASSUME TypeInv, NEW w \in Workers, WorkerMoves(w)
    PROVE  Abstract!Next \/ UNCHANGED Abstract!vars
<1>1. batch \in [Workers -> Seq(Event)] /\ batch[w] \in Seq(Event) /\ ch \in Seq(Event)
    BY DEF TypeInv, TypeOK, PoolTypeOK
<1>2. Range(batch[w]) \subseteq InFlight
    BY DEF InFlight, InHand
<1>3. ASSUME FlushEnd(w) \/ UNCHANGED <<batch, queueVars>>
      PROVE  InFlight' \subseteq InFlight /\ \A e \in InFlight : e \in Range(batch[w]) \/ e \in InFlight'
    <2>1. CASE FlushEnd(w)
        <3>1. Range(<<>>) = {} /\ ch' = ch /\ batch' = [batch EXCEPT ![w] = <<>>]
            BY <2>1 DEF FlushEnd, queueVars, Range
        <3> QED  BY <1>1, <3>1, InHandAfter, ZenonT(30) DEF InFlight
    <2>2. CASE UNCHANGED <<batch, queueVars>>
        BY <2>2 DEF InFlight, InHand, queueVars
    <2> QED  BY <1>3, <2>1, <2>2
<1>4. CASE InsertOk(w) \/ InsertUnacknowledged(w)
    <2>1. PICK new : InsertBatch(Range(batch[w]), new)
        BY <1>4, ZenonT(30) DEF InsertOk, InsertUnacknowledged
    <2>2. FlushEnd(w) \/ UNCHANGED <<batch, queueVars>>
        BY <1>4, ZenonT(30) DEF InsertOk, InsertUnacknowledged, AttemptFailed
    <2> QED  BY <1>2, <1>3, <2>1, <2>2, InsertMaps, ZenonT(30)
<1>5. CASE InsertFail(w)
    <2>1. FlushEnd(w) \/ UNCHANGED <<batch, queueVars>>
        BY <1>5, ZenonT(30) DEF InsertFail, AttemptFailed
    <2> QED  BY <1>3, <1>5, <2>1, LossMaps, ZenonT(30) DEF InsertFail, storeVars
<1>6. CASE Receive(w)
    <2>1. Range(ch) = {Head(ch)} \cup Range(Tail(ch)) /\ ch' = Tail(ch) /\ events' = events
        BY <1>1, <1>6, RangeHeadTail DEF Receive, ChanReceive, storeVars
    <2>2. Range(Append(batch[w], Head(ch))) = Range(batch[w]) \cup {Head(ch)}
        BY <1>1, RangeAppend
    <2>3. InHand' \subseteq InHand \cup {Head(ch)}
        <3>1. InHand' \subseteq InHand \cup Range(Append(batch[w], Head(ch)))
            BY <1>1, <1>6, InHandAfter, ZenonT(30) DEF Receive
        <3> QED  BY <1>2, <2>2, <3>1 DEF InHand
    <2>4. InFlight' \subseteq InFlight
        BY <2>1, <2>3, ZenonT(30) DEF InFlight
    <2> QED  BY <2>1, <2>4, LossMaps
<1>7. CASE ReceiveClosed(w) \/ Tick(w)
    <2>1. UNCHANGED <<batch, queueVars>> /\ events' = events
        BY <1>7 DEF ReceiveClosed, Tick, storeVars
    <2> QED  BY <1>3, <2>1, LossMaps, ZenonT(30)
<1> QED  BY <1>4, <1>5, <1>6, <1>7, ZenonT(30) DEF WorkerMoves, WorkerStep

\* The doors, main, a crash and the environment.
LEMMA OtherMaps ==
    ASSUME TypeInv, [Next]_vars, \A w \in Workers : ~WorkerMoves(w)
    PROVE  Abstract!Next \/ UNCHANGED Abstract!vars
<1>1. ASSUME UNCHANGED <<storeVars, ch, batch>>
      PROVE  events' = events /\ InFlight' \subseteq InFlight
    BY <1>1 DEF storeVars, InFlight, InHand
<1>2. CASE \E h \in Doors : DoorStep(h)
    <2>1. PICK h \in Doors : DoorStep(h)
        BY <1>2
    <2>2. events' = events /\ batch' = batch
        BY <2>1 DEF DoorStep, storeVars, poolVars
    <2>3. CASE EnqueueSend(h)
        <3>1. ch' = Append(ch, Head(todo[h])) /\ Head(todo[h]) \in Event
            BY <2>3, ZenonT(30) DEF EnqueueSend, ChanSend, InEnqueue, TypeInv, TypeOK, DoorTypeOK
        <3>2. Range(ch') = Range(ch) \cup {Head(todo[h])}
            BY <3>1, RangeAppend DEF TypeInv, TypeOK
        <3>3. InFlight' = InFlight \cup {Head(todo[h])}
            BY <2>2, <3>2 DEF InFlight, InHand
        <3> QED  BY <2>2, <3>1, <3>3, AcceptMaps
    <2>4. CASE ~EnqueueSend(h)
        <3>1. ch' = ch
            BY <2>1, <2>4, ZenonT(30) DEF DoorStep, EnqueueLoad, EnqueueFull, EnqueuePanic, queueVars
        <3> QED  BY <2>2, <3>1, LossMaps, ZenonT(30) DEF InFlight, InHand
    <2> QED  BY <2>3, <2>4
<1>3. CASE Crash
    <2>1. events' = events /\ Range(ch') = {} /\ \A w \in Workers : Range(batch'[w]) = {}
        BY <1>3 DEF Crash, PoolStart, storeVars, Range
    <2>2. InFlight' = {}
        BY <2>1 DEF InFlight, InHand
    <2> QED  BY <2>1, <2>2, LossMaps
<1>4. CASE UNCHANGED pipeVars \/ UNCHANGED vars \/ MainStep
    <2>1. UNCHANGED <<storeVars, ch, batch>>
        BY <1>4, ZenonT(30) DEF pipeVars, vars, MainStep, ShutdownReturns, CloseQueue,
           CloseChannel, Exit, CloseFlag, CloseChan, queueVars, poolVars
    <2> QED  BY <1>1, <2>1, LossMaps
<1> QED  BY <1>2, <1>3, <1>4, ZenonT(30) DEF Next, Stopped

\* Memory mode does what tally promises, for any number of doors, workers and
\* crashes: an id is counted once, a counted row stays, only accepted events are
\* counted, and an event leaves the pipeline only counted or lost.
THEOREM MemoryImplements == Spec => ImplementsTally
<1>1. Init => Abstract!Init
    <2> SUFFICES ASSUME Init PROVE Abstract!Init
        OBVIOUS
    <2>1. events = {} /\ Range(ch) = {} /\ \A w \in Workers : Range(batch[w]) = {}
        BY DEF Init, StoreInit, QueueInit, PoolInit, Range
    <2> QED  BY <2>1 DEF Abstract!Init, InHand
<1>2. TypeInv /\ [Next]_vars => [Abstract!Next]_Abstract!vars
    BY WorkerMaps, OtherMaps, ZenonT(30)
<1>3. Init => TypeInv
    BY TypeInit
<1>4. TypeInv /\ [Next]_vars => TypeInv'
    BY TypeStep
<1> QED  BY <1>1, <1>2, <1>3, <1>4, PTL DEF Spec, ImplementsTally, Abstract!Spec
=============================================================================
