---------------------------- MODULE MemoryTally ----------------------------
(***************************************************************************)
(* QUEUE=memory: the doors, the memory queue, the worker pool and          *)
(* the shutdown of cmd/tally in one process, over the store, which         *)
(* outlives the process.                                                   *)
(***************************************************************************)
EXTENDS Doors, Pool

CONSTANT MaxCrashes     \* bound: crashes and restarts of the process

ASSUME CrashAssumption == MaxCrashes \in Nat

VARIABLES
    panicked,   \* the doors whose send hit the closed channel
    crashes,
    lost        \* history: the accepted events that died with a process

vars == <<storeVars, queueVars, poolVars, doorVars, panicked, crashes, lost>>

\* main: serving, in srv.Shutdown, in GracefulStop, between the two steps of
\* q.Close, in pool.Wait, returned.
Phases == {"serving", "shutdown", "gracefulStop", "closing", "waiting", "exited"}

Init ==
    /\ StoreInit /\ QueueInit /\ PoolInit /\ DoorsInit
    /\ panicked = {} /\ crashes = 0 /\ dropped = {} /\ lost = {}

-----------------------------------------------------------------------------
\* Memory.Enqueue: q.closed.Load...
EnqueueLoad(h) ==
    /\ Ready(h)
    /\ \/ closed /\ Fail(h)
       \/ ~closed /\ GoOn(h)
    /\ UNCHANGED <<panicked, queueVars>>

\* ...then the select, by outcome.
EnqueueSend(h) ==
    /\ InEnqueue(h)
    /\ ChanSend(Head(todo[h]))
    /\ Enqueued(h)
    /\ UNCHANGED panicked

EnqueueFull(h) ==
    /\ InEnqueue(h)
    /\ ChanFull
    /\ Fail(h)
    /\ UNCHANGED <<panicked, queueVars>>

EnqueuePanic(h) ==
    /\ InEnqueue(h)
    /\ ChanPanics
    /\ panicked' = panicked \cup {h}
    /\ Fail(h)
    /\ UNCHANGED queueVars

DoorStep(h) ==
    /\ \/ EnqueueLoad(h) \/ EnqueueSend(h) \/ EnqueueFull(h) \/ EnqueuePanic(h)
       \/ RejectInvalid(h) /\ UNCHANGED <<panicked, queueVars>>
    /\ UNCHANGED <<storeVars, poolVars, crashes, lost>>

-----------------------------------------------------------------------------
\* main, after GracefulStop: the compare-and-swap of q.Close...
CloseQueue == GracefulStopReturns("closing") /\ CloseFlag

\* ...close(q.ch)...
CloseChannel == Goto("closing", "waiting") /\ CloseChan /\ UNCHANGED <<hpc, todo, timedOut>>

\* ...and pool.Wait, after which main returns.
Exit ==
    /\ \A w \in Workers : wpc[w] = "done"
    /\ Goto("waiting", "exited")
    /\ HandlersDie
    /\ UNCHANGED <<timedOut, queueVars>>

MainStep ==
    /\ \/ ShutdownReturns /\ UNCHANGED queueVars
       \/ CloseQueue \/ CloseChannel \/ Exit
    /\ UNCHANGED <<storeVars, poolVars, panicked, crashes, lost>>

Crash ==
    /\ crashes < MaxCrashes
    /\ crashes' = crashes + 1
    /\ lost' = lost \cup Range(ch) \cup InHand
    /\ Restart /\ PoolStart
    /\ ch' = <<>> /\ closed' = FALSE /\ chClosed' = FALSE /\ panicked' = {}
    /\ UNCHANGED <<storeVars, dropped>>

\* After main returns nothing happens until the process is started again.
Stopped == phase = "exited" /\ UNCHANGED vars

pipeVars == <<storeVars, queueVars, poolVars, panicked, crashes, lost>>
WorkerMoves(w) == WorkerStep(w) /\ UNCHANGED <<doorVars, panicked, crashes, lost>>

Next ==
    \/ \E h \in HttpDoors, p \in Posts : postEvent(h, p) /\ UNCHANGED pipeVars
    \/ \E h \in GrpcDoors, ps \in Publishes : Publish(h, ps) /\ UNCHANGED pipeVars
    \/ \E h \in Doors : DoorStep(h)
    \/ \E w \in Workers : WorkerMoves(w)
    \/ Sigterm /\ UNCHANGED pipeVars
    \/ MainStep
    \/ Crash
    \/ MinutePasses /\ UNCHANGED pipeVars
    \/ Stopped

Spec == Init /\ [][Next]_vars

(***************************************************************************)
(* The Go scheduler runs every runnable goroutine, the ticker fires, an    *)
(* InsertBatch attempt ends within its 10 s and srv.Shutdown within its    *)
(* own.  Clients, signals, crashes and the clock owe nothing.              *)
(***************************************************************************)
Fairness ==
    /\ \A h \in Doors : WF_vars(DoorStep(h))
    /\ \A w \in Workers : WF_vars(WorkerMoves(w))
    /\ WF_vars(MainStep)

FairSpec == Spec /\ Fairness

-----------------------------------------------------------------------------
TypeOK ==
    /\ StoreTypeOK /\ PoolTypeOK /\ DoorTypeOK
    /\ ch \in Seq(Event) /\ closed \in BOOLEAN /\ chClosed \in BOOLEAN
    /\ phase \in Phases /\ timedOut \in BOOLEAN /\ panicked \subseteq Doors
    /\ crashes \in Nat /\ lost \subseteq Event

\* Every event a client was told is accepted is in the queue, in a worker's
\* batch or in the store, or was given up after MaxRetries or died in a crash:
\* no interleaving of doors, workers and shutdown lets one slip away.
AcceptedAccounted ==
    \A e \in accepted :
        \/ e.id \in StoredIds
        \/ e \in Range(ch) \cup InHand
        \/ e \in dropped \cup lost

\* When main returns, nothing is left in the queue or in a batch: closing the
\* channel drains it even while a handler that outlived srv.Shutdown still runs.
DrainedAtExit == phase = "exited" => ch = <<>> /\ InHand = {}

\* The send on the closed channel happens only to an HTTP handler that
\* srv.Shutdown stopped waiting for, never to an RPC.
PanicOnlyAfterTimeout == panicked # {} => timedOut /\ panicked \subseteq HttpDoors

\* What makes the last two hold at every step: how far main has come fixes
\* the state of the queue and of the doors it has waited for, and a worker
\* leaves run only after the closed channel has run dry.
ShutdownInv ==
    /\ closed <=> phase \in {"closing", "waiting", "exited"}
    /\ chClosed <=> phase \in {"waiting", "exited"}
    /\ closed => Idle(GrpcDoors)
    /\ phase \notin {"serving", "shutdown"} /\ ~timedOut => Idle(HttpDoors)
    /\ phase \in {"serving", "shutdown"} => panicked = {}
    /\ \A w \in Workers : exiting[w] => ch = <<>> /\ chClosed
    /\ \A w \in Workers : wpc[w] = "done" => exiting[w] /\ batch[w] = <<>>
    /\ phase = "exited" => \A w \in Workers : wpc[w] = "done"
    /\ PanicOnlyAfterTimeout

\* The counters of onFlush and of the doors add up to the events in flight:
\* accepted = inserted + duplicate + dropped + queued + in a batch.  (A counter
\* moves with the call it follows: this is what /metrics shows when no handler
\* or worker stands between the two.)
MetricsReconcile ==
    EventsAccepted = EventsInserted + EventsDuplicate + EventsDropped
        + Len(ch) + SumFunction([w \in Workers |-> Len(batch[w])])

\* The queue never holds more than QUEUE_SIZE events and a worker never more
\* than BatchSize, a full batch only while it is flushed; a flush begins with the
\* first of its MaxRetries attempts, however the one before it ended.
Bounded ==
    /\ Len(ch) <= QueueSize
    /\ \A w \in Workers :
        /\ Len(batch[w]) <= BatchSize /\ attempt[w] <= MaxRetries
        /\ wpc[w] # "insert" => Len(batch[w]) < BatchSize /\ attempt[w] = 1

\* The process does what tally promises (module Tally): an id is counted once,
\* counted rows stay, and only accepted events are counted.
Abstract == INSTANCE Tally WITH
    pending <- {e \in Range(ch) \cup InHand : e.id \notin StoredIds},
    counted <- events
ImplementsTally == Abstract!Spec

\* An accepted event does not linger: it is stored, dropped or lost (the ticker
\* flushes a partial batch, shutdown the rest).
AcceptedResolved ==
    \A e \in Event :
        e \in accepted ~> e.id \in StoredIds \/ e \in dropped \cup lost

\* SIGTERM leads to the end of main, unless the process is killed first: no
\* step of the shutdown waits for ever on a handler or on a worker.
ShutdownCompletes == phase = "shutdown" ~> phase \in {"exited", "serving"}

-----------------------------------------------------------------------------
\* internal/queue/queue.go: the HTTP server is stopped before Close, "so no
\* Enqueue can race with the channel closing": no handler is between closed.Load
\* and the send when the channel closes.  Not so after the 10 s.
NoEnqueueRacesClose == chClosed => \A h \in Doors : ~InEnqueue(h)
=============================================================================
