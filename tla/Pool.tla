-------------------------------- MODULE Pool --------------------------------
(***************************************************************************)
(* internal/worker: the goroutines that drain the memory queue into the    *)
(* store in batches, with onFlush of cmd/tally, which keeps the metrics.   *)
(***************************************************************************)
EXTENDS MemQueue, Store, Functions

CONSTANTS
    Workers,
    BatchSize,      \* flush when a batch reaches this many events
    MaxRetries      \* insert attempts per batch before giving up

ASSUME PoolAssumption ==
    /\ Workers # {} /\ IsFiniteSet(Workers)
    /\ BatchSize \in Nat \ {0}
    /\ MaxRetries \in Nat \ {0}

VARIABLES
    wpc,        \* "select" in run, "insert" in flush, "done" after return
    batch,      \* the worker's unflushed events
    attempt,    \* the attempt of the current flush
    exiting,    \* run saw the closed channel: this flush is the last one
    dropped,    \* history: the events of batches given up on
    EventsInserted, EventsDuplicate, EventsDropped  \* the Prometheus counters

metrics == <<EventsInserted, EventsDuplicate, EventsDropped>>
poolVars == <<wpc, batch, attempt, exiting, dropped, metrics>>

PoolInit ==
    /\ wpc = [w \in Workers |-> "select"]
    /\ batch = [w \in Workers |-> <<>>]
    /\ attempt = [w \in Workers |-> 1]
    /\ exiting = [w \in Workers |-> FALSE]
    /\ EventsInserted = 0 /\ EventsDuplicate = 0 /\ EventsDropped = 0

\* The same, in a process that starts again.
PoolStart ==
    /\ wpc' = [w \in Workers |-> "select"]
    /\ batch' = [w \in Workers |-> <<>>]
    /\ attempt' = [w \in Workers |-> 1]
    /\ exiting' = [w \in Workers |-> FALSE]
    /\ EventsInserted' = 0 /\ EventsDuplicate' = 0 /\ EventsDropped' = 0

-----------------------------------------------------------------------------
\* Faulty variant: the batch is compared with > instead of >=.
Receive_OneMore(w) ==
    /\ wpc[w] = "select"
    /\ ChanReceive
    /\ batch' = [batch EXCEPT ![w] = Append(@, Head(ch))]
    /\ wpc' = [wpc EXCEPT ![w] = IF Len(batch[w]) + 1 > BatchSize THEN "insert" ELSE @]
    /\ UNCHANGED <<attempt, exiting, dropped, metrics, storeVars>>

\* run: an event arrives; a full batch is flushed.
Receive(w) ==
    /\ wpc[w] = "select"
    /\ ChanReceive
    /\ batch' = [batch EXCEPT ![w] = Append(@, Head(ch))]
    /\ wpc' = [wpc EXCEPT ![w] = IF Len(batch[w]) + 1 >= BatchSize THEN "insert" ELSE @]
    /\ UNCHANGED <<attempt, exiting, dropped, metrics, storeVars>>

\* Faulty variant: run returns without the last flush.
ReceiveClosed_NoFlush(w) ==
    /\ wpc[w] = "select"
    /\ ChanDrained
    /\ exiting' = [exiting EXCEPT ![w] = TRUE]
    /\ wpc' = [wpc EXCEPT ![w] = "done"]
    /\ UNCHANGED <<batch, attempt, dropped, metrics, queueVars, storeVars>>

\* Faulty variant: run returns only after a last flush that had something to do.
ReceiveClosed_NeedsBatch(w) ==
    /\ wpc[w] = "select"
    /\ ChanDrained
    /\ batch[w] # <<>>
    /\ exiting' = [exiting EXCEPT ![w] = TRUE]
    /\ wpc' = [wpc EXCEPT ![w] = "insert"]
    /\ UNCHANGED <<batch, attempt, dropped, metrics, queueVars, storeVars>>

\* run: the queue is closed and drained; flush what is left and return.
ReceiveClosed(w) ==
    /\ wpc[w] = "select"
    /\ ChanDrained
    /\ exiting' = [exiting EXCEPT ![w] = TRUE]
    /\ wpc' = [wpc EXCEPT ![w] = IF batch[w] = <<>> THEN "done" ELSE "insert"]
    /\ UNCHANGED <<batch, attempt, dropped, metrics, queueVars, storeVars>>

\* Faulty variant: the ticker leaves partial batches alone.
Tick_OnlyFull(w) ==
    /\ wpc[w] = "select"
    /\ Len(batch[w]) >= BatchSize
    /\ wpc' = [wpc EXCEPT ![w] = "insert"]
    /\ UNCHANGED <<batch, attempt, exiting, dropped, metrics, queueVars, storeVars>>

\* run: the ticker fires (with an empty batch flush returns at once).
Tick(w) ==
    /\ wpc[w] = "select"
    /\ batch[w] # <<>>
    /\ wpc' = [wpc EXCEPT ![w] = "insert"]
    /\ UNCHANGED <<batch, attempt, exiting, dropped, metrics, queueVars, storeVars>>

\* Faulty variant: the batch is not reset.
FlushEnd_KeepsBatch(w) ==
    /\ attempt' = [attempt EXCEPT ![w] = 1]
    /\ wpc' = [wpc EXCEPT ![w] = IF exiting[w] THEN "done" ELSE "select"]
    /\ UNCHANGED <<batch, exiting, queueVars>>

\* The end of flush: the batch is emptied and run goes on, or returns.
FlushEnd(w) ==
    /\ batch' = [batch EXCEPT ![w] = <<>>]
    /\ attempt' = [attempt EXCEPT ![w] = 1]
    /\ wpc' = [wpc EXCEPT ![w] = IF exiting[w] THEN "done" ELSE "select"]
    /\ UNCHANGED <<exiting, queueVars>>

\* Faulty variant: an error ends the flush as a success does.
AttemptFailed_Forgets(w) == FlushEnd(w) /\ UNCHANGED <<dropped, metrics>>

\* flush: an attempt returns an error; after the last one the batch is dropped.
AttemptFailed(w) ==
    \/ /\ attempt[w] < MaxRetries
       /\ attempt' = [attempt EXCEPT ![w] = @ + 1]
       /\ UNCHANGED <<wpc, batch, exiting, dropped, metrics, queueVars>>
    \/ /\ attempt[w] = MaxRetries
       /\ dropped' = dropped \cup Range(batch[w])
       /\ EventsDropped' = EventsDropped + Len(batch[w])
       /\ UNCHANGED <<EventsInserted, EventsDuplicate>>
       /\ FlushEnd(w)

\* flush: InsertBatch commits and its answer arrives.
InsertOk(w) ==
    /\ wpc[w] = "insert"
    /\ \E new \in SUBSET Range(batch[w]) :
        /\ InsertBatch(Range(batch[w]), new)
        /\ EventsInserted' = EventsInserted + Cardinality(new)
        /\ EventsDuplicate' = EventsDuplicate + Len(batch[w]) - Cardinality(new)
    /\ FlushEnd(w)
    /\ UNCHANGED <<dropped, EventsDropped>>

\* flush: InsertBatch rolls back, or never reaches the database.
InsertFail(w) ==
    /\ wpc[w] = "insert"
    /\ AttemptFailed(w)
    /\ UNCHANGED storeVars

\* flush: InsertBatch commits but the 10 s context or the connection ends
\* before the answer: the worker sees an error.  A COMMIT that lands still
\* later is placed here, at the attempt that sent it.
InsertUnacknowledged(w) ==
    /\ wpc[w] = "insert"
    /\ \E new \in SUBSET Range(batch[w]) : InsertBatch(Range(batch[w]), new)
    /\ AttemptFailed(w)

WorkerStep(w) ==
    \/ Receive(w) \/ ReceiveClosed(w) \/ Tick(w)
    \/ InsertOk(w) \/ InsertFail(w) \/ InsertUnacknowledged(w)

-----------------------------------------------------------------------------
PoolTypeOK ==
    /\ wpc \in [Workers -> {"select", "insert", "done"}]
    /\ batch \in [Workers -> Seq(Event)]
    /\ attempt \in [Workers -> 1 .. MaxRetries]
    /\ exiting \in [Workers -> BOOLEAN]
    /\ EventsInserted \in Nat /\ EventsDuplicate \in Nat /\ EventsDropped \in Nat
    /\ dropped \subseteq Event

\* The events a worker has taken and not yet stored or dropped.
InHand == UNION {Range(batch[w]) : w \in Workers}
=============================================================================
