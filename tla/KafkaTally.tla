----------------------------- MODULE KafkaTally -----------------------------
(***************************************************************************)
(* QUEUE=kafka: an ingest process (the doors and KafkaProducer),           *)
(* the broker and a group of worker processes (KafkaConsumer) over the     *)
(* store.  MODE=all puts one of each in a process: its behaviours are      *)
(* among these.  json.Marshal and json.Unmarshal are inverse on the events *)
(* the doors build, so a record is the event it encodes.                   *)
(***************************************************************************)
EXTENDS Doors, KafkaConsumer

CONSTANTS
    PartitionOf,    \* the partition of each key, the event's name
    MaxBuffered,    \* QUEUE_SIZE, the bound of the client's buffer
    BrokerRefuses,  \* the broker may refuse a record for good
    Garbled,        \* partitions another program writes a malformed record to
    MaxFaults       \* bound: kills, stops, crashes and reassignments

ASSUME ProducerAssumption ==
    /\ PartitionOf \in [Names -> Partitions]
    /\ MaxBuffered \in Nat \ {0}
    /\ BrokerRefuses \in BOOLEAN
    /\ Garbled \subseteq Partitions
    /\ MaxFaults \in Nat

VARIABLES
    buffer,     \* the producer's records not yet acknowledged, by partition
    lost,       \* history: events whose record the producer gave up
    faults

producerVars == <<buffer, lost>>
vars == <<storeVars, doorVars, brokerVars, consumerVars, producerVars, faults>>

\* main: as in memory mode up to GracefulStop, then in producer.Close, then
\* with the client closed, then returned.
Phases == {"serving", "shutdown", "gracefulStop", "flushing", "closed", "exited"}

NoRecords == [p \in Partitions |-> <<>>]

Init ==
    /\ StoreInit /\ DoorsInit /\ ConsumersInit
    /\ buffer = NoRecords /\ lost = {} /\ faults = 0

Buffered == SumFunction([p \in Partitions |-> Len(buffer[p])])
InBuffer == UNION {Range(buffer[p]) : p \in Partitions}
InLog == (UNION {Range(log[p]) : p \in Partitions}) \ {Malformed}

-----------------------------------------------------------------------------
\* Faulty variant: a full buffer drops the event without an error.
EnqueueCheck_Drops(h) ==
    /\ Ready(h)
    /\ \/ Buffered >= MaxBuffered /\ Enqueued(h)
       \/ Buffered < MaxBuffered /\ GoOn(h)
    /\ UNCHANGED producerVars

\* KafkaProducer.Enqueue: the check of BufferedProduceRecords...
EnqueueCheck(h) ==
    /\ Ready(h)
    /\ \/ Buffered >= MaxBuffered /\ Fail(h)
       \/ Buffered < MaxBuffered /\ GoOn(h)
    /\ UNCHANGED producerVars

\* ...then Produce, which waits while the client's buffer is full: the check
\* may be stale, and then Enqueue does block the request ("without blocking the
\* request path", kafka.go:48).
EnqueueProduce(h) ==
    /\ InEnqueue(h)
    /\ phase # "closed" /\ Buffered < MaxBuffered
    /\ buffer' = [buffer EXCEPT ![PartitionOf[Head(todo[h]).name]] = Append(@, Head(todo[h]))]
    /\ Enqueued(h)
    /\ UNCHANGED lost

\* On a closed client the record fails at once, and Enqueue returns nil.
EnqueueClosed(h) ==
    /\ InEnqueue(h)
    /\ phase = "closed"
    /\ lost' = lost \cup {Head(todo[h])}
    /\ Enqueued(h)
    /\ UNCHANGED buffer

DoorStep(h) ==
    /\ \/ EnqueueCheck(h) \/ EnqueueProduce(h) \/ EnqueueClosed(h)
       \/ RejectInvalid(h) /\ UNCHANGED producerVars
    /\ UNCHANGED <<storeVars, brokerVars, consumerVars, faults>>

\* The client delivers the records of a partition in order...
Deliver(p) ==
    /\ buffer[p] # <<>>
    /\ buffer' = [buffer EXCEPT ![p] = Tail(@)]
    /\ log' = [log EXCEPT ![p] = Append(@, Head(buffer[p]))]
    /\ UNCHANGED <<storeVars, doorVars, committed, consumerVars, lost, faults>>

\* ...or gives one up; the callback only logs it.
ProduceFails(p) ==
    /\ BrokerRefuses
    /\ buffer[p] # <<>>
    /\ buffer' = [buffer EXCEPT ![p] = Tail(@)]
    /\ lost' = lost \cup {Head(buffer[p])}
    /\ UNCHANGED <<storeVars, doorVars, brokerVars, consumerVars, faults>>

ForeignWrite(p) ==
    /\ p \in Garbled /\ Malformed \notin Range(log[p])
    /\ log' = [log EXCEPT ![p] = Append(@, Malformed)]
    /\ UNCHANGED <<storeVars, doorVars, committed, consumerVars, producerVars, faults>>

-----------------------------------------------------------------------------
\* Faulty variant: Flush without a timeout.
FlushReturns_NoTimeout ==
    /\ Goto("flushing", "closed") /\ InBuffer = {}
    /\ UNCHANGED <<hpc, todo, timedOut, producerVars>>

\* producer.Close: Flush ends with an empty buffer or after 15 s; closing the
\* client gives up what is left.
FlushReturns ==
    /\ Goto("flushing", "closed")
    /\ lost' = lost \cup InBuffer
    /\ buffer' = NoRecords
    /\ UNCHANGED <<hpc, todo, timedOut>>

Exit == Goto("closed", "exited") /\ HandlersDie /\ UNCHANGED <<timedOut, producerVars>>

MainStep ==
    /\ \/ (ShutdownReturns \/ GracefulStopReturns("flushing")) /\ UNCHANGED producerVars
       \/ FlushReturns \/ Exit
    /\ UNCHANGED <<storeVars, brokerVars, consumerVars, faults>>

Crash ==
    /\ Restart
    /\ lost' = lost \cup InBuffer
    /\ buffer' = NoRecords
    /\ UNCHANGED <<storeVars, brokerVars, consumerVars>>

\* What the environment does to the processes, MaxFaults times.
Fault ==
    /\ faults < MaxFaults
    /\ faults' = faults + 1
    /\ \/ Crash
       \/ /\ \E c \in Consumers : \/ Kill(c) \/ Stop(c)
                                  \/ \E p \in Partitions : Reassign(p, c)
          /\ UNCHANGED <<doorVars, producerVars>>

restVars == <<storeVars, brokerVars, consumerVars, producerVars, faults>>
ingestVars == <<doorVars, producerVars, faults>>

\* After main returns the members may have nothing left to do.
Rest == phase = "exited" /\ UNCHANGED vars

Next ==
    \/ \E h \in HttpDoors, p \in Posts : postEvent(h, p) /\ UNCHANGED restVars
    \/ \E h \in GrpcDoors, ps \in Publishes : Publish(h, ps) /\ UNCHANGED restVars
    \/ \E h \in Doors : DoorStep(h)
    \/ \E p \in Partitions : Deliver(p) \/ ProduceFails(p) \/ ForeignWrite(p)
    \/ \E c \in Consumers : (RunStep(c) \/ Start(c)) /\ UNCHANGED ingestVars
    \/ \E c \in Consumers, p \in Partitions : Assign(p, c) /\ UNCHANGED ingestVars
    \/ (Sigterm \/ MinutePasses) /\ UNCHANGED restVars
    \/ MainStep \/ Fault \/ Rest

Spec == Init /\ [][Next]_vars

(***************************************************************************)
(* Handlers, main and members run; the broker assigns free partitions; the *)
(* database takes a batch in the end; members that stopped are started     *)
(* again.  Nobody owes a request, a signal or a fault, nor the broker that *)
(* it takes the producer's records.                                        *)
(***************************************************************************)
Fairness ==
    /\ \A h \in Doors : WF_vars(DoorStep(h))
    /\ WF_vars(MainStep)
    /\ \A c \in Consumers :
        /\ WF_vars(Poll(c) /\ UNCHANGED ingestVars)
        /\ WF_vars(InsertOk(c) /\ UNCHANGED ingestVars)
        /\ WF_vars((CommitRecords(c) \/ Return(c)) /\ UNCHANGED ingestVars)
        /\ WF_vars(Start(c) /\ UNCHANGED ingestVars)
    /\ \A p \in Partitions :
        WF_vars(\E c \in Consumers : Assign(p, c) /\ UNCHANGED ingestVars)

FairSpec == Spec /\ Fairness

-----------------------------------------------------------------------------
TypeOK ==
    /\ StoreTypeOK /\ DoorTypeOK /\ ConsumerTypeOK
    /\ phase \in Phases /\ timedOut \in BOOLEAN
    /\ buffer \in [Partitions -> Seq(Event)]
    /\ lost \subseteq Event /\ faults \in Nat

\* An accepted event is in the producer's buffer or in the log, or was given up
\* by the producer (refused, flush timeout, crash of the ingest process).
AcceptedLogged == accepted \subseteq InBuffer \cup InLog \cup lost

\* The pipeline does what tally promises (module Tally).
Abstract == INSTANCE Tally WITH
    pending <- {e \in InBuffer \cup InLog : e.id \notin StoredIds},
    counted <- events
ImplementsTally == Abstract!Spec

\* An event in the log is stored in the end, through kills, reassignments and
\* stale commits: the group always redelivers it.
LoggedStored ==
    \A e \in Event : e \in InLog /\ e.id \notin Unstorable ~> e.id \in StoredIds

\* A handler that passed the check of Enqueue waits for room in the buffer.
WaitsInProduce(h) == InEnqueue(h) /\ phase # "closed" /\ Buffered >= MaxBuffered

\* SIGTERM leads to the end of main, unless the ingest process crashes first or
\* an RPC waits in Produce for ever: with a broker that takes nothing any more
\* the 10 s of srv.Shutdown and the 15 s of Flush end all other waits.
ShutdownCompletes ==
    phase = "shutdown" ~>
        \/ phase \in {"exited", "serving"}
        \/ [](\E h \in GrpcDoors : WaitsInProduce(h))
=============================================================================
