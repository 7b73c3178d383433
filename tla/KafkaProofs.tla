---------------------------- MODULE KafkaProofs ----------------------------
(***************************************************************************)
(* KafkaTally: no offset is committed before its records are stored, no    *)
(* accepted event is lost once it is in the log, and it implements Tally:  *)
(* for any number of members, partitions, kills and reassignments.         *)
(***************************************************************************)
EXTENDS KafkaTally, PipelineProofs

\* A leaf goes to Zenon for two seconds, then to the SMT solver.
USE ZenonT(2), SMTT(30)

\* The decoded records of a poll are a finite set of events.
LEMMA DecodedFinite ==
    ASSUME ConsumerTypeOK, \A p \in Partitions : OffsetsInLog(p), NEW c \in Consumers
    PROVE  Decoded(c) \subseteq Event /\ IsFiniteSet(Decoded(c))
<1>1. ASSUME NEW p \in Partitions
      PROVE  RecordsOf(p, c) \subseteq Event \cup {Malformed} /\ IsFiniteSet(RecordsOf(p, c))
    <2> DEFINE I == from[c][p] + 1 .. upto[c][p]
               f == [i \in I |-> log[p][i]]
    <2>1. from[c][p] \in Nat /\ upto[c][p] \in Nat /\ log[p] \in Seq(Event \cup {Malformed})
          /\ upto[c][p] <= Len(log[p])
        BY DEF ConsumerTypeOK, OffsetsInLog
    <2>2. IsFiniteSet(I)
        <3>1. from[c][p] + 1 \in Int /\ upto[c][p] \in Int
            BY <2>1
        <3> QED  BY <3>1, FS_Interval
    <2>3. f \in Surjection(I, RecordsOf(p, c))
        BY DEF Surjection, RecordsOf
    <2>4. \A i \in I : log[p][i] \in Event \cup {Malformed}
        BY <2>1
    <2> QED  BY <2>2, <2>3, <2>4, FS_Surjection DEF RecordsOf
<1> DEFINE sets == {RecordsOf(p, c) : p \in Partitions}
           g == [p \in Partitions |-> RecordsOf(p, c)]
<1>2. g \in Surjection(Partitions, sets)
    BY DEF Surjection
<1>3. IsFiniteSet(sets)
    BY <1>2, FS_Surjection, ConsumerAssumption
<1>4. IsFiniteSet(UNION sets)
    BY <1>1, <1>3, FS_UNION, ZenonT(30)
<1>5. Decoded(c) \subseteq UNION sets /\ Decoded(c) \subseteq Event
    BY <1>1 DEF Decoded
<1> QED  BY <1>4, <1>5, FS_Subset

-----------------------------------------------------------------------------
(***************************************************************************)
(* Types of the group.                                                     *)
(***************************************************************************)
GroupStep == \E c \in Consumers :
    \/ RunStep(c) \/ Start(c) \/ Kill(c) \/ Stop(c)
    \/ \E p \in Partitions : Assign(p, c) \/ Reassign(p, c)

\* A member or the group moves.
LEMMA GroupType ==
    ASSUME ConsumerTypeOK, GroupStep
    PROVE  ConsumerTypeOK'
<1>1. PICK c \in Consumers : \/ RunStep(c) \/ Start(c) \/ Kill(c) \/ Stop(c)
                             \/ \E p \in Partitions : Assign(p, c) \/ Reassign(p, c)
    BY DEF GroupStep
<1>2. NoOffsets \in [Partitions -> Nat]
    BY DEF NoOffsets
<1>3. CASE Poll(c)
    <2>1. PICK next \in [Partitions -> Offsets] :
              /\ pos' = next
              /\ from' = [from EXCEPT ![c] = pos]
              /\ upto' = [upto EXCEPT ![c] = next]
        BY <1>3, ZenonT(30) DEF Poll
    <2>2. Offsets \subseteq Nat
        BY DEF Offsets, ConsumerTypeOK
    <2>3. next \in [Partitions -> Nat]
        BY <2>2, ZenonT(30)
    <2> QED  BY <1>3, <2>1, <2>3 DEF Poll, ConsumerTypeOK, brokerVars
<1>4. CASE InsertOk(c) \/ InsertUnacknowledged(c)
    BY <1>4 DEF InsertOk, InsertUnacknowledged, ConsumerTypeOK, brokerVars, groupVars, consumerVars
<1>5. CASE CommitRecords(c)
    <2>1. committed' \in [Partitions -> Nat]
        BY <1>5 DEF CommitRecords, ConsumerTypeOK
    <2> QED  BY <1>2, <1>5, <2>1 DEF CommitRecords, Forget, ConsumerTypeOK, groupVars
<1>6. CASE Gone(c)
    BY <1>2, <1>6 DEF Gone, Forget, ConsumerTypeOK, brokerVars
<1>7. CASE Start(c) \/ Stop(c)
    BY <1>7, ZenonT(30) DEF Start, Stop, ConsumerTypeOK, brokerVars, groupVars
<1>8. ASSUME NEW p \in Partitions, GiveTo(p, c) PROVE ConsumerTypeOK'
    BY <1>8 DEF GiveTo, ConsumerTypeOK, brokerVars
<1> QED  BY <1>1, <1>3, <1>4, <1>5, <1>6, <1>7, <1>8 DEF RunStep, Return, Kill, Assign, Reassign

-----------------------------------------------------------------------------
(***************************************************************************)
(* Delivery.                                                               *)
(***************************************************************************)
\* A settled record stays settled: rows are never deleted, records never move.
LEMMA SettledStays ==
    ASSUME NEW p, NEW i, Settled(p, i),
           StoredIds \subseteq StoredIds', log'[p][i] = log[p][i]
    PROVE  Settled(p, i)'
BY DEF Settled

\* The log grows and nothing else of the group changes.
LEMMA GrowDelivers ==
    ASSUME ConsumerTypeOK, DeliveryInv,
           UNCHANGED <<committed, consumerVars>>,
           StoredIds \subseteq StoredIds',
           \A p \in Partitions :
               /\ Len(log'[p]) \in Nat /\ Len(log[p]) <= Len(log'[p])
               /\ \A i \in 1 .. Len(log[p]) : log'[p][i] = log[p][i]
    PROVE  DeliveryInv'
<1>1. UNCHANGED <<committed, owner, pos, cpc, from, upto>>
    BY DEF consumerVars, groupVars
<1> SUFFICES ASSUME NEW p \in Partitions
             PROVE  /\ \A i \in 1 .. committed[p] : Settled(p, i)'
                    /\ OffsetsInLog(p)'
                    /\ \A c \in Consumers : FetchedInHand(p, c)' /\ PolledAfterSettled(p, c)'
    BY <1>1 DEF DeliveryInv, CommittedStored
<1>2. /\ committed[p] \in Nat /\ pos[p] \in Nat /\ Len(log[p]) \in Nat
      /\ committed[p] <= Len(log[p]) /\ pos[p] <= Len(log[p])
      /\ \A c \in Consumers : /\ from[c][p] \in Nat /\ upto[c][p] \in Nat
                              /\ upto[c][p] <= Len(log[p])
    BY DEF ConsumerTypeOK, DeliveryInv, OffsetsInLog
<1>3. \A i \in 1 .. Len(log[p]) : Settled(p, i) => Settled(p, i)'
    BY SettledStays
<1>4. \A i \in 1 .. committed[p] : Settled(p, i)'
    BY <1>2, <1>3 DEF DeliveryInv, CommittedStored
<1>5. OffsetsInLog(p)'
    BY <1>1, <1>2 DEF OffsetsInLog
<1>6. ASSUME NEW c \in Consumers PROVE FetchedInHand(p, c)'
    BY <1>1, <1>2, <1>3 DEF DeliveryInv, FetchedInHand
<1>7. ASSUME NEW c \in Consumers PROVE PolledAfterSettled(p, c)'
    BY <1>1, <1>2, <1>3 DEF DeliveryInv, PolledAfterSettled
<1> QED  BY <1>4, <1>5, <1>6, <1>7

\* A member or the group moves.
LEMMA GroupDelivers ==
    ASSUME ConsumerTypeOK, DeliveryInv, GroupStep
    PROVE  DeliveryInv'
<1>1. PICK c \in Consumers : \/ RunStep(c) \/ Start(c) \/ Kill(c) \/ Stop(c)
                             \/ \E p \in Partitions : Assign(p, c) \/ Reassign(p, c)
    BY DEF GroupStep
<1>2. log' = log /\ StoredIds \subseteq StoredIds'
    <2>1. \A new : InsertBatch(Decoded(c), new) => StoredIds \subseteq StoredIds'
        BY DecodedFinite, InsertBatchStores DEF DeliveryInv
    <2> QED  BY <1>1, <2>1 DEF RunStep, Poll, InsertOk, InsertUnacknowledged, CommitRecords, Return,
                Kill, Gone, Start, Stop, Assign, Reassign, GiveTo, brokerVars, storeVars, StoredIds
<1>3. \A p, i : Settled(p, i) => Settled(p, i)'
    BY <1>2, SettledStays
<1>4. ConsumerTypeOK'
    BY GroupType
<1> SUFFICES ASSUME NEW p \in Partitions, NEW d \in Consumers
             PROVE  /\ \A i \in 1 .. committed'[p] : Settled(p, i)'
                    /\ committed'[p] <= Len(log[p]) /\ pos'[p] <= Len(log[p])
                    /\ upto'[d][p] <= Len(log[p])
                    /\ FetchedInHand(p, d)' /\ PolledAfterSettled(p, d)'
    BY <1>1, <1>2 DEF DeliveryInv, CommittedStored, OffsetsInLog
<1>5. /\ committed[p] \in Nat /\ pos[p] \in Nat /\ Len(log[p]) \in Nat
      /\ from[d][p] \in Nat /\ upto[d][p] \in Nat
      /\ from[c][p] \in Nat /\ upto[c][p] \in Nat
    BY DEF ConsumerTypeOK
<1>6. /\ \A i \in 1 .. committed[p] : Settled(p, i)
      /\ committed[p] <= Len(log[p]) /\ pos[p] <= Len(log[p])
      /\ upto[d][p] <= Len(log[p]) /\ upto[c][p] <= Len(log[p])
      /\ FetchedInHand(p, d) /\ PolledAfterSettled(p, d)
      /\ FetchedInHand(p, c) /\ PolledAfterSettled(p, c)
    BY DEF DeliveryInv, CommittedStored, OffsetsInLog
<1>7. CASE Poll(c)
    <2>1. PICK next \in [Partitions -> Offsets] :
              /\ next[p] \in pos[p] .. Len(log[p])
              /\ owner[p] # c => next[p] = pos[p]
              /\ pos' = next
              /\ from' = [from EXCEPT ![c] = pos]
              /\ upto' = [upto EXCEPT ![c] = next]
        BY <1>7, ZenonT(30) DEF Poll
    <2>2. cpc[c] = "poll" /\ cpc' = [cpc EXCEPT ![c] = "insert"]
          /\ owner' = owner /\ committed' = committed
        BY <1>7 DEF Poll, brokerVars
    <2>3. d = c => from'[d][p] = pos[p] /\ upto'[d][p] = next[p] /\ cpc'[d] = "insert"
        BY <2>1, <2>2 DEF ConsumerTypeOK
    <2>4. d # c => from'[d] = from[d] /\ upto'[d] = upto[d] /\ cpc'[d] = cpc[d]
        BY <2>1, <2>2 DEF ConsumerTypeOK
    <2>5. owner[p] = c => \A i \in 1 .. pos[p] : Settled(p, i)
        BY <1>6, <2>2 DEF FetchedInHand
    <2>6. next[p] \in Nat /\ pos[p] <= next[p] /\ next[p] <= Len(log[p])
        BY <1>5, <2>1
    <2>7. FetchedInHand(p, d)'
        <3>1. CASE d = c
            <4>1. ASSUME owner[p] = c, NEW i \in 1 .. next[p]
                  PROVE  Settled(p, i)' \/ i \in pos[p] + 1 .. next[p]
                BY <1>3, <1>5, <2>5, <2>6, <4>1
            <4> QED  BY <2>1, <2>2, <2>3, <3>1, <4>1 DEF FetchedInHand
        <3>2. CASE d # c
            BY <1>3, <1>6, <2>1, <2>2, <2>4, <3>2 DEF FetchedInHand
        <3> QED  BY <3>1, <3>2
    <2>8. PolledAfterSettled(p, d)'
        <3>1. CASE d = c
            BY <1>3, <1>5, <2>1, <2>3, <2>5, <2>6, <3>1 DEF PolledAfterSettled
        <3>2. CASE d # c
            BY <1>3, <1>6, <2>4, <3>2 DEF PolledAfterSettled
        <3> QED  BY <3>1, <3>2
    <2> QED  BY <1>3, <1>6, <2>1, <2>2, <2>3, <2>4, <2>6, <2>7, <2>8
<1>8. CASE InsertOk(c)
    <2>1. UNCHANGED <<committed, owner, pos, from, upto>> /\ cpc[c] = "insert"
          /\ cpc' = [cpc EXCEPT ![c] = "commit"]
        BY <1>8 DEF InsertOk, brokerVars, groupVars
    <2>2. \A e \in Decoded(c) : e.id \in StoredIds'
        BY <1>8, DecodedFinite, InsertBatchStores DEF InsertOk, DeliveryInv
    <2>3. ASSUME NEW i \in from[c][p] + 1 .. upto[c][p] PROVE Settled(p, i)'
        <3>1. log[p][i] = Malformed \/ log[p][i] \in Decoded(c)
            BY DEF Decoded, RecordsOf
        <3> QED  BY <1>2, <2>2, <3>1 DEF Settled
    <2>4. cpc'[c] = "commit" /\ (d # c => cpc'[d] = cpc[d])
        BY <2>1 DEF ConsumerTypeOK
    <2>5. FetchedInHand(p, d)'
        BY <1>3, <1>6, <2>1, <2>3, <2>4 DEF FetchedInHand
    <2>6. PolledAfterSettled(p, d)'
        <3>1. CASE d = c
            <4>1. from[c][p] < upto[c][p] => \A i \in 1 .. from[c][p] : Settled(p, i)'
                BY <1>3, <1>6 DEF PolledAfterSettled
            <4>2. \A i \in 1 .. upto[c][p] : i \in 1 .. from[c][p] \/ i \in from[c][p] + 1 .. upto[c][p]
                BY <1>5
            <4> QED  BY <2>1, <2>3, <3>1, <4>1, <4>2 DEF PolledAfterSettled
        <3>2. CASE d # c
            BY <1>3, <1>6, <2>1, <2>4, <3>2 DEF PolledAfterSettled
        <3> QED  BY <3>1, <3>2
    <2> QED  BY <1>3, <1>6, <2>1, <2>5, <2>6
<1>9. CASE CommitRecords(c)
    <2>1. UNCHANGED <<owner, pos>> /\ cpc[c] = "commit" /\ cpc' = [cpc EXCEPT ![c] = "poll"]
          /\ from' = [from EXCEPT ![c] = NoOffsets] /\ upto' = [upto EXCEPT ![c] = NoOffsets]
        BY <1>9 DEF CommitRecords, Forget, groupVars
    <2>2. \/ committed'[p] = committed[p]
          \/ committed'[p] = upto[c][p] /\ from[c][p] < upto[c][p]
        BY <1>9 DEF CommitRecords
    <2>3. \A i \in 1 .. committed'[p] : Settled(p, i)'
        BY <1>3, <1>6, <2>1, <2>2 DEF PolledAfterSettled
    <2>4. d = c => from'[d][p] = 0 /\ upto'[d][p] = 0 /\ cpc'[d] = "poll"
        BY <2>1 DEF ConsumerTypeOK, NoOffsets
    <2>5. d # c => from'[d] = from[d] /\ upto'[d] = upto[d] /\ cpc'[d] = cpc[d]
        BY <2>1 DEF ConsumerTypeOK
    <2>6. FetchedInHand(p, d)'
        BY <1>3, <1>6, <2>1, <2>5 DEF FetchedInHand
    <2>7. PolledAfterSettled(p, d)'
        BY <1>3, <1>6, <2>4, <2>5 DEF PolledAfterSettled
    <2> QED  BY <1>5, <1>6, <2>1, <2>2, <2>3, <2>4, <2>5, <2>6, <2>7
<1>10. CASE Gone(c)
    <2>1. UNCHANGED <<committed, pos>> /\ cpc' = [cpc EXCEPT ![c] = "down"]
          /\ from' = [from EXCEPT ![c] = NoOffsets] /\ upto' = [upto EXCEPT ![c] = NoOffsets]
          /\ owner'[p] = IF owner[p] = c THEN Nobody ELSE owner[p]
        BY <1>10 DEF Gone, Forget, brokerVars
    <2>2. d = c => from'[d][p] = 0 /\ upto'[d][p] = 0 /\ owner'[p] # d
        BY <2>1, ConsumerAssumption DEF ConsumerTypeOK, NoOffsets
    <2>3. d # c => from'[d] = from[d] /\ upto'[d] = upto[d] /\ cpc'[d] = cpc[d]
        BY <2>1 DEF ConsumerTypeOK
    <2>4. FetchedInHand(p, d)'
        BY <1>3, <1>6, <2>1, <2>2, <2>3, ConsumerAssumption, ZenonT(30) DEF FetchedInHand
    <2>5. PolledAfterSettled(p, d)'
        BY <1>3, <1>6, <2>2, <2>3 DEF PolledAfterSettled
    <2> QED  BY <1>3, <1>5, <1>6, <2>1, <2>2, <2>3, <2>4, <2>5
<1>11. CASE InsertUnacknowledged(c) \/ Start(c) \/ Stop(c)
    <2>1. UNCHANGED <<committed, owner, pos, from, upto>>
        BY <1>11 DEF InsertUnacknowledged, Start, Stop, brokerVars, consumerVars, groupVars
    <2>2. cpc' = cpc \/ (cpc[c] = "down" /\ cpc' = [cpc EXCEPT ![c] = "poll"])
        BY <1>11 DEF InsertUnacknowledged, Start, Stop, consumerVars
    <2>3. cpc'[d] = cpc[d] \/ (cpc[d] = "down" /\ cpc'[d] = "poll")
        BY <2>2 DEF ConsumerTypeOK
    <2>4. FetchedInHand(p, d)' /\ PolledAfterSettled(p, d)'
        BY <1>3, <1>6, <2>1, <2>3, ZenonT(30) DEF FetchedInHand, PolledAfterSettled
    <2> QED  BY <1>3, <1>6, <2>1, <2>4
<1>12. ASSUME NEW q \in Partitions, GiveTo(q, c)
       PROVE  /\ \A i \in 1 .. committed'[p] : Settled(p, i)'
              /\ committed'[p] <= Len(log[p]) /\ pos'[p] <= Len(log[p])
              /\ upto'[d][p] <= Len(log[p])
              /\ FetchedInHand(p, d)' /\ PolledAfterSettled(p, d)'
    <2>1. UNCHANGED <<committed, cpc, from, upto>>
          /\ owner' = [owner EXCEPT ![q] = c] /\ pos' = [pos EXCEPT ![q] = committed[q]]
        BY <1>12 DEF GiveTo, brokerVars
    <2>2. (p = q => owner'[p] = c /\ pos'[p] = committed[p])
          /\ (p # q => owner'[p] = owner[p] /\ pos'[p] = pos[p])
        BY <2>1 DEF ConsumerTypeOK
    <2>3. FetchedInHand(p, d)'
        <3>1. CASE p = q
            BY <1>3, <1>6, <2>1, <2>2, <3>1, ZenonT(30) DEF FetchedInHand
        <3>2. CASE p # q
            BY <1>3, <1>6, <2>1, <2>2, <3>2, ZenonT(30) DEF FetchedInHand
        <3> QED  BY <3>1, <3>2
    <2>4. PolledAfterSettled(p, d)'
        BY <1>3, <1>6, <2>1 DEF PolledAfterSettled
    <2> QED  BY <1>3, <1>6, <2>1, <2>2, <2>3, <2>4, ZenonT(30)
<1> QED  BY <1>1, <1>7, <1>8, <1>9, <1>10, <1>11, <1>12 DEF RunStep, Return, Kill, Assign, Reassign

-----------------------------------------------------------------------------
(***************************************************************************)
(* The pipeline.  DecodedFinite makes the offsets part of the induction    *)
(* for the types.                                                          *)
(***************************************************************************)
PipelineInv == TypeOK /\ StoreInv /\ DeliveryInv

\* The first state.
LEMMA PipelineInit == Init => PipelineInv
<1> SUFFICES ASSUME Init PROVE PipelineInv
    OBVIOUS
<1>1. StoreInv /\ DoorTypeOK
    BY StoreInitInv, DoorsInitType DEF Init
<1>2. ConsumerTypeOK
    BY DEF Init, ConsumersInit, NoOffsets, ConsumerTypeOK
<1>3. buffer \in [Partitions -> Seq(Event)] /\ lost \subseteq Event /\ faults \in Nat
    BY DEF Init, NoRecords
<1>4. phase \in Phases /\ timedOut \in BOOLEAN
    BY ZenonT(30) DEF Init, DoorsInit, Phases
<1>5. /\ \A p \in Partitions : committed[p] = 0 /\ pos[p] = 0 /\ owner[p] = Nobody /\ Len(log[p]) = 0
      /\ \A c \in Consumers, p \in Partitions : from[c][p] = 0 /\ upto[c][p] = 0
    BY DEF Init, ConsumersInit, NoOffsets
<1>6. DeliveryInv
    <2>1. CommittedStored /\ \A p \in Partitions : OffsetsInLog(p)
        BY <1>5 DEF CommittedStored, OffsetsInLog
    <2>2. \A p \in Partitions, c \in Consumers : FetchedInHand(p, c) /\ PolledAfterSettled(p, c)
        BY <1>5 DEF FetchedInHand, PolledAfterSettled
    <2> QED  BY <2>1, <2>2 DEF DeliveryInv
<1> QED  BY <1>1, <1>2, <1>3, <1>4, <1>6 DEF PipelineInv, TypeOK, StoreInv

\* A step that leaves the store and the group alone, and may append to the log.
LEMMA IngestSide ==
    ASSUME PipelineInv, UNCHANGED <<storeVars, committed, consumerVars>>,
           \/ log' = log
           \/ \E q \in Partitions, r \in Event \cup {Malformed} :
                  log' = [log EXCEPT ![q] = Append(@, r)]
    PROVE  StoreInv' /\ ConsumerTypeOK' /\ DeliveryInv'
<1>1. StoreInv' /\ StoredIds' = StoredIds
    BY StoreUnchanged DEF PipelineInv, storeVars, StoredIds
<1>2. log \in [Partitions -> Seq(Event \cup {Malformed})]
    BY DEF PipelineInv, TypeOK, ConsumerTypeOK
<1>3. log' \in [Partitions -> Seq(Event \cup {Malformed})]
    <2>1. ASSUME NEW q \in Partitions, NEW r \in Event \cup {Malformed},
                 log' = [log EXCEPT ![q] = Append(@, r)]
          PROVE  log' \in [Partitions -> Seq(Event \cup {Malformed})]
        <3>1. Append(log[q], r) \in Seq(Event \cup {Malformed})
            BY <1>2, <2>1
        <3> QED  BY <1>2, <2>1, <3>1
    <2> QED  BY <1>2, <2>1
<1>4. ConsumerTypeOK'
    BY <1>3 DEF PipelineInv, TypeOK, ConsumerTypeOK, consumerVars, groupVars
<1>5. ASSUME NEW p \in Partitions
      PROVE  /\ Len(log'[p]) \in Nat /\ Len(log[p]) <= Len(log'[p])
             /\ \A i \in 1 .. Len(log[p]) : log'[p][i] = log[p][i]
    <2>1. log[p] \in Seq(Event \cup {Malformed})
        BY <1>2
    <2>2. log'[p] = log[p] \/ \E r \in Event \cup {Malformed} : log'[p] = Append(log[p], r)
        BY <1>2, ZenonT(30)
    <2> QED  BY <2>1, <2>2
<1>6. DeliveryInv'
    BY <1>1, <1>5, GrowDelivers DEF PipelineInv, TypeOK
<1> QED  BY <1>1, <1>4, <1>6

\* The events of a buffer.
LEMMA BufferEvents ==
    ASSUME TypeOK
    PROVE  InBuffer \subseteq Event /\ \A p \in Partitions : buffer[p] # <<>> => Head(buffer[p]) \in Event
BY DEF TypeOK, InBuffer, Range

\* The ingest process and the broker.
LEMMA IngestKeeps ==
    ASSUME PipelineInv,
           \/ \E h \in Doors : DoorStep(h)
           \/ \E p \in Partitions : Deliver(p) \/ ProduceFails(p) \/ ForeignWrite(p)
           \/ MainStep
           \/ Crash /\ faults' = faults + 1
    PROVE  PipelineInv'
<1>1. StoreInv' /\ ConsumerTypeOK' /\ DeliveryInv'
    <2>1. UNCHANGED <<storeVars, committed, consumerVars>>
        BY DEF DoorStep, Deliver, ProduceFails, ForeignWrite, MainStep, Crash, brokerVars
    <2>2. \/ log' = log
          \/ \E q \in Partitions, r \in Event \cup {Malformed} :
                 log' = [log EXCEPT ![q] = Append(@, r)]
        BY BufferEvents DEF PipelineInv, DoorStep, Deliver, ProduceFails, ForeignWrite, MainStep,
           Crash, brokerVars
    <2> QED  BY <2>1, <2>2, IngestSide
<1>2. CASE \E h \in Doors : DoorStep(h)
    <2>1. PICK h \in Doors : DoorStep(h)
        BY <1>2
    <2>2. DoorTypeOK'
        BY <2>1, HandlerType, ZenonT(30) DEF DoorStep, EnqueueCheck, EnqueueProduce,
           EnqueueClosed, PipelineInv, TypeOK
    <2>3. InEnqueue(h) => Head(todo[h]) \in Event /\ PartitionOf[Head(todo[h]).name] \in Partitions
        BY ProducerAssumption DEF InEnqueue, PipelineInv, TypeOK, DoorTypeOK, Event
    <2>4. buffer' \in [Partitions -> Seq(Event)] /\ lost' \subseteq Event
        <3>1. CASE EnqueueProduce(h)
            <4> DEFINE q == PartitionOf[Head(todo[h]).name]
                       s == Append(buffer[q], Head(todo[h]))
            <4>1. q \in Partitions /\ buffer[q] \in Seq(Event) /\ Head(todo[h]) \in Event
                BY <2>3, <3>1, ZenonT(30) DEF EnqueueProduce, PipelineInv, TypeOK
            <4>2. s \in Seq(Event)
                BY <4>1
            <4>3. buffer' = [buffer EXCEPT ![q] = s] /\ lost' = lost
                BY <3>1, ZenonT(30) DEF EnqueueProduce
            <4> HIDE DEF q, s
            <4> QED  BY <4>1, <4>2, <4>3 DEF PipelineInv, TypeOK
        <3>2. CASE ~EnqueueProduce(h)
            BY <2>1, <2>3, <3>2, ZenonT(30) DEF DoorStep, EnqueueCheck, EnqueueClosed, producerVars,
               PipelineInv, TypeOK
        <3> QED  BY <3>1, <3>2
    <2>5. UNCHANGED <<phase, timedOut, faults>>
        BY <2>1, ZenonT(30) DEF DoorStep, EnqueueCheck, EnqueueProduce, EnqueueClosed,
           RejectInvalid, Fail, GoOn, Enqueued, NextEvent, mainVars
    <2> QED  BY <1>1, <2>2, <2>4, <2>5 DEF PipelineInv, TypeOK, StoreInv
<1>3. CASE \E p \in Partitions : Deliver(p) \/ ProduceFails(p) \/ ForeignWrite(p)
    <2>1. buffer' \in [Partitions -> Seq(Event)] /\ lost' \subseteq Event
        <3>1. ASSUME NEW p \in Partitions, Deliver(p) \/ ProduceFails(p)
              PROVE  buffer' \in [Partitions -> Seq(Event)] /\ lost' \subseteq Event
            <4>1. Tail(buffer[p]) \in Seq(Event) /\ buffer' = [buffer EXCEPT ![p] = Tail(buffer[p])]
                BY <3>1 DEF Deliver, ProduceFails, PipelineInv, TypeOK
            <4>2. lost' \subseteq Event
                BY <3>1, BufferEvents DEF Deliver, ProduceFails, PipelineInv, TypeOK
            <4> QED  BY <4>1, <4>2 DEF PipelineInv, TypeOK
        <3> QED  BY <1>3, <3>1 DEF ForeignWrite, producerVars, PipelineInv, TypeOK
    <2>2. UNCHANGED <<doorVars, faults>>
        BY <1>3 DEF Deliver, ProduceFails, ForeignWrite
    <2>3. DoorTypeOK'
        BY <2>2, MainType DEF PipelineInv, TypeOK
    <2> QED  BY <1>1, <2>1, <2>2, <2>3 DEF PipelineInv, TypeOK, StoreInv, doorVars, mainVars
<1>4. CASE MainStep
    <2>1. DoorTypeOK'
        BY <1>4, MainType DEF MainStep, ShutdownReturns, GracefulStopReturns, FlushReturns, Exit,
           PipelineInv, TypeOK
    <2>2. phase' \in Phases
        BY <1>4 DEF MainStep, ShutdownReturns, GracefulStopReturns, FlushReturns, Exit, Goto, Phases
    <2>3. timedOut' \in BOOLEAN /\ faults' = faults
        BY <1>4, ZenonT(30) DEF MainStep, ShutdownReturns, GracefulStopReturns, FlushReturns,
           Exit, Idle, PipelineInv, TypeOK
    <2>4. buffer' \in [Partitions -> Seq(Event)] /\ lost' \subseteq Event
        <3>1. NoRecords \in [Partitions -> Seq(Event)]
            BY DEF NoRecords
        <3> QED  BY <1>4, <3>1, BufferEvents DEF MainStep, FlushReturns, Exit, producerVars,
                    PipelineInv, TypeOK
    <2> QED  BY <1>1, <2>1, <2>2, <2>3, <2>4 DEF PipelineInv, TypeOK, StoreInv
<1>5. CASE Crash /\ faults' = faults + 1
    <2>1. DoorTypeOK'
        BY <1>5, MainType DEF Crash, PipelineInv, TypeOK
    <2>2. buffer' \in [Partitions -> Seq(Event)] /\ lost' \subseteq Event
        <3>1. NoRecords \in [Partitions -> Seq(Event)]
            BY DEF NoRecords
        <3> QED  BY <1>5, <3>1, BufferEvents DEF Crash, PipelineInv, TypeOK
    <2>3. phase' \in Phases /\ timedOut' \in BOOLEAN
        BY <1>5, ZenonT(30) DEF Crash, Restart, Phases
    <2>4. faults' \in Nat
        BY <1>5 DEF PipelineInv, TypeOK
    <2> QED  BY <1>1, <2>1, <2>2, <2>3, <2>4 DEF PipelineInv, TypeOK, StoreInv
<1> QED  BY <1>2, <1>3, <1>4, <1>5

\* The group, with the ingest process standing still.
LEMMA GroupKeeps ==
    ASSUME PipelineInv, GroupStep, UNCHANGED <<doorVars, producerVars>>, faults' \in Nat
    PROVE  PipelineInv'
<1>1. ConsumerTypeOK' /\ DeliveryInv'
    BY GroupType, GroupDelivers DEF PipelineInv, TypeOK
<1>2. StoreInv'
    <2>1. ASSUME NEW c \in Consumers, NEW new, InsertBatch(Decoded(c), new) PROVE StoreInv'
        BY <2>1, DecodedFinite, InsertBatchKeepsStoreInv DEF PipelineInv, TypeOK, DeliveryInv
    <2> QED  BY <2>1, StoreUnchanged, ZenonT(30) DEF PipelineInv, GroupStep, RunStep, Poll,
                InsertOk, InsertUnacknowledged, CommitRecords, Return, Kill, Gone, Start, Stop,
                Assign, Reassign, GiveTo
<1>3. DoorTypeOK' /\ UNCHANGED <<phase, timedOut, buffer, lost>>
    BY MainType DEF PipelineInv, TypeOK, doorVars, mainVars, producerVars
<1> QED  BY <1>1, <1>2, <1>3 DEF PipelineInv, TypeOK, StoreInv

\* Requests, the clock and SIGTERM.
LEMMA OutsideKeeps ==
    ASSUME PipelineInv, UNCHANGED restVars,
           \/ \E h \in HttpDoors, p \in Posts : postEvent(h, p)
           \/ \E h \in GrpcDoors, ps \in Publishes : Publish(h, ps)
           \/ Sigterm \/ MinutePasses \/ UNCHANGED doorVars
    PROVE  PipelineInv'
<1>1. StoreInv' /\ ConsumerTypeOK' /\ DeliveryInv'
    BY IngestSide DEF restVars, brokerVars
<1>2. DoorTypeOK'
    BY ArrivalsType, MainType DEF Sigterm, PipelineInv, TypeOK
<1>3. phase' \in Phases /\ timedOut' \in BOOLEAN
    BY ZenonT(30) DEF postEvent, Publish, Arrive, Sigterm, MinutePasses, Goto, doorVars, mainVars,
       Phases, PipelineInv, TypeOK
<1>4. buffer' \in [Partitions -> Seq(Event)] /\ lost' \subseteq Event /\ faults' \in Nat
    BY DEF restVars, producerVars, PipelineInv, TypeOK
<1> QED  BY <1>1, <1>2, <1>3, <1>4 DEF PipelineInv, TypeOK, StoreInv

\* Every step keeps the invariant.
LEMMA PipelineStep == PipelineInv /\ [Next]_vars => PipelineInv'
<1> SUFFICES ASSUME PipelineInv, [Next]_vars PROVE PipelineInv'
    OBVIOUS
<1>1. faults \in Nat
    BY DEF PipelineInv, TypeOK
<1>2. CASE Fault
    <2>1. faults' \in Nat /\ faults' = faults + 1
        BY <1>1, <1>2 DEF Fault
    <2>2. CASE Crash
        BY <2>1, <2>2, IngestKeeps
    <2>3. CASE ~Crash
        <3>1. GroupStep /\ UNCHANGED <<doorVars, producerVars>>
            BY <1>2, <2>3 DEF Fault, GroupStep
        <3> QED  BY <2>1, <3>1, GroupKeeps
    <2> QED  BY <2>2, <2>3
<1>3. CASE \/ \E c \in Consumers : (RunStep(c) \/ Start(c)) /\ UNCHANGED ingestVars
           \/ \E c \in Consumers, p \in Partitions : Assign(p, c) /\ UNCHANGED ingestVars
    <2>1. GroupStep /\ UNCHANGED ingestVars
        BY <1>3 DEF GroupStep
    <2> QED  BY <1>1, <2>1, GroupKeeps DEF ingestVars
<1>4. CASE UNCHANGED vars
    BY <1>4, OutsideKeeps DEF vars, restVars
<1> QED  BY <1>2, <1>3, <1>4, IngestKeeps, OutsideKeeps DEF Next, Rest

\* The tables of the Kafka pipeline agree and every variable is typed, in every
\* state that any interleaving reaches.
THEOREM KafkaTypes == Spec => [](TypeOK /\ StoreInv)
<1>1. Init => PipelineInv
    BY PipelineInit
<1>2. PipelineInv /\ [Next]_vars => PipelineInv'
    BY PipelineStep
<1>3. PipelineInv => TypeOK /\ StoreInv
    BY DEF PipelineInv
<1> QED  BY <1>1, <1>2, <1>3, PTL DEF Spec

\* What is below a committed or a fetch offset is settled or in its owner's hands,
\* whatever order polls, inserts, commits, kills and reassignments come in.
THEOREM KafkaInHand == Spec => []DeliveryInv
<1>1. PipelineInv => DeliveryInv
    BY DEF PipelineInv
<1> QED  BY <1>1, PipelineInit, PipelineStep, PTL DEF Spec

\* At-least-once delivery into the store: no offset is committed before every
\* record below it is stored or known to be malformed, whatever members that
\* were killed, restarted or robbed of a partition still insert and commit.
THEOREM KafkaDelivers == Spec => []CommittedStored
BY KafkaInHand, PTL DEF DeliveryInv

-----------------------------------------------------------------------------
(***************************************************************************)
(* What the doors accept is in the buffer or in the log, or given up.      *)
(***************************************************************************)
\* Where the events of the buffers are when one buffer changes.
LEMMA InBufferAfter ==
    ASSUME buffer \in [Partitions -> Seq(Event)], NEW p \in Partitions, NEW s,
           buffer' = [buffer EXCEPT ![p] = s]
    PROVE  /\ Range(s) \subseteq InBuffer'
           /\ \A e \in InBuffer : e \in Range(buffer[p]) \/ e \in InBuffer'
BY DEF InBuffer

\* Appending to the log takes nothing out of it.
LEMMA InLogAfter ==
    ASSUME log \in [Partitions -> Seq(Event \cup {Malformed})], NEW p \in Partitions,
           NEW r \in Event \cup {Malformed}, log' = [log EXCEPT ![p] = Append(@, r)]
    PROVE  InLog \subseteq InLog' /\ (r # Malformed => r \in InLog')
<1>1. Range(Append(log[p], r)) = Range(log[p]) \cup {r}
    BY RangeAppend
<1>2. log'[p] = Append(log[p], r) /\ \A q \in Partitions \ {p} : log'[q] = log[q]
    OBVIOUS
<1>3. \A q \in Partitions : Range(log[q]) \subseteq Range(log'[q])
    BY <1>1, <1>2
<1> QED  BY <1>1, <1>2, <1>3 DEF InLog

\* A step of the ingest process or of the broker.
LEMMA IngestAccounts ==
    ASSUME TypeOK, AcceptedLogged,
           \/ \E h \in Doors : DoorStep(h)
           \/ \E p \in Partitions : Deliver(p) \/ ProduceFails(p) \/ ForeignWrite(p)
           \/ MainStep \/ Crash
    PROVE  AcceptedLogged'
<1>1. ASSUME UNCHANGED <<accepted, buffer, log, lost>> PROVE AcceptedLogged'
    BY <1>1, ZenonT(30) DEF AcceptedLogged, InBuffer, InLog
<1>2. /\ log \in [Partitions -> Seq(Event \cup {Malformed})]
      /\ buffer \in [Partitions -> Seq(Event)]
    BY DEF TypeOK, ConsumerTypeOK
<1>3. ASSUME NEW h \in Doors, DoorStep(h) PROVE AcceptedLogged'
    <2>1. log' = log
        BY <1>3 DEF DoorStep, brokerVars
    <2>2. CASE EnqueueProduce(h)
        <3> DEFINE q == PartitionOf[Head(todo[h]).name]
                   s == Append(buffer[q], Head(todo[h]))
        <3>1. q \in Partitions /\ buffer[q] \in Seq(Event)
            BY <1>2, <2>2, ProducerAssumption, ZenonT(30) DEF EnqueueProduce, InEnqueue, TypeOK,
               DoorTypeOK, Event
        <3>2. Range(s) = Range(buffer[q]) \cup {Head(todo[h])}
            BY <3>1, RangeAppend, ZenonT(30)
        <3>3. buffer' = [buffer EXCEPT ![q] = s] /\ lost' = lost
              /\ accepted' = accepted \cup {Head(todo[h])}
            BY <2>2, ZenonT(30) DEF EnqueueProduce, Enqueued
        <3> HIDE DEF q, s
        <3>4. InBuffer \cup {Head(todo[h])} \subseteq InBuffer'
            BY <1>2, <3>1, <3>2, <3>3, InBufferAfter, ZenonT(30)
        <3> QED  BY <2>1, <3>3, <3>4 DEF AcceptedLogged, InLog
    <2>3. CASE EnqueueClosed(h)
        BY <2>1, <2>3 DEF EnqueueClosed, Enqueued, AcceptedLogged, InLog, InBuffer
    <2>4. CASE ~EnqueueProduce(h) /\ ~EnqueueClosed(h)
        BY <1>1, <1>3, <2>1, <2>4 DEF DoorStep, EnqueueCheck, RejectInvalid, Fail, GoOn,
           acceptVars, producerVars
    <2> QED  BY <2>2, <2>3, <2>4
<1>4. ASSUME NEW p \in Partitions, Deliver(p) \/ ProduceFails(p) PROVE AcceptedLogged'
    <2>1. buffer[p] \in Seq(Event) /\ buffer[p] # <<>> /\ accepted' = accepted
          /\ buffer' = [buffer EXCEPT ![p] = Tail(buffer[p])]
        BY <1>2, <1>4 DEF Deliver, ProduceFails, doorVars, acceptVars
    <2>2. Range(buffer[p]) = {Head(buffer[p])} \cup Range(Tail(buffer[p]))
        BY <2>1, RangeHeadTail
    <2>3. InBuffer \subseteq InBuffer' \cup {Head(buffer[p])}
        BY <1>2, <2>1, <2>2, InBufferAfter, ZenonT(30)
    <2>4. CASE Deliver(p)
        <3>1. Head(buffer[p]) \in Event /\ Head(buffer[p]) # Malformed
            BY <2>1, ConsumerAssumption
        <3>2. InLog \subseteq InLog' /\ Head(buffer[p]) \in InLog'
            BY <1>2, <2>4, <3>1, InLogAfter, ZenonT(30) DEF Deliver
        <3> QED  BY <2>1, <2>3, <2>4, <3>2 DEF Deliver, AcceptedLogged
    <2>5. CASE ProduceFails(p)
        BY <2>1, <2>3, <2>5 DEF ProduceFails, brokerVars, AcceptedLogged, InLog
    <2> QED  BY <1>4, <2>4, <2>5
<1>5. ASSUME NEW p \in Partitions, ForeignWrite(p) PROVE AcceptedLogged'
    <2>1. InLog \subseteq InLog'
        BY <1>2, <1>5, InLogAfter, ZenonT(30) DEF ForeignWrite
    <2> QED  BY <1>5, <2>1 DEF ForeignWrite, doorVars, acceptVars, producerVars, AcceptedLogged,
                InBuffer
<1>6. CASE lost' = lost \cup InBuffer /\ UNCHANGED <<accepted, log>>
    BY <1>6 DEF AcceptedLogged, InLog
<1>7. CASE MainStep \/ Crash
    BY <1>1, <1>6, <1>7, ZenonT(30) DEF MainStep, ShutdownReturns, GracefulStopReturns,
       FlushReturns, Exit, Crash, Restart, Goto, acceptVars, brokerVars, producerVars
<1> QED  BY <1>3, <1>4, <1>5, <1>7

\* A client that got a 202, or a count in a PublishResponse, can rely on it: the
\* event is in the producer's buffer or in the log, unless the producer gave
\* its record up.
THEOREM KafkaAccounts == Spec => []AcceptedLogged
<1>1. Init => AcceptedLogged
    BY DEF Init, DoorsInit, AcceptedLogged
<1>2. TypeOK /\ AcceptedLogged /\ [Next]_vars => AcceptedLogged'
    <2> SUFFICES ASSUME TypeOK, AcceptedLogged, [Next]_vars PROVE AcceptedLogged'
        OBVIOUS
    <2>1. ASSUME UNCHANGED <<accepted, buffer, log, lost>> PROVE AcceptedLogged'
        BY <2>1, ZenonT(30) DEF AcceptedLogged, InBuffer, InLog
    <2>2. CASE \/ \E c \in Consumers : (RunStep(c) \/ Start(c)) /\ UNCHANGED ingestVars
               \/ \E c \in Consumers, p \in Partitions : Assign(p, c) /\ UNCHANGED ingestVars
        BY <2>1, <2>2, ZenonT(30) DEF ingestVars, doorVars, acceptVars, producerVars, RunStep,
           Poll, InsertOk, InsertUnacknowledged, CommitRecords, Return, Gone, Start, Assign,
           GiveTo, brokerVars
    <2>3. CASE Fault /\ ~Crash
        BY <2>1, <2>3, ZenonT(30) DEF Fault, Kill, Gone, Stop, Reassign, GiveTo, brokerVars,
           doorVars, acceptVars, producerVars
    <2>4. CASE \/ \E h \in HttpDoors, p \in Posts : postEvent(h, p) /\ UNCHANGED restVars
               \/ \E h \in GrpcDoors, ps \in Publishes : Publish(h, ps) /\ UNCHANGED restVars
               \/ (Sigterm \/ MinutePasses) /\ UNCHANGED restVars
               \/ UNCHANGED vars
        BY <2>1, <2>4, ZenonT(30) DEF postEvent, Publish, Arrive, Sigterm, Goto, MinutePasses,
           restVars, vars, doorVars, acceptVars, brokerVars, producerVars
    <2> QED  BY <2>2, <2>3, <2>4, IngestAccounts DEF Next, Rest, Fault
<1>3. Spec => []TypeOK
    BY KafkaTypes, PTL
<1> QED  BY <1>1, <1>2, <1>3, PTL DEF Spec

-----------------------------------------------------------------------------
(***************************************************************************)
(* The pipeline implements Tally.                                          *)
(***************************************************************************)
InFlight == InBuffer \cup InLog

\* Produce, on an open client, is the acceptance of the event.
LEMMA AcceptMaps ==
    ASSUME NEW e \in Event, events' = events, InFlight' = InFlight \cup {e}
    PROVE  Abstract!Next
<1>1. Abstract!Accept(e)
    BY DEF Abstract!Accept, Abstract!Uncounted, InFlight, StoredIds, IdsOf
<1> QED  BY <1>1 DEF Abstract!Next

\* What leaves the buffer other than for the log is lost.
LEMMA LossMaps ==
    ASSUME events' = events, InFlight' \subseteq InFlight
    PROVE  Abstract!Next
<1>1. PICK S : S = {e \in InFlight : e.id \notin StoredIds /\ e \notin InFlight'}
    OBVIOUS
<1>2. StoredIds' = StoredIds
    BY DEF StoredIds, IdsOf
<1>3. Abstract!Lose(S) /\ S \in SUBSET {e \in InBuffer \cup InLog : e.id \notin StoredIds}
    BY <1>1, <1>2 DEF Abstract!Lose, InFlight
<1> QED  BY <1>3, ZenonT(30) DEF Abstract!Next

\* A batch of logged events that commits counts its new rows.
LEMMA InsertMaps ==
    ASSUME NEW b, NEW new, InsertBatch(b, new), b \subseteq InFlight, InFlight' = InFlight
    PROVE  Abstract!Next
<1>1. /\ new \subseteq b /\ events' = events \cup new
      /\ \A r, s \in new : r.id = s.id => r = s
      /\ \A e \in new : e.id \notin StoredIds
      /\ \A e : e.id \notin StoredIds' <=> e.id \notin StoredIds /\ \A r \in new : r.id # e.id
    BY InsertBatchCounts, ZenonT(30)
<1>2. Abstract!CountRows(new) /\ new \in SUBSET {e \in InBuffer \cup InLog : e.id \notin StoredIds}
    BY <1>1 DEF Abstract!CountRows, Abstract!Uncounted, InFlight
<1> QED  BY <1>2, ZenonT(30) DEF Abstract!Next

\* The group takes nothing out of the log and inserts only what is in it.
LEMMA GroupMaps ==
    ASSUME PipelineInv, GroupStep, UNCHANGED producerVars
    PROVE  Abstract!Next
<1>1. log' = log
    BY ZenonT(30) DEF GroupStep, RunStep, Poll, InsertOk, InsertUnacknowledged, CommitRecords, Return,
       Kill, Gone, Start, Stop, Assign, Reassign, GiveTo, brokerVars
<1>2. InFlight' = InFlight
    BY <1>1 DEF InFlight, InBuffer, InLog, producerVars
<1>3. ASSUME NEW c \in Consumers, NEW new, InsertBatch(Decoded(c), new) PROVE Abstract!Next
    <2>1. ASSUME NEW p \in Partitions PROVE RecordsOf(p, c) \subseteq Range(log[p])
        <3>1. /\ from[c][p] \in Nat /\ upto[c][p] \in Nat /\ upto[c][p] <= Len(log[p])
              /\ log[p] \in Seq(Event \cup {Malformed})
            BY DEF PipelineInv, TypeOK, ConsumerTypeOK, DeliveryInv, OffsetsInLog
        <3>2. \A i \in from[c][p] + 1 .. upto[c][p] : i \in DOMAIN log[p]
            BY <3>1
        <3> QED  BY <3>2 DEF RecordsOf, Range
    <2>2. Decoded(c) \subseteq InFlight
        BY <2>1 DEF Decoded, InFlight, InLog
    <2> QED  BY <1>2, <1>3, <2>2, InsertMaps
<1>4. events' = events \/ \E c \in Consumers : \E new : InsertBatch(Decoded(c), new)
    BY ZenonT(30) DEF GroupStep, RunStep, Poll, InsertOk, InsertUnacknowledged, CommitRecords, Return,
       Kill, Gone, Start, Stop, Assign, Reassign, GiveTo, storeVars
<1> QED  BY <1>2, <1>3, <1>4, LossMaps

\* The ingest process and the broker.
LEMMA IngestMaps ==
    ASSUME TypeOK,
           \/ \E h \in Doors : DoorStep(h)
           \/ \E p \in Partitions : Deliver(p) \/ ProduceFails(p) \/ ForeignWrite(p)
           \/ MainStep \/ Crash
           \/ UNCHANGED restVars
    PROVE  Abstract!Next
<1>1. events' = events
    BY DEF DoorStep, Deliver, ProduceFails, ForeignWrite, MainStep, Crash, restVars, storeVars
<1>2. ASSUME UNCHANGED <<buffer, log>> PROVE Abstract!Next
    <2>1. InFlight' = InFlight
        BY <1>2 DEF InFlight, InBuffer, InLog
    <2> QED  BY <1>1, <2>1, LossMaps, ZenonT(30)
<1>3. /\ log \in [Partitions -> Seq(Event \cup {Malformed})]
      /\ buffer \in [Partitions -> Seq(Event)]
    BY DEF TypeOK, ConsumerTypeOK
<1>4. ASSUME NEW h \in Doors, DoorStep(h) PROVE Abstract!Next
    <2>1. log' = log
        BY <1>4, ZenonT(30) DEF DoorStep, brokerVars
    <2>2. CASE EnqueueProduce(h)
        <3>1. PICK q, e, s : q = PartitionOf[Head(todo[h]).name] /\ e = Head(todo[h]) /\ s = Append(buffer[q], e)
            BY ZenonT(30)
        <3>2. q \in Partitions /\ buffer[q] \in Seq(Event) /\ e \in Event
            BY <1>3, <2>2, <3>1, ProducerAssumption, ZenonT(30) DEF EnqueueProduce, InEnqueue, TypeOK,
               DoorTypeOK, Event
        <3>3. Range(s) = Range(buffer[q]) \cup {e}
            BY <3>1, <3>2, RangeAppend, ZenonT(30)
        <3>4. buffer' = [buffer EXCEPT ![q] = s]
            BY <2>2, <3>1, ZenonT(30) DEF EnqueueProduce
        <3>5. buffer'[q] = s /\ \A p \in Partitions \ {q} : buffer'[p] = buffer[p]
            BY <1>3, <3>2, <3>4
        <3>6. InBuffer' = InBuffer \cup {e}
            BY <3>2, <3>3, <3>5 DEF InBuffer
        <3> QED  BY <1>1, <2>1, <3>2, <3>6, AcceptMaps, ZenonT(30) DEF InFlight, InLog
    <2>3. CASE ~EnqueueProduce(h)
        BY <1>2, <1>4, <2>1, <2>3, ZenonT(30) DEF DoorStep, EnqueueCheck, EnqueueClosed, producerVars
    <2> QED  BY <2>2, <2>3
<1>5. ASSUME NEW p \in Partitions, Deliver(p) \/ ProduceFails(p) PROVE Abstract!Next
    <2>1. buffer[p] \in Seq(Event) /\ buffer[p] # <<>> /\ log[p] \in Seq(Event \cup {Malformed})
          /\ buffer' = [buffer EXCEPT ![p] = Tail(buffer[p])]
        BY <1>3, <1>5 DEF Deliver, ProduceFails
    <2>2. Range(buffer[p]) = {Head(buffer[p])} \cup Range(Tail(buffer[p]))
        BY <2>1, RangeHeadTail
    <2>3. buffer'[p] = Tail(buffer[p]) /\ \A q \in Partitions \ {p} : buffer'[q] = buffer[q]
        BY <1>3, <2>1
    <2>4. InBuffer' \subseteq InBuffer /\ Head(buffer[p]) \in InBuffer
        BY <2>2, <2>3 DEF InBuffer
    <2>5. InLog' \subseteq InLog \cup {Head(buffer[p])}
        <3>1. CASE Deliver(p)
            <4>1. Head(buffer[p]) \in Event \cup {Malformed}
                BY <2>1
            <4>2. Range(Append(log[p], Head(buffer[p]))) = Range(log[p]) \cup {Head(buffer[p])}
                BY <2>1, <4>1, RangeAppend
            <4>3. log'[p] = Append(log[p], Head(buffer[p])) /\ \A q \in Partitions \ {p} : log'[q] = log[q]
                BY <1>3, <3>1 DEF Deliver
            <4> QED  BY <4>2, <4>3, ZenonT(30) DEF InLog
        <3>2. CASE ProduceFails(p)
            BY <3>2 DEF ProduceFails, brokerVars, InLog
        <3> QED  BY <1>5, <3>1, <3>2
    <2> QED  BY <1>1, <2>4, <2>5, LossMaps DEF InFlight
<1>6. ASSUME NEW p \in Partitions, ForeignWrite(p) PROVE Abstract!Next
    <2>1. Range(Append(log[p], Malformed)) = Range(log[p]) \cup {Malformed}
        BY <1>3, RangeAppend
    <2>2. log'[p] = Append(log[p], Malformed) /\ \A q \in Partitions \ {p} : log'[q] = log[q]
        BY <1>3, <1>6, ZenonT(30) DEF ForeignWrite
    <2>3. InLog' \subseteq InLog /\ InBuffer' = InBuffer
        BY <1>6, <2>1, <2>2, ZenonT(30) DEF ForeignWrite, producerVars, InLog, InBuffer
    <2> QED  BY <1>1, <2>3, LossMaps DEF InFlight
<1>7. ASSUME buffer' = NoRecords, log' = log PROVE Abstract!Next
    <2>1. \A p \in Partitions : Range(buffer'[p]) = {}
        <3>1. \A p \in Partitions : buffer'[p] = <<>>
            BY <1>7, ZenonT(30) DEF NoRecords
        <3> QED  BY <3>1, RangeEmpty, ZenonT(30)
    <2>2. InBuffer' = {} /\ InLog' = InLog
        BY <1>7, <2>1 DEF InBuffer, InLog
    <2> QED  BY <1>1, <2>2, LossMaps DEF InFlight
<1>8. CASE MainStep \/ Crash \/ UNCHANGED restVars
    BY <1>2, <1>7, <1>8, ZenonT(30) DEF MainStep, FlushReturns, Exit, Crash, restVars, brokerVars,
       producerVars
<1> QED  BY <1>4, <1>5, <1>6, <1>8

\* Kafka mode does what tally promises, through kills, stale members, redelivery
\* and refused records: an id is counted once, a counted row stays, only accepted
\* events are counted, and an event leaves the pipeline only counted or lost.
THEOREM KafkaImplements == Spec => ImplementsTally
<1>1. Init => Abstract!Init
    <2> SUFFICES ASSUME Init PROVE Abstract!Init
        OBVIOUS
    <2>1. events = {} /\ \A p \in Partitions : Range(buffer[p]) = {} /\ Range(log[p]) = {}
        BY DEF Init, StoreInit, ConsumersInit, NoRecords, Range
    <2> QED  BY <2>1 DEF Abstract!Init, InBuffer, InLog
<1>2. PipelineInv /\ [Next]_vars => [Abstract!Next]_Abstract!vars
    <2> SUFFICES ASSUME PipelineInv, [Next]_vars PROVE Abstract!Next
        OBVIOUS
    <2>1. CASE Fault /\ ~Crash
        BY <2>1, GroupMaps DEF Fault, GroupStep
    <2>2. CASE \/ \E c \in Consumers : (RunStep(c) \/ Start(c)) /\ UNCHANGED ingestVars
               \/ \E c \in Consumers, p \in Partitions : Assign(p, c) /\ UNCHANGED ingestVars
        BY <2>2, GroupMaps DEF GroupStep, ingestVars
    <2>3. CASE UNCHANGED vars
        BY <2>3, IngestMaps DEF PipelineInv, vars, restVars
    <2> QED  BY <2>1, <2>2, <2>3, IngestMaps, ZenonT(30) DEF PipelineInv, Next, Rest, Fault
<1>3. Init => PipelineInv
    BY PipelineInit
<1>4. PipelineInv /\ [Next]_vars => PipelineInv'
    BY PipelineStep
<1> QED  BY <1>1, <1>2, <1>3, <1>4, PTL DEF Spec, ImplementsTally, Abstract!Spec
=============================================================================
