-------------------------- MODULE PipelineProofs --------------------------
(***************************************************************************)
(* What both pipelines rest on: the range of a sequence, and Doors, whose  *)
(* actions keep its types whatever queue is behind it.                     *)
(***************************************************************************)
EXTENDS Doors, StoreProofs

\* A leaf goes to Zenon for two seconds, then to the SMT solver.
USE ZenonT(2), SMTT(30)

\* A batch holds finitely many distinct events, at most its length.
LEMMA BatchRange ==
    ASSUME NEW b \in Seq(Event)
    PROVE  /\ Range(b) \subseteq Event
           /\ IsFiniteSet(Range(b))
           /\ Cardinality(Range(b)) <= Len(b)
<1>1. Range(b) \subseteq Event
    BY DEF Range
<1>2. Len(b) \in Nat
    OBVIOUS
<1>3. IsFiniteSet(1 .. Len(b)) /\ Cardinality(1 .. Len(b)) = Len(b)
    <2>1. /\ IsFiniteSet(1 .. Len(b))
          /\ Cardinality(1 .. Len(b)) = IF 1 > Len(b) THEN 0 ELSE Len(b) - 1 + 1
        BY <1>2, FS_Interval
    <2> QED  BY <1>2, <2>1
<1>4. b \in Surjection(1 .. Len(b), Range(b))
    BY DEF Surjection, Range
<1>5. IsFiniteSet(Range(b)) /\ Cardinality(Range(b)) <= Cardinality(1 .. Len(b))
    BY <1>3, <1>4, FS_Surjection
<1> QED  BY <1>1, <1>3, <1>5

\* The empty sequence holds nothing.
LEMMA RangeEmpty == Range(<<>>) = {}
BY DEF Range

\* The range of a sequence at the other end of a queue.
LEMMA RangeAppend ==
    ASSUME NEW S, NEW s \in Seq(S), NEW e
    PROVE  Range(Append(s, e)) = Range(s) \cup {e}
<1>1. /\ DOMAIN Append(s, e) = 1 .. Len(s) + 1
      /\ \A i \in 1 .. Len(s) : Append(s, e)[i] = s[i]
      /\ Append(s, e)[Len(s) + 1] = e
    OBVIOUS
<1>2. 1 .. Len(s) + 1 = (1 .. Len(s)) \cup {Len(s) + 1}
    OBVIOUS
<1> QED  BY <1>1, <1>2 DEF Range

\* The range of a sequence at the end that is served.
LEMMA RangeHeadTail ==
    ASSUME NEW S, NEW s \in Seq(S), s # <<>>
    PROVE  Range(s) = {Head(s)} \cup Range(Tail(s))
<1>1. /\ Len(Tail(s)) = Len(s) - 1 /\ Len(s) \in Nat /\ Len(s) >= 1
      /\ \A i \in 1 .. Len(s) - 1 : Tail(s)[i] = s[i + 1]
      /\ Head(s) = s[1] /\ DOMAIN s = 1 .. Len(s) /\ DOMAIN Tail(s) = 1 .. Len(s) - 1
    OBVIOUS
<1>2. \A i \in 2 .. Len(s) : i - 1 \in 1 .. Len(s) - 1 /\ (i - 1) + 1 = i
    OBVIOUS
<1>3. ASSUME NEW i \in 1 .. Len(s)
      PROVE  s[i] \in {Head(s)} \cup Range(Tail(s))
    <2>1. CASE i = 1
        BY <1>1, <2>1
    <2>2. CASE i # 1
        <3>1. i - 1 \in 1 .. Len(s) - 1 /\ Tail(s)[i - 1] = s[i]
            BY <1>1, <1>2, <2>2
        <3> QED  BY <1>1, <3>1, ZenonT(30) DEF Range
    <2> QED  BY <2>1, <2>2
<1>4. {Head(s)} \cup Range(Tail(s)) \subseteq Range(s)
    BY <1>1 DEF Range
<1> QED  BY <1>1, <1>3, <1>4 DEF Range

\* A handler that is not at its last event has another one.
LEMMA TailNotEmpty ==
    ASSUME NEW S, NEW s \in Seq(S), s # <<>>, Len(s) # 1
    PROVE  Tail(s) # <<>>
<1>1. Len(Tail(s)) # 0
    OBVIOUS
<1>2. Len(<<>>) = 0
    OBVIOUS
<1> QED  BY <1>1, <1>2, Zenon

\* The doors start typed.
LEMMA DoorsInitType == DoorsInit => DoorTypeOK
<1>1. DoorsInit => now \in Minutes /\ sent \in Nat /\ EventsAccepted \in Nat
    BY StoreAssumption DEF DoorsInit, Minutes
<1> QED  BY <1>1 DEF DoorsInit, DoorTypeOK

\* A request arrives.
LEMMA ArriveType ==
    ASSUME DoorTypeOK, NEW h \in Doors, NEW ps \in Seq(Payload), Arrive(h, ps)
    PROVE  DoorTypeOK'
<1> DEFINE evs == [i \in 1 .. Len(ps) |-> Stamp(ps[i])]
<1>1. Len(ps) \in Nat /\ Len(ps) # 0
    BY DEF Arrive
<1>2. \A i \in 1 .. Len(ps) : Stamp(ps[i]) \in Request
    <2>1. \A i \in 1 .. Len(ps) : ps[i] \in Payload
        OBVIOUS
    <2> QED  BY <2>1 DEF Stamp, Payload, Request, DoorTypeOK
<1>3. evs \in Seq(Request) /\ Len(evs) = Len(ps)
    BY <1>1, <1>2
<1>4. evs # <<>>
    <2>1. Len(evs) # 0
        BY <1>1, <1>3
    <2>2. Len(<<>>) = 0
        OBVIOUS
    <2> QED  BY <2>1, <2>2, Zenon
<1>5. todo' = [todo EXCEPT ![h] = evs] /\ hpc' = [hpc EXCEPT ![h] = "next"]
    BY DEF Arrive
<1> HIDE DEF evs
<1>6. hpc' \in [Doors -> {"idle", "next", "enqueue"}] /\ todo' \in [Doors -> Seq(Request)]
    BY <1>3, <1>5 DEF DoorTypeOK
<1>7. ASSUME NEW g \in Doors
      PROVE  /\ hpc'[g] # "idle" => todo'[g] # <<>>
             /\ hpc'[g] = "enqueue" => Head(todo'[g]) \in Event
    BY <1>4, <1>5 DEF DoorTypeOK
<1> QED  BY <1>6, <1>7 DEF Arrive, DoorTypeOK, acceptVars

\* The same for the two doors by name.
LEMMA ArrivalsType ==
    ASSUME DoorTypeOK,
           \/ \E h \in HttpDoors, p \in Posts : postEvent(h, p)
           \/ \E h \in GrpcDoors, ps \in Publishes : Publish(h, ps)
    PROVE  DoorTypeOK'
<1>1. ASSUME NEW h \in HttpDoors, NEW p \in Posts, postEvent(h, p) PROVE DoorTypeOK'
    <2>1. <<p>> \in Seq(Payload) /\ h \in Doors
        BY DoorAssumption DEF Doors
    <2> QED  BY <1>1, <2>1, ArriveType, ZenonT(30) DEF postEvent
<1>2. ASSUME NEW h \in GrpcDoors, NEW ps \in Publishes, Publish(h, ps) PROVE DoorTypeOK'
    BY <1>2, ArriveType, DoorAssumption DEF Publish, Doors
<1> QED  BY <1>1, <1>2

\* A handler leaves an event: it goes to the next one, or it answers.
LEMMA LeaveType ==
    ASSUME DoorTypeOK, NEW h \in Doors, hpc[h] # "idle", NextEvent(h) \/ Fail(h)
    PROVE  /\ hpc' \in [Doors -> {"idle", "next", "enqueue"}]
           /\ todo' \in [Doors -> Seq(Request)]
           /\ \A g \in Doors : hpc'[g] # "idle" => todo'[g] # <<>>
           /\ \A g \in Doors : hpc'[g] = "enqueue" => Head(todo'[g]) \in Event
           /\ sent' \in Nat /\ now' \in Minutes
<1>1. CASE NextEvent(h)
    <2>1. Tail(todo[h]) \in Seq(Request)
        BY DEF DoorTypeOK
    <2>2. Len(todo[h]) # 1 => Tail(todo[h]) # <<>>
        BY TailNotEmpty DEF DoorTypeOK
    <2>3. hpc' = [hpc EXCEPT ![h] = IF Len(todo[h]) = 1 THEN "idle" ELSE "next"]
          /\ todo' = [todo EXCEPT ![h] = Tail(todo[h])]
        BY <1>1 DEF NextEvent
    <2>4. ASSUME NEW g \in Doors, g # h
          PROVE  hpc'[g] = hpc[g] /\ todo'[g] = todo[g]
        BY <2>3, <2>4 DEF DoorTypeOK
    <2>5. hpc'[h] \in {"idle", "next"} /\ (hpc'[h] # "idle" => todo'[h] # <<>>)
        BY <2>2, <2>3 DEF DoorTypeOK
    <2>6. hpc' \in [Doors -> {"idle", "next", "enqueue"}] /\ todo' \in [Doors -> Seq(Request)]
        BY <2>1, <2>3 DEF DoorTypeOK
    <2> QED  BY <1>1, <2>4, <2>5, <2>6 DEF NextEvent, DoorTypeOK
<1>2. CASE Fail(h)
    BY <1>2 DEF Fail, DoorTypeOK
<1> QED  BY <1>1, <1>2

\* What a handler does with an event, as far as the doors are concerned.
LEMMA HandlerType ==
    ASSUME DoorTypeOK, NEW h \in Doors,
           \/ RejectInvalid(h)
           \/ Ready(h) /\ (GoOn(h) \/ Fail(h))
           \/ InEnqueue(h) /\ (Enqueued(h) \/ Fail(h))
    PROVE  DoorTypeOK'
<1>1. CASE RejectInvalid(h)
    BY <1>1, LeaveType DEF RejectInvalid, DoorTypeOK, acceptVars
<1>2. CASE (Ready(h) \/ InEnqueue(h)) /\ Fail(h)
    BY <1>2, LeaveType DEF Ready, InEnqueue, Fail, DoorTypeOK, acceptVars
<1>3. CASE InEnqueue(h) /\ Enqueued(h)
    BY <1>3, LeaveType DEF InEnqueue, Enqueued, DoorTypeOK
<1>4. CASE Ready(h) /\ GoOn(h)
    <2>1. todo[h] \in Seq(Request) /\ todo[h] # <<>>
        BY <1>4 DEF Ready, DoorTypeOK
    <2>2. Head(todo[h]) \in Request
        BY <2>1
    <2>3. Head(todo[h]) \in Event
        BY <1>4, <2>2 DEF Ready, Valid, Request, Event
    <2> QED  BY <1>4, <2>1, <2>3 DEF GoOn, DoorTypeOK, acceptVars
<1> QED  BY <1>1, <1>2, <1>3, <1>4

\* main and the environment.
LEMMA MainType ==
    ASSUME DoorTypeOK,
           \/ UNCHANGED doorVars \/ MinutePasses \/ Restart
           \/ \E from, to : Goto(from, to) /\ (UNCHANGED <<hpc, todo>> \/ HandlersDie)
    PROVE  DoorTypeOK'
<1>1. CASE UNCHANGED doorVars
    BY <1>1 DEF doorVars, acceptVars, DoorTypeOK
<1>2. CASE MinutePasses
    <2>1. now' \in Minutes
        BY <1>2, StoreAssumption DEF MinutePasses, Minutes, DoorTypeOK
    <2> QED  BY <1>2, <2>1 DEF MinutePasses, DoorTypeOK, acceptVars
<1>3. CASE Restart
    BY <1>3 DEF Restart, HandlersDie, DoorTypeOK
<1>4. ASSUME NEW from, NEW to, Goto(from, to), UNCHANGED <<hpc, todo>> PROVE DoorTypeOK'
    BY <1>4 DEF Goto, DoorTypeOK, acceptVars
<1>5. ASSUME NEW from, NEW to, Goto(from, to), HandlersDie PROVE DoorTypeOK'
    BY <1>5 DEF Goto, HandlersDie, DoorTypeOK, acceptVars
<1> QED  BY <1>1, <1>2, <1>3, <1>4, <1>5
=============================================================================
