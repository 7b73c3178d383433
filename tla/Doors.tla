------------------------------- MODULE Doors -------------------------------
(***************************************************************************)
(* internal/ingest postEvent and internal/grpcingest Publish, the two      *)
(* doors, and the part of main that opens and shuts them.  The queue is    *)
(* left to the module that extends this one: Enqueue begins at a door that *)
(* is Ready and ends in Enqueued or Fail.  The actions say what happens to *)
(* the variables declared here.                                            *)
(***************************************************************************)
EXTENDS Store, Sequences

CONSTANTS
    HttpDoors, GrpcDoors,   \* concurrent executions of postEvent and Publish
    Blank,                  \* the empty string, as event_id or as name
    Posts,                  \* bodies that clients post
    Publishes,              \* sequences of events that clients publish
    MaxSends                \* bound: the requests sent

Doors == HttpDoors \cup GrpcDoors

Payload == [id : Ids \cup {Blank}, name : Names \cup {Blank}, user : Users \cup {NoUser}]
Request == [id : Ids \cup {Blank}, name : Names \cup {Blank},
            user : Users \cup {NoUser}, ts : Minutes]

ASSUME DoorAssumption ==
    /\ HttpDoors \cap GrpcDoors = {}
    /\ Blank \notin Ids \cup Names
    /\ Posts \subseteq Payload
    /\ Publishes \subseteq Seq(Payload)
    /\ MaxSends \in Nat

VARIABLES
    hpc,        \* "idle", "next" at the loop's next event, "enqueue" inside Enqueue
    todo,       \* the request's events still to be enqueued
    sent,
    accepted,   \* history: the events Enqueue has returned nil for
    EventsAccepted, \* the Prometheus counter of this process
    phase,      \* where main is
    timedOut,   \* srv.Shutdown gave up on its 10 s
    now         \* the clock, in minutes

acceptVars == <<accepted, EventsAccepted>>
mainVars == <<phase, timedOut>>
doorVars == <<hpc, todo, sent, acceptVars, mainVars, now>>

DoorsInit ==
    /\ hpc = [h \in Doors |-> "idle"]
    /\ todo = [h \in Doors |-> <<>>]
    /\ phase = "serving" /\ timedOut = FALSE
    /\ sent = 0 /\ accepted = {} /\ EventsAccepted = 0 /\ now = 0

-----------------------------------------------------------------------------
(***************************************************************************)
(* The handlers.  A request that the limiter refuses changes nothing.      *)
(* Reading the request and taking its time are one step with its arrival.  *)
(***************************************************************************)
Stamp(p) == [id |-> p.id, name |-> p.name, user |-> p.user, ts |-> now]

Arrive(h, ps) ==
    /\ hpc[h] = "idle"
    /\ ps # <<>>
    /\ sent < MaxSends
    /\ sent' = sent + 1
    /\ hpc' = [hpc EXCEPT ![h] = "next"]
    /\ todo' = [todo EXCEPT ![h] = [i \in 1 .. Len(ps) |-> Stamp(ps[i])]]
    /\ UNCHANGED <<acceptVars, mainVars, now>>

\* srv.Shutdown closes the HTTP listener first; gRPC stays open meanwhile.
postEvent(h, p) == phase = "serving" /\ Arrive(h, <<p>>)
Publish(h, ps) == phase \in {"serving", "shutdown"} /\ Arrive(h, ps)

\* The handler goes to the request's next event, or answers.
NextEvent(h) ==
    /\ todo' = [todo EXCEPT ![h] = Tail(@)]
    /\ hpc' = [hpc EXCEPT ![h] = IF Len(todo[h]) = 1 THEN "idle" ELSE "next"]
    /\ UNCHANGED <<sent, mainVars, now>>

\* Faulty variant: the event_id is not checked.
Valid_AnyId(r) == r.name # Blank

Valid(r) == r.id # Blank /\ r.name # Blank

\* 400, or an entry of the response's Rejected list.
RejectInvalid(h) ==
    /\ hpc[h] = "next" /\ ~Valid(Head(todo[h]))
    /\ NextEvent(h)
    /\ UNCHANGED acceptVars

\* Enqueue is called, returns nil, returns an error.  After an error the
\* handler answers; what it has enqueued before stays enqueued.
Ready(h) == hpc[h] = "next" /\ Valid(Head(todo[h]))
InEnqueue(h) == hpc[h] = "enqueue"
GoOn(h) ==
    /\ hpc' = [hpc EXCEPT ![h] = "enqueue"]
    /\ UNCHANGED <<todo, sent, acceptVars, mainVars, now>>
Enqueued(h) ==
    /\ accepted' = accepted \cup {Head(todo[h])}
    /\ EventsAccepted' = EventsAccepted + 1
    /\ NextEvent(h)
Fail(h) ==
    /\ todo' = [todo EXCEPT ![h] = <<>>]
    /\ hpc' = [hpc EXCEPT ![h] = "idle"]
    /\ UNCHANGED <<sent, acceptVars, mainVars, now>>

-----------------------------------------------------------------------------
(***************************************************************************)
(* main, from SIGTERM to the return of GracefulStop and beyond.            *)
(***************************************************************************)
Idle(doors) == \A h \in doors : hpc[h] = "idle"

Goto(from, to) == phase = from /\ phase' = to /\ UNCHANGED <<sent, acceptVars, now>>

Sigterm == Goto("serving", "shutdown") /\ UNCHANGED <<hpc, todo, timedOut>>

\* srv.Shutdown returns when the HTTP handlers have, or after 10 s; its error
\* is only logged.
ShutdownReturns ==
    /\ Goto("shutdown", "gracefulStop")
    /\ timedOut' = ~Idle(HttpDoors)
    /\ UNCHANGED <<hpc, todo>>

\* Faulty variant: Stop instead of GracefulStop, and handlers left running.
GracefulStopReturns_NoWait(to) == Goto("gracefulStop", to) /\ UNCHANGED <<hpc, todo, timedOut>>

\* GracefulStop returns when the RPCs have; main runs the shutdown functions.
GracefulStopReturns(to) ==
    /\ Idle(GrpcDoors)
    /\ Goto("gracefulStop", to)
    /\ UNCHANGED <<hpc, todo, timedOut>>

\* The handlers still running die with the process.
HandlersDie ==
    /\ hpc' = [h \in Doors |-> "idle"]
    /\ todo' = [h \in Doors |-> <<>>]

\* The process is killed (or the machine, or log.Fatalf) and started again.
Restart ==
    /\ HandlersDie
    /\ phase' = "serving" /\ timedOut' = FALSE /\ EventsAccepted' = 0
    /\ UNCHANGED <<sent, accepted, now>>

MinutePasses ==
    /\ now < MaxMinute
    /\ now' = now + 1
    /\ UNCHANGED <<hpc, todo, sent, acceptVars, mainVars>>

-----------------------------------------------------------------------------
DoorTypeOK ==
    /\ hpc \in [Doors -> {"idle", "next", "enqueue"}]
    /\ todo \in [Doors -> Seq(Request)]
    /\ \A h \in Doors : hpc[h] # "idle" => todo[h] # <<>>
    /\ \A h \in Doors : hpc[h] = "enqueue" => Head(todo[h]) \in Event
    /\ sent \in Nat /\ EventsAccepted \in Nat /\ accepted \subseteq Event /\ now \in Minutes
=============================================================================
