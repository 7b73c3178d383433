------------------------------ MODULE LoadGen ------------------------------
(***************************************************************************)
(* cmd/loadgen: a ticker feeds jobs to senders, each of which posts an     *)
(* event of its own, again after a 503, and a second time when it plays a  *)
(* duplicate; then the report, which chaos.sh and BENCHMARKS.md compare    *)
(* with what tally stored.  The server is external: it accepts or refuses  *)
(* a request, and its answer may be lost.                                  *)
(***************************************************************************)
EXTENDS Integers, FiniteSets

CONSTANTS
    Senders,        \* -workers, at least one
    JobCap,         \* the capacity of jobs, -rate
    Dupes,          \* -dupes is above 0
    MaxTicks        \* bound: the ticks before the deadline

ASSUME LoadAssumption ==
    /\ IsFiniteSet(Senders) /\ Senders # {}
    /\ JobCap \in Nat \ {0} /\ MaxTicks \in Nat /\ Dupes \in BOOLEAN

VARIABLES
    phase,      \* of main: "firing", "waiting" in wg.Wait, "reported"
    ticks,
    jobs,       \* the jobs in the channel
    taken,      \* the jobs taken from it: an event's id is its number
    at,         \* each sender: "range", "post", "retry", "minus" or "done"
    event,      \* the event it is sending
    again,      \* whether it is sending it a second time
    sent, failed, retried,  \* the counters of the report
    accepted    \* the ids the server took

vars == <<phase, ticks, jobs, taken, at, event, again, sent, failed, retried, accepted>>

Init ==
    /\ phase = "firing" /\ ticks = 0 /\ jobs = 0 /\ taken = 0
    /\ at = [s \in Senders |-> "range"] /\ event = [s \in Senders |-> 0]
    /\ again = [s \in Senders |-> FALSE]
    /\ sent = 0 /\ failed = 0 /\ retried = 0 /\ accepted = {}

-----------------------------------------------------------------------------
senderVars == <<taken, at, event, again, sent, failed, retried, accepted>>

\* main: a tick adds a job, or skips it when the senders are saturated...
Tick ==
    /\ phase = "firing" /\ ticks < MaxTicks
    /\ ticks' = ticks + 1
    /\ jobs' = IF jobs < JobCap THEN jobs + 1 ELSE jobs
    /\ UNCHANGED <<phase, senderVars>>

\* Faulty variant: a break without the label leaves the select, not the loop.
Deadline_BreaksSelect == phase = "firing" /\ UNCHANGED vars

\* ...until the deadline: close(jobs), then wg.Wait...
Deadline ==
    /\ phase = "firing"
    /\ phase' = "waiting"
    /\ UNCHANGED <<ticks, jobs, senderVars>>

\* ...and the report.
Report ==
    /\ phase = "waiting"
    /\ \A s \in Senders : at[s] = "done"
    /\ phase' = "reported"
    /\ UNCHANGED <<ticks, jobs, senderVars>>

-----------------------------------------------------------------------------
\* for range jobs: a job, with a new event, or the end of the closed channel.
TakeJob(s) ==
    /\ at[s] = "range" /\ jobs > 0
    /\ jobs' = jobs - 1
    /\ taken' = taken + 1
    /\ event' = [event EXCEPT ![s] = taken + 1]
    /\ again' = [again EXCEPT ![s] = FALSE]
    /\ at' = [at EXCEPT ![s] = "post"]
    /\ UNCHANGED <<phase, ticks, sent, failed, retried, accepted>>

\* Faulty variant: the senders stop at the deadline, whatever is in the channel.
RangeEnds_Early(s) ==
    /\ at[s] = "range" /\ phase # "firing"
    /\ at' = [at EXCEPT ![s] = "done"]
    /\ UNCHANGED <<phase, ticks, jobs, taken, event, again, sent, failed, retried, accepted>>

RangeEnds(s) ==
    /\ at[s] = "range" /\ jobs = 0 /\ phase # "firing"
    /\ at' = [at EXCEPT ![s] = "done"]
    /\ UNCHANGED <<phase, ticks, jobs, taken, event, again, sent, failed, retried, accepted>>

\* send returns true: the first time, the sender may play a duplicate.
Sent(s) ==
    /\ sent' = sent + 1
    /\ \/ again[s] /\ at' = [at EXCEPT ![s] = "minus"] /\ UNCHANGED again
       \/ ~again[s] /\ at' = [at EXCEPT ![s] = "range"] /\ UNCHANGED again
       \/ /\ Dupes /\ ~again[s]
          /\ at' = [at EXCEPT ![s] = "post"] /\ again' = [again EXCEPT ![s] = TRUE]
    /\ UNCHANGED failed

\* Faulty variant: a failed duplicate does not count as failed.
Failed_Forgets(s) ==
    /\ at' = [at EXCEPT ![s] = IF again[s] THEN "minus" ELSE "range"]
    /\ failed' = IF again[s] THEN failed ELSE failed + 1
    /\ UNCHANGED <<sent, again>>

\* Faulty variant: an event whose first send failed is duplicated too.
Failed_Duplicates(s) ==
    /\ \/ at' = [at EXCEPT ![s] = IF again[s] THEN "minus" ELSE "range"] /\ UNCHANGED again
       \/ /\ Dupes /\ ~again[s]
          /\ at' = [at EXCEPT ![s] = "post"] /\ again' = [again EXCEPT ![s] = TRUE]
    /\ failed' = failed + 1
    /\ UNCHANGED sent

\* send returns false; the result of the second send is not looked at.
Failed(s) ==
    /\ at' = [at EXCEPT ![s] = IF again[s] THEN "minus" ELSE "range"]
    /\ failed' = failed + 1
    /\ UNCHANGED <<sent, again>>

Accept(s) == accepted' = accepted \cup {event[s]}
loopVars == <<phase, ticks, jobs, taken, event>>

\* client.Post: 202; an error or a timeout, whatever the server did; another
\* status; or 503, which is retried once.
Post(s) ==
    /\ at[s] \in {"post", "retry"}
    /\ \/ Accept(s) /\ Sent(s) /\ UNCHANGED retried
       \/ (Accept(s) \/ UNCHANGED accepted) /\ Failed(s) /\ UNCHANGED retried
       \/ /\ at[s] = "post"
          /\ at' = [at EXCEPT ![s] = "retry"]
          /\ retried' = retried + 1
          /\ UNCHANGED <<sent, failed, again, accepted>>
    /\ UNCHANGED loopVars

\* Faulty variant: the duplicate stays counted.
Minus_Keeps(s) ==
    /\ at[s] = "minus"
    /\ at' = [at EXCEPT ![s] = "range"]
    /\ UNCHANGED <<loopVars, again, sent, failed, retried, accepted>>

\* After a duplicate, whether it was accepted or not: sent counts events.
Minus(s) ==
    /\ at[s] = "minus"
    /\ sent' = sent - 1
    /\ at' = [at EXCEPT ![s] = "range"]
    /\ UNCHANGED <<loopVars, again, failed, retried, accepted>>

SenderStep(s) == TakeJob(s) \/ RangeEnds(s) \/ Post(s) \/ Minus(s)

\* main has returned.
Rest == phase = "reported" /\ UNCHANGED vars

Next == Tick \/ Deadline \/ Report \/ Rest \/ \E s \in Senders : SenderStep(s)

\* The deadline fires, a request ends within the client's 5 s, and the Go
\* scheduler runs the senders.
Fairness ==
    /\ WF_vars(Deadline) /\ WF_vars(Report)
    /\ \A s \in Senders : WF_vars(SenderStep(s))

Spec == Init /\ [][Next]_vars /\ Fairness

-----------------------------------------------------------------------------
LoadTypeOK ==
    /\ phase \in {"firing", "waiting", "reported"}
    /\ ticks \in 0 .. MaxTicks /\ jobs \in 0 .. JobCap /\ taken \in Nat
    /\ at \in [Senders -> {"range", "post", "retry", "minus", "done"}]
    /\ event \in [Senders -> 0 .. taken] /\ again \in [Senders -> BOOLEAN]
    /\ sent \in Nat /\ failed \in Nat /\ retried \in Nat
    /\ accepted \subseteq 1 .. taken

\* The senders whose job counts nowhere yet, those whose job counts twice, and
\* those about to take one from sent.
Uncounted == {s \in Senders : at[s] \in {"post", "retry"} /\ ~again[s]}
Twice == {s \in Senders : at[s] = "minus"}
Duplicating == {s \in Senders : at[s] \in {"post", "retry"} /\ again[s]} \cup Twice

\* Every job counts once in sent + failed, through retries and duplicates, the
\* duplicate that fails included: what it adds to failed, the -1 takes from sent.
JobsCounted == sent + failed + Cardinality(Uncounted) = taken + Cardinality(Twice)

\* sent, when reported, never exceeds the distinct events the server accepted:
\* finding fewer of them stored is a loss in tally, not a count in loadgen.
SentWereAccepted == phase = "reported" => sent <= Cardinality(accepted)

\* A run without failures reports exactly what the server accepted, as the
\* comparison of sent with sum(count_today) in BENCHMARKS.md takes for granted.
ExactUnlessFailed ==
    phase = "reported" /\ failed = 0 => sent = Cardinality(accepted) /\ sent = taken /\ jobs = 0

\* The event of a sender is its own, accepted when it is a duplicate and not
\* accepted before it is counted.
EventInv(s) ==
    /\ at[s] \in {"post", "retry"} => event[s] > 0
    /\ s \in Uncounted => event[s] \notin accepted
    /\ s \in Duplicating => event[s] \in accepted
    /\ \A t \in Senders : event[t] = event[s] /\ event[s] > 0 => t = s

\* A sender leaves its loop when the channel is closed and empty.
DoneInv(s) == at[s] = "done" => jobs = 0 /\ phase # "firing"

\* The inductive invariant: sent is at least what will be taken from it, and at
\* most what was accepted and what counts twice; exactly that without failures.
LoadInv ==
    /\ LoadTypeOK /\ JobsCounted
    /\ \A s \in Senders : EventInv(s) /\ DoneInv(s)
    /\ Cardinality(Duplicating) <= sent
    /\ sent <= Cardinality(accepted) + Cardinality(Twice)
    /\ failed = 0 => sent = Cardinality(accepted) + Cardinality(Twice)
    /\ phase = "reported" => \A s \in Senders : at[s] = "done"

\* The run ends: after close(jobs) the senders drain the channel and main
\* gets past wg.Wait.
Reports == <>(phase = "reported")
=============================================================================
