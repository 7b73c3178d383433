----------------------------- MODULE LoadProofs -----------------------------
(***************************************************************************)
(* LoadGen: the report counts every job once and no event that the server  *)
(* did not accept, for any number of senders, jobs and ticks.              *)
(***************************************************************************)
EXTENDS LoadGen, FiniteSetTheorems, TLAPS

\* A leaf goes to Zenon for two seconds, then to the SMT solver.
USE ZenonT(2), SMTT(30)

\* What membership adds to a cardinality.
One(b) == IF b THEN 1 ELSE 0

\* Sets that differ in one element at most: how their sizes do.
LEMMA OneMoves ==
    ASSUME NEW S, NEW T, NEW x, IsFiniteSet(S), \A y : y # x => (y \in T <=> y \in S)
    PROVE  /\ IsFiniteSet(T) /\ Cardinality(S) \in Nat /\ Cardinality(T) \in Nat
           /\ Cardinality(T) = Cardinality(S) + One(x \in T) - One(x \in S)
<1>1. Cardinality(S) \in Nat
    BY FS_CardinalityType
<1>2. CASE x \in T
    <2>1. T = S \cup {x}
        BY <1>2
    <2>2. /\ IsFiniteSet(T)
          /\ Cardinality(T) = IF x \in S THEN Cardinality(S) ELSE Cardinality(S) + 1
        BY <2>1, FS_AddElement
    <2>3. Cardinality(T) \in Nat
        BY <2>2, FS_CardinalityType
    <2> QED  BY <1>1, <1>2, <2>2, <2>3 DEF One
<1>3. CASE x \notin T
    <2>1. T = S \ {x}
        BY <1>3
    <2>2. /\ IsFiniteSet(T)
          /\ Cardinality(T) = IF x \in S THEN Cardinality(S) - 1 ELSE Cardinality(S)
        BY <2>1, FS_RemoveElement
    <2>3. Cardinality(T) \in Nat
        BY <2>2, FS_CardinalityType
    <2> QED  BY <1>1, <1>3, <2>2, <2>3 DEF One
<1> QED  BY <1>2, <1>3

\* The sets of senders are finite, and so is what the server accepted.
LEMMA LoadFinite ==
    ASSUME LoadTypeOK
    PROVE  /\ IsFiniteSet(Uncounted) /\ IsFiniteSet(Twice) /\ IsFiniteSet(Duplicating)
           /\ IsFiniteSet(accepted) /\ Cardinality(accepted) \in Nat
           /\ Cardinality(Uncounted) \in Nat /\ Cardinality(Twice) \in Nat
           /\ Cardinality(Duplicating) \in Nat
<1>1. Uncounted \in SUBSET Senders /\ Twice \in SUBSET Senders /\ Duplicating \in SUBSET Senders
    BY DEF Uncounted, Twice, Duplicating
<1>2. accepted \in SUBSET (1 .. taken) /\ IsFiniteSet(1 .. taken)
    BY FS_Interval DEF LoadTypeOK
<1>3. IsFiniteSet(Uncounted) /\ IsFiniteSet(Twice) /\ IsFiniteSet(Duplicating)
    BY <1>1, LoadAssumption, FS_Subset
<1>4. IsFiniteSet(accepted)
    BY <1>2, FS_Subset
<1> QED  BY <1>3, <1>4, FS_CardinalityType

\* What a step of one sender does to the sets of senders.
Moved(s) ==
    /\ Cardinality(Uncounted)' = Cardinality(Uncounted)
                                 + One(s \in Uncounted') - One(s \in Uncounted)
    /\ Cardinality(Twice)' = Cardinality(Twice) + One(s \in Twice') - One(s \in Twice)
    /\ Cardinality(Duplicating)' = Cardinality(Duplicating)
                                   + One(s \in Duplicating') - One(s \in Duplicating)
    /\ Cardinality(Duplicating)' \in Nat
    /\ \A t \in Senders : t # s => /\ t \in Uncounted' <=> t \in Uncounted
                                   /\ t \in Duplicating' <=> t \in Duplicating

\* A step of one sender moves that sender only.
LEMMA SenderMoves ==
    ASSUME LoadTypeOK, NEW s \in Senders,
           \A t \in Senders : t # s => at'[t] = at[t] /\ again'[t] = again[t]
    PROVE  Moved(s)
<1>1. \A t : t # s => /\ t \in Uncounted' <=> t \in Uncounted
                      /\ t \in Twice' <=> t \in Twice
                      /\ t \in Duplicating' <=> t \in Duplicating
    BY DEF Uncounted, Twice, Duplicating
<1>2. IsFiniteSet(Uncounted) /\ IsFiniteSet(Twice) /\ IsFiniteSet(Duplicating)
    BY LoadFinite
<1>3. Cardinality(Uncounted') = Cardinality(Uncounted) + One(s \in Uncounted') - One(s \in Uncounted)
    BY <1>1, <1>2, OneMoves
<1>4. Cardinality(Twice') = Cardinality(Twice) + One(s \in Twice') - One(s \in Twice)
    BY <1>1, <1>2, OneMoves
<1>5. /\ Cardinality(Duplicating') = Cardinality(Duplicating)
                                  + One(s \in Duplicating') - One(s \in Duplicating)
      /\ Cardinality(Duplicating') \in Nat
    BY <1>1, <1>2, OneMoves
<1> QED  BY <1>1, <1>3, <1>4, <1>5 DEF Moved

-----------------------------------------------------------------------------
\* A tick and the deadline touch no sender.
LEMMA TickerKeeps ==
    ASSUME LoadInv, Tick \/ Deadline \/ Report
    PROVE  LoadInv'
<1>1. UNCHANGED <<taken, at, event, again, sent, failed, retried, accepted>>
    BY DEF Tick, Deadline, Report, senderVars
<1>2. LoadTypeOK'
    <2>1. /\ phase' \in {"firing", "waiting", "reported"}
          /\ ticks' \in 0 .. MaxTicks /\ jobs' \in 0 .. JobCap
        BY LoadAssumption DEF Tick, Deadline, Report, LoadInv, LoadTypeOK
    <2> QED  BY <1>1, <2>1 DEF LoadInv, LoadTypeOK
<1>3. Uncounted' = Uncounted /\ Twice' = Twice /\ Duplicating' = Duplicating
    BY <1>1 DEF Uncounted, Twice, Duplicating
<1>4. \A s \in Senders : EventInv(s)'
    BY <1>1, <1>3 DEF LoadInv, EventInv
<1>5. \A s \in Senders : DoneInv(s)'
    BY <1>1 DEF LoadInv, DoneInv, Tick, Deadline, Report
<1>6. phase' = "reported" => \A s \in Senders : at[s] = "done"
    BY DEF LoadInv, Tick, Deadline, Report
<1> QED  BY <1>1, <1>2, <1>3, <1>4, <1>5, <1>6 DEF LoadInv, JobsCounted

\* A job taken is one more to count, with an event of its own.
LEMMA TakeKeeps ==
    ASSUME LoadInv, NEW s \in Senders, TakeJob(s)
    PROVE  LoadInv'
<1>1. /\ LoadTypeOK /\ at[s] = "range" /\ jobs > 0 /\ jobs' = jobs - 1 /\ taken' = taken + 1
      /\ at' = [at EXCEPT ![s] = "post"] /\ again' = [again EXCEPT ![s] = FALSE]
      /\ event' = [event EXCEPT ![s] = taken + 1]
      /\ UNCHANGED <<phase, ticks, sent, failed, retried, accepted>>
    BY DEF LoadInv, TakeJob
<1>2. /\ at'[s] = "post" /\ again'[s] = FALSE /\ event'[s] = taken + 1
      /\ \A t \in Senders : t # s => at'[t] = at[t] /\ again'[t] = again[t] /\ event'[t] = event[t]
    BY <1>1 DEF LoadTypeOK
<1>3. /\ taken \in Nat /\ jobs \in 0 .. JobCap /\ JobCap \in Nat /\ sent \in Nat /\ failed \in Nat
      /\ accepted \subseteq 1 .. taken /\ \A t \in Senders : event[t] \in 0 .. taken
    BY <1>1, LoadAssumption DEF LoadTypeOK
<1>4. LoadTypeOK'
    <2>1. jobs' \in 0 .. JobCap /\ taken' \in Nat /\ accepted' \subseteq 1 .. taken'
        BY <1>1, <1>3
    <2>2. event' \in [Senders -> 0 .. taken']
        BY <1>1, <1>3 DEF LoadTypeOK
    <2>3. /\ at' \in [Senders -> {"range", "post", "retry", "minus", "done"}]
          /\ again' \in [Senders -> BOOLEAN]
        BY <1>1 DEF LoadTypeOK
    <2> QED  BY <1>1, <2>1, <2>2, <2>3 DEF LoadTypeOK
<1>5. /\ s \in Uncounted' /\ s \notin Uncounted /\ s \notin Twice /\ s \notin Twice'
      /\ s \notin Duplicating /\ s \notin Duplicating'
    BY <1>1, <1>2 DEF Uncounted, Twice, Duplicating
<1>6. /\ Cardinality(Uncounted)' = Cardinality(Uncounted) + 1
      /\ Cardinality(Twice)' = Cardinality(Twice)
      /\ Cardinality(Duplicating)' = Cardinality(Duplicating)
      /\ \A t \in Senders : t # s => /\ t \in Uncounted' <=> t \in Uncounted
                                     /\ t \in Duplicating' <=> t \in Duplicating
    <2>1. Moved(s)
        BY <1>1, <1>2, SenderMoves
    <2> QED  BY <1>1, <1>5, <2>1, LoadFinite DEF One, Moved
<1>7. JobsCounted'
    BY <1>1, <1>3, <1>6, LoadFinite DEF LoadInv, JobsCounted
<1>8. ASSUME NEW t \in Senders PROVE EventInv(t)'
    <2>1. taken + 1 \notin accepted /\ taken + 1 > 0 /\ \A u \in Senders : event[u] # taken + 1
        BY <1>3
    <2>2. EventInv(t)
        BY DEF LoadInv
    <2>3. CASE t = s
        BY <1>1, <1>2, <1>5, <2>1, <2>3 DEF EventInv
    <2>4. CASE t # s
        BY <1>1, <1>2, <1>6, <2>1, <2>2, <2>4 DEF EventInv
    <2> QED  BY <2>3, <2>4
<1>9. \A t \in Senders : DoneInv(t)' /\ at[t] # "done"
    BY <1>1, <1>2, <1>3 DEF LoadInv, DoneInv
<1> QED  BY <1>1, <1>4, <1>6, <1>7, <1>8, <1>9 DEF LoadInv

\* The end of the channel is the end of the sender.
LEMMA RangeKeeps ==
    ASSUME LoadInv, NEW s \in Senders, RangeEnds(s)
    PROVE  LoadInv'
<1>1. /\ LoadTypeOK /\ at[s] = "range" /\ jobs = 0 /\ phase # "firing"
      /\ at' = [at EXCEPT ![s] = "done"]
      /\ UNCHANGED <<phase, ticks, jobs, taken, event, again, sent, failed, retried, accepted>>
    BY DEF LoadInv, RangeEnds
<1>2. at'[s] = "done" /\ \A t \in Senders : t # s => at'[t] = at[t]
    BY <1>1 DEF LoadTypeOK
<1>3. LoadTypeOK'
    BY <1>1 DEF LoadTypeOK
<1>4. Uncounted' = Uncounted /\ Twice' = Twice /\ Duplicating' = Duplicating
    BY <1>1, <1>2 DEF Uncounted, Twice, Duplicating
<1>5. \A t \in Senders : EventInv(t)' /\ DoneInv(t)'
    BY <1>1, <1>2, <1>4 DEF LoadInv, EventInv, DoneInv
<1>6. phase # "reported"
    BY <1>1 DEF LoadInv
<1> QED  BY <1>1, <1>3, <1>4, <1>5, <1>6 DEF LoadInv, JobsCounted

\* sent gives back what it counted for a duplicate.
LEMMA MinusKeeps ==
    ASSUME LoadInv, NEW s \in Senders, Minus(s)
    PROVE  LoadInv'
<1>1. /\ LoadTypeOK /\ at[s] = "minus" /\ at' = [at EXCEPT ![s] = "range"] /\ sent' = sent - 1
      /\ UNCHANGED <<phase, ticks, jobs, taken, event, again, failed, retried, accepted>>
    BY DEF LoadInv, Minus, loopVars
<1>2. at'[s] = "range" /\ \A t \in Senders : t # s => at'[t] = at[t]
    BY <1>1 DEF LoadTypeOK
<1>3. taken \in Nat /\ sent \in Nat /\ failed \in Nat
    BY <1>1 DEF LoadTypeOK
<1>4. /\ s \notin Uncounted' /\ s \notin Uncounted /\ s \in Twice /\ s \notin Twice'
      /\ s \in Duplicating /\ s \notin Duplicating'
    BY <1>1, <1>2 DEF Uncounted, Twice, Duplicating
<1>5. /\ Cardinality(Uncounted)' = Cardinality(Uncounted)
      /\ Cardinality(Twice)' = Cardinality(Twice) - 1
      /\ Cardinality(Duplicating)' = Cardinality(Duplicating) - 1 /\ Cardinality(Duplicating)' \in Nat
      /\ \A t \in Senders : t # s => /\ t \in Uncounted' <=> t \in Uncounted
                                     /\ t \in Duplicating' <=> t \in Duplicating
    <2>1. Moved(s)
        BY <1>1, <1>2, SenderMoves
    <2> QED  BY <1>1, <1>4, <2>1, LoadFinite DEF One, Moved
<1>6. Cardinality(Duplicating) <= sent
    BY DEF LoadInv
<1>7. LoadTypeOK'
    <2>1. at' \in [Senders -> {"range", "post", "retry", "minus", "done"}]
        BY <1>1 DEF LoadTypeOK
    <2>2. sent' \in Nat
        BY <1>1, <1>3, <1>5, <1>6, LoadFinite
    <2> QED  BY <1>1, <2>1, <2>2 DEF LoadTypeOK
<1>8. /\ JobsCounted' /\ Cardinality(Duplicating)' <= sent'
      /\ sent' <= Cardinality(accepted) + Cardinality(Twice)'
      /\ failed = 0 => sent' = Cardinality(accepted) + Cardinality(Twice)'
    BY <1>1, <1>3, <1>5, <1>6, LoadFinite DEF LoadInv, JobsCounted
<1>9. \A t \in Senders : EventInv(t)'
    BY <1>1, <1>2, <1>4, <1>5 DEF LoadInv, EventInv
<1>10. \A t \in Senders : DoneInv(t)' /\ phase # "reported"
    BY <1>1, <1>2 DEF LoadInv, DoneInv
<1> QED  BY <1>1, <1>7, <1>8, <1>9, <1>10 DEF LoadInv

\* A request answered 202, failed, or answered 503 the first time: the job moves
\* from the uncounted to sent or to failed, a duplicate to those counted twice.
LEMMA PostKeeps ==
    ASSUME LoadInv, NEW s \in Senders, Post(s)
    PROVE  LoadInv'
<1>1. /\ LoadTypeOK /\ at[s] \in {"post", "retry"}
      /\ UNCHANGED <<phase, ticks, jobs, taken, event>>
    BY DEF LoadInv, Post, loopVars
<1>2. /\ taken \in Nat /\ sent \in Nat /\ failed \in Nat /\ retried \in Nat /\ again[s] \in BOOLEAN
      /\ event[s] \in 1 .. taken /\ accepted \subseteq 1 .. taken
    <2>1. event[s] \in 0 .. taken /\ event[s] > 0
        BY <1>1 DEF LoadInv, LoadTypeOK, EventInv
    <2> QED  BY <1>1, <2>1 DEF LoadTypeOK
<1>3. /\ s \in Uncounted <=> ~again[s]
      /\ s \in Duplicating <=> again[s]
      /\ s \notin Twice
    BY <1>1, <1>2 DEF Uncounted, Twice, Duplicating
<1>4. (~again[s] => event[s] \notin accepted) /\ (again[s] => event[s] \in accepted)
    BY <1>3 DEF LoadInv, EventInv
<1>5. /\ accepted' = accepted \cup {event[s]} \/ accepted' = accepted
      /\ \E a \in {"range", "retry", "post", "minus"} : at' = [at EXCEPT ![s] = a]
      /\ again' = again \/ again' = [again EXCEPT ![s] = TRUE]
    BY DEF Post, Accept, Sent, Failed
<1>6. \A t \in Senders : t # s => at'[t] = at[t] /\ again'[t] = again[t]
    BY <1>1, <1>5 DEF LoadTypeOK
<1>7. Moved(s)
    BY <1>1, <1>6, SenderMoves
<1>8. /\ accepted' \subseteq 1 .. taken /\ at' \in [Senders -> {"range", "post", "retry", "minus", "done"}]
      /\ again' \in [Senders -> BOOLEAN]
    BY <1>1, <1>2, <1>5 DEF LoadTypeOK
<1>9. /\ Cardinality(accepted)' \in Nat
      /\ accepted' = accepted \cup {event[s]} =>
            Cardinality(accepted)' = Cardinality(accepted) + One(~again[s])
    <2>1. IsFiniteSet(accepted) /\ Cardinality(accepted) \in Nat
        BY <1>1, LoadFinite
    <2>2. CASE accepted' = accepted \cup {event[s]}
        <3>1. Cardinality(accepted') = IF event[s] \in accepted THEN Cardinality(accepted)
                                       ELSE Cardinality(accepted) + 1
            BY <2>1, <2>2, FS_AddElement
        <3> QED  BY <1>4, <2>1, <3>1 DEF One
    <2> QED  BY <1>5, <2>1, <2>2
<1>10. \A t \in Senders : EventInv(t) /\ DoneInv(t)
    BY DEF LoadInv
<1>11. /\ sent' \in Nat /\ failed' \in Nat /\ retried' \in Nat
       /\ JobsCounted' /\ Cardinality(Duplicating)' <= sent'
       /\ sent' <= Cardinality(accepted)' + Cardinality(Twice)'
       /\ failed' = 0 => sent' = Cardinality(accepted)' + Cardinality(Twice)'
       /\ s \in Uncounted' => event[s] \notin accepted'
       /\ s \in Duplicating' => event[s] \in accepted'
       /\ at'[s] # "done"
    <2>1. /\ sent + failed + Cardinality(Uncounted) = taken + Cardinality(Twice)
          /\ Cardinality(Duplicating) <= sent
          /\ sent <= Cardinality(accepted) + Cardinality(Twice)
          /\ failed = 0 => sent = Cardinality(accepted) + Cardinality(Twice)
        BY DEF LoadInv, JobsCounted
    <2>2. CASE Accept(s) /\ Sent(s) /\ UNCHANGED retried /\ ~again[s]
        <3>1. /\ (at'[s] = "range" /\ again'[s] = FALSE) \/ (at'[s] = "post" /\ again'[s] = TRUE)
              /\ accepted' = accepted \cup {event[s]} /\ sent' = sent + 1 /\ failed' = failed
            BY <1>1, <1>2, <2>2 DEF Sent, Accept, LoadTypeOK
        <3>2. s \notin Uncounted' /\ s \notin Twice'
            BY <3>1 DEF Uncounted, Twice
        <3>3. /\ Cardinality(Uncounted)' = Cardinality(Uncounted) - 1
              /\ Cardinality(Twice)' = Cardinality(Twice)
              /\ Cardinality(Duplicating)' <= Cardinality(Duplicating) + 1
              /\ Cardinality(accepted)' = Cardinality(accepted) + 1
            BY <1>1, <1>3, <1>7, <1>9, <2>2, <3>1, <3>2, LoadFinite DEF Moved, One
        <3>4. event[s] \in accepted' /\ at'[s] # "done" /\ retried' = retried
            BY <2>2, <3>1
        <3> QED  BY <1>1, <1>2, <1>7, <2>1, <3>1, <3>2, <3>3, <3>4, LoadFinite DEF JobsCounted, Moved
    <2>3. CASE Accept(s) /\ Sent(s) /\ UNCHANGED retried /\ again[s]
        <3>1. /\ at'[s] = "minus" /\ again'[s] = TRUE
              /\ accepted' = accepted \cup {event[s]} /\ sent' = sent + 1 /\ failed' = failed
            BY <1>1, <1>2, <2>3 DEF Sent, Accept, LoadTypeOK
        <3>2. s \notin Uncounted' /\ s \in Twice' /\ s \in Duplicating'
            BY <3>1 DEF Uncounted, Twice, Duplicating
        <3>3. /\ Cardinality(Uncounted)' = Cardinality(Uncounted)
              /\ Cardinality(Twice)' = Cardinality(Twice) + 1
              /\ Cardinality(Duplicating)' = Cardinality(Duplicating)
              /\ Cardinality(accepted)' = Cardinality(accepted)
            BY <1>1, <1>3, <1>7, <1>9, <2>3, <3>1, <3>2, LoadFinite DEF Moved, One
        <3>4. event[s] \in accepted' /\ at'[s] # "done" /\ retried' = retried
            BY <2>3, <3>1
        <3> QED  BY <1>1, <1>2, <2>1, <3>1, <3>2, <3>3, <3>4, LoadFinite DEF JobsCounted
    <2>4. CASE (Accept(s) \/ UNCHANGED accepted) /\ Failed(s) /\ UNCHANGED retried
        <3>1. /\ at'[s] = (IF again[s] THEN "minus" ELSE "range") /\ again' = again
              /\ sent' = sent /\ failed' = failed + 1
            BY <1>1, <2>4 DEF Failed, LoadTypeOK
        <3>2. /\ s \notin Uncounted' /\ (s \in Twice' <=> again[s])
              /\ s \in Duplicating' <=> again[s]
            BY <3>1 DEF Uncounted, Twice, Duplicating
        <3>3. /\ Cardinality(Uncounted)' = Cardinality(Uncounted) - One(~again[s])
              /\ Cardinality(Twice)' = Cardinality(Twice) + One(again[s])
              /\ Cardinality(Duplicating)' = Cardinality(Duplicating)
            BY <1>1, <1>2, <1>3, <1>7, <3>2, LoadFinite DEF Moved, One
        <3>4. Cardinality(accepted)' >= Cardinality(accepted)
            BY <1>1, <1>2, <1>5, <1>9, LoadFinite DEF One
        <3>5. /\ s \in Duplicating' => event[s] \in accepted'
              /\ at'[s] # "done" /\ retried' = retried
            BY <1>4, <1>5, <2>4, <3>1, <3>2
        <3>6. failed' # 0 /\ failed' \in Nat /\ sent' \in Nat
            BY <1>2, <3>1
        <3>7. JobsCounted'
            BY <1>1, <1>2, <2>1, <3>1, <3>3, LoadFinite DEF JobsCounted, One
        <3>8. /\ Cardinality(Duplicating)' <= sent'
              /\ sent' <= Cardinality(accepted)' + Cardinality(Twice)'
            BY <1>1, <1>2, <1>9, <2>1, <3>1, <3>3, <3>4, LoadFinite DEF One
        <3> QED  BY <1>2, <3>2, <3>5, <3>6, <3>7, <3>8
    <2>5. CASE /\ at[s] = "post" /\ at' = [at EXCEPT ![s] = "retry"] /\ retried' = retried + 1
               /\ UNCHANGED <<sent, failed, again, accepted>>
        <3>1. at'[s] = "retry"
            BY <1>1, <2>5 DEF LoadTypeOK
        <3>2. Uncounted' = Uncounted /\ Twice' = Twice /\ Duplicating' = Duplicating
            BY <1>1, <1>6, <2>5, <3>1 DEF Uncounted, Twice, Duplicating
        <3>3. s \in Uncounted' => event[s] \notin accepted'
            BY <1>3, <1>4, <2>5, <3>2
        <3>4. s \in Duplicating' => event[s] \in accepted'
            BY <1>3, <1>4, <2>5, <3>2
        <3>5. retried' \in Nat
            BY <1>2, <2>5
        <3>6. JobsCounted' /\ at'[s] # "done"
            BY <1>1, <2>1, <2>5, <3>1, <3>2 DEF JobsCounted
        <3>7. /\ Cardinality(Duplicating)' <= sent' /\ sent' \in Nat /\ failed' \in Nat
              /\ sent' <= Cardinality(accepted)' + Cardinality(Twice)'
              /\ failed' = 0 => sent' = Cardinality(accepted)' + Cardinality(Twice)'
            BY <1>2, <2>1, <2>5, <3>2
        <3> QED  BY <3>3, <3>4, <3>5, <3>6, <3>7
    <2> QED  BY <1>2, <2>2, <2>3, <2>4, <2>5 DEF Post
<1>12. ASSUME NEW t \in Senders PROVE EventInv(t)'
    <2>1. CASE t = s
        BY <1>1, <1>2, <1>10, <1>11, <2>1 DEF EventInv
    <2>2. CASE t # s
        <3>1. event[t] > 0 => event[t] # event[s]
            BY <1>10, <2>2 DEF EventInv
        <3>2. t \in Uncounted => event[t] > 0
            BY <1>10 DEF EventInv, Uncounted
        <3>3. t \in Uncounted' => event[t] \notin accepted'
            BY <1>5, <1>7, <1>10, <2>2, <3>1, <3>2 DEF EventInv, Moved
        <3>4. t \in Duplicating' => event[t] \in accepted'
            BY <1>5, <1>7, <1>10, <2>2 DEF EventInv, Moved
        <3> QED  BY <1>1, <1>6, <1>10, <2>2, <3>3, <3>4 DEF EventInv
    <2> QED  BY <2>1, <2>2
<1>13. \A t \in Senders : DoneInv(t)' /\ phase # "reported"
    BY <1>1, <1>6, <1>10, <1>11 DEF LoadInv, DoneInv
<1>14. LoadTypeOK'
    BY <1>1, <1>8, <1>11 DEF LoadTypeOK
<1> QED  BY <1>1, <1>11, <1>12, <1>13, <1>14 DEF LoadInv

\* The counters start at nothing.
LEMMA LoadInitInv == Init => LoadInv
<1> SUFFICES ASSUME Init PROVE LoadInv
    OBVIOUS
<1>1. LoadTypeOK
    BY LoadAssumption DEF Init, LoadTypeOK
<1>2. Uncounted = {} /\ Twice = {} /\ Duplicating = {}
    BY DEF Init, Uncounted, Twice, Duplicating
<1>3. JobsCounted /\ Cardinality(accepted) = 0 /\ Cardinality(Twice) = 0 /\ Cardinality(Duplicating) = 0
    BY <1>2, FS_EmptySet DEF Init, JobsCounted
<1>4. \A s \in Senders : EventInv(s) /\ DoneInv(s)
    BY <1>2 DEF Init, EventInv, DoneInv
<1> QED  BY <1>1, <1>3, <1>4 DEF Init, LoadInv

\* Every step of loadgen keeps the invariant.
LEMMA LoadNextInv == LoadInv /\ [Next]_vars => LoadInv'
<1> SUFFICES ASSUME LoadInv, [Next]_vars PROVE LoadInv'
    OBVIOUS
<1>1. CASE UNCHANGED vars
    BY <1>1 DEF vars, LoadInv, LoadTypeOK, JobsCounted, EventInv, DoneInv, Uncounted, Twice, Duplicating
<1>2. Rest => UNCHANGED vars
    BY DEF Rest
<1>3. ASSUME NEW s \in Senders, SenderStep(s) PROVE LoadInv'
    BY <1>3, TakeKeeps, RangeKeeps, PostKeeps, MinusKeeps DEF SenderStep
<1> QED  BY <1>1, <1>2, <1>3, TickerKeeps DEF Next

\* sent stays between what will be taken from it and what the server accepted.
LEMMA LoadKeeps == Spec => []LoadInv
<1> QED  BY LoadInitInv, LoadNextInv, PTL DEF Spec

-----------------------------------------------------------------------------
\* loadgen's state is well-formed: the channel is within its capacity and sent
\* is never negative, although the -1 for a duplicate comes after it.
THEOREM LoadTypes == Spec => []LoadTypeOK
<1>1. LoadInv => LoadTypeOK
    BY DEF LoadInv
<1> QED  BY <1>1, LoadKeeps, PTL

\* Every job counts once in sent and failed.
THEOREM LoadCounts == Spec => []JobsCounted
<1>1. LoadInv => JobsCounted
    BY DEF LoadInv
<1> QED  BY <1>1, LoadKeeps, PTL

\* When main reports, no sender has anything in hand.
LEMMA ReportIsLast ==
    ASSUME LoadInv, phase = "reported"
    PROVE  /\ Cardinality(Uncounted) = 0 /\ Cardinality(Twice) = 0
           /\ jobs = 0 /\ Cardinality(accepted) \in Nat
<1>1. Uncounted = {} /\ Twice = {}
    BY DEF LoadInv, Uncounted, Twice
<1>2. PICK s \in Senders : at[s] = "done"
    BY LoadAssumption DEF LoadInv
<1>3. jobs = 0
    BY <1>2 DEF LoadInv, DoneInv
<1> QED  BY <1>1, <1>3, FS_EmptySet, LoadFinite DEF LoadInv

\* sent, when reported, is at most the number of distinct events accepted.
THEOREM LoadSent == Spec => []SentWereAccepted
<1>1. LoadInv => SentWereAccepted
    BY ReportIsLast DEF LoadInv, LoadTypeOK, SentWereAccepted
<1> QED  BY <1>1, LoadKeeps, PTL

\* A run without failures reports what the server accepted, and every job.
THEOREM LoadExact == Spec => []ExactUnlessFailed
<1>1. LoadInv => ExactUnlessFailed
    <2> SUFFICES ASSUME LoadInv, phase = "reported", failed = 0
                 PROVE  sent = Cardinality(accepted) /\ sent = taken /\ jobs = 0
        BY DEF ExactUnlessFailed
    <2>1. sent \in Nat /\ taken \in Nat
        BY DEF LoadInv, LoadTypeOK
    <2> QED  BY <2>1, ReportIsLast DEF LoadInv, JobsCounted
<1> QED  BY <1>1, LoadKeeps, PTL
=============================================================================
