------------------------------ MODULE Queries ------------------------------
(***************************************************************************)
(* The read side: the queries of internal/store and the endpoints          *)
(* /v1/counts, /v1/uniques and /v1/stats of internal/ingest, beside        *)
(* workers that commit batches.  A statement of Postgres sees what was     *)
(* committed when it began, and the clock at that moment; getStats makes   *)
(* three of them.  event_uniques_day holds the bytes of a sketch here,     *)
(* next to the set of users that Store abstracts it to.                    *)
(***************************************************************************)
EXTENDS Store, Sketch, SequencesExt

CONSTANTS
    NoRow,          \* a (name, day) without a row in event_uniques_day
    Limit,          \* the LIMIT 20 of TotalsToday
    Window,         \* the 15 minutes of Series
    MaxAhead        \* bound: minutes an ingest clock is ahead of Postgres's

ASSUME QueryAssumption ==
    /\ Values = Users
    /\ Limit \in Nat /\ Window \in Nat /\ MaxAhead \in Nat
    /\ \A s \in [Registers -> 0 .. MaxRank] : Bytes(s) # NoRow

VARIABLES
    clock,      \* now() of Postgres, in minutes
    sketches,   \* event_uniques_day.sketch, by (name, day)
    spc,        \* getStats: "idle", then at "uniques", at "series", or "done"
    stats       \* what it has read; day and seen are history

queryVars == <<clock, spc, stats>>
vars == <<storeVars, sketches, queryVars>>

NoStats == [totals |-> <<>>, day |-> 0, seen |-> {}, uniques |-> <<>>, uniquesDay |-> 0,
            series |-> <<>>, since |-> 0]

Init ==
    /\ StoreInit
    /\ sketches = [k \in Names \X Days |-> NoRow]
    /\ clock = 0
    /\ spc = "idle" /\ stats = NoStats

-----------------------------------------------------------------------------
\* updateUniques on one row: ensure it exists, decode, add the ids, encode.
Ensured(k) == IF sketches[k] = NoRow THEN Bytes(New) ELSE sketches[k]
AddUser(k, s, e) == IF e.user # NoUser /\ uniqueKey(e) = k THEN Add(s, e.user) ELSE s
\* Faulty variant: the ids are added to an empty sketch.
Folded_FromEmpty(k, order) == Bytes(FoldLeft(LAMBDA s, e : AddUser(k, s, e), New, order))

Folded(k, order) ==
    Bytes(FoldLeft(LAMBDA s, e : AddUser(k, s, e), FromBytes(Ensured(k)), order))

\* Faulty variant: an error of updateUniques is ignored.
Insert_IgnoresError(batch, new) ==
    /\ \A e \in batch : e.ts <= clock + MaxAhead
    /\ InsertBatch(batch, new)
    /\ UNCHANGED <<sketches, queryVars>>

\* A batch commits.  Its events come in some order; a row that FromBytes refuses
\* would fail the batch.  An ingest process stamps events by its own clock.
Insert(batch, new) ==
    /\ \A e \in batch : e.ts <= clock + MaxAhead
    /\ InsertBatch(batch, new)
    /\ \A k \in Names \X Days : UsersOf(batch, k) # {} => Readable(Ensured(k))
    /\ \E order \in SetToSeqs(batch) :
        sketches' = [k \in Names \X Days |->
            IF UsersOf(batch, k) = {} THEN sketches[k] ELSE Folded(k, order)]
    /\ UNCHANGED queryVars

MinutePasses ==
    /\ clock < MaxMinute
    /\ clock' = clock + 1
    /\ UNCHANGED <<storeVars, sketches, spc, stats>>

-----------------------------------------------------------------------------
\* Faulty variant: the time is taken for the date.
Today_Time == clock

\* current_date, and date_trunc('day', now())
Today == clock \div MinutesPerDay
DayStart == Today * MinutesPerDay

\* Faulty variant: the first minute of the day is left out.
TodayMinutes_Later == {t \in Minutes : t > DayStart}

\* minute >= date_trunc('day', now())
TodayMinutes == {t \in Minutes : t >= DayStart}

\* The answer of getCount, where no row is 0.
CountToday(n) == SumFunctionOnSet([t \in Minutes |-> counts[<<n, t>>]], TodayMinutes)
NamesToday == {n \in Names : CountToday(n) > 0}
RowsToday == {e \in events : e.ts >= DayStart}

\* The names ORDER BY 2 DESC LIMIT 20 may return.
TopNames ==
    {T \in SUBSET NamesToday :
        /\ Cardinality(T) = Min({Limit, Cardinality(NamesToday)})
        /\ \A n \in T, o \in NamesToday \ T : CountToday(n) >= CountToday(o)}

\* The names with a sketch of today, and the sketches.
NamesWithUniques == {n \in Names : sketches[<<n, Today>>] # NoRow}
UniquesTodayAll == [n \in NamesWithUniques |-> FromBytes(sketches[<<n, Today>>])]

\* The answer of getUniques: no row today is the estimate 0, of an empty sketch.
UniquesToday(n) == IF n \in NamesWithUniques THEN UniquesTodayAll[n] ELSE New

\* minute >= date_trunc('minute', now()) - window
Recent == {k \in Names \X Minutes : counts[k] > 0 /\ k[2] >= clock - Window}

\* getStats: TotalsToday...
getStats ==
    /\ spc \in {"idle", "done"}
    /\ \E T \in TopNames :
        stats' = [NoStats EXCEPT !.totals = [n \in T |-> CountToday(n)],
                                 !.day = Today, !.seen = RowsToday]
    /\ spc' = "uniques"
    /\ UNCHANGED <<storeVars, sketches, clock>>

\* ...UniquesTodayAll...
StatsUniques ==
    /\ spc = "uniques"
    /\ \A n \in NamesWithUniques : Readable(sketches[<<n, Today>>])
    /\ stats' = [stats EXCEPT !.uniques = UniquesTodayAll, !.uniquesDay = Today]
    /\ spc' = "series"
    /\ UNCHANGED <<storeVars, sketches, clock>>

\* ...Series, and the answer.
StatsSeries ==
    /\ spc = "series"
    /\ stats' = [stats EXCEPT !.series = [k \in Recent |-> counts[k]], !.since = clock - Window]
    /\ spc' = "done"
    /\ UNCHANGED <<storeVars, sketches, clock>>

\* One of the queries fails: 500, without the others.
StatsFails ==
    /\ spc' = "idle" /\ stats' = NoStats
    /\ UNCHANGED <<storeVars, sketches, clock>>

Next ==
    \/ \E batch \in Batches : \E new \in SUBSET batch : Insert(batch, new)
    \/ MinutePasses
    \/ getStats \/ StatsUniques \/ StatsSeries \/ StatsFails

Spec == Init /\ [][Next]_vars

-----------------------------------------------------------------------------
\* The types, with the answers a client may hold.
QueryTypeOK ==
    /\ StoreTypeOK
    /\ clock \in Minutes /\ spc \in {"idle", "uniques", "series", "done"}
    /\ DOMAIN stats.totals \subseteq Names /\ DOMAIN stats.uniques \subseteq Names
    /\ stats.seen \subseteq events /\ {stats.day, stats.uniquesDay} \subseteq Days

\* A row of event_uniques_day encodes the sketch of exactly the users folded
\* into it, whatever order and grouping the batches brought them in, and exists
\* only if there are any: every FromBytes of updateUniques and the queries succeeds.
SketchesEncode ==
    \A k \in Names \X Days :
        IF uniques[k] = {} THEN sketches[k] = NoRow
        ELSE Readable(sketches[k]) /\ IsSketchOf(FromBytes(sketches[k]), uniques[k])

\* A name in the totals of an answer is there with all its rows stored when they
\* were read, from 00:00 on: those an ingest clock ahead of Postgres stamped with
\* the next day count.  Names it leaves out have no more rows than those it lists.
TotalsCounted ==
    LET Rows(n) == Cardinality({e \in stats.seen : e.name = n})
    IN  spc # "idle" =>
            /\ \A n \in DOMAIN stats.totals : stats.totals[n] = Rows(n)
            /\ \A n \in Names \ DOMAIN stats.totals :
                   \/ Rows(n) = 0
                   \/ /\ Cardinality(DOMAIN stats.totals) = Limit
                      /\ \A o \in DOMAIN stats.totals : Rows(n) <= Rows(o)
            /\ \A e \in stats.seen : e.ts \div MinutesPerDay >= stats.day

\* internal/store: "TotalsToday returns today's count for every event name",
\* counting what "happened today (UTC)".  Not with more names than the LIMIT,
\* nor with rows of the next day.
EveryNameToday ==
    spc # "idle" => \A n \in Names :
        LET today == {e \in stats.seen : e.name = n /\ e.ts \div MinutesPerDay = stats.day}
        IN  today # {} => n \in DOMAIN stats.totals /\ stats.totals[n] = Cardinality(today)

\* An answer of getStats may mix states, but only forwards: the sketches it
\* shows hold the user of every event its totals count (unless midnight fell
\* between the two statements), and its series every such event of the window.
StatsCohere ==
    /\ spc \in {"series", "done"} /\ stats.uniquesDay = stats.day =>
        \A e \in stats.seen :
            e.user # NoUser /\ e.ts \div MinutesPerDay = stats.day =>
                /\ e.name \in DOMAIN stats.uniques
                /\ rank(e.user) <= stats.uniques[e.name][idx(e.user)]
    /\ spc = "done" =>
        \A e \in stats.seen :
            e.ts >= stats.since =>
                /\ minuteKey(e) \in DOMAIN stats.series
                /\ Cardinality(RowsOf(stats.seen, minuteKey(e))) <= stats.series[minuteKey(e)]

\* Within a day what getCount and getUniques would answer never goes back: no
\* count shrinks and no register of a sketch does, whatever is committed.
AnswersGrow ==
    [][Today' = Today => \A n \in Names :
        /\ CountToday(n)' >= CountToday(n)
        /\ \A i \in Registers : UniquesToday(n)'[i] >= UniquesToday(n)[i]]_vars

\* Why they hold: beside the store's own invariant, a row that exists is the
\* encoding of a sketch, and an answer keeps the fields it has been given.
QueryInv ==
    /\ QueryTypeOK /\ StoreInv /\ TotalsCounted /\ StatsCohere
    /\ \A k \in Names \X Days :
        IF uniques[k] = {} THEN sketches[k] = NoRow
        ELSE \E s \in [Registers -> 0 .. MaxRank] :
                sketches[k] = Bytes(s) /\ IsSketchOf(s, uniques[k])
    /\ stats = [totals |-> stats.totals, day |-> stats.day, seen |-> stats.seen,
                uniques |-> stats.uniques, uniquesDay |-> stats.uniquesDay,
                series |-> stats.series, since |-> stats.since]
=============================================================================
