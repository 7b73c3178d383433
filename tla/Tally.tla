------------------------------- MODULE Tally -------------------------------
(***************************************************************************)
(* What tally promises, whichever queue is between its doors and its       *)
(* store: an accepted event is pending until it is counted or lost, an     *)
(* event id is counted at most once, only accepted events are counted, and *)
(* what is counted stays counted.                                          *)
(***************************************************************************)
CONSTANT Event

VARIABLES
    pending,    \* accepted events whose id is not counted yet
    counted     \* the rows the answers are computed from

vars == <<pending, counted>>

Uncounted(S, rows) == {e \in S : \A r \in rows : r.id # e.id}

Init == pending = {} /\ counted = {}

\* A door says yes to an event; a duplicate of a counted one changes nothing.
Accept(e) ==
    /\ pending' = pending \cup Uncounted({e}, counted)
    /\ UNCHANGED counted

\* A batch lands: pending events become rows, one for each id.
CountRows(rows) ==
    /\ rows \subseteq pending
    /\ \A r, s \in rows : r.id = s.id => r = s
    /\ counted' = counted \cup rows
    /\ pending' = Uncounted(pending, rows)

\* Pending events are given up, or die with the process that held them.
Lose(S) ==
    /\ S \subseteq pending
    /\ pending' = pending \ S
    /\ UNCHANGED counted

Next ==
    \/ \E e \in Event : Accept(e)
    \/ \E rows \in SUBSET pending : CountRows(rows)
    \/ \E S \in SUBSET pending : Lose(S)

Spec == Init /\ [][Next]_vars
=============================================================================
