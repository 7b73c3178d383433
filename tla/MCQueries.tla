----------------------------- MODULE MCQueries -----------------------------
\* Queries for TLC.
EXTENDS Queries

CONSTANTS i1, i2, i3, n1, n2, u1, u2, u3

E(i, n, u, t) == [id |-> i, name |-> n, user |-> u, ts |-> t]

\* Batches that share ids, names, minutes and days; one id is sent again on the
\* next day, and one event has no user.
MCBatches ==
    {{E(i1, n1, u1, 0), E(i2, n1, u2, 1)},
     {E(i1, n1, u1, 2)},
     {E(i2, n1, u3, 2), E(i3, n2, u1, 2)},
     {E(i3, n2, NoUser, 1)}}

\* Three users of 4 bits: two in one register with different ranks, and one
\* whose evidence is all zeros.
MCHash == (u1 :> 5) @@ (u2 :> 2) @@ (u3 :> 8)
=============================================================================
