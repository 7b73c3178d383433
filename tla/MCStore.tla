------------------------------ MODULE MCStore ------------------------------
(* Instances of StoreTx for TLC. *)
EXTENDS StoreTx, TLC

CONSTANTS i1, i2, i3, i4, n1, n2, u1, u2

E(i, n, u, m) == [id |-> i, name |-> n, user |-> u, ts |-> m]

\* Batches that share ids with the first, or only its minutes and days, or only
\* its days; one of them without a user.
MCBatches ==
    {{E(i1, n1, u1, 0), E(i2, n2, u2, 0)},
     {E(i2, n1, u2, 0), E(i1, n2, u1, 0)},
     {E(i3, n2, u1, 0), E(i4, n1, u2, 0)},
     {E(i3, n1, NoUser, 0), E(i4, n1, u1, 1)}}
MCRank == (i1 :> 1) @@ (i2 :> 2) @@ (i3 :> 3) @@ (i4 :> 4) @@ (n1 :> 1) @@ (n2 :> 2)
MCSymmetry == Permutations(Txs)
=============================================================================
