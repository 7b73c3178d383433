------------------------------ MODULE MCKafka ------------------------------
(* Instances of KafkaTally for TLC. *)
EXTENDS KafkaTally, TLC

CONSTANTS i1, i2, n1, n2, u1, p1, p2

\* Members are alike.
MCSymmetry == Permutations(Consumers)

P(i, n) == [id |-> i, name |-> n, user |-> u1]

\* An id that reaches both partitions, and an invalid event between the two.
MCBothPartitions == {<<P(i1, n1), P(Blank, n1), P(i1, n2)>>}
\* Two ids in one partition, and an invalid event between the two.
MCPublishes == {<<P(i1, n1), P(Blank, n1), P(i2, n1)>>}
MCOnePost == {P(i1, n1)}
MCOnePublish == {<<P(i2, n1)>>}
MCNoPosts == {}
MCPartitionOf == (n1 :> p1) @@ (n2 :> p2)
MCOnePartition == (n1 :> p1)
MCNoBatches == {}
=============================================================================
