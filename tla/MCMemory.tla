------------------------------ MODULE MCMemory ------------------------------
(* Instances of MemoryTally for TLC. *)
EXTENDS MemoryTally, TLC

CONSTANTS i1, i2, n1, u1, u2

\* Workers are alike.
MCSymmetry == Permutations(Workers)

P(i, u) == [id |-> i, name |-> n1, user |-> u]

\* The same id from two users, another id without a user.
MCPosts == {P(i1, u1), P(i1, u2), P(i2, NoUser)}
\* One good event, an invalid one, another good one.
MCPublishes == {<<P(i1, u1), P(Blank, u2), P(i2, u2)>>}
MCOnePost == {P(i1, u1)}
MCOnePublish == {<<P(i2, u2)>>}
MCNoPosts == {}
MCNoPublishes == {}
MCNoBatches == {}
=============================================================================
