------------------------------ MODULE MCLimits ------------------------------
(* Instances of Limits for TLC. *)
EXTENDS Limits, TLC

CONSTANTS k1, k2

\* A client with a key, seen from two addresses, and one without.
MCRequests ==
    {[apiKey |-> k1, host |-> k2], [apiKey |-> k1, host |-> k1], [apiKey |-> NoKey, host |-> k2]}
MCSymmetry == Permutations(Buckets) \cup Permutations(Callers) \cup Permutations(Instances)
=============================================================================
