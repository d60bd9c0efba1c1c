----------------------------- MODULE MCRegistry -----------------------------
(* A small instance of Registry for TLC. *)
EXTENDS Registry, TLC

CONSTANTS c1, c2, h1, h2

Rel(k, v, a, h) == [kind |-> k, version |-> v, address |-> a, hash |-> h]

\* Two versions of the registry, the second with new code or with the first
\* one's, and one of another contract.
SomeReleases ==
  {Rel("Organization", 1, c1, h1), Rel("Organization", 2, c2, h2),
   Rel("Organization", 2, c2, h1), Rel("Treasury", 1, c2, h2)}

Interchangeable == Permutations(Caller)
=============================================================================
