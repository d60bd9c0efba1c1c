----------------------------- MODULE MCProposal -----------------------------
(* Small instances of Proposal for TLC. *)
EXTENDS Proposal, TLC

TermSheet(threshold, expires_at, grace_period, dependencies) ==
  [approvers |-> Addr, dependencies |-> dependencies, threshold |-> threshold,
   deposit |-> threshold, expires_at |-> expires_at, grace_period |-> grace_period]

\* Either threshold under a deadline, one of them with a grace window, and a
\* dependent of the first proposal that never expires.
SmallTerms ==
  {TermSheet(1, 3, 0, {}), TermSheet(2, 3, 1, {}), TermSheet(1, 0, 0, {1})}

Interchangeable == Permutations(Addr)
=============================================================================
