------------------------- MODULE GovernedProposals --------------------------
(***************************************************************************)
(* The proposal contract wired to the multisig contract: Proposal asks     *)
(* Multisig for signers, weights and the threshold while Multisig changes  *)
(* all of them at its own pace.  The two contracts share the ledger's      *)
(* clock and nothing else; a transaction calls one of them.                *)
(*                                                                         *)
(* This is Multisig with the storage of the proposal contract beside its   *)
(* own; `requests` and `consents` are the proposals and approvals of the   *)
(* latter, since the multisig keeps proposals and approvals as well.       *)
(***************************************************************************)
EXTENDS Multisig

CONSTANTS
  QuorumPercent, MaxApprovers, MaxDependencies, MaxPruneBatch, MaxU64,
  MaxDeposit, Timelocks, Terms,   \* as in Proposal
  MaxRequests                     \* bound on the proposals of that contract

VARIABLES
  ready, timelock, purged, held,  \* as in Proposal
  requests,                       \* its DataKey::Proposal(id)
  consents                        \* its DataKey::Approval(id, _)

\* Proposal counts ledgers from 1, Multisig from 0.
P == INSTANCE Proposal WITH
       now <- now + 1, MaxTime <- MaxTime + 1, quorum <- threshold,
       proposals <- requests, approvals <- consents, MaxProposals <- MaxRequests

requesting == <<ready, timelock, requests, consents, purged, held>>

JointInit ==
  /\ Init
  /\ P!Init

\* A call to the multisig, or a ledger that closes for both contracts.
OnMultisig == Next /\ UNCHANGED requesting

\* A call to the proposal contract, which reads the multisig and leaves it
\* alone.
OnProposal == UNCHANGED vars /\ P!Entrypoint

JointSpec == JointInit /\ [][OnMultisig \/ OnProposal]_<<vars, requesting>>

-----------------------------------------------------------------------------
(* Properties                                                               *)

\* What Proposal assumes of whom it asks is what Multisig does: wired together
\* the two contracts behave as the proposal contract does over a signer set
\* that may change at any moment, in any way that keeps its threshold in reach.
\* Everything shown of Proposal is therefore true of the pair.
ImplementsProposal == P!Spec
=============================================================================
