----------------------------- MODULE MCMultisig -----------------------------
(* Small instances of Multisig for TLC. *)
EXTENDS Multisig, TLC

\* Two founders of weight 1, whichever of the accounts they are.
Founders == {w \in [Addr -> 0..1] : WeightOf(w, Addr) = 2}

Interchangeable == Permutations(Addr)

\* Changes of signers, weights and threshold, and a delay below the minimum.
SignerOffers ==
  [kind: {"Threshold"}, value: Thresholds]
    \cup [kind: {"SignerWeight", "AddSigner"}, signer: Addr, value: Weights]
    \cup [kind: {"RemoveSigner"}, signer: Addr]
    \cup [kind: {"TimelockDelay"}, value: {MinDelay - 1}]

\* The delay is lengthened and shortened while a removal is in flight.
DelayOffers ==
  [kind: {"TimelockDelay"}, value: {MinDelay, MaxDelay}]
    \cup [kind: {"RemoveSigner"}, signer: Addr]
=============================================================================
