-------------------------- MODULE MCDelegationPools --------------------------
(* Values for the constants of DelegationPools that a .cfg cannot write. *)
EXTENDS DelegationPools, TLC

CONSTANTS b1, b2

\* One blueprint, or both in one order; the rest is reached by rebalancing.
MCSelections == {<<b1>>, <<b1, b2>>}

\* One blueprint at a time.
MCSingles == {<<b1>>, <<b2>>}

Symmetry == Permutations(Delegators)
=============================================================================
