------------------------- MODULE MCServiceMembership -------------------------
(* Values for the constants of ServiceMembership that a .cfg cannot write. *)
EXTENDS ServiceMembership, TLC

\* With and without a queue; the owner may force exits under the second only.
MCExitConfigs ==
  {[commitment |-> 1, queue |-> 1, force |-> FALSE],
   [commitment |-> 1, queue |-> 0, force |-> TRUE]}

Symmetry == Permutations(Operators)
=============================================================================
