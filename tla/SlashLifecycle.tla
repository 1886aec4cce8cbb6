--------------------------- MODULE SlashLifecycle ---------------------------
(***************************************************************************)
(* What the slashing protocol of tnt-core promises to the rest of the      *)
(* system, with no clock, no bond and no counter: a slash proposal against *)
(* an operator is opened once, may be contested once, and is closed once,  *)
(* and an operator is frozen exactly while a proposal against it is        *)
(* unresolved.  SlashProposals implements this specification.              *)
(***************************************************************************)
CONSTANTS SlashIds,     \* identifiers of slash proposals
          Operators,    \* operators that can be slashed
          Nobody        \* the zero address

VARIABLES stage,        \* SlashIds -> stage of the proposal
          target,       \* SlashIds -> the operator it is against
          frozen        \* operators whose stake may not leave

lifecycleVars == <<stage, target, frozen>>

Unresolved == {"Pending", "Disputed"}
Resolved   == {"Executed", "Cancelled"}

\* The operators an unresolved proposal is against.
FrozenBy(stg, tgt) ==
  {o \in Operators : \E s \in SlashIds : stg[s] \in Unresolved /\ tgt[s] = o}

Init ==
  /\ stage = [s \in SlashIds |-> "None"]
  /\ target = [s \in SlashIds |-> Nobody]
  /\ frozen = {}

Open(s, o) ==
  /\ stage[s] = "None"
  /\ stage' = [stage EXCEPT ![s] = "Pending"]
  /\ target' = [target EXCEPT ![s] = o]
  /\ frozen' = frozen \cup {o}

Contest(s) ==
  /\ stage[s] = "Pending"
  /\ stage' = [stage EXCEPT ![s] = "Disputed"]
  /\ UNCHANGED <<target, frozen>>

\* Several proposals may be closed at once.  Closing thaws an operator only when
\* nothing else is unresolved against it.
Close(ids, outcome) ==
  /\ \A s \in ids : stage[s] \in Unresolved
  /\ stage' = [s \in SlashIds |-> IF s \in ids THEN outcome ELSE stage[s]]
  /\ UNCHANGED target
  /\ frozen' = FrozenBy(stage', target)

Next ==
  \/ \E s \in SlashIds, o \in Operators : Open(s, o)
  \/ \E s \in SlashIds : Contest(s)
  \/ \E ids \in SUBSET SlashIds, outcome \in Resolved : Close(ids, outcome)

Spec == Init /\ [][Next]_lifecycleVars
=============================================================================
