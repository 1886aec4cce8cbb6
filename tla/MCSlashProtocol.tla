--------------------------- MODULE MCSlashProtocol ---------------------------
(* Values for the constants of SlashProtocol that a .cfg cannot write. *)
EXTENDS SlashProtocol, TLC

CONSTANTS o1, alice, treasury1

\* A bond of 1 to dispute, at most two proposals at a time, half of BPS = 4 at most.
MCInitConfig ==
  [window |-> 1, deadline |-> 2, bond |-> 1, maxPending |-> 2, maxBps |-> 2]

MCConfigs == {MCInitConfig}
=============================================================================
