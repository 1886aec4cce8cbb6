--------------------------- MODULE MCSlashProposals ---------------------------
(* Values for the constants of SlashProposals that a .cfg cannot write. *)
EXTENDS SlashProposals

CONSTANTS o1, alice, bob, carol, dave, treasury1

\* The fraction cap is half of BPS = 2.
Cfg(window, deadline, bond, maxPending) ==
  [window |-> window, deadline |-> deadline, bond |-> bond,
   maxPending |-> maxPending, maxBps |-> 1]

MCInitConfig == Cfg(1, 2, 1, 2)

\* A second valid configuration, and one updateConfig must refuse.
MCConfigs == {Cfg(2, 1, 1, 1), Cfg(1, 0, 1, 2)}
=============================================================================
