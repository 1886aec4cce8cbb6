--------------------------- MODULE MCClaimProver ---------------------------
(* Two requests of one account (two recipients) and one that is refused.   *)
EXTENDS ClaimProver

CONSTANTS toOne, toOther, forged, account, stranger, ip1

MCPubkeyOf(r) == IF r = forged THEN stranger ELSE account
=============================================================================
