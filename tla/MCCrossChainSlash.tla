------------------------- MODULE MCCrossChainSlash -------------------------
(* One pod, one connector, and a bridge that is replaced.                  *)
EXTENDS CrossChainSlash

CONSTANTS pod, operator, old, bridge, next
=============================================================================
