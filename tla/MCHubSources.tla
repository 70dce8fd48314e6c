--------------------------- MODULE MCHubSources ---------------------------
(* Instances of HubSources for TLC.                                        *)
EXTENDS HubSources, TLC

CONSTANTS A, B   \* two accounts

AnchorForA == [u \in Users |-> IF u = 1 THEN A ELSE NoAccount]

SymmetricQuotas == Permutations(Quotas)
=============================================================================
