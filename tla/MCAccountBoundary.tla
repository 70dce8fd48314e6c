------------------------- MODULE MCAccountBoundary -------------------------
(* An instance of AccountBoundary for TLC.                                 *)
EXTENDS AccountBoundary, TLC

Symmetries ==
  Permutations(Accounts) \cup Permutations(Collectors) \cup Permutations(Sessions)

ConsumersOnly == [u \in Users |-> NoAccount]
=============================================================================
