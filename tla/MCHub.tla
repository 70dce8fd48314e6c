------------------------------- MODULE MCHub -------------------------------
(* Instances of Hub for TLC.                                               *)
EXTENDS Hub

CONSTANTS A, B   \* two accounts

(* Every user is a consumer. *)
ConsumersOnly == [u \in Users |-> NoAccount]
=============================================================================
