--------------------------- MODULE MCStatusStream ---------------------------
(***************************************************************************)
(* An instance of StatusStream for TLC.  Every behaviour has one of three   *)
(* loads: two clients that join, read and leave, while the hook worker and   *)
(* the expiry worker publish changes; or a browser that competes for the    *)
(* only slot with its own lost connection, through a restart or through     *)
(* answers of different times.                                              *)
(***************************************************************************)
EXTENDS StatusStream

CONSTANTS b1, b2, n1

Limits(slots, client, changes, ticks, ends) ==
  [slots |-> slots, clients |-> {client}, changes |-> changes, ticks |-> ticks,
   restarts |-> ends]

MCLoads ==
  { Limits({b1, b2}, Other, 2, 0, 0),
    Limits({b1}, n1, 1, 0, 1), Limits({b1}, n1, 1, 1, 0) }
=============================================================================
