---------------------------- MODULE MCTurnLeases ----------------------------
(***************************************************************************)
(* An instance of TurnLeases for TLC, under one of two loads: one turn in   *)
(* each session of every user, which is more than the capacity limits      *)
(* allow, or several turns in each session of one user, which is more than *)
(* a chat tracks by identifier.                                            *)
(***************************************************************************)
EXTENDS TurnLeases

CONSTANTS OneTurn, BusyUser

VARIABLE load  \* load[k]: the turns the client of session k reports

Loads ==
  { [k \in Keys |-> {OneTurn}],
    [k \in Keys |-> IF k[1] = BusyUser THEN Turns ELSE {}] }

MCVars == <<leaseVars, load>>

MCInit == LeasesInit /\ load \in Loads
MCNext == (LeasesEvents(load) \/ LeasesWork) /\ UNCHANGED load

(* The worker is a goroutine that runs as long as the server.              *)
MCSpec ==
  MCInit /\ [][MCNext]_MCVars /\ WF_MCVars(LeasesWorker /\ UNCHANGED load)
=============================================================================
