---------------------------- MODULE TurnLeases ----------------------------
(***************************************************************************)
(* The activity tracker with a history variable that remembers what every  *)
(* client last said of every turn, also of the turns the tracker no longer *)
(* distinguishes, to state what the overflow lease is for.                 *)
(***************************************************************************)
EXTENDS ActivityTracker

VARIABLE marked  \* marked[k][t]: when turn t of k was last reported running,
                 \* 0 once it has ended or its chat is gone

LeasesInit == Init /\ marked = [k \in Keys |-> NoTurns]

(* The marks m of the chats that are still tracked after the step. *)
KeptMarks(m) == [k \in Keys |-> IF chats'[k] = NoChat THEN NoTurns ELSE m[k]]
(* A chat that was removed and created again within the step is a new one. *)
Marks == [k \in Keys |-> IF Pruned[k] = NoChat THEN NoTurns ELSE marked[k]]

(* What the clients report: turnsOf[k] are the turns of session k, none if   *)
(* the session never runs.                                                  *)
LeasesEvents(turnsOf) ==
  \E k \in Keys :
    \/ \E t \in turnsOf[k] :
         \/ /\ StartOrRefresh(k, t)
            /\ marked' = KeptMarks([Marks EXCEPT ![k][t] = now])
         \/ /\ EndTurn(k, t)
            /\ marked' = KeptMarks([Marks EXCEPT ![k][t] = 0])
    \/ /\ turnsOf[k] # {}
       /\ SessionStart(k) \/ EndSession(k)
       /\ marked' = KeptMarks(Marks)

LeasesWork ==
  \/ (Read \/ TimerFires) /\ marked' = KeptMarks(Marks)
  \/ (Plan \/ Wake \/ Tick) /\ UNCHANGED marked

LeasesNext == LeasesEvents([k \in Keys |-> Turns]) \/ LeasesWork

leaseVars == <<vars, marked>>

LeasesSpec == LeasesInit /\ [][LeasesNext]_leaseVars

(* The worker's steps; reads and the clock owe nobody anything.             *)
LeasesWorker ==
  \/ TimerFires /\ marked' = KeptMarks(Marks)
  \/ (Plan \/ Wake) /\ UNCHANGED marked

(* A turn whose lease is live never shows as idle while its chat is kept,   *)
(* not even a turn beyond the limit of turns tracked by identifier.         *)
LiveTurnsShowRunning ==
  \A k \in Keys : \A t \in Turns :
    marked[k][t] # 0 /\ ~Expired(marked[k][t]) => chats[k].running
=============================================================================
