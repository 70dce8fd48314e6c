----------------------------- MODULE MCHistory -----------------------------
(* Finite instances of History. *)
EXTENDS History

CONSTANTS A, B

(* Two files of different ages, as they are left behind when the history    *)
(* file fails to be written twice and the process stops before the third    *)
(* attempt: the history file still holds the lane of A, whose last window   *)
(* and adjustments memory has meanwhile forgotten, the adjustments file     *)
(* that of B, which took its place.                                         *)
Window4 == [resetsAt |-> 4, firstSeen |-> 1, used |-> 1]
Window6 == [resetsAt |-> 6, firstSeen |-> 5, used |-> 1]
Decrease6 ==
  [rev |-> 2, detectedAt |-> 5, before |-> Window6, after |-> [Window6 EXCEPT !.used = 0]]

LeftBehind ==
  /\ now = 5 /\ phase = "down" /\ step = "none" /\ faults = 0
  /\ lanes = [a \in Accounts |-> EmptyLane]
  /\ meta = NoMeta
  /\ core = [revision |-> 2,
             lanes |-> [a \in Accounts |->
               CorePart(IF a = A THEN [EmptyLane EXCEPT !.tracked = TRUE, !.active = Window4]
                        ELSE EmptyLane)]]
  /\ sidecar = [revision |-> 5,
                lanes |-> [a \in Accounts |->
                  SidecarPart(IF a = B THEN [EmptyLane EXCEPT !.tracked = TRUE,
                                               !.adjustments = <<Decrease6>>]
                              ELSE EmptyLane)]]

MCHistorySpec == (Init \/ LeftBehind) /\ [][HistoryNext]_hvars
=============================================================================
