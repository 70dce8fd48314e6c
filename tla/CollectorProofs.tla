-------------------------- MODULE CollectorProofs --------------------------
(***************************************************************************)
(* The collector for any logins, bounds and faults: its types, one child   *)
(* at a time, and no announced change forgotten.                           *)
(***************************************************************************)
EXTENDS Collector, TLAPS

USE CollectorAssumption

(* The fields of a snapshot. *)
LEMMA SnapshotFields ==
  ASSUME NEW account \in AuthStates \cup {NoChild}, NEW q \in 0..MaxUpdates
  PROVE  [account |-> account, quota |-> q] \in Snapshots
  BY DEF Snapshots

(* What the dashboard is told is a login, or that there is none. *)
LEMMA ToldStates ==
  ASSUME NEW a \in AuthStates \cup {NoChild}
  PROVE  /\ Unknown(a) \in {"signed_out", "unavailable"} \cup Logins
         /\ StateOf(a) \in {"signed_out", "unavailable"} \cup Logins
  BY DEF AuthStates, Unknown, StateOf

(* Backing off again stays within the limits. *)
LEMMA BackoffWithinLimits ==
  ASSUME NEW d \in BackoffMin..BackoffMax
  PROVE  NextBackoff(d) \in BackoffMin..BackoffMax
<1>1. d > BackoffMax \div 2 \/ d * 2 <= BackoffMax
  OBVIOUS
<1> QED
  BY <1>1 DEF NextBackoff

(* A publication counts at most one fault and shows what it was given. *)
LEMMA PublishTypes ==
  ASSUME TypeOK, NEW acknowledged \in BOOLEAN,
         NEW state \in {"signed_out", "unavailable"} \cup Logins,
         Publish(state, acknowledged)
  PROVE  /\ faults' \in 0..MaxFaults
         /\ shown' \in {"signed_out", "unavailable"} \cup Logins
  BY DEF Publish, TypeOK

-----------------------------------------------------------------------------
(* Type correctness *)

LEMMA TypeInit == Init => TypeOK
<1> SUFFICES ASSUME Init PROVE TypeOK
  OBVIOUS
<1>1. NoSnapshot \in Snapshots
  BY DEF NoSnapshot, Snapshots
<1>2. /\ stopping \in BOOLEAN /\ published \in BOOLEAN /\ childUp \in BOOLEAN
      /\ notified \in BOOLEAN /\ stable \in BOOLEAN /\ immediate \in BOOLEAN
      /\ polled \in BOOLEAN
  BY DEF Init
<1> QED
  BY <1>1, <1>2 DEF Init, TypeOK, AuthStates

(* The environment *)
LEMMA EnvironmentTypes ==
  ASSUME TypeOK, LogIn \/ LoseAuth \/ QuotaChanges \/ ChildFails \/ Cancel
  PROVE  TypeOK'
<1> USE DEF TypeOK, waiting, session, result, environment
<1>1. CASE LogIn
  BY <1>1 DEF LogIn, AuthStates
<1>2. CASE LoseAuth
  BY <1>2 DEF LoseAuth, AuthStates
<1>3. CASE QuotaChanges
  BY <1>3 DEF QuotaChanges
<1>4. CASE ChildFails
  <2>1. childUp' \in BOOLEAN
    BY <1>4 DEF ChildFails
  <2> QED
    BY <1>4, <2>1 DEF ChildFails
<1>5. CASE Cancel
  BY <1>5 DEF Cancel
<1> QED
  BY <1>1, <1>2, <1>3, <1>4, <1>5

(* Waiting for the auth file, starting a child and backing off *)
LEMMA OutsideTypes ==
  ASSUME TypeOK,
         Begin \/ CheckAuth \/ TellState \/ StatIntervalEnds \/ StartChild
           \/ StartFails \/ CloseSession \/ TellFailure \/ BackoffEnds
  PROVE  TypeOK'
<1> USE DEF waiting, session, result, environment
<1>1. CASE Begin
  BY <1>1 DEF Begin, WaitThen, TypeOK
<1>2. CASE CheckAuth
  BY <1>2 DEF CheckAuth, TypeOK
<1>3. CASE TellState
  <2>1. Unknown(seen) \in {"signed_out", "unavailable"} \cup Logins
    BY ToldStates DEF TypeOK
  <2>2. /\ faults' \in 0..MaxFaults
        /\ shown' \in {"signed_out", "unavailable"} \cup Logins
        /\ published' \in BOOLEAN
    BY <1>3, <2>1, PublishTypes DEF TellState
  <2> QED
    BY <1>3, <2>2 DEF TellState, TypeOK
<1>4. CASE StatIntervalEnds
  BY <1>4 DEF StatIntervalEnds, WaitThen, TypeOK
<1>5. CASE StartChild
  BY <1>5 DEF StartChild, TypeOK
<1>6. CASE StartFails
  <2>1. stable' \in BOOLEAN /\ immediate' \in BOOLEAN
    BY <1>6 DEF StartFails
  <2> QED
    BY <1>6, <2>1 DEF StartFails, TypeOK
<1>7. CASE CloseSession
  <2>1. childUp' \in BOOLEAN /\ notified' \in BOOLEAN
    BY <1>7 DEF CloseSession, CloseChild
  <2> QED
    BY <1>7, <2>1 DEF CloseSession, CloseChild, TypeOK
<1>8. CASE TellFailure
  <2>1. /\ faults' \in 0..MaxFaults
        /\ shown' \in {"signed_out", "unavailable"} \cup Logins
    BY <1>8, PublishTypes DEF TellFailure
  <2> QED
    BY <1>8, <2>1 DEF TellFailure, TypeOK
<1>9. CASE BackoffEnds
  <2>1. backoff' \in BackoffMin..BackoffMax
    BY <1>9, BackoffWithinLimits DEF BackoffEnds, TypeOK
  <2> QED
    BY <1>9, <2>1 DEF BackoffEnds, WaitThen, TypeOK
<1> QED
  BY <1>1, <1>2, <1>3, <1>4, <1>5, <1>6, <1>7, <1>8, <1>9

(* The steps of a session *)
LEMMA SessionTypes ==
  ASSUME TypeOK,
         TakeBaseline \/ Read \/ ReadFails \/ PublishSnapshot \/ Notification \/ Poll
           \/ SessionCanceled \/ ChildGone \/ AuthChanged \/ Recycle
  PROVE  TypeOK'
<1> USE DEF waiting, session, result, environment
<1>1. CASE TakeBaseline
  BY <1>1 DEF TakeBaseline, TypeOK
<1>2. CASE Read
  <2>1. reading' \in Snapshots
    BY <1>2, SnapshotFields DEF Read, TypeOK
  <2> QED
    BY <1>2, <2>1 DEF Read, TypeOK
<1>3. CASE ReadFails
  <2>1. immediate' \in BOOLEAN
    BY <1>3 DEF ReadFails, EndSession
  <2> QED
    BY <1>3, <2>1 DEF ReadFails, EndSession, TypeOK
<1>4. CASE PublishSnapshot
  <2>1. StateOf(reading.account) \in {"signed_out", "unavailable"} \cup Logins
    BY ToldStates DEF TypeOK, Snapshots
  <2>2. /\ faults' \in 0..MaxFaults
        /\ shown' \in {"signed_out", "unavailable"} \cup Logins
    BY <1>4, <2>1, PublishTypes DEF PublishSnapshot
  <2> QED
    BY <1>4, <2>2 DEF PublishSnapshot, LeaveNotifications, TypeOK
<1>5. CASE Notification
  BY <1>5 DEF Notification, RefreshAgain, TypeOK
<1>6. CASE Poll
  BY <1>6 DEF Poll, RefreshAgain, TypeOK
<1>7. ASSUME NEW n \in BOOLEAN, LeaveSelect(n) PROVE TypeOK'
  BY <1>7 DEF LeaveSelect, EndSession, TypeOK
<1> QED
  BY <1>1, <1>2, <1>3, <1>4, <1>5, <1>6, <1>7
     DEF SessionCanceled, ChildGone, AuthChanged, Recycle

LEMMA TypeStep == TypeOK /\ [Next]_vars => TypeOK'
<1>1. ASSUME TypeOK, UNCHANGED vars PROVE TypeOK'
  BY <1>1 DEF vars, waiting, session, result, environment, TypeOK
<1> QED
  BY <1>1, EnvironmentTypes, OutsideTypes, SessionTypes DEF Next

(* Every variable keeps its type through logins, faults and restarts, and   *)
(* the backoff of Run never leaves its limits.                              *)
THEOREM TypeCorrect == Spec => []TypeOK
  BY TypeInit, TypeStep, PTL DEF Spec

-----------------------------------------------------------------------------
(* One child *)

Outside == {"top", "auth", "tell", "idle", "start", "failed", "backoff", "ended"}

(* A child is only started in pc "start", and a session is only left        *)
(* through pc "close".                                                      *)
LEMMA OneChildStep == OneChild /\ [Next]_vars => OneChild'
<1> SUFFICES ASSUME OneChild, [Next]_vars PROVE OneChild'
  OBVIOUS
<1> USE DEF OneChild
<1>1. CASE LogIn \/ LoseAuth \/ QuotaChanges \/ ChildFails \/ Cancel \/ UNCHANGED vars
  BY <1>1 DEF LogIn, LoseAuth, QuotaChanges, ChildFails, Cancel, vars, session
<1>2. CASE Begin \/ CheckAuth \/ TellState \/ StatIntervalEnds \/ StartFails
             \/ TellFailure \/ BackoffEnds
  BY <1>2 DEF Begin, CheckAuth, TellState, StatIntervalEnds, StartFails, TellFailure,
     BackoffEnds, WaitThen, session
<1>3. CASE StartChild \/ TakeBaseline
  BY <1>3 DEF StartChild, TakeBaseline
<1>4. CASE CloseSession
  BY <1>4 DEF CloseSession, CloseChild
<1>5. CASE Read \/ ReadFails \/ PublishSnapshot \/ Notification \/ Poll
  BY <1>5 DEF Read, ReadFails, EndSession, PublishSnapshot, Notification, Poll, RefreshAgain
<1>6. CASE \E n \in BOOLEAN : LeaveSelect(n)
  BY <1>6 DEF LeaveSelect, EndSession
<1> QED
  BY <1>1, <1>2, <1>3, <1>4, <1>5, <1>6
     DEF Next, SessionCanceled, ChildGone, AuthChanged, Recycle

(* Whatever fails, Run never has two App Servers, and leaves none behind.   *)
THEOREM NeverTwoChildren == Spec => []OneChild
<1>1. Init => OneChild
  BY DEF Init, OneChild
<1> QED
  BY <1>1, OneChildStep, PTL DEF Spec

-----------------------------------------------------------------------------
(* Notifications *)

(* Also while a refresh is being published: what it read is the newest      *)
(* quota, or a notification waits.                                          *)
Announced ==
  /\ pc = "publish" /\ reading.quota # quota => notified
  /\ pc = "select" /\ known.quota # quota => notified

LEMMA AnnouncedStep == Announced /\ [Next]_vars => Announced'
<1> SUFFICES ASSUME Announced, [Next]_vars PROVE Announced'
  OBVIOUS
<1> USE DEF Announced
<1>1. CASE QuotaChanges
  BY <1>1 DEF QuotaChanges
<1>2. CASE LogIn \/ LoseAuth \/ ChildFails \/ Cancel \/ UNCHANGED vars
  BY <1>2 DEF LogIn, LoseAuth, ChildFails, Cancel, vars, session, environment
<1>3. CASE Begin \/ CheckAuth \/ TellState \/ StatIntervalEnds \/ StartFails
             \/ TellFailure \/ BackoffEnds
  BY <1>3 DEF Begin, CheckAuth, TellState, StatIntervalEnds, StartFails, TellFailure,
     BackoffEnds, WaitThen
<1>4. CASE StartChild \/ TakeBaseline \/ CloseSession \/ ReadFails
  BY <1>4 DEF StartChild, TakeBaseline, CloseSession, ReadFails, EndSession
<1>5. CASE Read
  BY <1>5 DEF Read, environment
<1>6. CASE PublishSnapshot
  BY <1>6 DEF PublishSnapshot, LeaveNotifications, environment
<1>7. CASE Notification \/ Poll
  BY <1>7 DEF Notification, Poll, RefreshAgain
<1>8. CASE \E n \in BOOLEAN : LeaveSelect(n)
  BY <1>8 DEF LeaveSelect, EndSession
<1> QED
  BY <1>1, <1>2, <1>3, <1>4, <1>5, <1>6, <1>7, <1>8
     DEF Next, SessionCanceled, ChildGone, AuthChanged, Recycle

(* A quota change announced during a refresh, between any two of its steps, *)
(* is not taken for answered by that refresh.                               *)
THEOREM NoChangeIsForgotten == Spec => []ChangesAreRefetched
<1>1. Init => Announced
  BY DEF Init, Announced
<1>2. Announced => ChangesAreRefetched
  BY DEF Announced, ChangesAreRefetched
<1> QED
  BY <1>1, <1>2, AnnouncedStep, PTL DEF Spec
=============================================================================
