---------------------------- MODULE Collector ----------------------------
(***************************************************************************)
(* collector.Collector, the supervisor of one App Server of one user: it   *)
(* waits for the auth file, starts a child, reads and publishes snapshots  *)
(* on notifications, polls, and restarts the child when the auth file      *)
(* changes, when it fails, and from time to time. The child, the auth file *)
(* and the dashboard are external.                                         *)
(***************************************************************************)
EXTENDS Integers, FiniteSets

CONSTANTS
  BackoffMin, BackoffMax,
  Logins,       \* the logins of the user, each with an auth file of its own
  MaxChanges,   \* bound: other changes of the auth file
  MaxUpdates,   \* bound: changes of the quota
  MaxFaults     \* bound: failures of the child, of a read or of a publication

VARIABLES
  auth,       \* the auth file: "absent", "error" if it cannot be read, or a login
  past,       \* the logins so far
  changes, quota, faults,   \* counted against the bounds
  stopping,   \* the context of Run is canceled
  pc,         \* where Run is
  seen,       \* what waitForAuthentication read
  published,  \* its flag of that name
  child,      \* the login the running App Server started with, or NoChild
  childUp,    \* Client.Done is open
  notified,   \* a notification waits in Client.Notifications
  baseline,   \* the auth file when the session began
  reading,    \* the snapshot being read: account and quota
  known,      \* the last snapshot read in the session
  stable, immediate,   \* sessionResult
  polled,     \* the refresh was one of the poll timer
  backoff,
  shown       \* the state the dashboard last accepted

environment == <<auth, past, changes, quota>>
waiting == <<seen, published>>
session == <<child, childUp, notified, baseline, reading, known, polled>>
result == <<stable, immediate>>
vars == <<environment, faults, stopping, pc, waiting, session, result, backoff, shown>>

ASSUME CollectorAssumption ==
  /\ BackoffMin \in Nat \ {0} /\ BackoffMax \in Nat /\ BackoffMin <= BackoffMax
  /\ IsFiniteSet(Logins) /\ Logins \cap {"absent", "error", "none", "signed_out", "unavailable"} = {}
  /\ MaxChanges \in Nat /\ MaxUpdates \in Nat /\ MaxFaults \in Nat

NoChild == "none"
AuthStates == {"absent", "error"} \cup Logins
NoSnapshot == [account |-> NoChild, quota |-> 0]

Init ==
  /\ auth \in {"absent", "error"} /\ past = {} /\ changes = 0 /\ quota = 0
  /\ faults = 0 /\ stopping = FALSE
  /\ pc = "top" /\ seen = "absent" /\ published = FALSE
  /\ child = NoChild /\ childUp = FALSE /\ notified = FALSE
  /\ baseline = "absent" /\ reading = NoSnapshot /\ known = NoSnapshot
  /\ polled = FALSE /\ stable = FALSE /\ immediate = FALSE
  /\ backoff = BackoffMin /\ shown = "unavailable"

-----------------------------------------------------------------------------
(* External: the user and the App Server *)

LogIn ==
  /\ \E l \in Logins \ past : auth' = l /\ past' = past \cup {l}
  /\ UNCHANGED <<changes, quota, faults, stopping, pc, waiting, session, result,
                 backoff, shown>>

(* The file is removed, or cannot be read. *)
LoseAuth ==
  /\ changes < MaxChanges
  /\ changes' = changes + 1
  /\ auth' \in {"absent", "error"} \ {auth}
  /\ UNCHANGED <<past, quota, faults, stopping, pc, waiting, session, result,
                 backoff, shown>>

(* The App Server announces a change of its quota. *)
QuotaChanges ==
  /\ child # NoChild /\ childUp /\ quota < MaxUpdates
  /\ quota' = quota + 1 /\ notified' = TRUE
  /\ UNCHANGED <<auth, past, changes, faults, stopping, pc, waiting, child,
                 childUp, baseline, reading, known, polled, result, backoff, shown>>

ChildFails ==
  /\ child # NoChild /\ childUp /\ faults < MaxFaults
  /\ childUp' = FALSE /\ faults' = faults + 1
  /\ UNCHANGED <<environment, stopping, pc, waiting, child, notified, baseline,
                 reading, known, polled, result, backoff, shown>>

Cancel ==
  /\ ~stopping
  /\ stopping' = TRUE
  /\ UNCHANGED <<environment, faults, pc, waiting, session, result, backoff, shown>>

-----------------------------------------------------------------------------
(* publish: accepted and acknowledged, accepted without the collector       *)
(* hearing of it, or refused. A canceled context refuses.                   *)

Publish(state, acknowledged) ==
  \/ acknowledged /\ ~stopping /\ shown' = state /\ UNCHANGED faults
  \/ ~acknowledged /\ stopping /\ UNCHANGED <<faults, shown>>
  \/ /\ ~acknowledged /\ ~stopping /\ faults < MaxFaults
     /\ faults' = faults + 1
     /\ shown' \in {shown, state}

(* A look at the context, after a wait or at the top of the loop. *)
WaitThen(next) == pc' = IF stopping THEN "ended" ELSE next

-----------------------------------------------------------------------------
(* waitForAuthentication *)

Unknown(a) == IF a = "absent" THEN "signed_out" ELSE "unavailable"

Begin ==
  /\ pc = "top"
  /\ published' = FALSE
  /\ WaitThen("auth")
  /\ UNCHANGED <<environment, faults, stopping, seen, session, result, backoff,
                 shown>>

CheckAuth ==
  /\ pc = "auth"
  /\ seen' = auth
  /\ pc' = IF auth \in Logins THEN "start" ELSE IF published THEN "idle" ELSE "tell"
  /\ UNCHANGED <<environment, faults, stopping, published, session, result,
                 backoff, shown>>

TellState ==
  /\ pc = "tell"
  /\ \E acknowledged \in BOOLEAN :
       /\ Publish(Unknown(seen), acknowledged)
       /\ published' = acknowledged
  /\ pc' = "idle"
  /\ UNCHANGED <<environment, stopping, seen, session, result, backoff>>

StatIntervalEnds ==
  /\ pc = "idle"
  /\ WaitThen("auth")
  /\ UNCHANGED <<environment, faults, stopping, waiting, session, result,
                 backoff, shown>>

-----------------------------------------------------------------------------
(* Run *)

StartChild ==
  /\ pc = "start" /\ ~stopping
  /\ child' = auth /\ childUp' = TRUE /\ notified' = FALSE
  /\ stable' = FALSE /\ immediate' = FALSE
  /\ pc' = "baseline"
  /\ UNCHANGED <<environment, faults, stopping, waiting, baseline, reading, known,
                 polled, backoff, shown>>

StartFails ==
  /\ pc = "start"
  /\ \/ stopping /\ UNCHANGED faults
     \/ faults < MaxFaults /\ faults' = faults + 1
  /\ stable' = FALSE /\ immediate' = FALSE
  /\ pc' = "failed"
  /\ UNCHANGED <<environment, stopping, waiting, session, backoff, shown>>

(* Mutant: the child is left to the end of the collector. *)
LeaveChild == UNCHANGED <<child, childUp, notified>>

CloseChild == child' = NoChild /\ childUp' = FALSE /\ notified' = FALSE

CloseSession ==
  /\ pc = "close"
  /\ CloseChild
  /\ backoff' = IF ~stopping /\ (stable \/ immediate) THEN BackoffMin ELSE backoff
  /\ pc' = IF stopping THEN "ended" ELSE IF immediate THEN "top" ELSE "failed"
  /\ UNCHANGED <<environment, faults, stopping, waiting, baseline, reading, known,
                 polled, result, shown>>

TellFailure ==
  /\ pc = "failed"
  /\ \E acknowledged \in BOOLEAN : Publish("unavailable", acknowledged)
  /\ pc' = "backoff"
  /\ UNCHANGED <<environment, stopping, waiting, session, result, backoff>>

(* Mutant: twice as long every time. *)
DoubledBackoff(d) == d * 2

NextBackoff(d) == IF d > BackoffMax \div 2 THEN BackoffMax ELSE d * 2

BackoffEnds ==
  /\ pc = "backoff"
  /\ backoff' = IF stopping THEN backoff ELSE NextBackoff(backoff)
  /\ WaitThen("top")
  /\ UNCHANGED <<environment, faults, stopping, waiting, session, result, shown>>

-----------------------------------------------------------------------------
(* runSession and refresh *)

TakeBaseline ==
  /\ pc = "baseline"
  /\ baseline' = auth
  /\ polled' = FALSE
  /\ pc' = "read"
  /\ UNCHANGED <<environment, faults, stopping, waiting, child, childUp, notified,
                 reading, known, result, backoff, shown>>

EndSession(now) ==
  /\ immediate' = now
  /\ pc' = "close"

(* The required reads, of the account the child was started with. *)
Read ==
  /\ pc = "read" /\ childUp /\ ~stopping
  /\ reading' = [account |-> child, quota |-> quota]
  /\ pc' = "publish"
  /\ UNCHANGED <<environment, faults, stopping, waiting, child, childUp, notified,
                 baseline, known, polled, result, backoff, shown>>

ReadFails ==
  /\ pc = "read"
  /\ \/ (stopping \/ ~childUp) /\ UNCHANGED faults
     \/ faults < MaxFaults /\ faults' = faults + 1
  /\ EndSession(FALSE)
  /\ UNCHANGED <<environment, stopping, waiting, session, stable, backoff, shown>>

StateOf(account) == IF account \in Logins THEN account ELSE Unknown(account)

(* Mutant: notifications that came meanwhile are taken for answered. *)
DrainLate == notified' = FALSE

LeaveNotifications == UNCHANGED notified

(* A refresh counts as done although its publication failed. *)
PublishSnapshot ==
  /\ pc = "publish"
  /\ \E acknowledged \in BOOLEAN : Publish(StateOf(reading.account), acknowledged)
  /\ known' = reading
  /\ LeaveNotifications
  /\ stable' = (stable \/ polled)
  /\ pc' = "select"
  /\ UNCHANGED <<environment, stopping, waiting, child, childUp, baseline, reading,
                 polled, immediate, backoff>>

RefreshAgain(poll) ==
  /\ polled' = poll
  /\ pc' = "read"
  /\ UNCHANGED <<environment, faults, stopping, waiting, child, childUp, baseline,
                 reading, known, result, backoff, shown>>

Notification ==
  /\ pc = "select" /\ notified
  /\ notified' = FALSE
  /\ RefreshAgain(FALSE)

Poll ==
  /\ pc = "select"
  /\ UNCHANGED notified
  /\ RefreshAgain(TRUE)

LeaveSelect(now) ==
  /\ pc = "select"
  /\ EndSession(now)
  /\ UNCHANGED <<environment, faults, stopping, waiting, session, stable, backoff,
                 shown>>

SessionCanceled == stopping /\ LeaveSelect(TRUE)
ChildGone == ~childUp /\ LeaveSelect(FALSE)
AuthChanged == auth # baseline /\ LeaveSelect(TRUE)

(* Mutant: the timer is started and never looked at. *)
RecycleNever == FALSE /\ LeaveSelect(TRUE)

Recycle == LeaveSelect(TRUE)

-----------------------------------------------------------------------------
Supervise ==
  \/ Begin \/ CheckAuth \/ TellState \/ StatIntervalEnds \/ StartChild \/ StartFails
  \/ CloseSession \/ TellFailure \/ BackoffEnds \/ TakeBaseline \/ Read \/ ReadFails
  \/ PublishSnapshot \/ Notification \/ Poll
  \/ SessionCanceled \/ ChildGone \/ AuthChanged \/ Recycle

Next ==
  \/ LogIn \/ LoseAuth \/ QuotaChanges \/ ChildFails \/ Cancel
  \/ Begin \/ CheckAuth \/ TellState \/ StatIntervalEnds \/ StartChild \/ StartFails
  \/ CloseSession \/ TellFailure \/ BackoffEnds \/ TakeBaseline \/ Read \/ ReadFails
  \/ PublishSnapshot \/ Notification \/ Poll
  \/ SessionCanceled \/ ChildGone \/ AuthChanged \/ Recycle

Spec == Init /\ [][Next]_vars

(* Run is one goroutine whose waits all have timers. Its select chooses at  *)
(* random among the cases that are ready, and the recycle timer stays ready *)
(* once it has fired: notifications and polls do not pass it over for ever. *)
FairSpec == Spec /\ WF_vars(Supervise) /\ SF_vars(Recycle)

-----------------------------------------------------------------------------
(* Properties *)

Snapshots == [account : AuthStates \cup {NoChild}, quota : 0..MaxUpdates]

(* Every variable has the type of its Go counterpart, and the backoff stays *)
(* within its limits.                                                       *)
TypeOK ==
  /\ auth \in AuthStates /\ seen \in AuthStates /\ baseline \in AuthStates
  /\ past \subseteq Logins /\ changes \in 0..MaxChanges
  /\ quota \in 0..MaxUpdates /\ faults \in 0..MaxFaults
  /\ stopping \in BOOLEAN /\ published \in BOOLEAN /\ childUp \in BOOLEAN
  /\ notified \in BOOLEAN /\ stable \in BOOLEAN /\ immediate \in BOOLEAN
  /\ polled \in BOOLEAN
  /\ pc \in {"top", "auth", "tell", "idle", "start", "baseline", "read", "publish",
             "select", "close", "failed", "backoff", "ended"}
  /\ child \in AuthStates \cup {NoChild}
  /\ reading \in Snapshots /\ known \in Snapshots
  /\ backoff \in BackoffMin..BackoffMax
  /\ shown \in {"signed_out", "unavailable"} \cup Logins

(* No App Server is left running, or started next to another, outside of a  *)
(* session, and none when Run returns.                                      *)
OneChild ==
  pc \in {"top", "auth", "tell", "idle", "start", "failed", "backoff", "ended"}
    => child = NoChild

(* A change that the App Server announced and the collector has not read    *)
(* has its notification waiting, also if it came during a refresh.          *)
ChangesAreRefetched == pc = "select" /\ known.quota # quota => notified

(* Once logins and failures stop, the dashboard shows the account the user  *)
(* is logged in to, and none after the file is gone, although the baseline  *)
(* is taken after the child has read the file.                              *)
Converges ==
  <>[](\/ stopping
       \/ shown = auth
       \/ auth \notin Logins /\ shown \in {"signed_out", "unavailable"})

(* waitForAuthentication "also publishes a definitive signed out state once *)
(* per idle period": in the end a removed auth file is shown as signed out. *)
SignedOutIsTold == <>[](stopping \/ auth # "absent" \/ shown = "signed_out")
=============================================================================
