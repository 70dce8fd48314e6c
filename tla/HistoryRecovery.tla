-------------------------- MODULE HistoryRecovery --------------------------
(***************************************************************************)
(* The history tracker beside the rate-limit service it describes: one     *)
(* account whose true weekly window is known, reported within the jitter   *)
(* band by a canonical source, through crashes and failed writes.          *)
(***************************************************************************)
EXTENDS History

CONSTANTS
  Account,       \* the one account, Accounts = {Account}
  Noises,        \* by how much a report may round the reset timestamp up
  MaxChanges     \* bound on the early changes of the server

ASSUME NoisesAssumption ==
  /\ Accounts = {Account} /\ MaxChanges \in Nat
  /\ Noises \subseteq 0..Jitter /\ 0 \in Noises
  /\ 2 * Jitter < Week  \* 120 seconds, and 10,080 minutes

VARIABLES
  server,        \* the window the rate-limit service keeps
  changes,       \* how often it changed a window before it was due
  restarted      \* no observation since the process started

recoveryVars == <<hvars, server, changes, restarted>>

RecoveryInit ==
  /\ Init
  /\ server = [resetsAt |-> now + Week, used |-> 1]
  /\ changes = 0
  /\ restarted = TRUE

ServerUnchanged == UNCHANGED <<server, changes>>

(* The hub forgets its source with the process, so that the first update it *)
(* feeds rebaselines; later ones do so when the source changes.             *)
Report(rebaseline, noise) ==
  /\ restarted => rebaseline
  /\ ApplySnapshot(Account, [server EXCEPT !.resetsAt = @ + noise], rebaseline)
  /\ restarted' = FALSE
  /\ ServerUnchanged

TrackerStep ==
  /\ Snapshot \/ Persist \/ Open \/ Crash \/ Tick
  /\ restarted' = (restarted \/ phase' = "down")
  /\ ServerUnchanged

ServerChanges(w) ==
  /\ server' = w
  /\ UNCHANGED <<hvars, restarted>>

Consume ==
  /\ server.used + 1 \in Used
  /\ ServerChanges([server EXCEPT !.used = @ + 1])
  /\ UNCHANGED changes

(* A change before the window is due: usage is given back, or a new window  *)
(* replaces it, far enough not to be taken for a rounded report of the old. *)
Refund(u) ==
  /\ u < server.used
  /\ ServerChanges([server EXCEPT !.used = u])

EarlyReset(u) ==
  /\ now + Week > server.resetsAt + 2 * Jitter
  /\ Early(server.resetsAt, now)
  /\ ServerChanges([resetsAt |-> now + Week, used |-> u])

EarlyChange ==
  /\ changes < MaxChanges
  /\ changes' = changes + 1
  /\ \E u \in Used : Refund(u) \/ EarlyReset(u)

Rollover(u) ==
  /\ now >= server.resetsAt
  /\ ServerChanges([resetsAt |-> now + Week, used |-> u])
  /\ UNCHANGED changes

RecoveryNext ==
  \/ \E rebaseline \in BOOLEAN, noise \in Noises : Report(rebaseline, noise)
  \/ TrackerStep
  \/ Consume
  \/ EarlyChange
  \/ \E u \in Used : Rollover(u)

RecoverySpec == RecoveryInit /\ [][RecoveryNext]_recoveryVars

-----------------------------------------------------------------------------
(* Properties *)

Known == lanes[Account]

(* One early change of the server is recorded at most once, although a      *)
(* crash between the two files makes the restarted tracker see it again.    *)
RecordedOnce ==
  /\ Len(Known.adjustments) <= changes
  /\ Len(sidecar.lanes[Account].adjustments) <= changes

(* A window the server replaced early is never also reported as completed,  *)
(* not even when it runs out while the process is down between the files.   *)
ReplacedNotCompleted ==
  \A e \in Known.events, i \in DOMAIN Known.adjustments :
    Moved(Known.adjustments[i]) =>
      ~Equivalent(Known.adjustments[i].before.resetsAt, e.resetsAt)

(* One scheduled reset is one event, however its timestamp is rounded.      *)
CompletedOnce ==
  \A e, f \in Known.events : Equivalent(e.resetsAt, f.resetsAt) => e = f
=============================================================================
