------------------------------- MODULE Refresh -------------------------------
(***************************************************************************)
(* Collector.refresh: one reading of everything a snapshot consists of.     *)
(* The account and the rate limits are required; the live version, the      *)
(* token total, the recent threads and the threads loaded by the user's     *)
(* own daemon are not.  Composes the detection of the version, the          *)
(* inventory of the daemon and the construction of the snapshot.  That the  *)
(* login may change between the reads is the subject of AccountBoundary.    *)
(***************************************************************************)
EXTENDS LiveVersion, LoadedThreads, Observation

CONSTANTS
  Misdated,   \* threads whose timestamps the sanitizer rejects
  Loads       \* by name, what the answers of a behaviour are taken from

ASSUME RefreshAssumption ==
  /\ Misdated \subseteq Threads
  /\ \A l \in DOMAIN Loads :
       /\ Loads[l].accounts \subseteq Accounts /\ Loads[l].tables \subseteq Tables
       /\ Loads[l].changes \in 0..MaxChanges /\ Loads[l].moves \in 0..MaxMoves
       /\ Loads[l].limits \subseteq LimitsAnswer /\ Loads[l].threads \subseteq Seq(ThreadRow)
       /\ Loads[l].usage \subseteq BOOLEAN

VARIABLES
  load,
  step,       \* the next read of refresh, or how it ended
  snapshot,
  answered    \* the answers that were accepted: [limits, threads]

refreshVars == <<load, step, snapshot, answered>>
allVars == <<versionVars, threadVars, refreshVars>>

NoAnswers ==
  [limits |-> [primary |-> NoWindow, secondary |-> NoWindow, buckets |-> <<>>], threads |-> <<>>]

RefreshInit ==
  /\ load \in DOMAIN Loads
  /\ proc \in Loads[load].tables /\ left = Loads[load].changes
  /\ status \in Loads[load].statuses /\ updated \in Loads[load].updates
  /\ polite \in Loads[load].polite /\ moves = Loads[load].moves
  /\ VersionInit /\ ThreadsInit
  /\ step = "account"
  /\ snapshot = EmptySnapshot("none")
  /\ answered = NoAnswers

-----------------------------------------------------------------------------
ReadAccount(account) ==
  /\ step = "account"
  /\ snapshot' = EmptySnapshot(account)
  /\ step' = "version"
  /\ UNCHANGED <<versionVars, threadVars, load, answered>>

(* observeLiveVersion runs to its end for every account. *)
ObserveVersion ==
  /\ step = "version"
  /\ VersionNext
  /\ UNCHANGED <<threadVars, refreshVars>>

VersionObserved ==
  /\ step = "version" /\ at = "done"
  /\ step' = IF snapshot.error = "protocol" THEN "failed"
             ELSE IF snapshot.state = "ok" THEN "limits" ELSE "validate"
  /\ UNCHANGED <<versionVars, threadVars, load, snapshot, answered>>

ReadRateLimits(answer) ==
  /\ step = "limits"
  /\ snapshot' = [snapshot EXCEPT !.limits = SanitizeLimits(answer.buckets),
                                  !.main = SanitizeMainUsage(answer)]
  /\ answered' = [answered EXCEPT !.limits = answer]
  /\ step' = "usage"
  /\ UNCHANGED <<versionVars, threadVars, load>>

RequiredReadFails ==
  /\ step \in {"account", "limits"}
  /\ step' = "failed"
  /\ UNCHANGED <<versionVars, threadVars, load, snapshot, answered>>

(* An optional read that fails leaves its part of the snapshot out. *)
ReadAccountUsage(done) ==
  /\ step = "usage"
  /\ snapshot' = [snapshot EXCEPT !.tokensRead = done]
  /\ step' = "threads"
  /\ UNCHANGED <<versionVars, threadVars, load, answered>>

ReadThreads(rows) ==
  /\ step = "threads"
  /\ snapshot' = [snapshot EXCEPT !.recentRead = TRUE, !.recent = SanitizeRecentThreads(rows)]
  /\ answered' = [answered EXCEPT !.threads = rows]
  /\ step' = "runtime"
  /\ UNCHANGED <<versionVars, threadVars, load>>

ReadThreadsFails ==
  /\ step = "threads"
  /\ step' = "runtime"
  /\ UNCHANGED <<versionVars, threadVars, load, snapshot, answered>>

(* There is a control socket, and its daemon has the same account. *)
ConnectControl ==
  /\ step = "runtime"
  /\ LoadedThreads
  /\ UNCHANGED <<versionVars, refreshVars>>

ReadRuntimeThreads ==
  /\ step = "runtime"
  /\ ReadInventory \/ ThreadsMove
  /\ UNCHANGED <<versionVars, refreshVars>>

RuntimeThreadsRead ==
  /\ step = "runtime" /\ phase = "selected"
  /\ snapshot' = [snapshot EXCEPT !.runtimeRead = TRUE,
                                  !.runtime = {c \in inventory : c.id \notin Misdated}]
  /\ step' = "validate"
  /\ UNCHANGED <<versionVars, threadVars, load, answered>>

ReadRuntimeThreadsFails ==
  /\ step = "runtime" /\ phase \in {"idle", "failed"}
  /\ step' = "validate"
  /\ UNCHANGED <<versionVars, threadVars, load, snapshot, answered>>

(* What cannot be published ends the session with a protocol error; that    *)
(* the publication may fail does not.                                       *)
PublishSnapshot ==
  /\ step = "validate"
  /\ step' = IF Validate(snapshot) THEN "published" ELSE "rejected"
  /\ UNCHANGED <<versionVars, threadVars, load, snapshot, answered>>

RefreshNext ==
  \/ \E account \in Loads[load].accounts : ReadAccount(account)
  \/ ObserveVersion \/ VersionObserved
  \/ \E answer \in Loads[load].limits : ReadRateLimits(answer)
  \/ RequiredReadFails
  \/ \E done \in Loads[load].usage : ReadAccountUsage(done)
  \/ \E rows \in Loads[load].threads : ReadThreads(rows)
  \/ ReadThreadsFails
  \/ ConnectControl \/ ReadRuntimeThreads \/ RuntimeThreadsRead \/ ReadRuntimeThreadsFails
  \/ PublishSnapshot

RefreshSpec == RefreshInit /\ [][RefreshNext]_allVars

-----------------------------------------------------------------------------
(* Properties *)

RefreshTypeOK ==
  /\ VersionTypeOK /\ ThreadsTypeOK
  /\ load \in DOMAIN Loads
  /\ step \in {"account", "version", "limits", "usage", "threads", "runtime", "validate",
               "published", "rejected", "failed"}
  /\ snapshot.state \in {"ok", "signed_out", "api_key", "unavailable"}
  /\ Len(snapshot.limits) <= MaxBuckets /\ Len(snapshot.recent) <= MaxRecentThreads
  /\ snapshot.runtime \subseteq inventory

(* The main window a server has answered with, if it is none to publish:    *)
(* not in the future, or nothing at all.                                    *)
MainWindow == IF answered.limits.primary.weekly THEN answered.limits.primary
              ELSE answered.limits.secondary

UnusableMainWindow ==
  /\ MainWindow.weekly
  /\ ~(MainWindow.resetsAt \in (ObservedAt + 1)..MaxStamp /\ MainWindow.resetsAt > WeekLength)

(* Two rows of one session of which each leaves out the timestamp that       *)
(* would have shown that they do not agree.                                 *)
SplitTimestamps ==
  \E i, j \in 1..Len(answered.threads) :
    /\ answered.threads[i].session = answered.threads[j].session
    /\ answered.threads[i].created = 0 /\ answered.threads[j].updated = 0
    /\ answered.threads[j].created > answered.threads[i].updated

(* An observation that was read is published: neither what the optional     *)
(* reads return nor names that buckets share cost the quota ("must never    *)
(* discard an otherwise valid quota observation").                          *)
QuotaIsPublished ==
  step = "rejected" => UnusableMainWindow \/ SplitTimestamps
=============================================================================
