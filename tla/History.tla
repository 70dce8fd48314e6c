------------------------------ MODULE History ------------------------------
(***************************************************************************)
(* The history tracker: per account, the anchored weekly window, the       *)
(* completed resets and the early server adjustments, kept in memory and   *)
(* in two files that are replaced one after the other.                     *)
(*                                                                         *)
(* An operation holds Tracker.mu from its first read to the end of the     *)
(* second file write.  Its effect on memory is one action (nobody can see  *)
(* memory before the lock is released); each file write is an action of    *)
(* its own, so that the process can stop between them.                     *)
(*                                                                         *)
(* A window starts Week before it resets, so its start is not stored.  The *)
(* reasons of an adjustment are read off its two windows, to which         *)
(* validateAdjustment ties them.  The clock does not step back.            *)
(***************************************************************************)
EXTENDS Integers, FiniteSets, Sequences, SequencesExt

CONSTANTS
  Accounts,
  Used,            \* used percentages; 0 is an unused window
  Week,            \* mainWeekMinutes
  Jitter,          \* resetTimestampJitterSeconds
  Skew,            \* clock tolerance of a reported reset
  Stable,          \* stableAfter
  MaxLag,          \* resetObservationMaxLag
  Retention,       \* Tracker.retention, at least a week
  MaxAccounts,     \* maxHistoryAccounts
  MaxEvents,       \* maxEventsPerAccount
  MaxAdjustments,  \* maxAdjustments
  Faults,          \* what can go wrong, of "crash", "failed", "unsynced"
  MaxTime,         \* bound on the clock
  MaxRevision,     \* bound on the revisions at which a report is observed
  MaxFaults        \* bound on crashes and write failures

ASSUME BoundsAssumption ==
  /\ Used \subseteq Nat /\ IsFiniteSet(Accounts)
  /\ {Jitter, Skew, Stable, MaxLag} \subseteq Nat
  /\ Week \in Nat \ {0} /\ Retention \in Nat /\ Retention >= Week
  /\ {MaxAccounts, MaxEvents, MaxAdjustments} \subseteq Nat \ {0}
  /\ {MaxTime, MaxRevision, MaxFaults} \subseteq Nat
  /\ Faults \subseteq {"crash", "failed", "unsynced"}

VARIABLES
  now,      \* Tracker.now(), one unit well below the jitter band or equal to it
  phase,    \* "down", "opening" (in Open) or "serving"
  step,     \* the file persistDirtyLocked is about to replace, or "none"
  lanes,    \* lanes[a]: accounts, adjustments and candidates in memory
  meta,     \* revision, coreRevision, dirty, adjustmentsDirty, degraded
  core,     \* the history file; revision 0 when it does not exist
  sidecar,  \* the adjustments file
  faults    \* how many faults have happened, only to bound them

hvars == <<now, phase, step, lanes, meta, core, sidecar, faults>>

NoWindow == [resetsAt |-> 0, firstSeen |-> 0, used |-> 0]
NoCandidate == [resetsAt |-> 0, firstSeen |-> 0, lastSeen |-> 0]
EmptyLane ==
  [tracked |-> FALSE, active |-> NoWindow, events |-> {},
   adjustments |-> <<>>, candidate |-> NoCandidate]
NoMeta ==
  [revision |-> 0, coreRevision |-> 0, dirty |-> FALSE,
   adjustmentsDirty |-> FALSE, degraded |-> FALSE]

CorePart(l) == [tracked |-> l.tracked, active |-> l.active, events |-> l.events]
SidecarPart(l) == [tracked |-> l.tracked, adjustments |-> l.adjustments]

Init ==
  /\ now = 1 /\ phase = "down" /\ step = "none" /\ faults = 0
  /\ lanes = [a \in Accounts |-> EmptyLane]
  /\ meta = NoMeta
  /\ core = [revision |-> 0, lanes |-> [a \in Accounts |-> CorePart(EmptyLane)]]
  /\ sidecar = [revision |-> 0, lanes |-> [a \in Accounts |-> SidecarPart(EmptyLane)]]

-----------------------------------------------------------------------------
(* Reset timestamps *)

(* Mutant: rounding is not tolerated. *)
SameTimestamp(r, q) == r = q

Equivalent(r, q) == r - q <= Jitter /\ q - r <= Jitter
(* Mutant: a window is completed before late reports of it are over. *)
SettledAtOnce(r, t) == t >= r

Settled(r, t) == t >= r + Jitter
Early(r, t) == r - t > Jitter
Believable(r, t) == r > t /\ r <= t + Week + Skew

(* Could a window that resets at r have replaced w, as observed at t? *)
PlausibleTransition(w, r, t) ==
  /\ r - Week >= w.firstSeen
  /\ r - Week >= t - MaxLag /\ r - Week <= t + Skew

Moved(d) == d.before.resetsAt # d.after.resetsAt
Decreased(d) == d.after.used < d.before.used

-----------------------------------------------------------------------------
(* Appending *)

Newest(events) ==
  {e \in events : Cardinality({f \in events : f.resetsAt > e.resetsAt}) < MaxEvents}

(* The completion of window w, detected at t, once per reset timestamp. *)
WithEvent(events, w, t) ==
  IF \E e \in events : e.resetsAt = w.resetsAt THEN events
  ELSE Newest(events \cup {[resetsAt |-> w.resetsAt, used |-> w.used, detectedAt |-> t]})

(* An adjustment that fails validateAdjustment, or that repeats one made    *)
(* from the same window under the same core revision, is not appended.      *)
WithAdjustment(adjustments, d) ==
  IF \/ d.before.resetsAt <= d.detectedAt
     \/ d.after.resetsAt <= d.detectedAt
     \/ \E i \in DOMAIN adjustments :
          adjustments[i].rev = d.rev /\ adjustments[i].before = d.before
  THEN adjustments
  ELSE LET all == Append(adjustments, d)
       IN  IF Len(all) <= MaxAdjustments THEN all ELSE Tail(all)

(* Mutant: an adjustment carries the revision it will be written with. *)
AdjustedAhead(l, t, after) ==
  WithAdjustment(l.adjustments,
    [rev |-> meta.revision + 1, detectedAt |-> t,
     before |-> l.active, after |-> after])

Adjusted(l, t, after) ==
  WithAdjustment(l.adjustments,
    [rev |-> meta.coreRevision, detectedAt |-> t,
     before |-> l.active, after |-> after])

-----------------------------------------------------------------------------
(* What an observation w = [resetsAt, used] at time t does to a lane *)

Proposed(t, w) == [resetsAt |-> w.resetsAt, firstSeen |-> t, used |-> w.used]

(* A used window is anchored at once, an unused one when its reset stays    *)
(* where it is for Stable.                                                  *)
Anchor(l, t, w) ==
  LET c == l.candidate
      fixed == c # NoCandidate /\ c.resetsAt = w.resetsAt
  IN  IF w.used > 0
      THEN [l EXCEPT !.active = Proposed(t, w), !.candidate = NoCandidate]
      ELSE IF ~fixed
      THEN [l EXCEPT !.candidate =
              [resetsAt |-> w.resetsAt, firstSeen |-> t, lastSeen |-> t]]
      ELSE IF t - c.firstSeen >= Stable
      THEN [l EXCEPT !.active = Proposed(c.firstSeen, w), !.candidate = NoCandidate]
      ELSE [l EXCEPT !.candidate.lastSeen = t]

ObserveWindow(l, t, w) ==
  LET unanchored == [l EXCEPT !.active = NoWindow]
  IN  IF ~l.tracked \/ ~Believable(w.resetsAt, t) THEN l
      ELSE IF l.active = NoWindow THEN Anchor(l, t, w)
      ELSE IF Equivalent(l.active.resetsAt, w.resetsAt)
      THEN [l EXCEPT !.candidate = NoCandidate,
                     !.active.used = w.used,
                     !.adjustments = IF w.used < l.active.used
                       THEN Adjusted(l, t, [l.active EXCEPT !.used = w.used]) ELSE @]
      ELSE IF Early(l.active.resetsAt, t)
      THEN Anchor([unanchored EXCEPT !.candidate = NoCandidate,
                                     !.adjustments = Adjusted(l, t, Proposed(t, w))],
                  t, w)
      ELSE Anchor([unanchored EXCEPT !.events = WithEvent(l.events, l.active, t)], t, w)

(* The source changed: differences with the former source mean nothing,    *)
(* unless the anchored window has run out or was plausibly replaced.        *)
RebaselineWindow(l, t, w) ==
  LET anchored == l.active # NoWindow
      telling == \/ ~Early(l.active.resetsAt, t)
                 \/ /\ w.used < l.active.used
                    /\ PlausibleTransition(l.active, w.resetsAt, t)
      cleared == [l EXCEPT !.candidate = NoCandidate]
  IN  IF ~l.tracked \/ ~Believable(w.resetsAt, t) THEN l
      ELSE IF anchored /\ Equivalent(l.active.resetsAt, w.resetsAt)
      THEN [cleared EXCEPT !.active.used = w.used]
      ELSE IF anchored /\ telling THEN ObserveWindow(l, t, w)
      ELSE Anchor([cleared EXCEPT !.active = NoWindow], t, w)

(* The elements of a sequence that are in S, in their order.                *)
Only(S, seq) == FoldLeft(LAMBDA kept, d : IF d \in S THEN Append(kept, d) ELSE kept, <<>>, seq)

PruneLane(l, t) ==
  LET done == l.active # NoWindow /\ Settled(l.active.resetsAt, t)
      kept == [l EXCEPT
        !.active = IF done THEN NoWindow ELSE @,
        !.events = {e \in IF done THEN WithEvent(@, l.active, t) ELSE @ :
                      e.resetsAt >= t - Retention},
        !.adjustments = Only({d \in Range(@) : d.detectedAt >= t - Retention}, @),
        !.candidate = IF Settled(@.resetsAt, t) \/ @.lastSeen < t - Retention
                      THEN NoCandidate ELSE @]
  IN  IF [kept EXCEPT !.tracked = FALSE] = EmptyLane THEN EmptyLane ELSE kept

Prune(ls, t) == [a \in Accounts |-> PruneLane(ls[a], t)]

Tracked(ls) == {a \in Accounts : ls[a].tracked}

(* An account is admitted while there is room for it. *)
Ensure(ls, a) ==
  IF Cardinality(Tracked(ls)) < MaxAccounts
  THEN [ls EXCEPT ![a].tracked = TRUE] ELSE ls

-----------------------------------------------------------------------------
(* Files.  Each operation goes through some stages of memory; it is dirty   *)
(* in a file if one of its stages changed what that file holds.             *)

CoreDiffers(ls, ms) == \E a \in Accounts : CorePart(ls[a]) # CorePart(ms[a])
SidecarDiffers(ls, ms) == \E a \in Accounts : SidecarPart(ls[a]) # SidecarPart(ms[a])

(* Mutant: the history file is written first. *)
CoreFirst(m) == IF m.dirty THEN "core" ELSE IF m.adjustmentsDirty THEN "sidecar" ELSE "none"

NextStep(m) == IF m.adjustmentsDirty THEN "sidecar" ELSE IF m.dirty THEN "core" ELSE "none"

Commit(ls, coreChanged, sidecarChanged) ==
  LET m == [meta EXCEPT
              !.revision = IF coreChanged \/ sidecarChanged THEN @ + 1 ELSE @,
              !.dirty = @ \/ coreChanged,
              !.adjustmentsDirty = @ \/ sidecarChanged]
  IN  /\ lanes' = ls
      /\ meta' = m
      /\ step' = NextStep(m)
      /\ UNCHANGED <<now, phase, core, sidecar, faults>>

Ready == phase = "serving" /\ step = "none"

(* Observe and Rebaseline *)
ApplySnapshot(a, w, rebaseline) ==
  LET pruned == Prune(lanes, now)
      ensured == Ensure(pruned, a)
      l == IF rebaseline THEN RebaselineWindow(ensured[a], now, w)
                         ELSE ObserveWindow(ensured[a], now, w)
      seen == [ensured EXCEPT ![a] = l]
      stages == {<<lanes, pruned>>, <<pruned, ensured>>, <<ensured, seen>>}
  IN  /\ Ready
      /\ meta.revision < MaxRevision
      /\ Commit(seen, \E s \in stages : CoreDiffers(s[1], s[2]),
                      \E s \in stages : SidecarDiffers(s[1], s[2]))

(* A reader of /api/history prunes, and retries a failed write. *)
Snapshot ==
  LET pruned == Prune(lanes, now)
  IN  /\ Ready
      /\ Commit(pruned, CoreDiffers(lanes, pruned), SidecarDiffers(lanes, pruned))

Stopped ==
  /\ phase' = "down" /\ step' = "none"
  /\ lanes' = [a \in Accounts |-> EmptyLane]
  /\ meta' = NoMeta

(* A write succeeds, fails and leaves the old file, or replaces the file    *)
(* and then fails to sync the directory.  More lanes than a file may hold   *)
(* are refused before it is touched.  A failure ends Open with an error and *)
(* otherwise leaves the tracker degraded.                                   *)
Replaces(outcome) == outcome \in {"ok", "unsynced"}

Fault == faults < MaxFaults /\ faults' = faults + 1

(* As a mutant of Attempt: nothing is validated before it is written. *)
Written(outcome) ==
  \/ outcome = "ok" /\ UNCHANGED faults
  \/ outcome \in Faults \ {"crash"} /\ Fault

Attempt(outcome) ==
  IF Cardinality(Tracked(lanes)) > MaxAccounts
  THEN outcome = "refused" /\ UNCHANGED faults
  ELSE Written(outcome)

(* Mutant: a failed write is not reported. *)
WriteFailsSilently ==
  IF phase = "opening" THEN Stopped
  ELSE step' = "none" /\ UNCHANGED <<meta, phase, lanes>>

WriteFails ==
  IF phase = "opening" THEN Stopped
  ELSE /\ step' = "none"
       /\ meta' = [meta EXCEPT !.degraded = TRUE]
       /\ UNCHANGED <<phase, lanes>>

WriteOk(m) ==
  /\ step' = NextStep(m)
  /\ meta' = [m EXCEPT !.degraded = @ /\ NextStep(m) # "none"]
  /\ phase' = IF NextStep(m) = "none" THEN "serving" ELSE phase
  /\ UNCHANGED lanes

WriteSidecar(outcome) ==
  /\ step = "sidecar"
  /\ Attempt(outcome)
  /\ sidecar' = IF Replaces(outcome)
                THEN [revision |-> meta.revision,
                      lanes |-> [a \in Accounts |-> SidecarPart(lanes[a])]]
                ELSE sidecar
  /\ IF outcome = "ok" THEN WriteOk([meta EXCEPT !.adjustmentsDirty = FALSE])
                       ELSE WriteFails
  /\ UNCHANGED <<now, core>>

WriteCore(outcome) ==
  /\ step = "core"
  /\ Attempt(outcome)
  /\ core' = IF Replaces(outcome)
             THEN [revision |-> meta.revision,
                   lanes |-> [a \in Accounts |-> CorePart(lanes[a])]]
             ELSE core
  /\ IF outcome = "ok"
     THEN WriteOk([meta EXCEPT !.dirty = FALSE, !.coreRevision = meta.revision])
     ELSE WriteFails
  /\ UNCHANGED <<now, sidecar>>

-----------------------------------------------------------------------------
(* Open *)

(* Timestamp jitter recorded by an earlier version is dropped, or reduced   *)
(* to the usage decrease it came with.                                      *)
Sanitized(adjustments) ==
  LET Fixed(d) == IF Moved(d) /\ Equivalent(d.before.resetsAt, d.after.resetsAt)
                  THEN [d EXCEPT !.after = [d.before EXCEPT !.used = d.after.used]]
                  ELSE d
      fixed == [i \in DOMAIN adjustments |-> Fixed(adjustments[i])]
  IN  Only({d \in Range(fixed) : Moved(d) \/ Decreased(d)}, fixed)

(* Adjustments the core file has not caught up with are replayed on its     *)
(* anchored window, oldest first.                                           *)
Replay(seen, d) ==
  IF d.rev # core.revision \/ d.before # seen.before THEN seen
  ELSE [before |-> d.after,
        active |-> IF Moved(d) /\ d.after.used = 0 THEN NoWindow ELSE d.after]

Replayed(w, adjustments) ==
  FoldLeft(Replay, [before |-> w, active |-> w], adjustments).active

(* Mutant: a window that has run out is not worth reconciling. *)
ReconciledIfLive(l) ==
  IF l.active = NoWindow \/ Settled(l.active.resetsAt, now) THEN l
  ELSE [l EXCEPT !.active = Replayed(@, l.adjustments)]

Reconciled(l) ==
  IF l.active = NoWindow THEN l ELSE [l EXCEPT !.active = Replayed(@, l.adjustments)]

Loaded(a) ==
  [tracked |-> core.lanes[a].tracked \/ sidecar.lanes[a].tracked,
   active |-> core.lanes[a].active, events |-> core.lanes[a].events,
   adjustments |-> sidecar.lanes[a].adjustments, candidate |-> NoCandidate]

(* Mutant: the adjustments file is taken to be no newer. *)
CoreRevision == core.revision

NewestRevision ==
  IF sidecar.revision > core.revision THEN sidecar.revision ELSE core.revision

Open ==
  LET loaded == [a \in Accounts |-> Loaded(a)]
      clean == [a \in Accounts |->
                  [loaded[a] EXCEPT !.adjustments = Sanitized(@)]]
      recovered == [a \in Accounts |-> Reconciled(clean[a])]
      pruned == Prune(recovered, now)
      stages == {<<clean, recovered>>, <<recovered, pruned>>}
      coreChanged == \/ core.revision = 0
                     \/ CoreDiffers(core.lanes, loaded)
                     \/ \E s \in stages : CoreDiffers(s[1], s[2])
      sidecarChanged == \/ sidecar.revision = 0
                        \/ SidecarDiffers(sidecar.lanes, clean)
                        \/ \E s \in stages : SidecarDiffers(s[1], s[2])
      changed == coreChanged \/ sidecarChanged
  IN  /\ phase = "down"
      /\ lanes' = pruned
      /\ meta' = [revision |-> NewestRevision + (IF changed THEN 1 ELSE 0),
                  coreRevision |-> core.revision,
                  dirty |-> coreChanged, adjustmentsDirty |-> sidecarChanged,
                  degraded |-> FALSE]
      /\ step' = NextStep(meta')
      /\ phase' = IF changed THEN "opening" ELSE "serving"
      /\ UNCHANGED <<now, core, sidecar, faults>>

Crash ==
  /\ "crash" \in Faults
  /\ Fault
  /\ phase # "down"
  /\ Stopped
  /\ UNCHANGED <<now, core, sidecar>>

Tick ==
  /\ now < MaxTime
  /\ step = "none"
  /\ now' = now + 1
  /\ UNCHANGED <<phase, step, lanes, meta, core, sidecar, faults>>

Outcomes == {"ok", "refused"} \cup (Faults \ {"crash"})

Persist == \E o \in Outcomes : WriteSidecar(o) \/ WriteCore(o)

Reports(t) == [resetsAt : (t + 1)..(t + Week + Skew), used : Used]

HistoryNext ==
  \/ \E a \in Accounts, w \in Reports(now), rebaseline \in BOOLEAN :
       ApplySnapshot(a, w, rebaseline)
  \/ Snapshot
  \/ Persist
  \/ Open
  \/ Crash
  \/ Tick

HistorySpec == Init /\ [][HistoryNext]_hvars

-----------------------------------------------------------------------------
(* Properties *)

Window == [resetsAt : Nat, firstSeen : Nat, used : Used \cup {0}]
Event == [resetsAt : Nat, used : Used \cup {0}, detectedAt : Nat]
Adjustment == [rev : Nat \ {0}, detectedAt : Nat, before : Window, after : Window]
Candidate == [resetsAt : Nat, firstSeen : Nat, lastSeen : Nat]

Capped(l) ==
  /\ Cardinality(l.events) <= MaxEvents
  /\ Len(l.adjustments) <= MaxAdjustments

(* Every variable has the type of its Go counterpart, and what is in memory *)
(* can be written: validateDiskState rejects more accounts, events or       *)
(* adjustments than the caps.  Only Open may find more accounts, in two     *)
(* files of different ages; it is then refused its write and fails.         *)
TypeOK ==
  /\ now \in Nat
  /\ phase \in {"down", "opening", "serving"}
  /\ step \in {"none", "sidecar", "core"}
  /\ \A a \in Accounts :
       /\ DOMAIN lanes[a] = DOMAIN EmptyLane
       /\ lanes[a].active \in Window
       /\ \A e \in lanes[a].events : e \in Event
       /\ \A i \in DOMAIN lanes[a].adjustments : lanes[a].adjustments[i] \in Adjustment
       /\ lanes[a].candidate \in Candidate
       /\ Capped(lanes[a])
  /\ phase = "serving" => Cardinality(Tracked(lanes)) <= MaxAccounts
  /\ meta \in [revision : Nat, coreRevision : Nat, dirty : BOOLEAN,
               adjustmentsDirty : BOOLEAN, degraded : BOOLEAN]

(* A tracker that does not report itself degraded shows what a restart      *)
(* would load: both files hold what memory holds, whatever writes failed,   *)
(* half succeeded or were interrupted before.  A degraded one has something *)
(* left to write, hence retries at the next observation or reader.          *)
DurableUnlessDegraded ==
  Ready =>
    IF meta.degraded THEN meta.dirty \/ meta.adjustmentsDirty
    ELSE /\ \A a \in Accounts : core.lanes[a] = CorePart(lanes[a])
         /\ \A a \in Accounts : sidecar.lanes[a] = SidecarPart(lanes[a])
         /\ meta.coreRevision = core.revision

(* The history file is replaced only when the adjustments file holds every  *)
(* adjustment memory holds: a crash never loses an adjustment whose effect  *)
(* on the anchored window survives.                                         *)
SidecarLeads ==
  [][core' # core =>
       \A a \in Accounts : sidecar'.lanes[a] = SidecarPart(lanes[a])]_hvars

(* The revision of a response is never behind a file, nor a new file behind *)
(* the one it replaces, across failed writes and restarts.                  *)
RevisionsForward ==
  [][/\ core'.revision >= core.revision
     /\ sidecar'.revision >= sidecar.revision
     /\ phase' = "serving" =>
          meta'.revision >= core.revision /\ meta'.revision >= sidecar.revision]_hvars
=============================================================================
