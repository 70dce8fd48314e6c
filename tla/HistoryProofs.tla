--------------------------- MODULE HistoryProofs ---------------------------
(***************************************************************************)
(* The history tracker for any accounts, windows, limits, times and        *)
(* faults: what its two files owe memory, in which order they are          *)
(* replaced, that revisions never go back, and how many lanes it serves.   *)
(***************************************************************************)
EXTENDS HistoryRecovery, Folding

Metas ==
  [revision : Nat, coreRevision : Nat, dirty : BOOLEAN,
   adjustmentsDirty : BOOLEAN, degraded : BOOLEAN]

(* The files are records of what persistDirtyLocked writes. *)
FileTypes ==
  /\ core.revision \in Nat /\ sidecar.revision \in Nat
  /\ \A a \in Accounts : core.lanes[a] = CorePart(core.lanes[a])
  /\ \A a \in Accounts : sidecar.lanes[a] = SidecarPart(sidecar.lanes[a])

(* Where the process is: it opens until its files are written, and is       *)
(* degraded between two operations exactly if it still owes them something. *)
PhaseInv ==
  /\ phase \in {"down", "opening", "serving"}
  /\ step \in {"none", "sidecar", "core"}
  /\ phase = "down" => step = "none"
  /\ phase = "opening" => step # "none"
  /\ step = "sidecar" => meta.adjustmentsDirty
  /\ step = "core" => meta.dirty /\ ~meta.adjustmentsDirty
  /\ phase # "down" /\ step = "none" =>
       (meta.degraded <=> meta.dirty \/ meta.adjustmentsDirty)

(* A file that is not dirty holds what memory holds. *)
CoreHolds(m) ==
  ~m.dirty => /\ \A a \in Accounts : core.lanes[a] = CorePart(lanes[a])
              /\ m.coreRevision = core.revision
SidecarHolds(m) ==
  ~m.adjustmentsDirty => \A a \in Accounts : sidecar.lanes[a] = SidecarPart(lanes[a])

OwedInv ==
  phase # "down" =>
    /\ CoreHolds(meta) /\ SidecarHolds(meta)
    /\ meta.revision >= core.revision /\ meta.revision >= sidecar.revision

FileInv == meta \in Metas /\ FileTypes /\ PhaseInv /\ OwedInv

LEMMA FileInit == Init => FileInv
<1> SUFFICES ASSUME Init PROVE FileInv
  OBVIOUS
<1>1. meta \in Metas
  BY DEF Init, NoMeta, Metas
<1>2. FileTypes
  BY DEF Init, FileTypes, CorePart, SidecarPart
<1> QED
  BY <1>1, <1>2 DEF Init, FileInv, PhaseInv, OwedInv

-----------------------------------------------------------------------------
(* The effect of each kind of step on the files *)

(* What persistDirtyLocked does next. *)
LEMMA NextStepIs ==
  ASSUME NEW m \in Metas
  PROVE  /\ NextStep(m) \in {"none", "sidecar", "core"}
         /\ NextStep(m) = "sidecar" <=> m.adjustmentsDirty
         /\ NextStep(m) = "core" <=> m.dirty /\ ~m.adjustmentsDirty
         /\ NextStep(m) = "none" <=> ~m.dirty /\ ~m.adjustmentsDirty
  BY DEF NextStep, Metas

(* An operation that changes what a file holds makes it dirty. *)
LEMMA CommitKeeps ==
  ASSUME FileInv, Ready, NEW ls, NEW coreChanged \in BOOLEAN, NEW sidecarChanged \in BOOLEAN,
         ~coreChanged => \A a \in Accounts : CorePart(ls[a]) = CorePart(lanes[a]),
         ~sidecarChanged => \A a \in Accounts : SidecarPart(ls[a]) = SidecarPart(lanes[a]),
         Commit(ls, coreChanged, sidecarChanged)
  PROVE  FileInv'
<1>1. /\ meta' \in Metas
      /\ meta'.coreRevision = meta.coreRevision /\ meta'.revision >= meta.revision
      /\ meta'.dirty <=> meta.dirty \/ coreChanged
      /\ meta'.adjustmentsDirty <=> meta.adjustmentsDirty \/ sidecarChanged
      /\ meta'.degraded = meta.degraded
  <2> DEFINE r == IF coreChanged \/ sidecarChanged THEN meta.revision + 1 ELSE meta.revision
             d == meta.dirty \/ coreChanged
             s == meta.adjustmentsDirty \/ sidecarChanged
  <2>2. r \in Nat /\ r >= meta.revision
    BY DEF FileInv, Metas
  <2>3. d \in BOOLEAN /\ s \in BOOLEAN
    OBVIOUS
  <2>4. meta' = [meta EXCEPT !.revision = r, !.dirty = d, !.adjustmentsDirty = s]
    BY ZenonT(30) DEF Commit
  <2>5. (d <=> meta.dirty \/ coreChanged) /\ (s <=> meta.adjustmentsDirty \/ sidecarChanged)
    OBVIOUS
  <2> HIDE DEF r, d, s
  <2>6. /\ meta' \in Metas /\ meta'.revision = r /\ meta'.dirty = d
        /\ meta'.adjustmentsDirty = s /\ meta'.degraded = meta.degraded
        /\ meta'.coreRevision = meta.coreRevision
    BY <2>2, <2>3, <2>4 DEF FileInv, Metas
  <2>7. meta'.revision >= meta.revision
    BY <2>2, <2>6
  <2>8. /\ meta'.dirty <=> meta.dirty \/ coreChanged
        /\ meta'.adjustmentsDirty <=> meta.adjustmentsDirty \/ sidecarChanged
    BY <2>5, <2>6, Zenon
  <2> QED
    BY <2>6, <2>7, <2>8
<1>2. /\ lanes' = ls /\ step' = NextStep(meta')
      /\ phase' = phase /\ core' = core /\ sidecar' = sidecar
  BY DEF Commit
<1>3. FileTypes'
  BY <1>2 DEF FileInv, FileTypes, CorePart, SidecarPart
<1>4. PhaseInv'
  BY <1>1, <1>2, NextStepIs DEF FileInv, PhaseInv, Ready
<1>5. OwedInv'
  <2>1. phase # "down" /\ CoreHolds(meta) /\ SidecarHolds(meta)
    BY DEF Ready, FileInv, OwedInv
  <2>2. CoreHolds(meta)'
    BY <1>1, <1>2, <2>1 DEF CoreHolds, CorePart
  <2>3. SidecarHolds(meta)'
    BY <1>1, <1>2, <2>1 DEF SidecarHolds, SidecarPart
  <2>4. /\ meta.revision \in Nat /\ meta'.revision \in Nat
        /\ core.revision \in Nat /\ sidecar.revision \in Nat
    BY <1>1 DEF FileInv, FileTypes, Metas
  <2>5. meta'.revision >= core'.revision /\ meta'.revision >= sidecar'.revision
    BY <1>1, <1>2, <2>1, <2>4 DEF FileInv, OwedInv
  <2> QED
    BY <2>2, <2>3, <2>5 DEF OwedInv
<1> QED
  BY <1>1, <1>3, <1>4, <1>5 DEF FileInv

(* Stages that change nothing in a file leave it right. *)
LEMMA StagesKeep ==
  ASSUME NEW ls, NEW ms
  PROVE  /\ ~CoreDiffers(ls, ms) => \A a \in Accounts : CorePart(ls[a]) = CorePart(ms[a])
         /\ ~SidecarDiffers(ls, ms) =>
              \A a \in Accounts : SidecarPart(ls[a]) = SidecarPart(ms[a])
  BY DEF CoreDiffers, SidecarDiffers

LEMMA SnapshotKeeps ==
  ASSUME FileInv, Snapshot
  PROVE  FileInv'
<1> DEFINE pruned == Prune(lanes, now)
<1>1. /\ Ready
      /\ Commit(pruned, CoreDiffers(lanes, pruned), SidecarDiffers(lanes, pruned))
  BY DEF Snapshot
<1> HIDE DEF pruned
<1>2. CoreDiffers(lanes, pruned) \in BOOLEAN /\ SidecarDiffers(lanes, pruned) \in BOOLEAN
  BY DEF CoreDiffers, SidecarDiffers
<1> QED
  BY <1>1, <1>2, StagesKeep, CommitKeeps

LEMMA ApplyKeeps ==
  ASSUME FileInv, NEW a \in Accounts, NEW w, NEW rebaseline, ApplySnapshot(a, w, rebaseline)
  PROVE  FileInv'
<1> DEFINE pruned == Prune(lanes, now)
           ensured == Ensure(pruned, a)
           l == IF rebaseline THEN RebaselineWindow(ensured[a], now, w)
                              ELSE ObserveWindow(ensured[a], now, w)
           seen == [ensured EXCEPT ![a] = l]
           stages == {<<lanes, pruned>>, <<pruned, ensured>>, <<ensured, seen>>}
           coreChanged == \E s \in stages : CoreDiffers(s[1], s[2])
           sidecarChanged == \E s \in stages : SidecarDiffers(s[1], s[2])
<1>1. Ready /\ Commit(seen, coreChanged, sidecarChanged)
  BY DEF ApplySnapshot
<1> HIDE DEF pruned, ensured, l, seen
<1>2. coreChanged \in BOOLEAN /\ sidecarChanged \in BOOLEAN
  OBVIOUS
<1>3. /\ ~coreChanged => /\ ~CoreDiffers(lanes, pruned) /\ ~CoreDiffers(pruned, ensured)
                         /\ ~CoreDiffers(ensured, seen)
      /\ ~sidecarChanged => /\ ~SidecarDiffers(lanes, pruned)
                            /\ ~SidecarDiffers(pruned, ensured)
                            /\ ~SidecarDiffers(ensured, seen)
  OBVIOUS
<1> HIDE DEF coreChanged, sidecarChanged
<1>4. ~coreChanged => \A b \in Accounts : CorePart(seen[b]) = CorePart(lanes[b])
  BY <1>3, StagesKeep
<1>5. ~sidecarChanged => \A b \in Accounts : SidecarPart(seen[b]) = SidecarPart(lanes[b])
  BY <1>3, StagesKeep
<1> QED
  BY <1>1, <1>2, <1>4, <1>5, CommitKeeps

(* A write that fails may have replaced a file, but only a dirty one. *)
LEMMA FailureKeeps ==
  ASSUME FileInv, phase # "down", step # "none", WriteFails, FileTypes',
         ~meta.dirty => core' = core, ~meta.adjustmentsDirty => sidecar' = sidecar,
         meta.revision >= core'.revision, meta.revision >= sidecar'.revision
  PROVE  FileInv'
<1>1. CASE phase = "opening"
  <2>1. phase' = "down" /\ step' = "none" /\ meta' = NoMeta
    BY <1>1 DEF WriteFails, Stopped
  <2>2. NoMeta \in Metas
    BY DEF NoMeta, Metas
  <2> QED
    BY <2>1, <2>2 DEF FileInv, PhaseInv, OwedInv
<1>2. CASE phase = "serving"
  <2>1. /\ meta' = [meta EXCEPT !.degraded = TRUE]
        /\ phase' = phase /\ step' = "none" /\ lanes' = lanes
    BY <1>2 DEF WriteFails
  <2>2. /\ meta' \in Metas /\ meta'.degraded = TRUE /\ meta'.revision = meta.revision
        /\ meta'.dirty = meta.dirty /\ meta'.adjustmentsDirty = meta.adjustmentsDirty
        /\ meta'.coreRevision = meta.coreRevision
    BY <2>1 DEF FileInv, Metas
  <2>3. PhaseInv'
    BY <1>2, <2>1, <2>2 DEF FileInv, PhaseInv
  <2>4. meta'.revision >= core'.revision /\ meta'.revision >= sidecar'.revision
    BY <2>2
  <2>5. CoreHolds(meta)' /\ SidecarHolds(meta)'
    BY <2>1, <2>2 DEF FileInv, OwedInv, CoreHolds, SidecarHolds, CorePart, SidecarPart
  <2> QED
    BY <2>2, <2>3, <2>4, <2>5 DEF FileInv, OwedInv
<1> QED
  BY <1>1, <1>2 DEF FileInv, PhaseInv

LEMMA SuccessKeeps ==
  ASSUME FileInv, phase # "down", step # "none", NEW m \in Metas, WriteOk(m),
         FileTypes', CoreHolds(m)', SidecarHolds(m)',
         m.revision >= core'.revision, m.revision >= sidecar'.revision
  PROVE  FileInv'
<1> DEFINE g == m.degraded /\ NextStep(m) # "none"
<1>1. g \in BOOLEAN
  OBVIOUS
<1>2. /\ meta' = [m EXCEPT !.degraded = g] /\ step' = NextStep(m) /\ lanes' = lanes
      /\ phase' = IF NextStep(m) = "none" THEN "serving" ELSE phase
  BY Zenon DEF WriteOk
<1>3. g => NextStep(m) # "none"
  OBVIOUS
<1> HIDE DEF g
<1>4. /\ meta' \in Metas /\ meta'.degraded = g /\ meta'.revision = m.revision
      /\ meta'.dirty = m.dirty /\ meta'.adjustmentsDirty = m.adjustmentsDirty
      /\ meta'.coreRevision = m.coreRevision
  BY <1>1, <1>2 DEF Metas
<1>5. PhaseInv'
  BY <1>2, <1>3, <1>4, NextStepIs DEF FileInv, PhaseInv
<1>6. CoreHolds(meta)' /\ SidecarHolds(meta)'
  BY <1>4 DEF CoreHolds, SidecarHolds
<1>7. meta'.revision >= core'.revision /\ meta'.revision >= sidecar'.revision
  BY <1>4
<1> QED
  BY <1>4, <1>5, <1>6, <1>7 DEF FileInv, OwedInv

LEMMA SidecarWriteKeeps ==
  ASSUME FileInv, NEW outcome, WriteSidecar(outcome)
  PROVE  FileInv'
<1>1. /\ step = "sidecar" /\ phase # "down" /\ core' = core
      /\ meta.revision \in Nat /\ sidecar.revision \in Nat /\ core.revision \in Nat
      /\ meta.adjustmentsDirty
  BY DEF FileInv, PhaseInv, Metas, FileTypes, WriteSidecar
<1>2. lanes' = lanes \/ phase' = "down"
  BY DEF WriteSidecar, WriteFails, WriteOk, Stopped
<1>3. /\ \/ sidecar' = sidecar
         \/ sidecar' = [revision |-> meta.revision,
                        lanes |-> [a \in Accounts |-> SidecarPart(lanes[a])]]
      /\ Replaces(outcome) => sidecar' = [revision |-> meta.revision,
                                lanes |-> [a \in Accounts |-> SidecarPart(lanes[a])]]
  BY DEF WriteSidecar
<1>4. FileTypes'
  <2>1. \A a \in Accounts : sidecar'.lanes[a] = SidecarPart(sidecar'.lanes[a])
    BY <1>3 DEF SidecarPart, FileInv, FileTypes
  <2>2. sidecar'.revision \in Nat
    BY <1>1, <1>3
  <2> QED
    BY <1>1, <2>1, <2>2 DEF FileInv, FileTypes, CorePart, SidecarPart
<1>5. meta.revision >= core'.revision /\ meta.revision >= sidecar'.revision
  BY <1>1, <1>3 DEF FileInv, OwedInv
<1>6. CASE outcome = "ok"
  <2> PICK m : m = [meta EXCEPT !.adjustmentsDirty = FALSE]
    OBVIOUS
  <2>1. WriteOk(m) /\ lanes' = lanes
    BY <1>6 DEF WriteSidecar, WriteOk
  <2>2. /\ m \in Metas /\ m.revision = meta.revision /\ m.dirty = meta.dirty
        /\ m.coreRevision = meta.coreRevision /\ m.adjustmentsDirty = FALSE
    BY DEF FileInv, Metas
  <2>3. CoreHolds(m)'
    BY <1>1, <2>1, <2>2 DEF FileInv, OwedInv, CoreHolds, CorePart
  <2>4. SidecarHolds(m)'
    BY <1>3, <1>6, <2>1 DEF SidecarHolds, SidecarPart, Replaces
  <2>5. m.revision >= core'.revision /\ m.revision >= sidecar'.revision
    BY <1>5, <2>2
  <2> QED
    BY <1>1, <1>4, <2>1, <2>2, <2>3, <2>4, <2>5, SuccessKeeps
<1>7. CASE outcome # "ok"
  <2>1. WriteFails
    BY <1>7 DEF WriteSidecar
  <2> QED
    BY <1>1, <1>4, <1>5, <2>1, FailureKeeps
<1> QED
  BY <1>6, <1>7

LEMMA CoreWriteKeeps ==
  ASSUME FileInv, NEW outcome, WriteCore(outcome)
  PROVE  FileInv'
<1>1. /\ step = "core" /\ phase # "down" /\ sidecar' = sidecar
      /\ meta.revision \in Nat /\ sidecar.revision \in Nat /\ core.revision \in Nat
      /\ meta.dirty /\ ~meta.adjustmentsDirty
  BY DEF FileInv, PhaseInv, Metas, FileTypes, WriteCore
<1>2. /\ \/ core' = core
         \/ core' = [revision |-> meta.revision,
                     lanes |-> [a \in Accounts |-> CorePart(lanes[a])]]
      /\ Replaces(outcome) => core' = [revision |-> meta.revision,
                                lanes |-> [a \in Accounts |-> CorePart(lanes[a])]]
  BY DEF WriteCore
<1>3. FileTypes'
  <2>1. \A a \in Accounts : core'.lanes[a] = CorePart(core'.lanes[a])
    BY <1>2 DEF CorePart, FileInv, FileTypes
  <2>2. core'.revision \in Nat
    BY <1>1, <1>2
  <2> QED
    BY <1>1, <2>1, <2>2 DEF FileInv, FileTypes, CorePart, SidecarPart
<1>4. meta.revision >= core'.revision /\ meta.revision >= sidecar'.revision
  BY <1>1, <1>2 DEF FileInv, OwedInv
<1>5. CASE outcome = "ok"
  <2> PICK m : m = [meta EXCEPT !.dirty = FALSE, !.coreRevision = meta.revision]
    OBVIOUS
  <2>1. WriteOk(m) /\ lanes' = lanes
    BY <1>5 DEF WriteCore, WriteOk
  <2>2. /\ m \in Metas /\ m.revision = meta.revision /\ m.dirty = FALSE
        /\ m.coreRevision = meta.revision /\ m.adjustmentsDirty = meta.adjustmentsDirty
    BY DEF FileInv, Metas
  <2>3. CoreHolds(m)'
    BY <1>2, <1>5, <2>1, <2>2 DEF CoreHolds, CorePart, Replaces
  <2>4. SidecarHolds(m)'
    BY <1>1, <2>1, <2>2 DEF FileInv, OwedInv, SidecarHolds, SidecarPart
  <2>5. m.revision >= core'.revision /\ m.revision >= sidecar'.revision
    BY <1>4, <2>2
  <2> QED
    BY <1>1, <1>3, <2>1, <2>2, <2>3, <2>4, <2>5, SuccessKeeps
<1>6. CASE outcome # "ok"
  <2>1. WriteFails
    BY <1>6 DEF WriteCore
  <2> QED
    BY <1>1, <1>3, <1>4, <2>1, FailureKeeps
<1> QED
  BY <1>5, <1>6

(* Opening: what the merged files and the recovery changed is dirty. *)
LEMMA OpenKeeps ==
  ASSUME FileInv, Open
  PROVE  FileInv'
<1> DEFINE loaded == [a \in Accounts |-> Loaded(a)]
           clean == [a \in Accounts |-> [loaded[a] EXCEPT !.adjustments = Sanitized(@)]]
           recovered == [a \in Accounts |-> Reconciled(clean[a])]
           pruned == Prune(recovered, now)
           stages == {<<clean, recovered>>, <<recovered, pruned>>}
           coreChanged == \/ core.revision = 0
                          \/ CoreDiffers(core.lanes, loaded)
                          \/ \E s \in stages : CoreDiffers(s[1], s[2])
           sidecarChanged == \/ sidecar.revision = 0
                             \/ SidecarDiffers(sidecar.lanes, clean)
                             \/ \E s \in stages : SidecarDiffers(s[1], s[2])
           changed == coreChanged \/ sidecarChanged
           revision == NewestRevision + (IF changed THEN 1 ELSE 0)
<1>1. /\ lanes' = pruned /\ core' = core /\ sidecar' = sidecar
      /\ meta' = [revision |-> revision, coreRevision |-> core.revision,
                  dirty |-> coreChanged, adjustmentsDirty |-> sidecarChanged,
                  degraded |-> FALSE]
      /\ step' = NextStep(meta')
      /\ phase' = IF changed THEN "opening" ELSE "serving"
  BY DEF Open
<1>2. /\ revision \in Nat /\ revision >= core.revision /\ revision >= sidecar.revision
  BY DEF NewestRevision, FileInv, FileTypes
<1>3. coreChanged \in BOOLEAN /\ sidecarChanged \in BOOLEAN
  OBVIOUS
<1>4. \A a \in Accounts : CorePart(clean[a]) = CorePart(loaded[a])
  BY DEF CorePart, Loaded
<1> HIDE DEF loaded, clean, recovered, pruned, revision
<1>5. ASSUME ~coreChanged
      PROVE  \A a \in Accounts : core.lanes[a] = CorePart(pruned[a])
  <2>1. /\ ~CoreDiffers(core.lanes, loaded) /\ ~CoreDiffers(clean, recovered)
        /\ ~CoreDiffers(recovered, pruned)
    BY <1>5
  <2> HIDE DEF coreChanged
  <2>2. \A a \in Accounts : core.lanes[a] = CorePart(core.lanes[a])
    BY DEF FileInv, FileTypes
  <2> QED
    BY <1>4, <2>1, <2>2, StagesKeep
<1>6. ASSUME ~sidecarChanged
      PROVE  \A a \in Accounts : sidecar.lanes[a] = SidecarPart(pruned[a])
  <2>1. /\ ~SidecarDiffers(sidecar.lanes, clean) /\ ~SidecarDiffers(clean, recovered)
        /\ ~SidecarDiffers(recovered, pruned)
    BY <1>6
  <2> HIDE DEF sidecarChanged
  <2>2. \A a \in Accounts : sidecar.lanes[a] = SidecarPart(sidecar.lanes[a])
    BY DEF FileInv, FileTypes
  <2> QED
    BY <2>1, <2>2, StagesKeep
<1> HIDE DEF coreChanged, sidecarChanged
<1>7. /\ meta' \in Metas /\ meta'.revision = revision /\ meta'.dirty = coreChanged
      /\ meta'.adjustmentsDirty = sidecarChanged /\ meta'.degraded = FALSE
      /\ meta'.coreRevision = core.revision
  BY <1>1, <1>2, <1>3 DEF Metas, FileInv, FileTypes
<1>8. CoreHolds(meta)' /\ SidecarHolds(meta)'
  BY <1>1, <1>5, <1>6, <1>7 DEF CoreHolds, SidecarHolds, CorePart, SidecarPart
<1>9. PhaseInv'
  BY <1>1, <1>7, NextStepIs DEF PhaseInv
<1>10. FileTypes'
  BY <1>1 DEF FileInv, FileTypes, CorePart, SidecarPart
<1>11. meta'.revision >= core'.revision /\ meta'.revision >= sidecar'.revision
  BY <1>1, <1>2, <1>7
<1> QED
  BY <1>7, <1>8, <1>9, <1>10, <1>11 DEF FileInv, OwedInv

LEMMA CrashKeeps ==
  ASSUME FileInv, Crash
  PROVE  FileInv'
<1>1. NoMeta \in Metas
  BY DEF NoMeta, Metas
<1>2. phase' = "down" /\ step' = "none" /\ meta' = NoMeta /\ core' = core /\ sidecar' = sidecar
  BY DEF Crash, Stopped
<1> QED
  BY <1>1, <1>2 DEF FileInv, FileTypes, CorePart, SidecarPart, PhaseInv, OwedInv

LEMMA IdleKeeps ==
  ASSUME FileInv, UNCHANGED <<phase, step, lanes, meta, core, sidecar>>
  PROVE  FileInv'
BY DEF FileInv, FileTypes, CorePart, SidecarPart, PhaseInv, OwedInv, CoreHolds, SidecarHolds

LEMMA FileStep == FileInv /\ [HistoryNext]_hvars => FileInv'
<1> SUFFICES ASSUME FileInv, [HistoryNext]_hvars PROVE FileInv'
  OBVIOUS
<1>1. CASE \E a \in Accounts, w \in Reports(now), rebaseline \in BOOLEAN :
             ApplySnapshot(a, w, rebaseline)
  BY <1>1, ApplyKeeps
<1>2. CASE Persist
  BY <1>2, SidecarWriteKeeps, CoreWriteKeeps DEF Persist
<1>3. CASE Tick \/ UNCHANGED hvars
  BY <1>3, IdleKeeps DEF Tick, hvars
<1> QED
  BY <1>1, <1>2, <1>3, SnapshotKeeps, OpenKeeps, CrashKeeps DEF HistoryNext

LEMMA FileInvariant == HistorySpec => []FileInv
BY FileInit, FileStep, PTL DEF HistorySpec

(* Only persistDirtyLocked touches the files. *)
LEMMA FilesUntouched ==
  ASSUME [HistoryNext]_hvars, ~Persist
  PROVE  core' = core /\ sidecar' = sidecar
<1>1. CASE \E a \in Accounts, w \in Reports(now), rebaseline \in BOOLEAN :
             ApplySnapshot(a, w, rebaseline)
  BY <1>1 DEF ApplySnapshot, Commit
<1>2. CASE Snapshot
  BY <1>2 DEF Snapshot, Commit
<1>3. CASE Open
  BY <1>3 DEF Open
<1>4. CASE Crash \/ Tick \/ UNCHANGED hvars
  BY <1>4 DEF Crash, Tick, hvars
<1> QED
  BY <1>1, <1>2, <1>3, <1>4 DEF HistoryNext

-----------------------------------------------------------------------------
(* Theorems *)

(* A tracker that does not report itself degraded shows what a restart      *)
(* would load, and a degraded one has something left to write.              *)
THEOREM NothingLostUnlessDegraded == HistorySpec => []DurableUnlessDegraded
<1>1. FileInv => DurableUnlessDegraded
  BY DEF FileInv, PhaseInv, OwedInv, CoreHolds, SidecarHolds, DurableUnlessDegraded, Ready
<1> QED
  BY <1>1, FileInvariant, PTL

(* No history file is written before the adjustments file holds every       *)
(* adjustment that memory holds.                                            *)
THEOREM AdjustmentsFirst == HistorySpec => SidecarLeads
<1>1. ASSUME FileInv, [HistoryNext]_hvars, core' # core
      PROVE  \A a \in Accounts : sidecar'.lanes[a] = SidecarPart(lanes[a])
  <2>1. PICK o : WriteCore(o)
    BY <1>1, FilesUntouched DEF Persist, WriteSidecar
  <2> QED
    BY <1>1, <2>1 DEF WriteCore, FileInv, PhaseInv, OwedInv, SidecarHolds
<1>2. FileInv /\ [HistoryNext]_hvars =>
        [core' # core => \A a \in Accounts : sidecar'.lanes[a] = SidecarPart(lanes[a])]_hvars
  BY <1>1
<1> QED
  BY <1>2, FileInvariant, PTL DEF HistorySpec, SidecarLeads

(* Neither file is replaced by an older one, and no response is older than  *)
(* a file, across failed writes and restarts.                               *)
THEOREM RevisionsNeverBack == HistorySpec => RevisionsForward
<1>1. ASSUME FileInv, FileInv', [HistoryNext]_hvars
      PROVE  /\ core'.revision >= core.revision
             /\ sidecar'.revision >= sidecar.revision
  <2>1. /\ meta.revision \in Nat /\ core.revision \in Nat /\ sidecar.revision \in Nat
    BY <1>1 DEF FileInv, Metas, FileTypes
  <2>2. CASE core' = core /\ sidecar' = sidecar
    BY <2>1, <2>2
  <2>3. ASSUME NEW o, WriteSidecar(o) \/ WriteCore(o)
        PROVE  /\ core'.revision \in {core.revision, meta.revision}
               /\ sidecar'.revision \in {sidecar.revision, meta.revision}
               /\ phase # "down"
    BY <1>1, <2>3 DEF WriteSidecar, WriteCore, FileInv, PhaseInv
  <2>4. CASE Persist
    BY <1>1, <2>1, <2>3, <2>4 DEF Persist, FileInv, OwedInv
  <2> QED
    BY <1>1, <2>2, <2>4, FilesUntouched
<1>2. ASSUME FileInv, FileInv', [HistoryNext]_hvars, phase' = "serving"
      PROVE  meta'.revision >= core.revision /\ meta'.revision >= sidecar.revision
  <2>1. /\ meta'.revision >= core'.revision /\ meta'.revision >= sidecar'.revision
        /\ meta'.revision \in Nat /\ core.revision \in Nat /\ sidecar.revision \in Nat
        /\ core'.revision \in Nat /\ sidecar'.revision \in Nat
    BY <1>2 DEF FileInv, OwedInv, Metas, FileTypes
  <2> QED
    BY <1>1, <1>2, <2>1
<1>3. FileInv /\ FileInv' /\ [HistoryNext]_hvars =>
        [/\ core'.revision >= core.revision
         /\ sidecar'.revision >= sidecar.revision
         /\ phase' = "serving" =>
              meta'.revision >= core.revision /\ meta'.revision >= sidecar.revision]_hvars
  BY <1>1, <1>2
<1> QED
  BY <1>3, FileInvariant, PTL DEF HistorySpec, RevisionsForward

-----------------------------------------------------------------------------
(* The number of lanes *)

(* A lane has the fields of one, whatever they hold. *)
Lane(l) ==
  l = [tracked |-> l.tracked, active |-> l.active, events |-> l.events,
       adjustments |-> l.adjustments, candidate |-> l.candidate]

(* The operations on a lane neither track nor forget it. *)
Keeps(l, m) == Lane(m) /\ m.tracked = l.tracked

LEMMA FieldKeeps ==
  ASSUME NEW l, Lane(l), NEW x
  PROVE  /\ Keeps(l, [l EXCEPT !.active = x])
         /\ Keeps(l, [l EXCEPT !.events = x])
         /\ Keeps(l, [l EXCEPT !.adjustments = x])
         /\ Keeps(l, [l EXCEPT !.candidate = x])
         /\ Keeps(l, [l EXCEPT !.active.used = x])
         /\ Keeps(l, [l EXCEPT !.candidate.lastSeen = x])
BY DEF Lane, Keeps

LEMMA FieldsKeep ==
  ASSUME NEW l, Lane(l), NEW w, NEW x, NEW y, NEW z
  PROVE  /\ Keeps(l, [l EXCEPT !.active = x, !.candidate = y])
         /\ Keeps(l, [l EXCEPT !.candidate = x, !.adjustments = y])
         /\ Keeps(l, [l EXCEPT !.candidate = x, !.active.used = y, !.adjustments = z])
         /\ Keeps(l, [l EXCEPT !.active = w, !.events = x, !.adjustments = y, !.candidate = z])
<1>1. ASSUME NEW k, Keeps(l, k)
      PROVE  /\ Keeps(l, [k EXCEPT !.active = x]) /\ Keeps(l, [k EXCEPT !.active = w])
             /\ Keeps(l, [k EXCEPT !.events = x])
             /\ Keeps(l, [k EXCEPT !.adjustments = y]) /\ Keeps(l, [k EXCEPT !.adjustments = z])
             /\ Keeps(l, [k EXCEPT !.candidate = x]) /\ Keeps(l, [k EXCEPT !.candidate = y])
             /\ Keeps(l, [k EXCEPT !.candidate = z]) /\ Keeps(l, [k EXCEPT !.active.used = y])
  BY <1>1, FieldKeeps DEF Keeps
<1>2. Keeps(l, l)
  BY DEF Keeps
<1>3. Keeps(l, [l EXCEPT !.active = x, !.candidate = y])
  <2>1. Keeps(l, [[l EXCEPT !.active = x] EXCEPT !.candidate = y])
    BY <1>1, <1>2
  <2> QED
    BY <2>1
<1>4. Keeps(l, [l EXCEPT !.candidate = x, !.adjustments = y])
  <2>1. Keeps(l, [[l EXCEPT !.candidate = x] EXCEPT !.adjustments = y])
    BY <1>1, <1>2
  <2> QED
    BY <2>1
<1>5. Keeps(l, [l EXCEPT !.candidate = x, !.active.used = y, !.adjustments = z])
  <2> PICK k : k = [l EXCEPT !.candidate = x]
    OBVIOUS
  <2> PICK m : m = [k EXCEPT !.active.used = y]
    OBVIOUS
  <2>1. Keeps(l, [m EXCEPT !.adjustments = z])
    BY <1>1, <1>2
  <2> QED
    BY <2>1
<1>6. Keeps(l, [l EXCEPT !.active = w, !.events = x, !.adjustments = y, !.candidate = z])
  <2> PICK k : k = [l EXCEPT !.active = w]
    OBVIOUS
  <2> PICK m : m = [k EXCEPT !.events = x]
    OBVIOUS
  <2> PICK n : n = [m EXCEPT !.adjustments = y]
    OBVIOUS
  <2>1. Keeps(l, [n EXCEPT !.candidate = z])
    BY <1>1, <1>2
  <2> QED
    BY <2>1
<1> QED
  BY <1>3, <1>4, <1>5, <1>6

LEMMA AnchorKeeps ==
  ASSUME NEW l, Lane(l), NEW t, NEW w
  PROVE  Keeps(l, Anchor(l, t, w))
BY FieldKeeps, FieldsKeep DEF Anchor

LEMMA ObserveKeeps ==
  ASSUME NEW l, Lane(l), NEW t, NEW w
  PROVE  Keeps(l, ObserveWindow(l, t, w))
<1>1. ASSUME NEW x, NEW y
      PROVE  /\ Keeps(l, [l EXCEPT !.candidate = NoCandidate, !.active.used = x,
                                   !.adjustments = y])
             /\ Keeps(l, [l EXCEPT !.active = NoWindow])
  BY FieldKeeps, FieldsKeep
<1> DEFINE u == [l EXCEPT !.active = NoWindow]
<1>2. ASSUME NEW x
      PROVE  /\ Keeps(l, [u EXCEPT !.candidate = NoCandidate, !.adjustments = x])
             /\ Keeps(l, [u EXCEPT !.events = x])
  <2>1. Lane(u) /\ u.tracked = l.tracked
    BY <1>1 DEF Keeps
  <2> HIDE DEF u
  <2>2. Keeps(u, [u EXCEPT !.candidate = NoCandidate, !.adjustments = x])
    BY <2>1, FieldsKeep
  <2>3. Keeps(u, [u EXCEPT !.events = x])
    BY <2>1, FieldKeeps
  <2>4. ASSUME NEW m, Keeps(u, m) PROVE Keeps(l, m)
    BY <2>1, <2>4 DEF Keeps
  <2> QED
    BY <2>2, <2>3, <2>4
<1>3. ASSUME NEW m, Keeps(l, m) PROVE Keeps(l, Anchor(m, t, w))
  BY <1>3, AnchorKeeps DEF Keeps
<1>4. CASE ~l.tracked \/ ~Believable(w.resetsAt, t)
  BY <1>4 DEF ObserveWindow, Keeps
<1>5. CASE ~(~l.tracked \/ ~Believable(w.resetsAt, t)) /\ l.active = NoWindow
  BY <1>5, AnchorKeeps DEF ObserveWindow
<1>6. CASE /\ ~(~l.tracked \/ ~Believable(w.resetsAt, t)) /\ l.active # NoWindow
           /\ Equivalent(l.active.resetsAt, w.resetsAt)
  <2>1. PICK y : ObserveWindow(l, t, w) =
          [l EXCEPT !.candidate = NoCandidate, !.active.used = w.used, !.adjustments = y]
    BY <1>6 DEF ObserveWindow
  <2>2. Keeps(l, [l EXCEPT !.candidate = NoCandidate, !.active.used = w.used,
                           !.adjustments = y])
    BY <1>1
  <2> QED
    BY <2>1, <2>2, Zenon
<1>7. CASE /\ ~(~l.tracked \/ ~Believable(w.resetsAt, t)) /\ l.active # NoWindow
           /\ ~Equivalent(l.active.resetsAt, w.resetsAt) /\ Early(l.active.resetsAt, t)
  <2>1. \E y : ObserveWindow(l, t, w) =
          Anchor([u EXCEPT !.candidate = NoCandidate, !.adjustments = y], t, w)
    BY <1>7 DEF ObserveWindow
  <2> QED
    BY <1>2, <1>3, <2>1
<1>8. CASE /\ ~(~l.tracked \/ ~Believable(w.resetsAt, t)) /\ l.active # NoWindow
           /\ ~Equivalent(l.active.resetsAt, w.resetsAt) /\ ~Early(l.active.resetsAt, t)
  <2>1. \E y : ObserveWindow(l, t, w) = Anchor([u EXCEPT !.events = y], t, w)
    BY <1>8 DEF ObserveWindow
  <2> QED
    BY <1>2, <1>3, <2>1
<1> QED
  BY <1>4, <1>5, <1>6, <1>7, <1>8

LEMMA RebaselineKeeps ==
  ASSUME NEW l, Lane(l), NEW t, NEW w
  PROVE  Keeps(l, RebaselineWindow(l, t, w))
<1> DEFINE c == [l EXCEPT !.candidate = NoCandidate]
<1>1. Keeps(l, c)
  BY FieldKeeps
<1>2. ASSUME NEW x
      PROVE  /\ Keeps(l, [c EXCEPT !.active.used = x])
             /\ Keeps(l, [c EXCEPT !.active = x])
  <2> HIDE DEF c
  <2> QED
    BY <1>1, FieldKeeps DEF Keeps
<1>3. ASSUME NEW m, Keeps(l, m) PROVE Keeps(l, Anchor(m, t, w))
  BY <1>3, AnchorKeeps DEF Keeps
<1>4. \/ RebaselineWindow(l, t, w) = l
      \/ RebaselineWindow(l, t, w) = [c EXCEPT !.active.used = w.used]
      \/ RebaselineWindow(l, t, w) = ObserveWindow(l, t, w)
      \/ RebaselineWindow(l, t, w) = Anchor([c EXCEPT !.active = NoWindow], t, w)
  BY DEF RebaselineWindow
<1>5. Keeps(l, [c EXCEPT !.active.used = w.used])
  BY <1>2
<1>6. Keeps(l, Anchor([c EXCEPT !.active = NoWindow], t, w))
  BY <1>2, <1>3
<1>7. Keeps(l, l)
  BY DEF Keeps
<1> HIDE DEF c
<1> QED
  BY <1>4, <1>5, <1>6, <1>7, ObserveKeeps

LEMMA PruneKeeps ==
  ASSUME NEW l, Lane(l), NEW t
  PROVE  Lane(PruneLane(l, t)) /\ (PruneLane(l, t).tracked => l.tracked)
<1>1. PICK w, x, y, z :
        \/ PruneLane(l, t) = EmptyLane
        \/ PruneLane(l, t) =
             [l EXCEPT !.active = w, !.events = x, !.adjustments = y, !.candidate = z]
  BY DEF PruneLane
<1>2. Keeps(l, [l EXCEPT !.active = w, !.events = x, !.adjustments = y, !.candidate = z])
  BY FieldsKeep
<1>3. Lane(EmptyLane) /\ EmptyLane.tracked = FALSE
  BY DEF Lane, EmptyLane
<1> QED
  BY <1>1, <1>2, <1>3 DEF Keeps

Lanes(ls) == ls = [a \in Accounts |-> ls[a]] /\ \A a \in Accounts : Lane(ls[a])

(* As many lanes are tracked as a file may hold. *)
Fits(ls) == Cardinality(Tracked(ls)) <= MaxAccounts

LEMMA TrackedFinite ==
  ASSUME NEW ls
  PROVE  IsFiniteSet(Tracked(ls)) /\ Cardinality(Tracked(ls)) \in Nat
<1>1. Tracked(ls) \subseteq Accounts
  BY DEF Tracked
<1> QED
  BY <1>1, FS_Subset, FS_CardinalityType, BoundsAssumption

LEMMA FewerFit ==
  ASSUME NEW ls, NEW ms, Fits(ls), Tracked(ms) \subseteq Tracked(ls)
  PROVE  Fits(ms)
<1>1. Cardinality(Tracked(ms)) <= Cardinality(Tracked(ls))
  BY TrackedFinite, FS_Subset
<1>2. Cardinality(Tracked(ms)) \in Nat /\ Cardinality(Tracked(ls)) \in Nat /\ MaxAccounts \in Nat
  BY TrackedFinite, BoundsAssumption
<1> QED
  BY <1>1, <1>2 DEF Fits

LEMMA PruneFits ==
  ASSUME NEW ls, Lanes(ls), NEW t
  PROVE  Lanes(Prune(ls, t)) /\ (Fits(ls) => Fits(Prune(ls, t)))
<1> DEFINE ms == Prune(ls, t)
<1>1. /\ ms = [a \in Accounts |-> ms[a]]
      /\ \A a \in Accounts : Lane(ms[a]) /\ (ms[a].tracked => ls[a].tracked)
  BY PruneKeeps DEF Prune, Lanes
<1> HIDE DEF ms
<1>2. Tracked(ms) \subseteq Tracked(ls)
  BY <1>1 DEF Tracked
<1> QED
  BY <1>1, <1>2, FewerFit DEF Lanes, ms

(* A lane is admitted only while one more fits. *)
LEMMA EnsureFits ==
  ASSUME NEW ls, Lanes(ls), Fits(ls), NEW a \in Accounts
  PROVE  Lanes(Ensure(ls, a)) /\ Fits(Ensure(ls, a))
<1>1. CASE ~(Cardinality(Tracked(ls)) < MaxAccounts)
  BY <1>1 DEF Ensure
<1>2. CASE Cardinality(Tracked(ls)) < MaxAccounts
  <2> DEFINE m == [ls[a] EXCEPT !.tracked = TRUE]
             ms == [ls EXCEPT ![a] = m]
  <2>1. Ensure(ls, a) = ms
    BY <1>2 DEF Ensure
  <2>2. Lane(m)
    <3>1. ASSUME NEW l, Lane(l), NEW x PROVE Lane([l EXCEPT !.tracked = x])
      BY <3>1 DEF Lane
    <3> QED
      BY <3>1 DEF Lanes
  <2> HIDE DEF m
  <2>3. Lanes(ms) /\ \A b \in Accounts : ms[b] = IF b = a THEN m ELSE ls[b]
    BY <2>2 DEF Lanes
  <2> HIDE DEF ms
  <2>4. Tracked(ms) \subseteq Tracked(ls) \cup {a}
    BY <2>3 DEF Tracked
  <2>5. /\ IsFiniteSet(Tracked(ls) \cup {a})
        /\ Cardinality(Tracked(ls) \cup {a}) <= Cardinality(Tracked(ls)) + 1
        /\ Cardinality(Tracked(ls) \cup {a}) \in Nat
    <3> PICK T : T = Tracked(ls)
      OBVIOUS
    <3>1. IsFiniteSet(T) /\ Cardinality(T) \in Nat
      BY TrackedFinite
    <3>2. /\ IsFiniteSet(T \cup {a})
          /\ Cardinality(T \cup {a}) = IF a \in T THEN Cardinality(T) ELSE Cardinality(T) + 1
      BY <3>1, FS_AddElement
    <3>3. Cardinality(T \cup {a}) <= Cardinality(T) + 1 /\ Cardinality(T \cup {a}) \in Nat
      BY <3>1, <3>2
    <3> QED
      BY <3>2, <3>3
  <2>6. Cardinality(Tracked(ms)) <= Cardinality(Tracked(ls) \cup {a})
    BY <2>4, <2>5, FS_Subset
  <2>7. /\ Cardinality(Tracked(ms)) \in Nat /\ Cardinality(Tracked(ls)) \in Nat
        /\ MaxAccounts \in Nat
    BY TrackedFinite, BoundsAssumption
  <2>8. Fits(ms)
    BY <1>2, <2>5, <2>6, <2>7 DEF Fits
  <2> QED
    BY <2>1, <2>3, <2>8
<1> QED
  BY <1>1, <1>2

(* Memory fits while it is served; the files always do. *)
LimitInv ==
  /\ Lanes(lanes)
  /\ Fits(core.lanes) /\ Fits(sidecar.lanes)
  /\ phase = "serving" => Fits(lanes)

LEMMA EmptyFits == Lanes([a \in Accounts |-> EmptyLane]) /\ Fits([a \in Accounts |-> EmptyLane])
<1> DEFINE ls == [a \in Accounts |-> EmptyLane]
<1>1. Lanes(ls)
  BY DEF Lanes, Lane, EmptyLane
<1>2. Tracked(ls) = {}
  BY DEF Tracked, EmptyLane
<1>3. Fits(ls)
  <2> HIDE DEF ls
  <2> QED
    BY <1>2, FS_EmptySet, BoundsAssumption DEF Fits
<1> QED
  BY <1>1, <1>3

LEMMA SameTracked ==
  ASSUME NEW ls, NEW ms,
         \/ \A a \in Accounts : ls[a] = CorePart(ms[a])
         \/ \A a \in Accounts : ls[a] = SidecarPart(ms[a])
  PROVE  Tracked(ls) = Tracked(ms)
<1>1. ASSUME NEW l PROVE CorePart(l).tracked = l.tracked /\ SidecarPart(l).tracked = l.tracked
  BY DEF CorePart, SidecarPart
<1>2. \A a \in Accounts : ls[a].tracked = ms[a].tracked
  BY <1>1
<1> QED
  BY <1>2, Zenon DEF Tracked

LEMMA LimitInit == Init => LimitInv
<1> SUFFICES ASSUME Init PROVE LimitInv
  OBVIOUS
<1>1. lanes = [a \in Accounts |-> EmptyLane] /\ phase = "down"
  BY DEF Init
<1>2. /\ \A a \in Accounts : core.lanes[a] = CorePart(lanes[a])
      /\ \A a \in Accounts : sidecar.lanes[a] = SidecarPart(lanes[a])
  BY DEF Init
<1>3. Tracked(core.lanes) = Tracked(lanes) /\ Tracked(sidecar.lanes) = Tracked(lanes)
  BY <1>2, SameTracked
<1> QED
  BY <1>1, <1>3, EmptyFits DEF LimitInv, Fits

LEMMA ApplyFits ==
  ASSUME LimitInv, NEW a \in Accounts, NEW w, NEW rebaseline, ApplySnapshot(a, w, rebaseline)
  PROVE  Lanes(lanes') /\ Fits(lanes')
<1> DEFINE ensured == Ensure(Prune(lanes, now), a)
           l == IF rebaseline THEN RebaselineWindow(ensured[a], now, w)
                              ELSE ObserveWindow(ensured[a], now, w)
           seen == [ensured EXCEPT ![a] = l]
<1>1. phase = "serving" /\ lanes' = seen
  BY DEF ApplySnapshot, Ready, Commit
<1>2. Lanes(ensured) /\ Fits(ensured)
  <2>1. Lanes(Prune(lanes, now)) /\ Fits(Prune(lanes, now))
    BY <1>1, PruneFits DEF LimitInv
  <2> QED
    BY <2>1, EnsureFits
<1> HIDE DEF ensured
<1>3. Keeps(ensured[a], l)
  BY <1>2, ObserveKeeps, RebaselineKeeps DEF Lanes
<1> HIDE DEF l
<1>4. Lanes(seen) /\ \A b \in Accounts : seen[b] = IF b = a THEN l ELSE ensured[b]
  BY <1>2, <1>3 DEF Lanes, Keeps
<1> HIDE DEF seen
<1>5. Tracked(seen) \subseteq Tracked(ensured)
  BY <1>3, <1>4 DEF Tracked, Keeps
<1> QED
  BY <1>1, <1>2, <1>4, <1>5, FewerFit

(* Open serves at once only what needs no write. *)
LEMMA OpenDirty ==
  ASSUME FileInv, Open, phase' = "serving"
  PROVE  meta'.dirty = FALSE
<1>1. \E c, d \in BOOLEAN :
        /\ meta' = [revision |-> meta'.revision, coreRevision |-> core.revision,
                    dirty |-> c, adjustmentsDirty |-> d, degraded |-> FALSE]
        /\ phase' = IF c \/ d THEN "opening" ELSE "serving"
  BY ZenonT(30) DEF Open
<1> QED
  BY <1>1

LEMMA OpenFits ==
  ASSUME FileInv, FileInv', LimitInv, Open
  PROVE  LimitInv'
<1> DEFINE loaded == [a \in Accounts |-> Loaded(a)]
           clean == [a \in Accounts |-> [loaded[a] EXCEPT !.adjustments = Sanitized(@)]]
           recovered == [a \in Accounts |-> Reconciled(clean[a])]
<1>1. lanes' = Prune(recovered, now) /\ UNCHANGED <<core, sidecar>>
  BY DEF Open
<1>2. \A a \in Accounts : Lane(loaded[a])
  BY DEF Loaded, Lane
<1> HIDE DEF loaded
<1>3. \A a \in Accounts : Lane(clean[a])
  BY <1>2, FieldKeeps DEF Keeps
<1> HIDE DEF clean
<1>4. \A a \in Accounts : Lane(recovered[a])
  <2>1. ASSUME NEW l, Lane(l) PROVE Lane(Reconciled(l))
    BY <2>1, FieldKeeps DEF Reconciled, Keeps
  <2> QED
    BY <1>3, <2>1
<1>5. Lanes(lanes')
  <2>1. Lanes(recovered)
    BY <1>4 DEF Lanes
  <2> HIDE DEF recovered
  <2> QED
    BY <1>1, <2>1, PruneFits
<1>6. ASSUME phase' = "serving" PROVE Fits(lanes')
  <2>1. meta'.dirty = FALSE
    BY <1>6, OpenDirty
  <2>2. \A a \in Accounts : core.lanes[a] = CorePart(lanes'[a])
    BY <1>1, <1>6, <2>1 DEF FileInv, OwedInv, CoreHolds, CorePart
  <2>3. Tracked(core.lanes) = Tracked(lanes')
    BY <2>2, SameTracked
  <2> QED
    BY <2>3, FewerFit DEF LimitInv
<1> QED
  BY <1>1, <1>5, <1>6 DEF LimitInv, Lanes, Lane, Fits, Tracked

(* A file is replaced only by what fits. *)
LEMMA WriteFits ==
  ASSUME FileInv, LimitInv, NEW outcome, WriteSidecar(outcome) \/ WriteCore(outcome)
  PROVE  LimitInv'
<1>1. /\ Attempt(outcome)
      /\ lanes' = lanes \/ lanes' = [a \in Accounts |-> EmptyLane]
  BY DEF WriteSidecar, WriteCore, WriteFails, WriteOk, Stopped
<1>2. outcome # "refused" => Fits(lanes)
  BY <1>1, TrackedFinite, BoundsAssumption DEF Attempt, Fits
<1>3. Fits(core'.lanes)
  <2>1. CASE core' = core
    BY <2>1 DEF LimitInv
  <2>2. CASE core' # core
    <3>1. /\ core' = [revision |-> meta.revision,
                      lanes |-> [a \in Accounts |-> CorePart(lanes[a])]]
          /\ outcome # "refused"
      BY <2>2 DEF WriteSidecar, WriteCore, Replaces
    <3>2. \A a \in Accounts : core'.lanes[a] = CorePart(lanes[a])
      BY <3>1
    <3>3. Tracked(core'.lanes) = Tracked(lanes)
      BY <3>2, SameTracked
    <3> QED
      BY <1>2, <3>1, <3>3 DEF Fits
  <2> QED
    BY <2>1, <2>2
<1>4. Fits(sidecar'.lanes)
  <2>1. CASE sidecar' = sidecar
    BY <2>1 DEF LimitInv
  <2>2. CASE sidecar' # sidecar
    <3>1. /\ sidecar' = [revision |-> meta.revision,
                         lanes |-> [a \in Accounts |-> SidecarPart(lanes[a])]]
          /\ outcome # "refused"
      BY <2>2 DEF WriteSidecar, WriteCore, Replaces
    <3>2. \A a \in Accounts : sidecar'.lanes[a] = SidecarPart(lanes[a])
      BY <3>1
    <3>3. Tracked(sidecar'.lanes) = Tracked(lanes)
      BY <3>2, SameTracked
    <3> QED
      BY <1>2, <3>1, <3>3 DEF Fits
  <2> QED
    BY <2>1, <2>2
<1>5. Lanes(lanes')
  BY <1>1, EmptyFits DEF LimitInv
<1>6. phase' = "serving" => Fits(lanes')
  <2>1. phase = "serving" => Fits(lanes)
    BY DEF LimitInv
  <2>2. phase' = "serving" /\ phase # "serving" => outcome = "ok" /\ lanes' = lanes
    BY DEF WriteSidecar, WriteCore, WriteFails, WriteOk, Stopped
  <2> QED
    BY <1>1, <1>2, <2>1, <2>2, EmptyFits
<1> QED
  BY <1>3, <1>4, <1>5, <1>6 DEF LimitInv, Lanes, Lane, Fits, Tracked

LEMMA LimitStep == FileInv /\ FileInv' /\ LimitInv /\ [HistoryNext]_hvars => LimitInv'
<1> SUFFICES ASSUME FileInv, FileInv', LimitInv, [HistoryNext]_hvars PROVE LimitInv'
  OBVIOUS
<1>1. CASE \E a \in Accounts, w \in Reports(now), rebaseline \in BOOLEAN :
             ApplySnapshot(a, w, rebaseline)
  <2>1. Lanes(lanes') /\ Fits(lanes')
    BY <1>1, ApplyFits
  <2>2. UNCHANGED <<core, sidecar>>
    BY <1>1 DEF ApplySnapshot, Commit
  <2> QED
    BY <2>1, <2>2 DEF LimitInv, Lanes, Lane, Fits, Tracked
<1>2. CASE Snapshot
  <2>1. phase' = phase /\ lanes' = Prune(lanes, now) /\ UNCHANGED <<core, sidecar>>
    BY <1>2 DEF Snapshot, Commit
  <2>2. Lanes(lanes') /\ (phase' = "serving" => Fits(lanes'))
    BY <2>1, PruneFits DEF LimitInv
  <2> QED
    BY <2>1, <2>2 DEF LimitInv, Lanes, Lane, Fits, Tracked
<1>3. CASE Persist
  BY <1>3, WriteFits DEF Persist
<1>4. CASE Crash
  <2>1. phase' = "down" /\ lanes' = [a \in Accounts |-> EmptyLane] /\ UNCHANGED <<core, sidecar>>
    BY <1>4 DEF Crash, Stopped
  <2>2. Lanes(lanes')
    BY <2>1, EmptyFits
  <2> QED
    BY <2>1, <2>2 DEF LimitInv, Lanes, Lane, Fits, Tracked
<1>5. CASE Tick \/ UNCHANGED hvars
  BY <1>5 DEF Tick, hvars, LimitInv, Lanes, Lane, Fits, Tracked
<1> QED
  BY <1>1, <1>2, <1>3, <1>4, <1>5, OpenFits DEF HistoryNext

-----------------------------------------------------------------------------
(* What is left of a sequence *)

(* The elements Only has kept after each place.                             *)
LEMMA OnlySteps ==
  ASSUME NEW D, NEW s \in Seq(D), NEW S
  PROVE  \E r : /\ r[0] = <<>>
                /\ \A k \in 0..(Len(s) - 1) :
                     r[k + 1] = IF s[k + 1] \in S THEN Append(r[k], s[k + 1]) ELSE r[k]
                /\ Only(S, s) = r[Len(s)]
<1> DEFINE n == Len(s)
           take == [p \in Seq(D) \X (1..n) |->
                      IF s[p[2]] \in S THEN Append(p[1], s[p[2]]) ELSE p[1]]
<1>1. n \in Nat /\ DOMAIN s = 1..n /\ take \in [Seq(D) \X (1..n) -> Seq(D)] /\ <<>> \in Seq(D)
  OBVIOUS
<1> HIDE DEF n, take
<1>2. PICK f : IsFold(f, n, Seq(D), <<>>, take)
  BY <1>1, FoldExists, Zenon
<1> DEFINE Folds(g) ==
             g = [T \in SUBSET DOMAIN s |->
                    IF T = {} THEN <<>>
                    ELSE LET x == CHOOSE x \in T : \A y \in T : x >= y
                         IN  IF s[x] \in S THEN Append(g[T \ {x}], s[x]) ELSE g[T \ {x}]]
           iter == CHOOSE g : Folds(g)
<1>3. Folds(f)
  <2>1. ASSUME NEW T \in SUBSET (1..n), T # {}
        PROVE  take[<<f[T \ {LastIn(T)}], LastIn(T)>>] =
                 IF s[LastIn(T)] \in S THEN Append(f[T \ {LastIn(T)}], s[LastIn(T)])
                 ELSE f[T \ {LastIn(T)}]
    <3>1. LastIn(T) \in 1..n
      BY <1>1, <2>1, LastOf
    <3>2. f[T \ {LastIn(T)}] \in Seq(D)
      BY <1>2, <3>1 DEF IsFold
    <3> QED
      BY <3>1, <3>2 DEF take
  <2>2. f = [T \in SUBSET (1..n) |-> f[T]]
    BY <1>2 DEF IsFold
  <2> QED
    BY <1>1, <1>2, <2>1, <2>2 DEF LastIn, IsFold
<1>4. Folds(iter)
  BY <1>3
<1>5. Only(S, s) = iter[DOMAIN s]
  BY DEF Only, FoldLeft, MapThenFoldSet, Max
<1> HIDE DEF iter
<1>6. iter[1..0] = <<>>
  BY <1>1, <1>4
<1>7. ASSUME NEW k \in 0..(n - 1)
      PROVE  iter[1..(k + 1)] =
               IF s[k + 1] \in S THEN Append(iter[1..k], s[k + 1]) ELSE iter[1..k]
  <2>1. \A T \in SUBSET (1..n) : T # {} =>
          iter[T] = LET x == CHOOSE x \in T : \A y \in T : x >= y
                    IN  IF s[x] \in S THEN Append(iter[T \ {x}], s[x]) ELSE iter[T \ {x}]
    BY <1>1, <1>4
  <2>2. /\ 1..(k + 1) \in SUBSET (1..n) /\ 1..(k + 1) # {}
        /\ (CHOOSE x \in 1..(k + 1) : \A y \in 1..(k + 1) : x >= y) = k + 1
        /\ (1..(k + 1)) \ {k + 1} = 1..k
    BY <1>1, FirstPlaces
  <2> QED
    BY <2>1, <2>2
<1> DEFINE r == [k \in 0..n |-> iter[1..k]]
<1>8. r[0] = <<>> /\ r[n] = iter[DOMAIN s]
      /\ \A k \in 0..(n - 1) : r[k] = iter[1..k] /\ r[k + 1] = iter[1..(k + 1)]
  BY <1>1, <1>6
<1> HIDE DEF r
<1> QED
  BY <1>5, <1>7, <1>8 DEF n

(* What Only keeps are elements of the sequence, in its order: the last is  *)
(* kept as the last, or all that are kept come before it.                   *)
LEMMA OnlyOf ==
  ASSUME NEW D, NEW s \in Seq(D), NEW S
  PROVE  Only(S, s) \in Seq(D \cap S)
<1> PICK n \in Nat : n = Len(s)
  OBVIOUS
<1>1. PICK r : /\ r[0] = <<>>
               /\ \A k \in 0..(n - 1) :
                    r[k + 1] = IF s[k + 1] \in S THEN Append(r[k], s[k + 1]) ELSE r[k]
               /\ Only(S, s) = r[n]
  BY OnlySteps
<1> DEFINE T == {k \in 0..n : r[k] \in Seq(D \cap S)}
<1>2. 0 \in T
  <2>1. <<>> \in Seq(D \cap S) /\ r[0] = <<>>
    BY <1>1
  <2>2. 0 \in 0..n
    OBVIOUS
  <2>3. r[0] \in Seq(D \cap S)
    BY <2>1, Zenon
  <2> QED
    BY <2>2, <2>3, Zenon
<1>3. ASSUME NEW k \in 0..(n - 1), k \in T PROVE k + 1 \in T
  <2>1. k + 1 \in 0..n /\ s[k + 1] \in D
    OBVIOUS
  <2> PICK q : q = r[k]
    OBVIOUS
  <2>2. q \in Seq(D \cap S)
    BY <1>3
  <2>3. r[k + 1] \in Seq(D \cap S)
    <3>1. CASE s[k + 1] \notin S
      <4>1. r[k + 1] = q
        BY <1>1, <3>1
      <4> QED
        BY <2>2, <4>1, Zenon
    <3>2. CASE s[k + 1] \in S
      <4>1. r[k + 1] = Append(q, s[k + 1])
        BY <1>1, <3>2
      <4>2. Append(q, s[k + 1]) \in Seq(D \cap S)
        BY <2>1, <2>2, <3>2
      <4> QED
        BY <4>1, <4>2, Zenon
    <3> QED
      BY <3>1, <3>2
  <2> QED
    BY <2>1, <2>3, Zenon
<1> HIDE DEF T
<1>4. \A k \in 0..n : k \in T
  BY <1>2, <1>3, UpTo
<1> QED
  BY <1>1, <1>4 DEF T

LEMMA OnlyFacts ==
  ASSUME NEW D, NEW s \in Seq(D), NEW S
  PROVE  /\ Only(S, s) \in Seq(D) /\ Len(Only(S, s)) <= Len(s)
         /\ \A i \in 1..Len(Only(S, s)) : \E j \in 1..Len(s) : Only(S, s)[i] = s[j]
         /\ (\A j \in 1..Len(s) : s[j] \in S) => Only(S, s) = s
         /\ Len(s) > 0 /\ s[Len(s)] \notin S =>
              /\ Len(Only(S, s)) <= Len(s) - 1
              /\ \A i \in 1..Len(Only(S, s)) : \E j \in 1..(Len(s) - 1) : Only(S, s)[i] = s[j]
         /\ Len(s) > 0 /\ s[Len(s)] \in S =>
              /\ Len(Only(S, s)) > 0 /\ Only(S, s)[Len(Only(S, s))] = s[Len(s)]
              /\ \A i \in 1..(Len(Only(S, s)) - 1) :
                   \E j \in 1..(Len(s) - 1) : Only(S, s)[i] = s[j]
<1> PICK n \in Nat : n = Len(s)
  OBVIOUS
<1>1. PICK r : /\ r[0] = <<>>
               /\ \A k \in 0..(n - 1) :
                    r[k + 1] = IF s[k + 1] \in S THEN Append(r[k], s[k + 1]) ELSE r[k]
               /\ Only(S, s) = r[n]
  BY OnlySteps
<1> DEFINE T == {k \in 0..n :
                   /\ r[k] \in Seq(D) /\ Len(r[k]) <= k
                   /\ \A i \in 1..Len(r[k]) : \E j \in 1..k : r[k][i] = s[j]
                   /\ (\A j \in 1..n : s[j] \in S) => r[k] = SubSeq(s, 1, k)}
<1>2. 0 \in T
  <2>1. SubSeq(s, 1, 0) = <<>> /\ <<>> \in Seq(D) /\ Len(<<>>) = 0
    OBVIOUS
  <2>2. /\ r[0] \in Seq(D) /\ Len(r[0]) <= 0 /\ r[0] = SubSeq(s, 1, 0)
        /\ \A i \in 1..Len(r[0]) : \E j \in 1..0 : r[0][i] = s[j]
    BY <1>1, <2>1
  <2>3. 0 \in 0..n
    OBVIOUS
  <2> QED
    BY <2>2, <2>3, Zenon
<1>3. ASSUME NEW k \in 0..(n - 1), k \in T PROVE k + 1 \in T
  <2>1. k \in Nat /\ k + 1 \in 1..n /\ s[k + 1] \in D
    OBVIOUS
  <2> PICK q : q = r[k]
    OBVIOUS
  <2>2. /\ q \in Seq(D) /\ Len(q) <= k
        /\ \A i \in 1..Len(q) : \E j \in 1..k : q[i] = s[j]
        /\ (\A j \in 1..n : s[j] \in S) => q = SubSeq(s, 1, k)
    BY <1>3
  <2>3. CASE s[k + 1] \notin S
    <3>1. r[k + 1] = q
      BY <1>1, <2>3
    <3> QED
      BY <2>1, <2>2, <2>3, <3>1
  <2>4. CASE s[k + 1] \in S
    <3>1. r[k + 1] = Append(q, s[k + 1])
      BY <1>1, <2>4
    <3>2. /\ r[k + 1] \in Seq(D) /\ Len(r[k + 1]) = Len(q) + 1
          /\ \A i \in 1..Len(q) : r[k + 1][i] = q[i]
          /\ r[k + 1][Len(q) + 1] = s[k + 1]
      BY <2>1, <2>2, <3>1
    <3>3. \A i \in 1..Len(r[k + 1]) : \E j \in 1..(k + 1) : r[k + 1][i] = s[j]
      <4>1. ASSUME NEW i \in 1..Len(q) PROVE \E j \in 1..(k + 1) : r[k + 1][i] = s[j]
        <5>1. PICK j \in 1..k : q[i] = s[j]
          BY <2>2
        <5> QED
          BY <2>1, <3>2, <5>1
      <4>2. \E j \in 1..(k + 1) : r[k + 1][Len(q) + 1] = s[j]
        BY <2>1, <3>2
      <4>3. \A i \in 1..Len(r[k + 1]) : i \in 1..Len(q) \/ i = Len(q) + 1
        BY <2>2, <3>2
      <4> QED
        BY <4>1, <4>2, <4>3
    <3>4. ASSUME \A j \in 1..n : s[j] \in S PROVE r[k + 1] = SubSeq(s, 1, k + 1)
      <4>1. Append(SubSeq(s, 1, k), s[k + 1]) = SubSeq(s, 1, k + 1)
        BY <2>1
      <4> QED
        BY <2>2, <3>1, <3>4, <4>1
    <3>5. Len(r[k + 1]) <= k + 1
      BY <2>1, <2>2, <3>2
    <3> QED
      BY <2>1, <3>2, <3>3, <3>4, <3>5
  <2> QED
    BY <2>3, <2>4
<1> HIDE DEF T
<1>4. \A k \in 0..n : k \in T
  BY <1>2, <1>3, UpTo
<1>5. /\ Only(S, s) \in Seq(D) /\ Len(Only(S, s)) <= n
      /\ \A i \in 1..Len(Only(S, s)) : \E j \in 1..n : Only(S, s)[i] = s[j]
      /\ (\A j \in 1..n : s[j] \in S) => Only(S, s) = s
  <2>1. n \in T
    BY <1>4
  <2>2. SubSeq(s, 1, n) = s
    OBVIOUS
  <2>3. /\ r[n] \in Seq(D) /\ Len(r[n]) <= n
        /\ \A i \in 1..Len(r[n]) : \E j \in 1..n : r[n][i] = s[j]
        /\ (\A j \in 1..n : s[j] \in S) => r[n] = SubSeq(s, 1, n)
    BY <2>1 DEF T
  <2>4. Only(S, s) = r[n]
    BY <1>1
  <2> QED
    BY <2>2, <2>3, <2>4, Zenon
<1>6. ASSUME n > 0
      PROVE  \E q \in Seq(D) :
               /\ Len(q) <= n - 1 /\ \A i \in 1..Len(q) : \E j \in 1..(n - 1) : q[i] = s[j]
               /\ Only(S, s) = IF s[n] \in S THEN Append(q, s[n]) ELSE q
  <2>1. n - 1 \in 0..(n - 1) /\ n - 1 \in 0..n /\ (n - 1) + 1 = n
    BY <1>6
  <2>2. n - 1 \in T
    BY <1>4, <2>1
  <2>3. Only(S, s) = IF s[n] \in S THEN Append(r[n - 1], s[n]) ELSE r[n - 1]
    BY <1>1, <2>1
  <2> QED
    BY <2>2, <2>3 DEF T
<1>7. ASSUME n > 0, s[n] \notin S
      PROVE  /\ Len(Only(S, s)) <= n - 1
             /\ \A i \in 1..Len(Only(S, s)) : \E j \in 1..(n - 1) : Only(S, s)[i] = s[j]
  BY <1>6, <1>7
<1>8. ASSUME n > 0, s[n] \in S
      PROVE  /\ Len(Only(S, s)) > 0 /\ Only(S, s)[Len(Only(S, s))] = s[n]
             /\ \A i \in 1..(Len(Only(S, s)) - 1) : \E j \in 1..(n - 1) : Only(S, s)[i] = s[j]
  <2>1. PICK q \in Seq(D) :
          /\ Len(q) <= n - 1 /\ \A i \in 1..Len(q) : \E j \in 1..(n - 1) : q[i] = s[j]
          /\ Only(S, s) = Append(q, s[n])
    BY <1>6, <1>8
  <2>2. /\ Len(Append(q, s[n])) = Len(q) + 1 /\ Append(q, s[n])[Len(q) + 1] = s[n]
        /\ \A i \in 1..Len(q) : Append(q, s[n])[i] = q[i] /\ Len(q) \in Nat
    OBVIOUS
  <2> QED
    BY <2>1, <2>2
<1> QED
  BY <1>5, <1>7, <1>8

-----------------------------------------------------------------------------
(* The types of lanes and files.  U is the set the used percentages of the  *)
(* reports are from, and 0.                                                 *)

WindowOf(U) == [resetsAt : Nat, firstSeen : Nat, used : U]
EventOf(U) == [resetsAt : Nat, used : U, detectedAt : Nat]
AdjustmentOf(U) ==
  [rev : Nat \ {0}, detectedAt : Nat, before : WindowOf(U), after : WindowOf(U)]

(* Events differ in their reset timestamps: there are no more of them than  *)
(* have fewer than MaxEvents newer ones.                                    *)
EventsTyped(E, U) ==
  /\ E \subseteq EventOf(U)
  /\ IsFiniteSet(E) /\ Cardinality(E) <= MaxEvents
  /\ \A e, f \in E : e.resetsAt = f.resetsAt => e = f

(* An adjustment tells of a change between windows that were not over when  *)
(* it was detected.                                                         *)
Valid(d) ==
  /\ d.before.resetsAt > d.detectedAt /\ d.after.resetsAt > d.detectedAt
  /\ Moved(d) \/ Decreased(d)

AdjustmentsTyped(D, U) ==
  /\ D \in Seq(AdjustmentOf(U)) /\ Len(D) <= MaxAdjustments
  /\ \A i \in 1..Len(D) : Valid(D[i])

LaneTyped(l, U) ==
  /\ Lane(l)
  /\ l.active \in WindowOf(U)
  /\ EventsTyped(l.events, U)
  /\ AdjustmentsTyped(l.adjustments, U)
  /\ l.candidate \in Candidate

LEMMA EmptyTyped == ASSUME NEW U, 0 \in U PROVE LaneTyped(EmptyLane, U)
<1>1. /\ EmptyLane.active \in WindowOf(U) /\ EmptyLane.candidate \in Candidate
      /\ EmptyLane.events = {} /\ EmptyLane.adjustments = <<>> /\ Lane(EmptyLane)
  BY DEF EmptyLane, Lane, WindowOf, Candidate, NoWindow, NoCandidate
<1>2. EventsTyped({}, U)
  BY FS_EmptySet, BoundsAssumption DEF EventsTyped
<1>3. AdjustmentsTyped(<<>>, U)
  BY BoundsAssumption DEF AdjustmentsTyped
<1> QED
  BY <1>1, <1>2, <1>3 DEF LaneTyped

LEMMA FewerEvents ==
  ASSUME NEW E, NEW U, EventsTyped(E, U), NEW F \in SUBSET E
  PROVE  EventsTyped(F, U)
<1>1. IsFiniteSet(F) /\ Cardinality(F) <= Cardinality(E)
  BY FS_Subset DEF EventsTyped
<1>2. Cardinality(F) \in Nat /\ Cardinality(E) \in Nat /\ MaxEvents \in Nat
  BY <1>1, FS_CardinalityType, BoundsAssumption DEF EventsTyped
<1> QED
  BY <1>1, <1>2 DEF EventsTyped

(* The newest MaxEvents events are no more than that.                       *)
LEMMA NewestTyped ==
  ASSUME NEW E, NEW U, E \subseteq EventOf(U), IsFiniteSet(E),
         \A e, f \in E : e.resetsAt = f.resetsAt => e = f
  PROVE  EventsTyped(Newest(E), U)
<1> DEFINE R == {p \in E \X E : p[1].resetsAt > p[2].resetsAt}
           N == Newest(E)
           rank == [e \in N |-> Cardinality(Before(R, E, e))]
           T == 0..(MaxEvents - 1)
<1>1. \A e, f \in E : <<e, f>> \in R <=> e.resetsAt > f.resetsAt
  OBVIOUS
<1> HIDE DEF R
<1>2. \A e \in E : e.resetsAt \in Nat
  BY DEF EventOf
<1>3. Orders(R, E)
  BY <1>1, <1>2 DEF Orders
<1>4. \A e \in E : Before(R, E, e) = {f \in E : f.resetsAt > e.resetsAt}
  BY <1>1 DEF Before
<1>5. N \subseteq E /\ \A e \in N : Cardinality(Before(R, E, e)) < MaxEvents
  BY <1>4 DEF Newest
<1> HIDE DEF N
<1>6. \A e, f \in N : Cardinality(Before(R, E, e)) = Cardinality(Before(R, E, f)) => e = f
  BY <1>3, <1>5, RankTaken
<1>7. \A e \in N : Cardinality(Before(R, E, e)) \in T
  <2>1. ASSUME NEW e \in N PROVE Cardinality(Before(R, E, e)) \in Nat
    <3>1. e \in E
      BY <1>5
    <3>2. Cardinality(Before(R, E, e)) \in 0..(Cardinality(E) - 1)
      BY <1>3, <3>1, RankOrders
    <3> QED
      BY <3>2
  <2> QED
    BY <1>5, <2>1, BoundsAssumption
<1>8. rank \in Injection(N, T)
  BY <1>6, <1>7 DEF Injection, IsInjective
<1>9. IsFiniteSet(T) /\ Cardinality(T) = MaxEvents
  <2>1. MaxEvents \in Nat \ {0}
    BY BoundsAssumption
  <2>2. IsFiniteSet(T) /\ Cardinality(T) = IF 0 > MaxEvents - 1 THEN 0 ELSE MaxEvents - 1 - 0 + 1
    BY <2>1, FS_Interval
  <2> QED
    BY <2>1, <2>2
<1> HIDE DEF T, rank
<1>10. IsFiniteSet(N) /\ Cardinality(N) <= MaxEvents
  BY <1>8, <1>9, FS_Injection
<1> QED
  BY <1>5, <1>10 DEF EventsTyped, N

LEMMA WithEventTyped ==
  ASSUME NEW U, NEW E, EventsTyped(E, U), NEW w \in WindowOf(U), NEW t \in Nat
  PROVE  EventsTyped(WithEvent(E, w, t), U)
<1> PICK x : x = [resetsAt |-> w.resetsAt, used |-> w.used, detectedAt |-> t]
  OBVIOUS
<1>1. x \in EventOf(U) /\ x.resetsAt = w.resetsAt
  BY DEF EventOf, WindowOf
<1>2. CASE \E e \in E : e.resetsAt = w.resetsAt
  BY <1>2 DEF WithEvent
<1>3. CASE ~\E e \in E : e.resetsAt = w.resetsAt
  <2>1. WithEvent(E, w, t) = Newest(E \cup {x})
    BY <1>3 DEF WithEvent
  <2>2. IsFiniteSet(E \cup {x}) /\ E \cup {x} \subseteq EventOf(U)
    BY <1>1, FS_AddElement DEF EventsTyped
  <2>3. \A e, f \in E \cup {x} : e.resetsAt = f.resetsAt => e = f
    BY <1>1, <1>3 DEF EventsTyped
  <2> QED
    BY <2>1, <2>2, <2>3, NewestTyped
<1> QED
  BY <1>2, <1>3

(* At most one adjustment more, and the oldest is dropped for it.           *)
LEMMA WithAdjustmentTyped ==
  ASSUME NEW U, NEW D, AdjustmentsTyped(D, U), NEW d \in AdjustmentOf(U),
         Moved(d) \/ Decreased(d)
  PROVE  AdjustmentsTyped(WithAdjustment(D, d), U)
<1>1. /\ D \in Seq(AdjustmentOf(U)) /\ Len(D) <= MaxAdjustments
      /\ \A i \in 1..Len(D) : Valid(D[i])
      /\ MaxAdjustments \in Nat \ {0}
  BY BoundsAssumption DEF AdjustmentsTyped
<1> PICK A : A = Append(D, d)
  OBVIOUS
<1>2. /\ A \in Seq(AdjustmentOf(U)) /\ Len(A) = Len(D) + 1
      /\ \A i \in 1..Len(D) : A[i] = D[i]
      /\ A[Len(D) + 1] = d
  BY <1>1
<1>3. /\ Tail(A) \in Seq(AdjustmentOf(U)) /\ Len(Tail(A)) = Len(D)
      /\ \A i \in 1..Len(D) : Tail(A)[i] = A[i + 1]
  BY <1>1, <1>2
<1>4. CASE Valid(d)
  <2>1. ASSUME NEW i \in 1..Len(A) PROVE Valid(A[i])
    <3>1. i \in 1..Len(D) \/ i = Len(D) + 1
      BY <1>1, <1>2
    <3> QED
      BY <1>1, <1>2, <1>4, <3>1
  <2>2. ASSUME NEW i \in 1..Len(Tail(A)) PROVE Valid(Tail(A)[i])
    <3>1. i + 1 \in 1..Len(A) /\ Tail(A)[i] = A[i + 1]
      BY <1>1, <1>2, <1>3
    <3> QED
      BY <2>1, <3>1
  <2>3. WithAdjustment(D, d) \in {D, A, Tail(A)}
    BY DEF WithAdjustment
  <2>4. WithAdjustment(D, d) = A => Len(A) <= MaxAdjustments
    BY <1>1, <1>2 DEF WithAdjustment
  <2> QED
    BY <1>1, <1>2, <1>3, <2>1, <2>2, <2>3, <2>4 DEF AdjustmentsTyped
<1>5. CASE ~Valid(d)
  <2>1. d.before.resetsAt <= d.detectedAt \/ d.after.resetsAt <= d.detectedAt
    BY <1>5 DEF Valid, AdjustmentOf, WindowOf
  <2> QED
    BY <2>1 DEF WithAdjustment
<1> QED
  BY <1>4, <1>5

(* One field of a lane is replaced by a value of its type.                  *)
LEMMA FieldTyped ==
  ASSUME NEW U, NEW l, LaneTyped(l, U), NEW x
  PROVE  /\ x \in WindowOf(U) => LaneTyped([l EXCEPT !.active = x], U)
         /\ EventsTyped(x, U) => LaneTyped([l EXCEPT !.events = x], U)
         /\ AdjustmentsTyped(x, U) => LaneTyped([l EXCEPT !.adjustments = x], U)
         /\ x \in Candidate => LaneTyped([l EXCEPT !.candidate = x], U)
         /\ x \in U => LaneTyped([l EXCEPT !.active.used = x], U)
         /\ x \in Nat => LaneTyped([l EXCEPT !.candidate.lastSeen = x], U)
<1>1. /\ Lane(l) /\ l.active \in WindowOf(U) /\ EventsTyped(l.events, U)
      /\ AdjustmentsTyped(l.adjustments, U) /\ l.candidate \in Candidate
  BY DEF LaneTyped
<1>2. x \in WindowOf(U) => LaneTyped([l EXCEPT !.active = x], U)
  BY <1>1 DEF LaneTyped, Lane
<1>3. EventsTyped(x, U) => LaneTyped([l EXCEPT !.events = x], U)
  BY <1>1 DEF LaneTyped, Lane
<1>4. AdjustmentsTyped(x, U) => LaneTyped([l EXCEPT !.adjustments = x], U)
  BY <1>1 DEF LaneTyped, Lane
<1>5. x \in Candidate => LaneTyped([l EXCEPT !.candidate = x], U)
  BY <1>1 DEF LaneTyped, Lane
<1>6. ASSUME x \in U PROVE LaneTyped([l EXCEPT !.active.used = x], U)
  <2> PICK w : w = [l.active EXCEPT !.used = x]
    OBVIOUS
  <2>1. w \in WindowOf(U)
    BY <1>1, <1>6 DEF WindowOf
  <2>2. [l EXCEPT !.active.used = x] = [l EXCEPT !.active = w]
    BY <1>1 DEF Lane
  <2>3. LaneTyped([l EXCEPT !.active = w], U)
    BY <1>1, <2>1 DEF LaneTyped, Lane
  <2> QED
    BY <2>2, <2>3
<1>7. ASSUME x \in Nat PROVE LaneTyped([l EXCEPT !.candidate.lastSeen = x], U)
  <2> PICK c : c = [l.candidate EXCEPT !.lastSeen = x]
    OBVIOUS
  <2>1. c \in Candidate
    BY <1>1, <1>7 DEF Candidate
  <2>2. [l EXCEPT !.candidate.lastSeen = x] = [l EXCEPT !.candidate = c]
    BY <1>1 DEF Lane
  <2>3. LaneTyped([l EXCEPT !.candidate = c], U)
    BY <1>1, <2>1 DEF LaneTyped, Lane
  <2> QED
    BY <2>2, <2>3
<1> QED
  BY <1>2, <1>3, <1>4, <1>5, <1>6, <1>7

LEMMA EmptiesTyped ==
  ASSUME NEW U, 0 \in U
  PROVE  NoWindow \in WindowOf(U) /\ NoCandidate \in Candidate
BY DEF NoWindow, NoCandidate, WindowOf, Candidate

(* What is reported: a time to reset and a percentage.                      *)
Reported(w, U) == w.resetsAt \in Nat /\ w.used \in U

LEMMA AnchorTyped ==
  ASSUME NEW U, 0 \in U, NEW l, LaneTyped(l, U), NEW t \in Nat, NEW w, Reported(w, U)
  PROVE  LaneTyped(Anchor(l, t, w), U)
<1> DEFINE c == l.candidate
           p == Proposed(t, w)
           q == Proposed(c.firstSeen, w)
           first == [resetsAt |-> w.resetsAt, firstSeen |-> t, lastSeen |-> t]
<1>1. c \in Candidate
  BY DEF LaneTyped
<1>2. /\ p \in WindowOf(U) /\ q \in WindowOf(U) /\ first \in Candidate
      /\ NoCandidate \in Candidate
  BY <1>1, EmptiesTyped DEF Proposed, WindowOf, Candidate, Reported
<1>3. \/ Anchor(l, t, w) = [l EXCEPT !.active = p, !.candidate = NoCandidate]
      \/ Anchor(l, t, w) = [l EXCEPT !.candidate = first]
      \/ Anchor(l, t, w) = [l EXCEPT !.active = q, !.candidate = NoCandidate]
      \/ Anchor(l, t, w) = [l EXCEPT !.candidate.lastSeen = t]
  BY DEF Anchor
<1> HIDE DEF p, q, first
<1>4. ASSUME NEW x \in WindowOf(U)
      PROVE  LaneTyped([l EXCEPT !.active = x, !.candidate = NoCandidate], U)
  <2> PICK m : m = [l EXCEPT !.active = x]
    OBVIOUS
  <2>1. LaneTyped([m EXCEPT !.candidate = NoCandidate], U)
    BY <1>2, FieldTyped
  <2> QED
    BY <2>1
<1>5. LaneTyped([l EXCEPT !.candidate = first], U)
  BY <1>2, FieldTyped
<1>6. LaneTyped([l EXCEPT !.candidate.lastSeen = t], U)
  BY FieldTyped
<1> QED
  BY <1>2, <1>3, <1>4, <1>5, <1>6

(* An adjustment made while the tracker serves has a revision.              *)
LEMMA AdjustedTyped ==
  ASSUME NEW U, NEW l, LaneTyped(l, U), NEW t \in Nat, NEW after \in WindowOf(U),
         meta.coreRevision \in Nat \ {0},
         l.active.resetsAt # after.resetsAt \/ after.used < l.active.used
  PROVE  AdjustmentsTyped(Adjusted(l, t, after), U)
<1> PICK d : d = [rev |-> meta.coreRevision, detectedAt |-> t,
                  before |-> l.active, after |-> after]
  OBVIOUS
<1>1. d \in AdjustmentOf(U) /\ (Moved(d) \/ Decreased(d))
  BY DEF AdjustmentOf, LaneTyped, Moved, Decreased
<1>2. AdjustmentsTyped(WithAdjustment(l.adjustments, d), U)
  BY <1>1, WithAdjustmentTyped DEF LaneTyped
<1> QED
  BY <1>2 DEF Adjusted

LEMMA NotEquivalent ==
  ASSUME NEW x \in Nat, NEW y, ~Equivalent(x, y)
  PROVE  x # y
BY BoundsAssumption DEF Equivalent

LEMMA ObserveTyped ==
  ASSUME NEW U, 0 \in U, NEW l, LaneTyped(l, U), NEW t \in Nat, NEW w, Reported(w, U),
         meta.coreRevision \in Nat \ {0}
  PROVE  LaneTyped(ObserveWindow(l, t, w), U)
<1> DEFINE u == [l EXCEPT !.active = NoWindow]
<1>1. LaneTyped(u, U) /\ NoCandidate \in Candidate
  BY EmptiesTyped, FieldTyped
<1>2. CASE ~l.tracked \/ ~Believable(w.resetsAt, t)
  BY <1>2 DEF ObserveWindow
<1>3. CASE ~(~l.tracked \/ ~Believable(w.resetsAt, t)) /\ l.active = NoWindow
  BY <1>3, AnchorTyped DEF ObserveWindow
<1>4. CASE /\ ~(~l.tracked \/ ~Believable(w.resetsAt, t)) /\ l.active # NoWindow
           /\ Equivalent(l.active.resetsAt, w.resetsAt)
  <2> PICK a : a = [l.active EXCEPT !.used = w.used]
    OBVIOUS
  <2>1. a \in WindowOf(U) /\ a.used = w.used
    BY DEF LaneTyped, WindowOf, Reported
  <2> PICK D : D = IF w.used < l.active.used THEN Adjusted(l, t, a) ELSE l.adjustments
    OBVIOUS
  <2>2. AdjustmentsTyped(D, U)
    BY <2>1, AdjustedTyped DEF LaneTyped
  <2>3. ObserveWindow(l, t, w) =
          [l EXCEPT !.candidate = NoCandidate, !.active.used = w.used, !.adjustments = D]
    BY <1>4 DEF ObserveWindow
  <2> PICK k : k = [l EXCEPT !.candidate = NoCandidate]
    OBVIOUS
  <2> PICK m : m = [k EXCEPT !.active.used = w.used]
    OBVIOUS
  <2>4. LaneTyped(k, U)
    BY <1>1, FieldTyped
  <2>5. LaneTyped(m, U)
    BY <2>4, FieldTyped DEF Reported
  <2>6. LaneTyped([m EXCEPT !.adjustments = D], U)
    BY <2>2, <2>5, FieldTyped
  <2>7. ObserveWindow(l, t, w) = [m EXCEPT !.adjustments = D]
    BY <2>3
  <2> QED
    BY <2>6, <2>7
<1>5. CASE /\ ~(~l.tracked \/ ~Believable(w.resetsAt, t)) /\ l.active # NoWindow
           /\ ~Equivalent(l.active.resetsAt, w.resetsAt) /\ Early(l.active.resetsAt, t)
  <2> PICK D : D = Adjusted(l, t, Proposed(t, w))
    OBVIOUS
  <2>1. Proposed(t, w) \in WindowOf(U) /\ l.active.resetsAt # Proposed(t, w).resetsAt
    <3>1. Proposed(t, w) \in WindowOf(U) /\ Proposed(t, w).resetsAt = w.resetsAt
      BY DEF Proposed, WindowOf, Reported
    <3> QED
      BY <1>5, <3>1, NotEquivalent DEF LaneTyped, WindowOf
  <2>2. AdjustmentsTyped(D, U)
    BY <2>1, AdjustedTyped
  <2>3. ObserveWindow(l, t, w) =
          Anchor([u EXCEPT !.candidate = NoCandidate, !.adjustments = D], t, w)
    BY <1>5 DEF ObserveWindow
  <2> HIDE DEF u
  <2> PICK k : k = [u EXCEPT !.candidate = NoCandidate]
    OBVIOUS
  <2>4. LaneTyped(k, U)
    BY <1>1, FieldTyped
  <2>5. LaneTyped([k EXCEPT !.adjustments = D], U)
    BY <2>2, <2>4, FieldTyped
  <2>6. [u EXCEPT !.candidate = NoCandidate, !.adjustments = D] = [k EXCEPT !.adjustments = D]
    OBVIOUS
  <2> QED
    BY <2>3, <2>5, <2>6, AnchorTyped
<1>6. CASE /\ ~(~l.tracked \/ ~Believable(w.resetsAt, t)) /\ l.active # NoWindow
           /\ ~Equivalent(l.active.resetsAt, w.resetsAt) /\ ~Early(l.active.resetsAt, t)
  <2> PICK E : E = WithEvent(l.events, l.active, t)
    OBVIOUS
  <2>1. EventsTyped(E, U)
    BY WithEventTyped DEF LaneTyped
  <2>2. ObserveWindow(l, t, w) = Anchor([u EXCEPT !.events = E], t, w)
    BY <1>6 DEF ObserveWindow
  <2> HIDE DEF u
  <2>3. LaneTyped([u EXCEPT !.events = E], U)
    BY <1>1, <2>1, FieldTyped
  <2> QED
    BY <2>2, <2>3, AnchorTyped
<1> QED
  BY <1>2, <1>3, <1>4, <1>5, <1>6

LEMMA RebaselineTyped ==
  ASSUME NEW U, 0 \in U, NEW l, LaneTyped(l, U), NEW t \in Nat, NEW w, Reported(w, U),
         meta.coreRevision \in Nat \ {0}
  PROVE  LaneTyped(RebaselineWindow(l, t, w), U)
<1> DEFINE c == [l EXCEPT !.candidate = NoCandidate]
<1>1. LaneTyped(c, U) /\ NoWindow \in WindowOf(U)
  BY EmptiesTyped, FieldTyped
<1>2. \/ RebaselineWindow(l, t, w) = l
      \/ RebaselineWindow(l, t, w) = [c EXCEPT !.active.used = w.used]
      \/ RebaselineWindow(l, t, w) = ObserveWindow(l, t, w)
      \/ RebaselineWindow(l, t, w) = Anchor([c EXCEPT !.active = NoWindow], t, w)
  BY DEF RebaselineWindow
<1> HIDE DEF c
<1>3. /\ LaneTyped([c EXCEPT !.active.used = w.used], U)
      /\ LaneTyped([c EXCEPT !.active = NoWindow], U)
  BY <1>1, FieldTyped DEF Reported
<1> QED
  BY <1>2, <1>3, AnchorTyped, ObserveTyped

(* Adjustments that remain of a list of adjustments are such a list.        *)
LEMMA OnlyTyped ==
  ASSUME NEW U, NEW s, AdjustmentsTyped(s, U), NEW S
  PROVE  AdjustmentsTyped(Only(S, s), U)
<1>1. /\ s \in Seq(AdjustmentOf(U)) /\ Len(s) <= MaxAdjustments
      /\ \A j \in 1..Len(s) : Valid(s[j])
      /\ MaxAdjustments \in Nat
  BY BoundsAssumption DEF AdjustmentsTyped
<1>2. /\ Only(S, s) \in Seq(AdjustmentOf(U)) /\ Len(Only(S, s)) <= Len(s)
      /\ \A i \in 1..Len(Only(S, s)) : \E j \in 1..Len(s) : Only(S, s)[i] = s[j]
  BY <1>1, OnlyFacts
<1>3. \A i \in 1..Len(Only(S, s)) : Valid(Only(S, s)[i])
  BY <1>1, <1>2
<1> QED
  BY <1>1, <1>2, <1>3 DEF AdjustmentsTyped

LEMMA PruneTyped ==
  ASSUME NEW U, 0 \in U, NEW l, LaneTyped(l, U), NEW t \in Nat
  PROVE  LaneTyped(PruneLane(l, t), U)
<1> DEFINE done == l.active # NoWindow /\ Settled(l.active.resetsAt, t)
           a == IF done THEN NoWindow ELSE l.active
           E == {e \in IF done THEN WithEvent(l.events, l.active, t) ELSE l.events :
                   e.resetsAt >= t - Retention}
           D == Only({d \in Range(l.adjustments) : d.detectedAt >= t - Retention},
                     l.adjustments)
           c == IF Settled(l.candidate.resetsAt, t) \/ l.candidate.lastSeen < t - Retention
                THEN NoCandidate ELSE l.candidate
           kept == [l EXCEPT !.active = a, !.events = E, !.adjustments = D, !.candidate = c]
<1>1. PruneLane(l, t) = kept \/ PruneLane(l, t) = EmptyLane
  BY DEF PruneLane
<1>2. a \in WindowOf(U) /\ c \in Candidate
  BY EmptiesTyped DEF LaneTyped
<1>3. EventsTyped(E, U)
  <2> PICK F : F = IF done THEN WithEvent(l.events, l.active, t) ELSE l.events
    OBVIOUS
  <2>1. EventsTyped(F, U)
    BY WithEventTyped DEF LaneTyped
  <2>2. E \in SUBSET F
    OBVIOUS
  <2> QED
    BY <2>1, <2>2, FewerEvents
<1>4. AdjustmentsTyped(D, U)
  BY OnlyTyped DEF LaneTyped
<1> HIDE DEF done, a, E, D, c
<1>5. LaneTyped(kept, U)
  <2> PICK k : k = [l EXCEPT !.active = a]
    OBVIOUS
  <2> PICK m : m = [k EXCEPT !.events = E]
    OBVIOUS
  <2> PICK n : n = [m EXCEPT !.adjustments = D]
    OBVIOUS
  <2>1. LaneTyped(k, U)
    BY <1>2, FieldTyped
  <2>2. LaneTyped(m, U)
    BY <1>3, <2>1, FieldTyped
  <2>3. LaneTyped(n, U)
    BY <1>4, <2>2, FieldTyped
  <2>4. LaneTyped([n EXCEPT !.candidate = c], U)
    BY <1>2, <2>3, FieldTyped
  <2>5. kept = [n EXCEPT !.candidate = c]
    OBVIOUS
  <2> QED
    BY <2>4, <2>5
<1> QED
  BY <1>1, <1>5, EmptyTyped

-----------------------------------------------------------------------------
(* Recovery *)

Fixed(d) ==
  IF Moved(d) /\ Equivalent(d.before.resetsAt, d.after.resetsAt)
  THEN [d EXCEPT !.after = [d.before EXCEPT !.used = d.after.used]]
  ELSE d

LEMMA SanitizedTyped ==
  ASSUME NEW U, NEW D, AdjustmentsTyped(D, U)
  PROVE  AdjustmentsTyped(Sanitized(D), U)
<1> DEFINE fixed == [i \in DOMAIN D |-> Fixed(D[i])]
           S == {d \in Range(fixed) : Moved(d) \/ Decreased(d)}
<1>1. /\ D \in Seq(AdjustmentOf(U)) /\ Len(D) <= MaxAdjustments /\ MaxAdjustments \in Nat
      /\ \A i \in 1..Len(D) : Valid(D[i])
  BY BoundsAssumption DEF AdjustmentsTyped
<1>2. ASSUME NEW d \in AdjustmentOf(U)
      PROVE  /\ Fixed(d) \in AdjustmentOf(U)
             /\ Valid(d) => /\ Fixed(d).before.resetsAt > Fixed(d).detectedAt
                            /\ Fixed(d).after.resetsAt > Fixed(d).detectedAt
  BY DEF Fixed, Valid, AdjustmentOf, WindowOf
<1>3. /\ fixed \in Seq(AdjustmentOf(U)) /\ Len(fixed) = Len(D)
      /\ \A i \in 1..Len(D) : fixed[i] = Fixed(D[i])
  BY <1>1, <1>2
<1>4. Sanitized(D) = Only(S, fixed)
  BY DEF Sanitized, Fixed
<1>5. \A d \in S : Moved(d) \/ Decreased(d)
  OBVIOUS
<1> HIDE DEF fixed, S
<1> PICK C : C = Only(S, fixed)
  OBVIOUS
<1>6. /\ C \in Seq(AdjustmentOf(U)) /\ Len(C) <= Len(fixed)
      /\ \A i \in 1..Len(C) : \E j \in 1..Len(fixed) : C[i] = fixed[j]
  BY <1>3, OnlyFacts
<1>7. C \in Seq(AdjustmentOf(U) \cap S)
  BY <1>3, OnlyOf
<1>8. ASSUME NEW i \in 1..Len(C) PROVE Valid(C[i])
  <2>1. PICK j \in 1..Len(D) : C[i] = Fixed(D[j])
    BY <1>3, <1>6
  <2>2. D[j] \in AdjustmentOf(U) /\ Valid(D[j])
    BY <1>1
  <2>3. C[i] \in S
    BY <1>7
  <2> QED
    BY <1>2, <1>5, <2>1, <2>2, <2>3 DEF Valid
<1> QED
  BY <1>1, <1>3, <1>4, <1>6, <1>8 DEF AdjustmentsTyped

(* The windows that are replayed, one adjustment after the other.           *)
Replays(r, w, D, n) ==
  /\ r[0] = [before |-> w, active |-> w]
  /\ \A k \in 0..(n - 1) : r[k + 1] = Replay(r[k], D[k + 1])
  /\ Replayed(w, D) = r[n].active

LEMMA ReplaySteps ==
  ASSUME NEW W, NoWindow \in W, NEW w \in W, NEW D, NEW n \in Nat, DOMAIN D = 1..n,
         \A i \in 1..n : D[i].after \in W
  PROVE  \E r : Replays(r, w, D, n)
<1> DEFINE V == [before : W, active : W]
           base == [before |-> w, active |-> w]
           take == [p \in V \X (1..n) |-> Replay(p[1], D[p[2]])]
<1>1. base \in V /\ take \in [V \X (1..n) -> V]
  <2>1. \A v \in V, i \in 1..n : Replay(v, D[i]) \in V
    BY DEF Replay
  <2> QED
    BY <2>1
<1> HIDE DEF V, base, take
<1>2. PICK f : IsFold(f, n, V, base, take)
  BY <1>1, FoldExists, Zenon
<1> DEFINE Folds(g) ==
             g = [T \in SUBSET DOMAIN D |->
                    IF T = {} THEN base
                    ELSE LET x == CHOOSE x \in T : \A y \in T : x >= y
                         IN  Replay(g[T \ {x}], D[x])]
           iter == CHOOSE g : Folds(g)
<1>3. Folds(f)
  <2>1. ASSUME NEW T \in SUBSET (1..n), T # {}
        PROVE  take[<<f[T \ {LastIn(T)}], LastIn(T)>>] = Replay(f[T \ {LastIn(T)}], D[LastIn(T)])
    <3>1. LastIn(T) \in 1..n
      BY <2>1, LastOf
    <3>2. f[T \ {LastIn(T)}] \in V
      BY <1>2, <3>1 DEF IsFold
    <3> QED
      BY <3>1, <3>2 DEF take
  <2>2. f = [T \in SUBSET (1..n) |-> f[T]]
    BY <1>2 DEF IsFold
  <2> QED
    BY <1>2, <2>1, <2>2 DEF LastIn, IsFold
<1>4. Folds(iter)
  BY <1>3
<1>5. Replayed(w, D) = iter[DOMAIN D].active
  BY DEF Replayed, FoldLeft, MapThenFoldSet, Max, base
<1> HIDE DEF iter
<1>6. iter[1..0] = base
  BY <1>4
<1>7. ASSUME NEW k \in 0..(n - 1)
      PROVE  iter[1..(k + 1)] = Replay(iter[1..k], D[k + 1])
  <2>1. \A T \in SUBSET (1..n) : T # {} =>
          iter[T] = LET x == CHOOSE x \in T : \A y \in T : x >= y
                    IN  Replay(iter[T \ {x}], D[x])
    BY <1>4
  <2>2. /\ 1..(k + 1) \in SUBSET (1..n) /\ 1..(k + 1) # {}
        /\ (CHOOSE x \in 1..(k + 1) : \A y \in 1..(k + 1) : x >= y) = k + 1
        /\ (1..(k + 1)) \ {k + 1} = 1..k
    BY FirstPlaces
  <2> QED
    BY <2>1, <2>2
<1> DEFINE r == [k \in 0..n |-> iter[1..k]]
<1>8. r[0] = base /\ r[n] = iter[DOMAIN D]
      /\ \A k \in 0..(n - 1) : r[k] = iter[1..k] /\ r[k + 1] = iter[1..(k + 1)]
  BY <1>6
<1> HIDE DEF r
<1>9. Replays(r, w, D, n)
  BY <1>5, <1>7, <1>8 DEF base, Replays
<1> QED
  BY <1>9

LEMMA ReconciledTyped ==
  ASSUME NEW U, 0 \in U, NEW l, LaneTyped(l, U)
  PROVE  LaneTyped(Reconciled(l), U)
<1> DEFINE W == WindowOf(U)
<1> DEFINE D == l.adjustments
           w == l.active
           x == Replayed(w, D)
<1>1. /\ D \in Seq(AdjustmentOf(U)) /\ NoWindow \in W /\ w \in W
      /\ \A d \in AdjustmentOf(U) : d.after \in W
  BY EmptiesTyped DEF LaneTyped, AdjustmentsTyped, AdjustmentOf
<1>2. Reconciled(l) = l \/ Reconciled(l) = [l EXCEPT !.active = x]
  BY DEF Reconciled
<1> HIDE DEF W, D, w, x
<1> PICK n \in Nat : n = Len(D)
  BY <1>1
<1>3. DOMAIN D = 1..n /\ \A i \in 1..n : D[i].after \in W
  BY <1>1
<1> PICK r : Replays(r, w, D, n)
  BY <1>1, <1>3, ReplaySteps, Zenon
<1>4. /\ r[0] = [before |-> w, active |-> w]
      /\ \A k \in 0..(n - 1) : r[k + 1] = Replay(r[k], D[k + 1])
      /\ Replayed(w, D) = r[n].active
  BY DEF Replays
<1> DEFINE T == {k \in 0..n : r[k].active \in W}
<1>5. 0 \in T
  BY <1>1, <1>4
<1>6. ASSUME NEW k \in 0..(n - 1), k \in T PROVE k + 1 \in T
  <2>1. r[k + 1] = Replay(r[k], D[k + 1]) /\ D[k + 1].after \in W /\ k + 1 \in 0..n
    BY <1>3, <1>4
  <2>2. Replay(r[k], D[k + 1]).active \in W
    BY <1>1, <1>6, <2>1 DEF Replay
  <2> QED
    BY <2>1, <2>2
<1> HIDE DEF T
<1>7. n \in T
  BY <1>5, <1>6, UpTo
<1>8. x \in W
  BY <1>4, <1>7 DEF T, x
<1>9. LaneTyped([l EXCEPT !.active = x], U)
  BY <1>8, FieldTyped DEF W
<1> QED
  BY <1>2, <1>9

-----------------------------------------------------------------------------
(* Memory and files are typed; a tracker that serves has a history file,    *)
(* whose revision its adjustments carry.                                    *)

FilesTyped(U) ==
  \A a \in Accounts :
    /\ core.lanes[a].active \in WindowOf(U)
    /\ EventsTyped(core.lanes[a].events, U)
    /\ AdjustmentsTyped(sidecar.lanes[a].adjustments, U)

LanesTyped(ls, U) == \A a \in Accounts : LaneTyped(ls[a], U)

RevisionInv ==
  /\ phase # "down" => meta.revision > 0
  /\ phase = "serving" \/ (phase = "opening" /\ ~meta.dirty) => meta.coreRevision > 0

TypedInv(U) == now \in Nat /\ LanesTyped(lanes, U) /\ FilesTyped(U) /\ RevisionInv

LEMMA TypedInit == ASSUME NEW U, 0 \in U, Init PROVE TypedInv(U)
<1>1. /\ \A a \in Accounts : lanes[a] = EmptyLane
      /\ \A a \in Accounts : core.lanes[a] = CorePart(EmptyLane)
      /\ \A a \in Accounts : sidecar.lanes[a] = SidecarPart(EmptyLane)
      /\ now \in Nat /\ phase = "down"
  BY DEF Init
<1>2. LaneTyped(EmptyLane, U)
  BY EmptyTyped
<1>3. \A a \in Accounts :
        /\ core.lanes[a].active = EmptyLane.active /\ core.lanes[a].events = EmptyLane.events
        /\ sidecar.lanes[a].adjustments = EmptyLane.adjustments
  BY <1>1 DEF CorePart, SidecarPart
<1>4. FilesTyped(U)
  BY <1>2, <1>3 DEF FilesTyped, LaneTyped
<1> QED
  BY <1>1, <1>2, <1>4 DEF TypedInv, LanesTyped, RevisionInv

LEMMA PrunedTyped ==
  ASSUME NEW U, 0 \in U, NEW ls, LanesTyped(ls, U), NEW t \in Nat
  PROVE  LanesTyped(Prune(ls, t), U)
BY PruneTyped DEF LanesTyped, Prune

(* The lanes after an observation are typed.                                *)
LEMMA ApplyTyped ==
  ASSUME NEW U, 0 \in U, FileInv, LimitInv, TypedInv(U), NEW a \in Accounts, NEW w,
         Reported(w, U), NEW rebaseline, ApplySnapshot(a, w, rebaseline)
  PROVE  LanesTyped(lanes', U)
<1> DEFINE pruned == Prune(lanes, now)
           ensured == Ensure(pruned, a)
           l == IF rebaseline THEN RebaselineWindow(ensured[a], now, w)
                              ELSE ObserveWindow(ensured[a], now, w)
           seen == [ensured EXCEPT ![a] = l]
<1>1. phase = "serving" /\ lanes' = seen
  BY DEF ApplySnapshot, Ready, Commit
<1>2. meta.coreRevision \in Nat \ {0} /\ now \in Nat
  BY <1>1 DEF TypedInv, RevisionInv, FileInv, Metas
<1>3. LanesTyped(pruned, U)
  BY <1>2, PrunedTyped DEF TypedInv
<1>4. Lanes(pruned) /\ Fits(pruned)
  BY <1>1, PruneFits DEF LimitInv
<1> HIDE DEF pruned
<1>5. Lanes(ensured)
  BY <1>4, EnsureFits
<1>6. LanesTyped(ensured, U)
  <2>1. ASSUME NEW m, LaneTyped(m, U) PROVE LaneTyped([m EXCEPT !.tracked = TRUE], U)
    <3> PICK x : x = [m EXCEPT !.tracked = TRUE]
      OBVIOUS
    <3>1. /\ Lane(x) /\ x.active = m.active /\ x.events = m.events
          /\ x.adjustments = m.adjustments /\ x.candidate = m.candidate
      BY <2>1 DEF LaneTyped, Lane
    <3>2. LaneTyped(x, U)
      BY <2>1, <3>1 DEF LaneTyped
    <3> QED
      BY <3>2
  <2>2. \/ ensured = pruned
        \/ ensured = [pruned EXCEPT ![a].tracked = TRUE]
    <3>1. CASE Cardinality(Tracked(pruned)) < MaxAccounts
      BY <3>1 DEF Ensure
    <3>2. CASE ~(Cardinality(Tracked(pruned)) < MaxAccounts)
      BY <3>2 DEF Ensure
    <3> QED
      BY <3>1, <3>2
  <2> HIDE DEF ensured
  <2>3. CASE ensured = [pruned EXCEPT ![a].tracked = TRUE]
    <3> PICK m : m = [pruned[a] EXCEPT !.tracked = TRUE]
      OBVIOUS
    <3>1. ensured = [pruned EXCEPT ![a] = m]
      BY <2>3
    <3>2. LaneTyped(m, U)
      BY <1>3, <2>1 DEF LanesTyped
    <3>3. \A b \in Accounts : ensured[b] = IF b = a THEN m ELSE pruned[b]
      BY <1>4, <3>1 DEF Lanes
    <3> QED
      BY <1>3, <3>2, <3>3 DEF LanesTyped
  <2> QED
    BY <1>3, <2>2, <2>3
<1> HIDE DEF ensured
<1>7. LaneTyped(l, U)
  BY <1>2, <1>6, ObserveTyped, RebaselineTyped DEF LanesTyped
<1> HIDE DEF l
<1>8. \A b \in Accounts : seen[b] = IF b = a THEN l ELSE ensured[b]
  BY <1>5 DEF Lanes
<1> QED
  BY <1>1, <1>6, <1>7, <1>8 DEF LanesTyped

(* Steps that touch neither files nor the revision of the history file.     *)
LEMMA MemoryTyped ==
  ASSUME NEW U, FileInv, FileInv', TypedInv(U), phase = "serving", phase' = "serving",
         UNCHANGED <<now, core, sidecar>>, LanesTyped(lanes', U),
         meta'.coreRevision = meta.coreRevision, meta'.revision >= meta.revision
  PROVE  TypedInv(U)'
<1>1. meta'.revision > 0 /\ meta'.coreRevision > 0
  BY DEF TypedInv, RevisionInv, FileInv, Metas
<1>2. FilesTyped(U)'
  BY DEF TypedInv, FilesTyped
<1>3. LanesTyped(lanes, U)'
  BY DEF LanesTyped
<1> QED
  BY <1>1, <1>2, <1>3 DEF TypedInv, RevisionInv

LEMMA CommitForward ==
  ASSUME FileInv, NEW ls, NEW c, NEW d, Commit(ls, c, d)
  PROVE  /\ meta'.coreRevision = meta.coreRevision /\ meta'.revision >= meta.revision
         /\ lanes' = ls /\ phase' = phase /\ UNCHANGED <<now, core, sidecar>>
BY DEF Commit, FileInv, Metas

LEMMA OpenTyped ==
  ASSUME NEW U, 0 \in U, FileInv, TypedInv(U), Open
  PROVE  TypedInv(U)'
<1> DEFINE loaded == [a \in Accounts |-> Loaded(a)]
           clean == [a \in Accounts |-> [loaded[a] EXCEPT !.adjustments = Sanitized(@)]]
           recovered == [a \in Accounts |-> Reconciled(clean[a])]
<1>1. lanes' = Prune(recovered, now) /\ UNCHANGED <<now, core, sidecar>>
  BY DEF Open
<1>2. \A a \in Accounts : LaneTyped(loaded[a], U)
  <2>1. ASSUME NEW a \in Accounts PROVE LaneTyped(Loaded(a), U)
    <3>1. /\ Lane(Loaded(a))
          /\ Loaded(a).active = core.lanes[a].active /\ Loaded(a).events = core.lanes[a].events
          /\ Loaded(a).adjustments = sidecar.lanes[a].adjustments
          /\ Loaded(a).candidate = NoCandidate
      BY DEF Loaded, Lane
    <3> QED
      BY <3>1, EmptiesTyped DEF TypedInv, FilesTyped, LaneTyped
  <2> QED
    BY <2>1
<1> HIDE DEF loaded
<1>3. \A a \in Accounts : LaneTyped(clean[a], U)
  <2>1. ASSUME NEW a \in Accounts
        PROVE  LaneTyped([loaded[a] EXCEPT !.adjustments = Sanitized(@)], U)
    <3>1. AdjustmentsTyped(Sanitized(loaded[a].adjustments), U)
      BY <1>2, SanitizedTyped DEF LaneTyped
    <3> QED
      BY <1>2, <3>1, FieldTyped
  <2> QED
    BY <2>1
<1> HIDE DEF clean
<1>4. LanesTyped(recovered, U)
  BY <1>3, ReconciledTyped DEF LanesTyped
<1> HIDE DEF recovered
<1>5. LanesTyped(lanes', U)
  BY <1>1, <1>4, PrunedTyped DEF TypedInv
<1>6. RevisionInv'
  <2>1. \E c, d \in BOOLEAN :
          /\ meta' = [revision |-> NewestRevision + (IF c \/ d THEN 1 ELSE 0),
                      coreRevision |-> core.revision,
                      dirty |-> c, adjustmentsDirty |-> d, degraded |-> FALSE]
          /\ phase' = IF c \/ d THEN "opening" ELSE "serving"
          /\ core.revision = 0 => c
    <3> DEFINE pruned == Prune([a \in Accounts |-> Reconciled(
                           [Loaded(a) EXCEPT !.adjustments = Sanitized(@)])], now)
               c == meta'.dirty
               d == meta'.adjustmentsDirty
    <3>1. /\ meta' = [revision |-> meta'.revision, coreRevision |-> core.revision,
                      dirty |-> c, adjustmentsDirty |-> d, degraded |-> FALSE]
          /\ phase' \in {"opening", "serving"}
      BY DEF Open
    <3> QED
      BY <3>1 DEF Open
  <2> PICK c \in BOOLEAN, d \in BOOLEAN :
          /\ meta' = [revision |-> NewestRevision + (IF c \/ d THEN 1 ELSE 0),
                      coreRevision |-> core.revision,
                      dirty |-> c, adjustmentsDirty |-> d, degraded |-> FALSE]
          /\ phase' = IF c \/ d THEN "opening" ELSE "serving"
          /\ core.revision = 0 => c
    BY <2>1
  <2>2. /\ core.revision \in Nat /\ sidecar.revision \in Nat
        /\ NewestRevision \in Nat /\ NewestRevision >= core.revision
    BY DEF FileInv, FileTypes, NewestRevision
  <2>3. /\ meta'.revision = NewestRevision + (IF c \/ d THEN 1 ELSE 0)
        /\ meta'.coreRevision = core.revision /\ meta'.dirty = c
    OBVIOUS
  <2>4. meta'.revision > 0
    BY <2>2, <2>3
  <2>5. phase' = "serving" \/ ~meta'.dirty => core.revision # 0
    BY <2>3
  <2> QED
    BY <2>2, <2>3, <2>4, <2>5 DEF RevisionInv
<1> QED
  BY <1>1, <1>5, <1>6 DEF TypedInv, FilesTyped, LanesTyped

(* A tracker that stops, whether it crashes or fails to open.               *)
LEMMA StoppedTyped ==
  ASSUME NEW U, 0 \in U, TypedInv(U), Stopped, now' = now, FilesTyped(U)'
  PROVE  TypedInv(U)'
<1>1. \A a \in Accounts : lanes'[a] = EmptyLane
  BY DEF Stopped
<1>2. LanesTyped(lanes, U)'
  BY <1>1, EmptyTyped DEF LanesTyped
<1>3. RevisionInv'
  BY DEF Stopped, RevisionInv
<1> QED
  BY <1>2, <1>3 DEF TypedInv

(* What memory holds is typed in a file as well.                            *)
LEMMA FilesWritten ==
  ASSUME NEW U, FilesTyped(U), LanesTyped(lanes, U),
         \A a \in Accounts : core'.lanes[a] = core.lanes[a] \/ core'.lanes[a] = CorePart(lanes[a]),
         \A a \in Accounts : sidecar'.lanes[a] = sidecar.lanes[a]
                             \/ sidecar'.lanes[a] = SidecarPart(lanes[a])
  PROVE  FilesTyped(U)'
<1> SUFFICES ASSUME NEW a \in Accounts
             PROVE  /\ core'.lanes[a].active \in WindowOf(U)
                    /\ EventsTyped(core'.lanes[a].events, U)
                    /\ AdjustmentsTyped(sidecar'.lanes[a].adjustments, U)
  BY DEF FilesTyped
<1>1. LaneTyped(lanes[a], U)
  BY DEF LanesTyped
<1>2. /\ lanes[a].active \in WindowOf(U) /\ EventsTyped(lanes[a].events, U)
      /\ AdjustmentsTyped(lanes[a].adjustments, U)
  BY <1>1 DEF LaneTyped
<1>3. /\ core.lanes[a].active \in WindowOf(U) /\ EventsTyped(core.lanes[a].events, U)
      /\ AdjustmentsTyped(sidecar.lanes[a].adjustments, U)
  BY DEF FilesTyped
<1> PICK l : l = lanes[a]
  OBVIOUS
<1>0. /\ CorePart(l).active = l.active /\ CorePart(l).events = l.events
      /\ SidecarPart(l).adjustments = l.adjustments
  BY DEF CorePart, SidecarPart
<1>4. \/ core'.lanes[a] = core.lanes[a]
      \/ core'.lanes[a].active = lanes[a].active /\ core'.lanes[a].events = lanes[a].events
  BY <1>0
<1>5. \/ sidecar'.lanes[a] = sidecar.lanes[a]
      \/ sidecar'.lanes[a].adjustments = lanes[a].adjustments
  BY <1>0
<1>6. core'.lanes[a].active \in WindowOf(U)
  BY <1>2, <1>3, <1>4
<1>7. EventsTyped(core'.lanes[a].events, U)
  BY <1>2, <1>3, <1>4
<1>8. AdjustmentsTyped(sidecar'.lanes[a].adjustments, U)
  BY <1>2, <1>3, <1>5
<1> QED
  BY <1>6, <1>7, <1>8

LEMMA WriteTyped ==
  ASSUME NEW U, 0 \in U, FileInv, TypedInv(U), NEW outcome,
         WriteSidecar(outcome) \/ WriteCore(outcome)
  PROVE  TypedInv(U)'
<1>1. /\ \A a \in Accounts : core'.lanes[a] = core.lanes[a] \/ core'.lanes[a] = CorePart(lanes[a])
      /\ \A a \in Accounts : sidecar'.lanes[a] = sidecar.lanes[a]
                             \/ sidecar'.lanes[a] = SidecarPart(lanes[a])
      /\ now' = now
  BY DEF WriteSidecar, WriteCore
<1>2. FilesTyped(U)'
  BY <1>1, FilesWritten DEF TypedInv
<1>3. phase \in {"opening", "serving"} /\ meta \in Metas /\ RevisionInv
  BY DEF FileInv, PhaseInv, WriteSidecar, WriteCore, TypedInv
<1>4. CASE WriteFails
  <2>1. CASE phase = "opening"
    BY <1>1, <1>2, <1>4, <2>1, StoppedTyped DEF WriteFails
  <2>2. CASE phase = "serving"
    <3>1. /\ lanes' = lanes /\ phase' = phase
          /\ meta'.revision = meta.revision /\ meta'.coreRevision = meta.coreRevision
      BY <1>3, <1>4, <2>2 DEF WriteFails, Metas
    <3>2. RevisionInv'
      BY <1>3, <2>2, <3>1 DEF RevisionInv
    <3> QED
      BY <1>1, <1>2, <3>1, <3>2 DEF TypedInv, LanesTyped
  <2> QED
    BY <1>3, <2>1, <2>2
<1>5. CASE ~WriteFails
  <2>1. \/ WriteSidecar("ok") /\ WriteOk([meta EXCEPT !.adjustmentsDirty = FALSE])
        \/ WriteCore("ok") /\ WriteOk([meta EXCEPT !.dirty = FALSE, !.coreRevision = meta.revision])
    BY <1>5 DEF WriteSidecar, WriteCore
  <2>2. PICK m : /\ WriteOk(m)
                 /\ \/ m = [meta EXCEPT !.adjustmentsDirty = FALSE]
                    \/ m = [meta EXCEPT !.dirty = FALSE, !.coreRevision = meta.revision]
    BY <2>1
  <2>3. m \in Metas /\ m.revision = meta.revision
    BY <1>3, <2>2 DEF Metas
  <2>4. \/ m.dirty = meta.dirty /\ m.coreRevision = meta.coreRevision
        \/ m.coreRevision = meta.revision
    BY <1>3, <2>2 DEF Metas
  <2>5. NextStep(m) = "none" => m.dirty = FALSE
    BY <2>3, NextStepIs
  <2>6. /\ meta'.revision = m.revision /\ meta'.coreRevision = m.coreRevision
        /\ meta'.dirty = m.dirty /\ lanes' = lanes
        /\ phase' = IF NextStep(m) = "none" THEN "serving" ELSE phase
    BY <2>2, <2>3 DEF WriteOk, Metas
  <2>7. meta.revision > 0
    BY <1>3 DEF RevisionInv
  <2>8. phase' = "serving" \/ (phase' = "opening" /\ meta'.dirty = FALSE) => meta'.coreRevision > 0
    <3>1. CASE m.coreRevision = meta.revision
      BY <2>6, <2>7, <3>1
    <3>2. CASE m.dirty = meta.dirty /\ m.coreRevision = meta.coreRevision
      <4>1. phase' = "serving" \/ (phase' = "opening" /\ meta'.dirty = FALSE)
              => phase = "serving" \/ (phase = "opening" /\ meta.dirty = FALSE)
        BY <1>3, <2>5, <2>6, <3>2
      <4> QED
        BY <1>3, <2>6, <3>2, <4>1 DEF RevisionInv
    <3> QED
      BY <2>4, <3>1, <3>2
  <2>9. RevisionInv'
    BY <2>3, <2>6, <2>7, <2>8 DEF RevisionInv, Metas
  <2> QED
    BY <1>1, <1>2, <2>6, <2>9 DEF TypedInv, LanesTyped
<1> QED
  BY <1>4, <1>5

LEMMA SnapshotTyped ==
  ASSUME NEW U, 0 \in U, FileInv, TypedInv(U), Snapshot
  PROVE  TypedInv(U)'
<1> PICK ls : ls = Prune(lanes, now)
  OBVIOUS
<1>1. phase = "serving" /\ \E c, d : Commit(ls, c, d)
  BY DEF Snapshot, Ready
<1>2. LanesTyped(ls, U)
  BY PrunedTyped DEF TypedInv
<1>3. /\ meta'.coreRevision = meta.coreRevision /\ meta'.revision >= meta.revision
      /\ lanes' = ls /\ phase' = phase /\ UNCHANGED <<now, core, sidecar>>
  BY <1>1, CommitForward
<1> QED
  BY <1>1, <1>2, <1>3, SnapshotKeeps, MemoryTyped

LEMMA AppliedTyped ==
  ASSUME NEW U, 0 \in U, FileInv, LimitInv, TypedInv(U), NEW a \in Accounts, NEW w,
         Reported(w, U), NEW rebaseline, ApplySnapshot(a, w, rebaseline)
  PROVE  TypedInv(U)'
<1>1. phase = "serving" /\ \E ls, c, d : Commit(ls, c, d)
  BY DEF ApplySnapshot, Ready
<1>2. /\ meta'.coreRevision = meta.coreRevision /\ meta'.revision >= meta.revision
      /\ phase' = phase /\ UNCHANGED <<now, core, sidecar>>
  BY <1>1, CommitForward
<1> QED
  BY <1>1, <1>2, ApplyKeeps, ApplyTyped, MemoryTyped

(* The steps that take nothing in, in whatever the tracker is embedded.     *)
LEMMA OwnStepTyped ==
  ASSUME NEW U, 0 \in U, FileInv, TypedInv(U), Snapshot \/ Persist \/ Open \/ Crash \/ Tick
  PROVE  TypedInv(U)'
<1>1. CASE Snapshot
  BY <1>1, SnapshotTyped
<1>2. CASE Persist
  BY <1>2, WriteTyped DEF Persist
<1>3. CASE Open
  BY <1>3, OpenTyped
<1>4. CASE Crash
  <2>1. Stopped /\ now' = now /\ FilesTyped(U)'
    BY <1>4 DEF Crash, TypedInv, FilesTyped
  <2> QED
    BY <2>1, StoppedTyped
<1>5. CASE Tick
  <2>1. /\ now' = now + 1
        /\ UNCHANGED <<phase, step, lanes, meta, core, sidecar>>
    BY <1>5 DEF Tick
  <2> QED
    BY <2>1 DEF TypedInv, LanesTyped, FilesTyped, RevisionInv
<1> QED
  BY <1>1, <1>2, <1>3, <1>4, <1>5

LEMMA TypedStep ==
  ASSUME NEW U, 0 \in U, Used \subseteq U, FileInv, LimitInv, TypedInv(U), [HistoryNext]_hvars
  PROVE  TypedInv(U)'
<1>1. ASSUME NEW a \in Accounts, NEW w \in Reports(now), NEW rebaseline \in BOOLEAN,
             ApplySnapshot(a, w, rebaseline)
      PROVE  TypedInv(U)'
  <2>1. Reported(w, U)
    <3>1. w.used \in U /\ w.resetsAt \in (now + 1)..(now + Week + Skew)
      BY DEF Reports
    <3>2. now \in Nat /\ Week \in Nat /\ Skew \in Nat
      BY BoundsAssumption DEF TypedInv
    <3> QED
      BY <3>1, <3>2 DEF Reported
  <2> QED
    BY <1>1, <2>1, AppliedTyped
<1>2. CASE UNCHANGED hvars
  BY <1>2 DEF hvars, TypedInv, LanesTyped, FilesTyped, RevisionInv
<1> QED
  BY <1>1, <1>2, OwnStepTyped DEF HistoryNext

(* Memory is typed for the percentages of the reports, and what is typed is *)
(* what TypeOK says.                                                        *)
LEMMA TypedIs ==
  ASSUME FileInv, LimitInv, TypedInv(Used \cup {0})
  PROVE  TypeOK
<1> DEFINE U == Used \cup {0}
<1>1. Window = WindowOf(U) /\ Event = EventOf(U) /\ Adjustment = AdjustmentOf(U)
  BY DEF Window, Event, Adjustment, WindowOf, EventOf, AdjustmentOf
<1>2. ASSUME NEW a \in Accounts
      PROVE  /\ DOMAIN lanes[a] = DOMAIN EmptyLane
             /\ lanes[a].active \in Window
             /\ \A e \in lanes[a].events : e \in Event
             /\ \A i \in DOMAIN lanes[a].adjustments : lanes[a].adjustments[i] \in Adjustment
             /\ lanes[a].candidate \in Candidate
             /\ Capped(lanes[a])
  <2>1. LaneTyped(lanes[a], U)
    BY DEF TypedInv, LanesTyped
  <2>2. DOMAIN lanes[a] = DOMAIN EmptyLane
    <3>1. \A l : Lane(l) => DOMAIN l = {"tracked", "active", "events", "adjustments", "candidate"}
      BY DEF Lane
    <3>2. Lane(EmptyLane)
      BY DEF Lane, EmptyLane
    <3> QED
      BY <2>1, <3>1, <3>2 DEF LaneTyped
  <2>3. /\ lanes[a].active \in Window /\ lanes[a].candidate \in Candidate
        /\ EventsTyped(lanes[a].events, U) /\ AdjustmentsTyped(lanes[a].adjustments, U)
    BY <1>1, <2>1 DEF LaneTyped
  <2>4. \A e \in lanes[a].events : e \in Event
    BY <1>1, <2>3 DEF EventsTyped
  <2>5. /\ lanes[a].adjustments \in Seq(Adjustment)
        /\ Len(lanes[a].adjustments) <= MaxAdjustments
        /\ Cardinality(lanes[a].events) <= MaxEvents
    BY <1>1, <2>3 DEF EventsTyped, AdjustmentsTyped
  <2>6. \A i \in DOMAIN lanes[a].adjustments : lanes[a].adjustments[i] \in Adjustment
    BY <2>5
  <2> QED
    BY <2>2, <2>3, <2>4, <2>5, <2>6 DEF Capped
<1>3. phase = "serving" => Cardinality(Tracked(lanes)) <= MaxAccounts
  BY DEF LimitInv, Fits
<1>4. now \in Nat /\ phase \in {"down", "opening", "serving"} /\ step \in {"none", "sidecar", "core"}
      /\ meta \in Metas
  BY DEF TypedInv, FileInv, PhaseInv
<1> QED
  BY <1>2, <1>3, <1>4 DEF TypeOK, Metas

(* Every variable of the tracker has the type of its Go counterpart, and    *)
(* what a serving tracker holds can be written.                             *)
THEOREM HistoryTypes == HistorySpec => []TypeOK
<1> DEFINE U == Used \cup {0}
           Inv == FileInv /\ LimitInv /\ TypedInv(U)
<1>1. Init => Inv
  BY FileInit, LimitInit, TypedInit
<1>2. Inv /\ [HistoryNext]_hvars => Inv'
  BY FileStep, LimitStep, TypedStep
<1>3. Inv => TypeOK
  BY TypedIs
<1> QED
  BY <1>1, <1>2, <1>3, PTL DEF HistorySpec

(* What validateDiskState and validateAdjustmentDiskState ask of a file     *)
(* that the course of observations could break: the number of accounts, of  *)
(* completed windows and of adjustments, and that an adjustment was         *)
(* detected before both of its windows reset and tells of a change.  The    *)
(* latest reset time they allow, and the form of keys and reasons, are not  *)
(* part of it.                                                              *)
CoreAccepted(ls) ==
  /\ Cardinality(Tracked(ls)) <= MaxAccounts
  /\ \A a \in Accounts : Cardinality(ls[a].events) <= MaxEvents
SidecarAccepted(ls) ==
  /\ Cardinality(Tracked(ls)) <= MaxAccounts
  /\ \A a \in Accounts :
       /\ Len(ls[a].adjustments) <= MaxAdjustments
       /\ \A i \in 1..Len(ls[a].adjustments) : Valid(ls[a].adjustments[i])

(* Neither the loading of Open nor a write of a tracker that serves is ever *)
(* refused for these: whatever is observed, however writes fail and whenever*)
(* the process stops, both files and the memory served have no more         *)
(* accounts, completed windows of an account and adjustments of an account  *)
(* than a file may have, and every adjustment, the ones Open has sanitized  *)
(* included, tells of a change between windows that reset after it was      *)
(* detected.                                                                *)
THEOREM FilesAreAccepted ==
  HistorySpec => [](/\ CoreAccepted(core.lanes) /\ SidecarAccepted(sidecar.lanes)
                    /\ phase = "serving" => CoreAccepted(lanes) /\ SidecarAccepted(lanes))
<1> DEFINE U == Used \cup {0}
           Inv == FileInv /\ LimitInv /\ TypedInv(U)
           Accepted == /\ CoreAccepted(core.lanes) /\ SidecarAccepted(sidecar.lanes)
                       /\ phase = "serving" => CoreAccepted(lanes) /\ SidecarAccepted(lanes)
<1>1. Init => Inv
  BY FileInit, LimitInit, TypedInit
<1>2. Inv /\ [HistoryNext]_hvars => Inv'
  BY FileStep, LimitStep, TypedStep
<1>3. ASSUME LimitInv, TypedInv(U) PROVE Accepted
  <2>1. /\ CoreAccepted(core.lanes) /\ SidecarAccepted(sidecar.lanes)
    BY <1>3 DEF LimitInv, Fits, TypedInv, FilesTyped, EventsTyped, AdjustmentsTyped,
       CoreAccepted, SidecarAccepted
  <2>2. phase = "serving" => CoreAccepted(lanes) /\ SidecarAccepted(lanes)
    BY <1>3 DEF LimitInv, Fits, TypedInv, LanesTyped, LaneTyped, EventsTyped, AdjustmentsTyped,
       CoreAccepted, SidecarAccepted
  <2> QED
    BY <2>1, <2>2
<1>4. Inv => Accepted
  BY <1>3
<1> QED
  BY <1>1, <1>2, <1>4, PTL DEF HistorySpec

-----------------------------------------------------------------------------
(* The tracker beside the rate-limit service, while nothing worse happens   *)
(* than that the process stops: what a lane or a file says of the service's *)
(* windows.  Every report is Present: it rounds the service's window up by  *)
(* no more than the jitter band.                                            *)

Present(w, s) == w.resetsAt >= s.resetsAt /\ w.resetsAt <= s.resetsAt + Jitter
Past(w, s) == w.resetsAt + Jitter < s.resetsAt

(* The anchored window does not call for an adjustment: it is the service's *)
(* and not fuller, or its replacement will not be seen to be early.         *)
Agrees(w, s, t) ==
  w # NoWindow =>
    IF Present(w, s) THEN w.used <= s.used ELSE ~Early(w.resetsAt, t)

(* There are as many adjustments as early changes, one fewer while a change *)
(* is still to be seen.                                                     *)
Counted(w, D, s, t, ch) == Len(D) <= ch /\ (~Agrees(w, s, t) => Len(D) < ch)

(* Events are over, and of other windows than each other and the anchored.  *)
Completed(w, E, s, t) ==
  \A e \in E :
    /\ \A f \in E : Equivalent(e.resetsAt, f.resetsAt) => e = f
    /\ w # NoWindow => e.resetsAt + Jitter < w.resetsAt
    /\ Past(e, s) \/ (Present(e, s) /\ Settled(e.resetsAt, t))

(* An adjustment tells of a decrease, or of a window that was replaced by a *)
(* later one, is not the anchored one, and was never completed.             *)
Tells(d, w, E, s) ==
  IF Moved(d)
  THEN /\ d.before.resetsAt + Jitter < d.after.resetsAt
       /\ Past(d.before, s)
       /\ w # NoWindow => d.before.resetsAt + Jitter < w.resetsAt
       /\ \A e \in E : ~Equivalent(d.before.resetsAt, e.resetsAt)
  ELSE Decreased(d)

Replaced(w, E, D, s) == \A i \in 1..Len(D) : Tells(D[i], w, E, s)

Good(w, E, D, s, t, ch) ==
  /\ w # NoWindow => Present(w, s) \/ Past(w, s)
  /\ Counted(w, D, s, t, ch)
  /\ Completed(w, E, s, t)
  /\ Replaced(w, E, D, s)

Services == [resetsAt : Nat, used : Nat]
Sorts(w, E, D) ==
  w \in WindowOf(Nat) /\ E \subseteq EventOf(Nat) /\ D \in Seq(AdjustmentOf(Nat))

LEMMA SortsAre ==
  /\ Jitter \in Nat /\ Week \in Nat /\ 2 * Jitter < Week
  /\ \A w \in WindowOf(Nat) : w.resetsAt \in Nat /\ w.used \in Nat /\ w.firstSeen \in Nat
  /\ \A e \in EventOf(Nat) : e.resetsAt \in Nat
  /\ \A d \in AdjustmentOf(Nat) :
       d.before \in WindowOf(Nat) /\ d.after \in WindowOf(Nat) /\ d.rev \in Nat
  /\ \A s \in Services : s.resetsAt \in Nat /\ s.used \in Nat
BY BoundsAssumption, NoisesAssumption DEF WindowOf, EventOf, AdjustmentOf, Services

LEMMA PlacesAre ==
  ASSUME NEW D \in Seq(AdjustmentOf(Nat)), NEW i \in 1..Len(D)
  PROVE  /\ D[i] \in AdjustmentOf(Nat) /\ D[i].rev \in Nat
         /\ D[i].before \in WindowOf(Nat) /\ D[i].after \in WindowOf(Nat)
         /\ D[i].before.resetsAt \in Nat /\ D[i].after.resetsAt \in Nat
<1>1. D[i] \in AdjustmentOf(Nat)
  OBVIOUS
<1> QED
  BY <1>1, SortsAre

(* Time passes.                                                             *)
LEMMA GoodLater ==
  ASSUME NEW w, NEW E, NEW D, Sorts(w, E, D), NEW s \in Services, NEW t \in Nat, NEW ch \in Nat,
         Good(w, E, D, s, t, ch)
  PROVE  Good(w, E, D, s, t + 1, ch)
<1>1. Agrees(w, s, t) => Agrees(w, s, t + 1)
  <2>1. ~Early(w.resetsAt, t) => ~Early(w.resetsAt, t + 1)
    BY SortsAre DEF Sorts, Early
  <2> QED
    BY <2>1 DEF Agrees
<1>2. Counted(w, D, s, t + 1, ch)
  BY <1>1 DEF Good, Counted
<1>3. \A e \in E : Settled(e.resetsAt, t) => Settled(e.resetsAt, t + 1)
  BY SortsAre DEF Sorts, Settled
<1>4. Completed(w, E, s, t + 1)
  BY <1>3 DEF Good, Completed
<1> QED
  BY <1>2, <1>4 DEF Good

(* The service changes something early, which is one more change.           *)
LEMMA GoodNewWindow ==
  ASSUME NEW w, NEW E, NEW D, Sorts(w, E, D), NEW s \in Services, NEW q \in Services,
         NEW t \in Nat, NEW ch \in Nat, NEW c \in Nat,
         q.resetsAt > s.resetsAt + 2 * Jitter, Counted(w, D, q, t, c),
         Good(w, E, D, s, t, ch)
  PROVE  Good(w, E, D, q, t, c)
<1>1. ASSUME NEW r \in Nat, NEW x, x.resetsAt = r, Present(x, s) \/ Past(x, s)
      PROVE  Past(x, q)
  BY <1>1, SortsAre DEF Present, Past
<1>2. w # NoWindow => Past(w, q)
  BY <1>1, SortsAre DEF Sorts, Good
<1>3. \A e \in E : Past(e, q)
  BY <1>1, SortsAre DEF Sorts, Good, Completed
<1>4. Completed(w, E, q, t)
  BY <1>3 DEF Good, Completed
<1>5. \A i \in 1..Len(D) : Past(D[i].before, s) => Past(D[i].before, q)
  BY <1>1, PlacesAre DEF Sorts
<1>6. Replaced(w, E, D, q)
  BY <1>5 DEF Good, Replaced, Tells
<1> QED
  BY <1>2, <1>4, <1>6 DEF Good

LEMMA GoodConsumed ==
  ASSUME NEW w, NEW E, NEW D, Sorts(w, E, D), NEW s \in Services, NEW q \in Services,
         NEW t \in Nat, NEW ch \in Nat, NEW c \in Nat,
         q.resetsAt = s.resetsAt, Counted(w, D, q, t, c), Good(w, E, D, s, t, ch)
  PROVE  Good(w, E, D, q, t, c)
<1>1. \A x : (Present(x, s) <=> Present(x, q)) /\ (Past(x, s) <=> Past(x, q))
  BY DEF Present, Past
<1>2. Completed(w, E, q, t)
  BY <1>1 DEF Good, Completed
<1>3. Replaced(w, E, D, q)
  BY <1>1 DEF Good, Replaced, Tells
<1> QED
  BY <1>1, <1>2, <1>3 DEF Good

(* What is left of good adjustments and events is good.                     *)
Within(C, D) == \A i \in 1..Len(C) : \E j \in 1..Len(D) : C[i] = D[j]

LEMMA OnlyWithin ==
  ASSUME NEW X, NEW D \in Seq(X), NEW S
  PROVE  Only(S, D) \in Seq(X) /\ Len(Only(S, D)) <= Len(D) /\ Within(Only(S, D), D)
BY OnlyFacts DEF Within

LEMMA FewerGood ==
  ASSUME NEW w, NEW E, NEW D, Sorts(w, E, D), NEW s \in Services, NEW t \in Nat, NEW ch \in Nat,
         Good(w, E, D, s, t, ch),
         NEW F \in SUBSET E, NEW C \in Seq(AdjustmentOf(Nat)), Len(C) <= Len(D), Within(C, D)
  PROVE  Good(w, F, C, s, t, ch)
<1>1. Len(C) \in Nat /\ Len(D) \in Nat
  BY DEF Sorts
<1>2. Counted(w, C, s, t, ch)
  BY <1>1 DEF Good, Counted
<1>3. Completed(w, F, s, t)
  BY DEF Good, Completed
<1>4. \A d : Tells(d, w, E, s) => Tells(d, w, F, s)
  BY DEF Tells
<1>5. Replaced(w, F, C, s)
  <2>1. \A j \in 1..Len(D) : Tells(D[j], w, E, s)
    BY DEF Good, Replaced
  <2>2. ASSUME NEW i \in 1..Len(C) PROVE Tells(C[i], w, F, s)
    <3>1. PICK j \in 1..Len(D) : C[i] = D[j]
      BY DEF Within
    <3> QED
      BY <1>4, <2>1, <3>1
  <2> QED
    BY <2>2 DEF Replaced
<1> QED
  BY <1>2, <1>3, <1>5 DEF Good

(* Nothing is anchored.                                                     *)
LEMMA NoneGood ==
  ASSUME NEW w, NEW E, NEW D, NEW s, NEW t, NEW ch, Good(w, E, D, s, t, ch)
  PROVE  Good(NoWindow, E, D, s, t, ch)
<1>1. Counted(NoWindow, D, s, t, ch)
  BY DEF Good, Counted, Agrees
<1>2. Completed(NoWindow, E, s, t)
  BY DEF Good, Completed
<1>3. Replaced(NoWindow, E, D, s)
  BY DEF Good, Replaced, Tells
<1> QED
  BY <1>1, <1>2, <1>3 DEF Good

(* A window that is over is completed.                                      *)
LEMMA EventGood ==
  ASSUME NEW w, NEW E, NEW D, Sorts(w, E, D), NEW s \in Services, NEW t \in Nat, NEW ch \in Nat,
         Good(w, E, D, s, t, ch), w # NoWindow,
         Past(w, s) \/ (Present(w, s) /\ Settled(w.resetsAt, t))
  PROVE  Good(NoWindow, WithEvent(E, w, t), D, s, t, ch)
<1> DEFINE x == [resetsAt |-> w.resetsAt, used |-> w.used, detectedAt |-> t]
           F == WithEvent(E, w, t)
<1>1. F \subseteq E \cup {x} /\ x.resetsAt = w.resetsAt
  BY DEF WithEvent, Newest
<1> HIDE DEF F
<1>2. \A e \in E : e.resetsAt + Jitter < w.resetsAt /\ e.resetsAt \in Nat /\ w.resetsAt \in Nat
  BY SortsAre DEF Sorts, Good, Completed
<1>3. \A e \in E : ~Equivalent(e.resetsAt, x.resetsAt) /\ ~Equivalent(x.resetsAt, e.resetsAt)
  BY <1>2, SortsAre DEF Equivalent
<1>4. Past(x, s) \/ (Present(x, s) /\ Settled(x.resetsAt, t))
  BY DEF Past, Present
<1>5. Completed(NoWindow, E \cup {x}, s, t)
  BY <1>3, <1>4 DEF Good, Completed
<1>6. ASSUME NEW i \in 1..Len(D) PROVE Tells(D[i], NoWindow, E \cup {x}, s)
  <2>1. Tells(D[i], w, E, s)
    BY DEF Good, Replaced
  <2>2. Moved(D[i]) => ~Equivalent(D[i].before.resetsAt, x.resetsAt)
    BY <2>1, <1>1, PlacesAre, SortsAre DEF Tells, Equivalent, Sorts
  <2> QED
    BY <2>1, <2>2 DEF Tells
<1>7. Completed(NoWindow, F, s, t)
  BY <1>1, <1>5 DEF Completed
<1>8. Replaced(NoWindow, F, D, s)
  BY <1>1, <1>6 DEF Replaced, Tells
<1>9. Counted(NoWindow, D, s, t, ch)
  BY NoneGood DEF Good
<1> QED
  BY <1>7, <1>8, <1>9 DEF Good, F

(* A report of the service's window is anchored.                            *)
LEMMA AnchoredGood ==
  ASSUME NEW v \in WindowOf(Nat), NEW E, NEW D, Sorts(NoWindow, E, D),
         NEW s \in Services, NEW t \in Nat, NEW ch \in Nat, Good(NoWindow, E, D, s, t, ch),
         Present(v, s), v.used <= s.used, v.resetsAt > t
  PROVE  Good(v, E, D, s, t, ch)
<1>1. \A e \in E : e.resetsAt \in Nat /\ (Past(e, s) \/ (Present(e, s) /\ Settled(e.resetsAt, t)))
  BY SortsAre DEF Sorts, Good, Completed
<1>2. /\ v.resetsAt \in Nat /\ s.resetsAt \in Nat /\ Jitter \in Nat
      /\ s.resetsAt <= v.resetsAt /\ v.resetsAt <= s.resetsAt + Jitter
  BY SortsAre DEF Present
<1>3. \A e \in E : e.resetsAt + Jitter < v.resetsAt
  BY <1>1, <1>2 DEF Past, Present, Settled
<1>4. Completed(v, E, s, t)
  BY <1>3 DEF Good, Completed
<1>5. ASSUME NEW i \in 1..Len(D) PROVE Tells(D[i], v, E, s)
  <2>1. Tells(D[i], NoWindow, E, s)
    BY DEF Good, Replaced
  <2>2. D[i].before.resetsAt \in Nat
    BY PlacesAre DEF Sorts
  <2>3. Past(D[i].before, s) => D[i].before.resetsAt + Jitter < v.resetsAt
    BY <1>2, <2>2 DEF Past
  <2> QED
    BY <2>1, <2>3 DEF Tells
<1>6. Agrees(v, s, t)
  BY DEF Agrees
<1>7. Counted(v, D, s, t, ch)
  BY <1>6 DEF Good, Counted
<1> QED
  BY <1>4, <1>5, <1>7 DEF Good, Replaced

(* The anchored window shows what is used of it now.                        *)
LEMMA SameWindowGood ==
  ASSUME NEW w, NEW E, NEW D, Sorts(w, E, D), NEW s \in Services, NEW t \in Nat, NEW ch \in Nat,
         Good(w, E, D, s, t, ch), w # NoWindow, Present(w, s),
         NEW v \in WindowOf(Nat), v.resetsAt = w.resetsAt, v.used <= s.used
  PROVE  Good(v, E, D, s, t, ch) /\ Agrees(v, s, t)
<1>1. Present(v, s) /\ Agrees(v, s, t)
  BY DEF Present, Agrees
<1>2. Counted(v, D, s, t, ch)
  BY <1>1 DEF Good, Counted
<1>3. Completed(v, E, s, t)
  BY DEF Good, Completed
<1>4. Replaced(v, E, D, s)
  BY DEF Good, Replaced, Tells
<1> QED
  BY <1>1, <1>2, <1>3, <1>4 DEF Good

(* An adjustment is recorded while there is a change to be seen.            *)
LEMMA RecordedGood ==
  ASSUME NEW v, NEW E, NEW D, Sorts(v, E, D), NEW s \in Services, NEW t \in Nat, NEW ch \in Nat,
         Good(v, E, D, s, t, ch), Agrees(v, s, t), Len(D) < ch,
         NEW d \in AdjustmentOf(Nat), Tells(d, v, E, s),
         NEW C \in Seq(AdjustmentOf(Nat)), Len(C) <= Len(D) + 1,
         \A i \in 1..Len(C) : C[i] = d \/ \E j \in 1..Len(D) : C[i] = D[j]
  PROVE  Good(v, E, C, s, t, ch)
<1>1. Len(C) \in Nat /\ Len(D) \in Nat
  BY DEF Sorts
<1>2. Counted(v, C, s, t, ch)
  BY <1>1 DEF Counted
<1>3. ASSUME NEW i \in 1..Len(C) PROVE Tells(C[i], v, E, s)
  <2>1. \A j \in 1..Len(D) : Tells(D[j], v, E, s)
    BY DEF Good, Replaced
  <2> QED
    BY <2>1
<1> QED
  BY <1>2, <1>3 DEF Good, Replaced

(* What WithAdjustment does: it leaves the adjustments, or appends one that *)
(* repeats none, and may drop the oldest.                                   *)
LEMMA WithAdjustmentIs ==
  ASSUME NEW D \in Seq(AdjustmentOf(Nat)), NEW d \in AdjustmentOf(Nat)
  PROVE  \/ WithAdjustment(D, d) = D
         \/ /\ WithAdjustment(D, d) \in Seq(AdjustmentOf(Nat))
            /\ Len(WithAdjustment(D, d)) > 0 /\ Len(WithAdjustment(D, d)) <= Len(D) + 1
            /\ WithAdjustment(D, d)[Len(WithAdjustment(D, d))] = d
            /\ \A i \in 1..(Len(WithAdjustment(D, d)) - 1) :
                 \E j \in 1..Len(D) : WithAdjustment(D, d)[i] = D[j]
<1> DEFINE X == WithAdjustment(D, d)
           A == Append(D, d)
<1>1. X = D \/ X = A \/ (X = Tail(A) /\ ~(Len(A) <= MaxAdjustments))
  BY DEF WithAdjustment
<1> HIDE DEF X
<1>2. /\ Len(D) \in Nat /\ A \in Seq(AdjustmentOf(Nat)) /\ Len(A) = Len(D) + 1
      /\ \A i \in 1..Len(D) : A[i] = D[i]
      /\ A[Len(D) + 1] = d
  OBVIOUS
<1> HIDE DEF A
<1>3. CASE X = A
  BY <1>2, <1>3 DEF X
<1>4. CASE X = Tail(A) /\ ~(Len(A) <= MaxAdjustments)
  <2>1. MaxAdjustments \in Nat \ {0}
    BY BoundsAssumption
  <2>2. Len(D) > 0 /\ A # <<>>
    BY <1>2, <1>4, <2>1
  <2>3. /\ X \in Seq(AdjustmentOf(Nat)) /\ Len(X) = Len(D)
        /\ \A i \in 1..Len(D) : X[i] = A[i + 1]
    BY <1>2, <1>4, <2>2
  <2>4. X[Len(X)] = d /\ \A i \in 1..(Len(X) - 1) : X[i] = D[i + 1]
    BY <1>2, <2>2, <2>3
  <2>5. \A i \in 1..(Len(X) - 1) : \E j \in 1..Len(D) : X[i] = D[j]
    <3>1. \A i \in 1..(Len(X) - 1) : i + 1 \in 1..Len(D)
      BY <1>2, <2>3
    <3> QED
      BY <2>4, <3>1
  <2> QED
    BY <1>2, <2>2, <2>3, <2>4, <2>5 DEF X
<1> QED
  BY <1>1, <1>3, <1>4 DEF X

(* What time and the service do, from window s at t with ch early changes.  *)
Follows(s, t, ch, q, u, c) ==
  \/ u = t + 1 /\ q = s /\ c = ch
  \/ u = t /\ q.resetsAt = s.resetsAt /\ q.used >= s.used /\ c = ch
  \/ u = t /\ q.resetsAt = s.resetsAt /\ c = ch + 1
  \/ u = t /\ q.resetsAt > s.resetsAt + 2 * Jitter /\ c = ch + 1
  \/ u = t /\ q.resetsAt > s.resetsAt + 2 * Jitter /\ c = ch /\ t >= s.resetsAt

LEMMA GoodFollows ==
  ASSUME NEW w, NEW E, NEW D, Sorts(w, E, D), NEW s \in Services, NEW q \in Services,
         NEW t \in Nat, NEW u \in Nat, NEW ch \in Nat, NEW c \in Nat,
         Good(w, E, D, s, t, ch), Follows(s, t, ch, q, u, c)
  PROVE  Good(w, E, D, q, u, c)
<1>1. CASE u = t + 1 /\ q = s /\ c = ch
  BY <1>1, GoodLater
<1>2. Len(D) \in Nat /\ Len(D) <= ch
  BY DEF Sorts, Good, Counted
<1>3. CASE u = t /\ q.resetsAt = s.resetsAt /\ q.used >= s.used /\ c = ch
  <2>1. Present(w, s) <=> Present(w, q)
    BY <1>3 DEF Present
  <2>2. w.used \in Nat /\ s.used \in Nat /\ q.used \in Nat
    BY SortsAre DEF Sorts
  <2>3. w.used <= s.used => w.used <= q.used
    BY <1>3, <2>2
  <2>4. Agrees(w, s, t) => Agrees(w, q, t)
    BY <2>1, <2>3 DEF Agrees
  <2>5. Counted(w, D, q, t, c)
    BY <1>3, <2>4 DEF Good, Counted
  <2> QED
    BY <1>3, <2>5, GoodConsumed
<1>4. c = ch + 1 => \A x : Counted(w, D, x, t, c)
  BY <1>2 DEF Counted
<1>5. CASE u = t /\ q.resetsAt = s.resetsAt /\ c = ch + 1
  BY <1>4, <1>5, GoodConsumed
<1>6. CASE u = t /\ q.resetsAt > s.resetsAt + 2 * Jitter /\ c = ch + 1
  BY <1>4, <1>6, GoodNewWindow
<1>7. CASE u = t /\ q.resetsAt > s.resetsAt + 2 * Jitter /\ c = ch /\ t >= s.resetsAt
  <2>1. /\ w.resetsAt \in Nat /\ s.resetsAt \in Nat /\ q.resetsAt \in Nat /\ Jitter \in Nat
    BY SortsAre DEF Sorts
  <2>2. w # NoWindow => Present(w, s) \/ Past(w, s)
    BY DEF Good
  <2>3. w # NoWindow => ~Present(w, q)
    BY <1>7, <2>1, <2>2 DEF Present, Past
  <2>4. Present(w, s) => ~Early(w.resetsAt, t)
    BY <1>7, <2>1 DEF Present, Early
  <2>5. Agrees(w, s, t) => Agrees(w, q, t)
    BY <2>3, <2>4 DEF Agrees
  <2>6. Counted(w, D, q, t, c)
    BY <1>7, <2>5 DEF Good, Counted
  <2> QED
    BY <1>7, <2>6, GoodNewWindow
<1> QED
  BY <1>1, <1>3, <1>5, <1>6, <1>7 DEF Follows

-----------------------------------------------------------------------------
(* What the history file, of revision rev, says beside a sequence of        *)
(* adjustments: they are of earlier revisions, and it has caught up with    *)
(* them; or the last one is of its revision and of its window, and replayed *)
(* on that window brings the two together.                                  *)

After(d) == IF Moved(d) /\ d.after.used = 0 THEN NoWindow ELSE d.after
AllButLast(D) == SubSeq(D, 1, Len(D) - 1)
Older(D, rev) == \A i \in 1..Len(D) : D[i].rev < rev

CaughtUp(rev, w, E, D, s, t, ch) == Older(D, rev) /\ Good(w, E, D, s, t, ch)
Owes(rev, w, E, D, s, t, ch) ==
  /\ D # <<>> /\ w # NoWindow
  /\ D[Len(D)].rev = rev /\ D[Len(D)].before = w
  /\ Older(AllButLast(D), rev)
  /\ Good(After(D[Len(D)]), E, D, s, t, ch)
  /\ Good(w, E, AllButLast(D), s, t, ch)

FileGood(rev, w, E, D, s, t, ch) ==
  CaughtUp(rev, w, E, D, s, t, ch) \/ Owes(rev, w, E, D, s, t, ch)

LEMMA AllButLastIs ==
  ASSUME NEW X, NEW D \in Seq(X), D # <<>>
  PROVE  /\ Len(D) \in 1..Len(D)
         /\ AllButLast(D) \in Seq(X) /\ Len(AllButLast(D)) = Len(D) - 1
         /\ \A i \in 1..(Len(D) - 1) : AllButLast(D)[i] = D[i]
         /\ Len(D) \in Nat /\ Len(D) > 0
<1> PICK n \in Nat : n = Len(D)
  OBVIOUS
<1>1. n > 0 /\ DOMAIN D = 1..n /\ \A i \in 1..n : D[i] \in X
  OBVIOUS
<1> PICK m \in Nat : m = n - 1
  BY <1>1
<1>2. SubSeq(D, 1, m) = [i \in 1..m |-> D[i]]
  BY <1>1
<1>3. \A i \in 1..m : D[i] \in X
  BY <1>1
<1> PICK C : C = [i \in 1..m |-> D[i]]
  OBVIOUS
<1>4. C \in Seq(X) /\ Len(C) = m /\ \A i \in 1..m : C[i] = D[i]
  BY <1>3
<1> QED
  BY <1>1, <1>2, <1>4 DEF AllButLast

LEMMA AfterIs ==
  ASSUME NEW d \in AdjustmentOf(Nat)
  PROVE  After(d) \in WindowOf(Nat)
BY SortsAre, EmptiesTyped DEF After

LEMMA FileFollows ==
  ASSUME NEW rev, NEW w, NEW E, NEW D, Sorts(w, E, D),
         NEW s \in Services, NEW q \in Services,
         NEW t \in Nat, NEW u \in Nat, NEW ch \in Nat, NEW c \in Nat,
         FileGood(rev, w, E, D, s, t, ch), Follows(s, t, ch, q, u, c)
  PROVE  FileGood(rev, w, E, D, q, u, c)
<1>1. CASE CaughtUp(rev, w, E, D, s, t, ch)
  BY <1>1, GoodFollows DEF CaughtUp, FileGood
<1>2. CASE Owes(rev, w, E, D, s, t, ch)
  <2>1. /\ D # <<>> /\ w # NoWindow
        /\ D[Len(D)].rev = rev /\ D[Len(D)].before = w
        /\ Older(AllButLast(D), rev)
        /\ Good(After(D[Len(D)]), E, D, s, t, ch)
        /\ Good(w, E, AllButLast(D), s, t, ch)
    BY <1>2 DEF Owes
  <2>2. Sorts(w, E, AllButLast(D)) /\ Sorts(After(D[Len(D)]), E, D)
    BY <2>1, AllButLastIs, AfterIs, PlacesAre DEF Sorts
  <2>3. Good(w, E, AllButLast(D), q, u, c)
    BY <2>1, <2>2, GoodFollows
  <2>4. Good(After(D[Len(D)]), E, D, q, u, c)
    BY <2>1, <2>2, GoodFollows
  <2>5. Owes(rev, w, E, D, q, u, c)
    BY <2>1, <2>3, <2>4 DEF Owes
  <2> QED
    BY <2>5 DEF FileGood
<1> QED
  BY <1>1, <1>2 DEF FileGood

(* Adjustments of a file are forgotten.                                     *)
LEMMA FileForgets ==
  ASSUME NEW rev, NEW w, NEW E, NEW D, Sorts(w, E, D), NEW s \in Services,
         NEW t \in Nat, NEW ch \in Nat, FileGood(rev, w, E, D, s, t, ch), NEW S
  PROVE  FileGood(rev, w, E, Only(S, D), s, t, ch)
<1> DEFINE C == Only(S, D)
<1>1. /\ C \in Seq(AdjustmentOf(Nat)) /\ Len(C) <= Len(D) /\ D \in Seq(AdjustmentOf(Nat))
      /\ Within(C, D)
  BY OnlyFacts DEF Sorts, Within
<1>2. CASE CaughtUp(rev, w, E, D, s, t, ch)
  <2> HIDE DEF C
  <2>1. Good(w, E, C, s, t, ch)
    BY <1>1, <1>2, FewerGood DEF CaughtUp
  <2>2. Older(C, rev)
    BY <1>1, <1>2 DEF CaughtUp, Older, Within
  <2> QED
    BY <2>1, <2>2 DEF FileGood, CaughtUp, C
<1>3. CASE Owes(rev, w, E, D, s, t, ch)
  <2>1. /\ D # <<>> /\ w # NoWindow
        /\ D[Len(D)].rev = rev /\ D[Len(D)].before = w
        /\ Older(AllButLast(D), rev)
        /\ Good(After(D[Len(D)]), E, D, s, t, ch)
        /\ Good(w, E, AllButLast(D), s, t, ch)
    BY <1>3 DEF Owes
  <2>2. /\ AllButLast(D) \in Seq(AdjustmentOf(Nat)) /\ Len(AllButLast(D)) = Len(D) - 1
        /\ \A i \in 1..(Len(D) - 1) : AllButLast(D)[i] = D[i]
        /\ Len(D) \in Nat /\ Len(D) > 0
    BY <1>1, <2>1, AllButLastIs
  <2>3. Sorts(w, E, AllButLast(D)) /\ Sorts(After(D[Len(D)]), E, D)
    BY <2>1, <2>2, AllButLastIs, AfterIs, PlacesAre DEF Sorts
  <2>4. CASE D[Len(D)] \notin S
    <3>1. /\ Len(C) <= Len(D) - 1
          /\ \A i \in 1..Len(C) : \E j \in 1..(Len(D) - 1) : C[i] = D[j]
      BY <1>1, <2>2, <2>4, OnlyFacts
    <3> HIDE DEF C
    <3>2. Len(C) <= Len(AllButLast(D)) /\ Within(C, AllButLast(D))
      BY <2>2, <3>1 DEF Within
    <3>3. Good(w, E, C, s, t, ch)
      BY <1>1, <2>1, <2>2, <2>3, <3>2, FewerGood
    <3>4. Older(C, rev)
      BY <2>1, <2>2, <3>2 DEF Older, Within
    <3> QED
      BY <3>3, <3>4 DEF FileGood, CaughtUp, C
  <2>5. CASE D[Len(D)] \in S
    <3>1. /\ Len(C) > 0 /\ C[Len(C)] = D[Len(D)]
          /\ \A i \in 1..(Len(C) - 1) : \E j \in 1..(Len(D) - 1) : C[i] = D[j]
      BY <1>1, <2>2, <2>5, OnlyFacts
    <3> HIDE DEF C
    <3>2. C # <<>>
      BY <3>1
    <3>3. /\ AllButLast(C) \in Seq(AdjustmentOf(Nat)) /\ Len(AllButLast(C)) = Len(C) - 1
          /\ \A i \in 1..(Len(C) - 1) : AllButLast(C)[i] = C[i]
          /\ Len(C) \in Nat
      BY <1>1, <3>2, AllButLastIs
    <3>4. Len(AllButLast(C)) <= Len(AllButLast(D)) /\ Within(AllButLast(C), AllButLast(D))
      <4>1. Len(AllButLast(C)) <= Len(AllButLast(D))
        BY <1>1, <2>2, <3>3
      <4>2. \A i \in 1..(Len(C) - 1) : \E j \in 1..(Len(D) - 1) :
              AllButLast(C)[i] = AllButLast(D)[j]
        BY <2>2, <3>1, <3>3
      <4> QED
        BY <2>2, <3>3, <4>1, <4>2 DEF Within
    <3>5. Good(w, E, AllButLast(C), s, t, ch)
      BY <2>1, <2>2, <2>3, <3>3, <3>4, FewerGood
    <3>6. Good(After(C[Len(C)]), E, C, s, t, ch)
      BY <1>1, <2>1, <2>3, <3>1, FewerGood
    <3>7. Older(AllButLast(C), rev)
      BY <2>1, <2>2, <3>4 DEF Older, Within
    <3>8. Owes(rev, w, E, C, s, t, ch)
      BY <2>1, <3>1, <3>2, <3>5, <3>6, <3>7 DEF Owes
    <3> QED
      BY <3>8 DEF FileGood, C
  <2> QED
    BY <2>4, <2>5
<1> QED
  BY <1>2, <1>3 DEF FileGood

(* An adjustment of the file's own revision and window is recorded beside a *)
(* file that has caught up.                                                 *)
LEMMA FileRecords ==
  ASSUME NEW rev, NEW w, NEW E, NEW D, Sorts(w, E, D), NEW s \in Services,
         NEW t \in Nat, NEW ch \in Nat, CaughtUp(rev, w, E, D, s, t, ch), w # NoWindow,
         NEW d \in AdjustmentOf(Nat), d.rev = rev, d.before = w,
         NEW B \in Seq(AdjustmentOf(Nat)), Len(B) <= Len(D), Within(B, D),
         Good(After(d), E, WithAdjustment(B, d), s, t, ch)
  PROVE  FileGood(rev, w, E, WithAdjustment(B, d), s, t, ch)
<1> PICK C : C = WithAdjustment(B, d)
  OBVIOUS
<1>1. Good(w, E, B, s, t, ch) /\ Older(B, rev)
  <2>1. Good(w, E, B, s, t, ch)
    BY FewerGood DEF CaughtUp
  <2> QED
    BY <2>1 DEF CaughtUp, Older, Within
<1>2. CASE C = B
  BY <1>1, <1>2 DEF FileGood, CaughtUp
<1>3. CASE C # B
  <2>1. /\ C \in Seq(AdjustmentOf(Nat)) /\ Len(C) > 0 /\ Len(C) <= Len(B) + 1
        /\ C[Len(C)] = d
        /\ \A i \in 1..(Len(C) - 1) : \E j \in 1..Len(B) : C[i] = B[j]
    BY <1>3, WithAdjustmentIs
  <2>2. C # <<>>
    BY <2>1
  <2>3. /\ AllButLast(C) \in Seq(AdjustmentOf(Nat)) /\ Len(AllButLast(C)) = Len(C) - 1
        /\ \A i \in 1..(Len(C) - 1) : AllButLast(C)[i] = C[i]
        /\ Len(C) \in Nat /\ Len(B) \in Nat
    BY <2>1, <2>2, AllButLastIs
  <2>4. Len(AllButLast(C)) <= Len(B)
    BY <2>1, <2>3
  <2>5. Within(AllButLast(C), B)
    BY <2>1, <2>3 DEF Within
  <2>6. Sorts(w, E, B)
    BY DEF Sorts
  <2>7. Good(w, E, AllButLast(C), s, t, ch)
    BY <1>1, <2>3, <2>4, <2>5, <2>6, FewerGood
  <2>8. Older(AllButLast(C), rev)
    BY <1>1, <2>5 DEF Older, Within
  <2>9. Owes(rev, w, E, C, s, t, ch)
    BY <2>1, <2>2, <2>7, <2>8 DEF Owes
  <2> QED
    BY <2>9 DEF FileGood
<1> QED
  BY <1>2, <1>3

-----------------------------------------------------------------------------
(* The operations on a lane, with reports of the service.                   *)

Faithful(r, s) == r.resetsAt \in Nat /\ r.used = s.used /\ Present(r, s)

LEMMA SeenWindow ==
  ASSUME NEW w \in WindowOf(Nat), NEW s \in Services, NEW r, Faithful(r, s),
         Present(w, s) \/ Past(w, s)
  PROVE  IF Equivalent(w.resetsAt, r.resetsAt) THEN Present(w, s)
         ELSE Past(w, s) /\ w.resetsAt + Jitter < r.resetsAt
<1>1. /\ w.resetsAt \in Nat /\ r.resetsAt \in Nat /\ s.resetsAt \in Nat /\ Jitter \in Nat
      /\ s.resetsAt <= r.resetsAt /\ r.resetsAt <= s.resetsAt + Jitter
  BY SortsAre DEF Faithful, Present
<1> QED
  BY <1>1 DEF Equivalent, Present, Past

(* Another report of the anchored window: usage that has gone down is an    *)
(* early change.                                                            *)
LEMMA UsageGood ==
  ASSUME NEW w, NEW E, NEW D, Sorts(w, E, D), NEW s \in Services, NEW t \in Nat, NEW ch \in Nat,
         Good(w, E, D, s, t, ch), w # NoWindow, NEW r, Faithful(r, s),
         Equivalent(w.resetsAt, r.resetsAt),
         NEW B \in Seq(AdjustmentOf(Nat)), Len(B) <= Len(D), Within(B, D),
         NEW v, v = [w EXCEPT !.used = r.used]
  PROVE  /\ v \in WindowOf(Nat) /\ v.resetsAt = w.resetsAt /\ v.used = r.used
         /\ Good(v, E, B, s, t, ch)
         /\ r.used < w.used =>
              \A d \in AdjustmentOf(Nat) : d.before = w /\ d.after = v =>
                Good(v, E, WithAdjustment(B, d), s, t, ch)
<1>1. /\ w \in WindowOf(Nat) /\ w.used \in Nat /\ r.used \in Nat /\ r.used = s.used
      /\ Len(B) \in Nat /\ Len(D) \in Nat
  BY SortsAre DEF Sorts, Faithful
<1>2. v \in WindowOf(Nat) /\ v.resetsAt = w.resetsAt /\ v.used = r.used
  BY <1>1 DEF WindowOf
<1>3. Present(w, s)
  BY <1>1, SeenWindow DEF Good
<1>4. Good(w, E, B, s, t, ch) /\ Sorts(w, E, B) /\ Sorts(v, E, B)
  BY <1>2, FewerGood DEF Sorts
<1>5. Good(v, E, B, s, t, ch) /\ Agrees(v, s, t)
  <2>1. v.used <= s.used
    BY <1>1, <1>2
  <2> QED
    BY <1>2, <1>3, <1>4, <2>1, SameWindowGood
<1>6. ASSUME r.used < w.used, NEW d \in AdjustmentOf(Nat), d.before = w, d.after = v
      PROVE  Good(v, E, WithAdjustment(B, d), s, t, ch)
  <2> PICK C : C = WithAdjustment(B, d)
    OBVIOUS
  <2>1. ~Agrees(w, s, t)
    BY <1>1, <1>3, <1>6 DEF Agrees
  <2>2. Len(B) < ch
    BY <1>1, <2>1 DEF Good, Counted
  <2>3. Tells(d, v, E, s)
    BY <1>2, <1>6 DEF Tells, Moved, Decreased
  <2>4. CASE C = B
    BY <1>5, <2>4
  <2>5. CASE C # B
    <3>1. /\ C \in Seq(AdjustmentOf(Nat)) /\ Len(C) > 0 /\ Len(C) <= Len(B) + 1
          /\ C[Len(C)] = d
          /\ \A i \in 1..(Len(C) - 1) : \E j \in 1..Len(B) : C[i] = B[j]
      BY <2>5, WithAdjustmentIs
    <3>2. \A i \in 1..Len(C) : C[i] = d \/ \E j \in 1..Len(B) : C[i] = B[j]
      <4> SUFFICES ASSUME NEW i \in 1..Len(C), i # Len(C)
                   PROVE  \E j \in 1..Len(B) : C[i] = B[j]
        BY <3>1
      <4>1. Len(C) \in Nat
        BY <3>1
      <4>2. i \in 1..(Len(C) - 1)
        BY <4>1
      <4> QED
        BY <3>1, <4>2
    <3> QED
      BY <1>4, <1>5, <2>2, <2>3, <3>1, <3>2, RecordedGood
  <2> QED
    BY <2>4, <2>5
<1> QED
  BY <1>2, <1>5, <1>6

(* The anchored window is gone early: it was replaced.                      *)
LEMMA ReplacedGood ==
  ASSUME NEW w, NEW E, NEW D, Sorts(w, E, D), NEW s \in Services, NEW t \in Nat, NEW ch \in Nat,
         Good(w, E, D, s, t, ch), w # NoWindow, NEW r, Faithful(r, s), r.resetsAt > t,
         ~Equivalent(w.resetsAt, r.resetsAt), Early(w.resetsAt, t),
         NEW B \in Seq(AdjustmentOf(Nat)), Len(B) <= Len(D), Within(B, D),
         NEW d \in AdjustmentOf(Nat), d.before = w, d.after = Proposed(t, r)
  PROVE  /\ Good(NoWindow, E, WithAdjustment(B, d), s, t, ch)
         /\ Good(After(d), E, WithAdjustment(B, d), s, t, ch)
<1> PICK C : C = WithAdjustment(B, d)
  OBVIOUS
<1> PICK v : v = Proposed(t, r)
  OBVIOUS
<1>1. /\ w \in WindowOf(Nat) /\ w.resetsAt \in Nat /\ r.resetsAt \in Nat /\ Jitter \in Nat
      /\ s.resetsAt \in Nat /\ Len(B) \in Nat /\ Len(D) \in Nat /\ r.used \in Nat /\ r.used = s.used
      /\ v.resetsAt = r.resetsAt /\ v.used = r.used /\ v \in WindowOf(Nat)
  BY SortsAre DEF Sorts, Faithful, Proposed, WindowOf
<1>2. Past(w, s) /\ w.resetsAt + Jitter < r.resetsAt
  BY <1>1, SeenWindow DEF Good
<1>3. ~Present(w, s)
  BY <1>1, <1>2 DEF Present, Past
<1>4. Len(B) < ch
  BY <1>1, <1>3 DEF Good, Counted, Agrees
<1>5. Good(w, E, B, s, t, ch) /\ Sorts(w, E, B) /\ Sorts(NoWindow, E, B)
  BY FewerGood, EmptiesTyped DEF Sorts
<1>6. Good(NoWindow, E, B, s, t, ch) /\ Agrees(NoWindow, s, t)
  BY <1>5, NoneGood DEF Agrees
<1>7. Tells(d, NoWindow, E, s)
  <2>1. \A e \in E : e.resetsAt \in Nat /\ e.resetsAt + Jitter < w.resetsAt
    BY SortsAre DEF Sorts, Good, Completed
  <2>2. \A e \in E : ~Equivalent(w.resetsAt, e.resetsAt)
    BY <1>1, <2>1 DEF Equivalent
  <2>3. d.before.resetsAt + Jitter < d.after.resetsAt /\ Moved(d)
    BY <1>1, <1>2 DEF Moved
  <2> QED
    BY <1>2, <2>2, <2>3 DEF Tells
<1>8. Good(NoWindow, E, C, s, t, ch) /\ C \in Seq(AdjustmentOf(Nat))
  <2>1. CASE C = B
    BY <1>6, <2>1
  <2>2. CASE C # B
    <3>1. /\ C \in Seq(AdjustmentOf(Nat)) /\ Len(C) > 0 /\ Len(C) <= Len(B) + 1
          /\ C[Len(C)] = d
          /\ \A i \in 1..(Len(C) - 1) : \E j \in 1..Len(B) : C[i] = B[j]
      BY <2>2, WithAdjustmentIs
    <3>2. \A i \in 1..Len(C) : C[i] = d \/ \E j \in 1..Len(B) : C[i] = B[j]
      <4> SUFFICES ASSUME NEW i \in 1..Len(C), i # Len(C)
                   PROVE  \E j \in 1..Len(B) : C[i] = B[j]
        BY <3>1
      <4>1. Len(C) \in Nat
        BY <3>1
      <4>2. i \in 1..(Len(C) - 1)
        BY <4>1
      <4> QED
        BY <3>1, <4>2
    <3> QED
      BY <1>4, <1>5, <1>6, <1>7, <3>1, <3>2, RecordedGood
  <2> QED
    BY <2>1, <2>2
<1>9. Sorts(NoWindow, E, C) /\ Present(v, s) /\ v.used <= s.used /\ v.resetsAt > t
  <2>1. Sorts(NoWindow, E, C)
    BY <1>8, EmptiesTyped DEF Sorts
  <2>2. Present(v, s)
    BY <1>1 DEF Faithful, Present
  <2> QED
    BY <1>1, <2>1, <2>2
<1>10. Good(v, E, C, s, t, ch)
  BY <1>1, <1>8, <1>9, AnchoredGood
<1> QED
  BY <1>8, <1>10 DEF After

(* The parts of a lane that a file or an adjustment tells of.               *)
Shows(l, w, E, D) == l.active = w /\ l.events = E /\ l.adjustments = D

LEMMA FieldShows ==
  ASSUME NEW l, Lane(l), NEW x, NEW y, NEW z, NEW c
  PROVE  /\ Shows([l EXCEPT !.active = x], x, l.events, l.adjustments)
         /\ Shows([l EXCEPT !.events = x], l.active, x, l.adjustments)
         /\ Shows([l EXCEPT !.adjustments = x], l.active, l.events, x)
         /\ Shows([l EXCEPT !.candidate = x], l.active, l.events, l.adjustments)
         /\ Shows([l EXCEPT !.candidate.lastSeen = x], l.active, l.events, l.adjustments)
         /\ Shows([l EXCEPT !.active = x, !.candidate = y], x, l.events, l.adjustments)
         /\ Shows([l EXCEPT !.active = x, !.events = y, !.adjustments = z, !.candidate = c],
                  x, y, z)
<1>1. Shows([l EXCEPT !.active = x], x, l.events, l.adjustments)
  BY DEF Lane, Shows
<1>2. Shows([l EXCEPT !.events = x], l.active, x, l.adjustments)
  BY DEF Lane, Shows
<1>3. Shows([l EXCEPT !.adjustments = x], l.active, l.events, x)
  BY DEF Lane, Shows
<1>4. Shows([l EXCEPT !.candidate = x], l.active, l.events, l.adjustments)
  BY DEF Lane, Shows
<1>5. Shows([l EXCEPT !.candidate.lastSeen = x], l.active, l.events, l.adjustments)
  BY DEF Lane, Shows
<1>6. Shows([l EXCEPT !.active = x, !.candidate = y], x, l.events, l.adjustments)
  BY DEF Lane, Shows
<1>7. Shows([l EXCEPT !.active = x, !.events = y, !.adjustments = z, !.candidate = c], x, y, z)
  BY DEF Lane, Shows
<1> QED
  BY <1>1, <1>2, <1>3, <1>4, <1>5, <1>6, <1>7

GoodLane(l, s, t, ch) == Good(l.active, l.events, l.adjustments, s, t, ch)

LEMMA LaneSorts ==
  ASSUME NEW l, LaneTyped(l, Nat)
  PROVE  /\ Sorts(l.active, l.events, l.adjustments) /\ Lane(l)
         /\ Sorts(NoWindow, l.events, l.adjustments)
         /\ l.events \subseteq EventOf(Nat) /\ l.adjustments \in Seq(AdjustmentOf(Nat))
         /\ Len(l.adjustments) \in Nat
BY EmptiesTyped DEF LaneTyped, EventsTyped, AdjustmentsTyped, Sorts

(* Lane p is lane l, of which something has been forgotten or completed.    *)
Trims(l, p) ==
  /\ Len(p.adjustments) <= Len(l.adjustments) /\ Within(p.adjustments, l.adjustments)
  /\ p.active = l.active \/ p.active = NoWindow

LEMMA PruneGood ==
  ASSUME NEW l, LaneTyped(l, Nat), NEW s \in Services, NEW t \in Nat, NEW ch \in Nat,
         GoodLane(l, s, t, ch)
  PROVE  /\ GoodLane(PruneLane(l, t), s, t, ch)
         /\ Trims(l, PruneLane(l, t))
         /\ \E S : PruneLane(l, t).adjustments = Only(S, l.adjustments)
<1> DEFINE done == l.active # NoWindow /\ Settled(l.active.resetsAt, t)
           a == IF done THEN NoWindow ELSE l.active
           F == IF done THEN WithEvent(l.events, l.active, t) ELSE l.events
           E == {e \in F : e.resetsAt >= t - Retention}
           S == {d \in Range(l.adjustments) : d.detectedAt >= t - Retention}
           D == Only(S, l.adjustments)
           c == IF Settled(l.candidate.resetsAt, t) \/ l.candidate.lastSeen < t - Retention
                THEN NoCandidate ELSE l.candidate
           kept == [l EXCEPT !.active = a, !.events = E, !.adjustments = D, !.candidate = c]
           p == PruneLane(l, t)
<1>1. p = IF [kept EXCEPT !.tracked = FALSE] = EmptyLane THEN EmptyLane ELSE kept
  BY DEF PruneLane
<1>2. Sorts(l.active, l.events, l.adjustments) /\ l.adjustments \in Seq(AdjustmentOf(Nat)) /\ Lane(l)
      /\ Good(l.active, l.events, l.adjustments, s, t, ch)
  BY LaneSorts DEF GoodLane
<1>3. a = l.active \/ a = NoWindow
  OBVIOUS
<1>4. Good(a, F, l.adjustments, s, t, ch) /\ Sorts(a, F, l.adjustments)
  <2>1. CASE done
    <3>1. Past(l.active, s) \/ (Present(l.active, s) /\ Settled(l.active.resetsAt, t))
      BY <1>2, <2>1 DEF Good
    <3>2. Good(NoWindow, WithEvent(l.events, l.active, t), l.adjustments, s, t, ch)
      BY <1>2, <2>1, <3>1, EventGood
    <3>3. EventsTyped(WithEvent(l.events, l.active, t), Nat)
      BY WithEventTyped DEF LaneTyped
    <3>4. Sorts(NoWindow, WithEvent(l.events, l.active, t), l.adjustments)
      BY <1>2, <3>3, EmptiesTyped DEF Sorts, EventsTyped
    <3> QED
      BY <2>1, <3>2, <3>4
  <2>2. CASE ~done
    BY <1>2, <2>2
  <2> QED
    BY <2>1, <2>2
<1>5. E \in SUBSET F
  OBVIOUS
<1>6. D \in Seq(AdjustmentOf(Nat)) /\ Len(D) <= Len(l.adjustments) /\ Within(D, l.adjustments)
  BY <1>2, OnlyWithin, Zenon
<1> HIDE DEF a, F, E, D, c, S
<1>7. Good(a, E, D, s, t, ch)
  BY <1>4, <1>5, <1>6, FewerGood
<1>8. Shows(kept, a, E, D)
  BY <1>2, FieldShows
<1>9. Lane(kept)
  BY <1>2, FieldsKeep DEF Keeps
<1> HIDE DEF kept
<1>10. Shows(p, a, E, D)
  <2>1. CASE [kept EXCEPT !.tracked = FALSE] = EmptyLane
    <3>1. \A k : Lane(k) => Shows([k EXCEPT !.tracked = FALSE], k.active, k.events, k.adjustments)
      BY DEF Lane, Shows
    <3>2. Shows(EmptyLane, kept.active, kept.events, kept.adjustments)
      BY <1>9, <2>1, <3>1
    <3>3. kept.active = a /\ kept.events = E /\ kept.adjustments = D
      BY <1>8 DEF Shows
    <3> QED
      BY <1>1, <2>1, <3>2, <3>3
  <2>2. CASE [kept EXCEPT !.tracked = FALSE] # EmptyLane
    BY <1>1, <1>8, <2>2
  <2> QED
    BY <2>1, <2>2
<1> HIDE DEF p
<1>11. p.active = a /\ p.events = E /\ p.adjustments = D
  BY <1>10 DEF Shows
<1>12. GoodLane(p, s, t, ch)
  BY <1>7, <1>11 DEF GoodLane
<1>13. Trims(l, p)
  BY <1>3, <1>6, <1>11 DEF Trims
<1>14. \E Z : p.adjustments = Only(Z, l.adjustments)
  BY <1>11 DEF D
<1> QED
  BY <1>12, <1>13, <1>14 DEF p

LEMMA AnchorGood ==
  ASSUME NEW l, LaneTyped(l, Nat), l.active = NoWindow,
         NEW s \in Services, NEW t \in Nat, NEW ch \in Nat, GoodLane(l, s, t, ch),
         NEW r, Faithful(r, s), r.resetsAt > t
  PROVE  /\ GoodLane(Anchor(l, t, r), s, t, ch)
         /\ Anchor(l, t, r).adjustments = l.adjustments
         /\ \/ Anchor(l, t, r).active = NoWindow
            \/ Anchor(l, t, r).active.resetsAt = r.resetsAt
<1> DEFINE v(f) == Proposed(f, r)
           first == [resetsAt |-> r.resetsAt, firstSeen |-> t, lastSeen |-> t]
           m == Anchor(l, t, r)
<1> PICK f : f = l.candidate.firstSeen
  OBVIOUS
<1>1. /\ Lane(l) /\ Sorts(NoWindow, l.events, l.adjustments) /\ l.candidate \in Candidate
      /\ Good(NoWindow, l.events, l.adjustments, s, t, ch)
  BY LaneSorts DEF LaneTyped, GoodLane
<1>2. f \in Nat
  BY <1>1 DEF Candidate
<1>3. \/ m = [l EXCEPT !.active = v(t), !.candidate = NoCandidate]
      \/ m = [l EXCEPT !.candidate = first]
      \/ m = [l EXCEPT !.active = v(f), !.candidate = NoCandidate]
      \/ m = [l EXCEPT !.candidate.lastSeen = t]
  BY DEF Anchor
<1>4. ASSUME NEW g \in Nat
      PROVE  Good(v(g), l.events, l.adjustments, s, t, ch) /\ v(g).resetsAt = r.resetsAt
  <2> PICK x : x = v(g)
    OBVIOUS
  <2>1. /\ x.resetsAt = r.resetsAt /\ x.used = r.used /\ r.used \in Nat /\ r.used = s.used
        /\ x \in WindowOf(Nat)
    BY SortsAre DEF Proposed, WindowOf, Faithful
  <2>2. Present(x, s)
    BY <2>1 DEF Faithful, Present
  <2>3. x.used <= s.used /\ x.resetsAt > t
    BY <2>1
  <2> QED
    BY <1>1, <2>1, <2>2, <2>3, AnchoredGood
<1> HIDE DEF v, first, m
<1>5. \/ Shows(m, v(t), l.events, l.adjustments)
      \/ Shows(m, v(f), l.events, l.adjustments)
      \/ Shows(m, NoWindow, l.events, l.adjustments)
  <2>1. CASE m = [l EXCEPT !.active = v(t), !.candidate = NoCandidate]
    BY <1>1, <2>1, FieldShows
  <2>2. CASE m = [l EXCEPT !.candidate = first]
    BY <1>1, <2>2, FieldShows
  <2>3. CASE m = [l EXCEPT !.active = v(f), !.candidate = NoCandidate]
    BY <1>1, <2>3, FieldShows
  <2>4. CASE m = [l EXCEPT !.candidate.lastSeen = t]
    BY <1>1, <2>4, FieldShows
  <2> QED
    BY <1>3, <2>1, <2>2, <2>3, <2>4
<1>6. GoodLane(m, s, t, ch)
  BY <1>1, <1>2, <1>4, <1>5 DEF GoodLane, Shows
<1>7. m.adjustments = l.adjustments /\ (m.active = NoWindow \/ m.active.resetsAt = r.resetsAt)
  BY <1>2, <1>4, <1>5 DEF Shows
<1> QED
  BY <1>6, <1>7 DEF m

(* Lane m comes from lane l, which the file of revision rev holds, and can  *)
(* be recovered from that file: what the file is owed is the last           *)
(* adjustment, of a window that is no longer anchored as it was.            *)
Kept(rev, l, m, s, t, ch) ==
  /\ GoodLane(m, s, t, ch)
  /\ FileGood(rev, l.active, l.events, m.adjustments, s, t, ch)
  /\ m.active = l.active => Older(m.adjustments, rev)

LaneCaughtUp(rev, l, s, t, ch) ==
  CaughtUp(rev, l.active, l.events, l.adjustments, s, t, ch)

LEMMA TrimKept ==
  ASSUME NEW rev, NEW l, LaneTyped(l, Nat), NEW p, LaneTyped(p, Nat), Trims(l, p),
         NEW s \in Services, NEW t \in Nat, NEW ch \in Nat, LaneCaughtUp(rev, l, s, t, ch),
         NEW m, GoodLane(m, s, t, ch), m.adjustments = p.adjustments
  PROVE  Kept(rev, l, m, s, t, ch)
<1>1. /\ Sorts(l.active, l.events, l.adjustments) /\ p.adjustments \in Seq(AdjustmentOf(Nat))
      /\ Good(l.active, l.events, l.adjustments, s, t, ch) /\ Older(l.adjustments, rev)
      /\ Len(p.adjustments) <= Len(l.adjustments) /\ Within(p.adjustments, l.adjustments)
  BY LaneSorts DEF LaneCaughtUp, CaughtUp, Trims
<1>2. Good(l.active, l.events, p.adjustments, s, t, ch)
  BY <1>1, FewerGood
<1>3. Older(p.adjustments, rev)
  BY <1>1 DEF Older, Within
<1> QED
  BY <1>2, <1>3 DEF Kept, FileGood, CaughtUp

(* Another report of the anchored window.                                   *)
LEMMA ObserveSameKept ==
  ASSUME NEW rev \in Nat \ {0}, meta.coreRevision = rev,
         NEW l, LaneTyped(l, Nat), NEW p, LaneTyped(p, Nat), Trims(l, p),
         NEW s \in Services, NEW t \in Nat, NEW ch \in Nat,
         LaneCaughtUp(rev, l, s, t, ch), GoodLane(p, s, t, ch),
         NEW r, Faithful(r, s), p.active # NoWindow, Equivalent(p.active.resetsAt, r.resetsAt),
         NEW v, v = [p.active EXCEPT !.used = r.used],
         NEW C, C = IF r.used < p.active.used THEN Adjusted(p, t, v) ELSE p.adjustments,
         NEW m, Shows(m, v, p.events, C)
  PROVE  Kept(rev, l, m, s, t, ch)
<1> PICK w : w = p.active
  OBVIOUS
<1> PICK d : d = [rev |-> rev, detectedAt |-> t, before |-> w, after |-> v]
  OBVIOUS
<1>1. /\ w = l.active /\ w = p.active /\ w # NoWindow /\ v = [w EXCEPT !.used = r.used]
      /\ Sorts(w, l.events, l.adjustments) /\ Sorts(w, p.events, p.adjustments)
      /\ p.adjustments \in Seq(AdjustmentOf(Nat)) /\ Len(p.adjustments) \in Nat
      /\ w \in WindowOf(Nat)
  BY LaneSorts DEF Trims, Sorts
<1>2. /\ Good(w, p.events, p.adjustments, s, t, ch)
      /\ Good(w, l.events, l.adjustments, s, t, ch) /\ Older(l.adjustments, rev)
      /\ CaughtUp(rev, w, l.events, l.adjustments, s, t, ch)
      /\ Len(p.adjustments) <= Len(l.adjustments) /\ Within(p.adjustments, l.adjustments)
  BY <1>1 DEF GoodLane, LaneCaughtUp, CaughtUp, Trims
<1>3. Within(p.adjustments, p.adjustments) /\ Len(p.adjustments) <= Len(p.adjustments)
  BY <1>1 DEF Within
<1>4. /\ v \in WindowOf(Nat) /\ v.resetsAt = w.resetsAt /\ v.used = r.used
      /\ Good(v, p.events, p.adjustments, s, t, ch)
      /\ r.used < w.used =>
           \A x \in AdjustmentOf(Nat) : x.before = w /\ x.after = v =>
             Good(v, p.events, WithAdjustment(p.adjustments, x), s, t, ch)
  BY <1>1, <1>2, <1>3, UsageGood
<1>5. r.used < w.used =>
        \A x \in AdjustmentOf(Nat) : x.before = w /\ x.after = v =>
          Good(v, l.events, WithAdjustment(p.adjustments, x), s, t, ch)
  BY <1>1, <1>2, UsageGood
<1>6. d \in AdjustmentOf(Nat) /\ d.before = w /\ d.after = v /\ d.rev = rev
  BY <1>1, <1>4 DEF AdjustmentOf
<1>7. m.active = v /\ m.events = p.events /\ m.adjustments = C
  BY DEF Shows
<1>8. CASE r.used < p.active.used
  <2>1. C = WithAdjustment(p.adjustments, d)
    BY <1>1, <1>8 DEF Adjusted
  <2>2. Good(v, p.events, C, s, t, ch) /\ Good(v, l.events, C, s, t, ch)
    BY <1>1, <1>4, <1>5, <1>6, <1>8, <2>1
  <2>3. After(d) = v
    BY <1>4, <1>6 DEF After, Moved
  <2>4. FileGood(rev, w, l.events, C, s, t, ch)
    BY <1>1, <1>2, <1>6, <2>1, <2>2, <2>3, FileRecords
  <2>5. v # w
    <3>1. w.used \in Nat /\ r.used \in Nat
      BY <1>1, SortsAre DEF Faithful
    <3>2. r.used < w.used /\ v.used = r.used
      BY <1>1, <1>4, <1>8
    <3>3. r.used # w.used
      BY <3>1, <3>2
    <3> QED
      BY <3>2, <3>3, Zenon
  <2> QED
    BY <1>1, <1>7, <2>2, <2>4, <2>5 DEF Kept, GoodLane
<1>9. CASE ~(r.used < p.active.used)
  <2>1. C = p.adjustments
    BY <1>9
  <2>2. GoodLane(m, s, t, ch)
    BY <1>4, <1>7, <2>1 DEF GoodLane
  <2> QED
    BY <1>7, <2>1, <2>2, TrimKept
<1> QED
  BY <1>8, <1>9

(* A report of another window, before the anchored one is due.              *)
LEMMA ObserveEarlyKept ==
  ASSUME NEW rev \in Nat \ {0}, meta.coreRevision = rev,
         NEW l, LaneTyped(l, Nat), NEW p, LaneTyped(p, Nat), Trims(l, p),
         NEW s \in Services, NEW t \in Nat, NEW ch \in Nat,
         LaneCaughtUp(rev, l, s, t, ch), GoodLane(p, s, t, ch),
         NEW r, Faithful(r, s), r.resetsAt > t,
         p.active # NoWindow, ~Equivalent(p.active.resetsAt, r.resetsAt),
         Early(p.active.resetsAt, t),
         NEW u, LaneTyped(u, Nat),
         Shows(u, NoWindow, p.events, Adjusted(p, t, Proposed(t, r)))
  PROVE  Kept(rev, l, Anchor(u, t, r), s, t, ch)
<1> PICK w : w = p.active
  OBVIOUS
<1> PICK v : v = Proposed(t, r)
  OBVIOUS
<1> PICK d : d = [rev |-> rev, detectedAt |-> t, before |-> w, after |-> v]
  OBVIOUS
<1> PICK m : m = Anchor(u, t, r)
  OBVIOUS
<1>1. /\ w = l.active /\ w = p.active /\ w # NoWindow
      /\ Sorts(w, l.events, l.adjustments) /\ Sorts(w, p.events, p.adjustments)
      /\ p.adjustments \in Seq(AdjustmentOf(Nat)) /\ Len(p.adjustments) \in Nat
      /\ w \in WindowOf(Nat)
  BY LaneSorts DEF Trims, Sorts
<1>2. /\ Good(w, p.events, p.adjustments, s, t, ch)
      /\ Good(w, l.events, l.adjustments, s, t, ch)
      /\ CaughtUp(rev, w, l.events, l.adjustments, s, t, ch)
      /\ Len(p.adjustments) <= Len(l.adjustments) /\ Within(p.adjustments, l.adjustments)
  BY <1>1 DEF GoodLane, LaneCaughtUp, CaughtUp, Trims
<1>3. Within(p.adjustments, p.adjustments) /\ Len(p.adjustments) <= Len(p.adjustments)
  BY <1>1 DEF Within
<1>4. v \in WindowOf(Nat)
  BY SortsAre DEF Faithful, Proposed, WindowOf
<1>5. d \in AdjustmentOf(Nat) /\ d.before = w /\ d.after = Proposed(t, r) /\ d.rev = rev
  BY <1>1, <1>4 DEF AdjustmentOf
<1> PICK C : C = WithAdjustment(p.adjustments, d)
  OBVIOUS
<1>6. Good(NoWindow, p.events, C, s, t, ch)
  BY <1>1, <1>2, <1>3, <1>5, ReplacedGood
<1>7. Good(After(d), l.events, C, s, t, ch)
  BY <1>1, <1>2, <1>5, ReplacedGood
<1>8. FileGood(rev, w, l.events, C, s, t, ch)
  BY <1>1, <1>2, <1>5, <1>7, FileRecords
<1>9. u.active = NoWindow /\ u.events = p.events /\ u.adjustments = C
  BY <1>1 DEF Shows, Adjusted
<1>10. GoodLane(u, s, t, ch)
  BY <1>6, <1>9 DEF GoodLane
<1>11. /\ GoodLane(m, s, t, ch) /\ m.adjustments = C
       /\ m.active = NoWindow \/ m.active.resetsAt = r.resetsAt
  BY <1>9, <1>10, AnchorGood
<1>12. m.active # w
  <2>1. w.resetsAt # r.resetsAt
    BY <1>1, SortsAre DEF Equivalent, Faithful
  <2> QED
    BY <1>1, <1>11, <2>1
<1> QED
  BY <1>1, <1>8, <1>11, <1>12 DEF Kept

LEMMA ObserveKept ==
  ASSUME NEW rev \in Nat \ {0}, meta.coreRevision = rev,
         NEW l, LaneTyped(l, Nat), NEW p, LaneTyped(p, Nat), Trims(l, p),
         NEW s \in Services, NEW t \in Nat, NEW ch \in Nat,
         LaneCaughtUp(rev, l, s, t, ch), GoodLane(p, s, t, ch), NEW r, Faithful(r, s)
  PROVE  Kept(rev, l, ObserveWindow(p, t, r), s, t, ch)
<1> DEFINE heard == p.tracked /\ Believable(r.resetsAt, t)
           u == [p EXCEPT !.active = NoWindow]
<1>1. /\ Lane(p) /\ NoWindow \in WindowOf(Nat) /\ NoCandidate \in Candidate
      /\ Reported(r, Nat) /\ 0 \in Nat
      /\ Good(p.active, p.events, p.adjustments, s, t, ch)
      /\ Sorts(p.active, p.events, p.adjustments)
  BY LaneSorts, EmptiesTyped, SortsAre DEF Faithful, Reported, GoodLane
<1>2. heard => r.resetsAt > t
  BY DEF Believable
<1>3. LaneTyped(u, Nat) /\ Shows(u, NoWindow, p.events, p.adjustments)
  BY <1>1, FieldTyped, FieldShows
<1>4. CASE ~heard
  <2>1. ObserveWindow(p, t, r) = p
    BY <1>4 DEF ObserveWindow
  <2> QED
    BY <2>1, TrimKept
<1>5. CASE heard /\ p.active = NoWindow
  <2>1. ObserveWindow(p, t, r) = Anchor(p, t, r)
    BY <1>5 DEF ObserveWindow
  <2>2. GoodLane(Anchor(p, t, r), s, t, ch) /\ Anchor(p, t, r).adjustments = p.adjustments
    BY <1>2, <1>5, AnchorGood
  <2> QED
    BY <2>1, <2>2, TrimKept
<1>6. CASE heard /\ p.active # NoWindow /\ Equivalent(p.active.resetsAt, r.resetsAt)
  <2> PICK v : v = [p.active EXCEPT !.used = r.used]
    OBVIOUS
  <2> PICK C : C = IF r.used < p.active.used THEN Adjusted(p, t, v) ELSE p.adjustments
    OBVIOUS
  <2>1. ObserveWindow(p, t, r) =
          [p EXCEPT !.candidate = NoCandidate, !.active.used = r.used, !.adjustments = C]
    BY <1>6 DEF ObserveWindow
  <2>2. Shows(ObserveWindow(p, t, r), v, p.events, C)
    <3>1. Shows([p EXCEPT !.candidate = NoCandidate, !.active.used = r.used, !.adjustments = C],
                [p.active EXCEPT !.used = r.used], p.events, C)
      <4>1. \A k, x, y, z : Lane(k) =>
              Shows([k EXCEPT !.candidate = x, !.active.used = y, !.adjustments = z],
                    [k.active EXCEPT !.used = y], k.events, z)
        BY DEF Lane, Shows
      <4> QED
        BY <1>1, <4>1
    <3> QED
      BY <2>1, <3>1
  <2> QED
    BY <1>6, <2>2, ObserveSameKept
<1>7. CASE /\ heard /\ p.active # NoWindow /\ ~Equivalent(p.active.resetsAt, r.resetsAt)
           /\ Early(p.active.resetsAt, t)
  <2> PICK D : D = Adjusted(p, t, Proposed(t, r))
    OBVIOUS
  <2>1. ObserveWindow(p, t, r) =
          Anchor([u EXCEPT !.candidate = NoCandidate, !.adjustments = D], t, r)
    BY <1>7 DEF ObserveWindow
  <2> HIDE DEF u
  <2> PICK k : k = [u EXCEPT !.candidate = NoCandidate]
    OBVIOUS
  <2> PICK x : x = [k EXCEPT !.adjustments = D]
    OBVIOUS
  <2>2. LaneTyped(k, Nat) /\ Shows(k, NoWindow, p.events, p.adjustments) /\ Lane(k) /\ Lane(u)
    <3>1. LaneTyped(k, Nat) /\ Lane(u)
      BY <1>1, <1>3, FieldTyped DEF LaneTyped
    <3>2. Shows(k, u.active, u.events, u.adjustments)
      BY <3>1, FieldShows
    <3> QED
      BY <1>3, <3>1, <3>2 DEF Shows, LaneTyped
  <2>3. AdjustmentsTyped(D, Nat)
    <3>1. Proposed(t, r) \in WindowOf(Nat) /\ Proposed(t, r).resetsAt = r.resetsAt
      BY <1>1 DEF Proposed, WindowOf, Reported
    <3>2. p.active.resetsAt # r.resetsAt
      BY <1>1, <1>7, NotEquivalent DEF LaneTyped, WindowOf
    <3> QED
      BY <3>1, <3>2, AdjustedTyped
  <2>4. LaneTyped(x, Nat)
    BY <2>2, <2>3, FieldTyped
  <2>5. Shows(x, k.active, k.events, D)
    BY <2>2, FieldShows
  <2>6. Shows(x, NoWindow, p.events, D)
    BY <2>2, <2>5 DEF Shows
  <2>7. ObserveWindow(p, t, r) = Anchor(x, t, r)
    BY <2>1
  <2> QED
    BY <1>2, <1>7, <2>4, <2>6, <2>7, ObserveEarlyKept
<1>8. CASE /\ heard /\ p.active # NoWindow /\ ~Equivalent(p.active.resetsAt, r.resetsAt)
           /\ ~Early(p.active.resetsAt, t)
  <2> PICK E : E = WithEvent(p.events, p.active, t)
    OBVIOUS
  <2> PICK x : x = [u EXCEPT !.events = E]
    OBVIOUS
  <2>1. ObserveWindow(p, t, r) = Anchor(x, t, r)
    BY <1>8 DEF ObserveWindow
  <2> HIDE DEF u
  <2>2. EventsTyped(E, Nat)
    BY WithEventTyped DEF LaneTyped
  <2>3. LaneTyped(x, Nat) /\ Lane(u)
    BY <1>3, <2>2, FieldTyped DEF LaneTyped
  <2>4. Shows(x, u.active, E, u.adjustments)
    BY <2>3, FieldShows
  <2>5. x.active = NoWindow /\ x.events = E /\ x.adjustments = p.adjustments
    BY <1>3, <2>4 DEF Shows
  <2>6. Past(p.active, s)
    <3>1. p.active \in WindowOf(Nat) /\ (Present(p.active, s) \/ Past(p.active, s))
      BY <1>1, <1>8 DEF Good, Sorts
    <3> QED
      BY <1>8, <3>1, SeenWindow
  <2>7. Good(NoWindow, E, p.adjustments, s, t, ch)
    BY <1>1, <1>8, <2>6, EventGood
  <2>8. GoodLane(x, s, t, ch)
    BY <2>5, <2>7 DEF GoodLane
  <2>9. GoodLane(Anchor(x, t, r), s, t, ch) /\ Anchor(x, t, r).adjustments = p.adjustments
    BY <1>2, <1>8, <2>3, <2>5, <2>8, AnchorGood
  <2> QED
    BY <2>1, <2>9, TrimKept
<1> QED
  BY <1>4, <1>5, <1>6, <1>7, <1>8

LEMMA RebaselineKept ==
  ASSUME NEW rev \in Nat \ {0}, meta.coreRevision = rev,
         NEW l, LaneTyped(l, Nat), NEW p, LaneTyped(p, Nat), Trims(l, p),
         NEW s \in Services, NEW t \in Nat, NEW ch \in Nat,
         LaneCaughtUp(rev, l, s, t, ch), GoodLane(p, s, t, ch), NEW r, Faithful(r, s)
  PROVE  Kept(rev, l, RebaselineWindow(p, t, r), s, t, ch)
<1> DEFINE c == [p EXCEPT !.candidate = NoCandidate]
           m == RebaselineWindow(p, t, r)
           x == [c EXCEPT !.active = NoWindow]
           y == [c EXCEPT !.active.used = r.used]
<1>1. /\ Lane(p) /\ 0 \in Nat /\ NoWindow \in WindowOf(Nat) /\ NoCandidate \in Candidate
      /\ Reported(r, Nat)
      /\ Good(p.active, p.events, p.adjustments, s, t, ch)
      /\ Sorts(p.active, p.events, p.adjustments)
      /\ p.adjustments \in Seq(AdjustmentOf(Nat)) /\ Len(p.adjustments) \in Nat
  BY LaneSorts, EmptiesTyped, SortsAre DEF Faithful, Reported, GoodLane
<1>2. \/ m = p
      \/ m = y /\ p.active # NoWindow /\ Equivalent(p.active.resetsAt, r.resetsAt)
      \/ m = ObserveWindow(p, t, r)
      \/ m = Anchor(x, t, r) /\ r.resetsAt > t
  BY DEF RebaselineWindow, Believable
<1> HIDE DEF m
<1>3. LaneTyped(c, Nat) /\ Shows(c, p.active, p.events, p.adjustments)
  BY <1>1, FieldTyped, FieldShows
<1> HIDE DEF c
<1>4. CASE m = p
  BY <1>4, TrimKept DEF m
<1>5. CASE m = y /\ p.active # NoWindow /\ Equivalent(p.active.resetsAt, r.resetsAt)
  <2> PICK v : v = [p.active EXCEPT !.used = r.used]
    OBVIOUS
  <2>1. Lane(c) /\ c.active = p.active /\ c.events = p.events /\ c.adjustments = p.adjustments
    BY <1>3 DEF LaneTyped, Shows
  <2>2. y.active = v /\ y.events = p.events /\ y.adjustments = p.adjustments
    <3>1. \A k, z : Lane(k) => Shows([k EXCEPT !.active.used = z],
                                     [k.active EXCEPT !.used = z], k.events, k.adjustments)
      BY DEF Lane, Shows
    <3> QED
      BY <2>1, <3>1 DEF Shows
  <2>3. Within(p.adjustments, p.adjustments) /\ Len(p.adjustments) <= Len(p.adjustments)
    BY <1>1 DEF Within
  <2>4. Good(v, p.events, p.adjustments, s, t, ch)
    BY <1>1, <1>5, <2>3, UsageGood
  <2>5. GoodLane(y, s, t, ch)
    BY <2>2, <2>4 DEF GoodLane
  <2> QED
    BY <1>5, <2>2, <2>5, TrimKept DEF m
<1>6. CASE m = ObserveWindow(p, t, r)
  BY <1>6, ObserveKept DEF m
<1>7. CASE m = Anchor(x, t, r) /\ r.resetsAt > t
  <2>1. LaneTyped(x, Nat) /\ Lane(c)
    BY <1>1, <1>3, FieldTyped DEF LaneTyped
  <2>2. Shows(x, NoWindow, c.events, c.adjustments)
    BY <2>1, FieldShows
  <2> HIDE DEF x
  <2>3. x.active = NoWindow /\ x.events = p.events /\ x.adjustments = p.adjustments
    BY <1>3, <2>2 DEF Shows
  <2>4. Good(NoWindow, p.events, p.adjustments, s, t, ch)
    BY <1>1, NoneGood
  <2>5. GoodLane(x, s, t, ch)
    BY <2>3, <2>4 DEF GoodLane
  <2>6. GoodLane(Anchor(x, t, r), s, t, ch) /\ Anchor(x, t, r).adjustments = p.adjustments
    BY <1>7, <2>1, <2>3, <2>5, AnchorGood
  <2> QED
    BY <1>7, <2>6, TrimKept DEF m
<1> QED
  BY <1>2, <1>4, <1>5, <1>6, <1>7 DEF m

-----------------------------------------------------------------------------
(* The tracker and both its files, beside the service: a start finds in     *)
(* the two files, whichever of them a crash has left behind, what brings    *)
(* them together.                                                           *)

FileFacts(D, s, t, ch) ==
  FileGood(core.revision, core.lanes[Account].active, core.lanes[Account].events, D, s, t, ch)

RecoveryInv ==
  /\ server \in Services /\ changes \in Nat
  /\ ~meta.degraded
  /\ phase # "down" /\ meta.dirty => meta.revision > core.revision
  /\ FileFacts(sidecar.lanes[Account].adjustments, server, now, changes)
  /\ GoodLane(Known, server, now, changes)
  /\ phase # "down" =>
       /\ FileFacts(Known.adjustments, server, now, changes)
       /\ ~meta.dirty => Older(Known.adjustments, core.revision)

TrackerInv == FileInv /\ LimitInv /\ TypedInv(Nat)

LEMMA OneAccount == Account \in Accounts
BY NoisesAssumption

(* A report of the service, within the jitter band.                         *)
LEMMA ReportIs ==
  ASSUME server \in Services, NEW noise \in Noises,
         NEW r, r = [server EXCEPT !.resetsAt = @ + noise]
  PROVE  Faithful(r, server) /\ Reported(r, Nat)
<1>1. noise \in 0..Jitter /\ Jitter \in Nat /\ server.resetsAt \in Nat /\ server.used \in Nat
  BY NoisesAssumption, SortsAre
<1>2. r.resetsAt = server.resetsAt + noise /\ r.used = server.used
  BY DEF Services
<1> QED
  BY <1>1, <1>2 DEF Faithful, Reported, Present

(* What holds of the tracker alone holds whatever the service reports.      *)
LEMMA TrackerStepKeeps ==
  ASSUME TrackerInv, server \in Services, [RecoveryNext]_recoveryVars
  PROVE  TrackerInv'
<1>1. Account \in Accounts /\ 0 \in Nat /\ Used \subseteq Nat
  BY OneAccount, BoundsAssumption
<1>2. ASSUME NEW rebaseline, NEW noise \in Noises, Report(rebaseline, noise)
      PROVE  TrackerInv'
  <2> PICK r : r = [server EXCEPT !.resetsAt = @ + noise]
    OBVIOUS
  <2>1. Reported(r, Nat) /\ ApplySnapshot(Account, r, rebaseline)
    BY <1>2, ReportIs DEF Report
  <2>2. FileInv'
    BY <1>1, <2>1, ApplyKeeps DEF TrackerInv
  <2>3. Lanes(lanes') /\ Fits(lanes')
    BY <1>1, <2>1, ApplyFits DEF TrackerInv
  <2>4. LimitInv'
    <3>1. UNCHANGED <<core, sidecar>>
      BY <2>1 DEF ApplySnapshot, Commit
    <3> QED
      BY <2>3, <3>1 DEF TrackerInv, LimitInv, Lanes, Fits, Tracked
  <2>5. TypedInv(Nat)'
    BY <1>1, <2>1, AppliedTyped DEF TrackerInv
  <2> QED
    BY <2>2, <2>4, <2>5 DEF TrackerInv
<1>3. ASSUME [HistoryNext]_hvars PROVE TrackerInv'
  <2>1. FileInv'
    BY <1>3, FileStep DEF TrackerInv
  <2>2. LimitInv'
    BY <1>3, <2>1, LimitStep DEF TrackerInv
  <2>3. TypedInv(Nat)'
    BY <1>1, <1>3, TypedStep DEF TrackerInv
  <2> QED
    BY <2>1, <2>2, <2>3 DEF TrackerInv
<1>4. CASE TrackerStep
  <2>1. HistoryNext
    BY <1>4 DEF TrackerStep, HistoryNext
  <2> QED
    BY <1>3, <2>1
<1>5. CASE Consume \/ EarlyChange \/ (\E u \in Used : Rollover(u)) \/ UNCHANGED recoveryVars
  <2>1. UNCHANGED hvars
    BY <1>5 DEF Consume, EarlyChange, Refund, EarlyReset, Rollover, ServerChanges, recoveryVars
  <2> QED
    BY <1>3, <2>1
<1> QED
  BY <1>2, <1>4, <1>5 DEF RecoveryNext

(* Between two operations the file holds what memory holds.                 *)
LEMMA ReadyFacts ==
  ASSUME TrackerInv, RecoveryInv, Ready
  PROVE  /\ phase = "serving" /\ ~meta.dirty
         /\ core.lanes[Account].active = Known.active
         /\ core.lanes[Account].events = Known.events
         /\ core.revision = meta.coreRevision /\ meta.coreRevision \in Nat \ {0}
         /\ LaneCaughtUp(meta.coreRevision, Known, server, now, changes)
         /\ LaneTyped(Known, Nat) /\ now \in Nat
<1>1. /\ FileInv /\ LanesTyped(lanes, Nat) /\ now \in Nat /\ RevisionInv
      /\ phase = "serving" /\ step = "none"
  BY DEF TrackerInv, TypedInv, Ready
<1>2. ~meta.dirty
  BY <1>1 DEF FileInv, PhaseInv, RecoveryInv
<1>3. core.lanes[Account] = CorePart(lanes[Account]) /\ meta.coreRevision = core.revision
  BY <1>1, <1>2, OneAccount DEF FileInv, OwedInv, CoreHolds
<1>4. core.lanes[Account].active = Known.active /\ core.lanes[Account].events = Known.events
  <2>1. \A l : CorePart(l).active = l.active /\ CorePart(l).events = l.events
    BY DEF CorePart
  <2> QED
    BY <1>3, <2>1 DEF Known
<1>5. meta.coreRevision \in Nat \ {0}
  BY <1>1 DEF RevisionInv, FileInv, Metas
<1>6. LaneTyped(Known, Nat)
  BY <1>1, OneAccount DEF LanesTyped, Known
<1>7. Older(Known.adjustments, meta.coreRevision) /\ GoodLane(Known, server, now, changes)
  BY <1>1, <1>2, <1>3 DEF RecoveryInv
<1> QED
  BY <1>1, <1>2, <1>3, <1>4, <1>5, <1>6, <1>7 DEF LaneCaughtUp, CaughtUp, GoodLane

(* An operation on memory that leaves a lane which can be recovered.        *)
LEMMA MemoryGood ==
  ASSUME TrackerInv, TrackerInv', RecoveryInv, Ready, UNCHANGED <<server, changes>>,
         NEW ls, NEW c \in BOOLEAN, NEW d \in BOOLEAN, Commit(ls, c, d),
         Kept(meta.coreRevision, Known, ls[Account], server, now, changes)
  PROVE  RecoveryInv'
<1> PICK l : l = ls[Account]
  OBVIOUS
<1>1. /\ phase = "serving" /\ ~meta.dirty
      /\ core.lanes[Account].active = Known.active
      /\ core.lanes[Account].events = Known.events
      /\ core.revision = meta.coreRevision
  BY ReadyFacts
<1>2. /\ lanes' = ls /\ Known' = l
      /\ UNCHANGED <<now, phase, core, sidecar, server, changes>>
      /\ meta' = [meta EXCEPT !.revision = IF c \/ d THEN @ + 1 ELSE @,
                              !.dirty = @ \/ c, !.adjustmentsDirty = @ \/ d]
  BY DEF Commit, Known
<1>3. meta \in Metas /\ core.revision \in Nat /\ meta.revision >= core.revision
  BY <1>1 DEF TrackerInv, FileInv, FileTypes, OwedInv
<1>4. /\ meta'.degraded = meta.degraded
      /\ meta'.revision = IF c \/ d THEN meta.revision + 1 ELSE meta.revision
      /\ meta'.dirty = (meta.dirty \/ c)
  BY <1>2, <1>3 DEF Metas
<1>5. meta'.dirty => meta'.revision > core.revision
  <2>1. meta'.dirty => c
    BY <1>1, <1>4
  <2>2. c => meta'.revision = meta.revision + 1
    BY <1>4
  <2>3. meta.revision \in Nat
    BY <1>3 DEF Metas
  <2>4. meta'.revision = meta.revision + 1 => meta'.revision > core.revision
    BY <1>3, <2>3
  <2> QED
    BY <2>1, <2>2, <2>4
<1>6. /\ GoodLane(l, server, now, changes)
      /\ FileFacts(l.adjustments, server, now, changes)
      /\ l.active = Known.active => Older(l.adjustments, core.revision)
  BY <1>1 DEF Kept, FileFacts
<1>7. ~meta'.dirty => l.active = Known.active
  <2>1. ~meta'.dirty => core'.lanes[Account] = CorePart(lanes'[Account])
    BY <1>1, <1>2, OneAccount DEF TrackerInv, FileInv, OwedInv, CoreHolds
  <2>2. CorePart(l).active = l.active
    BY DEF CorePart
  <2> QED
    BY <1>1, <1>2, <2>1, <2>2
<1>8. server' \in Services /\ changes' \in Nat /\ ~meta'.degraded
  BY <1>2, <1>4 DEF RecoveryInv
<1>9. phase' # "down" /\ meta'.dirty => meta'.revision > core'.revision
  BY <1>2, <1>5
<1>10. FileFacts(sidecar.lanes[Account].adjustments, server, now, changes)'
  BY <1>2 DEF RecoveryInv, FileFacts
<1>11. GoodLane(Known, server, now, changes)'
  BY <1>2, <1>6 DEF GoodLane
<1>12. FileFacts(Known.adjustments, server, now, changes)'
  BY <1>2, <1>6 DEF FileFacts
<1>13. ~meta'.dirty => Older(Known.adjustments, core.revision)'
  BY <1>2, <1>6, <1>7 DEF Older
<1> QED
  BY <1>8, <1>9, <1>10, <1>11, <1>12, <1>13 DEF RecoveryInv

LEMMA SnapshotGood ==
  ASSUME TrackerInv, TrackerInv', RecoveryInv, Snapshot, UNCHANGED <<server, changes>>
  PROVE  RecoveryInv'
<1> DEFINE c == CoreDiffers(lanes, Prune(lanes, now))
           d == SidecarDiffers(lanes, Prune(lanes, now))
<1> PICK ls : ls = Prune(lanes, now)
  OBVIOUS
<1>1. Ready /\ Commit(ls, c, d)
  BY DEF Snapshot
<1>2. c \in BOOLEAN /\ d \in BOOLEAN
  BY DEF CoreDiffers, SidecarDiffers
<1> HIDE DEF c, d
<1>3. /\ LaneCaughtUp(meta.coreRevision, Known, server, now, changes)
      /\ LaneTyped(Known, Nat) /\ now \in Nat
  BY <1>1, ReadyFacts
<1>4. server \in Services /\ changes \in Nat /\ GoodLane(Known, server, now, changes)
  BY DEF RecoveryInv
<1> PICK p : p = PruneLane(Known, now)
  OBVIOUS
<1>5. GoodLane(p, server, now, changes) /\ Trims(Known, p) /\ LaneTyped(p, Nat)
  BY <1>3, <1>4, PruneGood, PruneTyped
<1>6. Kept(meta.coreRevision, Known, p, server, now, changes)
  BY <1>3, <1>4, <1>5, TrimKept
<1>7. ls[Account] = p
  BY OneAccount DEF Prune, Known
<1> QED
  BY <1>1, <1>2, <1>6, <1>7, MemoryGood

LEMMA ReportGood ==
  ASSUME TrackerInv, TrackerInv', RecoveryInv, NEW rebaseline, NEW noise \in Noises,
         Report(rebaseline, noise)
  PROVE  RecoveryInv'
<1> PICK r : r = [server EXCEPT !.resetsAt = @ + noise]
  OBVIOUS
<1> PICK pruned : pruned = Prune(lanes, now)
  OBVIOUS
<1> PICK ensured : ensured = Ensure(pruned, Account)
  OBVIOUS
<1> PICK m : m = IF rebaseline THEN RebaselineWindow(ensured[Account], now, r)
                               ELSE ObserveWindow(ensured[Account], now, r)
  OBVIOUS
<1> PICK seen : seen = [ensured EXCEPT ![Account] = m]
  OBVIOUS
<1> DEFINE stages == {<<lanes, pruned>>, <<pruned, ensured>>, <<ensured, seen>>}
           c == \E x \in stages : CoreDiffers(x[1], x[2])
           d == \E x \in stages : SidecarDiffers(x[1], x[2])
<1>1. Ready /\ Commit(seen, c, d) /\ UNCHANGED <<server, changes>>
  BY DEF Report, ApplySnapshot, ServerUnchanged
<1>2. c \in BOOLEAN /\ d \in BOOLEAN
  OBVIOUS
<1> HIDE DEF c, d
<1>3. /\ LaneCaughtUp(meta.coreRevision, Known, server, now, changes)
      /\ LaneTyped(Known, Nat) /\ now \in Nat /\ phase = "serving"
      /\ meta.coreRevision \in Nat \ {0}
  BY <1>1, ReadyFacts
<1>4. server \in Services /\ changes \in Nat /\ GoodLane(Known, server, now, changes)
  BY DEF RecoveryInv
<1>5. Faithful(r, server)
  BY <1>4, ReportIs
<1> PICK k : k = PruneLane(Known, now)
  OBVIOUS
<1>6. GoodLane(k, server, now, changes) /\ Trims(Known, k) /\ LaneTyped(k, Nat)
  BY <1>3, <1>4, PruneGood, PruneTyped
<1>7. pruned[Account] = k /\ Lanes(pruned) /\ Fits(pruned)
  <2>1. Lanes(lanes) /\ Fits(lanes)
    BY <1>3 DEF TrackerInv, LimitInv
  <2> QED
    BY <2>1, OneAccount, PruneFits DEF Prune, Known
<1> PICK p : p = ensured[Account]
  OBVIOUS
<1>8. LaneTyped(p, Nat) /\ Shows(p, k.active, k.events, k.adjustments)
  <2>1. CASE Cardinality(Tracked(pruned)) < MaxAccounts
    <3> PICK x : x = [k EXCEPT !.tracked = TRUE]
      OBVIOUS
    <3>1. p = x
      BY <1>7, <2>1, OneAccount DEF Ensure, Lanes
    <3>2. Lane(k)
      BY <1>6 DEF LaneTyped
    <3>3. /\ Lane(x) /\ x.active = k.active /\ x.events = k.events
          /\ x.adjustments = k.adjustments /\ x.candidate = k.candidate
      BY <3>2 DEF Lane
    <3>4. LaneTyped(x, Nat)
      BY <1>6, <3>3 DEF LaneTyped
    <3> QED
      BY <3>1, <3>3, <3>4 DEF Shows
  <2>2. CASE ~(Cardinality(Tracked(pruned)) < MaxAccounts)
    <3>1. p = k
      BY <1>7, <2>2 DEF Ensure
    <3> QED
      BY <1>6, <3>1 DEF Shows
  <2> QED
    BY <2>1, <2>2
<1>9. GoodLane(p, server, now, changes) /\ Trims(Known, p)
  BY <1>6, <1>8 DEF Shows, GoodLane, Trims
<1>10. Kept(meta.coreRevision, Known, m, server, now, changes)
  BY <1>3, <1>4, <1>5, <1>8, <1>9, ObserveKept, RebaselineKept
<1>11. seen[Account] = m
  <2>1. Lanes(ensured)
    BY <1>7, EnsureFits, OneAccount
  <2> QED
    BY <2>1, OneAccount DEF Lanes
<1> QED
  BY <1>1, <1>2, <1>10, <1>11, MemoryGood

(* With one account there is always room for what is to be written, so that *)
(* a write only fails where writes fail.                                    *)
LEMMA WritesSucceed ==
  ASSUME Faults \subseteq {"crash"}, NEW outcome, Attempt(outcome)
  PROVE  outcome = "ok"
<1>1. Cardinality(Tracked(lanes)) <= MaxAccounts
  <2> PICK T : T = Tracked(lanes)
    OBVIOUS
  <2>1. T \subseteq {Account}
    BY NoisesAssumption DEF Tracked
  <2>2. T = {} \/ T = {Account}
    BY <2>1
  <2>3. Cardinality(T) = 0 \/ Cardinality(T) = 1
    <3>1. Cardinality({}) = 0
      BY FS_EmptySet
    <3>2. Cardinality({Account}) = 1
      BY FS_Singleton
    <3> QED
      BY <2>2, <3>1, <3>2
  <2>4. MaxAccounts \in Nat \ {0} /\ Cardinality(T) \in Nat
    BY BoundsAssumption, TrackedFinite
  <2> QED
    BY <2>3, <2>4
<1>2. Written(outcome)
  <2>1. MaxAccounts \in Nat /\ Cardinality(Tracked(lanes)) \in Nat
    BY BoundsAssumption, TrackedFinite
  <2> QED
    BY <1>1, <2>1 DEF Attempt
<1> QED
  BY <1>2 DEF Written

LEMMA SidecarWriteGood ==
  ASSUME TrackerInv, TrackerInv', RecoveryInv, Faults \subseteq {"crash"},
         NEW outcome, WriteSidecar(outcome), UNCHANGED <<server, changes>>
  PROVE  RecoveryInv'
<1>1. outcome = "ok" /\ step = "sidecar"
  BY WritesSucceed DEF WriteSidecar
<1> PICK m : m = [meta EXCEPT !.adjustmentsDirty = FALSE]
  OBVIOUS
<1>2. /\ sidecar' = [revision |-> meta.revision,
                     lanes |-> [a \in Accounts |-> SidecarPart(lanes[a])]]
      /\ WriteOk(m) /\ UNCHANGED <<now, core>>
  BY <1>1 DEF WriteSidecar, Replaces
<1>3. phase # "down" /\ meta \in Metas
  BY <1>1 DEF TrackerInv, FileInv, PhaseInv
<1>4. /\ m.degraded = meta.degraded /\ m.dirty = meta.dirty /\ m.revision = meta.revision
      /\ m \in Metas
  BY <1>3 DEF Metas
<1>5. /\ meta'.degraded = (m.degraded /\ NextStep(m) # "none")
      /\ meta'.dirty = m.dirty /\ meta'.revision = m.revision
      /\ lanes' = lanes
  BY <1>2, <1>4 DEF WriteOk, Metas
<1>6. sidecar'.lanes[Account].adjustments = Known.adjustments
  BY <1>2, OneAccount DEF SidecarPart, Known
<1>7. /\ FileFacts(Known.adjustments, server, now, changes)
      /\ ~meta.dirty => Older(Known.adjustments, core.revision)
      /\ meta.dirty => meta.revision > core.revision
      /\ ~meta.degraded /\ GoodLane(Known, server, now, changes)
      /\ server \in Services /\ changes \in Nat
  BY <1>3 DEF RecoveryInv
<1>8. FileFacts(sidecar.lanes[Account].adjustments, server, now, changes)'
  BY <1>2, <1>6, <1>7 DEF FileFacts
<1>9. FileFacts(Known.adjustments, server, now, changes)'
  BY <1>2, <1>5, <1>7 DEF FileFacts, Known
<1>10. GoodLane(Known, server, now, changes)'
  BY <1>2, <1>5, <1>7 DEF GoodLane, Known
<1>11. ~meta'.dirty => Older(Known.adjustments, core.revision)'
  BY <1>2, <1>4, <1>5, <1>7 DEF Older, Known
<1>12. meta'.dirty => meta'.revision > core'.revision
  BY <1>2, <1>4, <1>5, <1>7
<1>13. ~meta'.degraded
  BY <1>4, <1>5, <1>7
<1> QED
  BY <1>7, <1>8, <1>9, <1>10, <1>11, <1>12, <1>13 DEF RecoveryInv

LEMMA CoreWriteGood ==
  ASSUME TrackerInv, TrackerInv', RecoveryInv, Faults \subseteq {"crash"},
         NEW outcome, WriteCore(outcome), UNCHANGED <<server, changes>>
  PROVE  RecoveryInv'
<1>1. outcome = "ok" /\ step = "core"
  BY WritesSucceed DEF WriteCore
<1> PICK m : m = [meta EXCEPT !.dirty = FALSE, !.coreRevision = meta.revision]
  OBVIOUS
<1>2. /\ core' = [revision |-> meta.revision,
                  lanes |-> [a \in Accounts |-> CorePart(lanes[a])]]
      /\ WriteOk(m) /\ UNCHANGED <<now, sidecar>>
  BY <1>1 DEF WriteCore, Replaces
<1>3. /\ phase # "down" /\ meta \in Metas /\ meta.dirty /\ ~meta.adjustmentsDirty
      /\ core.revision \in Nat /\ meta.revision \in Nat
      /\ sidecar.lanes[Account] = SidecarPart(lanes[Account])
  BY <1>1, OneAccount DEF TrackerInv, FileInv, PhaseInv, OwedInv, SidecarHolds, FileTypes, Metas
<1>4. m.degraded = meta.degraded /\ m.dirty = FALSE /\ m.revision = meta.revision /\ m \in Metas
  BY <1>3 DEF Metas
<1>5. /\ meta'.degraded = (m.degraded /\ NextStep(m) # "none")
      /\ meta'.dirty = m.dirty /\ lanes' = lanes
  BY <1>2, <1>4 DEF WriteOk, Metas
<1>6. /\ core'.revision = meta.revision
      /\ core'.lanes[Account].active = Known.active
      /\ core'.lanes[Account].events = Known.events
  BY <1>2, OneAccount DEF CorePart, Known
<1>7. sidecar.lanes[Account].adjustments = Known.adjustments
  <2>1. \A l : SidecarPart(l).adjustments = l.adjustments
    BY DEF SidecarPart
  <2> QED
    BY <1>3, <2>1 DEF Known
<1>8. /\ FileFacts(Known.adjustments, server, now, changes)
      /\ meta.revision > core.revision
      /\ ~meta.degraded /\ GoodLane(Known, server, now, changes)
      /\ server \in Services /\ changes \in Nat
  BY <1>3 DEF RecoveryInv
<1>9. Older(Known.adjustments, meta.revision)
  <2> PICK D : D = Known.adjustments
    OBVIOUS
  <2> PICK q \in Nat : q = core.revision
    BY <1>3
  <2> PICK n \in Nat : n = meta.revision
    BY <1>3
  <2>1. D \in Seq(AdjustmentOf(Nat))
    BY OneAccount, LaneSorts DEF TrackerInv, TypedInv, LanesTyped, Known
  <2>2. Older(D, q) \/ (D # <<>> /\ D[Len(D)].rev = q /\ Older(AllButLast(D), q))
    BY <1>8 DEF FileFacts, FileGood, CaughtUp, Owes
  <2>3. ASSUME NEW i \in 1..Len(D) PROVE D[i].rev < n
    <3>1. D[i].rev \in Nat /\ q < n
      BY <1>8, <2>1, PlacesAre
    <3>2. CASE Older(D, q)
      BY <3>1, <3>2 DEF Older
    <3>3. CASE D # <<>> /\ D[Len(D)].rev = q /\ Older(AllButLast(D), q)
      <4>1. Len(AllButLast(D)) = Len(D) - 1 /\ Len(D) \in Nat
            /\ \A j \in 1..(Len(D) - 1) : AllButLast(D)[j] = D[j]
        BY <2>1, <3>3, AllButLastIs
      <4>2. i = Len(D) \/ (i \in 1..(Len(D) - 1) /\ i \in 1..Len(AllButLast(D)))
        BY <4>1
      <4>3. D[i].rev = q \/ D[i].rev < q
        BY <3>3, <4>1, <4>2 DEF Older
      <4> QED
        BY <3>1, <4>3
    <3> QED
      BY <2>2, <3>2, <3>3
  <2> QED
    BY <2>3 DEF Older
<1>10. FileGood(meta.revision, Known.active, Known.events, Known.adjustments, server, now, changes)
  BY <1>8, <1>9 DEF FileGood, CaughtUp, GoodLane
<1>11. FileFacts(sidecar.lanes[Account].adjustments, server, now, changes)'
  BY <1>2, <1>6, <1>7, <1>10 DEF FileFacts
<1>12. FileFacts(Known.adjustments, server, now, changes)'
  BY <1>2, <1>5, <1>6, <1>10 DEF FileFacts, Known
<1>13. GoodLane(Known, server, now, changes)'
  BY <1>2, <1>5, <1>8 DEF GoodLane, Known
<1>14. Older(Known.adjustments, core.revision)'
  BY <1>5, <1>6, <1>9 DEF Older, Known
<1>15. ~meta'.degraded /\ ~meta'.dirty
  BY <1>4, <1>5, <1>8
<1> QED
  BY <1>8, <1>11, <1>12, <1>13, <1>14, <1>15 DEF RecoveryInv

(* What good adjustments tell of is worth keeping as it is.                 *)
LEMMA SanitizedGood ==
  ASSUME NEW w, NEW E, NEW D, Sorts(w, E, D), NEW s, Replaced(w, E, D, s)
  PROVE  Sanitized(D) = D
<1> DEFINE fixed == [i \in DOMAIN D |-> Fixed(D[i])]
           S == {d \in Range(fixed) : Moved(d) \/ Decreased(d)}
<1>1. D \in Seq(AdjustmentOf(Nat)) /\ DOMAIN D = 1..Len(D) /\ Jitter \in Nat
  BY SortsAre DEF Sorts
<1>2. ASSUME NEW i \in 1..Len(D) PROVE Fixed(D[i]) = D[i] /\ (Moved(D[i]) \/ Decreased(D[i]))
  <2> PICK d : d = D[i]
    OBVIOUS
  <2>1. /\ d.before.resetsAt \in Nat /\ d.after.resetsAt \in Nat
        /\ IF Moved(d) THEN d.before.resetsAt + Jitter < d.after.resetsAt ELSE Decreased(d)
    BY <1>1, PlacesAre DEF Replaced, Tells
  <2>2. Moved(d) => ~Equivalent(d.before.resetsAt, d.after.resetsAt)
    BY <1>1, <2>1 DEF Equivalent
  <2> QED
    BY <2>1, <2>2 DEF Fixed
<1>3. fixed = D
  <2>1. D = [i \in 1..Len(D) |-> D[i]]
    BY <1>1
  <2>2. \A i \in 1..Len(D) : Fixed(D[i]) = D[i]
    BY <1>2
  <2> QED
    BY <1>1, <2>1, <2>2
<1>4. Sanitized(D) = Only(S, fixed)
  BY DEF Sanitized, Fixed
<1>5. \A i \in 1..Len(D) : D[i] \in S
  BY <1>1, <1>2, <1>3 DEF Range
<1> HIDE DEF fixed, S
<1>6. Only(S, D) = D
  BY <1>1, <1>5, OnlyFacts
<1> QED
  BY <1>3, <1>4, <1>6

LEMMA ReplayOne ==
  ASSUME NEW w \in WindowOf(Nat), NEW D \in Seq(AdjustmentOf(Nat)),
         NEW n \in Nat, DOMAIN D = 1..n
  PROVE  \E r : Replays(r, w, D, n)
<1> DEFINE W == WindowOf(Nat)
<1>1. w \in W /\ NoWindow \in W
  BY EmptiesTyped
<1>2. n = Len(D)
  OBVIOUS
<1>3. \A i \in 1..n : D[i].after \in W
  BY <1>2, PlacesAre
<1> HIDE DEF W
<1> QED
  BY <1>1, <1>3, ReplaySteps, Zenon

(* Replaying adjustments of earlier revisions does nothing, replaying what  *)
(* the file is owed does it.                                                *)
LEMMA ReplayedGood ==
  ASSUME core.revision \in Nat, NEW w, NEW E, NEW D, Sorts(w, E, D),
         NEW s \in Services, NEW t \in Nat, NEW ch \in Nat,
         FileGood(core.revision, w, E, D, s, t, ch)
  PROVE  /\ CaughtUp(core.revision, w, E, D, s, t, ch) => Replayed(w, D) = w
         /\ Owes(core.revision, w, E, D, s, t, ch) => Replayed(w, D) = After(D[Len(D)])
<1> DEFINE base == [before |-> w, active |-> w]
<1>1. D \in Seq(AdjustmentOf(Nat)) /\ w \in WindowOf(Nat)
  BY DEF Sorts
<1> PICK n \in Nat : n = Len(D)
  BY <1>1
<1>2. DOMAIN D = 1..n /\ \A i \in 1..n : D[i].rev \in Nat
  BY <1>1, PlacesAre
<1> PICK r : Replays(r, w, D, n)
  BY <1>1, <1>2, ReplayOne
<1>3. /\ r[0] = base
      /\ \A k \in 0..(n - 1) : r[k + 1] = Replay(r[k], D[k + 1])
      /\ Replayed(w, D) = r[n].active
  BY DEF Replays
<1>4. ASSUME NEW m \in 0..n, \A i \in 1..m : D[i].rev < core.revision
      PROVE  r[m] = base
  <2> DEFINE T == {k \in 0..m : r[k] = base}
  <2>1. m \in Nat /\ 0 \in T
    BY <1>3
  <2>2. ASSUME NEW k \in 0..(m - 1), k \in T PROVE k + 1 \in T
    <3>1. k \in 0..(n - 1) /\ k + 1 \in 1..m /\ k + 1 \in 0..m /\ k + 1 \in 1..n
      OBVIOUS
    <3>2. D[k + 1].rev # core.revision
      <4>1. D[k + 1].rev \in Nat /\ D[k + 1].rev < core.revision
        BY <1>2, <1>4, <3>1
      <4> QED
        BY <4>1
    <3>3. r[k] = base /\ r[k + 1] = Replay(r[k], D[k + 1])
      BY <1>3, <2>2, <3>1
    <3>4. r[k + 1] = base
      BY <3>2, <3>3 DEF Replay
    <3> QED
      BY <3>1, <3>4
  <2> HIDE DEF T
  <2>3. m \in T
    <3>1. \A k \in 0..m : k \in T
      BY <2>1, <2>2, UpTo
    <3> QED
      BY <2>1, <3>1
  <2> QED
    BY <2>3 DEF T
<1>5. CASE CaughtUp(core.revision, w, E, D, s, t, ch)
  <2>1. \A i \in 1..n : D[i].rev < core.revision
    BY <1>5 DEF CaughtUp, Older
  <2>2. r[n] = base
    BY <1>4, <2>1
  <2>3. Replayed(w, D) = w
    BY <1>3, <2>2
  <2>4. ASSUME Owes(core.revision, w, E, D, s, t, ch)
        PROVE  FALSE
    <3>1. D # <<>> /\ D[n].rev = core.revision
      BY <2>4 DEF Owes
    <3>2. n \in 1..n
      BY <1>1, <3>1
    <3> QED
      BY <2>1, <3>1, <3>2
  <2> QED
    BY <2>3, <2>4
<1>6. CASE Owes(core.revision, w, E, D, s, t, ch) /\ ~CaughtUp(core.revision, w, E, D, s, t, ch)
  <2>1. /\ D # <<>> /\ D[n].rev = core.revision /\ D[n].before = w
        /\ Older(AllButLast(D), core.revision)
    BY <1>6 DEF Owes
  <2>2. /\ n > 0 /\ Len(AllButLast(D)) = n - 1
        /\ \A i \in 1..(n - 1) : AllButLast(D)[i] = D[i]
    BY <1>1, <2>1, AllButLastIs
  <2>3. \A i \in 1..(n - 1) : D[i].rev < core.revision
    BY <2>1, <2>2 DEF Older
  <2> PICK m \in 0..(n - 1) : m = n - 1
    BY <2>2
  <2>4. r[m] = base /\ m + 1 = n
    BY <1>4, <2>3
  <2>5. r[n] = Replay(base, D[n])
    BY <1>3, <2>4
  <2>6. Replay(base, D[n]) = [before |-> D[n].after,
          active |-> IF Moved(D[n]) /\ D[n].after.used = 0 THEN NoWindow ELSE D[n].after]
    BY <2>1 DEF Replay
  <2>7. r[n].active = After(D[n])
    BY <2>5, <2>6 DEF After
  <2> QED
    BY <1>3, <1>6, <2>7
<1> QED
  BY <1>5, <1>6 DEF FileGood

(* What the file is owed changes its window.                                *)
LEMMA AfterDiffers ==
  ASSUME NEW rev, NEW w, NEW E, NEW D, Sorts(w, E, D), NEW s, NEW t, NEW ch,
         Owes(rev, w, E, D, s, t, ch)
  PROVE  After(D[Len(D)]) # w
<1>1. /\ D \in Seq(AdjustmentOf(Nat)) /\ D # <<>> /\ w # NoWindow
      /\ D[Len(D)].before = w /\ Good(After(D[Len(D)]), E, D, s, t, ch)
  BY DEF Owes, Sorts
<1> PICK d : d = D[Len(D)]
  OBVIOUS
<1>2. Len(D) \in 1..Len(D)
  BY <1>1, AllButLastIs
<1>3. d \in AdjustmentOf(Nat) /\ Tells(d, After(d), E, s)
  BY <1>1, <1>2, PlacesAre DEF Good, Replaced
<1> PICK v : v = d.after
  OBVIOUS
<1>4. /\ w.resetsAt \in Nat /\ v.resetsAt \in Nat /\ w.used \in Nat /\ v.used \in Nat
      /\ Jitter \in Nat
  BY <1>1, <1>3, SortsAre
<1>5. After(d) = NoWindow \/ After(d) = v
  BY DEF After
<1>6. v # w
  <2>1. CASE Moved(d)
    BY <1>1, <2>1 DEF Moved
  <2>2. CASE ~Moved(d)
    <3>1. v.used < w.used
      BY <1>1, <1>3, <2>2 DEF Tells, Decreased
    <3>2. v.used # w.used
      BY <1>4, <3>1
    <3> QED
      BY <3>2, Zenon
  <2> QED
    BY <2>1, <2>2
<1> QED
  BY <1>1, <1>5, <1>6

LEMMA OpenForward ==
  ASSUME FileInv, Open
  PROVE  /\ UNCHANGED <<now, core, sidecar>> /\ ~meta'.degraded
         /\ meta'.dirty => meta'.revision > core.revision
<1>1. \E c, d \in BOOLEAN :
        meta' = [revision |-> NewestRevision + (IF c \/ d THEN 1 ELSE 0),
                 coreRevision |-> core.revision,
                 dirty |-> c, adjustmentsDirty |-> d, degraded |-> FALSE]
  BY DEF Open
<1> PICK c \in BOOLEAN, d \in BOOLEAN :
        meta' = [revision |-> NewestRevision + (IF c \/ d THEN 1 ELSE 0),
                 coreRevision |-> core.revision,
                 dirty |-> c, adjustmentsDirty |-> d, degraded |-> FALSE]
  BY <1>1
<1>2. meta'.dirty = c /\ meta'.degraded = FALSE
      /\ meta'.revision = NewestRevision + (IF c \/ d THEN 1 ELSE 0)
  OBVIOUS
<1>3. /\ core.revision \in Nat /\ NewestRevision \in Nat /\ NewestRevision >= core.revision
  BY DEF FileInv, FileTypes, NewestRevision
<1>4. c => meta'.revision = NewestRevision + 1
  BY <1>2
<1>5. c => meta'.revision > core.revision
  BY <1>3, <1>4
<1> QED
  BY <1>2, <1>5 DEF Open

LEMMA OpenGood ==
  ASSUME TrackerInv, TrackerInv', RecoveryInv, Open, UNCHANGED <<server, changes>>
  PROVE  RecoveryInv'
<1> PICK w : w = core.lanes[Account].active
  OBVIOUS
<1> PICK E : E = core.lanes[Account].events
  OBVIOUS
<1> PICK D : D = sidecar.lanes[Account].adjustments
  OBVIOUS
<1> PICK q : q = core.revision
  OBVIOUS
<1>1. /\ w \in WindowOf(Nat) /\ EventsTyped(E, Nat) /\ AdjustmentsTyped(D, Nat) /\ now \in Nat
      /\ FileInv /\ q \in Nat
  BY OneAccount DEF TrackerInv, TypedInv, FilesTyped, FileInv, FileTypes
<1>2. Sorts(w, E, D) /\ D \in Seq(AdjustmentOf(Nat))
  BY <1>1 DEF Sorts, EventsTyped, AdjustmentsTyped
<1>3. /\ server \in Services /\ changes \in Nat
      /\ FileGood(q, w, E, D, server, now, changes)
  BY DEF RecoveryInv, FileFacts
<1> PICK k : k = Loaded(Account)
  OBVIOUS
<1>4. /\ Lane(k) /\ k.active = w /\ k.events = E /\ k.adjustments = D
      /\ k.candidate = NoCandidate
  BY DEF Loaded, Lane
<1>5. LaneTyped(k, Nat)
  BY <1>1, <1>4, EmptiesTyped DEF LaneTyped
<1>6. Sanitized(D) = D
  <2>1. D # <<>> => Sorts(After(D[Len(D)]), E, D)
    BY <1>2, AllButLastIs, PlacesAre, AfterIs DEF Sorts
  <2>2. Replaced(w, E, D, server) \/ (D # <<>> /\ Replaced(After(D[Len(D)]), E, D, server))
    BY <1>3 DEF FileGood, CaughtUp, Owes, Good
  <2> QED
    BY <1>2, <2>1, <2>2, SanitizedGood
<1>7. [k EXCEPT !.adjustments = Sanitized(@)] = k
  BY <1>4, <1>6 DEF Lane
<1> PICK l : l = Reconciled(k)
  OBVIOUS
<1>8. LaneTyped(l, Nat)
  BY <1>5, ReconciledTyped
<1>9. w = NoWindow => l = k
  BY <1>4 DEF Reconciled
<1>10. w # NoWindow => l = [k EXCEPT !.active = Replayed(w, D)]
  BY <1>4 DEF Reconciled
<1>11. l.events = E /\ l.adjustments = D
  <2>1. \A x : Shows([k EXCEPT !.active = x], x, k.events, k.adjustments)
    BY <1>4, FieldShows
  <2> QED
    BY <1>4, <1>9, <1>10, <2>1 DEF Shows
<1>12. l.active = IF w = NoWindow THEN NoWindow ELSE Replayed(w, D)
  <2>1. \A x : Shows([k EXCEPT !.active = x], x, k.events, k.adjustments)
    BY <1>4, FieldShows
  <2>2. CASE w = NoWindow
    BY <1>4, <1>9, <2>2
  <2>3. CASE w # NoWindow
    BY <1>10, <2>1, <2>3 DEF Shows
  <2> QED
    BY <2>2, <2>3
<1>13. /\ CaughtUp(q, w, E, D, server, now, changes) => l.active = w
       /\ Owes(q, w, E, D, server, now, changes) => l.active = After(D[Len(D)])
  <2>1. /\ CaughtUp(q, w, E, D, server, now, changes) => Replayed(w, D) = w
        /\ Owes(q, w, E, D, server, now, changes) => Replayed(w, D) = After(D[Len(D)])
    BY <1>1, <1>2, <1>3, ReplayedGood
  <2>2. Owes(q, w, E, D, server, now, changes) => w # NoWindow
    BY DEF Owes
  <2> QED
    BY <1>12, <2>1, <2>2
<1>14. GoodLane(l, server, now, changes)
  <2>1. CASE CaughtUp(q, w, E, D, server, now, changes)
    BY <1>11, <1>13, <2>1 DEF CaughtUp, GoodLane
  <2>2. CASE Owes(q, w, E, D, server, now, changes)
    BY <1>11, <1>13, <2>2 DEF Owes, GoodLane
  <2> QED
    BY <1>3, <2>1, <2>2 DEF FileGood
<1> PICK p : p = PruneLane(l, now)
  OBVIOUS
<1>15. /\ GoodLane(p, server, now, changes) /\ Trims(l, p)
       /\ \E S : p.adjustments = Only(S, l.adjustments)
  BY <1>1, <1>3, <1>8, <1>14, PruneGood
<1>16. FileGood(q, w, E, p.adjustments, server, now, changes)
  BY <1>1, <1>2, <1>3, <1>11, <1>15, FileForgets
<1>17. Known' = p
  <2> DEFINE loaded == [a \in Accounts |-> Loaded(a)]
             clean == [a \in Accounts |-> [loaded[a] EXCEPT !.adjustments = Sanitized(@)]]
             recovered == [a \in Accounts |-> Reconciled(clean[a])]
  <2>1. lanes' = Prune(recovered, now)
    BY DEF Open
  <2>2. loaded[Account] = k
    BY OneAccount
  <2>3. clean[Account] = [loaded[Account] EXCEPT !.adjustments = Sanitized(@)]
    BY OneAccount
  <2> HIDE DEF loaded
  <2>4. clean[Account] = k
    BY <1>7, <2>2, <2>3
  <2> HIDE DEF clean
  <2>5. recovered[Account] = l
    BY <2>4, OneAccount
  <2> HIDE DEF recovered
  <2> QED
    BY <2>1, <2>5, OneAccount DEF Prune, Known
<1>18. /\ UNCHANGED <<now, core, sidecar, server, changes>> /\ ~meta'.degraded
       /\ meta'.dirty => meta'.revision > core.revision
  BY <1>1, OpenForward
<1>19. ~meta'.dirty => p.active = w
  <2>1. phase' # "down"
    BY DEF Open
  <2>2. ~meta'.dirty => core'.lanes[Account] = CorePart(lanes'[Account])
    BY <2>1, OneAccount DEF TrackerInv, FileInv, OwedInv, CoreHolds
  <2>3. CorePart(p).active = p.active
    BY DEF CorePart
  <2> QED
    BY <1>17, <1>18, <2>2, <2>3 DEF Known
<1>20. p.active = w => Older(p.adjustments, q)
  <2>1. CASE CaughtUp(q, w, E, D, server, now, changes)
    BY <1>11, <1>15, <2>1 DEF CaughtUp, Trims, Older, Within
  <2>2. CASE Owes(q, w, E, D, server, now, changes)
    <3>1. l.active # w /\ w # NoWindow
      BY <1>2, <1>13, <2>2, AfterDiffers DEF Owes
    <3> QED
      BY <1>15, <3>1 DEF Trims
  <2> QED
    BY <1>3, <2>1, <2>2 DEF FileGood
<1>21. FileFacts(sidecar.lanes[Account].adjustments, server, now, changes)'
  BY <1>18 DEF RecoveryInv, FileFacts
<1>22. FileFacts(Known.adjustments, server, now, changes)'
  BY <1>16, <1>17, <1>18 DEF FileFacts
<1>23. GoodLane(Known, server, now, changes)'
  BY <1>15, <1>17, <1>18 DEF GoodLane
<1>24. ~meta'.dirty => Older(Known.adjustments, core.revision)'
  BY <1>17, <1>18, <1>19, <1>20 DEF Older
<1>25. server' \in Services /\ changes' \in Nat /\ (meta'.dirty => meta'.revision > core'.revision)
  BY <1>3, <1>18
<1> QED
  BY <1>18, <1>21, <1>22, <1>23, <1>24, <1>25 DEF RecoveryInv

LEMMA EmptyGood ==
  ASSUME NEW s \in Services, NEW t \in Nat, NEW ch \in Nat
  PROVE  Good(NoWindow, {}, <<>>, s, t, ch)
BY DEF Good, Counted, Agrees, Completed, Replaced

LEMMA CrashGood ==
  ASSUME RecoveryInv, TrackerInv, Crash, UNCHANGED <<server, changes>>
  PROVE  RecoveryInv'
<1>1. /\ UNCHANGED <<now, core, sidecar, server, changes>> /\ phase' = "down" /\ meta' = NoMeta
      /\ Known' = EmptyLane
  BY OneAccount DEF Crash, Stopped, Known
<1>2. server \in Services /\ changes \in Nat /\ now \in Nat
  BY DEF RecoveryInv, TrackerInv, TypedInv
<1>3. GoodLane(EmptyLane, server, now, changes)
  BY <1>2, EmptyGood DEF GoodLane, EmptyLane
<1>4. GoodLane(Known, server, now, changes)'
  BY <1>1, <1>3 DEF GoodLane
<1>5. FileFacts(sidecar.lanes[Account].adjustments, server, now, changes)'
  BY <1>1 DEF RecoveryInv, FileFacts
<1> QED
  BY <1>1, <1>2, <1>4, <1>5 DEF RecoveryInv, NoMeta

(* Steps of time and of the service, which leave tracker and files alone.   *)
LEMMA WorldGood ==
  ASSUME RecoveryInv, TrackerInv, TrackerInv', UNCHANGED <<phase, lanes, meta, core, sidecar>>,
         server' \in Services, changes' \in Nat,
         Follows(server, now, changes, server', now', changes')
  PROVE  RecoveryInv'
<1> PICK s \in Services : s = server'
  OBVIOUS
<1> PICK c \in Nat : c = changes'
  OBVIOUS
<1> PICK t \in Nat : t = now'
  BY DEF TrackerInv, TypedInv
<1>1. /\ now \in Nat /\ server \in Services /\ changes \in Nat
      /\ Follows(server, now, changes, s, t, c)
  BY DEF TrackerInv, TypedInv, RecoveryInv
<1>2. /\ Sorts(Known.active, Known.events, Known.adjustments)
      /\ Known.adjustments \in Seq(AdjustmentOf(Nat))
  BY OneAccount, LaneSorts DEF TrackerInv, TypedInv, LanesTyped, Known
<1>3. /\ core.lanes[Account].active \in WindowOf(Nat)
      /\ core.lanes[Account].events \subseteq EventOf(Nat)
      /\ sidecar.lanes[Account].adjustments \in Seq(AdjustmentOf(Nat))
  BY OneAccount DEF TrackerInv, TypedInv, FilesTyped, EventsTyped, AdjustmentsTyped
<1>4. GoodLane(Known, s, t, c)
  BY <1>1, <1>2, GoodFollows DEF RecoveryInv, GoodLane
<1>5. ASSUME NEW D \in Seq(AdjustmentOf(Nat)), FileFacts(D, server, now, changes)
      PROVE  FileFacts(D, s, t, c)
  <2>1. Sorts(core.lanes[Account].active, core.lanes[Account].events, D)
    BY <1>3 DEF Sorts
  <2> QED
    BY <1>1, <1>5, <2>1, FileFollows DEF FileFacts
<1>6. FileFacts(sidecar.lanes[Account].adjustments, s, t, c)
  BY <1>3, <1>5 DEF RecoveryInv
<1>7. phase # "down" => FileFacts(Known.adjustments, s, t, c)
  BY <1>2, <1>5 DEF RecoveryInv
<1>8. FileFacts(sidecar.lanes[Account].adjustments, server, now, changes)'
  BY <1>6 DEF FileFacts
<1>9. GoodLane(Known, server, now, changes)'
  BY <1>4 DEF GoodLane, Known
<1>10. phase' # "down" => FileFacts(Known.adjustments, server, now, changes)'
  BY <1>7 DEF FileFacts, Known
<1>11. phase' # "down" /\ ~meta'.dirty => Older(Known.adjustments, core.revision)'
  BY DEF RecoveryInv, Older, Known
<1> QED
  BY <1>8, <1>9, <1>10, <1>11 DEF RecoveryInv

(* What the service does is one of the things RecoveryInv reckons with.     *)
LEMMA ServiceFollows ==
  ASSUME server \in Services, changes \in Nat, now \in Nat,
         Consume \/ EarlyChange \/ (\E u \in Used : Rollover(u))
  PROVE  /\ server' \in Services /\ changes' \in Nat /\ UNCHANGED hvars
         /\ Follows(server, now, changes, server', now', changes')
<1>1. /\ server.resetsAt \in Nat /\ server.used \in Nat /\ Used \subseteq Nat
      /\ Jitter \in Nat /\ Week \in Nat /\ 2 * Jitter < Week
      /\ server = [resetsAt |-> server.resetsAt, used |-> server.used]
  BY SortsAre, BoundsAssumption DEF Services
<1>2. CASE Consume
  <2>1. /\ server' = [server EXCEPT !.used = @ + 1] /\ changes' = changes /\ UNCHANGED hvars
    BY <1>2 DEF Consume, ServerChanges
  <2>2. server'.resetsAt = server.resetsAt /\ server'.used = server.used + 1
        /\ server' \in Services
    BY <1>1, <2>1 DEF Services
  <2>3. server'.used >= server.used
    BY <1>1, <2>2
  <2> QED
    BY <2>1, <2>2, <2>3 DEF Follows, hvars
<1>3. CASE EarlyChange
  <2>1. changes' = changes + 1 /\ \E u \in Used : Refund(u) \/ EarlyReset(u)
    BY <1>3 DEF EarlyChange
  <2> PICK u \in Used : Refund(u) \/ EarlyReset(u)
    BY <2>1
  <2>2. u \in Nat /\ UNCHANGED hvars
    BY <1>1 DEF Refund, EarlyReset, ServerChanges
  <2>3. CASE Refund(u)
    <3>1. server' = [server EXCEPT !.used = u]
      BY <2>3 DEF Refund, ServerChanges
    <3>2. server'.resetsAt = server.resetsAt /\ server' \in Services
      BY <1>1, <2>2, <3>1 DEF Services
    <3> QED
      BY <2>1, <2>2, <3>2 DEF Follows, hvars
  <2>4. CASE EarlyReset(u)
    <3>1. server' = [resetsAt |-> now + Week, used |-> u]
          /\ now + Week > server.resetsAt + 2 * Jitter
      BY <2>4 DEF EarlyReset, ServerChanges
    <3>2. server'.resetsAt = now + Week /\ server' \in Services
      BY <1>1, <2>2, <3>1 DEF Services
    <3> QED
      BY <2>1, <2>2, <3>1, <3>2 DEF Follows, hvars
  <2> QED
    BY <2>3, <2>4
<1>4. ASSUME NEW u \in Used, Rollover(u)
      PROVE  /\ server' \in Services /\ changes' \in Nat /\ UNCHANGED hvars
             /\ Follows(server, now, changes, server', now', changes')
  <2>1. /\ server' = [resetsAt |-> now + Week, used |-> u] /\ now >= server.resetsAt
        /\ changes' = changes /\ UNCHANGED hvars
    BY <1>4 DEF Rollover, ServerChanges
  <2>2. server'.resetsAt = now + Week /\ server' \in Services
    BY <1>1, <2>1 DEF Services
  <2>3. now + Week > server.resetsAt + 2 * Jitter
    BY <1>1, <2>1
  <2> QED
    BY <2>1, <2>2, <2>3 DEF Follows, hvars
<1> QED
  BY <1>2, <1>3, <1>4

LEMMA RecoveryStep ==
  ASSUME Faults \subseteq {"crash"}, TrackerInv, RecoveryInv, [RecoveryNext]_recoveryVars
  PROVE  TrackerInv' /\ RecoveryInv'
<1>1. /\ TrackerInv' /\ server \in Services /\ changes \in Nat /\ now \in Nat
  BY TrackerStepKeeps DEF RecoveryInv, TrackerInv, TypedInv
<1>2. ASSUME NEW rebaseline, NEW noise \in Noises, Report(rebaseline, noise)
      PROVE  RecoveryInv'
  BY <1>1, <1>2, ReportGood
<1>3. CASE TrackerStep
  <2>1. UNCHANGED <<server, changes>>
    BY <1>3 DEF TrackerStep, ServerUnchanged
  <2>2. CASE Snapshot
    BY <1>1, <2>1, <2>2, SnapshotGood
  <2>3. CASE Persist
    <3> PICK o : WriteSidecar(o) \/ WriteCore(o)
      BY <2>3 DEF Persist
    <3> QED
      BY <1>1, <2>1, SidecarWriteGood, CoreWriteGood
  <2>4. CASE Open
    BY <1>1, <2>1, <2>4, OpenGood
  <2>5. CASE Crash
    BY <1>1, <2>1, <2>5, CrashGood
  <2>6. CASE Tick
    <3>1. /\ now' = now + 1 /\ server' = server /\ changes' = changes
          /\ UNCHANGED <<phase, lanes, meta, core, sidecar>>
      BY <2>1, <2>6 DEF Tick
    <3>2. Follows(server, now, changes, server', now', changes')
      BY <3>1 DEF Follows
    <3> QED
      BY <1>1, <3>1, <3>2, WorldGood
  <2> QED
    BY <1>3, <2>2, <2>3, <2>4, <2>5, <2>6 DEF TrackerStep
<1>4. CASE Consume \/ EarlyChange \/ (\E u \in Used : Rollover(u))
  BY <1>1, <1>4, ServiceFollows, WorldGood DEF hvars
<1>5. CASE UNCHANGED recoveryVars
  <2>1. UNCHANGED <<now, phase, lanes, meta, core, sidecar, server, changes>>
    BY <1>5 DEF recoveryVars, hvars
  <2>2. Follows(server, now, changes, server', now', changes')
    BY <1>1, <2>1, SortsAre DEF Follows
  <2> QED
    BY <1>1, <2>1, <2>2, WorldGood
<1> QED
  BY <1>1, <1>2, <1>3, <1>4, <1>5 DEF RecoveryNext

LEMMA RecoveryStart == RecoveryInit => TrackerInv /\ RecoveryInv
<1> SUFFICES ASSUME RecoveryInit PROVE TrackerInv /\ RecoveryInv
  OBVIOUS
<1>1. Init /\ now = 1 /\ server = [resetsAt |-> now + Week, used |-> 1] /\ changes = 0
  BY DEF RecoveryInit, Init
<1>2. TrackerInv
  BY <1>1, FileInit, LimitInit, TypedInit DEF TrackerInv
<1>3. server \in Services /\ changes \in Nat /\ now \in Nat
  BY <1>1, SortsAre DEF Services
<1>4. Good(NoWindow, {}, <<>>, server, now, changes)
  BY <1>3, EmptyGood
<1>5. /\ Known = EmptyLane /\ core.lanes[Account] = CorePart(EmptyLane)
      /\ sidecar.lanes[Account] = SidecarPart(EmptyLane) /\ meta = NoMeta /\ phase = "down"
  BY <1>1, OneAccount DEF Init, Known
<1>6. GoodLane(Known, server, now, changes)
  BY <1>4, <1>5 DEF GoodLane, EmptyLane
<1>7. /\ core.lanes[Account].active = NoWindow /\ core.lanes[Account].events = {}
      /\ sidecar.lanes[Account].adjustments = <<>>
  BY <1>5 DEF CorePart, SidecarPart, EmptyLane
<1>8. FileFacts(sidecar.lanes[Account].adjustments, server, now, changes)
  BY <1>4, <1>7 DEF FileFacts, FileGood, CaughtUp, Older
<1> QED
  BY <1>2, <1>3, <1>5, <1>6, <1>8 DEF RecoveryInv, NoMeta

LEMMA RecoveryInvariant ==
  ASSUME Faults \subseteq {"crash"}
  PROVE  RecoverySpec => [](TrackerInv /\ RecoveryInv)
<1>1. (TrackerInv /\ RecoveryInv) /\ [RecoveryNext]_recoveryVars => (TrackerInv /\ RecoveryInv)'
  BY RecoveryStep
<1> QED
  BY <1>1, RecoveryStart, PTL DEF RecoverySpec

(* One early change of the service is recorded at most once, although a     *)
(* crash between the two files makes the restarted tracker see it again.    *)
THEOREM EarlyChangeRecordedOnce ==
  ASSUME Faults \subseteq {"crash"}
  PROVE  RecoverySpec => []RecordedOnce
<1>1. ASSUME TrackerInv, RecoveryInv PROVE RecordedOnce
  <2> PICK D : D = sidecar.lanes[Account].adjustments
    OBVIOUS
  <2>1. Len(Known.adjustments) <= changes
    BY <1>1 DEF RecoveryInv, GoodLane, Good, Counted
  <2>2. \/ Good(core.lanes[Account].active, core.lanes[Account].events, D, server, now, changes)
        \/ Good(After(D[Len(D)]), core.lanes[Account].events, D, server, now, changes)
    BY <1>1 DEF RecoveryInv, FileFacts, FileGood, CaughtUp, Owes
  <2>3. Len(D) <= changes
    BY <2>2 DEF Good, Counted
  <2> QED
    BY <2>1, <2>3 DEF RecordedOnce
<1>2. TrackerInv /\ RecoveryInv => RecordedOnce
  BY <1>1
<1> QED
  BY <1>2, RecoveryInvariant, PTL

(* A window that the service replaced early is never also completed, not    *)
(* even when it runs out while the process is down between the two files.   *)
THEOREM ReplacedWindowsStayReplaced ==
  ASSUME Faults \subseteq {"crash"}
  PROVE  RecoverySpec => []ReplacedNotCompleted
<1>1. ASSUME TrackerInv, RecoveryInv PROVE ReplacedNotCompleted
  <2>1. Replaced(Known.active, Known.events, Known.adjustments, server)
    BY <1>1 DEF RecoveryInv, GoodLane, Good
  <2>2. Known.adjustments \in Seq(AdjustmentOf(Nat))
    BY <1>1, OneAccount, LaneSorts DEF TrackerInv, TypedInv, LanesTyped, Known
  <2>3. DOMAIN Known.adjustments = 1..Len(Known.adjustments)
    BY <2>2
  <2> QED
    BY <2>1, <2>3 DEF Replaced, Tells, ReplacedNotCompleted
<1>2. TrackerInv /\ RecoveryInv => ReplacedNotCompleted
  BY <1>1
<1> QED
  BY <1>2, RecoveryInvariant, PTL

(* One scheduled reset is one event, however its timestamp is rounded and   *)
(* whenever the process stops.                                              *)
THEOREM ScheduledResetOnce ==
  ASSUME Faults \subseteq {"crash"}
  PROVE  RecoverySpec => []CompletedOnce
<1>1. TrackerInv /\ RecoveryInv => CompletedOnce
  BY DEF RecoveryInv, GoodLane, Good, Completed, CompletedOnce
<1> QED
  BY <1>1, RecoveryInvariant, PTL
=============================================================================
