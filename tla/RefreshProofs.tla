----------------------------- MODULE RefreshProofs -----------------------------
(*****************************************************************************)
(* Theorems about one refresh: the detection of the version, the inventory of  *)
(* the user's own daemon, the sanitizers and the snapshot they make.           *)
(*                                                                             *)
(* The version.  A pid may have been handed on between two reads, so that      *)
(* what was read of it need not be of one process.  Each confirmed file is of  *)
(* a process that has the pid no earlier than the first reading of the start   *)
(* time, and no later than now: when the start time is read again and is the   *)
(* same, there is one process it can be of.                                    *)
(*                                                                             *)
(* The inventory.  A thread that stays as it is was listed up to the cursor,   *)
(* and what was read of it is still so; the selection leaves a row out only    *)
(* for others preferred to it, of which there are as many as wanted.           *)
(*                                                                             *)
(* The snapshot.  A refresh takes every step of the detection and of the       *)
(* inventory as their specifications say.  A name that is taken gets a suffix  *)
(* that is free, since more are tried than names are taken; the timestamps of  *)
(* a merged row are those of rows of its session, each in order by itself.     *)
(*****************************************************************************)
EXTENDS Refresh, Folding

AfterExe == {"cgroup", "status", "parent", "start", "exe again", "cgroup again", "status again",
             "start again"}
AfterCgroup == AfterExe \ {"cgroup"}
AfterStatus == AfterCgroup \ {"status"}
AfterStart == {"exe again", "cgroup again", "status again", "start again"}

(* The process table, and what is known of it. *)
Past ==
  /\ \A p \in Pids : proc[p].start <= clock
  /\ at # "idle" => FactsOf(proc) \subseteq been

(* A process that has held pid since the start time was read, or before the *)
(* start time is read again, was seen with this fact.                       *)
Witnessed(fact) ==
  \E s \in seen.start..proc[pid].start : <<pid, s, fact>> \in been

Looking ==
  /\ at \in AfterExe => seen.version \in Versions
  /\ at \in AfterCgroup => ~InCollectorCgroup(seen.cgroup)
  /\ at \in AfterStatus => seen.uid = CollectorUser /\ seen.parent # Collector
  /\ at \in AfterStart => seen.start \in 0..proc[pid].start
  /\ at \in AfterStart \ {"exe again"} => Witnessed(seen.version)
  /\ at \in {"status again", "start again"} => Witnessed("outside")
  /\ at = "start again" => Witnessed("own")

Found ==
  /\ at = "idle" => candidates = {} /\ chosen = NoVersion
  /\ \A c \in candidates : IsOfOneProcess(c)
  /\ chosen # NoVersion => IsOfOneProcess(chosen)

VersionInv == VersionTypeOK /\ Past /\ Looking /\ Found
-----------------------------------------------------------------------------
(* Nothing has been read at first.                                          *)
LEMMA UnreadIsReading == Unread \in Readings
  <1>1. "" \in Versions \cup {""} /\ Unparsed \in Cgroups /\ OtherUser \in Users
        /\ 0 \in Pids \cup {0} /\ -1 \in -1..MaxClock
    <2>1. MaxClock \in Nat
      BY VersionAssumption
    <2> QED BY <2>1 DEF Cgroups, Users
  <1> QED BY <1>1 DEF Unread, Readings

(* What holds of the processes a detection starts with.                     *)
LEMMA InitKeeps == VersionInit => VersionInv
  <1>1. SUFFICES ASSUME VersionInit PROVE VersionInv
    OBVIOUS
  <1>2. VersionTypeOK
    <2>1. proc \in [Pids -> Process] /\ clock \in 1..MaxClock /\ Collector \in Pids
      BY <1>1, VersionAssumption DEF VersionInit
    <2>2. Unread \in Readings
      BY UnreadIsReading
    <2> QED BY <1>1, <2>1, <2>2 DEF VersionInit, VersionTypeOK
  <1>3. Past
    <2>1. \A p \in Pids : proc[p].start <= 1
      BY <1>1, VersionAssumption DEF VersionInit
    <2> QED BY <1>1, <2>1 DEF VersionInit, Past
  <1>4. Looking /\ Found
    BY <1>1 DEF VersionInit, Looking, Found, AfterExe, AfterCgroup, AfterStatus, AfterStart
  <1> QED BY <1>2, <1>3, <1>4 DEF VersionInv

LEMMA ReadingStart == ASSUME NEW x \in Readings PROVE x.start \in Int
  <1>1. x.start \in -1..MaxClock
    BY DEF Readings
  <1>2. MaxClock \in Nat
    BY VersionAssumption
  <1> QED BY <1>1, <1>2

(* The types of a process, and of what is known of those there are.         *)
LEMMA MaxClockIsNat == MaxClock \in Nat /\ MaxChanges \in Nat
  BY VersionAssumption

LEMMA ProcessTypes ==
  ASSUME NEW x \in Process
  PROVE  /\ x.start \in 0..MaxClock /\ x.start \in Int /\ x.start >= 0
         /\ x.uid \in Users /\ x.parent \in Pids /\ x.cgroup \in Cgroups
  <1>1. /\ x.start \in 0..MaxClock
        /\ x.uid \in Users /\ x.parent \in Pids /\ x.cgroup \in Cgroups
    BY DEF Process
  <1>2. ASSUME NEW n \in 0..MaxClock PROVE n \in Int /\ n >= 0
    BY MaxClockIsNat
  <1> QED BY <1>1, <1>2

LEMMA StateTypes ==
  ASSUME VersionInv
  PROVE  /\ proc \in [Pids -> Process] /\ pid \in Pids /\ seen \in Readings
         /\ clock \in 1..MaxClock /\ clock \in Int
         /\ \A p \in Pids : /\ proc[p] \in Process /\ proc[p].start \in 0..MaxClock
                            /\ proc[p].start \in Int /\ proc[p].start <= clock
  <1>1. /\ proc \in [Pids -> Process] /\ pid \in Pids /\ seen \in Readings
        /\ clock \in 1..MaxClock /\ \A p \in Pids : proc[p].start <= clock
    BY DEF VersionInv, VersionTypeOK, Past
  <1>2. clock \in Int
    BY <1>1, MaxClockIsNat
  <1> QED BY <1>1, <1>2, ProcessTypes

(* Nothing that was seen is forgotten, and pids are given to later          *)
(* processes only.                                                          *)
LEMMA TableKeeps ==
  ASSUME VersionInv, NEW table \in [Pids -> Process], Becomes(table),
         \A p \in Pids : proc[p].start <= table[p].start /\ table[p].start <= clock
  PROVE  VersionInv'
  <1>1. /\ proc' = table /\ been' = been \cup FactsOf(table)
        /\ clock' = clock /\ at' = at /\ pid' = pid /\ seen' = seen
        /\ candidates' = candidates /\ chosen' = chosen /\ processes' = processes
        /\ left > 0 /\ left' = left - 1 /\ steady' \subseteq steady
    BY DEF Becomes, detectVars
  <1>2. VersionTypeOK'
    <2>1. VersionTypeOK
      BY DEF VersionInv
    <2>2. left' \in 0..MaxChanges
      <3>1. left \in 0..MaxChanges
        BY <2>1 DEF VersionTypeOK
      <3> QED BY <1>1, <3>1, MaxClockIsNat
    <2> QED BY <1>1, <2>1, <2>2 DEF VersionTypeOK
  <1>3. Past'
    <2>1. FactsOf(proc)' \subseteq been'
      BY <1>1 DEF FactsOf, Facts, InCollectorCgroup
    <2> QED BY <1>1, <2>1 DEF Past
  <1>4. Looking'
    <2>1. pid \in Pids /\ proc[pid].start \in Int /\ table[pid].start \in Int
          /\ proc[pid].start <= table[pid].start
      BY StateTypes, ProcessTypes
    <2>2. ASSUME NEW fact, Witnessed(fact) PROVE Witnessed(fact)'
      <3>1. PICK s \in seen.start..proc[pid].start : <<pid, s, fact>> \in been
        BY <2>2 DEF Witnessed
      <3>2. seen.start \in Int
        BY StateTypes, ReadingStart
      <3>3. s \in seen.start..table[pid].start
        BY <2>1, <3>1, <3>2
      <3> QED BY <1>1, <3>1, <3>3 DEF Witnessed
    <2>3. at \in AfterStart => seen.start \in 0..table[pid].start
      <3>1. at \in AfterStart => seen.start \in 0..proc[pid].start
        BY DEF VersionInv, Looking
      <3> QED BY <2>1, <3>1
    <2>4. Looking
      BY DEF VersionInv
    <2>5. Witnessed(seen.version) => Witnessed(seen.version)'
      <3>1. PICK version : version = seen.version
        OBVIOUS
      <3>2. Witnessed(version) => Witnessed(version)'
        BY <2>2
      <3> QED BY <1>1, <3>1, <3>2 DEF Witnessed
    <2>6. /\ Witnessed("outside") => Witnessed("outside")'
          /\ Witnessed("own") => Witnessed("own")'
      BY <2>2
    <2> QED BY <1>1, <2>3, <2>4, <2>5, <2>6 DEF Looking
  <1>5. Found'
    BY <1>1 DEF VersionInv, Found, IsOfOneProcess
  <1> QED BY <1>2, <1>3, <1>4, <1>5 DEF VersionInv

LEMMA OneChanges ==
  ASSUME VersionInv, NEW p \in Pids, NEW x \in Process, proc[p].start <= x.start,
         x.start <= clock, Becomes([proc EXCEPT ![p] = x])
  PROVE  VersionInv'
  <1> DEFINE table == [proc EXCEPT ![p] = x]
  <1>1. proc \in [Pids -> Process]
        /\ \A q \in Pids : proc[q].start <= clock /\ proc[q].start \in Int
    BY StateTypes
  <1>2. table \in [Pids -> Process]
    BY <1>1
  <1>3. ASSUME NEW q \in Pids
        PROVE  proc[q].start <= table[q].start /\ table[q].start <= clock
    <2>1. CASE q = p
      <3>1. table[q] = x
        BY <1>1, <2>1
      <3> QED BY <2>1, <3>1
    <2>2. CASE q # p
      <3>1. table[q] = proc[q]
        BY <1>1, <2>2
      <3> QED BY <1>1, <3>1
    <2> QED BY <2>1, <2>2
  <1>4. Becomes(table)
    OBVIOUS
  <1> HIDE DEF table
  <1> QED BY <1>2, <1>3, <1>4, TableKeeps

(* A process with some of its files changed. *)
LEMMA Forked ==
  ASSUME NEW x \in Process, NEW c \in 0..MaxClock, NEW q \in Pids
  PROVE  /\ [x EXCEPT !.start = c, !.parent = q] \in Process
         /\ [x EXCEPT !.start = c, !.parent = q].start = c
  BY DEF Process

LEMMA Exited ==
  ASSUME NEW x \in Process
  PROVE  [x EXCEPT !.alive = FALSE] \in Process /\ [x EXCEPT !.alive = FALSE].start = x.start
  BY DEF Process

LEMMA Orphaned ==
  ASSUME NEW x \in Process, NEW q \in Pids
  PROVE  [x EXCEPT !.parent = q] \in Process /\ [x EXCEPT !.parent = q].start = x.start
  BY DEF Process

LEMMA Changed ==
  ASSUME NEW x \in Process, NEW e \in Programs, NEW u \in Users, NEW c \in Cgroups
  PROVE  /\ [x EXCEPT !.exe = e] \in Process /\ [x EXCEPT !.exe = e].start = x.start
         /\ [x EXCEPT !.uid = u] \in Process /\ [x EXCEPT !.uid = u].start = x.start
         /\ [x EXCEPT !.cgroup = c] \in Process /\ [x EXCEPT !.cgroup = c].start = x.start
  <1>1. [x EXCEPT !.exe = e] \in Process /\ [x EXCEPT !.exe = e].start = x.start
    BY DEF Process
  <1>2. [x EXCEPT !.uid = u] \in Process /\ [x EXCEPT !.uid = u].start = x.start
    BY DEF Process
  <1>3. [x EXCEPT !.cgroup = c] \in Process /\ [x EXCEPT !.cgroup = c].start = x.start
    BY DEF Process
  <1> QED BY <1>1, <1>2, <1>3

LEMMA ProcessStepKeeps ==
  ASSUME VersionInv, ProcessStep
  PROVE  VersionInv'
  <1>1. /\ clock \in 0..MaxClock /\ clock \in Int
        /\ \A p \in Pids : proc[p] \in Process /\ proc[p].start \in Int /\ proc[p].start <= clock
    BY StateTypes, MaxClockIsNat
  <1>2. ASSUME NEW p \in Pids, NEW q \in Pids, Fork(q, p) PROVE VersionInv'
    <2> DEFINE child == [proc[q] EXCEPT !.start = clock, !.parent = q]
    <2>1. child \in Process /\ child.start = clock
      BY <1>1, Forked
    <2>2. proc[p].start <= clock /\ clock <= clock /\ Becomes([proc EXCEPT ![p] = child])
      BY <1>1, <1>2 DEF Fork
    <2> HIDE DEF child
    <2> QED BY <2>1, <2>2, OneChanges
  <1>3. ASSUME NEW p \in Pids, Exit(p) PROVE VersionInv'
    <2> DEFINE table ==
          [q \in Pids |->
             IF q = p THEN [proc[p] EXCEPT !.alive = FALSE]
             ELSE IF proc[q].parent = p THEN [proc[q] EXCEPT !.parent = Reaper] ELSE proc[q]]
    <2>1. ASSUME NEW q \in Pids PROVE table[q] \in Process /\ table[q].start = proc[q].start
      BY <1>1, Exited, Orphaned, VersionAssumption
    <2>2. Becomes(table)
      BY <1>3 DEF Exit
    <2>3. table \in [Pids -> Process]
      BY <2>1
    <2> HIDE DEF table
    <2>4. \A q \in Pids : proc[q].start <= table[q].start /\ table[q].start <= clock
      BY <1>1, <2>1
    <2> QED BY <2>2, <2>3, <2>4, TableKeeps
  <1>4. ASSUME NEW p \in Pids, NEW x \in Process, x.start = proc[p].start,
               Becomes([proc EXCEPT ![p] = x])
        PROVE  VersionInv'
    <2>1. proc[p].start <= x.start /\ x.start <= clock
      BY <1>1, <1>4
    <2> QED BY <1>4, <2>1, OneChanges
  <1>5. ASSUME NEW p \in Pids, NEW e \in Programs, Exec(p, e) PROVE VersionInv'
    <2> DEFINE x == [proc[p] EXCEPT !.exe = e]
    <2>1. x \in Process /\ x.start = proc[p].start
      <3>1. CollectorUser \in Users /\ Unparsed \in Cgroups
        BY DEF Users, Cgroups
      <3> QED BY <1>1, <3>1, Changed
    <2>2. Becomes([proc EXCEPT ![p] = x])
      BY <1>5 DEF Exec
    <2> HIDE DEF x
    <2> QED BY <1>4, <2>1, <2>2
  <1>6. ASSUME NEW p \in Pids, NEW u \in Users, SetUser(p, u) PROVE VersionInv'
    <2> DEFINE x == [proc[p] EXCEPT !.uid = u]
    <2>1. x \in Process /\ x.start = proc[p].start
      <3>1. Dashboard \in Programs /\ Unparsed \in Cgroups
        BY DEF Programs, Cgroups
      <3> QED BY <1>1, <3>1, Changed
    <2>2. Becomes([proc EXCEPT ![p] = x])
      BY <1>6 DEF SetUser
    <2> HIDE DEF x
    <2> QED BY <1>4, <2>1, <2>2
  <1>7. ASSUME NEW p \in Pids, NEW c \in Cgroups, MoveToCgroup(p, c) PROVE VersionInv'
    <2> DEFINE x == [proc[p] EXCEPT !.cgroup = c]
    <2>1. x \in Process /\ x.start = proc[p].start
      <3>1. Dashboard \in Programs /\ CollectorUser \in Users
        BY DEF Programs, Users
      <3> QED BY <1>1, <3>1, Changed
    <2>2. Becomes([proc EXCEPT ![p] = x])
      BY <1>7 DEF MoveToCgroup
    <2> HIDE DEF x
    <2> QED BY <1>4, <2>1, <2>2
  <1> QED BY <1>2, <1>3, <1>5, <1>6, <1>7 DEF ProcessStep

(* A live process is among what has been seen. *)
LEMMA LiveIsWitnessed ==
  ASSUME VersionInv, at # "idle", Alive(pid)
  PROVE  /\ <<pid, proc[pid].start, proc[pid].exe>> \in been
         /\ ~InCollectorCgroup(proc[pid].cgroup) => <<pid, proc[pid].start, "outside">> \in been
         /\ proc[pid].uid = CollectorUser /\ proc[pid].parent # Collector =>
              <<pid, proc[pid].start, "own">> \in been
  <1>1. pid \in Pids /\ FactsOf(proc) \subseteq been
    BY DEF VersionInv, VersionTypeOK, Past
  <1>2. Facts(pid, proc[pid]) \subseteq been
    BY <1>1 DEF FactsOf, Alive
  <1> QED BY <1>2 DEF Facts

-----------------------------------------------------------------------------
(* What has been read, with one more file. *)
LEMMA ReadingsKept ==
  ASSUME NEW x \in Readings
  PROVE  /\ \A v \in Versions : [x EXCEPT !.version = v] \in Readings
                               /\ [x EXCEPT !.version = v].version = v
         /\ \A c \in Cgroups : /\ [x EXCEPT !.cgroup = c] \in Readings
                              /\ [x EXCEPT !.cgroup = c].cgroup = c
                              /\ [x EXCEPT !.cgroup = c].version = x.version
  <1>1. ASSUME NEW v \in Versions
        PROVE  [x EXCEPT !.version = v] \in Readings /\ [x EXCEPT !.version = v].version = v
    BY DEF Readings
  <1>2. ASSUME NEW c \in Cgroups
        PROVE  /\ [x EXCEPT !.cgroup = c] \in Readings /\ [x EXCEPT !.cgroup = c].cgroup = c
               /\ [x EXCEPT !.cgroup = c].version = x.version
    BY DEF Readings
  <1> QED BY <1>1, <1>2

WithStatus(x, u, q) == [x EXCEPT !.uid = u, !.parent = q]

LEMMA StatusKept ==
  ASSUME NEW x \in Readings, NEW u \in Users, NEW q \in Pids
  PROVE  /\ WithStatus(x, u, q) \in Readings
         /\ WithStatus(x, u, q).uid = u /\ WithStatus(x, u, q).parent = q
         /\ WithStatus(x, u, q).version = x.version /\ WithStatus(x, u, q).cgroup = x.cgroup
  BY DEF WithStatus, Readings

LEMMA StartKept ==
  ASSUME NEW x \in Readings, NEW s \in 0..MaxClock
  PROVE  /\ [x EXCEPT !.start = s] \in Readings
         /\ [x EXCEPT !.start = s].start = s
         /\ [x EXCEPT !.start = s].version = x.version
         /\ [x EXCEPT !.start = s].cgroup = x.cgroup
         /\ [x EXCEPT !.start = s].uid = x.uid
         /\ [x EXCEPT !.start = s].parent = x.parent
  <1>1. s \in -1..MaxClock
    BY MaxClockIsNat
  <1> QED BY <1>1 DEF Readings

(* A read of a file changes what is known of pid, and nothing else.         *)
LEMMA ReadsKeep ==
  ASSUME VersionInv,
         ReadExe \/ ReadCgroup \/ ReadStatus \/ ReadParent \/ ReadStart
           \/ ConfirmExe \/ ConfirmCgroup \/ ConfirmStatus
  PROVE  VersionInv'
  <1> USE DEF VersionInv
  <1>1. UNCHANGED <<envVars, processes, pid, candidates, chosen>>
    BY DEF ReadExe, ReadCgroup, ReadStatus, ReadParent, ReadStart, ConfirmExe, ConfirmCgroup,
       ConfirmStatus, Confirm, Read
  <1>2. at # "idle" /\ at' # "idle"
    BY DEF ReadExe, ReadCgroup, ReadStatus, ReadParent, ReadStart, ConfirmExe, ConfirmCgroup,
       ConfirmStatus, Confirm, Read
  <1>3. Past' /\ Found'
    BY <1>1, <1>2 DEF Past, Found, IsOfOneProcess, envVars, FactsOf
  <1>4. /\ pid \in Pids /\ proc[pid] \in Process
        /\ proc[pid].start \in 0..MaxClock /\ proc[pid].start \in Int
    BY StateTypes
  <1>5. seen \in Readings
    BY StateTypes
  <1>6. seen' \in Readings /\ Looking'
    <2>looking. Looking
      OBVIOUS
    <2>same. proc' = proc /\ been' = been /\ pid' = pid
      BY <1>1 DEF envVars
    <2>next. ASSUME at' = "next" PROVE Looking'
      BY <2>next DEF Looking, AfterExe, AfterCgroup, AfterStatus, AfterStart
    <2>1. CASE ReadExe
      <3>1. CASE seen' = [seen EXCEPT !.version = proc[pid].exe] /\ proc[pid].exe \in Versions
                 /\ at' = "cgroup"
        <4>1. seen' \in Readings /\ seen'.version = proc[pid].exe
          BY <1>5, <3>1, ReadingsKept
        <4> QED BY <3>1, <4>1 DEF Looking, AfterExe, AfterCgroup, AfterStatus, AfterStart
      <3> QED BY <1>5, <2>next, <2>1, <3>1 DEF ReadExe, Read
    <2>2. CASE ReadCgroup
      <3>1. CASE seen' = [seen EXCEPT !.cgroup = proc[pid].cgroup] /\ at = "cgroup"
                 /\ ~InCollectorCgroup(proc[pid].cgroup) /\ at' = "status"
        <4>1. seen' \in Readings /\ seen'.cgroup = proc[pid].cgroup /\ seen'.version = seen.version
          BY <1>4, <1>5, <3>1, ReadingsKept, ProcessTypes
        <4> QED BY <2>looking, <3>1, <4>1 DEF Looking, AfterExe, AfterCgroup, AfterStatus, AfterStart
      <3> QED BY <1>5, <2>next, <2>2, <3>1 DEF ReadCgroup, Read
    <2>3. CASE ReadStatus
      <3>1. CASE seen' = [seen EXCEPT !.uid = proc[pid].uid, !.parent = proc[pid].parent]
                 /\ at = "status" /\ proc[pid].uid = CollectorUser /\ proc[pid].parent # Collector
                 /\ at' = "parent"
        <4>1. /\ seen' \in Readings /\ seen'.uid = proc[pid].uid
              /\ seen'.parent = proc[pid].parent
              /\ seen'.version = seen.version /\ seen'.cgroup = seen.cgroup
          <5>1. proc[pid].uid \in Users /\ proc[pid].parent \in Pids
            BY <1>4, ProcessTypes
          <5>2. seen' = WithStatus(seen, proc[pid].uid, proc[pid].parent)
            BY <3>1 DEF WithStatus
          <5> QED BY <1>5, <5>1, <5>2, StatusKept
        <4> QED BY <2>looking, <3>1, <4>1 DEF Looking, AfterExe, AfterCgroup, AfterStatus, AfterStart
      <3> QED BY <1>5, <2>next, <2>3, <3>1 DEF ReadStatus, Read
    <2>4. CASE ReadParent
      <3>1. CASE seen' = seen /\ at = "parent" /\ at' = "start"
        BY <1>5, <2>looking, <3>1 DEF Looking, AfterExe, AfterCgroup, AfterStatus, AfterStart
      <3> QED BY <1>5, <2>next, <2>4, <3>1 DEF ReadParent
    <2>5. CASE ReadStart
      <3>1. CASE seen' = [seen EXCEPT !.start = proc[pid].start] /\ at = "start"
                 /\ at' = "exe again"
        <4>1. /\ seen' \in Readings /\ seen'.start = proc[pid].start
              /\ seen'.version = seen.version /\ seen'.cgroup = seen.cgroup
              /\ seen'.uid = seen.uid /\ seen'.parent = seen.parent
          BY <1>4, <1>5, <3>1, StartKept
        <4>2. proc[pid].start \in 0..proc[pid].start
          BY <1>4, MaxClockIsNat
        <4>3. seen'.start \in 0..proc'[pid'].start
          BY <2>same, <4>1, <4>2
        <4> QED BY <2>looking, <3>1, <4>1, <4>3 DEF Looking, AfterExe, AfterCgroup, AfterStatus, AfterStart
      <3> QED BY <1>5, <2>next, <2>5, <3>1 DEF ReadStart, Read
    <2>6. CASE ConfirmExe
      <3>1. CASE seen' = seen /\ at = "exe again" /\ at' = "cgroup again" /\ Alive(pid)
                 /\ proc[pid].exe = seen.version
        <4>1. Witnessed(seen.version)
          <5>1. seen.start \in 0..proc[pid].start
            BY <2>looking, <3>1 DEF Looking, AfterStart
          <5>2. <<pid, proc[pid].start, seen.version>> \in been
            BY <1>2, <3>1, LiveIsWitnessed
          <5>3. proc[pid].start \in seen.start..proc[pid].start
            BY <1>4, <5>1
          <5> QED BY <5>2, <5>3 DEF Witnessed
        <4> QED BY <1>5, <2>looking, <2>same, <3>1, <4>1 DEF Looking, Witnessed, AfterExe, AfterCgroup, AfterStatus, AfterStart
      <3> QED BY <1>5, <2>next, <2>6, <3>1 DEF ConfirmExe, Confirm, Read
    <2>7. CASE ConfirmCgroup
      <3>1. CASE seen' = seen /\ at = "cgroup again" /\ at' = "status again" /\ Alive(pid)
                 /\ proc[pid].cgroup = seen.cgroup
        <4>1. Witnessed("outside")
          <5>1. seen.start \in 0..proc[pid].start
            BY <2>looking, <3>1 DEF Looking, AfterStart
          <5>2. <<pid, proc[pid].start, "outside">> \in been
            BY <1>2, <2>looking, <3>1, LiveIsWitnessed DEF Looking, AfterExe, AfterCgroup, AfterStatus, AfterStart
          <5>3. proc[pid].start \in seen.start..proc[pid].start
            BY <1>4, <5>1
          <5> QED BY <5>2, <5>3 DEF Witnessed
        <4> QED BY <1>5, <2>looking, <2>same, <3>1, <4>1 DEF Looking, Witnessed, AfterExe, AfterCgroup, AfterStatus, AfterStart
      <3> QED BY <1>5, <2>next, <2>7, <3>1 DEF ConfirmCgroup, Confirm, Read
    <2>8. CASE ConfirmStatus
      <3>1. CASE seen' = seen /\ at = "status again" /\ at' = "start again" /\ Alive(pid)
                 /\ proc[pid].uid = seen.uid /\ proc[pid].parent = seen.parent
        <4>1. Witnessed("own")
          <5>1. seen.start \in 0..proc[pid].start
            BY <2>looking, <3>1 DEF Looking, AfterStart
          <5>2. <<pid, proc[pid].start, "own">> \in been
            BY <1>2, <2>looking, <3>1, LiveIsWitnessed DEF Looking, AfterExe, AfterCgroup, AfterStatus, AfterStart
          <5>3. proc[pid].start \in seen.start..proc[pid].start
            BY <1>4, <5>1
          <5> QED BY <5>2, <5>3 DEF Witnessed
        <4> QED BY <1>5, <2>looking, <2>same, <3>1, <4>1 DEF Looking, Witnessed, AfterExe, AfterCgroup, AfterStatus, AfterStart
      <3> QED BY <1>5, <2>next, <2>8, <3>1 DEF ConfirmStatus, Confirm, Read
    <2> QED BY <2>1, <2>2, <2>3, <2>4, <2>5, <2>6, <2>7, <2>8
  <1>7. at' \in {"next", "cgroup", "status", "parent", "start", "exe again", "cgroup again",
                 "status again", "start again"}
    BY DEF ReadExe, ReadCgroup, ReadStatus, ReadParent, ReadStart, ConfirmExe, ConfirmCgroup,
       ConfirmStatus, Confirm, Read
  <1>8. VersionTypeOK'
    BY <1>1, <1>6, <1>7 DEF VersionTypeOK, envVars
  <1> QED BY <1>3, <1>6, <1>8

(* The start time that is confirmed leaves one process that can have been   *)
(* witnessed.                                                               *)
LEMMA ConfirmStartKeeps ==
  ASSUME VersionInv, ConfirmStart
  PROVE  VersionInv'
  <1> USE DEF VersionInv
  <1>1. UNCHANGED <<envVars, processes, pid, seen, chosen>> /\ at = "start again" /\ at' = "next"
    BY DEF ConfirmStart
  <1>2. VersionTypeOK /\ Looking /\ pid \in Pids /\ proc[pid].start \in 0..MaxClock
    BY DEF VersionTypeOK, Process
  <1> DEFINE new == [version |-> seen.version, start |-> seen.start, pid |-> pid]
  <1>3. SameStart(pid) => new \in Candidates /\ IsOfOneProcess(new)
    <2>1. SUFFICES ASSUME SameStart(pid) PROVE new \in Candidates /\ IsOfOneProcess(new)
      OBVIOUS
    <2>2. seen.start = proc[pid].start
      BY <2>1 DEF SameStart
    <2>3. Witnessed(seen.version) /\ Witnessed("outside") /\ Witnessed("own")
          /\ seen.version \in Versions
      BY <1>1, <1>2 DEF Looking, AfterStart, AfterExe
    <2>4. ASSUME NEW fact, Witnessed(fact) PROVE <<pid, seen.start, fact>> \in been
      BY <1>2, <2>2, <2>4 DEF Witnessed
    <2> QED BY <1>2, <2>2, <2>3, <2>4 DEF Candidates, IsOfOneProcess
  <1>4. candidates' \subseteq candidates \cup {new} /\ (candidates' # candidates => SameStart(pid))
    BY DEF ConfirmStart
  <1>5. VersionTypeOK'
    BY <1>1, <1>3, <1>4 DEF VersionTypeOK, envVars
  <1>6. Past' /\ Looking'
    BY <1>1 DEF Past, Looking, envVars, FactsOf, AfterExe, AfterCgroup, AfterStatus, AfterStart
  <1>7. Found'
    BY <1>1, <1>3, <1>4 DEF Found, IsOfOneProcess, envVars
  <1> QED BY <1>5, <1>6, <1>7

(* Nothing changes for the version that is looked for.                      *)
LEMMA Unchanged ==
  ASSUME VersionInv, UNCHANGED <<proc, been, at, pid, seen, candidates, chosen>>
  PROVE  FactsOf(proc)' = FactsOf(proc) /\ Looking' /\ Found'
  <1>1. FactsOf(proc)' = FactsOf(proc)
    BY DEF FactsOf, Facts, InCollectorCgroup
  <1>2. Looking'
    BY DEF VersionInv, Looking, Witnessed
  <1>3. Found'
    BY DEF VersionInv, Found, IsOfOneProcess
  <1> QED BY <1>1, <1>2, <1>3

LEMMA TicksKeep ==
  ASSUME VersionInv, ClockTicks
  PROVE  VersionInv'
  <1>1. /\ UNCHANGED <<left, proc, been, steady, processes, at, pid, seen, candidates, chosen>>
        /\ clock' = clock + 1 /\ clock < MaxClock
    BY DEF ClockTicks, detectVars
  <1>2. clock' \in 1..MaxClock /\ \A p \in Pids : proc[p].start <= clock'
    <2>1. clock \in 1..MaxClock
      BY StateTypes
    <2>2. ASSUME NEW p \in Pids PROVE proc[p].start <= clock'
      BY <1>1, StateTypes, <2>2
    <2> QED BY <1>1, <2>1, <2>2, MaxClockIsNat
  <1>3. VersionTypeOK'
    BY <1>1, <1>2 DEF VersionInv, VersionTypeOK
  <1>4. Past'
    <2>1. FactsOf(proc)' = FactsOf(proc)
      BY <1>1, Unchanged
    <2> QED BY <1>1, <1>2, <2>1 DEF VersionInv, Past
  <1> QED BY <1>1, <1>3, <1>4, Unchanged DEF VersionInv

LEMMA ListKeeps ==
  ASSUME VersionInv, List
  PROVE  VersionInv'
  <1>1. /\ UNCHANGED <<left, clock, proc, pid, seen, candidates, chosen>>
        /\ at = "idle" /\ at' = "next" /\ been' = FactsOf(proc)
    BY DEF List
  <1>2. processes' \subseteq Pids /\ steady' \subseteq Pids
    BY DEF List, NumericEntries
  <1>3. VersionTypeOK'
    BY <1>1, <1>2 DEF VersionInv, VersionTypeOK
  <1>4. Past'
    <2>1. FactsOf(proc)' = FactsOf(proc)
      BY <1>1 DEF FactsOf, Facts, InCollectorCgroup
    <2> QED BY <1>1, <2>1 DEF VersionInv, Past
  <1>5. Looking'
    BY <1>1 DEF Looking, AfterExe, AfterCgroup, AfterStatus, AfterStart
  <1>6. Found'
    BY <1>1 DEF VersionInv, Found
  <1> QED BY <1>3, <1>4, <1>5, <1>6 DEF VersionInv

LEMMA ChoicesKeep ==
  ASSUME VersionInv, NextProcess \/ Choose \/ GiveUp
  PROVE  VersionInv'
  <1>1. /\ UNCHANGED <<left, clock, proc, been>>
        /\ at = "next" /\ at' \in {"next", "exe", "done"}
    BY DEF NextProcess, Choose, GiveUp, envVars
  <1>2. /\ processes' \subseteq Pids /\ pid' \in Pids /\ seen' \in Readings
        /\ candidates' \subseteq candidates /\ steady' \subseteq Pids
        /\ chosen' \in candidates \cup {chosen, NoVersion}
    <2>1. /\ processes \subseteq Pids /\ pid \in Pids /\ seen \in Readings /\ steady \subseteq Pids
      BY DEF VersionInv, VersionTypeOK
    <2>2. CASE NextProcess
      <3>1. seen' \in Readings
        BY <2>2, UnreadIsReading DEF NextProcess
      <3> QED BY <2>1, <2>2, <3>1 DEF NextProcess, envVars
    <2>3. CASE Choose
      BY <2>1, <2>3 DEF Choose, envVars
    <2>4. CASE GiveUp
      BY <2>1, <2>4 DEF GiveUp
    <2> QED BY <2>2, <2>3, <2>4
  <1>3. VersionTypeOK'
    BY <1>1, <1>2 DEF VersionInv, VersionTypeOK
  <1>4. Past'
    <2>1. FactsOf(proc)' = FactsOf(proc)
      BY <1>1 DEF FactsOf, Facts, InCollectorCgroup
    <2> QED BY <1>1, <2>1 DEF VersionInv, Past
  <1>5. Looking'
    BY <1>1 DEF Looking, AfterExe, AfterCgroup, AfterStatus, AfterStart
  <1>6. Found'
    BY <1>1, <1>2 DEF VersionInv, Found, IsOfOneProcess
  <1> QED BY <1>3, <1>4, <1>5, <1>6 DEF VersionInv

LEMMA NextKeeps == VersionInv /\ [VersionNext]_versionVars => VersionInv'
  <1>1. SUFFICES ASSUME VersionInv, [VersionNext]_versionVars PROVE VersionInv'
    OBVIOUS
  <1>2. CASE UNCHANGED versionVars
    <2>1. UNCHANGED <<proc, been, at, pid, seen, candidates, chosen>> /\ clock' = clock
      BY <1>2 DEF versionVars, envVars, detectVars
    <2>2. VersionTypeOK'
      BY <1>1, <1>2 DEF VersionInv, VersionTypeOK, versionVars, envVars, detectVars
    <2>3. Past'
      <3>1. FactsOf(proc)' = FactsOf(proc)
        BY <1>1, <2>1, Unchanged
      <3> QED BY <1>1, <2>1, <3>1 DEF VersionInv, Past
    <2> QED BY <1>1, <2>1, <2>2, <2>3, Unchanged DEF VersionInv
  <1>3. CASE ProcessStep
    BY <1>1, <1>3, ProcessStepKeeps
  <1>4. CASE ClockTicks
    BY <1>1, <1>4, TicksKeep
  <1>5. CASE List
    BY <1>1, <1>5, ListKeeps
  <1>6. CASE NextProcess \/ Choose \/ GiveUp
    BY <1>1, <1>6, ChoicesKeep
  <1>7. CASE ReadExe \/ ReadCgroup \/ ReadStatus \/ ReadParent \/ ReadStart
               \/ ConfirmExe \/ ConfirmCgroup \/ ConfirmStatus
    BY <1>1, <1>7, ReadsKeep
  <1>8. CASE ConfirmStart
    BY <1>1, <1>8, ConfirmStartKeeps
  <1> QED BY <1>1, <1>2, <1>3, <1>4, <1>5, <1>6, <1>7, <1>8 DEF VersionNext, Detect

LEMMA VersionInvariant == VersionSpec => []VersionInv
  BY InitKeeps, NextKeeps, PTL DEF VersionSpec

(* Types, for any number of processes and any changes of them.              *)
THEOREM VersionTypes == VersionSpec => []VersionTypeOK
  <1>1. VersionInv => VersionTypeOK
    BY DEF VersionInv
  <1> QED BY <1>1, VersionInvariant, PTL

(* The version that detect returns is of one process, which ran it as the   *)
(* collector's user, outside of its control group, and not as its child.    *)
THEOREM NoMixture == VersionSpec => []VersionOfOneProcess
  <1>1. VersionInv => VersionOfOneProcess
    BY DEF VersionInv, Found, VersionOfOneProcess
  <1> QED BY <1>1, VersionInvariant, PTL
-----------------------------------------------------------------------------
(* A Codex that stays as it is, is still to be looked at, is a candidate, or *)
(* is being looked at and what has been read of it is still so.             *)
Candidate(p) == [version |-> proc[p].exe, start |-> proc[p].start, pid |-> p]

ReadRight ==
  /\ at \in AfterExe \cup {"exe"}
  /\ at \in AfterExe => seen.version = proc[pid].exe
  /\ at \in AfterCgroup => seen.cgroup = proc[pid].cgroup
  /\ at \in AfterStatus => seen.uid = proc[pid].uid /\ seen.parent = proc[pid].parent
  /\ at \in AfterStart => seen.start = proc[pid].start

Expected(p) == p \in processes \/ Candidate(p) \in candidates \/ (p = pid /\ ReadRight)

SteadyInv ==
  /\ at = "idle" => steady = {}
  /\ \A p \in steady : Eligible(proc, p) /\ (at # "done" => Expected(p))
  /\ NewestSteadyIsFound

LEMMA SteadyAtFirst == VersionInit => SteadyInv
  BY DEF VersionInit, SteadyInv, NewestSteadyIsFound

(* Changes of processes leave those alone that are steady.                  *)
LEMMA SteadyThroughChanges ==
  ASSUME SteadyInv, NEW table, Becomes(table)
  PROVE  SteadyInv'
  <1>1. /\ proc' = table /\ UNCHANGED <<processes, at, pid, seen, candidates, chosen>>
        /\ at # "idle" /\ at # "done"
        /\ steady' = {p \in steady : table[p] = proc[p] /\ Eligible(table, p)}
    BY DEF Becomes, detectVars
  <1>2. ASSUME NEW p \in steady' PROVE Eligible(proc, p)' /\ Expected(p)'
    <2>1. p \in steady /\ proc'[p] = proc[p] /\ Eligible(table, p)
      BY <1>1, <1>2
    <2>2. Expected(p)
      BY <1>1, <2>1 DEF SteadyInv
    <2>3. Eligible(proc, p)'
      BY <1>1, <2>1 DEF Eligible, InCollectorCgroup
    <2>4. Candidate(p)' = Candidate(p)
      BY <2>1 DEF Candidate
    <2>5. p = pid /\ ReadRight => ReadRight'
      BY <1>1, <2>1 DEF ReadRight, AfterExe, AfterCgroup, AfterStatus, AfterStart
    <2> QED BY <1>1, <2>2, <2>3, <2>4, <2>5 DEF Expected
  <1> QED BY <1>1, <1>2 DEF SteadyInv, NewestSteadyIsFound

(* A step of a read, or to the next process, for which the process that is  *)
(* being looked at goes on being expected.                                  *)
LEMMA SteadyThroughReads ==
  ASSUME SteadyInv, UNCHANGED <<proc, steady>>, at \notin {"idle", "done"},
         at' \notin {"idle", "done"}, candidates \subseteq candidates',
         \A p \in steady : p \in processes => p \in processes' \/ (p = pid' /\ ReadRight'),
         pid \in steady /\ ReadRight => Candidate(pid) \in candidates' \/ (pid' = pid /\ ReadRight')
  PROVE  SteadyInv'
  <1>1. ASSUME NEW p \in steady' PROVE Eligible(proc, p)' /\ Expected(p)'
    <2>1. p \in steady /\ Eligible(proc, p) /\ Expected(p)
      BY <1>1 DEF SteadyInv
    <2>2. Eligible(proc, p)' /\ Candidate(p)' = Candidate(p)
      BY <2>1 DEF Eligible, InCollectorCgroup, Candidate
    <2>3. CASE p \in processes
      BY <2>1, <2>2, <2>3 DEF Expected
    <2>4. CASE Candidate(p) \in candidates
      BY <2>2, <2>4 DEF Expected
    <2>5. CASE p = pid /\ ReadRight
      BY <2>1, <2>2, <2>5 DEF Expected
    <2> QED BY <2>1, <2>3, <2>4, <2>5 DEF Expected
  <1> QED BY <1>1 DEF SteadyInv, NewestSteadyIsFound

LEMMA SteadyStutters ==
  ASSUME SteadyInv, UNCHANGED <<proc, steady, at, processes, pid, seen, candidates, chosen>>
  PROVE  SteadyInv'
  BY DEF SteadyInv, Eligible, InCollectorCgroup, Expected, Candidate, ReadRight, AfterExe, AfterCgroup, AfterStatus, AfterStart,
     NewestSteadyIsFound, Newer

LEMMA NoVersionIsNone == NoVersion \notin Candidates
  <1>1. NoVersion.start = -1
    BY DEF NoVersion
  <1>2. -1 \notin 0..MaxClock
    BY MaxClockIsNat
  <1> QED BY <1>1, <1>2 DEF Candidates

(* Nothing that is wanted of a file of the process is missing.              *)
LEMMA SteadyRead ==
  ASSUME VersionInv, SteadyInv, pid \in steady, ReadRight,
         ReadExe \/ ReadCgroup \/ ReadStatus \/ ReadParent \/ ReadStart
           \/ ConfirmExe \/ ConfirmCgroup \/ ConfirmStatus
  PROVE  ReadRight'
  <1>1. Eligible(proc, pid)
    BY DEF SteadyInv
  <1>2. /\ Alive(pid) /\ proc[pid].exe \in Versions /\ proc[pid].uid = CollectorUser
        /\ ~InCollectorCgroup(proc[pid].cgroup) /\ proc[pid].parent # Collector
        /\ ~(Alive(proc[pid].parent) /\ proc[proc[pid].parent].exe = Dashboard)
    BY <1>1 DEF Eligible, Alive
  <1>3. proc' = proc /\ pid' = pid
    BY DEF ReadExe, ReadCgroup, ReadStatus, ReadParent, ReadStart, ConfirmExe, ConfirmCgroup,
       ConfirmStatus, Confirm, Read, envVars
  <1>4. seen \in Readings
    BY StateTypes
  <1>5. CASE ReadExe
    <2>1. at' = "cgroup" /\ seen' = [seen EXCEPT !.version = proc[pid].exe]
      BY <1>2, <1>5 DEF ReadExe, Read
    <2>2. seen'.version = proc[pid].exe
      BY <1>2, <1>4, <2>1, ReadingsKept
    <2> QED BY <1>3, <2>1, <2>2 DEF ReadRight, AfterExe, AfterCgroup, AfterStatus, AfterStart
  <1>6. CASE ReadCgroup
    <2>1. at = "cgroup" /\ at' = "status" /\ seen' = [seen EXCEPT !.cgroup = proc[pid].cgroup]
      BY <1>2, <1>6 DEF ReadCgroup, Read
    <2>2. seen'.cgroup = proc[pid].cgroup /\ seen'.version = seen.version
      BY <1>4, <2>1, ReadingsKept, StateTypes, ProcessTypes
    <2> QED BY <1>3, <2>1, <2>2 DEF ReadRight, AfterExe, AfterCgroup, AfterStatus, AfterStart
  <1>7. CASE ReadStatus
    <2>1. /\ at = "status" /\ at' = "parent"
          /\ seen' = WithStatus(seen, proc[pid].uid, proc[pid].parent)
      BY <1>2, <1>7 DEF ReadStatus, Read, WithStatus
    <2>2. proc[pid].uid \in Users /\ proc[pid].parent \in Pids
      BY StateTypes, ProcessTypes
    <2>3. /\ seen'.uid = proc[pid].uid /\ seen'.parent = proc[pid].parent
          /\ seen'.version = seen.version /\ seen'.cgroup = seen.cgroup
      BY <1>4, <2>1, <2>2, StatusKept
    <2> QED BY <1>3, <2>1, <2>3 DEF ReadRight, AfterExe, AfterCgroup, AfterStatus, AfterStart
  <1>8. CASE ReadParent
    <2>1. at = "parent" /\ seen' = seen
      BY <1>8 DEF ReadParent
    <2>2. seen.parent = proc[pid].parent
      BY <2>1 DEF ReadRight, AfterExe, AfterCgroup, AfterStatus
    <2>3. at' = "start"
      BY <1>2, <1>8, <2>2 DEF ReadParent
    <2> QED BY <1>3, <2>1, <2>3 DEF ReadRight, AfterExe, AfterCgroup, AfterStatus, AfterStart
  <1>9. CASE ReadStart
    <2>1. at = "start" /\ at' = "exe again" /\ seen' = [seen EXCEPT !.start = proc[pid].start]
      BY <1>2, <1>9 DEF ReadStart, Read
    <2>2. /\ seen'.start = proc[pid].start
          /\ seen'.version = seen.version /\ seen'.cgroup = seen.cgroup
          /\ seen'.uid = seen.uid /\ seen'.parent = seen.parent
      BY <1>4, <2>1, StartKept, StateTypes
    <2> QED BY <1>3, <2>1, <2>2 DEF ReadRight, AfterExe, AfterCgroup, AfterStatus, AfterStart
  <1>10. CASE ConfirmExe \/ ConfirmCgroup \/ ConfirmStatus
    <2>1. /\ at \in AfterStart /\ seen' = seen
          /\ at' \in AfterStart \cup {"next"}
      BY <1>10 DEF ConfirmExe, ConfirmCgroup, ConfirmStatus, Confirm, Read, AfterStart
    <2>2. /\ seen.version = proc[pid].exe /\ seen.cgroup = proc[pid].cgroup
          /\ seen.uid = proc[pid].uid /\ seen.parent = proc[pid].parent
      BY <2>1 DEF ReadRight, AfterExe, AfterCgroup, AfterStatus, AfterStart
    <2>3. at' # "next"
      BY <1>2, <1>10, <2>2 DEF ConfirmExe, ConfirmCgroup, ConfirmStatus, Confirm, Read
    <2> QED BY <1>3, <2>1, <2>3 DEF ReadRight, AfterExe, AfterCgroup, AfterStatus, AfterStart
  <1> QED BY <1>5, <1>6, <1>7, <1>8, <1>9, <1>10

LEMMA SteadyKept ==
  ASSUME VersionInv, SteadyInv, VersionNext
  PROVE  SteadyInv'
  <1>1. CASE ProcessStep
    <2>1. PICK table : Becomes(table)
      BY <1>1 DEF ProcessStep, Fork, Exit, Exec, SetUser, MoveToCgroup
    <2> QED BY <2>1, SteadyThroughChanges
  <1>2. CASE ClockTicks
    <2>1. UNCHANGED <<proc, steady, at, processes, pid, seen, candidates, chosen>>
      BY <1>2 DEF ClockTicks, detectVars
    <2> QED BY <2>1, SteadyStutters
  <1>3. CASE List
    <2>1. /\ at' = "next" /\ proc' = proc
          /\ \A p \in steady' : Eligible(proc, p) /\ p \in processes'
      BY <1>3 DEF List, NumericEntries, Eligible, Alive
    <2>2. \A p \in steady' : Eligible(proc, p)'
      BY <2>1 DEF Eligible, InCollectorCgroup
    <2> QED BY <2>1, <2>2 DEF SteadyInv, Expected, NewestSteadyIsFound
  <1>4. CASE NextProcess
    <2>1. /\ UNCHANGED <<proc, steady, candidates>> /\ at = "next"
          /\ processes' = processes \ {pid'}
          /\ at' = IF pid' = Collector THEN "next" ELSE "exe"
      BY <1>4 DEF NextProcess, envVars
    <2>2. ASSUME NEW p \in steady, p \in processes
          PROVE  p \in processes' \/ (p = pid' /\ ReadRight')
      <3>1. p # Collector
        BY DEF SteadyInv, Eligible
      <3> QED BY <2>1, <2>2, <3>1 DEF ReadRight, AfterExe, AfterCgroup, AfterStatus, AfterStart
    <2>3. ~ReadRight
      BY <2>1 DEF ReadRight, AfterExe
    <2> QED BY <2>1, <2>2, <2>3, SteadyThroughReads
  <1>5. CASE Choose
    <2>1. /\ processes = {} /\ at = "next" /\ at' = "done" /\ UNCHANGED <<proc, steady>>
          /\ candidates # {} => chosen' \in candidates /\ \A c \in candidates : ~Newer(c, chosen')
      BY <1>5 DEF Choose, envVars
    <2>2. ASSUME NEW p \in steady'
          PROVE  /\ Eligible(proc, p)' /\ (chosen # NoVersion)'
                 /\ ~Newer([start |-> proc[p].start, pid |-> p], chosen)'
      <3>1. Eligible(proc, p) /\ Candidate(p) \in candidates
        BY <2>1, <2>2 DEF SteadyInv, Expected, ReadRight, AfterExe
      <3>2. chosen' \in Candidates /\ ~Newer(Candidate(p), chosen')
        BY <2>1, <3>1 DEF VersionInv, VersionTypeOK
      <3>3. chosen' # NoVersion
        BY <3>2, NoVersionIsNone
      <3>4. ~Newer([start |-> proc[p].start, pid |-> p], chosen')
        BY <3>2 DEF Newer, Candidate
      <3> QED BY <2>1, <3>1, <3>3, <3>4 DEF Eligible, InCollectorCgroup, Newer
    <2> QED BY <2>1, <2>2 DEF SteadyInv, NewestSteadyIsFound
  <1>6. CASE GiveUp
    BY <1>6 DEF GiveUp, SteadyInv, NewestSteadyIsFound
  <1>7. CASE ReadExe \/ ReadCgroup \/ ReadStatus \/ ReadParent \/ ReadStart
               \/ ConfirmExe \/ ConfirmCgroup \/ ConfirmStatus
    <2>1. /\ UNCHANGED <<proc, steady, processes, pid, candidates>>
          /\ at \notin {"idle", "done"} /\ at' \notin {"idle", "done"}
      BY <1>7 DEF ReadExe, ReadCgroup, ReadStatus, ReadParent, ReadStart, ConfirmExe, ConfirmCgroup,
         ConfirmStatus, Confirm, Read, envVars
    <2>2. pid \in steady /\ ReadRight => ReadRight'
      BY <1>7, SteadyRead
    <2> QED BY <2>1, <2>2, SteadyThroughReads
  <1>8. CASE ConfirmStart
    <2>1. /\ UNCHANGED <<proc, steady, processes, pid>> /\ at = "start again" /\ at' = "next"
          /\ candidates \subseteq candidates'
      BY <1>8 DEF ConfirmStart, envVars
    <2>2. ASSUME pid \in steady, ReadRight PROVE Candidate(pid) \in candidates'
      <3>1. Alive(pid) /\ seen.start = proc[pid].start /\ seen.version = proc[pid].exe
        BY <2>1, <2>2 DEF SteadyInv, Eligible, Alive, ReadRight, AfterExe, AfterStart
      <3> QED BY <1>8, <3>1 DEF ConfirmStart, SameStart, Candidate
    <2> QED BY <2>1, <2>2, SteadyThroughReads
  <1> QED BY <1>1, <1>2, <1>3, <1>4, <1>5, <1>6, <1>7, <1>8 DEF VersionNext, Detect

(* A Codex that stays as it is while detect runs is found, whatever other   *)
(* processes do, however many there are.                                    *)
THEOREM NewestIsFound == VersionSpec => []NewestSteadyIsFound
  <1>1. VersionInv /\ SteadyInv /\ [VersionNext]_versionVars => SteadyInv'
    <2>1. ASSUME SteadyInv, UNCHANGED versionVars PROVE SteadyInv'
      BY <2>1, SteadyStutters DEF versionVars, envVars, detectVars
    <2> QED BY <2>1, SteadyKept
  <1>2. SteadyInv => NewestSteadyIsFound
    BY DEF SteadyInv
  <1> QED BY <1>1, <1>2, SteadyAtFirst, VersionInvariant, PTL DEF VersionSpec
-----------------------------------------------------------------------------
(* Identifiers in a sequence: none of them twice, and what is among them.   *)
Once(s) == \A i, j \in 1..Len(s) : s[i] = s[j] => i = j
Among(t, s) == \E i \in 1..Len(s) : s[i] = t

(* A sequence without repetitions has as many members as places.            *)
LEMMA OnceCounts ==
  ASSUME NEW X, NEW s \in Seq(X), Once(s)
  PROVE  Cardinality({s[i] : i \in 1..Len(s)}) = Len(s)
<1> DEFINE T == {s[i] : i \in 1..Len(s)}
           f == [i \in 1..Len(s) |-> s[i]]
<1>1. Len(s) \in Nat
  OBVIOUS
<1>2. f \in Bijection(1..Len(s), T)
  <2>1. f \in [1..Len(s) -> T]
    OBVIOUS
  <2>2. \A i, j \in 1..Len(s) : f[i] = f[j] => i = j
    BY DEF Once
  <2>3. \A t \in T : \E i \in 1..Len(s) : f[i] = t
    OBVIOUS
  <2> HIDE DEF f, T
  <2> QED
    BY <2>1, <2>2, <2>3 DEF Bijection, Injection, Surjection, IsInjective
<1>3. IsFiniteSet(1..Len(s)) /\ Cardinality(1..Len(s)) = Len(s)
  <2>1. 1 \in Int /\ Len(s) \in Int
    BY <1>1
  <2>2. /\ IsFiniteSet(1..Len(s))
        /\ Cardinality(1..Len(s)) = IF 1 > Len(s) THEN 0 ELSE Len(s) - 1 + 1
    BY <2>1, FS_Interval
  <2> QED
    BY <1>1, <2>2
<1> HIDE DEF f, T
<1>4. ExistsBijection(1..Len(s), T)
  BY <1>2 DEF ExistsBijection
<1>5. Cardinality(T) = Cardinality(1..Len(s))
  BY <1>3, <1>4, FS_Bijection
<1> QED
  BY <1>3, <1>5 DEF T

(* The members of a set, in their order.                                    *)
LEMMA InOrderIs ==
  ASSUME NEW S, S \subseteq Nat, IsFiniteSet(S)
  PROVE  /\ Cardinality(S) \in Nat
         /\ InOrder(S) \in Seq(S) /\ Len(InOrder(S)) = Cardinality(S)
         /\ \A x \in S : \E k \in 1..Cardinality(S) : InOrder(S)[k] = x
         /\ \A j, k \in 1..Cardinality(S) : j < k => InOrder(S)[j] < InOrder(S)[k]
<1> DEFINE rank(x) == Cardinality({y \in S : y < x})
<1>1. Cardinality(S) \in Nat
  BY FS_CardinalityType
<1> PICK n \in Nat : n = Cardinality(S)
  BY <1>1
<1>2. /\ \A x \in S : rank(x) \in 0..(n - 1)
      /\ \A x, z \in S : x < z => rank(x) < rank(z)
      /\ \A k \in 0..(n - 1) : \E x \in S : rank(x) = k
      /\ \A x, z \in S : rank(x) = rank(z) => x = z
  BY NumberRanks
<1>3. InOrder(S) = [k \in 1..n |-> CHOOSE x \in S : rank(x) = k - 1]
  BY DEF InOrder
<1> HIDE DEF rank
<1>4. ASSUME NEW k \in 1..n
      PROVE  InOrder(S)[k] \in S /\ rank(InOrder(S)[k]) = k - 1
  <2>1. k - 1 \in 0..(n - 1)
    OBVIOUS
  <2>2. \E x \in S : rank(x) = k - 1
    BY <1>2, <2>1
  <2> QED
    BY <1>3, <2>2
<1>5. ASSUME NEW x \in S
      PROVE  \E k \in 1..n : InOrder(S)[k] = x
  <2>1. rank(x) + 1 \in 1..n /\ (rank(x) + 1) - 1 = rank(x)
    BY <1>2
  <2>2. InOrder(S)[rank(x) + 1] = x
    BY <1>2, <1>4, <2>1
  <2> QED
    BY <2>1, <2>2
<1>6. ASSUME NEW j \in 1..n, NEW k \in 1..n, j < k
      PROVE  InOrder(S)[j] < InOrder(S)[k]
  <2>1. /\ InOrder(S)[j] \in S /\ rank(InOrder(S)[j]) = j - 1
        /\ InOrder(S)[k] \in S /\ rank(InOrder(S)[k]) = k - 1
    BY <1>4
  <2> PICK x \in S, z \in S : x = InOrder(S)[j] /\ z = InOrder(S)[k]
    BY <2>1
  <2>2. x \in Nat /\ z \in Nat /\ rank(x) = j - 1 /\ rank(z) = k - 1
    BY <2>1
  <2>3. ~(z < x) /\ z # x
    BY <1>2, <1>6, <2>2
  <2> QED
    BY <2>2, <2>3
<1> QED
  BY <1>1, <1>3, <1>4, <1>5, <1>6

LEMMA FirstPart ==
  ASSUME NEW X, NEW s \in Seq(X), NEW m \in 0..Len(s)
  PROVE  /\ SubSeq(s, 1, m) \in Seq(X) /\ Len(SubSeq(s, 1, m)) = m
         /\ \A k \in 1..m : SubSeq(s, 1, m)[k] = s[k]
OBVIOUS

(* The first of them.                                                       *)
LEMMA FirstInOrder ==
  ASSUME NEW S, S \subseteq Nat, IsFiniteSet(S), NEW m \in 0..Cardinality(S)
  PROVE  /\ SubSeq(InOrder(S), 1, m) \in Seq(S) /\ Len(SubSeq(InOrder(S), 1, m)) = m
         /\ \A k \in 1..m : SubSeq(InOrder(S), 1, m)[k] = InOrder(S)[k]
<1>1. InOrder(S) \in Seq(S) /\ Len(InOrder(S)) = Cardinality(S)
  BY InOrderIs
<1> QED
  BY <1>1, FirstPart

(* Each identifier once, where it came first.                               *)
LEMMA DistinctIs ==
  ASSUME NEW X, NEW s \in Seq(X)
  PROVE  /\ Distinct(s) \in Seq(X) /\ Once(Distinct(s))
         /\ \A i \in 1..Len(s) : Among(s[i], Distinct(s))
         /\ \A k \in 1..Len(Distinct(s)) : Among(Distinct(s)[k], s)
<1> PICK n \in Nat : n = Len(s)
  OBVIOUS
<1> DEFINE first == {i \in 1..n : \A j \in 1..(i - 1) : s[j] # s[i]}
<1>1. first \subseteq Nat /\ IsFiniteSet(first)
  <2>1. first \in SUBSET (1..n)
    OBVIOUS
  <2>2. IsFiniteSet(1..n)
    BY FS_Interval
  <2> QED
    BY <2>1, <2>2, FS_Subset
<1>2. first \subseteq 1..n
  OBVIOUS
<1> PICK q : q = InOrder(first)
  OBVIOUS
<1> PICK c : c = Cardinality(first)
  OBVIOUS
<1>3. Distinct(s) = [k \in 1..c |-> s[q[k]]]
  <2> DEFINE place(k) == CHOOSE i \in first : Cardinality({j \in first : j < i}) = k - 1
  <2>1. Distinct(s) = [k \in 1..c |-> s[place(k)]]
    BY DEF Distinct
  <2>2. q = [k \in 1..c |-> place(k)]
    BY DEF InOrder
  <2> HIDE DEF place
  <2>3. \A k \in 1..c : q[k] = place(k)
    BY <2>2
  <2> QED
    BY <2>1, <2>3
<1>4. ASSUME NEW i \in 1..n
      PROVE  \E j \in first : s[j] = s[i]
  <2> DEFINE T == {j \in 1..n : s[j] = s[i]}
  <2>1. T \subseteq Nat /\ T # {}
    OBVIOUS
  <2>2. PICK j \in T : \A k \in T : j <= k
    BY <2>1, LeastElement
  <2>3. j \in first /\ s[j] = s[i]
    BY <2>2
  <2> QED
    BY <2>3
<1>5. \A i, j \in first : s[i] = s[j] => i = j
  <2>1. SUFFICES ASSUME NEW i \in first, NEW j \in first, s[i] = s[j], i < j PROVE FALSE
    OBVIOUS
  <2>2. i \in 1..(j - 1)
    BY <2>1
  <2> QED
    BY <2>1, <2>2
<1> HIDE DEF first
<1>6. /\ c \in Nat
      /\ q \in Seq(first) /\ Len(q) = c
      /\ \A x \in first : \E k \in 1..c : q[k] = x
      /\ \A j, k \in 1..c : j < k => q[j] < q[k]
  <2>1. /\ Cardinality(first) \in Nat
        /\ InOrder(first) \in Seq(first) /\ Len(InOrder(first)) = Cardinality(first)
        /\ \A x \in first : \E k \in 1..Cardinality(first) : InOrder(first)[k] = x
        /\ \A j, k \in 1..Cardinality(first) : j < k => InOrder(first)[j] < InOrder(first)[k]
    BY <1>1, InOrderIs
  <2> QED
    BY <2>1
<1>7. \A k \in 1..c : q[k] \in first /\ q[k] \in 1..n
  <2>1. \A k \in 1..c : q[k] \in first
    <3>1. q \in Seq(first) /\ Len(q) = c
      BY <1>6
    <3> QED
      BY <3>1
  <2> QED
    BY <1>2, <2>1
<1>8. Distinct(s) \in Seq(X) /\ Len(Distinct(s)) = c
  <2>1. \A k \in 1..c : s[q[k]] \in X
    BY <1>7
  <2>2. [k \in 1..c |-> s[q[k]]] \in Seq(X) /\ Len([k \in 1..c |-> s[q[k]]]) = c
    BY <1>6, <2>1
  <2> QED
    BY <1>3, <2>2
<1>9. Once(Distinct(s))
  <2>1. \A j, k \in 1..c : q[j] = q[k] => j = k
    <3>1. SUFFICES ASSUME NEW j \in 1..c, NEW k \in 1..c, q[j] = q[k], j < k PROVE FALSE
      BY <1>6
    <3>2. q[j] < q[k] /\ q[j] \in Nat
      BY <1>1, <1>6, <1>7, <3>1
    <3> QED
      BY <3>1, <3>2
  <2> QED
    <3>1. SUFFICES ASSUME NEW j \in 1..c, NEW k \in 1..c, Distinct(s)[j] = Distinct(s)[k]
                   PROVE  j = k
      BY <1>8 DEF Once
    <3>2. s[q[j]] = s[q[k]] /\ q[j] \in first /\ q[k] \in first
      BY <1>7, <1>3, <3>1
    <3> QED
      BY <1>5, <2>1, <3>2
<1>10. \A i \in 1..Len(s) : Among(s[i], Distinct(s))
  <2>1. SUFFICES ASSUME NEW i \in 1..n PROVE \E k \in 1..c : Distinct(s)[k] = s[i]
    BY <1>8 DEF Among
  <2>2. PICK j \in first : s[j] = s[i]
    BY <1>4
  <2>3. PICK k \in 1..c : q[k] = j
    BY <1>6
  <2> QED
    BY <1>3, <2>2, <2>3
<1>11. \A k \in 1..Len(Distinct(s)) : Among(Distinct(s)[k], s)
  BY <1>7, <1>3, <1>8 DEF Among
<1> QED
  BY <1>8, <1>9, <1>10, <1>11

(* The first of the identifiers, as many as may be read.                    *)
LEMMA FirstReadsIs ==
  ASSUME NEW X, NEW s \in Seq(X), Once(s)
  PROVE  /\ FirstReads(s) \in Seq(X) /\ Once(FirstReads(s))
         /\ Len(FirstReads(s)) <= MaxReads
         /\ \A k \in 1..Len(FirstReads(s)) : Among(FirstReads(s)[k], s)
         /\ Len(FirstReads(s)) < MaxReads => FirstReads(s) = s
<1> PICK n \in Nat : n = Len(s)
  OBVIOUS
<1> PICK m \in Nat : m = IF n < MaxReads THEN n ELSE MaxReads
  BY ThreadsAssumption
<1>1. FirstReads(s) = SubSeq(s, 1, m)
  BY DEF FirstReads
<1>2. m <= n /\ m <= MaxReads /\ (m < MaxReads => m = n) /\ MaxReads \in Nat
  BY ThreadsAssumption
<1>3. /\ SubSeq(s, 1, m) \in Seq(X) /\ Len(SubSeq(s, 1, m)) = m
      /\ \A k \in 1..m : SubSeq(s, 1, m)[k] = s[k]
  BY <1>2
<1>4. m = n => SubSeq(s, 1, m) = s
  BY <1>3
<1>5. \A k \in 1..m : k \in 1..n
  BY <1>2
<1>6. Once(FirstReads(s))
  BY <1>1, <1>3, <1>5 DEF Once
<1>7. \A k \in 1..Len(FirstReads(s)) : Among(FirstReads(s)[k], s)
  BY <1>1, <1>3, <1>5 DEF Among
<1> QED
  BY <1>1, <1>2, <1>3, <1>4, <1>6, <1>7

-----------------------------------------------------------------------------
(* What selectLoadedThreads returns. *)

Preference(G) == {p \in G \X G : Preferred(p[1], p[2])}
OneRowEach(G) == \A c, d \in G : c.id = d.id => c = d

(* loadedThreadPreferred is a strict total order on the rows of different   *)
(* threads, in which an active row is before one that is not.               *)
LEMMA PreferredIs ==
  ASSUME NEW c \in Rows, NEW d \in Rows
  PROVE  /\ ~Preferred(c, c)
         /\ c.id # d.id => Preferred(c, d) \/ Preferred(d, c)
         /\ \A e \in Rows : Preferred(c, d) /\ Preferred(d, e) => Preferred(c, e)
         /\ Preferred(c, d) /\ d.active => c.active
<1>1. \A r \in Rows : r.id \in Nat /\ r.updated \in Nat /\ r.active \in BOOLEAN
  <2>1. \A r \in Rows : r.id \in Threads /\ r.updated \in 0..3 /\ r.active \in BOOLEAN
    BY DEF Rows
  <2>2. \A t \in Threads : t \in Nat
    BY ThreadsAssumption
  <2>3. \A n \in 0..3 : n \in Nat
    OBVIOUS
  <2> QED
    BY <2>1, <2>2, <2>3
<1>3. /\ ~Preferred(c, c)
      /\ c.id # d.id => Preferred(c, d) \/ Preferred(d, c)
  <2>1. c.id \in Nat /\ c.updated \in Nat /\ d.id \in Nat /\ d.updated \in Nat
    BY <1>1
  <2>2. /\ ~(c.updated > c.updated) /\ ~(c.id < c.id)
        /\ c.updated > d.updated \/ d.updated > c.updated \/ c.updated = d.updated
        /\ c.id # d.id => c.id < d.id \/ d.id < c.id
    BY <2>1
  <2>3. CASE c.active /\ ~d.active
    BY <2>2, <2>3, Zenon DEF Preferred
  <2>4. CASE d.active /\ ~c.active
    BY <2>2, <2>4, Zenon DEF Preferred
  <2>5. CASE c.active = d.active
    BY <2>2, <2>5, Zenon DEF Preferred
  <2>6. c.active \in BOOLEAN /\ d.active \in BOOLEAN
    BY <1>1
  <2> QED
    BY <2>3, <2>4, <2>5, <2>6, Zenon
<1>4. ASSUME NEW e \in Rows, Preferred(c, d), Preferred(d, e)
      PROVE  Preferred(c, e)
  BY <1>1, <1>4 DEF Preferred
<1>5. Preferred(c, d) /\ d.active => c.active
  BY DEF Preferred
<1> QED
  BY <1>3, <1>4, <1>5

(* As a relation, for the ranks of Folding.                                 *)
LEMMA PreferenceOrders ==
  ASSUME NEW G, G \subseteq Rows, OneRowEach(G), NEW S, S \subseteq G
  PROVE  /\ Orders(Preference(G), S)
         /\ \A c \in S : Before(Preference(G), S, c) = {d \in S : Preferred(d, c)}
<1>1. \A c, d \in S : <<c, d>> \in Preference(G) <=> Preferred(c, d)
  BY DEF Preference
<1>2. \A c \in S : c \in Rows
  OBVIOUS
<1>3. \A c, d \in S : c # d => c.id # d.id
  BY DEF OneRowEach
<1>4. \A c \in S : <<c, c>> \notin Preference(G)
  BY <1>1, <1>2, PreferredIs
<1>5. ASSUME NEW c \in S, NEW d \in S, c # d
      PROVE  <<c, d>> \in Preference(G) \/ <<d, c>> \in Preference(G)
  BY <1>1, <1>2, <1>3, <1>5, PreferredIs
<1>6. ASSUME NEW c \in S, NEW d \in S, NEW e \in S,
             <<c, d>> \in Preference(G), <<d, e>> \in Preference(G)
      PROVE  <<c, e>> \in Preference(G)
  <2>1. Preferred(c, d) /\ Preferred(d, e)
    BY <1>1, <1>6
  <2>2. Preferred(c, e)
    BY <1>2, <2>1, PreferredIs
  <2> QED
    BY <1>1, <2>2
<1> QED
  BY <1>1, <1>4, <1>5, <1>6 DEF Orders, Before

(* Rows wanted, at most, one of a session; and for every row one of its     *)
(* session, or all rows wanted are preferred to the one there would be.     *)
LEMMA SelectIs ==
  ASSUME NEW G, G \subseteq Rows, IsFiniteSet(G), OneRowEach(G)
  PROVE  /\ SelectLoaded(G) \subseteq G /\ Cardinality(SelectLoaded(G)) <= Limit
         /\ \A c, d \in SelectLoaded(G) : c.session = d.session => c = d
         /\ \A r \in G :
              \/ \E c \in SelectLoaded(G) : c.session = r.session /\ (r.active => c.active)
              \/ /\ Cardinality(SelectLoaded(G)) = Limit
                 /\ r.active => \A c \in SelectLoaded(G) : c.active
<1> PICK best : best = OnePerSession(G)
  OBVIOUS
<1> PICK R : R = Preference(G)
  OBVIOUS
<1> DEFINE rank(c) == Cardinality(Before(R, best, c))
           S == SelectLoaded(G)
<1>1. best \in SUBSET G /\ IsFiniteSet(best)
  <2>1. best \in SUBSET G
    BY DEF OnePerSession
  <2> QED
    BY <2>1, FS_Subset
<1>2. Orders(R, best) /\ \A c \in best : Before(R, best, c) = {d \in best : Preferred(d, c)}
  BY <1>1, PreferenceOrders
<1>3. S = {c \in best : rank(c) < Limit}
  BY <1>2 DEF SelectLoaded
<1>4. /\ \A c \in best : rank(c) \in 0..(Cardinality(best) - 1)
      /\ \A c, d \in best : <<c, d>> \in R => rank(c) < rank(d)
  BY <1>1, <1>2, RankOrders
<1>5. /\ \A k \in 0..(Cardinality(best) - 1) : \E c \in best : rank(c) = k
      /\ \A c, d \in best : rank(c) = rank(d) => c = d
  BY <1>1, <1>2, RankTaken
<1>6. Limit \in Nat /\ Limit > 0 /\ Cardinality(best) \in Nat
  BY <1>1, ThreadsAssumption, FS_CardinalityType
<1> HIDE DEF rank, S
<1> PICK f : f = [c \in S |-> rank(c)]
  OBVIOUS
<1>7. IsFiniteSet(0..(Limit - 1)) /\ Cardinality(0..(Limit - 1)) = Limit
  <2>1. 0 \in Int /\ Limit - 1 \in Int
    BY <1>6
  <2>2. /\ IsFiniteSet(0..(Limit - 1))
        /\ Cardinality(0..(Limit - 1)) = IF 0 > Limit - 1 THEN 0 ELSE Limit - 1 - 0 + 1
    BY <2>1, FS_Interval
  <2> QED
    BY <1>6, <2>2
<1>8. f \in Injection(S, 0..(Limit - 1))
  <2>1. \A c \in S : rank(c) \in 0..(Limit - 1)
    BY <1>3, <1>4, <1>6
  <2>2. \A c, d \in S : rank(c) = rank(d) => c = d
    BY <1>3, <1>5
  <2> QED
    BY <2>1, <2>2 DEF Injection, IsInjective
<1>9. Cardinality(S) <= Limit /\ (f \in Surjection(S, 0..(Limit - 1)) => Cardinality(S) = Limit)
  BY <1>7, <1>8, FS_Injection
<1>10. \A c, d \in S : c.session = d.session => c = d
  <2>1. SUFFICES ASSUME NEW c \in S, NEW d \in S, c.session = d.session, c # d PROVE FALSE
    OBVIOUS
  <2>2. c \in best /\ d \in best /\ c \in G /\ d \in G
    BY <1>1, <1>3
  <2>3. ~Preferred(c, d) /\ ~Preferred(d, c)
    BY <2>1, <2>2 DEF OnePerSession
  <2>4. c \in Rows /\ d \in Rows /\ c.id # d.id
    BY <2>1, <2>2 DEF OneRowEach
  <2> QED
    BY <2>3, <2>4, PreferredIs
<1>11. ASSUME NEW r \in G
       PROVE  \E b \in best : b.session = r.session /\ (r.active => b.active)
  <2> DEFINE T == {d \in G : d.session = r.session}
  <2>1. T \in SUBSET G /\ r \in T
    OBVIOUS
  <2>2. IsFiniteSet(T) /\ T # {}
    BY <2>1, FS_Subset
  <2>3. Orders(R, T) /\ \A c \in T : Before(R, T, c) = {d \in T : Preferred(d, c)}
    BY <2>1, PreferenceOrders
  <2>4. Cardinality(T) \in Nat /\ Cardinality(T) # 0
    BY <2>2, FS_CardinalityType, FS_EmptySet
  <2>5. 0 \in 0..(Cardinality(T) - 1)
    BY <2>4
  <2> HIDE DEF T
  <2>6. PICK b \in T : Cardinality(Before(R, T, b)) = 0
    BY <2>2, <2>3, <2>5, RankTaken
  <2>7. IsFiniteSet(Before(R, T, b))
    BY <2>2, <2>3, RankOrders
  <2>8. \A d \in T : ~Preferred(d, b)
    BY <2>3, <2>6, <2>7, FS_EmptySet
  <2>9. b \in G /\ b.session = r.session /\ b \in Rows /\ r \in Rows
    BY <2>1 DEF T
  <2>10. b \in best
    BY <2>8, <2>9 DEF OnePerSession, T
  <2>11. r.active => b.active
    <3>1. CASE r = b
      BY <3>1
    <3>2. CASE r # b
      <4>1. r.id # b.id
        BY <2>9, <3>2 DEF OneRowEach
      <4>2. Preferred(b, r)
        BY <2>1, <2>8, <2>9, <4>1, PreferredIs
      <4> QED
        BY <2>9, <4>2, PreferredIs
    <3> QED
      BY <3>1, <3>2
  <2> QED
    BY <2>9, <2>10, <2>11
<1>12. ASSUME NEW b \in best, b \notin S
       PROVE  Cardinality(S) = Limit /\ (b.active => \A c \in S : c.active)
  <2>1. rank(b) >= Limit /\ rank(b) \in 0..(Cardinality(best) - 1)
    BY <1>3, <1>4, <1>6, <1>12
  <2>2. ASSUME NEW k \in 0..(Limit - 1) PROVE \E c \in S : f[c] = k
    <3>1. k \in 0..(Cardinality(best) - 1)
      BY <1>6, <2>1
    <3>2. PICK c \in best : rank(c) = k
      BY <1>5, <3>1
    <3>3. c \in S
      BY <1>3, <1>6, <3>2
    <3> QED
      BY <3>2, <3>3
  <2>3. f \in Surjection(S, 0..(Limit - 1))
    BY <1>8, <2>2 DEF Injection, Surjection
  <2>4. ASSUME NEW c \in S, b.active PROVE c.active
    <3>1. c \in best /\ rank(c) < Limit /\ rank(c) \in Nat /\ rank(b) \in Nat
      BY <1>3, <1>4, <1>6
    <3>2. ~(rank(b) < rank(c)) /\ c # b
      BY <1>6, <1>12, <2>1, <3>1
    <3>3. <<b, c>> \notin R
      BY <1>4, <3>1, <3>2
    <3>4. <<c, b>> \in R
      BY <1>2, <3>1, <3>2, <3>3 DEF Orders
    <3>5. Preferred(c, b) /\ c \in Rows /\ b \in Rows
      BY <1>1, <3>1, <3>4 DEF Preference
    <3> QED
      BY <2>4, <3>5, PreferredIs
  <2> QED
    BY <1>9, <2>3, <2>4
<1>13. ASSUME NEW r \in G
       PROVE  \/ \E c \in S : c.session = r.session /\ (r.active => c.active)
              \/ Cardinality(S) = Limit /\ (r.active => \A c \in S : c.active)
  <2>1. PICK b \in best : b.session = r.session /\ (r.active => b.active)
    BY <1>11
  <2>2. CASE b \in S
    BY <2>1, <2>2
  <2>3. CASE b \notin S
    BY <1>12, <2>1, <2>3
  <2> QED
    BY <2>2, <2>3
<1>14. S \subseteq G
  BY <1>1, <1>3
<1> QED
  BY <1>9, <1>10, <1>13, <1>14 DEF S

-----------------------------------------------------------------------------
(* What is known of an inventory while it is read *)

Server ==
  /\ polite \in BOOLEAN /\ moves \in 0..MaxMoves
  /\ status \in [Threads -> {"unloaded", "active", "idle", "error"}]
  /\ updated \in [Threads -> 0..3]
  /\ wasLoaded \subseteq Threads /\ stayed \subseteq Threads

Listing ==
  /\ attempt \in 0..2 /\ phase \in {"idle", "list", "read", "selected", "failed"}
  /\ ids \in Seq(Threads) /\ Once(ids) /\ Len(ids) <= MaxReads
  /\ cursor \in Threads \cup {NoCursor} /\ seenCursors \subseteq Threads
  /\ read \in 0..Len(ids)
  /\ phase = "list" => read = 0 /\ Len(ids) < MaxReads

(* The rows are of the identifiers of this attempt.                         *)
Reading ==
  /\ got \subseteq Rows /\ IsFiniteSet(got) /\ OneRowEach(got)
  /\ phase = "read" => \A c \in got : \E i \in 1..read : ids[i] = c.id

Selection ==
  /\ phase # "selected" => inventory = {}
  /\ inventory \subseteq Rows /\ Cardinality(inventory) <= Limit
  /\ \A c, d \in inventory : c.session = d.session => c = d

(* Whatever is loaded during an attempt was seen to be, and so were the     *)
(* threads of its rows.                                                     *)
Noted ==
  /\ phase \in {"list", "read"} => Loaded \subseteq wasLoaded
  /\ phase = "read" => \A c \in got : c.id \in wasLoaded
  /\ OnlyLoadedAppear

(* A polite server has listed what is loaded and stays so, up to the cursor *)
(* or, if the reads allowed suffice, all of it; and what was read of such a  *)
(* thread is still so.                                                      *)
Covered ==
  /\ phase = "list" /\ polite =>
       \A t \in stayed : t \in Loaded /\ t <= cursor => Among(t, ids)
  /\ phase = "read" /\ polite /\ Len(ids) < MaxReads =>
       \A t \in stayed : t \in Loaded => Among(t, ids)
  /\ phase = "read" =>
       \A i \in 1..read : ids[i] \in stayed /\ Usable(ids[i]) => Row(ids[i]) \in got
  /\ SteadyThreadsAppear

ThreadsInv == Server /\ Listing /\ Reading /\ Selection /\ Noted /\ Covered

LEMMA ThreadsAre ==
  /\ \A t \in Threads : t \in Nat /\ t # NoCursor
  /\ NoCursor \in Nat /\ MaxReads \in Nat /\ MaxReads > 0 /\ PageSize \in Nat /\ PageSize > 0
  /\ MaxMoves \in Nat /\ Limit \in Nat /\ IsFiniteSet(Threads)
BY ThreadsAssumption DEF NoCursor

(* A page of a polite server, and its cursor.                               *)
LEMMA PoliteAnswerIs ==
  ASSUME Listing, phase = "list"
  PROVE  /\ PoliteAnswer.data \in Seq(Threads) /\ PoliteAnswer.next \in Threads \cup {NoCursor}
         /\ \A t \in Loaded :
              t > cursor /\ (PoliteAnswer.next = NoCursor \/ t <= PoliteAnswer.next)
                => Among(t, PoliteAnswer.data)
<1> PICK S : S = {t \in Loaded : t > cursor}
  OBVIOUS
<1> PICK ahead : ahead = InOrder(S)
  OBVIOUS
<1>1. S \in SUBSET Threads /\ S \subseteq Nat /\ IsFiniteSet(S)
  <2>1. S \in SUBSET Threads
    BY DEF Loaded
  <2> QED
    BY <2>1, ThreadsAre, FS_Subset
<1>2. /\ Cardinality(S) \in Nat
      /\ ahead \in Seq(S) /\ Len(ahead) = Cardinality(S)
      /\ \A x \in S : \E k \in 1..Cardinality(S) : ahead[k] = x
      /\ \A j, k \in 1..Cardinality(S) : j < k => ahead[j] < ahead[k]
  <2>1. /\ Cardinality(S) \in Nat
        /\ InOrder(S) \in Seq(S) /\ Len(InOrder(S)) = Cardinality(S)
        /\ \A x \in S : \E k \in 1..Cardinality(S) : InOrder(S)[k] = x
        /\ \A j, k \in 1..Cardinality(S) : j < k => InOrder(S)[j] < InOrder(S)[k]
    BY <1>1, InOrderIs
  <2> QED
    BY <2>1
<1> PICK n \in Nat : n = Cardinality(S)
  BY <1>2
<1>3. Asked \in Nat /\ Asked > 0
  <2>1. Len(ids) \in Nat /\ Len(ids) < MaxReads
    BY DEF Listing
  <2> QED
    BY <2>1, ThreadsAre DEF Asked
<1> PICK count \in Nat : count = IF n < Asked THEN n ELSE Asked
  BY <1>3
<1>4. count <= n /\ (count < n => count > 0)
  BY <1>3
<1>5. /\ PoliteAnswer.data = SubSeq(ahead, 1, count)
      /\ PoliteAnswer.next = IF count < n THEN ahead[count] ELSE NoCursor
  <2>1. PoliteAnswer = [data |-> SubSeq(ahead, 1, count),
                        next |-> IF count < n THEN ahead[count] ELSE NoCursor]
    BY <1>2 DEF PoliteAnswer
  <2> QED
    BY <2>1
<1>6. /\ SubSeq(ahead, 1, count) \in Seq(S) /\ Len(SubSeq(ahead, 1, count)) = count
      /\ \A k \in 1..count : SubSeq(ahead, 1, count)[k] = ahead[k]
  <2>1. count \in 0..Cardinality(S)
    BY <1>4
  <2>2. /\ SubSeq(InOrder(S), 1, count) \in Seq(S) /\ Len(SubSeq(InOrder(S), 1, count)) = count
        /\ \A k \in 1..count : SubSeq(InOrder(S), 1, count)[k] = InOrder(S)[k]
    BY <1>1, <2>1, FirstInOrder, Zenon
  <2> QED
    BY <2>2, Zenon
<1>7. \A k \in 1..n : ahead[k] \in S
  <2>1. ahead \in Seq(S) /\ Len(ahead) = n
    BY <1>2
  <2> QED
    BY <2>1
<1>8. PoliteAnswer.data \in Seq(Threads)
  <2>1. SubSeq(ahead, 1, count) \in Seq(S)
    BY <1>6
  <2>2. SubSeq(ahead, 1, count) \in Seq(Threads)
    BY <1>1, <2>1
  <2> QED
    BY <1>5, <2>2
<1>9. count < n => PoliteAnswer.next = ahead[count] /\ ahead[count] \in Threads
  <2>1. SUFFICES ASSUME count < n PROVE PoliteAnswer.next = ahead[count] /\ ahead[count] \in Threads
    OBVIOUS
  <2>2. count \in 1..n
    BY <1>4, <2>1
  <2> QED
    BY <1>1, <1>5, <1>7, <2>1, <2>2
<1>10. ASSUME NEW t \in Loaded, t > cursor,
              PoliteAnswer.next = NoCursor \/ t <= PoliteAnswer.next
       PROVE  Among(t, PoliteAnswer.data)
  <2>1. PICK k \in 1..n : ahead[k] = t
    BY <1>2, <1>10
  <2>2. k <= count
    <3>1. SUFFICES ASSUME count < k PROVE FALSE
      OBVIOUS
    <3>2. count < n /\ count \in 1..n
      BY <1>4, <3>1
    <3>3. t <= ahead[count] /\ ahead[count] \in Nat /\ t \in Nat
      BY <1>1, <1>7, <1>9, <1>10, <2>1, <3>2, ThreadsAre
    <3>4. ahead[count] < t
      BY <1>2, <2>1, <3>1, <3>2
    <3> QED
      BY <3>3, <3>4
  <2>3. k \in 1..count
    BY <2>2
  <2> QED
    BY <1>5, <1>6, <2>1, <2>3 DEF Among
<1> QED
  BY <1>5, <1>8, <1>9, <1>10

(* Whatever is answered, it is a page and a cursor.                         *)
LEMMA AnswersAre ==
  ASSUME Listing, phase = "list", NEW answer \in Answers
  PROVE  answer.data \in Seq(Threads) /\ answer.next \in Threads \cup {NoCursor}
<1>1. CASE polite
  BY <1>1, PoliteAnswerIs DEF Answers
<1>2. CASE ~polite
  <2>1. answer.data \in Pages /\ answer.next \in Threads \cup {NoCursor}
    BY <1>2 DEF Answers
  <2>2. PICK n \in 0..2 : answer.data \in [1..n -> Threads]
    BY <2>1 DEF Pages
  <2> QED
    BY <2>1, <2>2
<1> QED
  BY <1>1, <1>2

(* The identifiers after a page: none is lost but by the limit of reads.    *)
LEMMA PagedIs ==
  ASSUME NEW s \in Seq(Threads), NEW d \in Seq(Threads),
         NEW n, n = FirstReads(Distinct(s \o d))
  PROVE  /\ n \in Seq(Threads) /\ Once(n) /\ Len(n) <= MaxReads
         /\ \A t : Len(n) < MaxReads /\ (Among(t, s) \/ Among(t, d)) => Among(t, n)
<1> PICK b : b = s \o d
  OBVIOUS
<1> PICK u : u = Distinct(b)
  OBVIOUS
<1>1. b \in Seq(Threads)
  OBVIOUS
<1>2. /\ u \in Seq(Threads) /\ Once(u)
      /\ \A i \in 1..Len(b) : Among(b[i], u)
  BY <1>1, DistinctIs
<1>3. /\ n \in Seq(Threads) /\ Once(n) /\ Len(n) <= MaxReads
      /\ Len(n) < MaxReads => n = u
  <2>1. /\ FirstReads(u) \in Seq(Threads) /\ Once(FirstReads(u)) /\ Len(FirstReads(u)) <= MaxReads
        /\ Len(FirstReads(u)) < MaxReads => FirstReads(u) = u
    BY <1>2, FirstReadsIs
  <2>2. n = FirstReads(u)
    OBVIOUS
  <2> QED
    BY <2>1, <2>2
<1>4. ASSUME NEW t, Among(t, s) \/ Among(t, d)
      PROVE  Among(t, u)
  <2>1. \E i \in 1..Len(b) : b[i] = t
    <3>1. CASE Among(t, s)
      <4>1. PICK i \in 1..Len(s) : s[i] = t
        BY <3>1 DEF Among
      <4>2. i \in 1..Len(b) /\ b[i] = t
        BY <4>1
      <4> QED
        BY <4>2
    <3>2. CASE Among(t, d)
      <4>1. PICK i \in 1..Len(d) : d[i] = t
        BY <3>2 DEF Among
      <4>2. Len(s) + i \in 1..Len(b) /\ b[Len(s) + i] = t
        BY <4>1
      <4> QED
        BY <4>2
    <3> QED
      BY <1>4, <3>1, <3>2
  <2> QED
    BY <1>2, <2>1
<1> QED
  BY <1>3, <1>4

(* The inventory: its invariant from the start on, step by step.            *)
LEMMA ThreadsAtFirst == ThreadsInit => ThreadsInv
<1>1. SUFFICES ASSUME ThreadsInit PROVE ThreadsInv
  OBVIOUS
<1>2. Server
  <2>1. updated \in [Threads -> 0..3]
    <3>1. \A k \in 0..2 : k \in 0..3
      OBVIOUS
    <3> QED
      BY <1>1, <3>1 DEF ThreadsInit
  <2> QED
    BY <1>1, <2>1 DEF ThreadsInit, Server
<1>3. Listing
  BY <1>1, ThreadsAre DEF ThreadsInit, Listing, Once
<1>4. Reading /\ Selection
  <2>1. IsFiniteSet({}) /\ Cardinality({}) = 0
    BY FS_EmptySet
  <2> QED
    BY <1>1, <2>1, ThreadsAre DEF ThreadsInit, Reading, Selection, OneRowEach
<1>5. Noted /\ Covered
  BY <1>1 DEF ThreadsInit, Noted, Covered, OnlyLoadedAppear, SteadyThreadsAppear
<1> QED
  BY <1>2, <1>3, <1>4, <1>5 DEF ThreadsInv

LEMMA ThreadsStutter == ThreadsInv /\ UNCHANGED threadVars => ThreadsInv'
BY DEF ThreadsInv, threadVars, serverThreads, clientThreads, Server, Listing, Reading, Selection,
       Noted, Covered, OnlyLoadedAppear, SteadyThreadsAppear, Loaded, Usable, Row, Among, Once,
       OneRowEach, WasListed

(* Another attempt starts with what is loaded at its first page.            *)
LEMMA AttemptKeeps ==
  ASSUME ThreadsInv, NEW n \in 1..2, Attempt(n), phase # "selected",
         UNCHANGED <<polite, moves, status, updated, got, inventory>>
  PROVE  ThreadsInv'
<1>1. /\ attempt' = n /\ phase' = "list" /\ ids' = <<>> /\ cursor' = NoCursor
      /\ seenCursors' = {} /\ read' = 0 /\ wasLoaded' = Loaded /\ stayed' = Threads
      /\ polite' = polite /\ moves' = moves /\ status' = status /\ updated' = updated
      /\ got' = got /\ inventory' = inventory
  BY DEF Attempt
<1>2. Server'
  BY <1>1 DEF ThreadsInv, Server, Loaded
<1>3. Listing'
  BY <1>1, ThreadsAre DEF Listing, Once
<1>4. Reading' /\ Selection'
  BY <1>1 DEF ThreadsInv, Reading, Selection, OneRowEach
<1>5. Noted'
  <2>1. inventory' = {}
    BY <1>1 DEF ThreadsInv, Selection
  <2>2. Loaded' = Loaded
    BY <1>1 DEF Loaded
  <2> QED
    BY <1>1, <2>1, <2>2 DEF Noted, OnlyLoadedAppear
<1>6. Covered'
  <2>1. \A t \in Threads : ~(t <= NoCursor)
    <3>1. \A t \in Threads : t \in Nat /\ t # 0
      BY ThreadsAre DEF NoCursor
    <3> QED
      BY <3>1 DEF NoCursor
  <2> QED
    BY <1>1, <2>1 DEF Covered, SteadyThreadsAppear
<1> QED
  BY <1>2, <1>3, <1>4, <1>5, <1>6 DEF ThreadsInv

(* A thread that changes is not steady any more, and the others are as      *)
(* they were.                                                               *)
LEMMA MoveKeeps ==
  ASSUME ThreadsInv, NEW t \in Threads, NEW s \in {"unloaded", "active", "idle", "error"},
         Move(t, s)
  PROVE  ThreadsInv'
<1>1. /\ phase \in {"list", "read"} /\ moves > 0 /\ moves' = moves - 1
      /\ status' = [status EXCEPT ![t] = s]
      /\ updated' = IF s = "active" THEN [updated EXCEPT ![t] = 3] ELSE updated
      /\ wasLoaded' = IF s = "unloaded" THEN wasLoaded ELSE wasLoaded \cup {t}
      /\ stayed' = stayed \ {t}
      /\ polite' = polite
      /\ attempt' = attempt /\ phase' = phase /\ ids' = ids /\ cursor' = cursor
      /\ seenCursors' = seenCursors /\ got' = got /\ read' = read /\ inventory' = inventory
  BY DEF Move, clientThreads
<1>2. Server /\ Listing /\ Reading /\ Selection /\ Noted /\ Covered
  BY DEF ThreadsInv
<1>3. \A u \in Threads \ {t} : status'[u] = status[u] /\ updated'[u] = updated[u]
  BY <1>1, <1>2 DEF Server
<1>4. Loaded' \subseteq Loaded \cup {t} /\ (s = "unloaded" => Loaded' \subseteq Loaded)
  BY <1>1, <1>2, <1>3 DEF Loaded, Server
<1>5. Server'
  <2>1. moves' \in 0..MaxMoves
    BY <1>1, <1>2, ThreadsAre DEF Server
  <2>2. updated' \in [Threads -> 0..3]
    <3>1. 3 \in 0..3
      OBVIOUS
    <3> QED
      BY <1>1, <1>2, <3>1 DEF Server
  <2>3. status' \in [Threads -> {"unloaded", "active", "idle", "error"}]
    BY <1>1, <1>2 DEF Server
  <2> QED
    BY <1>1, <1>2, <2>1, <2>2, <2>3 DEF Server
<1>6. Listing'
  BY <1>1, <1>2 DEF Listing, Once
<1>7. Reading' /\ Selection'
  BY <1>1, <1>2 DEF Reading, Selection, OneRowEach
<1>8. Noted'
  <2>1. wasLoaded \subseteq wasLoaded'
    BY <1>1
  <2>2. Loaded' \subseteq wasLoaded'
    BY <1>1, <1>2, <1>4 DEF Noted
  <2>3. inventory' = {}
    BY <1>1, <1>2 DEF Selection
  <2> QED
    BY <1>1, <1>2, <2>1, <2>2, <2>3 DEF Noted, OnlyLoadedAppear
<1>9. Covered'
  <2>1. \A u \in stayed' : u \in stayed /\ u \in Threads \ {t}
    BY <1>1, <1>2 DEF Server
  <2>2. \A u \in stayed' : u \in Loaded' => u \in Loaded
    BY <1>4, <2>1
  <2>3. \A u \in stayed' : Usable(u)' = Usable(u) /\ Row(u)' = Row(u)
    BY <1>3, <2>1 DEF Usable, Row
  <2>4. (phase = "list" /\ polite =>
           \A u \in stayed : u \in Loaded /\ u <= cursor => Among(u, ids))'
    BY <1>1, <1>2, <2>1, <2>2 DEF Covered, Among
  <2>5. (phase = "read" /\ polite /\ Len(ids) < MaxReads =>
           \A u \in stayed : u \in Loaded => Among(u, ids))'
    BY <1>1, <1>2, <2>1, <2>2 DEF Covered, Among
  <2>6. (phase = "read" =>
           \A i \in 1..read : ids[i] \in stayed /\ Usable(ids[i]) => Row(ids[i]) \in got)'
    <3>1. SUFFICES ASSUME phase = "read", NEW i \in 1..read, ids[i] \in stayed', Usable(ids[i])'
                   PROVE  Row(ids[i])' \in got
      BY <1>1
    <3>2. ids[i] \in stayed /\ Usable(ids[i]) /\ Row(ids[i])' = Row(ids[i])
      BY <1>1, <2>1, <2>3, <3>1
    <3> QED
      BY <1>2, <3>1, <3>2 DEF Covered
  <2>7. SteadyThreadsAppear'
    BY <1>1 DEF SteadyThreadsAppear
  <2> QED
    BY <2>4, <2>5, <2>6, <2>7 DEF Covered
<1> QED
  BY <1>5, <1>6, <1>7, <1>8, <1>9 DEF ThreadsInv

(* What fails returns nothing.                                              *)
LEMMA FailKeeps ==
  ASSUME ThreadsInv, phase' = "failed", phase # "selected",
         UNCHANGED <<serverThreads, attempt, ids, cursor, seenCursors, got, read, inventory>>
  PROVE  ThreadsInv'
<1>1. /\ polite' = polite /\ moves' = moves /\ status' = status /\ updated' = updated
      /\ wasLoaded' = wasLoaded /\ stayed' = stayed
      /\ attempt' = attempt /\ ids' = ids /\ cursor' = cursor /\ seenCursors' = seenCursors
      /\ got' = got /\ read' = read /\ inventory' = inventory
  BY DEF serverThreads
<1>2. Server /\ Listing /\ Reading /\ Selection
  BY DEF ThreadsInv
<1>3. Server' /\ Listing'
  BY <1>1, <1>2 DEF Server, Listing, Once
<1>4. Reading' /\ Selection'
  BY <1>1, <1>2 DEF Reading, Selection, OneRowEach
<1>5. Noted' /\ Covered'
  <2>1. inventory' = {}
    BY <1>1, <1>2 DEF Selection
  <2> QED
    BY <2>1 DEF Noted, Covered, OnlyLoadedAppear, SteadyThreadsAppear
<1> QED
  BY <1>3, <1>4, <1>5 DEF ThreadsInv

(* A page of a polite server carries the cursor over what it lists.         *)
LEMMA PageKeeps ==
  ASSUME ThreadsInv, phase = "list", NEW answer \in Answers, ListPage(answer)
  PROVE  ThreadsInv'
<1>1. Server /\ Listing /\ Reading /\ Selection /\ Noted /\ Covered
  BY DEF ThreadsInv
<1>2. answer.data \in Seq(Threads) /\ answer.next \in Threads \cup {NoCursor}
  BY <1>1, AnswersAre
<1>3. /\ polite' = polite /\ moves' = moves /\ status' = status /\ updated' = updated
      /\ wasLoaded' = wasLoaded /\ stayed' = stayed
      /\ attempt' = attempt /\ read' = read /\ inventory' = inventory
      /\ ids' = FirstReads(Distinct(ids \o answer.data))
  BY DEF ListPage, serverThreads
<1>4. /\ ids' \in Seq(Threads) /\ Once(ids') /\ Len(ids') <= MaxReads
      /\ \A t : Len(ids') < MaxReads /\ (Among(t, ids) \/ Among(t, answer.data)) => Among(t, ids')
  <2>1. ids \in Seq(Threads)
    BY <1>1 DEF Listing
  <2> QED
    BY <1>2, <1>3, <2>1, PagedIs, Zenon
<1>5. read' = 0 /\ read' \in 0..Len(ids') /\ inventory' = {} /\ Len(ids') \in Nat
  <2>1. Len(ids') \in Nat
    BY <1>4
  <2> QED
    BY <1>1, <1>3, <2>1 DEF Listing, Selection
<1>6. \/ phase' = "read" /\ got' = {} /\ cursor' = cursor /\ seenCursors' = seenCursors
         /\ (Len(ids') = MaxReads \/ answer.next = NoCursor)
      \/ phase' = "failed" /\ cursor' = cursor /\ seenCursors' = seenCursors /\ got' = got
      \/ /\ phase' = "list" /\ got' = got /\ cursor' = answer.next /\ answer.next # NoCursor
         /\ Len(ids') # MaxReads /\ seenCursors' = seenCursors \cup {answer.next}
  BY DEF ListPage, Fails, NoRows
<1>7. Server'
  BY <1>1, <1>3 DEF Server
<1>8. Listing'
  <2>1. phase' \in {"idle", "list", "read", "selected", "failed"}
    BY <1>6
  <2>2. cursor' \in Threads \cup {NoCursor} /\ seenCursors' \subseteq Threads
    BY <1>1, <1>2, <1>6 DEF Listing
  <2>3. phase' = "list" => read' = 0 /\ Len(ids') < MaxReads
    <3>1. phase' = "list" => Len(ids') # MaxReads
      BY <1>6
    <3> QED
      BY <1>4, <1>5, <3>1, ThreadsAre
  <2>4. Once(ids)'
    BY <1>4 DEF Once
  <2> QED
    BY <1>1, <1>3, <1>4, <1>5, <2>1, <2>2, <2>3, <2>4 DEF Listing
<1>9. Reading'
  <2>1. phase' = "read" => got' = {}
    BY <1>6
  <2>2. got' = got \/ got' = {}
    BY <1>6
  <2>3. IsFiniteSet({})
    BY FS_EmptySet
  <2> QED
    BY <1>1, <2>1, <2>2, <2>3 DEF Reading, OneRowEach
<1>10. Selection'
  BY <1>1, <1>3, <1>5 DEF Selection
<1>11. Noted'
  <2>1. Loaded' = Loaded
    BY <1>3 DEF Loaded
  <2>2. phase' = "read" => got' = {}
    BY <1>6
  <2> QED
    BY <1>1, <1>3, <1>5, <2>1, <2>2 DEF Noted, OnlyLoadedAppear
<1>12. ASSUME polite, NEW t \in stayed, t \in Loaded,
              answer.next = NoCursor \/ t <= answer.next, Len(ids') < MaxReads
       PROVE  Among(t, ids')
  <2>1. t \in Nat /\ cursor \in Nat
    BY <1>1, ThreadsAre DEF Listing, Server
  <2>2. CASE t <= cursor
    <3>1. Among(t, ids)
      BY <1>1, <1>12, <2>2 DEF Covered
    <3> QED
      BY <1>4, <1>12, <3>1
  <2>3. CASE t > cursor
    <3>1. answer = PoliteAnswer
      BY <1>12 DEF Answers
    <3>2. Among(t, answer.data)
      BY <1>1, <1>12, <2>3, <3>1, PoliteAnswerIs
    <3> QED
      BY <1>4, <1>12, <3>2
  <2> QED
    BY <2>1, <2>2, <2>3
<1>13. Covered'
  <2>1. Loaded' = Loaded
    BY <1>3 DEF Loaded
  <2>2. (phase = "list" /\ polite =>
           \A t \in stayed : t \in Loaded /\ t <= cursor => Among(t, ids))'
    <3>1. SUFFICES ASSUME phase' = "list", polite, NEW t \in stayed, t \in Loaded, t <= cursor'
                   PROVE  Among(t, ids')
      BY <1>3, <2>1 DEF Among
    <3>2. cursor' = answer.next /\ Len(ids') # MaxReads
      BY <1>6, <3>1
    <3>3. Len(ids') < MaxReads
      BY <1>4, <1>5, <3>2, ThreadsAre
    <3> QED
      BY <1>12, <3>1, <3>2, <3>3
  <2>3. (phase = "read" /\ polite /\ Len(ids) < MaxReads =>
           \A t \in stayed : t \in Loaded => Among(t, ids))'
    <3>1. SUFFICES ASSUME phase' = "read", polite, Len(ids') < MaxReads,
                          NEW t \in stayed, t \in Loaded
                   PROVE  Among(t, ids')
      BY <1>3, <2>1 DEF Among
    <3>2. answer.next = NoCursor
      <4>1. Len(ids') # MaxReads
        BY <1>5, <3>1, ThreadsAre
      <4> QED
        BY <1>6, <3>1, <4>1
    <3> QED
      BY <1>12, <3>1, <3>2
  <2>4. (phase = "read" =>
           \A i \in 1..read : ids[i] \in stayed /\ Usable(ids[i]) => Row(ids[i]) \in got)'
    <3>1. 1..read' = {}
      BY <1>5
    <3> QED
      BY <3>1
  <2>5. SteadyThreadsAppear'
    BY <1>6 DEF SteadyThreadsAppear
  <2> QED
    BY <2>2, <2>3, <2>4, <2>5 DEF Covered
<1> QED
  BY <1>7, <1>8, <1>9, <1>10, <1>11, <1>13 DEF ThreadsInv

(* A thread that is read is loaded, and its row is of this attempt.         *)
LEMMA ReadThreadKeeps == ThreadsInv /\ ReadThread => ThreadsInv'
<1>1. SUFFICES ASSUME ThreadsInv, ReadThread PROVE ThreadsInv'
  OBVIOUS
<1> PICK t : t = ids[read + 1]
  OBVIOUS
<1>2. Server /\ Listing /\ Reading /\ Selection /\ Noted /\ Covered
  BY <1>1 DEF ThreadsInv
<1>3. /\ phase = "read" /\ read < Len(ids) /\ read' = read + 1
      /\ got' = IF Usable(t) THEN got \cup {Row(t)} ELSE got
      /\ polite' = polite /\ moves' = moves /\ status' = status /\ updated' = updated
      /\ wasLoaded' = wasLoaded /\ stayed' = stayed
      /\ attempt' = attempt /\ phase' = phase /\ ids' = ids /\ cursor' = cursor
      /\ seenCursors' = seenCursors /\ inventory' = inventory
  BY <1>1 DEF ReadThread, serverThreads
<1>4. /\ Len(ids) \in Nat /\ read \in Nat /\ read + 1 \in 1..Len(ids) /\ t \in Threads
      /\ 1..(read + 1) = (1..read) \cup {read + 1}
  <2>1. ids \in Seq(Threads) /\ read \in 0..Len(ids)
    BY <1>2 DEF Listing
  <2>2. Len(ids) \in Nat /\ read \in Nat /\ read + 1 \in 1..Len(ids)
    BY <1>3, <2>1
  <2> QED
    BY <2>1, <2>2
<1>5. /\ Row(t) \in Rows /\ Row(t).id = t
      /\ Loaded' = Loaded /\ (Usable(t) => t \in Loaded)
      /\ \A u : Usable(u)' = Usable(u) /\ Row(u)' = Row(u)
  <2>1. SessionOf[t] \in Sessions /\ updated[t] \in 0..3
    BY <1>2, <1>4, ThreadsAssumption DEF Server
  <2>2. Row(t) \in Rows /\ Row(t).id = t
    BY <1>4, <2>1 DEF Row, Rows
  <2>3. Loaded' = Loaded /\ (Usable(t) => t \in Loaded)
    BY <1>3, <1>4 DEF Loaded, Usable
  <2>4. \A u : Usable(u)' = Usable(u) /\ Row(u)' = Row(u)
    BY <1>3 DEF Usable, Row
  <2> QED
    BY <2>2, <2>3, <2>4
<1>6. Server' /\ Selection'
  BY <1>2, <1>3 DEF Server, Selection
<1>7. Listing'
  BY <1>2, <1>3, <1>4 DEF Listing, Once
<1>8. \A c \in got : c \in Rows /\ c.id # t
  <2>1. SUFFICES ASSUME NEW c \in got, c.id = t PROVE FALSE
    BY <1>2 DEF Reading
  <2>2. PICK i \in 1..read : ids[i] = c.id
    BY <1>2, <1>3 DEF Reading
  <2>3. i \in 1..Len(ids) /\ i # read + 1
    BY <1>3, <1>4
  <2> QED
    BY <1>2, <1>4, <2>1, <2>2, <2>3 DEF Listing, Once
<1>9. Reading'
  <2>1. got' \subseteq got \cup {Row(t)}
    BY <1>3
  <2>2. IsFiniteSet(got')
    <3>1. IsFiniteSet(got \cup {Row(t)})
      BY <1>2, FS_AddElement DEF Reading
    <3> QED
      BY <1>2, <1>3, <3>1 DEF Reading
  <2>3. OneRowEach(got)'
    <3>1. \A c, d \in got \cup {Row(t)} : c.id = d.id => c = d
      BY <1>2, <1>5, <1>8 DEF Reading, OneRowEach
    <3> QED
      BY <2>1, <3>1 DEF OneRowEach
  <2>4. (\A c \in got : \E i \in 1..read : ids[i] = c.id)'
    <3>1. SUFFICES ASSUME NEW c \in got' PROVE \E i \in 1..(read + 1) : ids[i] = c.id
      BY <1>3
    <3>2. CASE c \in got
      <4>1. PICK i \in 1..read : ids[i] = c.id
        BY <1>2, <1>3, <3>2 DEF Reading
      <4> QED
        BY <1>4, <4>1
    <3>3. CASE c = Row(t)
      BY <1>4, <1>5, <3>3
    <3> QED
      BY <2>1, <3>1, <3>2, <3>3
  <2> QED
    BY <1>2, <1>5, <2>1, <2>2, <2>3, <2>4 DEF Reading
<1>10. Noted'
  <2>1. \A c \in got' : c.id \in wasLoaded
    <3>1. SUFFICES ASSUME NEW c \in got' PROVE c.id \in wasLoaded
      OBVIOUS
    <3>2. CASE c \in got
      BY <1>2, <1>3, <3>2 DEF Noted
    <3>3. CASE c \notin got
      BY <1>2, <1>3, <1>5, <3>3 DEF Noted
    <3> QED
      BY <3>2, <3>3
  <2>2. inventory' = {}
    BY <1>2, <1>3 DEF Selection
  <2> QED
    BY <1>2, <1>3, <1>5, <2>1, <2>2 DEF Noted, OnlyLoadedAppear
<1>11. Covered'
  <2>1. (phase = "read" /\ polite /\ Len(ids) < MaxReads =>
           \A u \in stayed : u \in Loaded => Among(u, ids))'
    BY <1>2, <1>3, <1>5 DEF Covered, Among
  <2>2. (phase = "read" =>
           \A i \in 1..read : ids[i] \in stayed /\ Usable(ids[i]) => Row(ids[i]) \in got)'
    <3>1. SUFFICES ASSUME NEW i \in 1..(read + 1), ids[i] \in stayed, Usable(ids[i])
                   PROVE  Row(ids[i]) \in got'
      BY <1>3, <1>5
    <3>2. CASE i \in 1..read
      <4>1. Row(ids[i]) \in got
        BY <1>2, <1>3, <3>1, <3>2 DEF Covered
      <4> QED
        BY <1>3, <4>1
    <3>3. CASE i = read + 1
      BY <1>3, <3>1, <3>3
    <3> QED
      BY <1>4, <3>2, <3>3
  <2>3. phase' = "read"
    BY <1>3
  <2> QED
    BY <2>1, <2>2, <2>3 DEF Covered, SteadyThreadsAppear
<1> QED
  BY <1>6, <1>7, <1>9, <1>10, <1>11 DEF ThreadsInv

(* The first refused read starts all over, the second one fails.            *)
LEMMA RefusalKeeps == ThreadsInv /\ ReadRefused => ThreadsInv'
<1>1. SUFFICES ASSUME ThreadsInv, ReadRefused PROVE ThreadsInv'
  OBVIOUS
<1>2. phase = "read" /\ phase # "selected"
  BY <1>1 DEF ReadRefused
<1>3. CASE attempt = 1
  <2>1. Attempt(2) /\ UNCHANGED <<polite, moves, status, updated, got, inventory>>
    BY <1>1, <1>3 DEF ReadRefused, Retry
  <2>2. 2 \in 1..2
    OBVIOUS
  <2> QED
    BY <1>1, <1>2, <2>1, <2>2, AttemptKeeps
<1>4. CASE attempt # 1
  <2>1. /\ phase' = "failed"
        /\ UNCHANGED <<serverThreads, attempt, ids, cursor, seenCursors, got, read, inventory>>
    BY <1>1, <1>4 DEF ReadRefused, Retry, Fails, serverThreads
  <2> QED
    BY <1>1, <1>2, <2>1, FailKeeps
<1> QED
  BY <1>3, <1>4

(* The selection leaves no steady thread out without need.                  *)
LEMMA SelectKeeps == ThreadsInv /\ Select => ThreadsInv'
<1>1. SUFFICES ASSUME ThreadsInv, Select PROVE ThreadsInv'
  OBVIOUS
<1>2. Server /\ Listing /\ Reading /\ Selection /\ Noted /\ Covered
  BY <1>1 DEF ThreadsInv
<1>3. /\ phase = "read" /\ read = Len(ids) /\ phase' = "selected"
      /\ inventory' = SelectLoaded(got)
      /\ polite' = polite /\ moves' = moves /\ status' = status /\ updated' = updated
      /\ wasLoaded' = wasLoaded /\ stayed' = stayed
      /\ attempt' = attempt /\ ids' = ids /\ cursor' = cursor
      /\ seenCursors' = seenCursors /\ got' = got /\ read' = read
  BY <1>1 DEF Select, serverThreads
<1>4. /\ inventory' \subseteq got /\ Cardinality(inventory') <= Limit
      /\ \A c, d \in inventory' : c.session = d.session => c = d
      /\ \A r \in got :
           \/ \E c \in inventory' : c.session = r.session /\ (r.active => c.active)
           \/ Cardinality(inventory') = Limit /\ (r.active => \A c \in inventory' : c.active)
  <2>1. got \subseteq Rows /\ IsFiniteSet(got) /\ OneRowEach(got)
    BY <1>2 DEF Reading
  <2> QED
    BY <1>3, <2>1, SelectIs
<1>5. Server' /\ Listing' /\ Reading'
  BY <1>2, <1>3 DEF Server, Listing, Reading, Once, OneRowEach
<1>6. Selection'
  <2>1. inventory' \subseteq Rows
    BY <1>2, <1>4 DEF Reading
  <2> QED
    BY <1>3, <1>4, <2>1 DEF Selection
<1>7. Noted'
  BY <1>2, <1>3, <1>4 DEF Noted, OnlyLoadedAppear
<1>8. SteadyThreadsAppear'
  <2>1. SUFFICES ASSUME polite, NEW t \in stayed, Usable(t),
                        Among(t, ids) \/ Len(ids) < MaxReads
                 PROVE  \/ \E c \in inventory' :
                             c.session = SessionOf[t] /\ (status[t] = "active" => c.active)
                        \/ /\ Cardinality(inventory') = Limit
                           /\ status[t] = "active" => \A c \in inventory' : c.active
    BY <1>3 DEF SteadyThreadsAppear, Usable, WasListed, Among
  <2>2. t \in Threads /\ t \in Loaded
    BY <1>2, <2>1 DEF Server, Loaded, Usable
  <2>3. Among(t, ids)
    BY <1>2, <1>3, <2>1, <2>2 DEF Covered
  <2>4. PICK i \in 1..Len(ids) : ids[i] = t
    BY <2>3 DEF Among
  <2>5. Row(t) \in got
    BY <1>2, <1>3, <2>1, <2>4 DEF Covered
  <2>6. Row(t).session = SessionOf[t] /\ (status[t] = "active" => Row(t).active)
    BY DEF Row
  <2>7. \/ \E c \in inventory' : c.session = Row(t).session /\ (Row(t).active => c.active)
        \/ Cardinality(inventory') = Limit /\ (Row(t).active => \A c \in inventory' : c.active)
    BY <1>4, <2>5
  <2> QED
    BY <2>6, <2>7
<1>9. Covered'
  BY <1>3, <1>8, Zenon DEF Covered
<1> QED
  BY <1>5, <1>6, <1>7, <1>9 DEF ThreadsInv

LEMMA ThreadsKept == ThreadsInv /\ [ThreadsNext]_threadVars => ThreadsInv'
<1>1. SUFFICES ASSUME ThreadsInv, ThreadsNext PROVE ThreadsInv'
  BY ThreadsStutter
<1>2. CASE LoadedThreads
  <2>1. /\ phase # "selected" /\ Attempt(1)
        /\ UNCHANGED <<polite, moves, status, updated, got, inventory>>
    BY <1>2 DEF LoadedThreads
  <2>2. 1 \in 1..2
    OBVIOUS
  <2> QED
    BY <1>1, <2>1, <2>2, AttemptKeeps
<1>3. CASE phase = "list" /\ \E answer \in Answers : ListPage(answer)
  BY <1>1, <1>3, PageKeeps
<1>4. CASE ReadThread
  BY <1>1, <1>4, ReadThreadKeeps
<1>5. CASE ReadRefused
  BY <1>1, <1>5, RefusalKeeps
<1>6. CASE CallFails
  <2>1. /\ phase # "selected" /\ phase' = "failed"
        /\ UNCHANGED <<serverThreads, attempt, ids, cursor, seenCursors, got, read, inventory>>
    BY <1>6 DEF CallFails, Fails
  <2> QED
    BY <1>1, <2>1, FailKeeps
<1>7. CASE Select
  BY <1>1, <1>7, SelectKeeps
<1>8. CASE ThreadsMove
  BY <1>1, <1>8, MoveKeeps DEF ThreadsMove
<1> QED
  BY <1>1, <1>2, <1>3, <1>4, <1>5, <1>6, <1>7, <1>8 DEF ThreadsNext, ReadInventory

LEMMA ThreadsInvariant == ThreadsSpec => []ThreadsInv
BY ThreadsAtFirst, ThreadsKept, PTL DEF ThreadsSpec

(* The invariant has the types.                                             *)
LEMMA ThreadsTyped == ThreadsInv => ThreadsTypeOK
<1>1. SUFFICES ASSUME ThreadsInv PROVE ThreadsTypeOK
  OBVIOUS
<1>2. Server /\ Listing /\ Reading /\ Selection
  BY <1>1 DEF ThreadsInv
<1>3. ids \in Seq(Threads) /\ Once(ids)
  BY <1>2 DEF Listing
<1>4. Cardinality({ids[i] : i \in 1..Len(ids)}) = Len(ids) /\ \A i \in 1..Len(ids) : ids[i] \in Threads
  BY <1>3, OnceCounts
<1> QED
  BY <1>2, <1>4 DEF ThreadsTypeOK, Server, Listing, Reading, Selection

-----------------------------------------------------------------------------
(* The names of buckets *)

(* There is a suffix that no bucket so far has.                             *)
LEMMA UniqueIs ==
  ASSUME NEW base \in Seq(Nat), NEW taken, IsFiniteSet(taken)
  PROVE  UniqueLimitID(base, taken) \in Seq(Nat) /\ UniqueLimitID(base, taken) \notin taken
<1> PICK c \in Nat : c = Cardinality(taken)
  BY FS_CardinalityType
<1> DEFINE free == {n \in 2..(c + 2) : Append(base, n) \notin taken}
<1>1. free # {}
  <2>1. SUFFICES ASSUME free = {} PROVE FALSE
    OBVIOUS
  <2>2. \A n \in 2..(c + 2) : Append(base, n) \in taken
    BY <2>1
  <2> PICK f : f = [n \in 2..(c + 2) |-> Append(base, n)]
    OBVIOUS
  <2>3. \A n, m \in 2..(c + 2) : Append(base, n) = Append(base, m) => n = m
    <3>1. \A n \in 2..(c + 2) : Append(base, n)[Len(base) + 1] = n
      OBVIOUS
    <3> QED
      BY <3>1
  <2>4. f \in Injection(2..(c + 2), taken)
    BY <2>2, <2>3 DEF Injection, IsInjective
  <2>5. Cardinality(2..(c + 2)) <= c
    BY <2>4, FS_Injection
  <2>6. Cardinality(2..(c + 2)) = c + 1
    <3> PICK d \in Int : d = c + 2
      OBVIOUS
    <3>1. IsFiniteSet(2..d) /\ Cardinality(2..d) = IF 2 > d THEN 0 ELSE d - 2 + 1
      <4>1. 2 \in Int
        OBVIOUS
      <4> QED
        BY <4>1, FS_Interval, Zenon
    <3> QED
      BY <3>1
  <2> QED
    BY <2>5, <2>6
<1>2. free \subseteq Nat
  OBVIOUS
<1>3. PICK k \in free : \A m \in free : k <= m
  BY <1>1, <1>2, LeastElement
<1> PICK least : least = CHOOSE n \in free : \A m \in free : n <= m
  OBVIOUS
<1>4. least \in free
  BY <1>3
<1>5. UniqueLimitID(base, taken) = IF base \notin taken THEN base ELSE Append(base, least)
  BY DEF UniqueLimitID
<1>6. least \in Nat /\ Append(base, least) \notin taken
  BY <1>2, <1>4
<1> QED
  BY <1>5, <1>6

LEMMA RangeIs ==
  ASSUME NEW X, NEW s \in Seq(X)
  PROVE  Range(s) = {s[i] : i \in 1..Len(s)}
<1>1. DOMAIN s = 1..Len(s)
  OBVIOUS
<1>2. Range(s) = {s[i] : i \in DOMAIN s}
  BY DEF Range
<1> QED
  BY <1>1, <1>2

Named(limits, id) == Append(limits, UniqueLimitID(id, Range(limits)))

Names(r, B, n) ==
  /\ r[0] = <<>>
  /\ \A k \in 0..(n - 1) : r[k + 1] = Named(r[k], B[k + 1])
  /\ FoldLeft(LAMBDA limits, id : Append(limits, UniqueLimitID(id, Range(limits))), <<>>, B) = r[n]

(* One bucket more: its name is none of those before.                       *)
LEMMA NamedIs ==
  ASSUME NEW limits \in Seq(Seq(Nat)), NEW id \in Seq(Nat)
  PROVE  /\ Named(limits, id) \in Seq(Seq(Nat)) /\ Len(Named(limits, id)) = Len(limits) + 1
         /\ Once(limits) => Once(Named(limits, id))
<1> PICK n \in Nat : n = Len(limits)
  OBVIOUS
<1> PICK u : u = UniqueLimitID(id, Range(limits))
  OBVIOUS
<1>1. Range(limits) = {limits[i] : i \in 1..n}
  BY RangeIs
<1>2. IsFiniteSet(Range(limits))
  <2> PICK f : f = [i \in 1..n |-> limits[i]]
    OBVIOUS
  <2>1. f \in Surjection(1..n, Range(limits))
    BY <1>1 DEF Surjection
  <2>2. IsFiniteSet(1..n)
    BY FS_Interval
  <2> QED
    BY <2>1, <2>2, FS_Surjection
<1>3. u \in Seq(Nat) /\ u \notin Range(limits)
  BY <1>2, UniqueIs
<1>4. Named(limits, id) = Append(limits, u)
  BY DEF Named
<1>5. /\ Append(limits, u) \in Seq(Seq(Nat)) /\ Len(Append(limits, u)) = n + 1
      /\ Append(limits, u)[n + 1] = u /\ \A i \in 1..n : Append(limits, u)[i] = limits[i]
  BY <1>3
<1>6. ASSUME Once(limits) PROVE Once(Append(limits, u))
  <2>1. \A i \in 1..(n + 1) : i \in 1..n \/ i = n + 1
    OBVIOUS
  <2>2. \A i \in 1..n : limits[i] # u
    BY <1>1, <1>3
  <2>3. \A i, j \in 1..n : limits[i] = limits[j] => i = j
    BY <1>6 DEF Once
  <2> QED
    BY <1>5, <2>1, <2>2, <2>3 DEF Once
<1> QED
  BY <1>4, <1>5, <1>6

(* SanitizeLimits as a function of the number of buckets named.             *)
LEMMA NameSteps ==
  ASSUME NEW B \in Seq(Seq(Nat)), NEW n \in Nat, n = Len(B)
  PROVE  \E r : Names(r, B, n)
<1> DEFINE V == Seq(Seq(Nat))
           take == [p \in V \X (1..n) |-> Named(p[1], B[p[2]])]
<1>1. <<>> \in V /\ take \in [V \X (1..n) -> V]
  <2>1. \A v \in V, i \in 1..n : Named(v, B[i]) \in V
    <3>1. \A i \in 1..n : B[i] \in Seq(Nat)
      OBVIOUS
    <3> QED
      BY <3>1, NamedIs
  <2> QED
    BY <2>1
<1> HIDE DEF V, take
<1>2. PICK f : IsFold(f, n, V, <<>>, take)
  BY <1>1, FoldExists, Zenon
<1> DEFINE Folds(g) ==
             g = [T \in SUBSET DOMAIN B |->
                    IF T = {} THEN <<>>
                    ELSE LET x == CHOOSE x \in T : \A y \in T : x >= y
                         IN  Named(g[T \ {x}], B[x])]
           iter == CHOOSE g : Folds(g)
<1>3. Folds(f)
  <2>1. ASSUME NEW T \in SUBSET (1..n), T # {}
        PROVE  take[<<f[T \ {LastIn(T)}], LastIn(T)>>] = Named(f[T \ {LastIn(T)}], B[LastIn(T)])
    <3>1. LastIn(T) \in 1..n
      BY <2>1, LastOf
    <3>2. f[T \ {LastIn(T)}] \in V
      BY <1>2, <3>1 DEF IsFold
    <3> QED
      BY <3>1, <3>2 DEF take
  <2>2. f = [T \in SUBSET (1..n) |-> f[T]]
    BY <1>2 DEF IsFold
  <2>3. DOMAIN B = 1..n
    OBVIOUS
  <2> QED
    BY <1>2, <2>1, <2>2, <2>3 DEF LastIn, IsFold
<1>4. Folds(iter)
  BY <1>3
<1>5. FoldLeft(LAMBDA limits, id : Append(limits, UniqueLimitID(id, Range(limits))), <<>>, B)
        = iter[DOMAIN B]
  BY DEF FoldLeft, MapThenFoldSet, Max, Named
<1> HIDE DEF iter
<1>6. iter[1..0] = <<>> /\ DOMAIN B = 1..n
  BY <1>4
<1>7. ASSUME NEW k \in 0..(n - 1)
      PROVE  iter[1..(k + 1)] = Named(iter[1..k], B[k + 1])
  <2>1. \A T \in SUBSET (1..n) : T # {} =>
          iter[T] = LET x == CHOOSE x \in T : \A y \in T : x >= y
                    IN  Named(iter[T \ {x}], B[x])
    BY <1>4, <1>6
  <2>2. /\ 1..(k + 1) \in SUBSET (1..n) /\ 1..(k + 1) # {}
        /\ (CHOOSE x \in 1..(k + 1) : \A y \in 1..(k + 1) : x >= y) = k + 1
        /\ (1..(k + 1)) \ {k + 1} = 1..k
    BY FirstPlaces
  <2> QED
    BY <2>1, <2>2
<1> DEFINE r == [k \in 0..n |-> iter[1..k]]
<1>8. r[0] = <<>> /\ r[n] = iter[DOMAIN B]
      /\ \A k \in 0..(n - 1) : r[k] = iter[1..k] /\ r[k + 1] = iter[1..(k + 1)]
  BY <1>6
<1> HIDE DEF r
<1>9. Names(r, B, n)
  BY <1>5, <1>7, <1>8 DEF Names
<1> QED
  BY <1>9

(* Every bucket that is kept has a name of its own.                         *)
LEMMA LimitsAre ==
  ASSUME NEW B \in Seq(Seq(Nat))
  PROVE  /\ SanitizeLimits(B) \in Seq(Seq(Nat)) /\ Len(SanitizeLimits(B)) <= MaxBuckets
         /\ Cardinality(Range(SanitizeLimits(B))) = Len(SanitizeLimits(B))
<1> PICK m : m = IF Len(B) < MaxBuckets THEN Len(B) ELSE MaxBuckets
  OBVIOUS
<1>1. m \in 0..Len(B) /\ m <= MaxBuckets /\ m \in Nat
  <2>1. Len(B) \in Nat /\ MaxBuckets \in Nat
    BY ObservationAssumption
  <2> QED
    BY <2>1
<1> PICK C : C = SubSeq(B, 1, m)
  OBVIOUS
<1>2. C \in Seq(Seq(Nat)) /\ Len(C) = m
  BY <1>1, FirstPart
<1>3. PICK r : Names(r, C, m)
  BY <1>1, <1>2, NameSteps, Zenon
<1>4. SanitizeLimits(B) = r[m]
  BY <1>3 DEF SanitizeLimits, Names
<1> DEFINE T == {k \in 0..m : r[k] \in Seq(Seq(Nat)) /\ Len(r[k]) = k /\ Once(r[k])}
<1>5. 0 \in T
  <2>1. r[0] = <<>>
    BY <1>3 DEF Names
  <2>2. <<>> \in Seq(Seq(Nat)) /\ Len(<<>>) = 0
    OBVIOUS
  <2>3. Once(<<>>)
    BY <2>2 DEF Once
  <2>4. r[0] \in Seq(Seq(Nat)) /\ Len(r[0]) = 0 /\ Once(r[0])
    BY <2>1, <2>2, <2>3
  <2> QED
    BY <1>1, <2>4
<1>6. ASSUME NEW k \in 0..(m - 1), k \in T PROVE k + 1 \in T
  <2>1. r[k + 1] = Named(r[k], C[k + 1])
    BY <1>3 DEF Names
  <2>2. C[k + 1] \in Seq(Nat)
    BY <1>1, <1>2
  <2>3. r[k] \in Seq(Seq(Nat)) /\ Len(r[k]) = k /\ Once(r[k])
    BY <1>6
  <2>4. r[k + 1] \in Seq(Seq(Nat)) /\ Len(r[k + 1]) = k + 1 /\ Once(r[k + 1])
    BY <2>1, <2>2, <2>3, NamedIs
  <2> QED
    BY <1>1, <2>4
<1> HIDE DEF T
<1>7. m \in T
  <2>1. \A k \in 0..m : k \in T
    BY <1>1, <1>5, <1>6, UpTo
  <2> QED
    BY <1>1, <2>1
<1>8. r[m] \in Seq(Seq(Nat)) /\ Len(r[m]) = m /\ Once(r[m])
  BY <1>7 DEF T
<1>9. Cardinality({r[m][i] : i \in 1..Len(r[m])}) = Len(r[m])
  BY <1>8, OnceCounts
<1>10. Range(r[m]) = {r[m][i] : i \in 1..Len(r[m])}
  BY <1>8, RangeIs
<1> QED
  BY <1>1, <1>4, <1>8, <1>9, <1>10

-----------------------------------------------------------------------------
(* The rows of recent threads *)

Adds(r, D, n) ==
  /\ r[0] = <<>>
  /\ \A k \in 0..(n - 1) : r[k + 1] = AddRow(r[k], D[k + 1])
  /\ FoldLeft(AddRow, <<>>, D) = r[n]

(* What a merged row says of the first k rows it stands for: its timestamps *)
(* are those of rows of its session, the earliest and the latest.           *)
Stands(x, D, k, j) == j \in 1..k /\ ValidInteractiveThread(D[j]) /\ D[j].session = x.session

Merged(x, D, k) ==
  /\ x.usable /\ x.created \in 0..MaxStamp /\ x.updated \in 0..MaxStamp
  /\ x.created # 0 => \E j \in 1..k : Stands(x, D, k, j) /\ D[j].created = x.created
  /\ x.updated # 0 => \E j \in 1..k : Stands(x, D, k, j) /\ D[j].updated = x.updated
  /\ \A j \in 1..k : Stands(x, D, k, j) =>
       /\ D[j].created # 0 => x.created # 0 /\ x.created <= D[j].created
       /\ D[j].updated <= x.updated

OneRowPerSession(rows) ==
  \A i, j \in 1..Len(rows) : rows[i].session = rows[j].session => i = j

MergedRows(rows, D, k) ==
  /\ rows \in Seq(ThreadRow) /\ OneRowPerSession(rows)
  /\ \A i \in 1..Len(rows) : Merged(rows[i], D, k)
  /\ \A j \in 1..k : ValidInteractiveThread(D[j]) =>
       \E i \in 1..Len(rows) : rows[i].session = D[j].session

LEMMA StampsAre ==
  /\ MaxStamp \in Nat
  /\ \A x \in ThreadRow : /\ x.session \in Nat /\ x.usable \in BOOLEAN
                          /\ x.created \in Int /\ x.updated \in Int
  /\ \A x : ValidInteractiveThread(x) =>
       /\ x.usable /\ x.created \in 0..MaxStamp /\ x.updated \in 0..MaxStamp
       /\ x.created # 0 /\ x.updated # 0 => x.updated >= x.created
BY ObservationAssumption DEF ThreadRow, ValidInteractiveThread, Ordered

(* Where the timestamps of a merged row come from.                          *)
LEMMA MergeIs ==
  ASSUME NEW x \in ThreadRow, NEW y \in ThreadRow
  PROVE  /\ Merge(x, y) \in ThreadRow
         /\ Merge(x, y).session = x.session /\ Merge(x, y).usable = x.usable
         /\ Merge(x, y).created = EarliestNonzero(x.created, y.created)
         /\ Merge(x, y).updated = LatestNonzero(x.updated, y.updated)
<1>1. x.created \in Int /\ x.updated \in Int /\ y.created \in Int /\ y.updated \in Int
  BY StampsAre
<1>2. EarliestNonzero(x.created, y.created) \in Int /\ LatestNonzero(x.updated, y.updated) \in Int
  BY <1>1 DEF EarliestNonzero, LatestNonzero
<1> PICK a \in Int, b \in Int : /\ a = EarliestNonzero(x.created, y.created)
                                /\ b = LatestNonzero(x.updated, y.updated)
  BY <1>2
<1> PICK z : z = [x EXCEPT !.created = a]
  OBVIOUS
<1>3. z \in ThreadRow /\ z.session = x.session /\ z.usable = x.usable
      /\ z.created = a /\ z.updated = x.updated
  BY DEF ThreadRow
<1> PICK w : w = [z EXCEPT !.updated = b]
  OBVIOUS
<1>4. w \in ThreadRow /\ w.session = z.session /\ w.usable = z.usable
      /\ w.created = z.created /\ w.updated = b
  BY <1>3 DEF ThreadRow
<1>5. Merge(x, y) = w
  BY DEF Merge
<1> QED
  BY <1>3, <1>4, <1>5

(* A row, and what it is merged with.                                       *)
LEMMA MergedWith ==
  ASSUME NEW n \in Nat, NEW D \in Seq(ThreadRow), n = Len(D), NEW k \in 0..(n - 1),
         NEW x \in ThreadRow, Merged(x, D, k),
         ValidInteractiveThread(D[k + 1]), D[k + 1].session = x.session
  PROVE  Merged(Merge(x, D[k + 1]), D, k + 1)
<1> PICK y \in ThreadRow : y = D[k + 1]
  OBVIOUS
<1> PICK z : z = Merge(x, y)
  OBVIOUS
<1>1. /\ z \in ThreadRow /\ z.session = x.session /\ z.usable = x.usable
      /\ z.created = EarliestNonzero(x.created, y.created)
      /\ z.updated = LatestNonzero(x.updated, y.updated)
  BY MergeIs
<1>2. /\ y.created \in 0..MaxStamp /\ y.updated \in 0..MaxStamp /\ MaxStamp \in Nat
      /\ x.created \in 0..MaxStamp /\ x.updated \in 0..MaxStamp /\ x.usable
  BY StampsAre DEF Merged
<1>3. /\ z.created \in 0..MaxStamp
      /\ z.created = x.created \/ z.created = y.created
      /\ x.created # 0 => z.created # 0 /\ z.created <= x.created
      /\ y.created # 0 => z.created # 0 /\ z.created <= y.created
  BY <1>1, <1>2 DEF EarliestNonzero
<1>4. /\ z.updated \in 0..MaxStamp
      /\ z.updated = x.updated \/ z.updated = y.updated
      /\ x.updated <= z.updated /\ y.updated <= z.updated
  BY <1>1, <1>2 DEF LatestNonzero
<1>5. k + 1 \in 1..(k + 1) /\ Stands(z, D, k + 1, k + 1)
  BY <1>1 DEF Stands
<1>6. \A j \in 1..(k + 1) : j \in 1..k \/ j = k + 1
  OBVIOUS
<1>7. \A j \in 1..k : j \in 1..(k + 1) /\ (Stands(z, D, k + 1, j) <=> Stands(x, D, k, j))
  BY <1>1 DEF Stands
<1>8. z.created # 0 => \E j \in 1..(k + 1) : Stands(z, D, k + 1, j) /\ D[j].created = z.created
  BY <1>3, <1>5, <1>7 DEF Merged
<1>9. z.updated # 0 => \E j \in 1..(k + 1) : Stands(z, D, k + 1, j) /\ D[j].updated = z.updated
  BY <1>4, <1>5, <1>7 DEF Merged
<1>10. ASSUME NEW j \in 1..(k + 1), Stands(z, D, k + 1, j)
       PROVE  /\ D[j].created # 0 => z.created # 0 /\ z.created <= D[j].created
              /\ D[j].updated <= z.updated
  <2>1. CASE j = k + 1
    BY <1>3, <1>4, <2>1
  <2>2. CASE j \in 1..k
    <3>1. /\ D[j].created # 0 => x.created # 0 /\ x.created <= D[j].created
          /\ D[j].updated <= x.updated
      BY <1>7, <1>10, <2>2 DEF Merged
    <3>2. D[j].created \in Int /\ D[j].updated \in Int
      <4>1. D[j] \in ThreadRow
        BY <2>2
      <4> QED
        BY <4>1, StampsAre
    <3> QED
      BY <1>2, <1>3, <1>4, <3>1, <3>2
  <2> QED
    BY <1>6, <2>1, <2>2
<1>11. z.usable
  BY <1>1, <1>2
<1>12. Merged(z, D, k + 1)
  BY <1>3, <1>4, <1>8, <1>9, <1>10, <1>11, Zenon DEF Merged
<1> QED
  BY <1>12

(* A row that another one is added to, of another session or of no use.     *)
LEMMA MergedBeside ==
  ASSUME NEW n \in Nat, NEW D \in Seq(ThreadRow), n = Len(D), NEW k \in 0..(n - 1),
         NEW x, Merged(x, D, k),
         ~ValidInteractiveThread(D[k + 1]) \/ D[k + 1].session # x.session
  PROVE  Merged(x, D, k + 1)
<1>1. \A j \in 1..(k + 1) : j \in 1..k \/ j = k + 1
  OBVIOUS
<1>2. ~Stands(x, D, k + 1, k + 1)
  BY DEF Stands
<1>3. \A j \in 1..k : j \in 1..(k + 1) /\ (Stands(x, D, k + 1, j) <=> Stands(x, D, k, j))
  BY DEF Stands
<1> QED
  BY <1>1, <1>2, <1>3, Zenon DEF Merged

(* The first row of its session.                                            *)
LEMMA MergedAlone ==
  ASSUME NEW n \in Nat, NEW D \in Seq(ThreadRow), n = Len(D), NEW k \in 0..(n - 1),
         ValidInteractiveThread(D[k + 1]),
         \A j \in 1..k : ~Stands(D[k + 1], D, k, j)
  PROVE  Merged(D[k + 1], D, k + 1)
<1> PICK x \in ThreadRow : x = D[k + 1]
  OBVIOUS
<1>1. \A j \in 1..(k + 1) : j \in 1..k \/ j = k + 1
  OBVIOUS
<1>2. k + 1 \in 1..(k + 1) /\ Stands(x, D, k + 1, k + 1)
  BY DEF Stands
<1>3. \A j \in 1..k : ~Stands(x, D, k + 1, j)
  BY DEF Stands
<1>4. /\ x.usable /\ x.created \in 0..MaxStamp /\ x.updated \in 0..MaxStamp
      /\ x.created <= x.created /\ x.updated <= x.updated
  BY StampsAre
<1>5. ASSUME NEW j \in 1..(k + 1), Stands(x, D, k + 1, j)
      PROVE  D[j] = x
  BY <1>1, <1>3, <1>5
<1>6. Merged(x, D, k + 1)
  BY <1>2, <1>4, <1>5, Zenon DEF Merged
<1> QED
  BY <1>6

(* One row more: merged with the one of its session, or appended.           *)
LEMMA AddRowKeeps ==
  ASSUME NEW n \in Nat, NEW D \in Seq(ThreadRow), n = Len(D), NEW k \in 0..(n - 1),
         NEW rows, MergedRows(rows, D, k)
  PROVE  MergedRows(AddRow(rows, D[k + 1]), D, k + 1)
<1> PICK y \in ThreadRow : y = D[k + 1]
  OBVIOUS
<1> PICK m \in Nat : m = Len(rows)
  BY DEF MergedRows
<1>1. /\ rows \in Seq(ThreadRow) /\ OneRowPerSession(rows)
      /\ \A i \in 1..m : Merged(rows[i], D, k)
      /\ \A j \in 1..k : ValidInteractiveThread(D[j]) =>
           \E i \in 1..m : rows[i].session = D[j].session
  BY DEF MergedRows
<1>2. \A i \in 1..m : rows[i] \in ThreadRow
  BY <1>1
<1>3. \A j \in 1..(k + 1) : j \in 1..k \/ j = k + 1
  OBVIOUS
<1>4. CASE ~ValidInteractiveThread(y)
  <2>1. AddRow(rows, y) = rows
    BY <1>4 DEF AddRow
  <2>2. \A i \in 1..m : Merged(rows[i], D, k + 1)
    BY <1>1, <1>4, MergedBeside
  <2>3. \A j \in 1..(k + 1) : ValidInteractiveThread(D[j]) =>
          \E i \in 1..m : rows[i].session = D[j].session
    BY <1>1, <1>3, <1>4
  <2>4. MergedRows(rows, D, k + 1)
    BY <1>1, <2>2, <2>3 DEF MergedRows
  <2> QED
    BY <2>1, <2>4
<1>5. CASE ValidInteractiveThread(y) /\ \E i \in 1..m : rows[i].session = y.session
  <2> PICK q : q = [i \in 1..m |-> IF rows[i].session = y.session THEN Merge(rows[i], y) ELSE rows[i]]
    OBVIOUS
  <2>1. AddRow(rows, y) = q
    BY <1>5 DEF AddRow
  <2>2. \A i \in 1..m : q[i] \in ThreadRow /\ q[i].session = rows[i].session
    <3>1. \A i \in 1..m : Merge(rows[i], y) \in ThreadRow /\ Merge(rows[i], y).session = rows[i].session
      BY <1>2, MergeIs
    <3> QED
      BY <1>2, <3>1
  <2>3. q \in Seq(ThreadRow) /\ Len(q) = m
    BY <2>2
  <2>4. OneRowPerSession(q)
    BY <1>1, <2>2, <2>3 DEF OneRowPerSession
  <2>5. ASSUME NEW i \in 1..m PROVE Merged(q[i], D, k + 1)
    <3>1. rows[i] \in ThreadRow /\ Merged(rows[i], D, k)
      BY <1>1, <1>2
    <3>2. CASE rows[i].session = y.session
      <4>1. Merged(Merge(rows[i], D[k + 1]), D, k + 1)
        BY <1>5, <3>1, <3>2, MergedWith
      <4>2. q[i] = Merge(rows[i], D[k + 1])
        BY <3>2
      <4> QED
        BY <4>1, <4>2
    <3>3. CASE rows[i].session # y.session
      <4>1. Merged(rows[i], D, k + 1)
        BY <3>1, <3>3, MergedBeside
      <4>2. q[i] = rows[i]
        BY <3>3
      <4> QED
        BY <4>1, <4>2
    <3> QED
      BY <3>2, <3>3
  <2>6. \A j \in 1..(k + 1) : ValidInteractiveThread(D[j]) =>
          \E i \in 1..m : q[i].session = D[j].session
    BY <1>1, <1>3, <1>5, <2>2
  <2>7. MergedRows(q, D, k + 1)
    BY <2>3, <2>4, <2>5, <2>6 DEF MergedRows
  <2> QED
    BY <2>1, <2>7
<1>6. CASE ValidInteractiveThread(y) /\ ~\E i \in 1..m : rows[i].session = y.session
  <2> PICK q : q = Append(rows, y)
    OBVIOUS
  <2>1. AddRow(rows, y) = q
    BY <1>6 DEF AddRow
  <2>2. /\ q \in Seq(ThreadRow) /\ Len(q) = m + 1 /\ q[m + 1] = y
        /\ \A i \in 1..m : q[i] = rows[i]
    BY <1>1
  <2>3. \A i \in 1..(m + 1) : i \in 1..m \/ i = m + 1
    OBVIOUS
  <2>4. OneRowPerSession(q)
    <3>1. \A i, j \in 1..m : rows[i].session = rows[j].session => i = j
      BY <1>1 DEF OneRowPerSession
    <3> QED
      BY <1>6, <2>2, <2>3, <3>1 DEF OneRowPerSession
  <2>5. Merged(y, D, k + 1)
    <3>1. \A j \in 1..k : ~Stands(D[k + 1], D, k, j)
      BY <1>1, <1>6 DEF Stands
    <3> QED
      BY <1>6, <3>1, MergedAlone
  <2>6. ASSUME NEW i \in 1..m PROVE Merged(rows[i], D, k + 1)
    <3>1. Merged(rows[i], D, k) /\ D[k + 1].session # rows[i].session
      BY <1>1, <1>6
    <3> QED
      BY <3>1, MergedBeside
  <2>7. \A i \in 1..(m + 1) : Merged(q[i], D, k + 1)
    BY <2>2, <2>3, <2>5, <2>6
  <2>8. \A j \in 1..(k + 1) : ValidInteractiveThread(D[j]) =>
          \E i \in 1..(m + 1) : q[i].session = D[j].session
    <3>1. SUFFICES ASSUME NEW j \in 1..(k + 1), ValidInteractiveThread(D[j])
                   PROVE  \E i \in 1..(m + 1) : q[i].session = D[j].session
      OBVIOUS
    <3>2. CASE j \in 1..k
      <4>1. PICK i \in 1..m : rows[i].session = D[j].session
        BY <1>1, <3>1, <3>2
      <4>2. i \in 1..(m + 1) /\ q[i].session = D[j].session
        BY <2>2, <4>1
      <4> QED
        BY <4>2
    <3>3. CASE j = k + 1
      <4>1. m + 1 \in 1..(m + 1) /\ q[m + 1].session = D[j].session
        BY <2>2, <3>3
      <4> QED
        BY <4>1
    <3> QED
      BY <1>3, <3>2, <3>3
  <2>9. MergedRows(q, D, k + 1)
    BY <2>2, <2>4, <2>7, <2>8 DEF MergedRows
  <2> QED
    BY <2>1, <2>9
<1>7. AddRow(rows, D[k + 1]) = AddRow(rows, y)
  OBVIOUS
<1> QED
  BY <1>4, <1>5, <1>6, <1>7

LEMMA AddRowTyped ==
  ASSUME NEW rows \in Seq(ThreadRow), NEW y \in ThreadRow
  PROVE  AddRow(rows, y) \in Seq(ThreadRow)
<1> PICK m \in Nat : m = Len(rows)
  OBVIOUS
<1>1. \A i \in 1..m : rows[i] \in ThreadRow /\ Merge(rows[i], y) \in ThreadRow
  BY MergeIs
<1>2. [i \in 1..m |-> IF rows[i].session = y.session THEN Merge(rows[i], y) ELSE rows[i]]
        \in Seq(ThreadRow)
  BY <1>1
<1>3. Append(rows, y) \in Seq(ThreadRow)
  OBVIOUS
<1> QED
  BY <1>2, <1>3 DEF AddRow

(* SanitizeRecentThreads as a function of the number of rows added.         *)
LEMMA AddSteps ==
  ASSUME NEW D \in Seq(ThreadRow), NEW n \in Nat, n = Len(D)
  PROVE  \E r : Adds(r, D, n)
<1> DEFINE V == Seq(ThreadRow)
           take == [p \in V \X (1..n) |-> AddRow(p[1], D[p[2]])]
<1>1. <<>> \in V /\ take \in [V \X (1..n) -> V]
  <2>1. \A v \in V, i \in 1..n : AddRow(v, D[i]) \in V
    <3>1. \A i \in 1..n : D[i] \in ThreadRow
      OBVIOUS
    <3> QED
      BY <3>1, AddRowTyped
  <2> QED
    BY <2>1
<1> HIDE DEF V, take
<1>2. PICK f : IsFold(f, n, V, <<>>, take)
  BY <1>1, FoldExists, Zenon
<1> DEFINE Folds(g) ==
             g = [T \in SUBSET DOMAIN D |->
                    IF T = {} THEN <<>>
                    ELSE LET x == CHOOSE x \in T : \A y \in T : x >= y
                         IN  AddRow(g[T \ {x}], D[x])]
           iter == CHOOSE g : Folds(g)
<1>3. Folds(f)
  <2>1. ASSUME NEW T \in SUBSET (1..n), T # {}
        PROVE  take[<<f[T \ {LastIn(T)}], LastIn(T)>>] = AddRow(f[T \ {LastIn(T)}], D[LastIn(T)])
    <3>1. LastIn(T) \in 1..n
      BY <2>1, LastOf
    <3>2. f[T \ {LastIn(T)}] \in V
      BY <1>2, <3>1 DEF IsFold
    <3> QED
      BY <3>1, <3>2 DEF take
  <2>2. f = [T \in SUBSET (1..n) |-> f[T]]
    BY <1>2 DEF IsFold
  <2>3. DOMAIN D = 1..n
    OBVIOUS
  <2> QED
    BY <1>2, <2>1, <2>2, <2>3 DEF LastIn, IsFold
<1>4. Folds(iter)
  BY <1>3
<1>5. FoldLeft(AddRow, <<>>, D) = iter[DOMAIN D]
  BY DEF FoldLeft, MapThenFoldSet, Max
<1> HIDE DEF iter
<1>6. iter[1..0] = <<>> /\ DOMAIN D = 1..n
  BY <1>4
<1>7. ASSUME NEW k \in 0..(n - 1)
      PROVE  iter[1..(k + 1)] = AddRow(iter[1..k], D[k + 1])
  <2>1. \A T \in SUBSET (1..n) : T # {} =>
          iter[T] = LET x == CHOOSE x \in T : \A y \in T : x >= y
                    IN  AddRow(iter[T \ {x}], D[x])
    BY <1>4, <1>6
  <2>2. /\ 1..(k + 1) \in SUBSET (1..n) /\ 1..(k + 1) # {}
        /\ (CHOOSE x \in 1..(k + 1) : \A y \in 1..(k + 1) : x >= y) = k + 1
        /\ (1..(k + 1)) \ {k + 1} = 1..k
    BY FirstPlaces
  <2> QED
    BY <2>1, <2>2
<1> DEFINE r == [k \in 0..n |-> iter[1..k]]
<1>8. r[0] = <<>> /\ r[n] = iter[DOMAIN D]
      /\ \A k \in 0..(n - 1) : r[k] = iter[1..k] /\ r[k + 1] = iter[1..(k + 1)]
  BY <1>6
<1> HIDE DEF r
<1>9. Adds(r, D, n)
  BY <1>5, <1>7, <1>8 DEF Adds
<1> QED
  BY <1>9

(* A merged row that is not valid has its timestamps from two rows, each of *)
(* which leaves the other one out.                                          *)
Split(D) ==
  \E i, j \in 1..Len(D) :
    /\ D[i].session = D[j].session
    /\ D[i].created = 0 /\ D[j].updated = 0
    /\ D[j].created > D[i].updated

(* Unless the rows are split, what is merged of valid rows is valid.        *)
LEMMA MergedValid ==
  ASSUME NEW n \in Nat, NEW D \in Seq(ThreadRow), n = Len(D), NEW x, Merged(x, D, n),
         ~Split(D)
  PROVE  ValidInteractiveThread(x)
<1>1. SUFFICES ASSUME x.created # 0, x.updated # 0, x.updated < x.created PROVE FALSE
  <2>1. x.usable /\ x.created \in 0..MaxStamp /\ x.updated \in 0..MaxStamp
    BY DEF Merged
  <2>2. x.created = 0 \/ x.updated = 0 \/ x.updated >= x.created
    BY <1>1, <2>1, StampsAre
  <2> QED
    BY <2>1, <2>2 DEF ValidInteractiveThread, Ordered
<1>2. PICK j \in 1..n : Stands(x, D, n, j) /\ D[j].created = x.created
  BY <1>1 DEF Merged
<1>3. PICK i \in 1..n : Stands(x, D, n, i) /\ D[i].updated = x.updated
  BY <1>1 DEF Merged
<1>4. /\ D[j].updated <= x.updated
      /\ D[i].created # 0 => x.created <= D[i].created
  BY <1>2, <1>3 DEF Merged
<1>5. /\ D[i].session = x.session /\ D[j].session = x.session
      /\ ValidInteractiveThread(D[i]) /\ ValidInteractiveThread(D[j])
  BY <1>2, <1>3 DEF Stands
<1> PICK a \in ThreadRow, b \in ThreadRow : a = D[i] /\ b = D[j]
  OBVIOUS
<1>6. /\ a.created \in Int /\ a.updated \in Int /\ b.created \in Int /\ b.updated \in Int
      /\ a.created # 0 /\ a.updated # 0 => a.updated >= a.created
      /\ b.created # 0 /\ b.updated # 0 => b.updated >= b.created
  BY <1>5, StampsAre
<1> PICK early \in Int, late \in Int : early = x.created /\ late = x.updated
  <2>1. x.created \in Int /\ x.updated \in Int
    <3>1. a.updated = x.updated /\ b.created = x.created
      BY <1>2, <1>3
    <3> QED
      BY <1>6, <3>1
  <2> QED
    BY <2>1
<1>7. /\ early # 0 /\ late # 0 /\ late < early
      /\ b.created = early /\ a.updated = late
      /\ b.updated <= late /\ (a.created # 0 => early <= a.created)
  BY <1>1, <1>2, <1>3, <1>4
<1>8. b.updated = 0 /\ a.created = 0
  BY <1>6, <1>7
<1>9. b.created > a.updated
  BY <1>7
<1> QED
  BY <1>5, <1>8, <1>9 DEF Split

(* What is kept of the recent threads: not too many, a row per session, and *)
(* valid ones unless the rows are split.                                    *)
LEMMA RecentAre ==
  ASSUME NEW D \in Seq(ThreadRow), NEW R, R = SanitizeRecentThreads(D)
  PROVE  /\ R \in Seq(ThreadRow) /\ Len(R) <= MaxRecentThreads
         /\ Cardinality({R[i].session : i \in 1..Len(R)}) = Len(R)
         /\ ~Split(D) => \A i \in 1..Len(R) : ValidInteractiveThread(R[i])
<1> PICK n \in Nat : n = Len(D)
  OBVIOUS
<1>1. PICK r : Adds(r, D, n)
  BY AddSteps, Zenon
<1> DEFINE T == {k \in 0..n : MergedRows(r[k], D, k)}
<1>2. 0 \in T
  <2>1. r[0] = <<>> /\ <<>> \in Seq(ThreadRow) /\ Len(<<>>) = 0
    BY <1>1 DEF Adds
  <2>2. MergedRows(<<>>, D, 0)
    BY <2>1 DEF MergedRows, OneRowPerSession
  <2> QED
    BY <2>1, <2>2
<1>3. ASSUME NEW k \in 0..(n - 1), k \in T PROVE k + 1 \in T
  <2>1. r[k + 1] = AddRow(r[k], D[k + 1]) /\ MergedRows(r[k], D, k)
    BY <1>1, <1>3 DEF Adds
  <2>2. MergedRows(AddRow(r[k], D[k + 1]), D, k + 1)
    BY <2>1, AddRowKeeps
  <2>3. k + 1 \in 0..n
    OBVIOUS
  <2> QED
    BY <2>1, <2>2, <2>3
<1> HIDE DEF T
<1>4. n \in T
  <2>1. \A k \in 0..n : k \in T
    BY <1>2, <1>3, UpTo
  <2> QED
    BY <2>1
<1> PICK m : m = r[n]
  OBVIOUS
<1>5. m \in Seq(ThreadRow) /\ OneRowPerSession(m) /\ \A i \in 1..Len(m) : Merged(m[i], D, n)
  BY <1>4 DEF T, MergedRows
<1> PICK c : c = IF Len(m) < MaxRecentThreads THEN Len(m) ELSE MaxRecentThreads
  OBVIOUS
<1>6. c \in 0..Len(m) /\ c <= MaxRecentThreads /\ c \in Nat /\ Len(m) \in Nat
  <2>1. Len(m) \in Nat /\ MaxRecentThreads \in Nat
    BY <1>5, ObservationAssumption
  <2> QED
    BY <2>1
<1>7. R = SubSeq(m, 1, c)
  BY <1>1 DEF SanitizeRecentThreads, Adds
<1>8. R \in Seq(ThreadRow) /\ Len(R) = c /\ \A i \in 1..c : R[i] = m[i]
  BY <1>5, <1>6, <1>7, FirstPart
<1>9. \A i \in 1..c : i \in 1..Len(m)
  BY <1>6
<1> PICK q : q = [i \in 1..c |-> R[i].session]
  OBVIOUS
<1>10. q \in Seq(Nat) /\ Len(q) = c
  <2>1. \A i \in 1..c : R[i].session \in Nat
    <3>1. \A i \in 1..c : R[i] \in ThreadRow
      BY <1>8
    <3> QED
      BY <3>1, StampsAre
  <2> QED
    BY <1>6, <2>1
<1>11. Once(q)
  BY <1>5, <1>8, <1>9, <1>10 DEF Once, OneRowPerSession
<1>12. Cardinality({q[i] : i \in 1..Len(q)}) = Len(q)
  BY <1>10, <1>11, OnceCounts
<1>13. {R[i].session : i \in 1..Len(R)} = {q[i] : i \in 1..Len(q)}
  BY <1>8, <1>10
<1>14. ASSUME ~Split(D), NEW i \in 1..c PROVE ValidInteractiveThread(R[i])
  BY <1>5, <1>8, <1>9, <1>14, MergedValid
<1> QED
  BY <1>6, <1>8, <1>10, <1>12, <1>13, <1>14

-----------------------------------------------------------------------------
(* One refresh: every part of it steps as its own specification says. *)

(* What refresh does with /proc is a step of detect, or none.               *)
LEMMA VersionStep == [RefreshNext]_allVars => [VersionNext]_versionVars
<1>1. SUFFICES ASSUME RefreshNext, ~UNCHANGED versionVars PROVE VersionNext
  BY DEF allVars
<1> QED
  BY <1>1 DEF RefreshNext, ReadAccount, ObserveVersion, VersionObserved, ReadRateLimits,
     RequiredReadFails, ReadAccountUsage, ReadThreads, ReadThreadsFails, ConnectControl,
     ReadRuntimeThreads, RuntimeThreadsRead, ReadRuntimeThreadsFails, PublishSnapshot

(* What refresh does with the daemon is a step of the inventory, or none.   *)
LEMMA ThreadsStep == [RefreshNext]_allVars => [ThreadsNext]_threadVars
<1>1. SUFFICES ASSUME RefreshNext, ~UNCHANGED threadVars PROVE ThreadsNext
  BY DEF allVars
<1> QED
  BY <1>1 DEF RefreshNext, ReadAccount, ObserveVersion, VersionObserved, ReadRateLimits,
     RequiredReadFails, ReadAccountUsage, ReadThreads, ReadThreadsFails, ConnectControl,
     ReadRuntimeThreads, RuntimeThreadsRead, ReadRuntimeThreadsFails, PublishSnapshot, ThreadsNext

(* So all that holds of a detection holds within a refresh.                 *)
LEMMA RefreshDetects == RefreshSpec => VersionSpec
<1>1. RefreshInit => VersionInit
  BY DEF RefreshInit
<1> QED
  BY <1>1, VersionStep, PTL DEF RefreshSpec, VersionSpec

(* And all that holds of an inventory.                                      *)
LEMMA RefreshReadsThreads == RefreshSpec => ThreadsSpec
<1>1. RefreshInit => ThreadsInit
  BY DEF RefreshInit
<1> QED
  BY <1>1, ThreadsStep, PTL DEF RefreshSpec, ThreadsSpec

-----------------------------------------------------------------------------
(* The snapshot while it is being put together *)

Steps == {"account", "version", "limits", "usage", "threads", "runtime", "validate",
          "published", "rejected", "failed"}
States == {"ok", "signed_out", "api_key", "unavailable"}
Errors == {None, "protocol", "auth_unavailable"}

Snapshots ==
  [state : States, error : Errors, main : Window, limits : Seq(Seq(Nat)),
   recent : Seq(ThreadRow), recentRead : BOOLEAN, runtime : SUBSET Rows, runtimeRead : BOOLEAN,
   tokensRead : BOOLEAN]

(* An account that is not signed in with a plan leaves nothing to be read,  *)
(* and one that is not understood ends the session.                         *)
AccountPart ==
  /\ snapshot.error # "protocol" => (snapshot.state = "unavailable" <=> snapshot.error # None)
  /\ step \notin {"account", "version", "failed"} => snapshot.error # "protocol"
  /\ snapshot.state # "ok" =>
       OnlyWhenOK(snapshot) /\ step \notin {"limits", "usage", "threads", "runtime"}

QuotaPart ==
  \/ snapshot.main = NoWindow /\ snapshot.limits = <<>>
  \/ /\ snapshot.main = SanitizeMainUsage(answered.limits)
     /\ snapshot.limits = SanitizeLimits(answered.limits.buckets)

RecentPart ==
  \/ snapshot.recent = <<>>
  \/ snapshot.recentRead /\ snapshot.recent = SanitizeRecentThreads(answered.threads)

(* The inventory does not move any more once the snapshot has taken it.     *)
RuntimePart ==
  /\ snapshot.runtime \subseteq inventory
  /\ snapshot.runtime # {} => snapshot.runtimeRead /\ step \in {"validate", "published", "rejected"}

SnapshotInv ==
  /\ load \in DOMAIN Loads /\ step \in Steps
  /\ snapshot \in Snapshots
  /\ answered \in [limits : LimitsAnswer, threads : Seq(ThreadRow)]
  /\ AccountPart /\ QuotaPart /\ RecentPart /\ RuntimePart
  /\ step = "rejected" => ~Validate(snapshot)

LEMMA NoWindowIs == NoWindow \in Window
BY DEF NoWindow, Window

(* snapshotForAccount: nothing but the account.                             *)
LEMMA EmptyIs ==
  ASSUME NEW account \in Accounts, NEW s, s = EmptySnapshot(account)
  PROVE  /\ s \in Snapshots
         /\ s.main = NoWindow /\ s.limits = <<>> /\ s.recent = <<>> /\ s.runtime = {}
         /\ OnlyWhenOK(s)
         /\ s.error # "protocol" => (s.state = "unavailable" <=> s.error # None)
<1>1. StateOf(account) \in States /\ ErrorOf(account) \in Errors
  BY DEF Accounts, StateOf, ErrorOf, States, Errors, None
<1>2. ErrorOf(account) # "protocol" => (StateOf(account) = "unavailable" <=> ErrorOf(account) # None)
  BY DEF Accounts, StateOf, ErrorOf, None
<1>3. /\ s.state = StateOf(account) /\ s.error = ErrorOf(account)
      /\ s.main = NoWindow /\ s.limits = <<>> /\ s.recent = <<>> /\ s.runtime = {}
      /\ s.recentRead = FALSE /\ s.runtimeRead = FALSE /\ s.tokensRead = FALSE
  BY DEF EmptySnapshot
<1>4. s \in Snapshots
  <2>1. <<>> \in Seq(Seq(Nat)) /\ <<>> \in Seq(ThreadRow) /\ {} \in SUBSET Rows
    OBVIOUS
  <2> QED
    BY <1>1, <2>1, NoWindowIs DEF EmptySnapshot, Snapshots
<1>5. OnlyWhenOK(s)
  BY <1>3, Zenon DEF OnlyWhenOK
<1> QED
  BY <1>2, <1>3, <1>4, <1>5

(* What is read of the rate limits and of the threads has its types.        *)
LEMMA MainIs ==
  ASSUME NEW a \in LimitsAnswer
  PROVE  SanitizeMainUsage(a) \in Window
<1>1. a.primary \in Window /\ a.secondary \in Window
  BY DEF LimitsAnswer
<1>2. \A w \in Window : SanitizeWindow(w) \in Window
  <2>1. SUFFICES ASSUME NEW w \in Window PROVE SanitizeWindow(w) \in Window
    OBVIOUS
  <2>2. w.weekly \in BOOLEAN /\ w.resetsAt \in Int
    BY DEF Window
  <2> PICK v \in Int : v = IF ValidStamp(w.resetsAt) THEN w.resetsAt ELSE 0
    BY <2>2
  <2>3. SanitizeWindow(w) = [w EXCEPT !.resetsAt = v]
    BY DEF SanitizeWindow
  <2> QED
    BY <2>3 DEF Window
<1> QED
  BY <1>1, <1>2, NoWindowIs DEF SanitizeMainUsage

(* The snapshot: its invariant from the start on, step by step.             *)
LEMMA SnapshotAtFirst == RefreshInit => SnapshotInv
<1>1. SUFFICES ASSUME RefreshInit PROVE SnapshotInv
  OBVIOUS
<1>2. /\ load \in DOMAIN Loads /\ step = "account" /\ snapshot = EmptySnapshot("none")
      /\ answered = NoAnswers
  BY <1>1 DEF RefreshInit
<1>3. "none" \in Accounts
  BY DEF Accounts
<1>4. /\ snapshot \in Snapshots
      /\ snapshot.main = NoWindow /\ snapshot.limits = <<>> /\ snapshot.recent = <<>>
      /\ snapshot.runtime = {} /\ OnlyWhenOK(snapshot)
      /\ snapshot.error # "protocol" => (snapshot.state = "unavailable" <=> snapshot.error # None)
  BY <1>2, <1>3, EmptyIs
<1>5. answered \in [limits : LimitsAnswer, threads : Seq(ThreadRow)]
  <2>1. <<>> \in Seq(Seq(Nat)) /\ <<>> \in Seq(ThreadRow)
    OBVIOUS
  <2> QED
    BY <1>2, <2>1, NoWindowIs DEF NoAnswers, LimitsAnswer
<1>6. AccountPart /\ QuotaPart /\ RecentPart /\ RuntimePart
  BY <1>2, <1>4 DEF AccountPart, QuotaPart, RecentPart, RuntimePart
<1> QED
  BY <1>2, <1>4, <1>5, <1>6 DEF SnapshotInv, Steps

(* A step that leaves the snapshot and the answers alone.                   *)
LEMMA SnapshotLeft ==
  ASSUME SnapshotInv, UNCHANGED <<load, snapshot, answered>>, step' \in Steps,
         \/ step' = step
         \/ step' \notin {"limits", "usage", "threads", "runtime", "rejected"}
         \/ snapshot.state = "ok" /\ step' # "rejected"
         \/ ~Validate(snapshot) /\ step' = "rejected",
         step' = step \/ step' \in {"failed"} \/ snapshot.error # "protocol",
         \/ step' = step
         \/ step' \in {"validate", "published", "rejected"}
         \/ snapshot.runtime = {},
         inventory' = inventory \/ snapshot.runtime = {}
  PROVE  SnapshotInv'
<1>1. /\ load' = load /\ snapshot' = snapshot /\ answered' = answered
  OBVIOUS
<1>2. QuotaPart' /\ RecentPart'
  BY <1>1 DEF SnapshotInv, QuotaPart, RecentPart
<1>3. AccountPart'
  <2>1. OnlyWhenOK(snapshot)' = OnlyWhenOK(snapshot)
    BY <1>1 DEF OnlyWhenOK
  <2> QED
    BY <1>1, <2>1 DEF SnapshotInv, AccountPart
<1>4. RuntimePart'
  BY <1>1 DEF SnapshotInv, RuntimePart
<1>5. step' = "rejected" => ~Validate(snapshot)'
  <2>1. Validate(snapshot)' = Validate(snapshot)
    BY <1>1
  <2> QED
    BY <2>1 DEF SnapshotInv
<1> QED
  BY <1>1, <1>2, <1>3, <1>4, <1>5 DEF SnapshotInv

LEMMA AccountReadKeeps ==
  ASSUME SnapshotInv, NEW account \in Loads[load].accounts, ReadAccount(account)
  PROVE  SnapshotInv'
<1>1. account \in Accounts
  BY RefreshAssumption DEF SnapshotInv
<1>2. /\ snapshot' = EmptySnapshot(account) /\ step' = "version"
      /\ load' = load /\ answered' = answered
  BY DEF ReadAccount
<1>3. /\ snapshot' \in Snapshots
      /\ snapshot'.main = NoWindow /\ snapshot'.limits = <<>> /\ snapshot'.recent = <<>>
      /\ snapshot'.runtime = {} /\ OnlyWhenOK(snapshot')
      /\ snapshot'.error # "protocol"
           => (snapshot'.state = "unavailable" <=> snapshot'.error # None)
  BY <1>1, <1>2, EmptyIs
<1>4. AccountPart'
  BY <1>2, <1>3 DEF AccountPart, OnlyWhenOK
<1>5. QuotaPart' /\ RecentPart' /\ RuntimePart'
  BY <1>3 DEF QuotaPart, RecentPart, RuntimePart
<1> QED
  BY <1>2, <1>3, <1>4, <1>5 DEF SnapshotInv, Steps

(* While the optional parts are read, the snapshot is of an account that is *)
(* signed in.                                                               *)
LEMMA PartsKeep ==
  ASSUME SnapshotInv, step \in {"limits", "usage", "threads", "runtime"},
         snapshot' \in Snapshots, load' = load,
         answered' \in [limits : LimitsAnswer, threads : Seq(ThreadRow)],
         step' \in {"usage", "threads", "runtime", "validate"},
         snapshot'.state = snapshot.state, snapshot'.error = snapshot.error,
         QuotaPart', RecentPart', RuntimePart'
  PROVE  SnapshotInv'
<1>1. snapshot.state = "ok" /\ snapshot.error # "protocol"
  BY DEF SnapshotInv, AccountPart
<1>2. AccountPart'
  BY <1>1 DEF SnapshotInv, AccountPart
<1> QED
  BY <1>2 DEF SnapshotInv, Steps

LEMMA LimitsReadKeep ==
  ASSUME SnapshotInv, NEW answer \in Loads[load].limits, ReadRateLimits(answer)
  PROVE  SnapshotInv'
<1> PICK m : m = SanitizeMainUsage(answer)
  OBVIOUS
<1> PICK b : b = SanitizeLimits(answer.buckets)
  OBVIOUS
<1>1. answer \in LimitsAnswer
  BY RefreshAssumption DEF SnapshotInv
<1>2. m \in Window /\ b \in Seq(Seq(Nat))
  <2>1. answer.buckets \in Seq(Seq(Nat))
    BY <1>1 DEF LimitsAnswer
  <2> QED
    BY <1>1, <2>1, MainIs, LimitsAre
<1>3. /\ step = "limits" /\ step' = "usage" /\ load' = load /\ inventory' = inventory
      /\ snapshot' = [snapshot EXCEPT !.limits = b, !.main = m]
      /\ answered' = [answered EXCEPT !.limits = answer]
  BY DEF ReadRateLimits, threadVars, clientThreads
<1>4. snapshot \in Snapshots /\ answered \in [limits : LimitsAnswer, threads : Seq(ThreadRow)]
  BY DEF SnapshotInv
<1>5. /\ snapshot' \in Snapshots /\ snapshot'.limits = b /\ snapshot'.main = m
      /\ snapshot'.state = snapshot.state /\ snapshot'.error = snapshot.error
      /\ snapshot'.recent = snapshot.recent /\ snapshot'.recentRead = snapshot.recentRead
      /\ snapshot'.runtime = snapshot.runtime
  BY <1>2, <1>3, <1>4 DEF Snapshots
<1>6. /\ answered' \in [limits : LimitsAnswer, threads : Seq(ThreadRow)]
      /\ answered'.limits = answer /\ answered'.threads = answered.threads
  BY <1>1, <1>3, <1>4
<1>7. QuotaPart'
  BY <1>5, <1>6 DEF QuotaPart
<1>8. RecentPart'
  BY <1>5, <1>6 DEF SnapshotInv, RecentPart
<1>9. RuntimePart'
  BY <1>3, <1>5 DEF SnapshotInv, RuntimePart
<1> QED
  BY <1>3, <1>5, <1>6, <1>7, <1>8, <1>9, PartsKeep

LEMMA UsageReadKeeps ==
  ASSUME SnapshotInv, NEW done \in Loads[load].usage, ReadAccountUsage(done)
  PROVE  SnapshotInv'
<1>1. done \in BOOLEAN
  BY RefreshAssumption DEF SnapshotInv
<1>2. /\ step = "usage" /\ step' = "threads" /\ load' = load /\ inventory' = inventory
      /\ snapshot' = [snapshot EXCEPT !.tokensRead = done] /\ answered' = answered
  BY DEF ReadAccountUsage, threadVars, clientThreads
<1>3. snapshot \in Snapshots
  BY DEF SnapshotInv
<1>4. /\ snapshot' \in Snapshots /\ snapshot'.limits = snapshot.limits
      /\ snapshot'.main = snapshot.main
      /\ snapshot'.state = snapshot.state /\ snapshot'.error = snapshot.error
      /\ snapshot'.recent = snapshot.recent /\ snapshot'.recentRead = snapshot.recentRead
      /\ snapshot'.runtime = snapshot.runtime
  BY <1>1, <1>2, <1>3 DEF Snapshots
<1>5. QuotaPart' /\ RecentPart'
  BY <1>2, <1>4 DEF SnapshotInv, QuotaPart, RecentPart
<1>6. RuntimePart'
  BY <1>2, <1>4 DEF SnapshotInv, RuntimePart
<1> QED
  BY <1>2, <1>4, <1>5, <1>6, PartsKeep DEF SnapshotInv

LEMMA ThreadsReadKeep ==
  ASSUME SnapshotInv, NEW rows \in Loads[load].threads, ReadThreads(rows)
  PROVE  SnapshotInv'
<1> PICK r : r = SanitizeRecentThreads(rows)
  OBVIOUS
<1>1. rows \in Seq(ThreadRow)
  BY RefreshAssumption DEF SnapshotInv
<1>2. r \in Seq(ThreadRow)
  BY <1>1, RecentAre
<1>3. /\ step = "threads" /\ step' = "runtime" /\ load' = load /\ inventory' = inventory
      /\ snapshot' = [snapshot EXCEPT !.recentRead = TRUE, !.recent = r]
      /\ answered' = [answered EXCEPT !.threads = rows]
  BY DEF ReadThreads, threadVars, clientThreads
<1>4. snapshot \in Snapshots /\ answered \in [limits : LimitsAnswer, threads : Seq(ThreadRow)]
  BY DEF SnapshotInv
<1>5. /\ snapshot' \in Snapshots /\ snapshot'.recent = r /\ snapshot'.recentRead = TRUE
      /\ snapshot'.state = snapshot.state /\ snapshot'.error = snapshot.error
      /\ snapshot'.main = snapshot.main /\ snapshot'.limits = snapshot.limits
      /\ snapshot'.runtime = snapshot.runtime
  BY <1>2, <1>3, <1>4 DEF Snapshots
<1>6. /\ answered' \in [limits : LimitsAnswer, threads : Seq(ThreadRow)]
      /\ answered'.limits = answered.limits /\ answered'.threads = rows
  BY <1>1, <1>3, <1>4
<1>7. QuotaPart'
  BY <1>5, <1>6 DEF SnapshotInv, QuotaPart
<1>8. RecentPart'
  BY <1>5, <1>6 DEF RecentPart
<1>9. RuntimePart'
  BY <1>3, <1>5 DEF SnapshotInv, RuntimePart
<1> QED
  BY <1>3, <1>5, <1>6, <1>7, <1>8, <1>9, PartsKeep

LEMMA RuntimeReadKeeps ==
  ASSUME SnapshotInv, Selection, RuntimeThreadsRead
  PROVE  SnapshotInv'
<1> PICK R : R = {c \in inventory : c.id \notin Misdated}
  OBVIOUS
<1>1. R \in SUBSET Rows /\ R \subseteq inventory
  BY DEF Selection
<1>2. /\ step = "runtime" /\ step' = "validate" /\ load' = load /\ inventory' = inventory
      /\ snapshot' = [snapshot EXCEPT !.runtimeRead = TRUE, !.runtime = R]
      /\ answered' = answered
  BY DEF RuntimeThreadsRead, threadVars, clientThreads
<1>3. snapshot \in Snapshots
  BY DEF SnapshotInv
<1>4. /\ snapshot' \in Snapshots /\ snapshot'.limits = snapshot.limits
      /\ snapshot'.main = snapshot.main
      /\ snapshot'.state = snapshot.state /\ snapshot'.error = snapshot.error
      /\ snapshot'.recent = snapshot.recent /\ snapshot'.recentRead = snapshot.recentRead
      /\ snapshot'.runtime = R /\ snapshot'.runtimeRead = TRUE
  BY <1>1, <1>2, <1>3 DEF Snapshots
<1>5. QuotaPart' /\ RecentPart'
  BY <1>2, <1>4 DEF SnapshotInv, QuotaPart, RecentPart
<1>6. RuntimePart'
  BY <1>1, <1>2, <1>4 DEF RuntimePart
<1> QED
  BY <1>2, <1>4, <1>5, <1>6, PartsKeep DEF SnapshotInv

(* Every step of a refresh keeps what is known of its snapshot.             *)
LEMMA SnapshotKept == SnapshotInv /\ Selection /\ [RefreshNext]_allVars => SnapshotInv'
<1>1. SUFFICES ASSUME SnapshotInv, Selection, [RefreshNext]_allVars PROVE SnapshotInv'
  OBVIOUS
<1>2. step \in Steps /\ AccountPart /\ RuntimePart
  BY <1>1 DEF SnapshotInv
<1>3. CASE UNCHANGED allVars \/ ObserveVersion
  <2>1. UNCHANGED <<load, step, snapshot, answered>> /\ inventory' = inventory
    BY <1>3 DEF allVars, refreshVars, ObserveVersion, threadVars, clientThreads
  <2> QED
    BY <1>1, <1>2, <2>1, SnapshotLeft
<1>4. CASE ConnectControl \/ ReadRuntimeThreads
  <2>1. UNCHANGED <<load, step, snapshot, answered>> /\ step = "runtime"
    BY <1>4 DEF ConnectControl, ReadRuntimeThreads, refreshVars
  <2>2. snapshot.runtime = {}
    BY <1>2, <2>1 DEF RuntimePart
  <2> QED
    BY <1>1, <1>2, <2>1, <2>2, SnapshotLeft
<1>5. CASE VersionObserved
  <2>1. /\ UNCHANGED <<load, snapshot, answered>> /\ inventory' = inventory /\ step = "version"
        /\ step' = IF snapshot.error = "protocol" THEN "failed"
                   ELSE IF snapshot.state = "ok" THEN "limits" ELSE "validate"
    BY <1>5 DEF VersionObserved, threadVars, clientThreads
  <2>2. snapshot.runtime = {} /\ step' \in Steps
    BY <1>2, <2>1 DEF RuntimePart, Steps
  <2> QED
    BY <1>1, <2>1, <2>2, SnapshotLeft
<1>6. CASE RequiredReadFails
  <2>1. /\ UNCHANGED <<load, snapshot, answered>> /\ inventory' = inventory
        /\ step \in {"account", "limits"} /\ step' = "failed"
    BY <1>6 DEF RequiredReadFails, threadVars, clientThreads
  <2>2. snapshot.runtime = {} /\ step' \in Steps
    BY <1>2, <2>1 DEF RuntimePart, Steps
  <2> QED
    BY <1>1, <2>1, <2>2, SnapshotLeft
<1>7. CASE ReadThreadsFails \/ ReadRuntimeThreadsFails
  <2>1. /\ UNCHANGED <<load, snapshot, answered>> /\ inventory' = inventory
        /\ step \in {"threads", "runtime"} /\ step' \in {"runtime", "validate"}
    BY <1>7 DEF ReadThreadsFails, ReadRuntimeThreadsFails, threadVars, clientThreads
  <2>2. /\ snapshot.runtime = {} /\ step' \in Steps
        /\ snapshot.state = "ok" /\ snapshot.error # "protocol"
    BY <1>2, <2>1 DEF RuntimePart, AccountPart, Steps
  <2> QED
    BY <1>1, <2>1, <2>2, SnapshotLeft
<1>8. CASE PublishSnapshot
  <2>1. /\ UNCHANGED <<load, snapshot, answered>> /\ inventory' = inventory /\ step = "validate"
        /\ step' \in {"published", "rejected"} /\ (step' = "rejected" => ~Validate(snapshot))
    BY <1>8 DEF PublishSnapshot, threadVars, clientThreads
  <2>2. step' \in Steps /\ snapshot.error # "protocol"
    BY <1>2, <2>1 DEF AccountPart, Steps
  <2> QED
    BY <1>1, <2>1, <2>2, SnapshotLeft
<1>9. CASE \E account \in Loads[load].accounts : ReadAccount(account)
  BY <1>1, <1>9, AccountReadKeeps
<1>10. CASE \E answer \in Loads[load].limits : ReadRateLimits(answer)
  BY <1>1, <1>10, LimitsReadKeep
<1>11. CASE \E done \in Loads[load].usage : ReadAccountUsage(done)
  BY <1>1, <1>11, UsageReadKeeps
<1>12. CASE \E rows \in Loads[load].threads : ReadThreads(rows)
  BY <1>1, <1>12, ThreadsReadKeep
<1>13. CASE RuntimeThreadsRead
  BY <1>1, <1>13, RuntimeReadKeeps
<1> QED
  BY <1>1, <1>3, <1>4, <1>5, <1>6, <1>7, <1>8, <1>9, <1>10, <1>11, <1>12, <1>13 DEF RefreshNext

LEMMA SnapshotInvariant == RefreshSpec => []SnapshotInv
<1>1. ThreadsInv => Selection
  BY DEF ThreadsInv
<1> QED
  BY <1>1, SnapshotAtFirst, SnapshotKept, RefreshReadsThreads, ThreadsInvariant, PTL DEF RefreshSpec

-----------------------------------------------------------------------------
(* What the sanitizers make of the answers of a server is valid, with the   *)
(* two exceptions: the main window,                                         *)
LEMMA MainIsValid ==
  ASSUME QuotaPart, ~UnusableMainWindow, answered.limits \in LimitsAnswer
  PROVE  ValidMainUsage(snapshot.main)
<1> PICK a \in LimitsAnswer : a = answered.limits
  OBVIOUS
<1> PICK w : w = MainWindow
  OBVIOUS
<1>1. a.primary \in Window /\ a.secondary \in Window
  BY DEF LimitsAnswer
<1>2. w \in Window /\ w = (IF a.primary.weekly THEN a.primary ELSE a.secondary)
  BY <1>1 DEF MainWindow
<1>3. CASE snapshot.main = NoWindow
  BY <1>3 DEF ValidMainUsage
<1>4. CASE w.weekly /\ snapshot.main = SanitizeWindow(w)
  <2>1. /\ w.resetsAt \in (ObservedAt + 1)..MaxStamp /\ w.resetsAt > WeekLength
    BY <1>4 DEF UnusableMainWindow
  <2> PICK v : v = w.resetsAt
    OBVIOUS
  <2>2. ObservedAt \in Nat /\ WeekLength \in Nat /\ MaxStamp \in Nat
    BY ObservationAssumption
  <2>3. v > ObservedAt /\ v > WeekLength /\ ValidStamp(v)
    BY <2>1, <2>2 DEF ValidStamp
  <2>4. SanitizeWindow(w) = [w EXCEPT !.resetsAt = v]
    BY <2>3 DEF SanitizeWindow
  <2>5. SanitizeWindow(w) = w
    BY <1>2, <2>4 DEF Window
  <2> QED
    BY <1>4, <2>3, <2>5 DEF ValidMainUsage
<1>5. CASE ~w.weekly /\ snapshot.main = SanitizeMainUsage(a)
  BY <1>2, <1>3, <1>5 DEF SanitizeMainUsage
<1>6. CASE w.weekly /\ snapshot.main = SanitizeMainUsage(a)
  BY <1>2, <1>4, <1>6 DEF SanitizeMainUsage
<1> QED
  BY <1>3, <1>5, <1>6 DEF QuotaPart

(* the buckets,                                                             *)
LEMMA LimitsAreValid ==
  ASSUME QuotaPart, answered.limits \in LimitsAnswer
  PROVE  /\ Len(snapshot.limits) <= MaxBuckets
         /\ Cardinality(Range(snapshot.limits)) = Len(snapshot.limits)
<1>1. CASE snapshot.limits = <<>>
  <2>1. <<>> \in Seq(Nat) /\ Len(<<>>) = 0 /\ MaxBuckets \in Nat
    BY ObservationAssumption
  <2>2. DOMAIN <<>> = {}
    OBVIOUS
  <2>3. Range(<<>>) = {}
    BY <2>2 DEF Range
  <2>4. Cardinality(Range(snapshot.limits)) = 0 /\ Len(snapshot.limits) = 0
    BY <1>1, <2>3, FS_EmptySet
  <2> QED
    BY <2>1, <2>4
<1>2. CASE snapshot.limits = SanitizeLimits(answered.limits.buckets)
  <2>1. answered.limits.buckets \in Seq(Seq(Nat))
    BY DEF LimitsAnswer
  <2> QED
    BY <1>2, <2>1, LimitsAre
<1> QED
  BY <1>1, <1>2 DEF QuotaPart

(* and the recent threads.                                                  *)
LEMMA RecentAreValid ==
  ASSUME RecentPart, ~SplitTimestamps, answered.threads \in Seq(ThreadRow)
  PROVE  /\ Len(snapshot.recent) <= MaxRecentThreads
         /\ snapshot.recent # <<>> => snapshot.recentRead
         /\ \A i \in 1..Len(snapshot.recent) : ValidInteractiveThread(snapshot.recent[i])
         /\ Cardinality({snapshot.recent[i].session : i \in 1..Len(snapshot.recent)})
              = Len(snapshot.recent)
<1>1. CASE snapshot.recent = <<>>
  <2>1. Len(<<>>) = 0 /\ MaxRecentThreads \in Nat /\ 1..0 = {}
    BY ObservationAssumption
  <2>2. {snapshot.recent[i].session : i \in 1..Len(snapshot.recent)} = {}
    BY <1>1, <2>1
  <2>3. Cardinality({}) = 0
    BY FS_EmptySet
  <2>4. Cardinality({snapshot.recent[i].session : i \in 1..Len(snapshot.recent)}) = 0
    BY <2>2, <2>3
  <2>5. Len(snapshot.recent) = 0
    BY <1>1, <2>1
  <2>6. \A i \in 1..Len(snapshot.recent) : ValidInteractiveThread(snapshot.recent[i])
    BY <2>1, <2>5
  <2> QED
    BY <1>1, <2>1, <2>4, <2>5, <2>6
<1>2. CASE snapshot.recentRead /\ snapshot.recent = SanitizeRecentThreads(answered.threads)
  <2>1. ~Split(answered.threads)
    BY DEF Split, SplitTimestamps
  <2>2. /\ Len(snapshot.recent) <= MaxRecentThreads
        /\ Cardinality({snapshot.recent[i].session : i \in 1..Len(snapshot.recent)})
             = Len(snapshot.recent)
        /\ ~Split(answered.threads)
             => \A i \in 1..Len(snapshot.recent) : ValidInteractiveThread(snapshot.recent[i])
    BY <1>2, RecentAre
  <2> QED
    BY <1>2, <2>1, <2>2
<1> QED
  BY <1>1, <1>2 DEF RecentPart

(* A snapshot that is to be validated is valid but for the two exceptions.  *)
LEMMA SnapshotIsValid ==
  ASSUME SnapshotInv, Selection, ~UnusableMainWindow, ~SplitTimestamps,
         step \in {"validate", "rejected"}
  PROVE  Validate(snapshot)
<1>1. AccountPart /\ QuotaPart /\ RecentPart /\ RuntimePart
  BY DEF SnapshotInv
<1>2. answered.limits \in LimitsAnswer /\ answered.threads \in Seq(ThreadRow)
  BY DEF SnapshotInv
<1>3. /\ snapshot.state # "ok" => OnlyWhenOK(snapshot)
      /\ (snapshot.state = "unavailable") <=> (snapshot.error # None)
  BY <1>1 DEF AccountPart
<1>4. /\ snapshot.runtime # {} => snapshot.runtimeRead
      /\ \A c, d \in snapshot.runtime : c.session = d.session => c = d
  BY <1>1 DEF RuntimePart, Selection
<1>5. ValidMainUsage(snapshot.main)
  BY <1>1, <1>2, MainIsValid
<1>6. /\ Len(snapshot.limits) <= MaxBuckets
      /\ Cardinality(Range(snapshot.limits)) = Len(snapshot.limits)
  BY <1>1, <1>2, LimitsAreValid
<1>7. /\ Len(snapshot.recent) <= MaxRecentThreads
      /\ snapshot.recent # <<>> => snapshot.recentRead
      /\ \A i \in 1..Len(snapshot.recent) : ValidInteractiveThread(snapshot.recent[i])
      /\ Cardinality({snapshot.recent[i].session : i \in 1..Len(snapshot.recent)})
           = Len(snapshot.recent)
  BY <1>1, <1>2, RecentAreValid
<1> QED
  BY <1>3, <1>4, <1>5, <1>6, <1>7, Zenon DEF Validate

(* An observation that was read is published: however many buckets share a  *)
(* name, rows a session, or processes and threads the user has, refresh     *)
(* rejects its own snapshot for no other reason than a main window that is  *)
(* none to publish or rows that do not agree on their timestamps.           *)
THEOREM ObservationIsPublished == RefreshSpec => []QuotaIsPublished
<1>1. SnapshotInv /\ ThreadsInv => QuotaIsPublished
  <2>1. SUFFICES ASSUME SnapshotInv, ThreadsInv, step = "rejected",
                        ~UnusableMainWindow, ~SplitTimestamps
                 PROVE  FALSE
    BY DEF QuotaIsPublished
  <2>2. Selection
    BY <2>1 DEF ThreadsInv
  <2>3. Validate(snapshot)
    BY <2>1, <2>2, SnapshotIsValid
  <2> QED
    BY <2>1, <2>3 DEF SnapshotInv
<1> QED
  BY <1>1, SnapshotInvariant, RefreshReadsThreads, ThreadsInvariant, PTL

(* The state of a refresh is of its types: the parts of the snapshot are    *)
(* within their limits, and no thread of it is but of the inventory.        *)
THEOREM RefreshTypes == RefreshSpec => []RefreshTypeOK
<1>1. VersionTypeOK /\ ThreadsInv /\ SnapshotInv => RefreshTypeOK
  <2>1. SUFFICES ASSUME VersionTypeOK, ThreadsInv, SnapshotInv PROVE RefreshTypeOK
    OBVIOUS
  <2>2. ThreadsTypeOK
    BY <2>1, ThreadsTyped
  <2>3. /\ load \in DOMAIN Loads /\ step \in Steps /\ snapshot.state \in States
        /\ QuotaPart /\ RecentPart /\ RuntimePart
        /\ answered.limits \in LimitsAnswer /\ answered.threads \in Seq(ThreadRow)
    BY <2>1 DEF SnapshotInv, Snapshots
  <2>4. Len(snapshot.limits) <= MaxBuckets
    BY <2>3, LimitsAreValid
  <2>5. Len(snapshot.recent) <= MaxRecentThreads
    <3>1. CASE snapshot.recent = <<>>
      <4>1. Len(<<>>) = 0 /\ MaxRecentThreads \in Nat
        BY ObservationAssumption
      <4> QED
        BY <3>1, <4>1
    <3>2. CASE snapshot.recent = SanitizeRecentThreads(answered.threads)
      BY <2>3, <3>2, RecentAre
    <3> QED
      BY <2>3, <3>1, <3>2 DEF RecentPart
  <2> QED
    BY <2>1, <2>2, <2>3, <2>4, <2>5 DEF RefreshTypeOK, RuntimePart, Steps, States
<1> QED
  BY <1>1, SnapshotInvariant, RefreshDetects, VersionTypes, RefreshReadsThreads, ThreadsInvariant,
     PTL

(* No row of the inventory is of a thread that was unloaded before the      *)
(* attempt whose result it is, however the server answers and whatever it   *)
(* loads and unloads meanwhile.                                             *)
THEOREM OnlyTheLoadedAppear == RefreshSpec => []OnlyLoadedAppear
<1>1. ThreadsInv => OnlyLoadedAppear
  BY DEF ThreadsInv, Noted
<1> QED
  BY <1>1, RefreshReadsThreads, ThreadsInvariant, PTL

(* A usable thread that stays as it is has a row for its session, unless    *)
(* the rows wanted or the reads allowed are used up, for an active one by   *)
(* active ones only: for any number of threads and any limits.              *)
THEOREM TheSteadyAppear == RefreshSpec => []SteadyThreadsAppear
<1>1. ThreadsInv => SteadyThreadsAppear
  BY DEF ThreadsInv, Covered
<1> QED
  BY <1>1, RefreshReadsThreads, ThreadsInvariant, PTL

(* What detect returns within a refresh is of one process, and no older     *)
(* than any Codex that stays as it is.                                      *)
THEOREM RefreshFindsTheVersion ==
  RefreshSpec => [](VersionOfOneProcess /\ NewestSteadyIsFound)
  BY RefreshDetects, NoMixture, NewestIsFound, PTL
=============================================================================
