----------------------------- MODULE LiveVersion -----------------------------
(***************************************************************************)
(* liveCodexVersionDetector.detect: the version of the newest Codex of the *)
(* collector's user, found by reading /proc one file at a time while        *)
(* processes fork, exec, change user or control group, exit, and leave      *)
(* their identifiers to others.                                             *)
(*                                                                          *)
(* The target of an exe link is abstracted to what the detector makes of    *)
(* it: a version if the target is on the allowlist and is an immutable file *)
(* of the store, Dashboard, or another program.  The four user identifiers  *)
(* of a process are one.                                                    *)
(***************************************************************************)
EXTENDS Integers, FiniteSets, Sequences

CONSTANTS
  Pids,
  Collector,        \* the pid of the collector
  Reaper,           \* the pid that inherits orphans
  Versions,         \* the versions of allowed targets
  Dashboard,        \* the dashboard's own executable
  OtherProgram,
  CollectorUser, OtherUser,
  CollectorCgroup,  \* control groups are paths, as sequences of names,
  OtherCgroups,     \* or Unparsed
  Unparsed,
  Tables,           \* the processes there are when a detection starts
  DirectoryLimit,   \* maxProcDirectoryEntries
  MaxClock,         \* bound: the clock of start times
  MaxChanges        \* bound: changes of processes during a detection

Programs == Versions \cup {Dashboard, OtherProgram}
Users == {CollectorUser, OtherUser}
Cgroups == {CollectorCgroup, Unparsed} \cup OtherCgroups

Process == [alive : BOOLEAN, start : 0..MaxClock, exe : Programs, uid : Users,
            cgroup : Cgroups, parent : Pids]

ASSUME VersionAssumption ==
  /\ Pids \subseteq Nat \ {0} /\ Collector \in Pids /\ Reaper \in Pids \ {Collector}
  /\ MaxClock \in Nat \ {0} /\ MaxChanges \in Nat /\ DirectoryLimit \in Nat
  /\ Dashboard \notin Versions /\ OtherProgram \notin Versions
  /\ CollectorUser # OtherUser
  /\ Tables \subseteq [Pids -> Process]
  /\ \A table \in Tables : \A p \in Pids : table[p].start <= 1

VARIABLES
  left,        \* changes of processes that are still to come
  clock,       \* time in the resolution of start times
  proc,        \* the process table; an entry that is not alive was the last one
  processes,   \* the pids listed and not yet looked at
  at,          \* the next read of detect
  pid,         \* the pid it is looking at
  seen,        \* what it has read of that pid
  candidates,
  chosen,      \* candidates[0], of which the version is returned
  been,        \* what was true of whom since the listing: <<pid, start, fact>>
  steady       \* candidates-to-be whose files have not changed since

envVars == <<left, clock, proc, been, steady>>
detectVars == <<processes, at, pid, seen, candidates, chosen>>
versionVars == <<envVars, detectVars>>

NoVersion == [version |-> "", start |-> -1, pid |-> 0]
Unread == [version |-> "", cgroup |-> Unparsed, uid |-> OtherUser, parent |-> 0, start |-> -1]

VersionInit ==
  /\ proc \in Tables
  /\ left \in 0..MaxChanges
  /\ clock = 1
  /\ processes = {} /\ at = "idle" /\ pid = Collector /\ seen = Unread
  /\ candidates = {} /\ chosen = NoVersion
  /\ been = {} /\ steady = {}

-----------------------------------------------------------------------------
(* Processes *)

Alive(p) == proc[p].alive

(* cgroupIsSameOrDescendant, with the root group as the empty path *)
InCollectorCgroup(c) ==
  \/ c = Unparsed
  \/ /\ Len(c) >= Len(CollectorCgroup)
     /\ SubSeq(c, 1, Len(CollectorCgroup)) = CollectorCgroup

Facts(p, x) ==
  {<<p, x.start, x.exe>>}
  \cup (IF x.uid = CollectorUser /\ x.parent # Collector THEN {<<p, x.start, "own">>} ELSE {})
  \cup (IF InCollectorCgroup(x.cgroup) THEN {} ELSE {<<p, x.start, "outside">>})

FactsOf(table) == UNION {Facts(p, table[p]) : p \in {q \in Pids : table[q].alive}}

(* A Codex of the user, started neither by this collector nor by another    *)
(* dashboard.                                                               *)
Eligible(table, p) ==
  /\ p # Collector
  /\ table[p].alive /\ table[p].exe \in Versions /\ table[p].uid = CollectorUser
  /\ ~InCollectorCgroup(table[p].cgroup)
  /\ table[p].parent # Collector
  /\ ~(table[table[p].parent].alive /\ table[table[p].parent].exe = Dashboard)

(* Changes before or after the detection are other tables to start from.   *)
Becomes(table) ==
  /\ at \notin {"idle", "done"}
  /\ left > 0 /\ left' = left - 1
  /\ proc' = table
  /\ been' = been \cup FactsOf(table)
  /\ steady' = {p \in steady : table[p] = proc[p] /\ Eligible(table, p)}
  /\ UNCHANGED <<clock, detectVars>>

(* The kernel gives a pid out again only after it has been round them all.  *)
Fork(parent, p) ==
  /\ Alive(parent) /\ ~Alive(p)
  /\ proc[p].start < clock
  /\ Becomes([proc EXCEPT ![p] = [proc[parent] EXCEPT !.start = clock, !.parent = parent]])

Others == Pids \ {Collector, Reaper}

Exit(p) ==
  /\ p \in Others /\ Alive(p)
  /\ Becomes([q \in Pids |->
       IF q = p THEN [proc[p] EXCEPT !.alive = FALSE]
       ELSE IF proc[q].parent = p THEN [proc[q] EXCEPT !.parent = Reaper] ELSE proc[q]])

Exec(p, x) ==
  /\ p \in Others /\ Alive(p) /\ proc[p].exe # x
  /\ Becomes([proc EXCEPT ![p].exe = x])

SetUser(p, u) ==
  /\ p \in Others /\ Alive(p) /\ proc[p].uid # u
  /\ Becomes([proc EXCEPT ![p].uid = u])

MoveToCgroup(p, c) ==
  /\ p \in Others /\ Alive(p) /\ proc[p].cgroup # c
  /\ Becomes([proc EXCEPT ![p].cgroup = c])

ClockTicks ==
  /\ at \notin {"idle", "done"} /\ left > 0
  /\ clock < MaxClock
  /\ clock' = clock + 1
  /\ UNCHANGED <<left, proc, been, steady, detectVars>>

ProcessStep ==
  \E p \in Pids :
    \/ \E q \in Pids : Fork(q, p)
    \/ Exit(p)
    \/ \E x \in Programs : Exec(p, x)
    \/ \E u \in Users : SetUser(p, u)
    \/ \E c \in Cgroups : MoveToCgroup(p, c)

-----------------------------------------------------------------------------
(* detect *)

(* Mutant: only the lowest pids are looked at, as on busy hosts before the  *)
(* limit became one of the directory.                                       *)
NumericEntriesCapped(entries) ==
  {p \in entries : Cardinality({q \in entries : q < p}) < DirectoryLimit - 1}

NumericEntries(entries) == entries

List ==
  /\ at = "idle"
  /\ LET entries == {p \in Pids : Alive(p)}
         fits == Cardinality(entries) <= DirectoryLimit
     IN  /\ processes' = IF fits THEN NumericEntries(entries) ELSE {}
         /\ steady' = IF fits THEN {p \in Pids : Eligible(proc, p)} ELSE {}
  /\ at' = "next"
  /\ been' = FactsOf(proc)
  /\ UNCHANGED <<left, clock, proc, pid, seen, candidates, chosen>>

NextProcess ==
  /\ at = "next" /\ processes # {}
  /\ pid' \in processes /\ \A p \in processes : pid' <= p
  /\ processes' = processes \ {pid'}
  /\ seen' = Unread
  /\ at' = IF pid' = Collector THEN "next" ELSE "exe"
  /\ UNCHANGED <<envVars, candidates, chosen>>

(* A read of a file of pid: it goes on with the given step or, if the       *)
(* process is gone or is not wanted, with the next one.                     *)
Read(here, wanted, there, found) ==
  /\ at = here
  /\ IF Alive(pid) /\ wanted
     THEN at' = there /\ seen' = found
     ELSE at' = "next" /\ UNCHANGED seen
  /\ UNCHANGED <<envVars, processes, pid, candidates, chosen>>

Confirm(here, same, there) == Read(here, same, there, seen)

ReadExe ==
  Read("exe", proc[pid].exe \in Versions, "cgroup", [seen EXCEPT !.version = proc[pid].exe])

ReadCgroup ==
  Read("cgroup", ~InCollectorCgroup(proc[pid].cgroup), "status",
       [seen EXCEPT !.cgroup = proc[pid].cgroup])

ReadStatus ==
  Read("status", proc[pid].uid = CollectorUser /\ proc[pid].parent # Collector, "parent",
       [seen EXCEPT !.uid = proc[pid].uid, !.parent = proc[pid].parent])

(* An exe link of the parent that cannot be read is no reason to skip.      *)
ReadParent ==
  /\ at = "parent"
  /\ at' = IF Alive(seen.parent) /\ proc[seen.parent].exe = Dashboard THEN "next" ELSE "start"
  /\ UNCHANGED <<envVars, processes, pid, seen, candidates, chosen>>

ReadStart == Read("start", TRUE, "exe again", [seen EXCEPT !.start = proc[pid].start])

(* Mutant: the version is taken from the first read alone.                  *)
ConfirmAnyExe == Confirm("exe again", TRUE, "cgroup again")

ConfirmExe == Confirm("exe again", proc[pid].exe = seen.version, "cgroup again")

ConfirmCgroup == Confirm("cgroup again", proc[pid].cgroup = seen.cgroup, "status again")

ConfirmStatus ==
  Confirm("status again", proc[pid].uid = seen.uid /\ proc[pid].parent = seen.parent,
          "start again")

SameStart(p) == Alive(p) /\ proc[p].start = seen.start

ConfirmStart ==
  /\ at = "start again"
  /\ candidates' =
       IF SameStart(pid)
       THEN candidates \cup {[version |-> seen.version, start |-> seen.start, pid |-> pid]}
       ELSE candidates
  /\ at' = "next"
  /\ UNCHANGED <<envVars, processes, pid, seen, chosen>>

Newer(c, d) == c.start > d.start \/ (c.start = d.start /\ c.pid > d.pid)

Choose ==
  /\ at = "next" /\ processes = {}
  /\ IF candidates = {} THEN chosen' = NoVersion
     ELSE chosen' \in candidates /\ \A c \in candidates : ~Newer(c, chosen')
  /\ at' = "done"
  /\ UNCHANGED <<envVars, processes, pid, seen, candidates>>

(* The context has ended. *)
GiveUp ==
  /\ at = "next" /\ processes # {}
  /\ at' = "done"
  /\ processes' = {} /\ candidates' = {} /\ steady' = {}
  /\ UNCHANGED <<left, clock, proc, been, pid, seen, chosen>>

Detect ==
  \/ List \/ NextProcess \/ Choose \/ GiveUp
  \/ ReadExe \/ ReadCgroup \/ ReadStatus \/ ReadParent \/ ReadStart
  \/ ConfirmExe \/ ConfirmCgroup \/ ConfirmStatus \/ ConfirmStart

VersionNext == ProcessStep \/ ClockTicks \/ Detect

VersionSpec == VersionInit /\ [][VersionNext]_versionVars

-----------------------------------------------------------------------------
(* Properties *)

Candidates == [version : Versions, start : 0..MaxClock, pid : Pids]
Readings == [version : Versions \cup {""}, cgroup : Cgroups, uid : Users,
             parent : Pids \cup {0}, start : -1..MaxClock]

VersionTypeOK ==
  /\ left \in 0..MaxChanges /\ clock \in 1..MaxClock
  /\ proc \in [Pids -> Process]
  /\ processes \subseteq Pids /\ pid \in Pids
  /\ at \in {"idle", "next", "exe", "cgroup", "status", "parent", "start", "exe again",
             "cgroup again", "status again", "start again", "done"}
  /\ seen \in Readings
  /\ candidates \subseteq Candidates
  /\ chosen \in Candidates \cup {NoVersion}
  /\ steady \subseteq Pids

(* The version that is returned, and the start time it is chosen for, are   *)
(* of one process, which ran it as the collector's user, outside of the     *)
(* collector's control group and not as its child: no mixture of processes  *)
(* that had the pid one after the other ("an exec or PID-reuse race").      *)
IsOfOneProcess(c) ==
  {<<c.pid, c.start, c.version>>, <<c.pid, c.start, "own">>, <<c.pid, c.start, "outside">>}
    \subseteq been

VersionOfOneProcess == chosen # NoVersion => IsOfOneProcess(chosen)

(* A Codex that stays as it is while detect runs is found, whatever other   *)
(* processes do, and what is returned is not older than it.                 *)
NewestSteadyIsFound ==
  at = "done" =>
    \A p \in steady :
      /\ chosen # NoVersion
      /\ ~Newer([start |-> proc[p].start, pid |-> p], chosen)
=============================================================================
