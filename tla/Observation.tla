----------------------------- MODULE Observation -----------------------------
(***************************************************************************)
(* From the answers of an App Server to the snapshot of a collector: what   *)
(* snapshotForAccount and the sanitizers make of them, and what             *)
(* Snapshot.Validate accepts.  Text that the sanitizers reject or cut is    *)
(* abstracted to whether it is usable; used percentages, credits and names  *)
(* are left out, since the same clamps and limits apply to them on both     *)
(* sides.                                                                   *)
(***************************************************************************)
EXTENDS Integers, Sequences, FiniteSets, SequencesExt

CONSTANTS
  ObservedAt,       \* the time of the snapshot
  WeekLength,       \* 10,080 minutes
  MaxStamp,         \* the last timestamp that is accepted
  MaxRecentThreads,
  MaxBuckets        \* rate-limit buckets of a snapshot

ASSUME ObservationAssumption ==
  /\ {ObservedAt, WeekLength, MaxStamp} \subseteq Nat \ {0}
  /\ {MaxRecentThreads, MaxBuckets} \subseteq Nat \ {0}

None == "none"
NoWindow == [weekly |-> FALSE, resetsAt |-> 0]

(* What a server may answer with: a timestamp is any integer, 0 one that is *)
(* left out, and an identifier of a bucket a name, which is a number, with  *)
(* the suffixes appended to it.                                             *)
Window == [weekly : BOOLEAN, resetsAt : Int]
LimitsAnswer == [primary : Window, secondary : Window, buckets : Seq(Seq(Nat))]
ThreadRow == [session : Nat, usable : BOOLEAN, created : Int, updated : Int]

-----------------------------------------------------------------------------
(* snapshotForAccount *)

Accounts == {"none", "chatgpt", "no email", "no plan", "apiKey", "other"}

StateOf(account) ==
  CASE account = "none" -> "signed_out"
    [] account = "chatgpt" -> "ok"
    [] account = "apiKey" -> "api_key"
    [] OTHER -> "unavailable"

ErrorOf(account) ==
  CASE account = "no plan" -> "protocol"
    [] account \in {"no email", "other"} -> "auth_unavailable"
    [] OTHER -> None

EmptySnapshot(account) ==
  [state |-> StateOf(account), error |-> ErrorOf(account), main |-> NoWindow, limits |-> <<>>,
   recent |-> <<>>, recentRead |-> FALSE, runtime |-> {}, runtimeRead |-> FALSE,
   tokensRead |-> FALSE]

-----------------------------------------------------------------------------
(* Quota *)

ValidStamp(v) == v > 0 /\ v <= MaxStamp

(* A timestamp that is not valid is dropped.                                *)
SanitizeWindow(w) == [w EXCEPT !.resetsAt = IF ValidStamp(@) THEN @ ELSE 0]

(* Of the top-level windows, never of the buckets. *)
SanitizeMainUsage(answer) ==
  IF answer.primary.weekly THEN SanitizeWindow(answer.primary)
  ELSE IF answer.secondary.weekly THEN SanitizeWindow(answer.secondary)
  ELSE NoWindow

(* Mutant: a second bucket of one name gets the suffix 2. *)
UniqueLimitIDOnce(base, seen) == IF base \notin seen THEN base ELSE Append(base, 2)

(* The first free suffix.                                                   *)
UniqueLimitID(base, seen) ==
  IF base \notin seen THEN base
  ELSE LET free == {n \in 2..(Cardinality(seen) + 2) : Append(base, n) \notin seen}
       IN  Append(base, CHOOSE n \in free : \A m \in free : n <= m)

(* The buckets are in the order of their keys. *)
SanitizeLimits(buckets) ==
  FoldLeft(LAMBDA limits, id : Append(limits, UniqueLimitID(id, Range(limits))),
           <<>>, SubSeq(buckets, 1, IF Len(buckets) < MaxBuckets THEN Len(buckets) ELSE MaxBuckets))

-----------------------------------------------------------------------------
(* Recent threads *)

Ordered(row) == row.created = 0 \/ row.updated = 0 \/ row.updated >= row.created

ValidInteractiveThread(row) ==
  row.usable /\ row.created \in 0..MaxStamp /\ row.updated \in 0..MaxStamp /\ Ordered(row)

EarliestNonzero(x, y) ==
  IF x = 0 THEN y ELSE IF y = 0 \/ x < y THEN x ELSE y

LatestNonzero(x, y) == IF y > x THEN y ELSE x

(* Mutant: the rows of a session keep the later creation. *)
MergeLatest(row, other) ==
  [row EXCEPT !.created = LatestNonzero(@, other.created), !.updated = EarliestNonzero(@, other.updated)]

Merge(row, other) ==
  [row EXCEPT !.created = EarliestNonzero(@, other.created),
              !.updated = LatestNonzero(@, other.updated)]

AddRow(rows, row) ==
  IF ~ValidInteractiveThread(row) THEN rows
  ELSE IF \E i \in 1..Len(rows) : rows[i].session = row.session
  THEN [i \in 1..Len(rows) |-> IF rows[i].session = row.session THEN Merge(rows[i], row) ELSE rows[i]]
  ELSE Append(rows, row)

SanitizeRecentThreads(rows) ==
  LET merged == FoldLeft(AddRow, <<>>, rows)
  IN  SubSeq(merged, 1, IF Len(merged) < MaxRecentThreads THEN Len(merged) ELSE MaxRecentThreads)

-----------------------------------------------------------------------------
(* Snapshot.Validate *)

OnlyWhenOK(s) ==
  /\ s.main = NoWindow /\ s.limits = <<>> /\ ~s.tokensRead
  /\ s.recent = <<>> /\ ~s.recentRead
  /\ s.runtime = {} /\ ~s.runtimeRead

ValidMainUsage(w) ==
  w # NoWindow => w.weekly /\ w.resetsAt > ObservedAt /\ w.resetsAt > WeekLength

Validate(s) ==
  /\ s.state # "ok" => OnlyWhenOK(s)
  /\ (s.state = "unavailable") <=> (s.error # None)
  /\ ValidMainUsage(s.main)
  /\ Len(s.limits) <= MaxBuckets /\ Cardinality(Range(s.limits)) = Len(s.limits)
  /\ Len(s.recent) <= MaxRecentThreads
  /\ s.recent # <<>> => s.recentRead
  /\ \A i \in 1..Len(s.recent) : ValidInteractiveThread(s.recent[i])
  /\ Cardinality({s.recent[i].session : i \in 1..Len(s.recent)}) = Len(s.recent)
  /\ s.runtime # {} => s.runtimeRead
  /\ \A c, d \in s.runtime : c.session = d.session => c = d
=============================================================================
