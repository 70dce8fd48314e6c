---------------------------- MODULE LoadedThreads ----------------------------
(***************************************************************************)
(* codex.Client.LoadedThreads: the inventory of the threads an App Server   *)
(* has loaded.  The client lists their identifiers page by page, reads them *)
(* one by one, starts once more if a read is answered with an error, and    *)
(* selects rows.  Meanwhile the server loads, unloads and runs threads.     *)
(*                                                                          *)
(* The server is external: a polite one pages through the identifiers in    *)
(* their order, another one sends any page.  What makes a thread unusable   *)
(* (a parent, a source that is not interactive, a malformed session) is one *)
(* attribute.                                                               *)
(***************************************************************************)
EXTENDS Integers, FiniteSets, Sequences

CONSTANTS
  Threads,       \* identifiers, which are also the server's cursors
  Sessions,
  SessionOf,     \* SessionOf[t]
  Unusable,      \* threads that are no interactive chats of their own
  MaxReads,      \* maxLoadedThreadMetadataReads
  PageSize,      \* maxLoadedThreadPageSize
  Limit,         \* rows wanted
  MaxMoves       \* bound: changes of threads during an inventory

ASSUME ThreadsAssumption ==
  /\ Threads \subseteq Nat \ {0} /\ IsFiniteSet(Threads) /\ Sessions \subseteq Nat
  /\ SessionOf \in [Threads -> Sessions] /\ Unusable \subseteq Threads
  /\ {MaxReads, PageSize, Limit} \subseteq Nat \ {0} /\ MaxMoves \in Nat

VARIABLES
  polite,     \* the server pages in order
  moves,      \* changes of threads that are still to come
  status,     \* status[t]: "unloaded", "active", "idle" or "error"
  updated,    \* updated[t]: updatedAt
  attempt, phase,
  ids,        \* what was listed, in this order
  cursor, seenCursors,
  got,        \* the usable rows read
  read,       \* how many of ids were read
  inventory,  \* the rows selected
  wasLoaded,  \* threads that were loaded at some time since the first page
  stayed      \* threads that have not changed since the first page

serverThreads == <<polite, moves, status, updated, wasLoaded, stayed>>
clientThreads == <<attempt, phase, ids, cursor, seenCursors, got, read, inventory>>
threadVars == <<serverThreads, clientThreads>>

NoCursor == 0
Loaded == {t \in Threads : status[t] # "unloaded"}

Attempt(n) ==
  /\ attempt' = n /\ phase' = "list"
  /\ ids' = <<>> /\ cursor' = NoCursor /\ seenCursors' = {}
  /\ read' = 0
  /\ wasLoaded' = Loaded /\ stayed' = Threads

ThreadsInit ==
  /\ polite \in BOOLEAN /\ moves \in 0..MaxMoves
  /\ status \in [Threads -> {"unloaded", "active", "idle", "error"}]
  /\ updated \in [Threads -> 0..2]
  /\ attempt = 0 /\ phase = "idle"
  /\ ids = <<>> /\ cursor = NoCursor /\ seenCursors = {}
  /\ got = {} /\ read = 0 /\ inventory = {}
  /\ wasLoaded = {} /\ stayed = {}

-----------------------------------------------------------------------------
(* The server *)

(* A thread that starts to run has been updated last. *)
Move(t, s) ==
  /\ phase \in {"list", "read"}
  /\ moves > 0 /\ moves' = moves - 1
  /\ status[t] # s
  /\ status' = [status EXCEPT ![t] = s]
  /\ updated' = IF s = "active" THEN [updated EXCEPT ![t] = 3] ELSE updated
  /\ wasLoaded' = IF s = "unloaded" THEN wasLoaded ELSE wasLoaded \cup {t}
  /\ stayed' = stayed \ {t}
  /\ UNCHANGED <<polite, clientThreads>>

Asked == IF MaxReads - Len(ids) < PageSize THEN MaxReads - Len(ids) ELSE PageSize

InOrder(S) == [i \in 1..Cardinality(S) |-> CHOOSE t \in S : Cardinality({u \in S : u < t}) = i - 1]

PoliteAnswer ==
  LET ahead == InOrder({t \in Loaded : t > cursor})
      count == IF Len(ahead) < Asked THEN Len(ahead) ELSE Asked
  IN  [data |-> SubSeq(ahead, 1, count),
       next |-> IF count < Len(ahead) THEN ahead[count] ELSE NoCursor]

Pages == UNION {[1..n -> Threads] : n \in 0..2}
Answers ==
  IF polite THEN {PoliteAnswer} ELSE [data : Pages, next : Threads \cup {NoCursor}]

-----------------------------------------------------------------------------
(* The client *)

LoadedThreads ==
  /\ phase = "idle"
  /\ Attempt(1)
  /\ UNCHANGED <<polite, moves, status, updated, got, inventory>>

(* Mutant: an identifier that is listed twice is read twice. *)
Repeated(s) == s

Distinct(s) ==
  LET first == {i \in 1..Len(s) : \A j \in 1..(i - 1) : s[j] # s[i]}
  IN  [k \in 1..Cardinality(first) |->
         s[CHOOSE i \in first : Cardinality({j \in first : j < i}) = k - 1]]

FirstReads(s) == SubSeq(s, 1, IF Len(s) < MaxReads THEN Len(s) ELSE MaxReads)

Fails == phase' = "failed"

(* Mutant: the rows of the first attempt are kept. *)
KeepRows == UNCHANGED got

NoRows == got' = {}

(* loadedThreadIDs: one page, and what follows from its cursor. *)
ListPage(answer) ==
  /\ ids' = FirstReads(Distinct(ids \o answer.data))
  /\ IF Len(ids') = MaxReads \/ answer.next = NoCursor
     THEN phase' = "read" /\ NoRows /\ UNCHANGED <<cursor, seenCursors>>
     ELSE IF answer.next \in seenCursors \/ answer.data = <<>>
     THEN Fails /\ UNCHANGED <<cursor, seenCursors, got>>
     ELSE /\ cursor' = answer.next
          /\ seenCursors' = seenCursors \cup {answer.next}
          /\ UNCHANGED <<phase, got>>
  /\ UNCHANGED <<serverThreads, attempt, read, inventory>>

Row(t) ==
  [id |-> t, session |-> SessionOf[t], active |-> status[t] = "active", updated |-> updated[t]]

Usable(t) == t \notin Unusable /\ status[t] \in {"active", "idle"}

(* An unloaded thread is answered with an error, or as one that is not      *)
(* loaded.                                                                  *)
ReadThread ==
  /\ phase = "read" /\ read < Len(ids)
  /\ got' = IF Usable(ids[read + 1]) THEN got \cup {Row(ids[read + 1])} ELSE got
  /\ read' = read + 1
  /\ UNCHANGED <<serverThreads, attempt, phase, ids, cursor, seenCursors, inventory>>

(* Mutant: an error ends the inventory with what has been read. *)
PartialInventory ==
  /\ phase' = "selected"
  /\ inventory' = got
  /\ UNCHANGED <<polite, moves, status, updated, wasLoaded, stayed,
                 attempt, ids, cursor, seenCursors, got, read>>

(* The complete inventory is read once more. *)
Retry ==
  /\ IF attempt = 1
     THEN Attempt(2)
     ELSE Fails /\ UNCHANGED <<attempt, ids, cursor, seenCursors, read, wasLoaded, stayed>>
  /\ UNCHANGED <<polite, moves, status, updated, got, inventory>>

ReadRefused ==
  /\ phase = "read" /\ read < Len(ids)
  /\ Retry

(* A timeout, a lost connection or a malformed answer. *)
CallFails ==
  /\ phase \in {"list", "read"}
  /\ Fails
  /\ UNCHANGED <<serverThreads, attempt, ids, cursor, seenCursors, got, read, inventory>>

(* Mutant: idle chats that were updated later come first. *)
PreferredByUpdate(c, d) ==
  \/ c.updated > d.updated
  \/ c.updated = d.updated /\ c.id < d.id

(* loadedThreadPreferred; createdAt, session and identifier, which break    *)
(* the remaining ties, are one order.                                       *)
Preferred(c, d) ==
  \/ c.active /\ ~d.active
  \/ /\ c.active = d.active
     /\ \/ c.updated > d.updated
        \/ c.updated = d.updated /\ c.id < d.id

OnePerSession(rows) ==
  {c \in rows : \A d \in rows : d.session = c.session => ~Preferred(d, c)}

(* selectLoadedThreads *)
SelectLoaded(rows) ==
  LET best == OnePerSession(rows)
  IN  {c \in best : Cardinality({d \in best : Preferred(d, c)}) < Limit}

Select ==
  /\ phase = "read" /\ read = Len(ids)
  /\ inventory' = SelectLoaded(got)
  /\ phase' = "selected"
  /\ UNCHANGED <<serverThreads, attempt, ids, cursor, seenCursors, got, read>>

ReadInventory ==
  \/ phase = "list" /\ \E answer \in Answers : ListPage(answer)
  \/ ReadThread \/ ReadRefused \/ CallFails \/ Select

ThreadsMove ==
  \E t \in Threads : \E s \in {"unloaded", "active", "idle", "error"} : Move(t, s)

ThreadsNext == LoadedThreads \/ ReadInventory \/ ThreadsMove

ThreadsSpec == ThreadsInit /\ [][ThreadsNext]_threadVars

-----------------------------------------------------------------------------
(* Properties *)

Rows == [id : Threads, session : Sessions, active : BOOLEAN, updated : 0..3]

ThreadsTypeOK ==
  /\ polite \in BOOLEAN /\ moves \in 0..MaxMoves
  /\ status \in [Threads -> {"unloaded", "active", "idle", "error"}]
  /\ updated \in [Threads -> 0..3]
  /\ attempt \in 0..2
  /\ phase \in {"idle", "list", "read", "selected", "failed"}
  /\ Len(ids) <= MaxReads /\ \A i \in 1..Len(ids) : ids[i] \in Threads
  /\ Cardinality({ids[i] : i \in 1..Len(ids)}) = Len(ids)
  /\ cursor \in Threads \cup {NoCursor} /\ seenCursors \subseteq Threads
  /\ got \subseteq Rows /\ read \in 0..Len(ids)
  /\ inventory \subseteq Rows /\ Cardinality(inventory) <= Limit
  /\ \A c, d \in inventory : c.session = d.session => c = d

(* "Those rows cannot hide an interactive active session": a usable thread  *)
(* that stays as it is has a row for its session, an active one if it is    *)
(* active, unless the rows wanted, or the reads allowed, are used up.  For  *)
(* an active thread only other active ones use them up.                     *)
WasListed(t) == \E i \in 1..Len(ids) : ids[i] = t

SteadyThreadsAppear ==
  phase = "selected" /\ polite =>
    \A t \in stayed :
      Usable(t) /\ (WasListed(t) \/ Len(ids) < MaxReads) =>
        \/ \E c \in inventory :
             c.session = SessionOf[t] /\ (status[t] = "active" => c.active)
        \/ /\ Cardinality(inventory) = Limit
           /\ status[t] = "active" => \A c \in inventory : c.active

(* No row is of a thread that was unloaded before the attempt began whose   *)
(* result it is, from whatever page or attempt it comes.                    *)
OnlyLoadedAppear == \A c \in inventory : c.id \in wasLoaded
=============================================================================
