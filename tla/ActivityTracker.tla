-------------------------- MODULE ActivityTracker --------------------------
(***************************************************************************)
(* The in-memory tracker of hook activity: chats keyed by user and         *)
(* session, the leases of their running turns, eviction at the capacity    *)
(* limits, and the worker that expires leases nobody renews.               *)
(*                                                                         *)
(* Every event and every read runs under Tracker.mu and is one action.     *)
(***************************************************************************)
EXTENDS Integers, FiniteSets

CONSTANTS
  Users,                   \* usernames, numbered in their order
  Sessions,                \* session identifiers, numbered in their order
  Turns,                   \* turn identifiers
  MaxActiveChatsPerUser,
  MaxActiveChats,
  MaxRunningTurnsPerChat,
  ExpiresAfter,            \* the lease of a turn and of an idle chat
  MaxTime                  \* bound on the clock

ASSUME KeysAssumption == Users \subseteq Nat /\ Sessions \subseteq Nat
ASSUME LimitsAssumption ==
  /\ MaxActiveChatsPerUser \in Nat \ {0}
  /\ MaxActiveChats \in Nat \ {0}
  /\ MaxRunningTurnsPerChat \in Nat \ {0}
ASSUME TimesAssumption == ExpiresAfter \in Nat \ {0} /\ MaxTime \in Nat \ {0}

VARIABLES
  chats,    \* chats[k]: the tracked chat of key k, or NoChat
  now,      \* tracker.now()
  changed,  \* the capacity-one channel that wakes the worker is full
  worker    \* where runExpiry is, and the deadline of its timer

vars == <<chats, now, changed, worker>>

Keys == Users \X Sessions
NoChat == [running |-> FALSE]
NoTurns == [t \in Turns |-> 0]

Init ==
  /\ chats = [k \in Keys |-> NoChat]
  /\ now = 1
  /\ changed = FALSE
  /\ worker = [pc |-> "plan", deadline |-> 0]

-----------------------------------------------------------------------------
(* Leases *)

Expired(t) == now >= t + ExpiresAfter
Tracked(c) == {t \in Turns : c.turns[t] # 0}

(* Mutant: only turns tracked by identifier count. *)
HasTrackedTurns(c) == Tracked(c) # {}

HasLiveWork(c) == Tracked(c) # {} \/ c.overflow # 0
ShowRunning(c) == [c EXCEPT !.running = HasLiveWork(c)]

(* A chat without the turns and the overflow lease that have expired. *)
Renewed(c) ==
  ShowRunning([c EXCEPT
    !.turns = [t \in Turns |-> IF Expired(c.turns[t]) THEN 0 ELSE c.turns[t]],
    !.overflow = IF Expired(c.overflow) THEN 0 ELSE c.overflow])

Survives(c) == Renewed(c).running \/ ~Expired(c.updatedAt)

Pruned ==
  [k \in Keys |->
     IF chats[k] = NoChat \/ ~Survives(chats[k]) THEN NoChat ELSE Renewed(chats[k])]

(* Mutant: the overflow lease is not waited for. *)
TurnLeasesOnly(c) ==
  {t + ExpiresAfter : t \in
     IF HasLiveWork(c) THEN {c.turns[t] : t \in Tracked(c)} ELSE {c.updatedAt}}

(* The times at which a chat next changes by itself. *)
ChatLeases(c) ==
  {t + ExpiresAfter : t \in
     IF HasLiveWork(c) THEN ({c.turns[t] : t \in Turns} \cup {c.overflow}) \ {0}
     ELSE {c.updatedAt}}
Leases(cs) == UNION {ChatLeases(cs[k]) : k \in {l \in Keys : cs[l] # NoChat}}

-----------------------------------------------------------------------------
(* Capacity: idle chats go before running ones, then the least recently     *)
(* updated, the earliest started, and the lowest key.                       *)

Open(cs, u) == {k \in Keys : cs[k] # NoChat /\ k[1] = u}
OpenChats(cs) == {k \in Keys : cs[k] # NoChat}

(* Mutant: the least recently updated chat goes first, running or not. *)
OlderByUpdate(cs, k, l) ==
  LET c == cs[k]  d == cs[l]
  IN  IF c.updatedAt # d.updatedAt THEN c.updatedAt < d.updatedAt
      ELSE IF c.startedAt # d.startedAt THEN c.startedAt < d.startedAt
      ELSE IF k[1] # l[1] THEN k[1] < l[1]
      ELSE k[2] < l[2]

Older(cs, k, l) ==
  LET c == cs[k]  d == cs[l]
  IN  IF c.running # d.running THEN ~c.running
      ELSE IF c.updatedAt # d.updatedAt THEN c.updatedAt < d.updatedAt
      ELSE IF c.startedAt # d.startedAt THEN c.startedAt < d.startedAt
      ELSE IF k[1] # l[1] THEN k[1] < l[1]
      ELSE k[2] < l[2]

(* Mutant: no room is made for the new chat. *)
EvictDownToMax(cs, pool, max) ==
  [k \in Keys |->
     IF k \in pool /\ Cardinality({l \in pool : Older(cs, k, l)}) >= max
     THEN NoChat ELSE cs[k]]

(* Evicting the oldest of pool until less than max are left. *)
EvictDownTo(cs, pool, max) ==
  [k \in Keys |->
     IF k \in pool /\ Cardinality({l \in pool : Older(cs, k, l)}) >= max - 1
     THEN NoChat ELSE cs[k]]

MakeRoom(cs, u) ==
  LET own == EvictDownTo(cs, Open(cs, u), MaxActiveChatsPerUser)
  IN  EvictDownTo(own, OpenChats(own), MaxActiveChats)

NewChat ==
  [startedAt |-> now, updatedAt |-> now, running |-> FALSE,
   turns |-> NoTurns, overflow |-> 0]

EnsureChat(cs, k) ==
  IF cs[k] # NoChat THEN cs ELSE [MakeRoom(cs, k[1]) EXCEPT ![k] = NewChat]

-----------------------------------------------------------------------------
(* Events *)

MarkTurnRunning(c, t) ==
  IF t \in Tracked(c) \/ Cardinality(Tracked(c)) < MaxRunningTurnsPerChat
  THEN [c EXCEPT !.turns[t] = now] ELSE [c EXCEPT !.overflow = now]

(* Mutant: the worker is not told. *)
NoSignal == changed' = changed

Signal == changed' = TRUE

(* Every event prunes first; all but EndSession create a missing chat. *)
SessionStart(k) ==
  /\ chats' = [EnsureChat(Pruned, k) EXCEPT ![k].updatedAt = now]
  /\ Signal
  /\ UNCHANGED <<now, worker>>

StartOrRefresh(k, t) ==
  LET cs == EnsureChat(Pruned, k)
      c  == MarkTurnRunning(cs[k], t)
  IN  /\ chats' = [cs EXCEPT ![k] = [c EXCEPT !.updatedAt = now, !.running = TRUE]]
      /\ Signal
      /\ UNCHANGED <<now, worker>>

EndTurn(k, t) ==
  LET cs == EnsureChat(Pruned, k)
      c  == [cs[k] EXCEPT !.turns[t] = 0, !.updatedAt = now]
  IN  /\ chats' = [cs EXCEPT ![k] = ShowRunning(c)]
      /\ Signal
      /\ UNCHANGED <<now, worker>>

EndSession(k) ==
  /\ chats' = [Pruned EXCEPT ![k] = NoChat]
  /\ Signal
  /\ UNCHANGED <<now, worker>>

(* Snapshot, ForUsername and Lookup prune, and do not wake the worker. *)
Read ==
  /\ chats' = Pruned
  /\ UNCHANGED <<now, changed, worker>>

-----------------------------------------------------------------------------
(* runExpiry *)

Earliest(S) == CHOOSE t \in S : \A s \in S : t <= s

Plan ==
  /\ worker.pc = "plan"
  /\ worker' = IF Leases(chats) = {} THEN [pc |-> "asleep", deadline |-> 0]
               ELSE [pc |-> "armed", deadline |-> Earliest(Leases(chats))]
  /\ UNCHANGED <<chats, now, changed>>

Wake ==
  /\ worker.pc \in {"asleep", "armed"}
  /\ changed
  /\ changed' = FALSE
  /\ worker' = [pc |-> "plan", deadline |-> 0]
  /\ UNCHANGED <<chats, now>>

TimerFires ==
  /\ worker.pc = "armed"
  /\ now >= worker.deadline
  /\ chats' = Pruned
  /\ worker' = [pc |-> "plan", deadline |-> 0]
  /\ UNCHANGED <<now, changed>>

Tick ==
  /\ now < MaxTime
  /\ now' = now + 1
  /\ UNCHANGED <<chats, changed, worker>>

Worker == Plan \/ Wake \/ TimerFires

Next ==
  \/ \E k \in Keys :
       \/ SessionStart(k) \/ EndSession(k)
       \/ \E t \in Turns : StartOrRefresh(k, t) \/ EndTurn(k, t)
  \/ Read
  \/ Plan \/ Wake \/ TimerFires
  \/ Tick

Spec == Init /\ [][Next]_vars

(* The worker is a goroutine that runs as long as the server; events, reads *)
(* and the clock owe it nothing.                                            *)
FairSpec == Spec /\ WF_vars(Worker)

-----------------------------------------------------------------------------
(* Properties *)

Chat ==
  [startedAt : 1..now, updatedAt : 1..now, running : BOOLEAN,
   turns : [Turns -> 0..now], overflow : 0..now]

(* However events arrive, memory stays within the three limits. *)
CapacityBounded ==
  /\ \A u \in Users : Cardinality(Open(chats, u)) <= MaxActiveChatsPerUser
  /\ Cardinality(OpenChats(chats)) <= MaxActiveChats
  /\ \A k \in OpenChats(chats) :
       Cardinality(Tracked(chats[k])) <= MaxRunningTurnsPerChat

(* Every variable has the type of its Go counterpart and memory its bounds; *)
(* no time is in the future, so that no lease outlives ExpiresAfter unless  *)
(* it is renewed.                                                           *)
TypeOK ==
  /\ CapacityBounded
  /\ chats \in [Keys -> Chat \cup {NoChat}]
  /\ now \in Nat \ {0}
  /\ changed \in BOOLEAN
  /\ worker \in [pc : {"plan", "asleep", "armed"}, deadline : Nat]

(* The worker never sleeps past a lease: whatever events and reads happened *)
(* since it planned, its timer fires no later than the earliest lease, or a *)
(* wake-up is waiting for it.                                               *)
NoLostWakeup ==
  \/ changed
  \/ worker.pc = "plan"
  \/ worker.pc = "asleep" /\ Leases(chats) = {}
  \/ worker.pc = "armed" /\ \A t \in Leases(chats) : worker.deadline <= t

(* Capacity pressure removes a running chat only if every chat it could     *)
(* have removed instead, of the user or of all users, is running too.       *)
EvictionSparesRunning ==
  [][LET before  == Pruned
         entered == {k \in Keys : before[k] = NoChat /\ chats'[k] # NoChat}
         evicted == {k \in Keys : before[k] # NoChat /\ chats'[k] = NoChat}
     IN  \A new \in entered, k \in evicted :
           before[k].running =>
             \/ /\ k[1] = new[1]
                /\ \A l \in Open(chats', k[1]) \ {new} : chats'[l].running
             \/ \A l \in OpenChats(chats') \ {new} : chats'[l].running]_vars

(* Expired leases are collected without any event or read. *)
ExpiryHappens == (chats # Pruned) ~> (chats = Pruned)
=============================================================================
