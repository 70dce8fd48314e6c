-------------------------- MODULE TurnLeasesProofs --------------------------
(***************************************************************************)
(* The activity tracker for any users, sessions, turns, limits and times:  *)
(* its types and the bounds on its memory, whom eviction spares, that the  *)
(* expiry worker is never late, and that live turns show as running.       *)
(***************************************************************************)
EXTENDS TurnLeases, FiniteSetTheorems, TLAPS

-----------------------------------------------------------------------------
(* Numbers and sets *)

(* A set of naturals has a least element. *)
LEMMA LeastNatural ==
  ASSUME NEW S \in SUBSET Nat, S # {}
  PROVE  \E t \in S : \A s \in S : t <= s
<1> DEFINE T == {0..n : n \in S}
<1>1. T \subseteq FiniteSubsetsOf(Nat) /\ T # {}
  <2>1. ASSUME NEW n \in S PROVE 0..n \in FiniteSubsetsOf(Nat)
    <3>1. n \in Int /\ 0 \in Int /\ 0..n \in SUBSET Nat
      OBVIOUS
    <3>2. IsFiniteSet(0..n)
      BY <3>1, FS_Interval
    <3> QED
      BY <3>1, <3>2 DEF FiniteSubsetsOf
  <2> QED
    BY <2>1
<1>2. PICK x \in T : \A y \in T : ~(<<y, x>> \in StrictSubsetOrdering(Nat))
  <2> HIDE DEF T
  <2> QED
    BY <1>1, FS_StrictSubsetOrderingWellFounded, WFMin
<1>3. PICK t \in S : x = 0..t
  OBVIOUS
<1>4. ASSUME NEW s \in S, s < t PROVE FALSE
  <2>1. 0..s \in T /\ 0..s \subseteq 0..t /\ 0..s # 0..t /\ 0..t \subseteq Nat
    BY <1>4
  <2>2. <<0..s, 0..t>> \in StrictSubsetOrdering(Nat)
    BY <2>1 DEF StrictSubsetOrdering
  <2> QED
    BY <1>2, <1>3, <2>1, <2>2
<1> QED
  BY <1>4

(* The elements of S above x in the order R, a set of pairs. *)
Above(S, R, x) == {y \in S : <<x, y>> \in R}

(* In a finite set with a total order, no more than m elements have fewer   *)
(* than m elements above them.                                              *)
LEMMA FewHaveFewAbove ==
  ASSUME NEW S, IsFiniteSet(S), NEW R, NEW m \in Nat, NEW Top \in SUBSET S,
         \A x \in Top : Cardinality(Above(S, R, x)) < m,
         \A x \in S : <<x, x>> \notin R,
         \A x, y, z \in S : <<x, y>> \in R /\ <<y, z>> \in R => <<x, z>> \in R,
         \A x, y \in S : x = y \/ <<x, y>> \in R \/ <<y, x>> \in R
  PROVE  IsFiniteSet(Top) /\ Cardinality(Top) <= m
<1> DEFINE f == [x \in Top |-> Cardinality(Above(S, R, x))]
<1>1. ASSUME NEW x \in S PROVE IsFiniteSet(Above(S, R, x)) /\ Cardinality(Above(S, R, x)) \in Nat
  BY FS_Subset, FS_CardinalityType DEF Above
<1>2. ASSUME NEW x \in S, NEW y \in S, <<x, y>> \in R
      PROVE  Cardinality(Above(S, R, y)) < Cardinality(Above(S, R, x))
  <2>1. Above(S, R, y) \in SUBSET Above(S, R, x) /\ y \in Above(S, R, x) /\ y \notin Above(S, R, y)
    BY <1>2 DEF Above
  <2>2. /\ Cardinality(Above(S, R, y)) <= Cardinality(Above(S, R, x))
        /\ Cardinality(Above(S, R, y)) # Cardinality(Above(S, R, x))
    BY <1>1, <2>1, FS_Subset
  <2> QED
    BY <1>1, <2>2
<1>3. f \in [Top -> 0..(m - 1)]
  BY <1>1
<1>4. ASSUME NEW x \in Top, NEW y \in Top, f[x] = f[y] PROVE x = y
  <2>1. x \in S /\ y \in S /\ Cardinality(Above(S, R, x)) = Cardinality(Above(S, R, y))
    BY <1>4
  <2>2. ~(Cardinality(Above(S, R, x)) < Cardinality(Above(S, R, y)))
        /\ ~(Cardinality(Above(S, R, y)) < Cardinality(Above(S, R, x)))
    BY <1>1, <2>1
  <2>3. <<x, y>> \notin R /\ <<y, x>> \notin R
    BY <1>2, <2>1, <2>2
  <2> QED
    BY <2>1, <2>3
<1>5. f \in Injection(Top, 0..(m - 1))
  BY <1>3, <1>4 DEF Injection, IsInjective
<1>6. IsFiniteSet(0..(m - 1)) /\ Cardinality(0..(m - 1)) = m
  BY FS_Interval
<1>7. IsFiniteSet(Top) /\ Cardinality(Top) <= Cardinality(0..(m - 1))
  BY <1>5, <1>6, FS_Injection
<1> QED
  BY <1>6, <1>7

-----------------------------------------------------------------------------
(* Chats *)

(* A tracker's map of chats: its types, and its bounds. *)
Typed(cs) == cs \in [Keys -> Chat \cup {NoChat}]

TurnsBounded(c) ==
  IsFiniteSet(Tracked(c)) /\ Cardinality(Tracked(c)) <= MaxRunningTurnsPerChat

Bounded(cs) ==
  /\ IsFiniteSet(OpenChats(cs)) /\ Cardinality(OpenChats(cs)) <= MaxActiveChats
  /\ \A u \in Users : Cardinality(Open(cs, u)) <= MaxActiveChatsPerUser
  /\ \A k \in OpenChats(cs) : TurnsBounded(cs[k])

(* Every chat of ds is one of cs, with no other turns.  *)
Shrinks(cs, ds) ==
  \A k \in Keys : ds[k] # NoChat => cs[k] # NoChat /\ Tracked(ds[k]) \subseteq Tracked(cs[k])

Clock == now \in Nat \ {0}

LEMMA ChatIsNotNoChat ==
  ASSUME NEW c \in Chat
  PROVE  c # NoChat
<1>1. "turns" \in DOMAIN c /\ "turns" \notin DOMAIN NoChat
  BY DEF Chat, NoChat
<1> QED
  BY <1>1

LEMMA ShrinkKeepsBounds ==
  ASSUME NEW cs, NEW ds, Bounded(cs), Shrinks(cs, ds)
  PROVE  Bounded(ds)
<1>1. OpenChats(ds) \in SUBSET OpenChats(cs)
  BY DEF Shrinks, OpenChats
<1>2. IsFiniteSet(OpenChats(cs)) /\ Cardinality(OpenChats(cs)) \in Nat
  BY FS_CardinalityType DEF Bounded
<1>3. /\ IsFiniteSet(OpenChats(ds))
      /\ Cardinality(OpenChats(ds)) <= MaxActiveChats
  <2>1. IsFiniteSet(OpenChats(ds)) /\ Cardinality(OpenChats(ds)) <= Cardinality(OpenChats(cs))
    BY <1>1, <1>2, FS_Subset
  <2>2. Cardinality(OpenChats(ds)) \in Nat
    BY <2>1, FS_CardinalityType
  <2> QED
    BY <1>2, <2>1, <2>2, LimitsAssumption DEF Bounded
<1>4. ASSUME NEW u \in Users
      PROVE  Cardinality(Open(ds, u)) <= MaxActiveChatsPerUser
  <2>1. Open(ds, u) \in SUBSET Open(cs, u) /\ Open(cs, u) \in SUBSET OpenChats(cs)
    BY <1>1 DEF Open, OpenChats
  <2>2. IsFiniteSet(Open(cs, u)) /\ IsFiniteSet(Open(ds, u))
    BY <1>2, <2>1, FS_Subset
  <2>3. Cardinality(Open(ds, u)) <= Cardinality(Open(cs, u))
    BY <2>1, <2>2, FS_Subset
  <2>4. Cardinality(Open(ds, u)) \in Nat /\ Cardinality(Open(cs, u)) \in Nat
    BY <2>2, FS_CardinalityType
  <2> QED
    BY <2>3, <2>4, LimitsAssumption DEF Bounded
<1>5. ASSUME NEW k \in OpenChats(ds) PROVE TurnsBounded(ds[k])
  <2>1. k \in OpenChats(cs) /\ Tracked(ds[k]) \in SUBSET Tracked(cs[k])
    BY <1>1 DEF Shrinks, OpenChats
  <2>2. IsFiniteSet(Tracked(cs[k])) /\ Cardinality(Tracked(cs[k])) <= MaxRunningTurnsPerChat
    BY <2>1 DEF Bounded, TurnsBounded
  <2>3. IsFiniteSet(Tracked(ds[k])) /\ Cardinality(Tracked(ds[k])) <= Cardinality(Tracked(cs[k]))
    BY <2>1, <2>2, FS_Subset
  <2>4. Cardinality(Tracked(ds[k])) \in Nat /\ Cardinality(Tracked(cs[k])) \in Nat
    BY <2>2, <2>3, FS_CardinalityType
  <2> QED
    BY <2>2, <2>3, <2>4, LimitsAssumption DEF TurnsBounded
<1> QED
  BY <1>3, <1>4, <1>5 DEF Bounded

(* Pruning *)

LEMMA RenewedTypes ==
  ASSUME Clock, NEW c \in Chat
  PROVE  /\ Renewed(c) \in Chat
         /\ Tracked(Renewed(c)) \subseteq Tracked(c)
         /\ Renewed(c).running = HasLiveWork(Renewed(c))
         /\ Renewed(c).turns = [t \in Turns |-> IF Expired(c.turns[t]) THEN 0 ELSE c.turns[t]]
         /\ Renewed(c).overflow = IF Expired(c.overflow) THEN 0 ELSE c.overflow
         /\ Renewed(c).updatedAt = c.updatedAt
<1> DEFINE d == [c EXCEPT
             !.turns = [t \in Turns |-> IF Expired(c.turns[t]) THEN 0 ELSE c.turns[t]],
             !.overflow = IF Expired(c.overflow) THEN 0 ELSE c.overflow]
<1>1. d \in Chat
  <2>1. ASSUME NEW f \in [Turns -> 0..now], NEW o \in 0..now
        PROVE  [c EXCEPT !.turns = f, !.overflow = o] \in Chat
    BY DEF Chat
  <2>2. c.turns \in [Turns -> 0..now] /\ c.overflow \in 0..now /\ 0 \in 0..now
    BY DEF Chat, Clock
  <2>3. [t \in Turns |-> IF Expired(c.turns[t]) THEN 0 ELSE c.turns[t]] \in [Turns -> 0..now]
    BY <2>2
  <2>4. (IF Expired(c.overflow) THEN 0 ELSE c.overflow) \in 0..now
    BY <2>2
  <2> QED
    BY <2>1, <2>3, <2>4
<1>2. Renewed(c) = [d EXCEPT !.running = HasLiveWork(d)]
  BY DEF Renewed, ShowRunning
<1>3. HasLiveWork(d) \in BOOLEAN
  BY DEF HasLiveWork
<1>4. d.turns = [t \in Turns |-> IF Expired(c.turns[t]) THEN 0 ELSE c.turns[t]]
      /\ d.overflow = (IF Expired(c.overflow) THEN 0 ELSE c.overflow)
      /\ d.updatedAt = c.updatedAt
  BY DEF Chat
<1> HIDE DEF d
<1>5. Renewed(c).turns = d.turns /\ Renewed(c).overflow = d.overflow
      /\ Renewed(c).updatedAt = d.updatedAt /\ Renewed(c).running = HasLiveWork(d)
  BY <1>1, <1>2 DEF Chat
<1>6. Tracked(Renewed(c)) = Tracked(d) /\ HasLiveWork(Renewed(c)) = HasLiveWork(d)
  BY <1>5 DEF Tracked, HasLiveWork
<1>7. Tracked(d) \subseteq Tracked(c)
  BY <1>4 DEF Tracked
<1>8. Renewed(c) \in Chat
  <2>1. ASSUME NEW b \in BOOLEAN PROVE [d EXCEPT !.running = b] \in Chat
    BY <1>1 DEF Chat
  <2> QED
    BY <1>2, <1>3, <2>1
<1> QED
  BY <1>4, <1>5, <1>6, <1>7, <1>8

LEMMA PrunedTypes ==
  ASSUME Clock, Typed(chats)
  PROVE  Typed(Pruned) /\ Shrinks(chats, Pruned)
<1>1. ASSUME NEW k \in Keys, chats[k] # NoChat PROVE chats[k] \in Chat
  BY <1>1 DEF Typed
<1>2. ASSUME NEW k \in Keys
      PROVE  /\ Pruned[k] \in Chat \cup {NoChat}
             /\ Pruned[k] # NoChat =>
                  chats[k] # NoChat /\ Tracked(Pruned[k]) \subseteq Tracked(chats[k])
  BY <1>1, RenewedTypes DEF Pruned
<1>3. Pruned = [k \in Keys |-> Pruned[k]]
  BY DEF Pruned
<1> QED
  BY <1>2, <1>3 DEF Typed, Shrinks

-----------------------------------------------------------------------------
(* Eviction *)

(* What the chats of a pool are ordered by. *)
Seniority(cs, pool) == {p \in pool \X pool : Older(cs, p[1], p[2])}

LEMMA OlderIsAnOrder ==
  ASSUME Clock, NEW cs, Typed(cs), NEW pool \in SUBSET OpenChats(cs)
  PROVE  /\ \A k \in pool : ~Older(cs, k, k)
         /\ \A k, l, m \in pool : Older(cs, k, l) /\ Older(cs, l, m) => Older(cs, k, m)
         /\ \A k, l \in pool : k = l \/ Older(cs, k, l) \/ Older(cs, l, k)
<1>1. ASSUME NEW k \in pool
      PROVE  /\ cs[k].updatedAt \in Int /\ cs[k].startedAt \in Int
             /\ cs[k].running \in BOOLEAN
             /\ k[1] \in Int /\ k[2] \in Int /\ k = <<k[1], k[2]>>
  <2>1. k \in Keys /\ cs[k] \in Chat
    BY DEF OpenChats, Typed
  <2>2. cs[k].updatedAt \in Int /\ cs[k].startedAt \in Int
    BY <2>1 DEF Chat, Clock
  <2>3. cs[k].running \in BOOLEAN
    BY <2>1 DEF Chat
  <2>4. PICK u \in Users, t \in Sessions : k = <<u, t>>
    BY <2>1 DEF Keys
  <2>5. k[1] \in Int /\ k[2] \in Int /\ k = <<k[1], k[2]>>
    BY <2>4, KeysAssumption
  <2> QED
    BY <2>2, <2>3, <2>4, <2>5
<1>2. ASSUME NEW k \in pool PROVE ~Older(cs, k, k)
  BY <1>1 DEF Older
<1>3. ASSUME NEW k \in pool, NEW l \in pool, NEW m \in pool,
             Older(cs, k, l), Older(cs, l, m)
      PROVE  Older(cs, k, m)
  BY <1>1, <1>3 DEF Older
<1>4. ASSUME NEW k \in pool, NEW l \in pool
      PROVE  k = l \/ Older(cs, k, l) \/ Older(cs, l, k)
  <2>1. k[1] # l[1] \/ k[2] # l[2] \/ k = l
    BY <1>1
  <2> QED
    BY <1>1, <2>1 DEF Older
<1> QED
  BY <1>2, <1>3, <1>4

(* Eviction leaves fewer than max of the pool, and the survivors are those  *)
(* with the fewest younger ones.                                            *)
LEMMA EvictionLeaves ==
  ASSUME Clock, NEW cs, Typed(cs), NEW pool \in SUBSET OpenChats(cs), IsFiniteSet(pool),
         NEW max \in Nat \ {0}
  PROVE  LET ds == EvictDownTo(cs, pool, max)
         IN  /\ Typed(ds) /\ Shrinks(cs, ds)
             /\ \A k \in Keys : ds[k] # NoChat => ds[k] = cs[k]
             /\ \A k \in Keys \ pool : ds[k] = cs[k]
             /\ IsFiniteSet(pool \cap OpenChats(ds))
             /\ Cardinality(pool \cap OpenChats(ds)) < max
<1> DEFINE ds == EvictDownTo(cs, pool, max)
           R == Seniority(cs, pool)
           Younger(k) == {l \in pool : Older(cs, k, l)}
           Top == {x \in pool : Cardinality(Younger(x)) < max - 1}
<1>1. /\ \A k \in Keys : ds[k] # NoChat => ds[k] = cs[k]
      /\ \A k \in Keys \ pool : ds[k] = cs[k]
      /\ Typed(ds) /\ Shrinks(cs, ds)
  BY DEF EvictDownTo, Typed, Shrinks
<1>2. ASSUME NEW x \in pool, NEW y \in pool PROVE <<x, y>> \in R <=> Older(cs, x, y)
  BY DEF Seniority
<1>3. IsFiniteSet(Top) /\ Cardinality(Top) <= max - 1
  <2>1. /\ \A x \in pool : <<x, x>> \notin R
        /\ \A x, y, z \in pool : <<x, y>> \in R /\ <<y, z>> \in R => <<x, z>> \in R
        /\ \A x, y \in pool : x = y \/ <<x, y>> \in R \/ <<y, x>> \in R
    <3> HIDE DEF R
    <3> QED
      BY <1>2, OlderIsAnOrder
  <2>2. \A x \in pool : Above(pool, R, x) = Younger(x)
    BY <1>2 DEF Above
  <2>3. max - 1 \in Nat /\ Top \in SUBSET pool
    OBVIOUS
  <2>4. \A x \in Top : Cardinality(Above(pool, R, x)) < max - 1
    BY <2>2
  <2> HIDE DEF R, Top
  <2> QED
    BY <2>1, <2>3, <2>4, FewHaveFewAbove
<1>4. ASSUME NEW x \in pool PROVE Cardinality(Younger(x)) \in Nat
  <2>1. Younger(x) \in SUBSET pool
    OBVIOUS
  <2> QED
    BY <2>1, FS_Subset, FS_CardinalityType
<1>5. pool \cap OpenChats(ds) \subseteq Top
  <2> SUFFICES ASSUME NEW k \in pool, ds[k] # NoChat, k \in Keys PROVE k \in Top
    BY DEF OpenChats
  <2>1. ~(Cardinality(Younger(k)) >= max - 1)
    BY DEF EvictDownTo
  <2>2. Cardinality(Younger(k)) \in Nat
    BY <1>4
  <2>3. Cardinality(Younger(k)) < max - 1
    <3> HIDE DEF Younger
    <3> QED
      BY <2>1, <2>2
  <2> QED
    BY <2>3
<1>6. /\ IsFiniteSet(pool \cap OpenChats(ds))
      /\ Cardinality(pool \cap OpenChats(ds)) <= Cardinality(Top)
  BY <1>3, <1>5, FS_Subset
<1>7. Cardinality(pool \cap OpenChats(ds)) \in Nat /\ Cardinality(Top) \in Nat
  BY <1>3, <1>6, FS_CardinalityType
<1> HIDE DEF ds, Top
<1>8. Cardinality(pool \cap OpenChats(ds)) < max
  BY <1>3, <1>6, <1>7
<1> QED
  BY <1>1, <1>6, <1>8 DEF ds

(* A chat that survives eviction runs if one that did not was running.      *)
LEMMA EvictionSpares ==
  ASSUME Clock, NEW cs, Typed(cs), NEW pool \in SUBSET OpenChats(cs), IsFiniteSet(pool),
         NEW max \in Nat \ {0}, NEW k \in pool, NEW l \in pool,
         EvictDownTo(cs, pool, max)[k] = NoChat, EvictDownTo(cs, pool, max)[l] # NoChat,
         cs[k].running
  PROVE  cs[l].running
<1> DEFINE Younger(m) == {n \in pool : Older(cs, m, n)}
<1>1. k \in Keys /\ l \in Keys /\ cs[k] # NoChat
  BY DEF OpenChats
<1>2. /\ Cardinality(Younger(k)) >= max - 1
      /\ ~(Cardinality(Younger(l)) >= max - 1)
  BY <1>1 DEF EvictDownTo
<1> SUFFICES ASSUME ~cs[l].running PROVE FALSE
  OBVIOUS
<1>3. Older(cs, l, k)
  BY DEF Older
<1>4. Younger(k) \in SUBSET Younger(l)
  BY <1>3, OlderIsAnOrder
<1>5. IsFiniteSet(Younger(l))
  BY FS_Subset
<1>6. /\ Cardinality(Younger(k)) <= Cardinality(Younger(l))
      /\ Cardinality(Younger(k)) \in Nat /\ Cardinality(Younger(l)) \in Nat
  BY <1>4, <1>5, FS_Subset, FS_CardinalityType
<1> HIDE DEF Younger
<1> QED
  BY <1>2, <1>6

(* Room is made for one more chat of user u. *)
LEMMA MakeRoomLeaves ==
  ASSUME Clock, NEW cs, Typed(cs), Bounded(cs), NEW u \in Users
  PROVE  LET ds == MakeRoom(cs, u)
         IN  /\ Typed(ds) /\ Bounded(ds) /\ Shrinks(cs, ds)
             /\ \A k \in Keys : ds[k] # NoChat => ds[k] = cs[k]
             /\ Cardinality(Open(ds, u)) < MaxActiveChatsPerUser
             /\ Cardinality(OpenChats(ds)) < MaxActiveChats
<1> DEFINE own == EvictDownTo(cs, Open(cs, u), MaxActiveChatsPerUser)
           ds == EvictDownTo(own, OpenChats(own), MaxActiveChats)
<1>1. ds = MakeRoom(cs, u)
  BY DEF MakeRoom
<1>2. Open(cs, u) \in SUBSET OpenChats(cs) /\ IsFiniteSet(Open(cs, u))
  <2>1. Open(cs, u) \in SUBSET OpenChats(cs)
    BY DEF Open, OpenChats
  <2> QED
    BY <2>1, FS_Subset DEF Bounded
<1>3. /\ Typed(own) /\ Shrinks(cs, own)
      /\ \A k \in Keys : own[k] # NoChat => own[k] = cs[k]
      /\ IsFiniteSet(Open(cs, u) \cap OpenChats(own))
      /\ Cardinality(Open(cs, u) \cap OpenChats(own)) < MaxActiveChatsPerUser
  BY <1>2, EvictionLeaves, LimitsAssumption
<1>4. Bounded(own)
  <2> HIDE DEF own
  <2> QED
    BY <1>3, ShrinkKeepsBounds
<1>5. /\ Typed(ds) /\ Shrinks(own, ds)
      /\ \A k \in Keys : ds[k] # NoChat => ds[k] = own[k]
      /\ Cardinality(OpenChats(own) \cap OpenChats(ds)) < MaxActiveChats
  <2>1. IsFiniteSet(OpenChats(own))
    BY <1>4 DEF Bounded
  <2> HIDE DEF own
  <2> QED
    BY <1>3, <2>1, EvictionLeaves, LimitsAssumption
<1> HIDE DEF own, ds
<1>6. Bounded(ds)
  BY <1>4, <1>5, ShrinkKeepsBounds
<1>7. Cardinality(OpenChats(ds)) < MaxActiveChats
  <2>1. OpenChats(own) \cap OpenChats(ds) = OpenChats(ds)
    BY <1>5 DEF Shrinks, OpenChats
  <2> QED
    BY <1>5, <2>1
<1>8. Cardinality(Open(ds, u)) < MaxActiveChatsPerUser
  <2>1. Open(ds, u) \in SUBSET (Open(cs, u) \cap OpenChats(own))
    BY <1>3, <1>5 DEF Shrinks, Open, OpenChats
  <2>2. /\ IsFiniteSet(Open(ds, u))
        /\ Cardinality(Open(ds, u)) <= Cardinality(Open(cs, u) \cap OpenChats(own))
    BY <1>3, <2>1, FS_Subset
  <2>3. /\ Cardinality(Open(ds, u)) \in Nat
        /\ Cardinality(Open(cs, u) \cap OpenChats(own)) \in Nat
    BY <1>3, <2>2, FS_CardinalityType
  <2> QED
    BY <1>3, <2>2, <2>3, LimitsAssumption
<1>9. Shrinks(cs, ds) /\ \A k \in Keys : ds[k] # NoChat => ds[k] = cs[k]
  BY <1>3, <1>5 DEF Shrinks
<1> QED
  BY <1>1, <1>5, <1>6, <1>7, <1>8, <1>9

LEMMA NewChatTypes ==
  ASSUME Clock
  PROVE  NewChat \in Chat /\ TurnsBounded(NewChat)
<1>1. NoTurns \in [Turns -> 0..now] /\ now \in 1..now
  BY DEF NoTurns, Clock
<1>2. NewChat \in Chat
  <2>1. 0 \in 0..now
    BY DEF Clock
  <2> QED
    BY <1>1, <2>1 DEF NewChat, Chat
<1>3. Tracked(NewChat) = {}
  BY DEF Tracked, NewChat, NoTurns
<1>4. TurnsBounded(NewChat)
  BY <1>3, FS_EmptySet, LimitsAssumption DEF TurnsBounded
<1> QED
  BY <1>2, <1>4

(* Storing a chat where there is one changes nothing but that chat. *)
LEMMA StoreKeepsBounds ==
  ASSUME Clock, NEW cs, Typed(cs), Bounded(cs), NEW k \in Keys, cs[k] # NoChat,
         NEW c \in Chat, TurnsBounded(c)
  PROVE  Typed([cs EXCEPT ![k] = c]) /\ Bounded([cs EXCEPT ![k] = c])
<1> DEFINE ds == [cs EXCEPT ![k] = c]
<1>1. Typed(ds) /\ \A l \in Keys : ds[l] = IF l = k THEN c ELSE cs[l]
  BY DEF Typed
<1>2. c # NoChat
  BY ChatIsNotNoChat
<1> HIDE DEF ds
<1>3. OpenChats(ds) = OpenChats(cs) /\ \A u \in Users : Open(ds, u) = Open(cs, u)
  BY <1>1, <1>2 DEF OpenChats, Open
<1>4. \A l \in OpenChats(ds) : TurnsBounded(ds[l])
  BY <1>1, <1>3 DEF Bounded, OpenChats
<1>5. Bounded(ds)
  BY <1>3, <1>4 DEF Bounded
<1> QED
  BY <1>1, <1>5 DEF ds

(* The chat of key k exists afterwards, the others are kept or evicted.     *)
LEMMA EnsureChatTypes ==
  ASSUME Clock, NEW cs, Typed(cs), Bounded(cs), NEW k \in Keys
  PROVE  LET ds == EnsureChat(cs, k)
         IN  /\ Typed(ds) /\ Bounded(ds)
             /\ ds[k] = IF cs[k] # NoChat THEN cs[k] ELSE NewChat
             /\ ds[k] \in Chat /\ ds[k] # NoChat
             /\ \A l \in Keys \ {k} : ds[l] # NoChat => ds[l] = cs[l]
<1> DEFINE room == MakeRoom(cs, k[1])
           ds == [room EXCEPT ![k] = NewChat]
<1>1. CASE cs[k] # NoChat
  BY <1>1 DEF EnsureChat, Typed
<1>2. CASE cs[k] = NoChat
  <2>1. k[1] \in Users
    BY DEF Keys
  <2>2. /\ Typed(room) /\ Bounded(room)
        /\ \A l \in Keys : room[l] # NoChat => room[l] = cs[l]
        /\ Cardinality(Open(room, k[1])) < MaxActiveChatsPerUser
        /\ Cardinality(OpenChats(room)) < MaxActiveChats
    BY <2>1, MakeRoomLeaves
  <2>3. NewChat \in Chat /\ TurnsBounded(NewChat) /\ NewChat # NoChat
    BY NewChatTypes, ChatIsNotNoChat
  <2> HIDE DEF room
  <2>4. Typed(ds) /\ \A l \in Keys : ds[l] = IF l = k THEN NewChat ELSE room[l]
    BY <2>2, <2>3 DEF Typed
  <2> HIDE DEF ds
  <2>5. room[k] = NoChat
    BY <1>2, <2>2
  <2>6. OpenChats(ds) = OpenChats(room) \cup {k}
        /\ \A u \in Users : Open(ds, u) = IF u = k[1] THEN Open(room, u) \cup {k}
                                          ELSE Open(room, u)
    BY <2>3, <2>4 DEF OpenChats, Open
  <2>7. /\ IsFiniteSet(OpenChats(ds)) /\ Cardinality(OpenChats(ds)) <= MaxActiveChats
    <3>1. IsFiniteSet(OpenChats(room)) /\ Cardinality(OpenChats(room)) \in Nat
      BY <2>2, FS_CardinalityType DEF Bounded
    <3>2. /\ IsFiniteSet(OpenChats(room) \cup {k})
          /\ Cardinality(OpenChats(room) \cup {k})
               \in {Cardinality(OpenChats(room)), Cardinality(OpenChats(room)) + 1}
      BY <3>1, FS_AddElement
    <3> QED
      BY <2>2, <2>6, <3>1, <3>2, LimitsAssumption
  <2>8. ASSUME NEW u \in Users PROVE Cardinality(Open(ds, u)) <= MaxActiveChatsPerUser
    <3>1. CASE u = k[1]
      <4>1. Open(room, u) \in SUBSET OpenChats(room)
        BY DEF Open, OpenChats
      <4>2. IsFiniteSet(Open(room, u))
        BY <2>2, <4>1, FS_Subset DEF Bounded
      <4>3. /\ Cardinality(Open(room, u)) \in Nat
            /\ Cardinality(Open(room, u) \cup {k})
                 \in {Cardinality(Open(room, u)), Cardinality(Open(room, u)) + 1}
        BY <4>2, FS_CardinalityType, FS_AddElement
      <4> QED
        BY <2>2, <2>6, <3>1, <4>3, LimitsAssumption
    <3>2. CASE u # k[1]
      BY <2>2, <2>6, <3>2 DEF Bounded
    <3> QED
      BY <3>1, <3>2
  <2>9. ASSUME NEW l \in OpenChats(ds) PROVE TurnsBounded(ds[l])
    BY <2>2, <2>3, <2>4 DEF Bounded, OpenChats
  <2>10. Bounded(ds)
    BY <2>7, <2>8, <2>9 DEF Bounded
  <2>11. EnsureChat(cs, k) = ds
    BY <1>2 DEF EnsureChat, ds, room
  <2> QED
    BY <1>2, <2>2, <2>3, <2>4, <2>10, <2>11
<1> QED
  BY <1>1, <1>2

-----------------------------------------------------------------------------
(* The operations on one chat *)

LEMMA MarkTypes ==
  ASSUME Clock, NEW c \in Chat, TurnsBounded(c), NEW t \in Turns
  PROVE  /\ MarkTurnRunning(c, t) \in Chat /\ TurnsBounded(MarkTurnRunning(c, t))
         /\ HasLiveWork(MarkTurnRunning(c, t))
<1>1. now \in 0..now /\ now # 0
  BY DEF Clock
<1>2. CASE t \in Tracked(c) \/ Cardinality(Tracked(c)) < MaxRunningTurnsPerChat
  <2> DEFINE d == [c EXCEPT !.turns[t] = now]
  <2>1. MarkTurnRunning(c, t) = d
    BY <1>2 DEF MarkTurnRunning
  <2>2. d \in Chat
    BY <1>1 DEF Chat
  <2>3. Tracked(d) = Tracked(c) \cup {t}
    BY <1>1 DEF Tracked, Chat
  <2>4. /\ IsFiniteSet(Tracked(c)) /\ Cardinality(Tracked(c)) \in Nat
        /\ IsFiniteSet(Tracked(c) \cup {t})
        /\ Cardinality(Tracked(c) \cup {t}) =
             IF t \in Tracked(c) THEN Cardinality(Tracked(c)) ELSE Cardinality(Tracked(c)) + 1
    BY FS_CardinalityType, FS_AddElement DEF TurnsBounded
  <2>5. Cardinality(Tracked(c) \cup {t}) <= MaxRunningTurnsPerChat
    BY <1>2, <2>4, LimitsAssumption DEF TurnsBounded
  <2> QED
    BY <2>1, <2>2, <2>3, <2>4, <2>5 DEF TurnsBounded, HasLiveWork
<1>3. CASE ~(t \in Tracked(c) \/ Cardinality(Tracked(c)) < MaxRunningTurnsPerChat)
  <2> DEFINE d == [c EXCEPT !.overflow = now]
  <2>1. MarkTurnRunning(c, t) = d
    BY <1>3 DEF MarkTurnRunning
  <2>2. d \in Chat /\ d.turns = c.turns /\ d.overflow = now
    BY <1>1 DEF Chat
  <2>3. Tracked(d) = Tracked(c) /\ HasLiveWork(d)
    BY <1>1, <2>2 DEF Tracked, HasLiveWork
  <2> QED
    BY <2>1, <2>2, <2>3 DEF TurnsBounded
<1> QED
  BY <1>2, <1>3

(* The time and the running flag of a chat have no effect on its bounds. *)
LEMMA TouchTypes ==
  ASSUME Clock, NEW c \in Chat, TurnsBounded(c), NEW r \in BOOLEAN
  PROVE  /\ [c EXCEPT !.updatedAt = now] \in Chat
         /\ TurnsBounded([c EXCEPT !.updatedAt = now])
         /\ [c EXCEPT !.updatedAt = now, !.running = r] \in Chat
         /\ TurnsBounded([c EXCEPT !.updatedAt = now, !.running = r])
         /\ [c EXCEPT !.running = r] \in Chat
         /\ TurnsBounded([c EXCEPT !.running = r])
<1>1. now \in 1..now
  BY DEF Clock
<1>2. ASSUME NEW d \in {[c EXCEPT !.updatedAt = now], [c EXCEPT !.running = r],
                        [c EXCEPT !.updatedAt = now, !.running = r]}
      PROVE  d \in Chat /\ Tracked(d) = Tracked(c)
  BY <1>1 DEF Chat, Tracked
<1> QED
  BY <1>2 DEF TurnsBounded

LEMMA EndTurnTypes ==
  ASSUME Clock, NEW c \in Chat, TurnsBounded(c), NEW t \in Turns
  PROVE  LET d == [c EXCEPT !.turns[t] = 0, !.updatedAt = now]
         IN  ShowRunning(d) \in Chat /\ TurnsBounded(ShowRunning(d))
<1> DEFINE d == [c EXCEPT !.turns[t] = 0, !.updatedAt = now]
<1>1. d \in Chat /\ Tracked(d) \in SUBSET Tracked(c)
  <2>1. ASSUME NEW f \in [Turns -> 0..now], NEW i \in 1..now
        PROVE  [c EXCEPT !.turns = f, !.updatedAt = i] \in Chat
    BY DEF Chat
  <2>2. [c.turns EXCEPT ![t] = 0] \in [Turns -> 0..now] /\ now \in 1..now
    BY DEF Chat, Clock
  <2>3. d = [c EXCEPT !.turns = [c.turns EXCEPT ![t] = 0], !.updatedAt = now]
    BY DEF Chat
  <2>4. d \in Chat
    BY <2>1, <2>2, <2>3
  <2>5. Tracked(d) \in SUBSET Tracked(c)
    BY DEF Chat, Tracked
  <2> QED
    BY <2>4, <2>5
<1>2. TurnsBounded(d)
  <2>1. /\ IsFiniteSet(Tracked(d)) /\ Cardinality(Tracked(d)) <= Cardinality(Tracked(c))
        /\ Cardinality(Tracked(d)) \in Nat /\ Cardinality(Tracked(c)) \in Nat
    <3> HIDE DEF d
    <3> QED
      BY <1>1, FS_Subset, FS_CardinalityType DEF TurnsBounded
  <2> QED
    BY <2>1, LimitsAssumption DEF TurnsBounded
<1>3. HasLiveWork(d) \in BOOLEAN
  BY DEF HasLiveWork
<1> HIDE DEF d
<1>4. ShowRunning(d) \in Chat /\ TurnsBounded(ShowRunning(d))
  BY <1>1, <1>2, <1>3, TouchTypes DEF ShowRunning
<1> QED
  BY <1>4 DEF d

-----------------------------------------------------------------------------
(* Type correctness *)

TypeInv ==
  /\ Clock /\ Typed(chats) /\ Bounded(chats)
  /\ changed \in BOOLEAN
  /\ worker \in [pc : {"plan", "asleep", "armed"}, deadline : Nat]

LEMMA TypeInit == Init => TypeInv
<1> SUFFICES ASSUME Init PROVE TypeInv
  OBVIOUS
<1>1. OpenChats(chats) = {} /\ \A u \in Users : Open(chats, u) = {}
  BY DEF Init, OpenChats, Open
<1>2. Bounded(chats)
  BY <1>1, FS_EmptySet, LimitsAssumption DEF Bounded
<1>3. Typed(chats) /\ Clock
  BY DEF Init, Typed, Clock
<1>4. worker \in [pc : {"plan", "asleep", "armed"}, deadline : Nat]
  BY DEF Init
<1> QED
  BY <1>2, <1>3, <1>4 DEF Init, TypeInv

LEMMA PrunedBounded ==
  ASSUME TypeInv
  PROVE  Typed(Pruned) /\ Bounded(Pruned)
  BY PrunedTypes, ShrinkKeepsBounds DEF TypeInv

Event(k) ==
  \/ SessionStart(k) \/ EndSession(k)
  \/ \E t \in Turns : StartOrRefresh(k, t) \/ EndTurn(k, t)

(* The operations on one chat keep types and bounds. *)
LEMMA EventTypes ==
  ASSUME TypeInv, NEW k \in Keys, Event(k)
  PROVE  Typed(chats') /\ Bounded(chats')
<1> DEFINE cs == EnsureChat(Pruned, k)
<1>1. /\ Typed(cs) /\ Bounded(cs) /\ cs[k] \in Chat /\ cs[k] # NoChat
      /\ TurnsBounded(cs[k])
  <2>1. Typed(cs) /\ Bounded(cs) /\ cs[k] \in Chat /\ cs[k] # NoChat
    BY PrunedBounded, EnsureChatTypes DEF TypeInv
  <2> QED
    BY <2>1 DEF Bounded, OpenChats
<1> HIDE DEF cs
<1>2. CASE SessionStart(k)
  <2>1. chats' = [cs EXCEPT ![k] = [cs[k] EXCEPT !.updatedAt = now]]
    BY <1>2 DEF SessionStart, cs
  <2> QED
    BY <1>1, <2>1, TouchTypes, StoreKeepsBounds DEF TypeInv
<1>3. CASE EndSession(k)
  <2>1. chats' = [Pruned EXCEPT ![k] = NoChat]
    BY <1>3 DEF EndSession
  <2>2. Typed(chats') /\ Shrinks(Pruned, chats')
    BY <2>1, PrunedBounded DEF Typed, Shrinks
  <2> QED
    BY <2>2, PrunedBounded, ShrinkKeepsBounds
<1>4. ASSUME NEW t \in Turns, StartOrRefresh(k, t)
      PROVE  Typed(chats') /\ Bounded(chats')
  <2> DEFINE c == MarkTurnRunning(cs[k], t)
  <2>1. chats' = [cs EXCEPT ![k] = [c EXCEPT !.updatedAt = now, !.running = TRUE]]
    BY <1>4 DEF StartOrRefresh, cs
  <2>2. c \in Chat /\ TurnsBounded(c)
    BY <1>1, MarkTypes DEF TypeInv
  <2> HIDE DEF c
  <2> QED
    BY <1>1, <2>1, <2>2, TouchTypes, StoreKeepsBounds DEF TypeInv
<1>5. ASSUME NEW t \in Turns, EndTurn(k, t)
      PROVE  Typed(chats') /\ Bounded(chats')
  <2> DEFINE c == [cs[k] EXCEPT !.turns[t] = 0, !.updatedAt = now]
  <2>1. chats' = [cs EXCEPT ![k] = ShowRunning(c)]
    BY <1>5 DEF EndTurn, cs
  <2>2. ShowRunning(c) \in Chat /\ TurnsBounded(ShowRunning(c))
    BY <1>1, EndTurnTypes DEF TypeInv
  <2> HIDE DEF c
  <2> QED
    BY <1>1, <2>1, <2>2, StoreKeepsBounds DEF TypeInv
<1> QED
  BY <1>2, <1>3, <1>4, <1>5 DEF Event

(* The times at which chats change by themselves are numbers. *)
LEMMA LeaseTypes ==
  ASSUME TypeInv
  PROVE  Leases(chats) \in SUBSET Nat
<1>1. ASSUME NEW c \in Chat PROVE ChatLeases(c) \in SUBSET Nat
  <2>1. \A t \in Turns : c.turns[t] \in Nat
    BY DEF Chat, TypeInv, Clock
  <2>2. c.overflow \in Nat /\ c.updatedAt \in Nat
    BY DEF Chat, TypeInv, Clock
  <2> QED
    BY <2>1, <2>2, TimesAssumption DEF ChatLeases
<1> QED
  BY <1>1 DEF Leases, TypeInv, Typed

(* The worker's deadline is the earliest of them. *)
LEMMA EarliestLease ==
  ASSUME TypeInv, Leases(chats) # {}
  PROVE  /\ Earliest(Leases(chats)) \in Nat
         /\ \A t \in Leases(chats) : Earliest(Leases(chats)) <= t
<1>1. \E t \in Leases(chats) : \A s \in Leases(chats) : t <= s
  BY LeaseTypes, LeastNatural
<1>2. /\ Earliest(Leases(chats)) \in Leases(chats)
      /\ \A t \in Leases(chats) : Earliest(Leases(chats)) <= t
  BY <1>1 DEF Earliest
<1> QED
  BY <1>2, LeaseTypes

LEMMA TypeStep == TypeInv /\ [Next]_vars => TypeInv'
<1> SUFFICES ASSUME TypeInv, [Next]_vars PROVE TypeInv'
  OBVIOUS
<1>1. ASSUME NEW k \in Keys, Event(k) PROVE TypeInv'
  <2>1. now' = now /\ worker' = worker /\ changed' = TRUE
    BY <1>1 DEF Event, SessionStart, EndSession, StartOrRefresh, EndTurn, Signal
  <2>2. Typed(chats)' /\ Bounded(chats)'
    BY <1>1, <2>1, EventTypes DEF Typed, Bounded, Chat, TurnsBounded, OpenChats, Open, Tracked
  <2> QED
    BY <2>1, <2>2 DEF TypeInv, Clock
<1>2. CASE Read \/ TimerFires
  <2>1. now' = now /\ chats' = Pruned /\ changed' = changed
    BY <1>2 DEF Read, TimerFires
  <2>2. Typed(chats)' /\ Bounded(chats)'
    BY <2>1, PrunedBounded DEF Typed, Bounded, Chat, TurnsBounded, OpenChats, Open, Tracked
  <2>3. worker' \in [pc : {"plan", "asleep", "armed"}, deadline : Nat]
    BY <1>2 DEF Read, TimerFires, TypeInv
  <2> QED
    BY <2>1, <2>2, <2>3 DEF TypeInv, Clock
<1>3. CASE Plan \/ Wake \/ UNCHANGED vars
  <2>1. now' = now /\ chats' = chats
    BY <1>3 DEF Plan, Wake, vars
  <2>2. worker' \in [pc : {"plan", "asleep", "armed"}, deadline : Nat]
    BY <1>3, EarliestLease DEF Plan, Wake, vars, TypeInv
  <2>3. changed' \in BOOLEAN
    BY <1>3 DEF Plan, Wake, vars, TypeInv
  <2>4. Typed(chats)' /\ Bounded(chats)'
    BY <2>1 DEF TypeInv, Typed, Bounded, Chat, TurnsBounded, OpenChats, Open, Tracked
  <2> QED
    BY <2>1, <2>2, <2>3, <2>4 DEF TypeInv, Clock
<1>4. CASE Tick
  <2>1. now' = now + 1 /\ chats' = chats /\ changed' = changed /\ worker' = worker
    BY <1>4 DEF Tick
  <2>2. ASSUME NEW c \in Chat PROVE c \in Chat'
    <3>1. \A i \in 1..now : i \in 1..(now + 1)
      BY DEF TypeInv, Clock
    <3>2. \A i \in 0..now : i \in 0..(now + 1)
      BY DEF TypeInv, Clock
    <3> QED
      BY <2>1, <3>1, <3>2 DEF Chat
  <2>3. Typed(chats)' /\ Bounded(chats)'
    BY <2>1, <2>2 DEF TypeInv, Typed, Bounded, TurnsBounded, OpenChats, Open, Tracked
  <2>4. Clock'
    BY <2>1 DEF TypeInv, Clock
  <2> QED
    BY <2>1, <2>3, <2>4 DEF TypeInv
<1> QED
  BY <1>1, <1>2, <1>3, <1>4 DEF Next, Event

LEMMA TypeInvariant == Spec => []TypeInv
  BY TypeInit, TypeStep, PTL DEF Spec

(* However many users, sessions and turns report, the tracker keeps to its  *)
(* limits for a user, for all users and for the turns of a chat, and holds  *)
(* no time of the future.                                                   *)
THEOREM WithinLimits == Spec => []TypeOK
<1>1. TypeInv => TypeOK
  BY DEF TypeInv, TypeOK, Clock, Typed, Bounded, TurnsBounded, CapacityBounded
<1> QED
  BY <1>1, TypeInvariant, PTL

-----------------------------------------------------------------------------
(* The expiry worker *)

LEMMA ChatFields ==
  ASSUME Clock, NEW c \in Chat
  PROVE  /\ c.turns \in [Turns -> Nat] /\ c.overflow \in Nat /\ c.updatedAt \in Nat
         /\ \A t \in Turns : c.turns[t] <= now
         /\ c.overflow <= now /\ c.updatedAt <= now
<1>1. c.turns \in [Turns -> 0..now] /\ c.overflow \in 0..now /\ c.updatedAt \in 1..now
  BY DEF Chat
<1> QED
  BY <1>1 DEF Clock

(* What pruning leaves of a chat changes no earlier than the chat would. *)
LEMMA RenewalDelays ==
  ASSUME Clock, NEW c \in Chat, Survives(c), NEW t \in ChatLeases(Renewed(c))
  PROVE  \E s \in ChatLeases(c) : s <= t
<1> DEFINE r == Renewed(c)
<1>1. /\ r \in Chat /\ r.running = HasLiveWork(r)
      /\ \A x \in Turns : r.turns[x] = IF Expired(c.turns[x]) THEN 0 ELSE c.turns[x]
      /\ r.overflow = IF Expired(c.overflow) THEN 0 ELSE c.overflow
      /\ r.updatedAt = c.updatedAt
  BY RenewedTypes
<1>2. Survives(c) <=> r.running \/ ~Expired(c.updatedAt)
  BY DEF Survives
<1>3. /\ c.turns \in [Turns -> Nat] /\ c.overflow \in Nat /\ c.updatedAt \in Nat
      /\ r.turns \in [Turns -> Nat] /\ r.overflow \in Nat
  BY <1>1, ChatFields
<1> HIDE DEF r
<1>4. CASE HasLiveWork(r)
  <2>1. PICK v \in ({r.turns[x] : x \in Turns} \cup {r.overflow}) \ {0} : t = v + ExpiresAfter
    BY <1>4 DEF ChatLeases, r
  <2>2. v \in ({c.turns[x] : x \in Turns} \cup {c.overflow}) \ {0}
    BY <1>1, <2>1
  <2>3. HasLiveWork(c)
    BY <2>2 DEF HasLiveWork, Tracked
  <2>4. t \in ChatLeases(c)
    BY <2>1, <2>2, <2>3 DEF ChatLeases
  <2>5. v \in Nat
    BY <1>3, <2>2
  <2> QED
    BY <2>1, <2>4, <2>5, TimesAssumption
<1>5. CASE ~HasLiveWork(r)
  <2>1. t = c.updatedAt + ExpiresAfter
    BY <1>1, <1>5 DEF ChatLeases, r
  <2>2. ~Expired(c.updatedAt)
    BY <1>1, <1>2, <1>5
  <2>3. CASE HasLiveWork(c)
    <3>1. PICK v \in ({c.turns[x] : x \in Turns} \cup {c.overflow}) \ {0} : Expired(v)
      <4>1. CASE \E x \in Turns : c.turns[x] # 0
        BY <1>1, <1>5, <4>1 DEF HasLiveWork, Tracked
      <4>2. CASE c.overflow # 0
        BY <1>1, <1>5, <4>2 DEF HasLiveWork, Tracked
      <4> QED
        BY <2>3, <4>1, <4>2 DEF HasLiveWork, Tracked
    <3>2. v + ExpiresAfter \in ChatLeases(c)
      BY <2>3 DEF ChatLeases
    <3>3. v \in Nat
      BY <1>3
    <3>4. v + ExpiresAfter <= t
      BY <1>3, <2>1, <2>2, <3>1, <3>3, TimesAssumption DEF Expired, Clock
    <3> QED
      BY <3>2, <3>4
  <2>4. CASE ~HasLiveWork(c)
    <3>1. t \in ChatLeases(c)
      BY <2>1, <2>4 DEF ChatLeases
    <3> QED
      BY <1>3, <2>1, <3>1, TimesAssumption
  <2> QED
    BY <2>3, <2>4
<1> QED
  BY <1>4, <1>5

LEMMA PruningDelays ==
  ASSUME TypeInv, NEW t \in Leases(Pruned)
  PROVE  \E s \in Leases(chats) : s <= t
<1>1. PICK k \in Keys : Pruned[k] # NoChat /\ t \in ChatLeases(Pruned[k])
  BY DEF Leases
<1>2. chats[k] # NoChat /\ Survives(chats[k]) /\ Pruned[k] = Renewed(chats[k])
  BY <1>1 DEF Pruned
<1>3. chats[k] \in Chat
  BY <1>2 DEF TypeInv, Typed
<1>4. PICK s \in ChatLeases(chats[k]) : s <= t
  BY <1>1, <1>2, <1>3, RenewalDelays DEF TypeInv
<1>5. s \in Leases(chats)
  BY <1>2 DEF Leases
<1> QED
  BY <1>4, <1>5

(* Events wake the worker; a read only prunes, which can delay a lease but  *)
(* never bring one forward.                                                 *)
LEMMA WakeupStep == TypeInv /\ NoLostWakeup /\ [Next]_vars => NoLostWakeup'
<1> SUFFICES ASSUME TypeInv, NoLostWakeup, [Next]_vars PROVE NoLostWakeup'
  OBVIOUS
<1>1. ASSUME NEW k \in Keys, Event(k) PROVE NoLostWakeup'
  BY <1>1 DEF Event, SessionStart, EndSession, StartOrRefresh, EndTurn, Signal, NoLostWakeup
<1>2. CASE Read
  <2>1. chats' = Pruned /\ changed' = changed /\ worker' = worker
    BY <1>2 DEF Read
  <2>2. Leases(chats') = Leases(Pruned)
    BY <2>1
  <2>3. Leases(chats) = {} => Leases(Pruned) = {}
    BY PruningDelays
  <2>4. ASSUME NEW t \in Leases(Pruned), \A s \in Leases(chats) : worker.deadline <= s
        PROVE  worker.deadline <= t
    <3>1. PICK s \in Leases(chats) : s <= t
      BY PruningDelays
    <3>2. s \in Nat /\ worker.deadline \in Nat /\ t \in Int
      <4>1. t \in Int
        <5>1. PICK k \in Keys : Pruned[k] # NoChat /\ t \in ChatLeases(Pruned[k])
          BY DEF Leases
        <5>2. Pruned[k] \in Chat
          BY <5>1, PrunedBounded DEF Typed
        <5>3. /\ Pruned[k].turns \in [Turns -> Nat] /\ Pruned[k].overflow \in Nat
              /\ Pruned[k].updatedAt \in Nat
          BY <5>2, ChatFields DEF TypeInv
        <5> QED
          BY <5>1, <5>3, TimesAssumption DEF ChatLeases
      <4> QED
        BY <4>1, LeaseTypes DEF TypeInv
    <3> QED
      BY <2>4, <3>1, <3>2
  <2> QED
    BY <2>1, <2>2, <2>3, <2>4 DEF NoLostWakeup
<1>3. CASE Plan
  <2>1. chats' = chats /\ changed' = changed
    BY <1>3 DEF Plan
  <2>2. CASE Leases(chats) = {}
    BY <1>3, <2>1, <2>2 DEF Plan, NoLostWakeup, Leases
  <2>3. CASE Leases(chats) # {}
    <3>1. worker' = [pc |-> "armed", deadline |-> Earliest(Leases(chats))]
      BY <1>3, <2>3 DEF Plan
    <3>2. Leases(chats') = Leases(chats)
      BY <2>1
    <3> QED
      BY <2>3, <3>1, <3>2, EarliestLease DEF NoLostWakeup
  <2> QED
    BY <2>2, <2>3
<1>4. CASE Wake \/ TimerFires
  BY <1>4 DEF Wake, TimerFires, NoLostWakeup
<1>5. CASE Tick \/ UNCHANGED vars
  <2>1. chats' = chats /\ changed' = changed /\ worker' = worker
    BY <1>5 DEF Tick, vars
  <2>2. Leases(chats') = Leases(chats)
    BY <2>1
  <2> QED
    BY <2>1, <2>2 DEF NoLostWakeup
<1> QED
  BY <1>1, <1>2, <1>3, <1>4, <1>5 DEF Next, Event

(* Whatever events and reads come between the worker's plan, its sleep and  *)
(* its timer, no lease expires before the worker looks at it.               *)
THEOREM NeverLate == Spec => []NoLostWakeup
<1>1. Init => NoLostWakeup
  BY DEF Init, NoLostWakeup
<1> QED
  BY <1>1, WakeupStep, TypeInvariant, PTL DEF Spec

-----------------------------------------------------------------------------
(* Whom eviction spares *)

(* A running chat is evicted, for want of room for one more chat of user u,  *)
(* only if none of those that stay could have gone instead.                 *)
LEMMA MakeRoomSpares ==
  ASSUME Clock, NEW cs, Typed(cs), Bounded(cs), NEW u \in Users, NEW k \in Keys,
         cs[k] # NoChat, MakeRoom(cs, u)[k] = NoChat, cs[k].running
  PROVE  LET ds == MakeRoom(cs, u)
         IN  \/ k[1] = u /\ \A l \in Open(ds, u) : ds[l].running
             \/ \A l \in OpenChats(ds) : ds[l].running
<1> DEFINE own == EvictDownTo(cs, Open(cs, u), MaxActiveChatsPerUser)
           ds == EvictDownTo(own, OpenChats(own), MaxActiveChats)
<1>1. ds = MakeRoom(cs, u)
  BY DEF MakeRoom
<1>2. Open(cs, u) \in SUBSET OpenChats(cs) /\ IsFiniteSet(Open(cs, u))
  <2>1. Open(cs, u) \in SUBSET OpenChats(cs)
    BY DEF Open, OpenChats
  <2> QED
    BY <2>1, FS_Subset DEF Bounded
<1>3. /\ Typed(own) /\ Shrinks(cs, own)
      /\ \A l \in Keys : own[l] # NoChat => own[l] = cs[l]
      /\ \A l \in Keys \ Open(cs, u) : own[l] = cs[l]
  BY <1>2, EvictionLeaves, LimitsAssumption
<1>4. IsFiniteSet(OpenChats(own)) /\ OpenChats(own) \in SUBSET OpenChats(own)
  <2> HIDE DEF own
  <2> QED
    BY <1>3, ShrinkKeepsBounds DEF Bounded
<1>5. /\ Typed(ds)
      /\ \A l \in Keys : ds[l] # NoChat => ds[l] = own[l]
  <2> HIDE DEF own
  <2> QED
    BY <1>3, <1>4, EvictionLeaves, LimitsAssumption
<1>6. CASE own[k] = NoChat
  <2>1. k \in Open(cs, u)
    BY <1>3, <1>6
  <2>2. ASSUME NEW l \in Open(ds, u) PROVE ds[l].running
    <3> HIDE DEF ds
    <3>1. l \in Keys /\ l[1] = u /\ ds[l] # NoChat
      BY DEF Open
    <3>2. ds[l] = own[l] /\ own[l] = cs[l] /\ l \in Open(cs, u) /\ own[l] # NoChat
      BY <1>3, <1>5, <3>1 DEF Open
    <3>3. cs[l].running
      BY <1>2, <1>6, <2>1, <3>2, EvictionSpares, LimitsAssumption
    <3> QED
      BY <3>2, <3>3
  <2> QED
    BY <1>1, <2>1, <2>2 DEF Open
<1>7. CASE own[k] # NoChat
  <2>1. k \in OpenChats(own) /\ own[k].running /\ ds[k] = NoChat
    BY <1>1, <1>3, <1>7 DEF OpenChats
  <2>2. ASSUME NEW l \in OpenChats(ds) PROVE ds[l].running
    <3>1. l \in Keys /\ ds[l] # NoChat /\ ds[l] = own[l] /\ l \in OpenChats(own)
      BY <1>5 DEF OpenChats
    <3>2. own[l].running
      <4> HIDE DEF own
      <4> QED
        BY <1>3, <1>4, <2>1, <3>1, EvictionSpares, LimitsAssumption
    <3> QED
      BY <3>1, <3>2
  <2> QED
    BY <1>1, <2>2
<1> QED
  BY <1>6, <1>7

(* What a step may do to two chats, one that enters and one that is evicted. *)
Spared(new, k) ==
  Pruned[k].running =>
    \/ /\ k[1] = new[1]
       /\ \A l \in Open(chats', k[1]) \ {new} : chats'[l].running
    \/ \A l \in OpenChats(chats') \ {new} : chats'[l].running

LEMMA EventSpares ==
  ASSUME TypeInv, NEW e \in Keys, Event(e), NEW new \in Keys, NEW k \in Keys,
         Pruned[new] = NoChat, chats'[new] # NoChat,
         Pruned[k] # NoChat, chats'[k] = NoChat
  PROVE  Spared(new, k)
<1> DEFINE room == MakeRoom(Pruned, e[1])
<1>1. Typed(Pruned) /\ Bounded(Pruned)
  BY PrunedBounded
<1>2. CASE EndSession(e)
  BY <1>1, <1>2 DEF EndSession, Typed
<1>3. CASE ~EndSession(e)
  <2> DEFINE cs == EnsureChat(Pruned, e)
  <2>1. Typed(cs) /\ \A l \in Keys \ {e} : cs[l] # NoChat => cs[l] = Pruned[l]
    BY <1>1, EnsureChatTypes DEF TypeInv
  <2>2. \E c : chats' = [cs EXCEPT ![e] = c]
    BY <1>3 DEF Event, SessionStart, StartOrRefresh, EndTurn
  <2>3. \A l \in Keys \ {e} : chats'[l] = cs[l]
    BY <2>1, <2>2 DEF Typed
  <2>4. new = e
    <3> HIDE DEF cs
    <3> QED
      BY <2>1, <2>3
  <2>5. cs = [room EXCEPT ![e] = NewChat]
    BY <2>4 DEF EnsureChat
  <2>6. k # e /\ cs[k] = NoChat
    <3> HIDE DEF cs
    <3> QED
      BY <2>3, <2>4
  <2>7. e[1] \in Users
    BY DEF Keys
  <2>8. Typed(room)
    BY <1>1, <2>7, MakeRoomLeaves DEF TypeInv
  <2>9. \A l \in Keys \ {e} : chats'[l] = room[l]
    <3> HIDE DEF room
    <3> QED
      BY <2>3, <2>5, <2>8 DEF Typed
  <2> HIDE DEF cs
  <2>10. SUFFICES ASSUME Pruned[k].running
                  PROVE  \/ /\ k[1] = new[1]
                            /\ \A l \in Open(chats', k[1]) \ {new} : chats'[l].running
                         \/ \A l \in OpenChats(chats') \ {new} : chats'[l].running
    BY DEF Spared
  <2>11. \/ k[1] = e[1] /\ \A l \in Open(room, e[1]) : room[l].running
         \/ \A l \in OpenChats(room) : room[l].running
    BY <1>1, <2>6, <2>7, <2>9, <2>10, MakeRoomSpares DEF TypeInv
  <2>12. /\ \A l \in Open(chats', e[1]) \ {e} : l \in Open(room, e[1]) /\ chats'[l] = room[l]
         /\ \A l \in OpenChats(chats') \ {e} : l \in OpenChats(room) /\ chats'[l] = room[l]
    <3> HIDE DEF room
    <3> QED
      BY <2>9 DEF Open, OpenChats
  <2> HIDE DEF room
  <2> QED
    BY <2>4, <2>11, <2>12
<1> QED
  BY <1>2, <1>3

LEMMA StepSpares ==
  ASSUME TypeInv, [Next]_vars, NEW new \in Keys, NEW k \in Keys,
         Pruned[new] = NoChat, chats'[new] # NoChat,
         Pruned[k] # NoChat, chats'[k] = NoChat
  PROVE  Spared(new, k)
<1>1. ASSUME NEW e \in Keys, Event(e) PROVE Spared(new, k)
  BY <1>1, EventSpares
<1>2. CASE chats' = Pruned
  BY <1>2
<1>3. CASE chats' = chats
  BY <1>3 DEF Pruned
<1> QED
  BY <1>1, <1>2, <1>3 DEF Next, Event, Read, Plan, Wake, TimerFires, Tick, vars

(* Under capacity pressure a running chat goes only if every chat that      *)
(* could have gone instead, of its user or of all, is running as well.      *)
THEOREM RunningChatsAreSpared == Spec => EvictionSparesRunning
<1>1. TypeInv /\ [Next]_vars =>
        [LET before  == Pruned
             entered == {k \in Keys : before[k] = NoChat /\ chats'[k] # NoChat}
             evicted == {k \in Keys : before[k] # NoChat /\ chats'[k] = NoChat}
         IN  \A new \in entered, k \in evicted :
               before[k].running =>
                 \/ /\ k[1] = new[1]
                    /\ \A l \in Open(chats', k[1]) \ {new} : chats'[l].running
                 \/ \A l \in OpenChats(chats') \ {new} : chats'[l].running]_vars
  BY StepSpares DEF Spared
<1> QED
  BY <1>1, TypeInvariant, PTL DEF Spec, EvictionSparesRunning

-----------------------------------------------------------------------------
(* Live turns *)

LEMMA LeasesImplementTracker == LeasesSpec => Spec
<1>1. LeasesInit => Init
  BY DEF LeasesInit
<1>2. [LeasesNext]_leaseVars => [Next]_vars
  BY DEF LeasesNext, LeasesEvents, LeasesWork, Next, leaseVars, Worker
<1> QED
  BY <1>1, <1>2, PTL DEF LeasesSpec, Spec

(* What a chat says of itself, and that the lease a client was given for a  *)
(* turn is covered by the turn's own or by the overflow lease.              *)
Shows(c) == c.running = HasLiveWork(c)
Covers(c, m) ==
  \A t \in Turns : m[t] # 0 => Expired(m[t]) \/ m[t] <= c.turns[t] \/ m[t] <= c.overflow

Kept(cs, m) ==
  \A k \in Keys :
    IF cs[k] = NoChat THEN m[k] = NoTurns ELSE Shows(cs[k]) /\ Covers(cs[k], m[k])

Reports == [Keys -> [Turns -> Nat]]
LeaseInv == marked \in Reports /\ Kept(chats, marked)

LEMMA MarksTypes ==
  ASSUME marked \in Reports
  PROVE  Marks \in Reports
<1>1. NoTurns \in [Turns -> Nat]
  BY DEF NoTurns
<1> QED
  BY <1>1 DEF Marks, Reports

LEMMA PrunedKept ==
  ASSUME TypeInv, LeaseInv
  PROVE  Kept(Pruned, Marks)
<1> SUFFICES ASSUME NEW k \in Keys, Pruned[k] # NoChat
             PROVE  Shows(Pruned[k]) /\ Covers(Pruned[k], Marks[k])
  BY DEF Kept, Marks
<1>1. chats[k] # NoChat /\ Pruned[k] = Renewed(chats[k]) /\ Marks[k] = marked[k]
  BY DEF Pruned, Marks
<1>2. chats[k] \in Chat
  BY <1>1 DEF TypeInv, Typed
<1>3. Shows(Pruned[k])
  BY <1>1, <1>2, RenewedTypes DEF Shows, TypeInv
<1>4. ASSUME NEW t \in Turns, marked[k][t] # 0, ~Expired(marked[k][t])
      PROVE  marked[k][t] <= Pruned[k].turns[t] \/ marked[k][t] <= Pruned[k].overflow
  <2>1. /\ marked[k][t] \in Nat /\ chats[k].turns[t] \in Nat /\ chats[k].overflow \in Nat
        /\ now \in Nat
    BY <1>2, ChatFields DEF TypeInv, LeaseInv, Reports, Clock
  <2>2. marked[k][t] <= chats[k].turns[t] \/ marked[k][t] <= chats[k].overflow
    BY <1>1, <1>4 DEF LeaseInv, Kept, Covers
  <2>3. /\ marked[k][t] <= chats[k].turns[t] => ~Expired(chats[k].turns[t])
        /\ marked[k][t] <= chats[k].overflow => ~Expired(chats[k].overflow)
    BY <1>4, <2>1, TimesAssumption DEF Expired
  <2>4. /\ Pruned[k].turns[t] = IF Expired(chats[k].turns[t]) THEN 0 ELSE chats[k].turns[t]
        /\ Pruned[k].overflow = IF Expired(chats[k].overflow) THEN 0 ELSE chats[k].overflow
    <3> DEFINE r == Renewed(chats[k])
    <3>1. /\ r.turns = [u \in Turns |-> IF Expired(chats[k].turns[u]) THEN 0
                                        ELSE chats[k].turns[u]]
          /\ r.overflow = IF Expired(chats[k].overflow) THEN 0 ELSE chats[k].overflow
      BY <1>2, RenewedTypes DEF TypeInv
    <3>2. Pruned[k] = r
      BY <1>1
    <3> HIDE DEF r
    <3> QED
      BY <3>1, <3>2
  <2> QED
    BY <2>2, <2>3, <2>4
<1> QED
  BY <1>1, <1>3, <1>4 DEF Covers

(* A chat that is made has no turns, and those evicted for it lose theirs.  *)
LEMMA EnsuredKept ==
  ASSUME TypeInv, LeaseInv, NEW k \in Keys
  PROVE  LET cs == EnsureChat(Pruned, k)
         IN  /\ cs[k] \in Chat /\ cs[k] # NoChat /\ Shows(cs[k]) /\ Covers(cs[k], Marks[k])
             /\ \A l \in Keys \ {k} :
                  cs[l] # NoChat => Shows(cs[l]) /\ Covers(cs[l], Marks[l])
<1> DEFINE cs == EnsureChat(Pruned, k)
<1>1. /\ cs[k] = IF Pruned[k] # NoChat THEN Pruned[k] ELSE NewChat
      /\ cs[k] \in Chat /\ cs[k] # NoChat
      /\ \A l \in Keys \ {k} : cs[l] # NoChat => cs[l] = Pruned[l]
  BY PrunedBounded, EnsureChatTypes DEF TypeInv
<1>2. Shows(NewChat) /\ Covers(NewChat, NoTurns)
  BY DEF Shows, Covers, NewChat, NoTurns, HasLiveWork, Tracked
<1> HIDE DEF cs
<1>3. Shows(cs[k]) /\ Covers(cs[k], Marks[k])
  BY <1>1, <1>2, PrunedKept DEF Kept
<1>4. \A l \in Keys \ {k} : cs[l] # NoChat => Shows(cs[l]) /\ Covers(cs[l], Marks[l])
  BY <1>1, PrunedKept DEF Kept
<1> QED
  BY <1>1, <1>3, <1>4 DEF cs

(* A step that stores one chat of an ensured map. *)
LEMMA StoreKept ==
  ASSUME TypeInv, LeaseInv, NEW k \in Keys, NEW c \in Chat, NEW m \in [Turns -> Nat],
         Shows(c), Covers(c, m), now' = now,
         chats' = [EnsureChat(Pruned, k) EXCEPT ![k] = c],
         marked' = KeptMarks([Marks EXCEPT ![k] = m])
  PROVE  LeaseInv'
<1> DEFINE cs == EnsureChat(Pruned, k)
           ms == [Marks EXCEPT ![k] = m]
<1>1. Marks \in Reports
  BY MarksTypes DEF LeaseInv
<1>2. ms \in Reports /\ \A l \in Keys : ms[l] = IF l = k THEN m ELSE Marks[l]
  BY <1>1 DEF Reports
<1>3. Typed(cs)
  BY PrunedBounded, EnsureChatTypes DEF TypeInv
<1>4. \A l \in Keys \ {k} : cs[l] # NoChat => Shows(cs[l]) /\ Covers(cs[l], Marks[l])
  BY EnsuredKept
<1> HIDE DEF cs, ms
<1>5. chats' = [cs EXCEPT ![k] = c] /\ marked' = KeptMarks(ms)
  BY DEF cs, ms
<1>6. \A l \in Keys : chats'[l] = IF l = k THEN c ELSE cs[l]
  BY <1>3, <1>5 DEF Typed
<1>7. \A l \in Keys : marked'[l] = IF chats'[l] = NoChat THEN NoTurns ELSE ms[l]
  BY <1>5 DEF KeptMarks
<1>8. marked' \in Reports
  <2>1. NoTurns \in [Turns -> Nat]
    BY DEF NoTurns
  <2> QED
    BY <1>2, <1>5, <2>1 DEF KeptMarks, Reports
<1>9. Kept(chats', marked')
  BY <1>2, <1>4, <1>6, <1>7 DEF Kept
<1>10. Kept(chats, marked)'
  BY <1>9 DEF Kept, Shows, Covers, Expired, HasLiveWork, Tracked
<1> QED
  BY <1>8, <1>10 DEF LeaseInv, Reports

(* A step after which every chat left is one that pruning left. *)
LEMMA DropKept ==
  ASSUME TypeInv, LeaseInv, now' = now, marked' = KeptMarks(Marks),
         \A l \in Keys : chats'[l] = NoChat \/ chats'[l] = Pruned[l]
  PROVE  LeaseInv'
<1>1. NoTurns \in [Turns -> Nat] /\ Marks \in Reports
  BY MarksTypes DEF NoTurns, LeaseInv
<1>2. marked' \in Reports
  BY <1>1 DEF KeptMarks, Reports
<1>3. \A l \in Keys : marked'[l] = IF chats'[l] = NoChat THEN NoTurns ELSE Marks[l]
  BY DEF KeptMarks
<1>4. Kept(chats', marked')
  BY <1>3, PrunedKept DEF Kept
<1>5. Kept(chats, marked)'
  BY <1>4 DEF Kept, Shows, Covers, Expired, HasLiveWork, Tracked
<1> QED
  BY <1>2, <1>5 DEF LeaseInv, Reports

(* The turn that is reported is covered by its own lease or, beyond the      *)
(* limit, by the overflow lease, which is then as young as any.             *)
LEMMA MarkCovers ==
  ASSUME Clock, NEW c \in Chat, NEW m \in [Turns -> Nat], Covers(c, m), NEW t \in Turns
  PROVE  Covers([MarkTurnRunning(c, t) EXCEPT !.updatedAt = now, !.running = TRUE],
                [m EXCEPT ![t] = now])
<1> DEFINE d == MarkTurnRunning(c, t)
           e == [d EXCEPT !.updatedAt = now, !.running = TRUE]
           n == [m EXCEPT ![t] = now]
<1>1. \/ /\ \A s \in Turns : d.turns[s] = IF s = t THEN now ELSE c.turns[s]
         /\ d.overflow = c.overflow
      \/ /\ \A s \in Turns : d.turns[s] = c.turns[s]
         /\ d.overflow = now
  BY DEF MarkTurnRunning, Chat
<1>2. e.turns = d.turns /\ e.overflow = d.overflow
  <2>1. d \in Chat
    <3>1. [c.turns EXCEPT ![t] = now] \in [Turns -> 0..now] /\ now \in 0..now
      BY DEF Chat, Clock
    <3>2. ASSUME NEW f \in [Turns -> 0..now], NEW o \in 0..now
          PROVE  [c EXCEPT !.turns = f] \in Chat /\ [c EXCEPT !.overflow = o] \in Chat
      BY DEF Chat
    <3>3. [c EXCEPT !.turns[t] = now] = [c EXCEPT !.turns = [c.turns EXCEPT ![t] = now]]
      BY DEF Chat
    <3> QED
      BY <3>1, <3>2, <3>3 DEF MarkTurnRunning
  <2> HIDE DEF d
  <2> QED
    BY <2>1 DEF Chat
<1>3. \A s \in Turns : n[s] = IF s = t THEN now ELSE m[s]
  OBVIOUS
<1>4. now \in Nat /\ c.overflow \in Nat /\ c.overflow <= now
      /\ \A s \in Turns : c.turns[s] \in Nat /\ m[s] \in Nat
  BY DEF Chat, Clock
<1> HIDE DEF d, e, n
<1>5. ASSUME NEW s \in Turns, n[s] # 0, ~Expired(n[s])
      PROVE  n[s] <= e.turns[s] \/ n[s] <= e.overflow
  <2>1. CASE s = t
    BY <2>1, <1>1, <1>2, <1>3, <1>4
  <2>2. CASE s # t
    <3>1. m[s] <= c.turns[s] \/ m[s] <= c.overflow
      BY <2>2, <1>3, <1>5 DEF Covers
    <3> QED
      BY <2>2, <3>1, <1>1, <1>2, <1>3, <1>4
  <2> QED
    BY <2>1, <2>2
<1> QED
  BY <1>5 DEF Covers, d, e, n

LEMMA EventKeepsLeases ==
  ASSUME TypeInv, LeaseInv, LeasesEvents([k \in Keys |-> Turns])
  PROVE  LeaseInv'
<1> PICK k \in Keys :
      \/ \E t \in Turns :
           \/ StartOrRefresh(k, t) /\ marked' = KeptMarks([Marks EXCEPT ![k][t] = now])
           \/ EndTurn(k, t) /\ marked' = KeptMarks([Marks EXCEPT ![k][t] = 0])
      \/ (SessionStart(k) \/ EndSession(k)) /\ marked' = KeptMarks(Marks)
  BY DEF LeasesEvents
<1> DEFINE cs == EnsureChat(Pruned, k)
<1>1. /\ cs[k] \in Chat /\ TurnsBounded(cs[k]) /\ Shows(cs[k]) /\ Covers(cs[k], Marks[k])
  <2>1. Typed(cs) /\ Bounded(cs) /\ cs[k] \in Chat /\ cs[k] # NoChat
    BY PrunedBounded, EnsureChatTypes DEF TypeInv
  <2>2. Shows(cs[k]) /\ Covers(cs[k], Marks[k])
    BY EnsuredKept
  <2> QED
    BY <2>1, <2>2 DEF Bounded, OpenChats
<1>2. Marks \in Reports /\ Marks[k] \in [Turns -> Nat]
  BY MarksTypes DEF LeaseInv, Reports
<1>3. Clock
  BY DEF TypeInv
<1>4. ASSUME NEW c \in Chat, NEW m \in [Turns -> Nat], Shows(c), Covers(c, m), now' = now,
             chats' = [cs EXCEPT ![k] = c], marked' = KeptMarks([Marks EXCEPT ![k] = m])
      PROVE  LeaseInv'
  BY <1>4, StoreKept
<1>5. ASSUME SessionStart(k), marked' = KeptMarks(Marks) PROVE LeaseInv'
  <2> DEFINE c == [cs[k] EXCEPT !.updatedAt = now]
  <2>1. chats' = [cs EXCEPT ![k] = c] /\ now' = now
    BY <1>5 DEF SessionStart
  <2> HIDE DEF cs
  <2>2. c \in Chat
    BY <1>1, <1>3, TouchTypes
  <2>3. Shows(c) /\ Covers(c, Marks[k])
    BY <1>1 DEF Shows, Covers, HasLiveWork, Tracked, Chat
  <2>4. [Marks EXCEPT ![k] = Marks[k]] = Marks
    BY <1>2 DEF Reports
  <2> HIDE DEF c
  <2> QED
    BY <1>2, <1>4, <1>5, <2>1, <2>2, <2>3, <2>4
<1>6. ASSUME EndSession(k), marked' = KeptMarks(Marks) PROVE LeaseInv'
  <2>1. chats' = [Pruned EXCEPT ![k] = NoChat] /\ now' = now
    BY <1>6 DEF EndSession
  <2>2. \A l \in Keys : chats'[l] = IF l = k THEN NoChat ELSE Pruned[l]
    BY <2>1 DEF Pruned
  <2> QED
    BY <1>6, <2>1, <2>2, DropKept
<1>7. ASSUME NEW t \in Turns, StartOrRefresh(k, t),
             marked' = KeptMarks([Marks EXCEPT ![k][t] = now])
      PROVE  LeaseInv'
  <2> DEFINE c == [MarkTurnRunning(cs[k], t) EXCEPT !.updatedAt = now, !.running = TRUE]
             m == [Marks[k] EXCEPT ![t] = now]
  <2>1. chats' = [cs EXCEPT ![k] = c] /\ now' = now
    BY <1>7 DEF StartOrRefresh
  <2>2. m \in [Turns -> Nat] /\ [Marks EXCEPT ![k][t] = now] = [Marks EXCEPT ![k] = m]
    BY <1>2, <1>3 DEF Reports, Clock
  <2>3. Covers(c, m)
    <3> HIDE DEF cs
    <3> QED
      BY <1>1, <1>2, <1>3, MarkCovers
  <2>4. c \in Chat /\ Shows(c)
    <3> HIDE DEF cs
    <3>1. /\ MarkTurnRunning(cs[k], t) \in Chat /\ TurnsBounded(MarkTurnRunning(cs[k], t))
          /\ HasLiveWork(MarkTurnRunning(cs[k], t))
      BY <1>1, <1>3, MarkTypes
    <3> DEFINE d == MarkTurnRunning(cs[k], t)
    <3> HIDE DEF d
    <3>2. [d EXCEPT !.updatedAt = now, !.running = TRUE] \in Chat
      BY <3>1, <1>3, TouchTypes DEF d
    <3>3. LET e == [d EXCEPT !.updatedAt = now, !.running = TRUE]
          IN  e.turns = d.turns /\ e.overflow = d.overflow /\ e.running = TRUE
      BY <3>1 DEF d, Chat
    <3>4. Shows([d EXCEPT !.updatedAt = now, !.running = TRUE])
      BY <3>1, <3>3 DEF d, Shows, HasLiveWork, Tracked
    <3> QED
      BY <3>2, <3>4 DEF d
  <2> HIDE DEF c, m
  <2> QED
    BY <1>4, <1>7, <2>1, <2>2, <2>3, <2>4
<1>8. ASSUME NEW t \in Turns, EndTurn(k, t),
             marked' = KeptMarks([Marks EXCEPT ![k][t] = 0])
      PROVE  LeaseInv'
  <2> DEFINE d == [cs[k] EXCEPT !.turns[t] = 0, !.updatedAt = now]
             c == ShowRunning(d)
             m == [Marks[k] EXCEPT ![t] = 0]
  <2>1. chats' = [cs EXCEPT ![k] = c] /\ now' = now
    BY <1>8 DEF EndTurn
  <2>2. m \in [Turns -> Nat] /\ [Marks EXCEPT ![k][t] = 0] = [Marks EXCEPT ![k] = m]
    BY <1>2 DEF Reports
  <2> HIDE DEF cs
  <2>3. c \in Chat
    BY <1>1, <1>3, EndTurnTypes
  <2>4. /\ d.turns = [cs[k].turns EXCEPT ![t] = 0] /\ d.overflow = cs[k].overflow
        /\ c.turns = d.turns /\ c.overflow = d.overflow /\ c.running = HasLiveWork(d)
    BY <1>1 DEF Chat, ShowRunning
  <2> HIDE DEF c, d
  <2>5. Shows(c)
    BY <2>4 DEF Shows, HasLiveWork, Tracked
  <2>6. Covers(c, m)
    BY <1>1, <1>2, <2>4 DEF Covers, m, Chat
  <2> HIDE DEF m
  <2> QED
    BY <1>4, <1>8, <2>1, <2>2, <2>3, <2>5, <2>6
<1> QED
  BY <1>5, <1>6, <1>7, <1>8

LEMMA WorkKeepsLeases ==
  ASSUME TypeInv, LeaseInv, LeasesWork \/ UNCHANGED leaseVars
  PROVE  LeaseInv'
<1>1. CASE (Read \/ TimerFires) /\ marked' = KeptMarks(Marks)
  BY <1>1, DropKept DEF Read, TimerFires
<1>2. CASE ((Plan \/ Wake) /\ UNCHANGED marked) \/ UNCHANGED leaseVars
  BY <1>2 DEF Plan, Wake, leaseVars, vars, LeaseInv, Kept, Shows, Covers, Expired,
             HasLiveWork, Tracked
<1>3. CASE Tick /\ UNCHANGED marked
  <2>1. now' = now + 1 /\ chats' = chats /\ marked' = marked
    BY <1>3 DEF Tick
  <2>2. ASSUME NEW n \in Nat, ~Expired(n)' PROVE ~Expired(n)
    BY <2>1, <2>2, TimesAssumption DEF Expired, TypeInv, Clock
  <2>3. ASSUME NEW c, NEW m \in [Turns -> Nat], Covers(c, m) PROVE Covers(c, m)'
    BY <2>2, <2>3 DEF Covers
  <2> QED
    BY <2>1, <2>3 DEF LeaseInv, Reports, Kept, Shows, HasLiveWork, Tracked
<1> QED
  BY <1>1, <1>2, <1>3 DEF LeasesWork

LEMMA LeaseInvariant == LeasesSpec => []LeaseInv
<1>1. LeasesInit => LeaseInv
  <2>1. NoTurns \in [Turns -> Nat]
    BY DEF NoTurns
  <2> QED
    BY <2>1 DEF LeasesInit, Init, LeaseInv, Reports, Kept
<1>2. TypeInv /\ LeaseInv /\ [LeasesNext]_leaseVars => LeaseInv'
  BY EventKeepsLeases, WorkKeepsLeases DEF LeasesNext
<1> QED
  BY <1>1, <1>2, LeasesImplementTracker, TypeInvariant, PTL DEF LeasesSpec

(* A turn that was reported running and whose lease has not run out shows   *)
(* as running, also beyond the limit of turns tracked by identifier: the    *)
(* overflow lease is never older than a turn it stands for.                 *)
THEOREM LiveTurnsNeverIdle == LeasesSpec => []LiveTurnsShowRunning
<1>1. TypeInv /\ LeaseInv => LiveTurnsShowRunning
  <2> SUFFICES ASSUME TypeInv, LeaseInv, NEW k \in Keys, NEW t \in Turns,
                      marked[k][t] # 0, ~Expired(marked[k][t])
               PROVE  chats[k].running
    BY DEF LiveTurnsShowRunning
  <2>1. chats[k] # NoChat
    BY DEF LeaseInv, Kept, NoTurns
  <2>2. chats[k] \in Chat /\ marked[k][t] \in Nat
    BY <2>1 DEF TypeInv, Typed, LeaseInv, Reports
  <2>3. marked[k][t] <= chats[k].turns[t] \/ marked[k][t] <= chats[k].overflow
    BY <2>1 DEF LeaseInv, Kept, Covers
  <2>4. chats[k].turns[t] \in Nat /\ chats[k].overflow \in Nat
    BY <2>2, ChatFields DEF TypeInv, Clock
  <2>5. chats[k].turns[t] # 0 \/ chats[k].overflow # 0
    BY <2>2, <2>3, <2>4
  <2>6. HasLiveWork(chats[k])
    BY <2>5 DEF HasLiveWork, Tracked
  <2> QED
    BY <2>1, <2>6 DEF LeaseInv, Kept, Shows
<1> QED
  BY <1>1, LeaseInvariant, LeasesImplementTracker, TypeInvariant, PTL
=============================================================================
