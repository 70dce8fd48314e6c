-------------------------------- MODULE Hub --------------------------------
(***************************************************************************)
(* The in-memory hub of the usage dashboard: what one accepted collector   *)
(* snapshot does to the entry of its Linux user, to the observations fed   *)
(* to the history tracker, and to the subscribers of the status stream.    *)
(*                                                                         *)
(* Everything Apply does under Hub.mu is one action.  The history updates  *)
(* it decided are handed to the tracker after Hub.mu is released and while *)
(* Hub.applyMu is still held, hence by a separate action per update.       *)
(***************************************************************************)
EXTENDS Integers, FiniteSets

CONSTANTS
  Users,           \* Linux users, numbered in username order (h.order)
  Accounts,        \* keys of ChatGPT accounts
  NoAccount,       \* the empty account key
  Expected,        \* Expected[u]: account an anchor is provisioned for
  Sessions,        \* private App Server / hook session identifiers
  Quotas,          \* quota payloads; two of them conflict iff they differ
  NoQuota,
  Reads,           \* the optional reads a collector can complete
  Subscribers,     \* goroutines serving /api/events
  StaleAfter,      \* staleAfter
  InventoryGrace,  \* runtimeInventoryGrace
  MaxTime,         \* bound on the clocks
  MaxRevision      \* bound on the revisions published by Refresh

ASSUME UsersAssumption == Users \subseteq Nat
ASSUME AccountsAssumption == NoAccount \notin Accounts
ASSUME ExpectedAssumption ==
  /\ Expected \in [Users -> Accounts \cup {NoAccount}]
  /\ \A u, v \in Users :
       Expected[u] = Expected[v] /\ Expected[u] # NoAccount => u = v
ASSUME QuotasAssumption == NoQuota \notin Quotas
ASSUME ReadsAssumption == Reads \subseteq {"runtime", "tokens", "recent", "version"}
ASSUME TimesAssumption ==
  /\ StaleAfter \in Nat /\ InventoryGrace \in Nat
  /\ MaxTime \in Nat \ {0} /\ MaxRevision \in Nat

VARIABLES
  entries,   \* entries[u]: what the hub keeps of user u
  hooks,     \* hooks[u]: the activity source, chats of u by session
  now,       \* h.now()
  revision,  \* h.revision
  mailbox,   \* mailbox[b]: the capacity-one channel of subscriber b
  observed,  \* observed[a]: historyObserved, the last update decided for a
  outbox     \* outbox[u]: updates the Apply of u still owes the tracker

vars == <<entries, hooks, now, revision, mailbox, observed, outbox>>

Times == 1..MaxTime           \* 0 is the zero time.Time
NoUser == -1
NoRevision == -1              \* an empty channel

(* A chat or thread is absent, loaded but idle, or running. *)
Chats == {"absent", "idle", "running"}
NoChats == [s \in Sessions |-> "absent"]
Present(chats) == {s \in Sessions : chats[s] # "absent"}

OkSnapshots ==
  {s \in [at : Times, state : {"ok"}, account : Accounts, quota : Quotas,
          reads : SUBSET Reads, threads : [Sessions -> Chats]] :
     "runtime" \notin s.reads => s.threads = NoChats}
OtherSnapshots ==
  [at : Times, state : {"signed_out", "api_key", "unavailable"},
   account : {NoAccount}, quota : {NoQuota},
   reads : SUBSET (Reads \cap {"version"}), threads : {NoChats}]
Snapshots == OkSnapshots \cup OtherSnapshots

NoGood == [at |-> 0, account |-> NoAccount, quota |-> NoQuota]
NoTokens == [of |-> NoAccount, at |-> 0]

(* A lifetime total and a thread-name index are represented by the account  *)
(* they were read from.                                                     *)
InitialEntry ==
  [at |-> 0, state |-> "unavailable", seenAt |-> 0,
   good |-> NoGood, goodAt |-> 0, membership |-> NoAccount,
   tokens |-> NoTokens, recent |-> NoAccount, versionAt |-> 0,
   runtime |-> NoChats, inventoryAt |-> 0,
   quarantine |-> {}, pending |-> FALSE, accountVersion |-> 0]

NoObservation ==
  [user |-> NoUser, accountVersion |-> 0, at |-> 0, quota |-> NoQuota]

Init ==
  /\ entries = [u \in Users |-> InitialEntry]
  /\ hooks = [u \in Users |-> NoChats]
  /\ now = 1
  /\ revision = 0
  /\ mailbox = [b \in Subscribers |->
                 [open |-> FALSE, slot |-> NoRevision, last |-> NoRevision]]
  /\ observed = [a \in Accounts |-> NoObservation]
  /\ outbox = [u \in Users |-> {}]

-----------------------------------------------------------------------------
(* Predicates on an entry e *)

IsAnchor(u) == Expected[u] # NoAccount

EntryStale(e) ==
  e.seenAt = 0 \/ e.state = "unavailable" \/ now > e.seenAt + StaleAfter

Fresh(e) == e.state = "ok" /\ ~EntryStale(e)

RuntimeInventoryRecent(e) ==
  e.inventoryAt # 0 /\ now <= e.inventoryAt + InventoryGrace

(* Mutant: only an exact repetition is dropped, not what was overtaken. *)
AcceptsOvertaken(e, s) == s.at # e.at

(* A delayed or duplicated snapshot is acknowledged and dropped. *)
Accepts(e, s) == s.at > e.at

AccountChanges(e, s) ==
  /\ s.state = "ok"
  /\ e.good.account # NoAccount
  /\ e.good.account # s.account

ConsumerSwitch(u, e, s) == ~IsAnchor(u) /\ AccountChanges(e, s)

ReadsRuntime(u, s) == ~IsAnchor(u) /\ s.state = "ok" /\ "runtime" \in s.reads

RetainsRuntime(u, e, s) ==
  /\ ~IsAnchor(u)
  /\ s.state = "ok"
  /\ ~ConsumerSwitch(u, e, s)
  /\ "runtime" \notin s.reads
  /\ RuntimeInventoryRecent(e)

-----------------------------------------------------------------------------
(* The private runtime index: which threads a user has loaded, and which of *)
(* them may belong to an account the user has left.                         *)

NextQuarantine(u, e, s) ==
  LET loaded == Present(s.threads)
      active == Present(hooks[u])
      switch == ConsumerSwitch(u, e, s)
  IN  IF ReadsRuntime(u, s)
      THEN (e.quarantine \cap (loaded \cup active))
             \cup (IF switch \/ e.pending THEN loaded ELSE {})
             \cup (IF switch THEN active ELSE {})
      ELSE e.quarantine \cup (IF switch THEN active ELSE {})

(* Mutant: a boundary whose inventory failed is forgotten. *)
NextPendingForgotten(u, e, s) == ~ReadsRuntime(u, s) /\ ConsumerSwitch(u, e, s)

NextPending(u, e, s) ==
  ~ReadsRuntime(u, s) /\ (e.pending \/ ConsumerSwitch(u, e, s))

(* Mutant: the inventory at a boundary is indexed before it is quarantined. *)
NextRuntimeUnfiltered(u, e, s) ==
  IF ReadsRuntime(u, s) THEN s.threads
  ELSE IF RetainsRuntime(u, e, s) THEN e.runtime ELSE NoChats

NextRuntime(u, e, s) ==
  IF ReadsRuntime(u, s)
  THEN [t \in Sessions |->
          IF t \in NextQuarantine(u, e, s) THEN "absent" ELSE s.threads[t]]
  ELSE IF RetainsRuntime(u, e, s) THEN e.runtime ELSE NoChats

(* Mutant: the inventory at a boundary counts as one of the new account. *)
NextInventoryAtAnyRead(u, e, s) ==
  IF ReadsRuntime(u, s) THEN now
  ELSE IF RetainsRuntime(u, e, s) THEN e.inventoryAt ELSE 0

NextInventoryAt(u, e, s) ==
  IF ReadsRuntime(u, s) /\ ~ConsumerSwitch(u, e, s) THEN now
  ELSE IF RetainsRuntime(u, e, s) THEN e.inventoryAt ELSE 0

-----------------------------------------------------------------------------
(* The account an entry is attached to and the caches that follow it *)

SignsOut(s) == s.state \in {"signed_out", "api_key"}
(* Mutant: only a sign-out clears what was read from an account. *)
ForgetsOnSignOut(e, s) == SignsOut(s)

Forgets(e, s) == SignsOut(s) \/ AccountChanges(e, s)

NextMembership(u, e, s) ==
  IF IsAnchor(u) \/ s.state = "unavailable" THEN e.membership ELSE s.account

NextTokens(e, s) ==
  IF s.state = "ok" /\ "tokens" \in s.reads THEN [of |-> s.account, at |-> s.at]
  ELSE IF Forgets(e, s) THEN NoTokens ELSE e.tokens

NextRecent(e, s) ==
  IF s.state = "ok" /\ "recent" \in s.reads THEN s.account
  ELSE IF Forgets(e, s) THEN NoAccount ELSE e.recent

NextGood(e, s) ==
  IF s.state = "ok"
  THEN [at |-> s.at, account |-> s.account, quota |-> s.quota] ELSE e.good

NextVersionAt(e, s) ==
  IF "version" \in s.reads /\ s.at > e.versionAt THEN s.at ELSE e.versionAt

NextEntry(u, e, s) ==
  [at |-> s.at, state |-> s.state, seenAt |-> now,
   good |-> NextGood(e, s),
   goodAt |-> IF s.state = "ok" THEN now ELSE e.goodAt,
   membership |-> NextMembership(u, e, s),
   tokens |-> NextTokens(e, s),
   recent |-> NextRecent(e, s),
   versionAt |-> NextVersionAt(e, s),
   runtime |-> NextRuntime(u, e, s),
   inventoryAt |-> NextInventoryAt(u, e, s),
   quarantine |-> NextQuarantine(u, e, s),
   pending |-> NextPending(u, e, s),
   accountVersion |-> e.accountVersion + (IF Forgets(e, s) THEN 1 ELSE 0)]

-----------------------------------------------------------------------------
(* What is published of an account: its sources and its running chats.      *)
(* These operators take the entries es they read.                           *)

Belongs(es, u, a) ==
  IF IsAnchor(u) THEN Expected[u] = a ELSE es[u].membership = a

(* An anchor signed in to another account is no source. *)
FreshSources(es, a) ==
  {u \in Users : Belongs(es, u, a) /\ Fresh(es[u]) /\ es[u].good.account = a}

SourceConflict(es, a) ==
  \E u, v \in FreshSources(es, a) : es[u].good.quota # es[v].good.quota

LowestUser(S) == {u \in S : \A v \in S : u <= v}

(* Mutant: any fresh source takes over as soon as the former one is not. *)
HistoryCandidateAtOnce(es, a) ==
  LET fresh == FreshSources(es, a)
      prior == observed[a].user
  IN  IF \E u \in fresh : IsAnchor(u) THEN {u \in fresh : IsAnchor(u)}
      ELSE IF /\ prior \in fresh
              /\ es[prior].accountVersion = observed[a].accountVersion
      THEN {prior}
      ELSE LowestUser(fresh)

(* The source the history of a follows, as a set of at most one user: the   *)
(* anchor if it is fresh, else the source it already follows for as long as *)
(* that one is not stale, else the fresh source of lowest username.         *)
HistoryCandidate(es, a) ==
  LET fresh == FreshSources(es, a)
      prior == observed[a].user
      kept  == /\ prior # NoUser
               /\ es[prior].accountVersion = observed[a].accountVersion
               /\ es[prior].good.account = a
  IN  IF \E u \in fresh : IsAnchor(u) THEN {u \in fresh : IsAnchor(u)}
      ELSE IF kept /\ prior \in fresh THEN {prior}
      ELSE IF kept /\ now <= es[prior].goodAt + StaleAfter THEN {}
      ELSE LowestUser(fresh)

(* Consumers that disagree feed nothing; a correct anchor always does. *)
HistorySource(es, a) ==
  {u \in HistoryCandidate(es, a) : SourceConflict(es, a) => IsAnchor(u)}

Observation(es, u) ==
  [user |-> u, accountVersion |-> es[u].accountVersion,
   at |-> es[u].good.at, quota |-> es[u].good.quota]

(* Mutant: a user who left the account and came back is the same source. *)
SameUser(o, p) == o.user = p.user

SameSource(o, p) == o.user = p.user /\ o.accountVersion = p.accountVersion

UpdateFrom(es, u, a) ==
  [account |-> a, o |-> Observation(es, u),
   rebaseline |-> ~SameSource(Observation(es, u), observed[a])]

(* Accounts whose canonical observation is new, with that observation. *)
NewObservations(es) ==
  UNION {{UpdateFrom(es, u, a) : u \in {v \in HistorySource(es, a) :
                                         Observation(es, v) # observed[a]}} :
           a \in Accounts}

VisibleRuntime(u) ==
  IF Fresh(entries[u]) /\ RuntimeInventoryRecent(entries[u])
  THEN entries[u].runtime ELSE NoChats

VisibleHooks(u) ==
  IF entries[u].pending THEN NoChats
  ELSE [s \in Sessions |->
          IF s \in entries[u].quarantine THEN "absent" ELSE hooks[u][s]]

(* The sessions of u shown as running chats of account a. *)
ActiveChats(u, a) ==
  IF IsAnchor(u) \/ entries[u].membership # a THEN {}
  ELSE {s \in Sessions : "running" \in {VisibleRuntime(u)[s], VisibleHooks(u)[s]}}

ActiveChatsKnown(u) ==
  /\ ~IsAnchor(u)
  /\ Fresh(entries[u])
  /\ RuntimeInventoryRecent(entries[u])
  /\ ~entries[u].pending
  /\ entries[u].quarantine = {}

(* The users whose lifetime total may be shown for account a. *)
LifetimeSources(a) ==
  {u \in Users :
     /\ entries[u].tokens # NoTokens
     /\ Belongs(entries, u, a)
     /\ IsAnchor(u) => /\ entries[u].good.account = a
                       /\ entries[u].state \notin {"signed_out", "api_key"}}

-----------------------------------------------------------------------------
(* Actions *)

(* Replaces whatever the channels of the open subscribers hold. *)
Broadcast(r) ==
  [b \in Subscribers |->
     IF mailbox[b].open THEN [mailbox[b] EXCEPT !.slot = r] ELSE mailbox[b]]

Publish ==
  /\ revision' = revision + 1
  /\ mailbox' = Broadcast(revision + 1)

(* Mutant: the history updates are handed over without Hub.applyMu. *)
ApplyMuNotTaken == TRUE

ApplyMuFree == \A v \in Users : outbox[v] = {}

(* Hub.Apply of an accepted snapshot s of user u, up to Hub.mu.Unlock. *)
Apply(u, s) ==
  /\ ApplyMuFree
  /\ Accepts(entries[u], s)
  /\ entries' = [entries EXCEPT ![u] = NextEntry(u, entries[u], s)]
  /\ LET new == NewObservations(entries')
     IN  /\ outbox' = [outbox EXCEPT ![u] = new]
         /\ observed' = [a \in Accounts |->
              IF \E n \in new : n.account = a
              THEN (CHOOSE n \in new : n.account = a).o ELSE observed[a]]
  /\ Publish
  /\ UNCHANGED <<hooks, now>>

(* The tail of Apply hands over one update at a time. *)
FeedHistory(u, n) ==
  /\ n \in outbox[u]
  /\ outbox' = [outbox EXCEPT ![u] = @ \ {n}]
  /\ UNCHANGED <<entries, hooks, now, revision, mailbox, observed>>

Refresh ==
  /\ revision < MaxRevision
  /\ Publish
  /\ UNCHANGED <<entries, hooks, now, observed, outbox>>

(* The chats of the activity tracker change, which the hub reads whenever it *)
(* builds a status; nothing here is broadcast, that is Refresh.              *)
ActivityChange(u, s, c) ==
  /\ hooks[u][s] # c
  /\ hooks' = [hooks EXCEPT ![u][s] = c]
  /\ UNCHANGED <<entries, now, revision, mailbox, observed, outbox>>

Tick ==
  /\ now < MaxTime
  /\ now' = now + 1
  /\ UNCHANGED <<entries, hooks, revision, mailbox, observed, outbox>>

Subscribe(b) ==
  /\ ~mailbox[b].open
  /\ mailbox' = [mailbox EXCEPT ![b] =
                  [open |-> TRUE, slot |-> revision, last |-> NoRevision]]
  /\ UNCHANGED <<entries, hooks, now, revision, observed, outbox>>

Receive(b) ==
  /\ mailbox[b].slot # NoRevision
  /\ mailbox' = [mailbox EXCEPT ![b].slot = NoRevision,
                                ![b].last = mailbox[b].slot]
  /\ UNCHANGED <<entries, hooks, now, revision, observed, outbox>>

(* cancel deletes and closes the channel; the reader drains what it held. *)
Cancel(b) ==
  /\ mailbox[b].open
  /\ mailbox' = [mailbox EXCEPT ![b].open = FALSE]
  /\ UNCHANGED <<entries, hooks, now, revision, observed, outbox>>

Next ==
  \/ \E u \in Users, s \in Snapshots : Apply(u, s)
  \/ \E u \in Users : \E n \in outbox[u] : FeedHistory(u, n)
  \/ Refresh
  \/ \E u \in Users, s \in Sessions, c \in Chats : ActivityChange(u, s, c)
  \/ Tick
  \/ \E b \in Subscribers : Subscribe(b) \/ Receive(b) \/ Cancel(b)

Spec == Init /\ [][Next]_vars

-----------------------------------------------------------------------------
(* Properties *)

Entry ==
  [at : Nat, state : {"ok", "signed_out", "api_key", "unavailable"},
   seenAt : Nat,
   good : [at : Nat, account : Accounts \cup {NoAccount},
           quota : Quotas \cup {NoQuota}],
   goodAt : Nat, membership : Accounts \cup {NoAccount},
   tokens : [of : Accounts \cup {NoAccount}, at : Nat],
   recent : Accounts \cup {NoAccount}, versionAt : Nat,
   runtime : [Sessions -> Chats], inventoryAt : Nat,
   quarantine : SUBSET Sessions, pending : BOOLEAN, accountVersion : Nat]

SourceObservation ==
  [user : Users \cup {NoUser}, accountVersion : Nat, at : Nat,
   quota : Quotas \cup {NoQuota}]

Update == [account : Accounts, o : SourceObservation, rebaseline : BOOLEAN]

(* Every variable has the type of its Go counterpart. *)
TypeOK ==
  /\ entries \in [Users -> Entry]
  /\ hooks \in [Users -> [Sessions -> Chats]]
  /\ now \in Nat
  /\ revision \in Nat
  /\ mailbox \in [Subscribers -> [open : BOOLEAN, slot : Nat \cup {NoRevision},
                                  last : Nat \cup {NoRevision}]]
  /\ observed \in [Accounts -> SourceObservation]
  /\ outbox \in [Users -> SUBSET Update]

(* While the owner of loaded threads is unknown (a boundary whose inventory *)
(* failed) nothing of the user is shown, and a quarantined session is never *)
(* shown, not even through an inventory retained across a failed read.      *)
AmbiguousHidden ==
  \A u \in Users, a \in Accounts :
    /\ entries[u].pending => ActiveChats(u, a) = {}
    /\ ActiveChats(u, a) \cap entries[u].quarantine = {}

(* A lifetime total, a thread-name index and a membership never outlive the *)
(* account they were read for, whatever optional reads fail, and the total  *)
(* shown for an account was read from that account.                         *)
CachesFollowAccount ==
  /\ \A u \in Users :
       LET e == entries[u]
       IN  /\ e.tokens.of \in {NoAccount, e.good.account}
           /\ e.recent \in {NoAccount, e.good.account}
           /\ e.membership \in {NoAccount, e.good.account}
  /\ \A a \in Accounts : \A u \in LifetimeSources(a) : entries[u].tokens.of = a

(* Whatever order snapshots arrive in, an entry moves forward in collector  *)
(* time, and its last good data is never replaced by an older observation.  *)
NoRollback ==
  [][\A u \in Users :
       /\ entries'[u].at >= entries[u].at
       /\ entries'[u].good # entries[u].good =>
            entries'[u].good.at > entries[u].at
       /\ entries'[u].versionAt >= entries[u].versionAt]_vars

(* A subscriber that is slow misses intermediate revisions but never the    *)
(* newest one: it has received it or it is in its channel.                  *)
SubscriberCurrent ==
  \A b \in Subscribers : mailbox[b].open =>
    \/ mailbox[b].slot = revision
    \/ mailbox[b].slot = NoRevision /\ mailbox[b].last = revision
=============================================================================
