----------------------------- MODULE HubProofs -----------------------------
(***************************************************************************)
(* The safety of the hub for any users, accounts, sessions, subscribers    *)
(* and snapshots, in any order and at any time; what the history hears     *)
(* from it; and what it shows of a user who logs in to another account.    *)
(***************************************************************************)
EXTENDS AccountBoundary, HubSources, TLAPS

-----------------------------------------------------------------------------
(* What one accepted snapshot s makes of the entry e of user u *)

(* Whatever a collector reports, with timestamps of its own clock. *)
Report ==
  {s \in [at : Nat, state : {"ok", "signed_out", "api_key", "unavailable"},
          account : Accounts \cup {NoAccount}, quota : Quotas \cup {NoQuota},
          reads : SUBSET {"runtime", "tokens", "recent", "version"},
          threads : [Sessions -> Chats]] :
     IF s.state = "ok" THEN s.account \in Accounts ELSE s.account = NoAccount}

LEMMA SnapshotsAreReports == Snapshots \subseteq Report
<1>1. ASSUME NEW s \in OkSnapshots PROVE s \in Report
  <2>1. /\ s \in [at : Times, state : {"ok"}, account : Accounts, quota : Quotas,
                  reads : SUBSET Reads, threads : [Sessions -> Chats]]
        /\ SUBSET Reads \subseteq SUBSET {"runtime", "tokens", "recent", "version"}
    BY ReadsAssumption DEF OkSnapshots
  <2> QED
    BY <2>1 DEF Report, Times
<1>2. ASSUME NEW s \in OtherSnapshots PROVE s \in Report
  <2>1. NoChats \in [Sessions -> Chats]
    BY DEF NoChats, Chats
  <2> QED
    BY <1>2, <2>1, ReadsAssumption DEF OtherSnapshots, Report, Times
<1> QED
  BY <1>1, <1>2 DEF Snapshots

(* The private runtime index keeps its types. *)
LEMMA RuntimeTypes ==
  ASSUME NEW u \in Users, NEW e \in Entry, NEW s \in Report,
         hooks \in [Users -> [Sessions -> Chats]], now \in Nat
  PROVE  /\ NextQuarantine(u, e, s) \in SUBSET Sessions
         /\ NextPending(u, e, s) \in BOOLEAN
         /\ NextRuntime(u, e, s) \in [Sessions -> Chats]
         /\ NextInventoryAt(u, e, s) \in Nat
<1>1. e.quarantine \in SUBSET Sessions /\ e.pending \in BOOLEAN
      /\ e.runtime \in [Sessions -> Chats] /\ e.inventoryAt \in Nat
  BY DEF Entry
<1>2. NextQuarantine(u, e, s) \in SUBSET Sessions
  BY <1>1 DEF NextQuarantine, Present
<1>3. NextPending(u, e, s) \in BOOLEAN
  BY DEF NextPending
<1>4. s.threads \in [Sessions -> Chats] /\ NoChats \in [Sessions -> Chats]
  BY DEF Report, NoChats, Chats
<1>5. NextRuntime(u, e, s) \in [Sessions -> Chats]
  BY <1>1, <1>4 DEF NextRuntime, Chats
<1>6. NextInventoryAt(u, e, s) \in Nat
  BY <1>1 DEF NextInventoryAt
<1> QED
  BY <1>2, <1>3, <1>5, <1>6

LEMMA EntryTypes ==
  ASSUME NEW u \in Users, NEW e \in Entry, NEW s \in Report,
         hooks \in [Users -> [Sessions -> Chats]], now \in Nat
  PROVE  NextEntry(u, e, s) \in Entry
<1>1. s.at \in Nat /\ s.state \in {"ok", "signed_out", "api_key", "unavailable"}
  BY DEF Report
<1>2. NextGood(e, s) \in [at : Nat, account : Accounts \cup {NoAccount},
                          quota : Quotas \cup {NoQuota}]
  BY <1>1 DEF Report, NextGood, Entry
<1>3. NextMembership(u, e, s) \in Accounts \cup {NoAccount}
  BY DEF Report, NextMembership, Entry
<1>4. NextTokens(e, s) \in [of : Accounts \cup {NoAccount}, at : Nat]
  BY <1>1 DEF Report, NextTokens, NoTokens, Entry
<1>5. NextRecent(e, s) \in Accounts \cup {NoAccount}
  BY DEF Report, NextRecent, Entry
<1>6. NextVersionAt(e, s) \in Nat
  BY <1>1 DEF NextVersionAt, Entry
<1>7. e.goodAt \in Nat /\ e.accountVersion \in Nat
  BY DEF Entry
<1>8. (IF s.state = "ok" THEN now ELSE e.goodAt) \in Nat
      /\ e.accountVersion + (IF Forgets(e, s) THEN 1 ELSE 0) \in Nat
  BY <1>7
<1> QED
  BY <1>1, <1>2, <1>3, <1>4, <1>5, <1>6, <1>8, RuntimeTypes DEF NextEntry, Entry

(* A session whose owner is in doubt is not in the runtime index: none is   *)
(* while an inventory is owed, and no quarantined one ever.                 *)
Clean(e) ==
  /\ e.pending => e.runtime = NoChats
  /\ \A t \in Sessions : t \in e.quarantine => e.runtime[t] = "absent"

LEMMA CleanNext ==
  ASSUME NEW u \in Users, NEW e \in Entry, NEW s \in Report, Clean(e)
  PROVE  Clean(NextEntry(u, e, s))
<1> DEFINE f == NextEntry(u, e, s)
<1>1. /\ f.pending = NextPending(u, e, s) /\ f.runtime = NextRuntime(u, e, s)
      /\ f.quarantine = NextQuarantine(u, e, s)
  BY DEF NextEntry
<1>2. CASE ReadsRuntime(u, s)
  BY <1>1, <1>2 DEF Clean, NextPending, NextRuntime
<1>3. CASE ~ReadsRuntime(u, s) /\ RetainsRuntime(u, e, s)
  BY <1>1, <1>3 DEF Clean, NextPending, NextRuntime, NextQuarantine, RetainsRuntime
<1>4. CASE ~ReadsRuntime(u, s) /\ ~RetainsRuntime(u, e, s)
  BY <1>1, <1>4 DEF Clean, NextRuntime, NoChats
<1> QED
  BY <1>2, <1>3, <1>4

(* A cache belongs to the account the entry was last attached to; an anchor *)
(* has no membership of its own.                                            *)
Attached(u, e) ==
  /\ e.tokens = NoTokens \/ (e.tokens.of \in Accounts /\ e.tokens.of = e.good.account)
  /\ e.recent \in {NoAccount, e.good.account}
  /\ e.membership \in {NoAccount, e.good.account}
  /\ IsAnchor(u) => e.membership = NoAccount

LEMMA AttachedNext ==
  ASSUME NEW u \in Users, NEW e \in Entry, NEW s \in Report, Attached(u, e)
  PROVE  Attached(u, NextEntry(u, e, s))
<1> DEFINE f == NextEntry(u, e, s)
<1>1. /\ f.tokens = NextTokens(e, s) /\ f.recent = NextRecent(e, s)
      /\ f.membership = NextMembership(u, e, s) /\ f.good = NextGood(e, s)
  BY DEF NextEntry
<1>2. CASE s.state = "ok"
  <2>1. f.good.account = s.account /\ s.account \in Accounts
    BY <1>1, <1>2 DEF Report, NextGood
  <2>2. e.good.account \in {NoAccount, s.account} \/ Forgets(e, s)
    BY <1>2 DEF Forgets, AccountChanges
  <2>3. f.tokens = NoTokens \/ (f.tokens.of \in Accounts /\ f.tokens.of = s.account)
    <3>1. CASE "tokens" \in s.reads
      <4>1. f.tokens = [of |-> s.account, at |-> s.at]
        BY <1>1, <1>2, <3>1 DEF NextTokens
      <4> QED
        BY <2>1, <4>1
    <3>2. CASE "tokens" \notin s.reads /\ Forgets(e, s)
      BY <1>1, <3>2 DEF NextTokens
    <3>3. CASE "tokens" \notin s.reads /\ ~Forgets(e, s)
      <4>1. f.tokens = e.tokens
        BY <1>1, <3>3 DEF NextTokens
      <4> HIDE DEF f
      <4> QED
        BY <2>1, <2>2, <3>3, <4>1, AccountsAssumption DEF Attached
    <3> QED
      BY <3>1, <3>2, <3>3
  <2>4. f.recent \in {NoAccount, s.account}
    BY <1>1, <1>2, <2>2 DEF Attached, NextRecent
  <2>5. IF IsAnchor(u) THEN f.membership = NoAccount ELSE f.membership = s.account
    BY <1>1, <1>2 DEF Attached, NextMembership
  <2> QED
    BY <2>1, <2>3, <2>4, <2>5 DEF Attached
<1>3. CASE s.state # "ok"
  <2>1. f.good = e.good /\ s.account = NoAccount
    BY <1>1, <1>3 DEF Report, NextGood
  <2>2. f.tokens \in {NoTokens, e.tokens} /\ f.recent \in {NoAccount, e.recent}
    BY <1>1, <1>3 DEF NextTokens, NextRecent
  <2>3. f.membership \in {NoAccount, e.membership}
    BY <1>1, <2>1 DEF NextMembership
  <2> HIDE DEF f
  <2>4. Attached(u, f)
    BY <2>1, <2>2, <2>3 DEF Attached
  <2> QED
    BY <2>4 DEF f
<1> QED
  BY <1>2, <1>3

-----------------------------------------------------------------------------
(* Type correctness *)

LEMMA UpdateTypes ==
  ASSUME TypeOK, NEW es \in [Users -> Entry]
  PROVE  NewObservations(es) \in SUBSET Update
<1>1. ASSUME NEW a \in Accounts, NEW u \in HistorySource(es, a)
      PROVE  UpdateFrom(es, u, a) \in Update
  <2>1. u \in Users
    <3>1. u \in HistoryCandidate(es, a)
      BY <1>1 DEF HistorySource
    <3>2. observed[a].user \in FreshSources(es, a) => observed[a].user \in Users
      BY DEF FreshSources
    <3> QED
      BY <3>1, <3>2 DEF HistoryCandidate, FreshSources, LowestUser
  <2>2. Observation(es, u) \in SourceObservation
    BY <2>1 DEF Observation, SourceObservation, Entry
  <2> QED
    BY <2>2 DEF UpdateFrom, Update, SameSource
<1> QED
  BY <1>1 DEF NewObservations

LEMMA BroadcastTypes ==
  ASSUME TypeOK, NEW r \in Nat
  PROVE  Broadcast(r) \in [Subscribers -> [open : BOOLEAN, slot : Nat \cup {NoRevision},
                                           last : Nat \cup {NoRevision}]]
  BY DEF Broadcast, TypeOK

LEMMA TypeInit == Init => TypeOK
<1> SUFFICES ASSUME Init PROVE TypeOK
  OBVIOUS
<1>1. NoChats \in [Sessions -> Chats]
  BY DEF NoChats, Chats
<1>2. InitialEntry \in Entry
  BY <1>1 DEF InitialEntry, Entry, NoGood, NoTokens
<1>3. NoObservation \in SourceObservation
  BY DEF NoObservation, SourceObservation
<1> QED
  BY <1>1, <1>2, <1>3 DEF Init, TypeOK, NoRevision

LEMMA ApplyTypes ==
  ASSUME TypeOK, NEW u \in Users, NEW s \in Report, Apply(u, s)
  PROVE  TypeOK'
<1>1. NextEntry(u, entries[u], s) \in Entry
  BY EntryTypes DEF TypeOK
<1>2. entries' \in [Users -> Entry]
  BY <1>1 DEF Apply, TypeOK
<1>3. NewObservations(entries') \in SUBSET Update
  BY <1>2, UpdateTypes
<1>4. outbox' \in [Users -> SUBSET Update]
  BY <1>3 DEF Apply, TypeOK
<1>5. observed' \in [Accounts -> SourceObservation]
  <2> DEFINE new == NewObservations(entries')
  <2>1. observed' = [a \in Accounts |->
            IF \E n \in new : n.account = a
            THEN (CHOOSE n \in new : n.account = a).o ELSE observed[a]]
    BY DEF Apply
  <2>2. ASSUME NEW a \in Accounts, \E n \in new : n.account = a
        PROVE  (CHOOSE n \in new : n.account = a).o \in SourceObservation
    <3>1. (CHOOSE n \in new : n.account = a) \in Update
      BY <1>3, <2>2
    <3> QED
      BY <3>1 DEF Update
  <2> HIDE DEF new
  <2> QED
    BY <2>1, <2>2 DEF TypeOK
<1>6. revision' \in Nat /\ mailbox' = Broadcast(revision + 1)
  BY DEF Apply, Publish, TypeOK
<1>7. revision + 1 \in Nat
  BY DEF TypeOK
<1> QED
  BY <1>2, <1>4, <1>5, <1>6, <1>7, BroadcastTypes DEF Apply, TypeOK

LEMMA TypeStep == TypeOK /\ [Next]_vars => TypeOK'
<1> SUFFICES ASSUME TypeOK, [Next]_vars PROVE TypeOK'
  OBVIOUS
<1>1. ASSUME NEW u \in Users, NEW s \in Snapshots, Apply(u, s) PROVE TypeOK'
  BY <1>1, ApplyTypes, SnapshotsAreReports
<1>2. ASSUME NEW u \in Users, NEW n \in outbox[u], FeedHistory(u, n) PROVE TypeOK'
  BY <1>2 DEF FeedHistory, TypeOK
<1>3. CASE Refresh
  <2>1. revision + 1 \in Nat
    BY DEF TypeOK
  <2> QED
    BY <1>3, <2>1, BroadcastTypes DEF Refresh, Publish, TypeOK
<1>4. ASSUME NEW u \in Users, NEW t \in Sessions, NEW c \in Chats,
             ActivityChange(u, t, c)
      PROVE  TypeOK'
  BY <1>4 DEF ActivityChange, TypeOK
<1>5. CASE Tick
  BY <1>5 DEF Tick, TypeOK
<1>6. ASSUME NEW b \in Subscribers, Subscribe(b) \/ Receive(b) \/ Cancel(b)
      PROVE  TypeOK'
  <2>1. mailbox' \in [Subscribers -> [open : BOOLEAN, slot : Nat \cup {NoRevision},
                                      last : Nat \cup {NoRevision}]]
    <3>1. CASE Subscribe(b)
      BY <3>1 DEF Subscribe, TypeOK
    <3>2. CASE Receive(b)
      BY <3>2 DEF Receive, TypeOK
    <3>3. CASE Cancel(b)
      BY <3>3 DEF Cancel, TypeOK
    <3> QED
      BY <1>6, <3>1, <3>2, <3>3
  <2> QED
    BY <1>6, <2>1 DEF Subscribe, Receive, Cancel, TypeOK
<1>7. CASE UNCHANGED vars
  BY <1>7 DEF vars, TypeOK
<1> QED
  BY <1>1, <1>2, <1>3, <1>4, <1>5, <1>6, <1>7 DEF Next

(* The variables keep their types. *)
THEOREM TypeCorrect == Spec => []TypeOK
  BY TypeInit, TypeStep, PTL DEF Spec

-----------------------------------------------------------------------------
(* Invariants of the entries.  Only Apply changes an entry. *)

EntriesOK == \A u \in Users : Clean(entries[u]) /\ Attached(u, entries[u])

LEMMA EntriesInit == Init => EntriesOK
  BY DEF Init, EntriesOK, Clean, Attached, InitialEntry, NoTokens, NoGood, NoChats

LEMMA OnlyApply ==
  ASSUME [Next]_vars
  PROVE  \/ UNCHANGED entries
         \/ \E u \in Users, s \in Snapshots : Apply(u, s)
  BY DEF Next, vars, FeedHistory, Refresh, ActivityChange, Tick, Subscribe, Receive, Cancel

LEMMA ApplyEntries ==
  ASSUME TypeOK, EntriesOK, NEW u \in Users, NEW s \in Report, Apply(u, s)
  PROVE  EntriesOK'
<1>1. entries' = [entries EXCEPT ![u] = NextEntry(u, entries[u], s)]
  BY DEF Apply
<1>2. Clean(NextEntry(u, entries[u], s)) /\ Attached(u, NextEntry(u, entries[u], s))
  BY CleanNext, AttachedNext DEF TypeOK, EntriesOK
<1> QED
  BY <1>1, <1>2 DEF EntriesOK, TypeOK

LEMMA EntriesStep == TypeOK /\ EntriesOK /\ [Next]_vars => EntriesOK'
<1> SUFFICES ASSUME TypeOK, EntriesOK, [Next]_vars PROVE EntriesOK'
  OBVIOUS
<1>1. ASSUME NEW u \in Users, NEW s \in Snapshots, Apply(u, s) PROVE EntriesOK'
  BY <1>1, ApplyEntries, SnapshotsAreReports
<1>2. CASE UNCHANGED entries
  BY <1>2 DEF EntriesOK
<1> QED
  BY <1>1, <1>2, OnlyApply

LEMMA EntriesInvariant == Spec => [](TypeOK /\ EntriesOK)
  BY TypeInit, TypeStep, EntriesInit, EntriesStep, PTL DEF Spec

(* Whatever snapshots, failed reads and hooks reach the hub, a session that *)
(* may belong to an account its user has left is shown for no account.      *)
THEOREM AmbiguityStaysHidden == Spec => []AmbiguousHidden
<1>1. ASSUME TypeOK, EntriesOK, NEW u \in Users, NEW a \in Accounts
      PROVE  /\ entries[u].pending => ActiveChats(u, a) = {}
             /\ ActiveChats(u, a) \cap entries[u].quarantine = {}
  <2>1. Clean(entries[u])
    BY <1>1 DEF EntriesOK
  <2>2. ASSUME NEW t \in Sessions, entries[u].pending
        PROVE  VisibleRuntime(u)[t] = "absent" /\ VisibleHooks(u)[t] = "absent"
    BY <2>1, <2>2 DEF VisibleRuntime, VisibleHooks, Clean, NoChats
  <2>3. ASSUME NEW t \in Sessions, t \in entries[u].quarantine
        PROVE  VisibleRuntime(u)[t] = "absent" /\ VisibleHooks(u)[t] = "absent"
    BY <2>1, <2>3 DEF VisibleRuntime, VisibleHooks, Clean, NoChats
  <2> QED
    BY <2>2, <2>3 DEF ActiveChats
<1>2. TypeOK /\ EntriesOK => AmbiguousHidden
  BY <1>1 DEF AmbiguousHidden
<1> QED
  BY <1>2, EntriesInvariant, PTL

(* No total, thread index or membership survives the account it was read    *)
(* for, and the total shown for an account was read from it.                *)
THEOREM CachesNeverCross == Spec => []CachesFollowAccount
<1>1. ASSUME TypeOK, EntriesOK, NEW u \in Users
      PROVE  /\ entries[u].tokens.of \in {NoAccount, entries[u].good.account}
             /\ entries[u].recent \in {NoAccount, entries[u].good.account}
             /\ entries[u].membership \in {NoAccount, entries[u].good.account}
  BY <1>1 DEF EntriesOK, Attached, NoTokens
<1>2. ASSUME TypeOK, EntriesOK, NEW a \in Accounts, NEW u \in LifetimeSources(a)
      PROVE  entries[u].tokens.of = a
  <2>1. /\ u \in Users /\ entries[u].tokens # NoTokens /\ Belongs(entries, u, a)
        /\ IsAnchor(u) => entries[u].good.account = a
    BY DEF LifetimeSources
  <2>2. Attached(u, entries[u])
    BY <1>2, <2>1 DEF EntriesOK
  <2>3. entries[u].good.account = a
    BY <2>1, <2>2, AccountsAssumption DEF Belongs, Attached
  <2> QED
    BY <2>1, <2>2, <2>3 DEF Attached
<1>3. TypeOK /\ EntriesOK => CachesFollowAccount
  BY <1>1, <1>2 DEF CachesFollowAccount
<1> QED
  BY <1>3, EntriesInvariant, PTL

(* Late and repeated snapshots are without effect: an entry only moves      *)
(* forward in collector time.                                               *)
THEOREM NeverBack == Spec => NoRollback
<1> DEFINE Forward(u) ==
       /\ entries'[u].at >= entries[u].at
       /\ entries'[u].good # entries[u].good =>
            entries'[u].good.at > entries[u].at
       /\ entries'[u].versionAt >= entries[u].versionAt
<1>1. ASSUME TypeOK, [Next]_vars, NEW v \in Users PROVE Forward(v)
  <2>1. entries[v] \in Entry /\ entries[v].at \in Nat /\ entries[v].versionAt \in Nat
    BY <1>1 DEF TypeOK, Entry
  <2>2. ASSUME NEW u \in Users, NEW s \in Snapshots, Apply(u, s) PROVE Forward(v)
    <3>1. CASE u = v
      <4>1. entries'[v] = NextEntry(v, entries[v], s) /\ s.at > entries[v].at
        BY <1>1, <2>2, <3>1 DEF Apply, Accepts, TypeOK
      <4>2. s.at \in Nat
        BY SnapshotsAreReports DEF Report
      <4>3. /\ entries'[v].at = s.at /\ entries'[v].good = NextGood(entries[v], s)
            /\ entries'[v].versionAt = NextVersionAt(entries[v], s)
        BY <4>1 DEF NextEntry
      <4> QED
        BY <2>1, <4>1, <4>2, <4>3 DEF NextGood, NextVersionAt
    <3>2. CASE u # v
      BY <1>1, <2>1, <2>2, <3>2 DEF Apply, TypeOK
    <3> QED
      BY <3>1, <3>2
  <2>3. CASE UNCHANGED entries
    BY <2>1, <2>3
  <2> QED
    BY <1>1, <2>2, <2>3, OnlyApply
<1>2. TypeOK /\ [Next]_vars => [\A u \in Users : Forward(u)]_vars
  BY <1>1
<1> QED
  BY <1>2, TypeCorrect, PTL DEF Spec, NoRollback

-----------------------------------------------------------------------------
(* Subscribers.  A full channel holds the newest revision, which its reader  *)
(* has not seen; an empty one means that the reader has.                     *)

Mailbox(m, r) ==
  m.open => \/ m.slot = r /\ m.last < r
            \/ m.slot = NoRevision /\ m.last = r

Mailboxes == \A b \in Subscribers : Mailbox(mailbox[b], revision)

LEMMA MailboxesInit == Init => Mailboxes
  BY DEF Init, Mailboxes, Mailbox

LEMMA PublishStep == TypeOK /\ Mailboxes /\ Publish => Mailboxes'
<1> SUFFICES ASSUME TypeOK, Mailboxes, Publish, NEW b \in Subscribers
             PROVE  Mailbox(mailbox[b], revision)'
  BY DEF Mailboxes
<1>1. /\ mailbox[b].open \in BOOLEAN /\ mailbox[b].slot \in Nat \cup {NoRevision}
      /\ mailbox[b].last \in Nat \cup {NoRevision} /\ revision \in Nat
  BY DEF TypeOK
<1>2. CASE mailbox[b].open
  <2>1. mailbox'[b].slot = revision + 1 /\ mailbox'[b].last = mailbox[b].last
    BY <1>2 DEF Publish, Broadcast, TypeOK
  <2> QED
    BY <1>1, <1>2, <2>1 DEF Publish, Mailboxes, Mailbox, NoRevision
<1>3. CASE ~mailbox[b].open
  BY <1>3 DEF Publish, Broadcast, Mailbox
<1> QED
  BY <1>1, <1>2, <1>3

LEMMA MailboxesStep == TypeOK /\ Mailboxes /\ [Next]_vars => Mailboxes'
<1> SUFFICES ASSUME TypeOK, Mailboxes, [Next]_vars PROVE Mailboxes'
  OBVIOUS
<1>1. CASE Publish
  BY <1>1, PublishStep
<1>2. ASSUME NEW b \in Subscribers, Subscribe(b) PROVE Mailboxes'
  BY <1>2 DEF Subscribe, Mailboxes, Mailbox, TypeOK, NoRevision
<1>3. ASSUME NEW b \in Subscribers, Receive(b) PROVE Mailboxes'
  BY <1>3 DEF Receive, Mailboxes, Mailbox, TypeOK, NoRevision
<1>4. ASSUME NEW b \in Subscribers, Cancel(b) PROVE Mailboxes'
  BY <1>4 DEF Cancel, Mailboxes, Mailbox, TypeOK
<1>5. CASE UNCHANGED <<mailbox, revision>>
  BY <1>5 DEF Mailboxes, Mailbox
<1> QED
  BY <1>1, <1>2, <1>3, <1>4, <1>5
     DEF Next, vars, Apply, FeedHistory, Refresh, ActivityChange, Tick

LEMMA MailboxesInvariant == Spec => [](TypeOK /\ Mailboxes)
  BY TypeInit, TypeStep, MailboxesInit, MailboxesStep, PTL DEF Spec

(* However slow a subscriber is, the newest revision has reached it or waits *)
(* in its channel.                                                           *)
THEOREM NewestReachesAll == Spec => []SubscriberCurrent
<1>1. Mailboxes => SubscriberCurrent
  BY DEF Mailboxes, Mailbox, SubscriberCurrent
<1> QED
  BY <1>1, MailboxesInvariant, PTL
-----------------------------------------------------------------------------
(* What the history hears, and from whom *)

LEMMA SourceFacts ==
  ASSUME NEW es, NEW a \in Accounts, NEW u \in HistorySource(es, a)
  PROVE  u \in Users /\ es[u].good.account = a /\ u \in HistoryCandidate(es, a)
<1>1. u \in HistoryCandidate(es, a)
  BY DEF HistorySource
<1>2. u \in FreshSources(es, a)
  BY <1>1 DEF HistoryCandidate, LowestUser
<1> QED
  BY <1>1, <1>2 DEF FreshSources

(* An account has one anchor, and usernames are ordered. *)
LEMMA OneSource ==
  ASSUME NEW es, NEW a \in Accounts, NEW u \in HistorySource(es, a),
         NEW v \in HistorySource(es, a)
  PROVE  u = v
<1> DEFINE fresh == FreshSources(es, a)
<1>1. u \in HistoryCandidate(es, a) /\ v \in HistoryCandidate(es, a)
  BY SourceFacts
<1>2. fresh \subseteq Users /\ \A w \in fresh : IsAnchor(w) => Expected[w] = a
  BY DEF FreshSources, Belongs
<1>3. ASSUME NEW x \in LowestUser(fresh), NEW y \in LowestUser(fresh) PROVE x = y
  <2>1. x <= y /\ y <= x
    BY DEF LowestUser
  <2>2. x \in Nat /\ y \in Nat
    BY <1>2, UsersAssumption DEF LowestUser
  <2> QED
    BY <2>1, <2>2
<1>4. ASSUME NEW x \in fresh, NEW y \in fresh, IsAnchor(x), IsAnchor(y) PROVE x = y
  BY <1>2, <1>4, ExpectedAssumption DEF IsAnchor
<1>5. CASE \E w \in fresh : IsAnchor(w)
  BY <1>1, <1>4, <1>5 DEF HistoryCandidate
<1>6. CASE ~ \E w \in fresh : IsAnchor(w)
  BY <1>1, <1>3, <1>6 DEF HistoryCandidate
<1> QED
  BY <1>5, <1>6

LEMMA UpdatesAre ==
  ASSUME NEW es, NEW n \in NewObservations(es)
  PROVE  /\ n.account \in Accounts
         /\ \E u \in HistorySource(es, n.account) :
              /\ n = UpdateFrom(es, u, n.account)
              /\ Observation(es, u) # observed[n.account]
<1>1. PICK a \in Accounts : \E u \in HistorySource(es, a) :
        n = UpdateFrom(es, u, a) /\ Observation(es, u) # observed[a]
  BY DEF NewObservations
<1>2. n.account = a
  BY <1>1 DEF UpdateFrom
<1> QED
  BY <1>1, <1>2

LEMMA OneUpdate ==
  ASSUME NEW es, NEW n \in NewObservations(es), NEW m \in NewObservations(es),
         n.account = m.account
  PROVE  n = m
  BY UpdatesAre, OneSource

(* What an accepted snapshot decides for account a. *)
LEMMA Decisions ==
  ASSUME TypeOK, NEW u \in Users, NEW s, Apply(u, s)
  PROVE  /\ \A v \in Users : outbox[v] = {}
         /\ outbox'[u] = NewObservations(entries')
         /\ \A v \in Users \ {u} : outbox'[v] = {}
         /\ \A n \in NewObservations(entries') : observed'[n.account] = n.o
         /\ \A a \in Accounts :
              (~ \E n \in NewObservations(entries') : n.account = a) => observed'[a] = observed[a]
<1> DEFINE new == NewObservations(entries')
<1>1. \A v \in Users : outbox[v] = {}
  BY DEF Apply, ApplyMuFree
<1>2. outbox' = [outbox EXCEPT ![u] = new]
      /\ observed' = [a \in Accounts |->
              IF \E n \in new : n.account = a
              THEN (CHOOSE n \in new : n.account = a).o ELSE observed[a]]
  BY DEF Apply
<1>3. ASSUME NEW n \in new PROVE observed'[n.account] = n.o
  <2>1. n.account \in Accounts
    BY UpdatesAre
  <2>2. PICK m : m = (CHOOSE k \in new : k.account = n.account)
    OBVIOUS
  <2>3. m \in new /\ m.account = n.account
    BY <2>2
  <2>4. m = n
    BY <2>3, OneUpdate
  <2> HIDE DEF new
  <2> QED
    BY <1>2, <2>1, <2>2, <2>4
<1> HIDE DEF new
<1>4. \A a \in Accounts : (~ \E n \in new : n.account = a) => observed'[a] = observed[a]
  BY <1>2
<1>5. outbox'[u] = new /\ \A v \in Users \ {u} : outbox'[v] = {}
  BY <1>1, <1>2 DEF TypeOK
<1> QED
  BY <1>1, <1>3, <1>4, <1>5 DEF new

(* The version of an entry changes with the account, and only then. *)
LEMMA VersionNext ==
  ASSUME NEW u \in Users, NEW e \in Entry, NEW s \in Report, NEW f,
         f = NextEntry(u, e, s), Accepts(e, s), e.good.at <= e.at
  PROVE  /\ f.accountVersion \in Nat /\ f.accountVersion >= e.accountVersion
         /\ f.accountVersion = e.accountVersion <=> ~Forgets(e, s)
         /\ f.state = s.state /\ f.good.at <= f.at
         /\ f.good = e.good \/ f.good.at > e.good.at
         /\ s.state = "ok" => f.good.account = s.account
         /\ s.state # "ok" => f.good = e.good
<1>1. /\ f.accountVersion = e.accountVersion + (IF Forgets(e, s) THEN 1 ELSE 0)
      /\ f.state = s.state /\ f.good = NextGood(e, s) /\ f.at = s.at
  BY DEF NextEntry
<1>2. e.accountVersion \in Nat /\ e.good.at \in Nat /\ e.at \in Nat
  BY DEF Entry
<1>3. s.at \in Nat /\ s.at > e.at
  BY DEF Report, Accepts
<1>4. CASE Forgets(e, s)
  <2>1. f.accountVersion = e.accountVersion + 1
    BY <1>1, <1>4
  <2> QED
    BY <1>1, <1>2, <1>3, <1>4, <2>1 DEF NextGood
<1>5. CASE ~Forgets(e, s)
  <2>1. f.accountVersion = e.accountVersion
    BY <1>1, <1>2, <1>5
  <2> QED
    BY <1>1, <1>2, <1>3, <1>5, <2>1 DEF NextGood
<1> QED
  BY <1>4, <1>5

(* The entry e of the source of a, whose last observation was o and which   *)
(* has stayed in the account if b.                                          *)
Follows(a, o, e, b) ==
  /\ e.accountVersion >= o.accountVersion
  /\ b <=> (e.accountVersion = o.accountVersion)
  /\ e.accountVersion = o.accountVersion =>
       /\ e.good.account = a /\ e.good.at >= o.at
       /\ e.good.at = o.at => e.good.quota = o.quota

Followed ==
  /\ unbroken \in [Accounts -> BOOLEAN]
  /\ \A u \in Users : entries[u].good.at <= entries[u].at
  /\ \A a \in Accounts : observed[a].user # NoUser =>
       Follows(a, observed[a], entries[observed[a].user], unbroken[a])

(* An update that waits is the last one decided for its account, and        *)
(* continues what the tracker was handed unless it says otherwise.          *)
Continues(n) == SameSource(n.o, fed[n.account]) /\ n.o.at > fed[n.account].at

Handed ==
  /\ fed \in [Accounts -> SourceObservation]
  /\ \A u \in Users : \A n \in outbox[u] :
       n.o = observed[n.account] /\ (n.rebaseline \/ Continues(n))
  /\ \A u, v \in Users : \A n \in outbox[u], m \in outbox[v] :
       n.account = m.account => u = v /\ n = m
  /\ \A a \in Accounts :
       fed[a] = observed[a] \/ \E u \in Users : \E n \in outbox[u] : n.account = a

LEMMA SourcesImplementHub == [SourcesNext]_sourceVars => [Next]_vars
  BY DEF SourcesNext, ApplyTracked, FeedTracked, Next, sourceVars, vars

LEMMA FollowsNext ==
  ASSUME NEW a \in Accounts, NEW o \in SourceObservation, NEW u \in Users,
         NEW e \in Entry, NEW s \in Report, NEW b \in BOOLEAN, NEW f, NEW c \in BOOLEAN,
         f = NextEntry(u, e, s), Accepts(e, s), e.good.at <= e.at,
         Follows(a, o, e, b), c <=> (b /\ ~Leaves(s, a))
  PROVE  Follows(a, o, f, c)
<1>1. /\ f.accountVersion \in Nat /\ f.accountVersion >= e.accountVersion
      /\ f.good = e.good \/ f.good.at > e.good.at
      /\ s.state = "ok" => f.good.account = s.account
      /\ s.state # "ok" => f.good = e.good
  BY VersionNext
<1>2. f.accountVersion = e.accountVersion <=> ~Forgets(e, s)
  BY VersionNext
<1>3. /\ e.accountVersion \in Nat /\ o.accountVersion \in Nat /\ e.accountVersion >= o.accountVersion
      /\ e.good.at \in Nat /\ o.at \in Nat
  BY DEF Entry, SourceObservation, Follows
<1>4. CASE e.accountVersion = o.accountVersion
  <2>1. b /\ e.good.account = a
    BY <1>4 DEF Follows
  <2>2. Forgets(e, s) <=> Leaves(s, a)
    BY <2>1, AccountsAssumption DEF Forgets, AccountChanges, Leaves
  <2>3. CASE Leaves(s, a)
    <3>1. f.accountVersion # o.accountVersion
      BY <1>2, <1>4, <2>2, <2>3
    <3>2. f.accountVersion >= o.accountVersion
      BY <1>1, <1>4
    <3>3. c <=> f.accountVersion = o.accountVersion
      BY <2>3, <3>1, Zenon
    <3> QED
      BY <3>1, <3>2, <3>3 DEF Follows
  <2>4. CASE ~Leaves(s, a)
    <3>1. f.accountVersion = o.accountVersion
      BY <1>2, <1>4, <2>2, <2>4
    <3>2. c <=> f.accountVersion = o.accountVersion
      BY <2>1, <2>4, <3>1, Zenon
    <3>3. f.good.account = a
      BY <1>1, <2>1, <2>4 DEF Leaves
    <3>4. e.good.at >= o.at /\ (e.good.at = o.at => e.good.quota = o.quota)
      BY <1>4 DEF Follows
    <3>5. CASE f.good = e.good
      BY <1>1, <1>4, <3>1, <3>2, <3>3, <3>4, <3>5 DEF Follows
    <3>6. CASE f.good.at > e.good.at
      <4>1. f.good.at \in Nat
        BY DEF NextEntry, NextGood, Entry, Report
      <4>2. f.good.at >= o.at /\ f.good.at # o.at
        BY <1>3, <3>4, <3>6, <4>1
      <4> QED
        BY <1>1, <1>4, <3>1, <3>2, <3>3, <4>2 DEF Follows
    <3> QED
      BY <1>1, <3>5, <3>6
  <2> QED
    BY <2>3, <2>4
<1>5. CASE e.accountVersion # o.accountVersion
  <2>1. ~b
    BY <1>5 DEF Follows
  <2>2. f.accountVersion > o.accountVersion
    BY <1>1, <1>3, <1>5
  <2>3. f.accountVersion # o.accountVersion /\ f.accountVersion >= o.accountVersion
    BY <1>1, <1>3, <2>2
  <2>4. c <=> f.accountVersion = o.accountVersion
    BY <2>1, <2>3, Zenon
  <2> QED
    BY <2>3, <2>4 DEF Follows
<1> QED
  BY <1>4, <1>5

LEMMA FollowedInit == SourcesInit => Followed
<1> SUFFICES ASSUME SourcesInit PROVE Followed
  OBVIOUS
<1>1. unbroken \in [Accounts -> BOOLEAN]
  BY DEF SourcesInit
<1>2. \A u \in Users : entries[u].good.at = 0 /\ entries[u].at = 0
  BY DEF SourcesInit, Init, InitialEntry, NoGood
<1>3. \A a \in Accounts : observed[a].user = NoUser
  BY DEF SourcesInit, Init, NoObservation
<1> QED
  BY <1>1, <1>2, <1>3 DEF Followed

(* An accepted snapshot s of user u seen from the account a: its source is   *)
(* left behind exactly when s tells so of it.                                *)
LEMMA FollowsApply ==
  ASSUME TypeOK, TypeOK', Followed, NEW u \in Users, NEW s \in Report, ApplyTracked(u, s),
         NEW a \in Accounts, observed[a].user # NoUser
  PROVE  Follows(a, observed[a], entries'[observed[a].user],
                 unbroken[a] /\ ~(u = observed[a].user /\ Leaves(s, a)))
<1>1. /\ Accepts(entries[u], s) /\ entries'[u] = NextEntry(u, entries[u], s)
      /\ \A v \in Users \ {u} : entries'[v] = entries[v]
  BY DEF ApplyTracked, Apply, TypeOK
<1>2. PICK o : o = observed[a]
  OBVIOUS
<1>3. o \in SourceObservation /\ o.user \in Users
  BY <1>2 DEF TypeOK, SourceObservation
<1>4. PICK e : e = entries[o.user]
  OBVIOUS
<1>5. PICK f : f = entries'[o.user]
  OBVIOUS
<1>6. PICK b \in BOOLEAN : b = unbroken[a]
  BY DEF Followed
<1>7. PICK c \in BOOLEAN : c = (b /\ ~(u = o.user /\ Leaves(s, a)))
  BY DEF Leaves
<1>8. Follows(a, o, e, b) /\ e \in Entry /\ e.good.at <= e.at
  BY <1>2, <1>3, <1>4, <1>6 DEF Followed, TypeOK
<1>9. Follows(a, o, f, c)
  <2>1. CASE u = o.user
    <3>1. f = NextEntry(u, e, s) /\ Accepts(e, s)
      BY <1>1, <1>4, <1>5, <2>1
    <3>2. c <=> (b /\ ~Leaves(s, a))
      BY <1>7, <2>1
    <3> QED
      BY <1>3, <1>8, <3>1, <3>2, FollowsNext
  <2>2. CASE u # o.user
    <3>1. f = e /\ c = b
      BY <1>1, <1>3, <1>4, <1>5, <1>7, <2>2
    <3> QED
      BY <1>8, <3>1
  <2> QED
    BY <2>1, <2>2
<1> QED
  BY <1>2, <1>5, <1>6, <1>7, <1>9

LEMMA FollowedApply ==
  ASSUME TypeOK, TypeOK', Followed, NEW u \in Users, NEW s \in Report, ApplyTracked(u, s)
  PROVE  Followed'
<1>1. Apply(u, s) /\ Accepts(entries[u], s)
      /\ entries' = [entries EXCEPT ![u] = NextEntry(u, entries[u], s)]
  BY DEF ApplyTracked, Apply
<1>2. unbroken' = [a \in Accounts |->
       \/ observed'[a] # observed[a]
       \/ unbroken[a] /\ ~(u = observed[a].user /\ Leaves(s, a))]
  BY DEF ApplyTracked
<1>3. unbroken \in [Accounts -> BOOLEAN] /\ unbroken' \in [Accounts -> BOOLEAN]
  BY <1>2 DEF Followed
<1>4. \A v \in Users : entries[v] \in Entry /\ entries'[v] \in Entry
  BY DEF TypeOK
<1>5. entries'[u] = NextEntry(u, entries[u], s) /\ \A v \in Users \ {u} : entries'[v] = entries[v]
  BY <1>1 DEF TypeOK
<1>6. \A v \in Users : entries'[v].good.at <= entries'[v].at
  <2>1. entries[u].good.at <= entries[u].at
    BY DEF Followed
  <2>2. PICK e : e = entries[u]
    OBVIOUS
  <2>3. PICK f : f = entries'[u]
    OBVIOUS
  <2>4. e \in Entry /\ f = NextEntry(u, e, s) /\ Accepts(e, s) /\ e.good.at <= e.at
    BY <1>1, <1>4, <1>5, <2>1, <2>2, <2>3
  <2>5. f.good.at <= f.at
    BY <2>4, VersionNext
  <2> QED
    BY <1>5, <2>3, <2>5 DEF Followed
<1>7. ASSUME NEW a \in Accounts, observed'[a].user # NoUser
      PROVE  Follows(a, observed'[a], entries'[observed'[a].user], unbroken'[a])
  <2>1. CASE observed'[a] # observed[a]
    <3>1. PICK n \in NewObservations(entries') : n.account = a
      BY <1>1, <2>1, Decisions
    <3>2. observed'[a] = n.o
      BY <1>1, <3>1, Decisions
    <3>3. PICK v \in HistorySource(entries', a) : n = UpdateFrom(entries', v, a)
      BY <3>1, UpdatesAre
    <3>4. n.o = Observation(entries', v)
      BY <3>3 DEF UpdateFrom
    <3>5. v \in Users /\ entries'[v].good.account = a
      BY SourceFacts
    <3>6. /\ observed'[a].user = v
          /\ observed'[a].accountVersion = entries'[v].accountVersion
          /\ observed'[a].at = entries'[v].good.at
          /\ observed'[a].quota = entries'[v].good.quota
      BY <3>2, <3>4 DEF Observation
    <3>7. unbroken'[a] = TRUE
      BY <1>2, <2>1
    <3>8. entries'[v].accountVersion \in Nat /\ entries'[v].good.at \in Nat
      BY <1>4, <3>5 DEF Entry
    <3> QED
      BY <3>5, <3>6, <3>7, <3>8 DEF Follows
  <2>2. CASE observed'[a] = observed[a]
    <3>1. unbroken'[a] = (unbroken[a] /\ ~(u = observed[a].user /\ Leaves(s, a)))
      BY <1>2, <1>3, <2>2
    <3>2. Follows(a, observed[a], entries'[observed[a].user],
                  unbroken[a] /\ ~(u = observed[a].user /\ Leaves(s, a)))
      BY <1>7, <2>2, FollowsApply
    <3> QED
      BY <2>2, <3>1, <3>2
  <2> QED
    BY <2>1, <2>2
<1> QED
  BY <1>3, <1>6, <1>7 DEF Followed

LEMMA FollowedStep ==
  ASSUME TypeOK, TypeOK', Followed, [SourcesNext]_sourceVars PROVE Followed'
<1>1. ASSUME NEW u \in Users, NEW s \in Snapshots, ApplyTracked(u, s) PROVE Followed'
  BY <1>1, FollowedApply, SnapshotsAreReports
<1>2. ASSUME UNCHANGED <<entries, observed, unbroken>> PROVE Followed'
  BY <1>2 DEF Followed
<1>3. ASSUME NEW u \in Users, NEW n, FeedTracked(u, n) PROVE Followed'
  BY <1>2, <1>3 DEF FeedTracked, FeedHistory
<1>4. CASE (Tick /\ UNCHANGED <<fed, unbroken>>) \/ UNCHANGED sourceVars
  BY <1>2, <1>4 DEF Tick, sourceVars, vars
<1> QED
  BY <1>1, <1>3, <1>4 DEF SourcesNext

LEMMA HandedInit == SourcesInit => Handed
<1> SUFFICES ASSUME SourcesInit PROVE Handed
  OBVIOUS
<1>1. NoObservation \in SourceObservation
  BY DEF NoObservation, SourceObservation
<1>2. \A u \in Users : outbox[u] = {}
  BY DEF SourcesInit, Init
<1>3. fed = [a \in Accounts |-> NoObservation] /\ fed = observed
  BY DEF SourcesInit, Init
<1> QED
  BY <1>1, <1>2, <1>3 DEF Handed

(* The continuation of an observation is later than it: the entry has only  *)
(* moved forward, and an entry of the same time has nothing new.             *)
LEMMA ContinuationIsLater ==
  ASSUME TypeOK, TypeOK', Followed, NEW u \in Users, NEW s \in Report, ApplyTracked(u, s),
         NEW n \in NewObservations(entries'), ~n.rebaseline
  PROVE  /\ SameSource(n.o, observed[n.account])
         /\ n.o.at > observed[n.account].at
         /\ unbroken[n.account]
<1>1. PICK a \in Accounts : a = n.account
  BY UpdatesAre
<1>2. PICK w \in HistorySource(entries', a) :
        n = UpdateFrom(entries', w, a) /\ Observation(entries', w) # observed[a]
  BY <1>1, UpdatesAre
<1>3. PICK o : o = observed[a]
  OBVIOUS
<1>4. PICK p : p = Observation(entries', w)
  OBVIOUS
<1>5. n.o = p /\ SameSource(p, o) /\ p # o
  BY <1>2, <1>3, <1>4 DEF UpdateFrom
<1>6. w \in Users
  BY SourceFacts
<1>7. PICK f : f = entries'[w]
  OBVIOUS
<1>8. p = [user |-> w, accountVersion |-> f.accountVersion,
           at |-> f.good.at, quota |-> f.good.quota]
  BY <1>4, <1>7 DEF Observation
<1>9. o.user = w /\ f.accountVersion = o.accountVersion
  BY <1>5, <1>8 DEF SameSource
<1>10. observed[a].user # NoUser
  BY <1>3, <1>6, <1>9, UsersAssumption DEF NoUser
<1>11. PICK c : c = (unbroken[a] /\ ~(u = o.user /\ Leaves(s, a)))
  OBVIOUS
<1>12. Follows(a, o, f, c)
  BY <1>3, <1>7, <1>9, <1>10, <1>11, FollowsApply
<1>13. unbroken[a]
  <2>1. c
    BY <1>9, <1>12 DEF Follows
  <2> QED
    BY <1>11, <2>1
<1>14. f.good.at >= o.at /\ (f.good.at = o.at => f.good.quota = o.quota)
  BY <1>9, <1>12 DEF Follows
<1>15. o \in SourceObservation /\ f \in Entry
  BY <1>3, <1>6, <1>7 DEF TypeOK
<1>16. f.good.at # o.at
  <2>1. o = [user |-> o.user, accountVersion |-> o.accountVersion, at |-> o.at, quota |-> o.quota]
    BY <1>15 DEF SourceObservation
  <2> QED
    BY <1>5, <1>8, <1>9, <1>14, <2>1
<1>17. f.good.at \in Nat /\ o.at \in Nat
  BY <1>15 DEF Entry, SourceObservation
<1>18. p.at > o.at
  BY <1>8, <1>14, <1>16, <1>17
<1> QED
  BY <1>1, <1>3, <1>5, <1>13, <1>18

LEMMA HandedApply ==
  ASSUME TypeOK, TypeOK', Followed, Handed, NEW u \in Users, NEW s \in Report,
         ApplyTracked(u, s)
  PROVE  Handed'
<1> DEFINE new == NewObservations(entries')
<1>1. Apply(u, s) /\ fed' = fed
  BY DEF ApplyTracked
<1>2. /\ \A v \in Users : outbox[v] = {}
      /\ outbox'[u] = new
      /\ \A v \in Users \ {u} : outbox'[v] = {}
      /\ \A n \in new : observed'[n.account] = n.o
      /\ \A a \in Accounts : (~ \E n \in new : n.account = a) => observed'[a] = observed[a]
  BY <1>1, Decisions
<1>3. \A a \in Accounts : fed[a] = observed[a]
  BY <1>2 DEF Handed
<1>4. ASSUME NEW n \in new, ~n.rebaseline PROVE Continues(n)'
  <2>1. n.account \in Accounts
    BY UpdatesAre
  <2>2. SameSource(n.o, observed[n.account]) /\ n.o.at > observed[n.account].at
    BY <1>4, ContinuationIsLater
  <2> QED
    BY <1>1, <1>3, <2>1, <2>2 DEF Continues
<1>5. \A n, m \in new : n.account = m.account => n = m
  BY OneUpdate
<1> HIDE DEF new
<1>6. fed' \in [Accounts -> SourceObservation]
  BY <1>1 DEF Handed
<1>7. \A v \in Users : \A n \in outbox'[v] :
        n.o = observed'[n.account] /\ (n.rebaseline \/ Continues(n)')
  BY <1>2, <1>4
<1>8. \A v, w \in Users : \A n \in outbox'[v], m \in outbox'[w] :
        n.account = m.account => v = w /\ n = m
  BY <1>2, <1>5
<1>9. \A a \in Accounts :
        fed'[a] = observed'[a] \/ \E v \in Users : \E n \in outbox'[v] : n.account = a
  BY <1>1, <1>2, <1>3
<1> QED
  BY <1>6, <1>7, <1>8, <1>9 DEF Handed

LEMMA HandedFeed ==
  ASSUME TypeOK, Handed, NEW u \in Users, NEW n \in outbox[u], FeedTracked(u, n)
  PROVE  Handed'
<1>1. /\ outbox' = [outbox EXCEPT ![u] = outbox[u] \ {n}] /\ observed' = observed
      /\ fed' = [fed EXCEPT ![n.account] = n.o]
  BY DEF FeedTracked, FeedHistory
<1>2. /\ n.account \in Accounts /\ n.o \in SourceObservation
      /\ n.o = observed[n.account]
  BY DEF TypeOK, Update, Handed
<1>3. ASSUME NEW v \in Users, NEW m, m \in outbox'[v]
      PROVE  m \in outbox[v] /\ m.account \in Accounts /\ m.account # n.account
  <2>1. m \in outbox[v] /\ (v = u => m # n)
    BY <1>1, <1>3 DEF TypeOK
  <2>2. m.account \in Accounts
    BY <2>1 DEF TypeOK, Update
  <2> QED
    BY <2>1, <2>2 DEF Handed
<1>4. ASSUME NEW v \in Users, NEW m, m \in outbox'[v]
      PROVE  m.o = observed'[m.account] /\ (m.rebaseline \/ Continues(m)')
  <2>1. fed'[m.account] = fed[m.account]
    BY <1>1, <1>3, <1>4 DEF Handed
  <2>2. m.o = observed[m.account] /\ (m.rebaseline \/ Continues(m))
    BY <1>3, <1>4 DEF Handed
  <2> QED
    BY <1>1, <2>1, <2>2 DEF Continues
<1>5. \A v, w \in Users : \A m \in outbox'[v], k \in outbox'[w] :
        m.account = k.account => v = w /\ m = k
  BY <1>3 DEF Handed
<1>6. ASSUME NEW a \in Accounts
      PROVE  fed'[a] = observed'[a] \/ \E v \in Users : \E m \in outbox'[v] : m.account = a
  <2>1. CASE a = n.account
    BY <1>1, <1>2, <2>1 DEF Handed
  <2>2. CASE a # n.account
    <3>1. fed'[a] = fed[a]
      BY <1>1, <2>2 DEF Handed
    <3>2. ASSUME NEW v \in Users, NEW m \in outbox[v], m.account = a PROVE m \in outbox'[v]
      BY <1>1, <2>2, <3>2 DEF TypeOK
    <3> QED
      BY <1>1, <3>1, <3>2 DEF Handed
  <2> QED
    BY <2>1, <2>2
<1>7. fed' \in [Accounts -> SourceObservation]
  BY <1>1, <1>2 DEF Handed
<1> QED
  BY <1>4, <1>5, <1>6, <1>7 DEF Handed

LEMMA HandedStep ==
  ASSUME TypeOK, TypeOK', Followed, Handed, [SourcesNext]_sourceVars PROVE Handed'
<1>1. ASSUME NEW u \in Users, NEW s \in Snapshots, ApplyTracked(u, s) PROVE Handed'
  BY <1>1, HandedApply, SnapshotsAreReports
<1>2. ASSUME NEW u \in Users, NEW n \in outbox[u], FeedTracked(u, n) PROVE Handed'
  BY <1>2, HandedFeed
<1>3. ASSUME UNCHANGED <<observed, outbox, fed>> PROVE Handed'
  BY <1>3 DEF Handed, Continues
<1>4. CASE (Tick /\ UNCHANGED <<fed, unbroken>>) \/ UNCHANGED sourceVars
  BY <1>3, <1>4 DEF Tick, sourceVars, vars
<1> QED
  BY <1>1, <1>2, <1>4 DEF SourcesNext

LEMMA SourcesInvariant == SourcesSpec => [](TypeOK /\ Followed /\ Handed)
<1>1. SourcesInit => TypeOK /\ Followed /\ Handed
  BY TypeInit, FollowedInit, HandedInit DEF SourcesInit
<1>2. TypeOK /\ Followed /\ Handed /\ [SourcesNext]_sourceVars => (TypeOK /\ Followed /\ Handed)'
  <2> SUFFICES ASSUME TypeOK, Followed, Handed, [SourcesNext]_sourceVars
               PROVE  (TypeOK /\ Followed /\ Handed)'
    OBVIOUS
  <2>1. TypeOK'
    BY TypeStep, SourcesImplementHub
  <2>2. Followed'
    BY <2>1, FollowedStep
  <2>3. Handed'
    BY <2>1, HandedStep
  <2> QED
    BY <2>1, <2>2, <2>3
<1> QED
  BY <1>1, <1>2, PTL DEF SourcesSpec

(* What the tracker may compare with its predecessor comes from a user who   *)
(* has stayed in the account.                                                *)
THEOREM ContinuityEarned == SourcesSpec => ContinuityIsEarned
<1> DEFINE Earned ==
       \A u \in Users : \A n \in Decided(u) :
          ~n.rebaseline => /\ n.o.user = observed[n.account].user
                           /\ unbroken[n.account]
<1>1. ASSUME TypeOK, TypeOK', Followed, [SourcesNext]_sourceVars PROVE [Earned]_sourceVars
  <2>1. ASSUME NEW u \in Users, NEW s \in Snapshots, ApplyTracked(u, s) PROVE Earned
    <3> SUFFICES ASSUME NEW v \in Users, NEW n \in Decided(v), ~n.rebaseline
                 PROVE  n.o.user = observed[n.account].user /\ unbroken[n.account]
      OBVIOUS
    <3>1. n \in NewObservations(entries')
      BY <1>1, <2>1, Decisions DEF Decided, ApplyTracked
    <3>2. s \in Report
      BY SnapshotsAreReports
    <3>3. SameSource(n.o, observed[n.account]) /\ unbroken[n.account]
      BY <1>1, <2>1, <3>1, <3>2, ContinuationIsLater
    <3> QED
      BY <3>3 DEF SameSource
  <2>2. ASSUME NEW u \in Users, NEW n \in outbox[u], FeedTracked(u, n) PROVE Earned
    BY <1>1, <2>2 DEF FeedTracked, FeedHistory, Decided, TypeOK
  <2>3. CASE Tick
    BY <2>3 DEF Tick, Decided
  <2> QED
    BY <1>1, <2>1, <2>2, <2>3 DEF SourcesNext
<1>2. SourcesSpec => [][Earned]_sourceVars
  BY <1>1, SourcesInvariant, PTL DEF SourcesSpec
<1> QED
  BY <1>2, PTL DEF ContinuityIsEarned

(* What is handed over as a continuation continues, later in collector      *)
(* time, what the tracker was handed last.                                  *)
THEOREM OneSourceHeard == SourcesSpec => HistoryHearsOneSource
<1> DEFINE Heard ==
       \A u \in Users : \A n \in outbox[u] \ outbox'[u] :
          ~n.rebaseline => /\ SameSource(n.o, fed[n.account])
                           /\ n.o.at > fed[n.account].at
<1>1. Handed => Heard
  BY DEF Handed, Continues
<1>2. SourcesSpec => [][Heard]_sourceVars
  BY <1>1, SourcesInvariant, PTL
<1> QED
  BY <1>2, PTL DEF HistoryHearsOneSource

(* Only an anchor, or the source leaving the account, takes the history from *)
(* a source whose last good observation is not stale.                        *)
THEOREM StaleBeforeHandoff == SourcesSpec => HandoffNeedsStaleSource
<1> DEFINE Stale(a) ==
       LET prior == observed[a].user
           next == observed'[a].user
       IN  /\ prior # NoUser /\ next # prior
           /\ ~IsAnchor(next)
           /\ unbroken[a]
           /\ entries'[prior].state \in {"ok", "unavailable"}
           /\ entries'[prior].good.account = a
           => now > entries'[prior].goodAt + StaleAfter
<1>1. ASSUME TypeOK, TypeOK', Followed, NEW u \in Users, NEW s \in Report, ApplyTracked(u, s),
             NEW a \in Accounts
      PROVE  Stale(a)
  <2>1. PICK prior : prior = observed[a].user
    OBVIOUS
  <2>2. PICK next : next = observed'[a].user
    OBVIOUS
  <2> SUFFICES ASSUME prior # NoUser, next # prior, ~IsAnchor(next), unbroken[a],
                      entries'[prior].state \in {"ok", "unavailable"},
                      entries'[prior].good.account = a
               PROVE  now > entries'[prior].goodAt + StaleAfter
    BY <2>1, <2>2
  <2>3. prior \in Users
    BY <1>1, <2>1 DEF TypeOK, SourceObservation
  <2>4. next \in HistoryCandidate(entries', a)
    <3>1. PICK n \in NewObservations(entries') : n.account = a
      BY <1>1, <2>1, <2>2, Decisions DEF ApplyTracked
    <3>2. observed'[a] = n.o
      BY <1>1, <3>1, Decisions DEF ApplyTracked
    <3>3. PICK w \in HistorySource(entries', a) : n = UpdateFrom(entries', w, a)
      BY <3>1, UpdatesAre
    <3>4. next = w
      BY <2>2, <3>2, <3>3 DEF UpdateFrom, Observation
    <3> QED
      BY <3>4, SourceFacts
  <2>5. entries'[prior].accountVersion = observed[a].accountVersion
    <3>1. ~(u = prior /\ Leaves(s, a))
      <4>1. SUFFICES ASSUME u = prior PROVE ~Leaves(s, a)
        OBVIOUS
      <4>2. entries'[u] = NextEntry(u, entries[u], s)
        BY <1>1 DEF ApplyTracked, Apply, TypeOK
      <4>3. entries'[u].state = s.state /\ entries'[u].good = NextGood(entries[u], s)
        BY <4>2 DEF NextEntry
      <4>4. s.state \in {"ok", "unavailable"}
        BY <4>1, <4>3
      <4>5. s.state = "ok" => s.account = a
        BY <4>1, <4>3 DEF NextGood
      <4> QED
        BY <4>4, <4>5 DEF Leaves, SignsOut
    <3>2. PICK c : c = (unbroken[a] /\ ~(u = prior /\ Leaves(s, a)))
      OBVIOUS
    <3>3. Follows(a, observed[a], entries'[prior], c)
      BY <1>1, <2>1, <3>2, FollowsApply
    <3> QED
      BY <3>1, <3>2, <3>3 DEF Follows
  <2>6. /\ ~ \E w \in FreshSources(entries', a) : IsAnchor(w)
        /\ prior \notin FreshSources(entries', a)
        /\ ~(now <= entries'[prior].goodAt + StaleAfter)
    BY <2>1, <2>4, <2>5 DEF HistoryCandidate
  <2>7. now \in Nat /\ entries'[prior].goodAt \in Nat /\ StaleAfter \in Nat
    BY <1>1, <2>3, TimesAssumption DEF TypeOK, Entry
  <2> QED
    BY <2>6, <2>7
<1>2. ASSUME TypeOK, TypeOK', Followed, [SourcesNext]_sourceVars
      PROVE  [\A a \in Accounts : Stale(a)]_sourceVars
  <2>1. ASSUME NEW u \in Users, NEW s \in Snapshots, ApplyTracked(u, s), NEW a \in Accounts
        PROVE  Stale(a)
    BY <1>1, <1>2, <2>1, SnapshotsAreReports
  <2>2. observed' = observed => \A a \in Accounts : Stale(a)
    OBVIOUS
  <2> HIDE DEF Stale
  <2> QED
    BY <1>2, <2>1, <2>2 DEF SourcesNext, FeedTracked, FeedHistory, Tick
<1>3. SourcesSpec => [][\A a \in Accounts : Stale(a)]_sourceVars
  BY <1>2, SourcesInvariant, PTL DEF SourcesSpec
<1> QED
  BY <1>3, PTL DEF HandoffNeedsStaleSource

-----------------------------------------------------------------------------
(***************************************************************************)
(* The account boundary                                                     *)
(*                                                                         *)
(* For any sessions, collectors and accounts, however often the user logs  *)
(* in and however snapshots are delayed, lost or reordered: no session of  *)
(* a login the hub has heard of is shown under another account.            *)
(*                                                                         *)
(* The hub knows neither logins nor the owners of sessions, and what a     *)
(* collector says of the account may be long past: its App Server answers  *)
(* for the login it was started with, and the time is taken afterwards.    *)
(* What saves the hub is that the control daemon adopts the login that is  *)
(* in force, which no App Server is ahead of: when an inventory for a      *)
(* login has been taken, a thread the daemon loads later belongs to the    *)
(* same account or to a login no older.                                    *)
(***************************************************************************)

Mine == entries[User]

SessionType ==
  [app : BOOLEAN, login : 0..logins, account : Accounts \cup {NoAccount},
   present : BOOLEAN]
Child == [login : 1..logins, account : Accounts \cup {NoAccount}]
Reading ==
  [phase : {"read"}, at : {0}, login : 1..logins, account : Accounts \cup {NoAccount}]
    \cup [phase : {"account", "checked"}, at : Nat, login : 1..logins,
          account : Accounts]
NothingRead == [phase |-> "read", at |-> 0, login |-> 0, account |-> NoAccount]

(* What the user, the daemon and the collectors can hold. *)
WorldTyped ==
  /\ login \in Accounts \cup {NoAccount}
  /\ logins \in 1..MaxLogins
  /\ daemon \in [account : Accounts, login : 1..logins]
  /\ loaded \subseteq AppSessions
  /\ session \in [Sessions -> SessionType]
  /\ \A s \in Sessions : session[s].present => session[s].login # 0
  /\ stamp \in 0..MaxStamp
  /\ child \in [Collectors -> {NoChild} \cup Child]
  /\ reading \in [Collectors -> {NoReading, NothingRead} \cup Reading]

(* Snapshots on their way; only a good one has a login and an inventory. *)
FlightTyped ==
  \A m \in flight :
    /\ m.snapshot \in Report
    /\ m.snapshot.state = "ok" => m.login \in 1..logins
    /\ m.snapshot.state # "ok" => m.snapshot.reads = {}

(* What the hub has heard, and the entry that came of it. *)
HubTyped ==
  /\ heard \subseteq 1..current
  /\ current \in 0..logins
  /\ current = 0 <=> Mine.good.account = NoAccount
  /\ Mine.state = "ok" => Mine.membership = Mine.good.account

(* was[l] is the account of login l.  Whatever names a login agrees with it. *)
Recorded(was) ==
  /\ was[logins] = login
  /\ daemon.account = was[daemon.login]
  /\ \A s \in Sessions :
       session[s].present => session[s].account = was[session[s].login]
  /\ \A c \in Collectors : child[c] # NoChild => child[c].account = was[child[c].login]
  /\ \A c \in Collectors :
       reading[c] \in Reading => reading[c].account = was[reading[c].login]
  /\ \A m \in flight : m.snapshot.state = "ok" => m.snapshot.account = was[m.login]
  /\ current # 0 => Mine.good.account = was[current]

Record == \E was \in [1..MaxLogins -> Accounts \cup {NoAccount}] : Recorded(was)

(* A thread loaded from now on belongs to account a, or to a login not      *)
(* older than l.                                                            *)
Adopted(l, a) == daemon.account = a \/ daemon.login >= l

(* An inventory for a login names every thread of an older login, unless it *)
(* belongs to the same account or has been unloaded.                        *)
Inventories ==
  /\ \A c \in Collectors : reading[c].phase = "checked" =>
       Adopted(reading[c].login, reading[c].account)
  /\ \A m \in flight : "runtime" \in m.snapshot.reads =>
       /\ Adopted(m.login, m.snapshot.account)
       /\ \A s \in AppSessions : session[s].present =>
            \/ s \in Present(m.snapshot.threads)
            \/ session[s].account = m.snapshot.account
            \/ session[s].login >= m.login

(* A session that is present is somewhere the hub or a collector can see it. *)
Visible ==
  \A s \in Sessions : session[s].present =>
    IF s \in AppSessions THEN s \in loaded ELSE hooks[User][s] # "absent"

(* What belongs to an account the user has left, as far as the hub knows, is *)
(* quarantined, or a thread while an inventory is owed; while the daemon is  *)
(* still in such an account, an inventory is owed.                           *)
Foreign(l, a) == l \in heard /\ a # Mine.good.account
Apart ==
  /\ Foreign(daemon.login, daemon.account) => Mine.pending
  /\ \A s \in Sessions :
       session[s].present /\ Foreign(session[s].login, session[s].account) =>
         s \in Mine.quarantine \/ (s \in AppSessions /\ Mine.pending)

(* While the hub has the time of an inventory, it has that inventory. *)
Retained ==
  Mine.inventoryAt # 0 =>
    /\ inventory.at = Mine.inventoryAt
    /\ inventory.account = Mine.good.account
    /\ inventory.account # NoAccount
    /\ ~inventory.boundary
    /\ Mine.quarantine = {} => Present(Mine.runtime) = inventory.threads

HubInv == TypeOK /\ EntriesOK
Typed == WorldTyped /\ FlightTyped /\ HubTyped
BoundaryInv == HubInv /\ Typed /\ Record /\ Inventories /\ Visible /\ Apart /\ Retained

-----------------------------------------------------------------------------
LEMMA UserIsConsumer == User \in Users /\ ~IsAnchor(User)
  BY UserAssumption DEF IsAnchor

LEMMA BoundaryInitially == BoundaryInit => BoundaryInv
<1> SUFFICES ASSUME BoundaryInit PROVE BoundaryInv
  OBVIOUS
<1>1. HubInv
  BY TypeInit, EntriesInit DEF BoundaryInit, HubInv
<1>2. Mine = InitialEntry
  BY UserIsConsumer DEF BoundaryInit, Init, Mine
<1>3. WorldTyped
  <2>1. logins = 1 /\ 1 \in 1..MaxLogins /\ 0 \in 0..MaxStamp
    BY ReadingsAssumption DEF BoundaryInit
  <2>2. \A app \in BOOLEAN : NotStarted(app) \in SessionType /\ ~NotStarted(app).present
    BY <2>1 DEF NotStarted, SessionType
  <2>3. session \in [Sessions -> SessionType] /\ \A s \in Sessions : ~session[s].present
    BY <2>2 DEF BoundaryInit
  <2>4. /\ child \in [Collectors -> {NoChild} \cup Child]
        /\ reading \in [Collectors -> {NoReading, NothingRead} \cup Reading]
    BY DEF BoundaryInit
  <2> QED
    BY <2>1, <2>3, <2>4 DEF BoundaryInit, WorldTyped
<1>4. FlightTyped /\ HubTyped
  BY <1>2 DEF BoundaryInit, FlightTyped, HubTyped, InitialEntry, NoGood
<1>5. Record
  <2>1. PICK was \in [1..MaxLogins -> Accounts \cup {NoAccount}] :
          was = [l \in 1..MaxLogins |-> login]
    BY DEF BoundaryInit
  <2>2. \A s \in Sessions : ~session[s].present
    BY DEF BoundaryInit, NotStarted
  <2>3. \A c \in Collectors : child[c] = NoChild /\ reading[c] \notin Reading
    BY DEF BoundaryInit, Reading, NoReading
  <2>4. Recorded(was)
    BY <2>1, <2>2, <2>3, ReadingsAssumption DEF BoundaryInit, Recorded
  <2> QED
    BY <2>4 DEF Record
<1>6. Inventories /\ Visible
  BY DEF BoundaryInit, Inventories, Visible, NotStarted, NoReading
<1>7. Apart /\ Retained
  BY <1>2 DEF BoundaryInit, Apart, Foreign, Retained, NotStarted, InitialEntry
<1> QED
  BY <1>1, <1>3, <1>4, <1>5, <1>6, <1>7 DEF BoundaryInv, Typed
-----------------------------------------------------------------------------
(* All actions but Deliver leave the entry and what the hub has heard alone; *)
(* of the rest of the hub they change what Hub's own actions change.         *)
Quiet == UNCHANGED <<Mine, heard, current, inventory>>

LEMMA QuietSteps ==
  ASSUME HubInv, [BoundaryNext]_<<vars, world>>, \A m \in flight : ~Deliver(m)
  PROVE  Quiet /\ HubInv'
<1>1. CASE UNCHANGED vars
  <2>1. [Next]_vars
    BY <1>1
  <2>2. HubInv'
    BY <2>1, TypeStep, EntriesStep DEF HubInv
  <2>3. UNCHANGED <<heard, current, inventory>>
    BY <1>1 DEF BoundaryNext, Login, AdoptLogin, LoadThread, UnloadThread, HookEvent,
       HookLapse, StartChild, EndSession, ReadAccount, FindNoAuth, Learns, Observe,
       PublishUnavailable, CheckControlAccount, LoadedThreads, InventoryFails, Publishes,
       world
  <2> QED
    BY <1>1, <2>2, <2>3 DEF Quiet, Mine, vars
<1>2. ASSUME NEW s \in Sessions, NEW c \in Chats, ActivityChange(User, s, c)
      PROVE  UNCHANGED Mine /\ HubInv'
  <2>1. [Next]_vars
    BY <1>2, UserIsConsumer DEF Next
  <2> QED
    BY <1>2, <2>1, TypeStep, EntriesStep DEF HubInv, ActivityChange, Mine
<1>3. ASSUME NEW s \in Sessions, HookEvent(s) \/ HookLapse(s) PROVE Quiet /\ HubInv'
  <2>1. "running" \in Chats /\ "absent" \in Chats
    BY DEF Chats
  <2>2. UNCHANGED Mine /\ HubInv'
    BY <1>2, <1>3, <2>1 DEF HookEvent, HookLapse
  <2> QED
    BY <1>3, <2>2 DEF HookEvent, HookLapse, Quiet
<1>4. CASE Tick /\ UNCHANGED world
  <2>1. [Next]_vars
    BY <1>4 DEF Next
  <2> QED
    BY <1>4, <2>1, TypeStep, EntriesStep DEF HubInv, Tick, Mine, Quiet, world
<1>5. ASSUME NEW n \in outbox[User], FeedHistory(User, n), UNCHANGED world
      PROVE  Quiet /\ HubInv'
  <2>1. [Next]_vars
    BY <1>5, UserIsConsumer DEF Next
  <2> QED
    BY <1>5, <2>1, TypeStep, EntriesStep DEF HubInv, FeedHistory, Mine, Quiet, world
<1>6. CASE UNCHANGED <<vars, world>>
  BY <1>1, <1>6
<1>7. CASE \E a \in Accounts \cup {NoAccount} : Login(a)
  BY <1>1, <1>7 DEF Login
<1>8. CASE AdoptLogin \/ \E s \in Sessions : LoadThread(s) \/ UnloadThread(s)
  BY <1>1, <1>8 DEF AdoptLogin, LoadThread, UnloadThread
<1>9. ASSUME NEW c \in Collectors,
             \/ StartChild(c) \/ EndSession(c)
             \/ ReadAccount(c) \/ FindNoAuth(c) \/ Observe(c) \/ PublishUnavailable(c)
             \/ CheckControlAccount(c) \/ LoadedThreads(c) \/ InventoryFails(c)
      PROVE  UNCHANGED vars
  BY <1>9 DEF StartChild, EndSession, ReadAccount, FindNoAuth, Learns, Observe,
     PublishUnavailable, CheckControlAccount, LoadedThreads, InventoryFails, Publishes
<1> QED
  BY <1>1, <1>3, <1>4, <1>5, <1>6, <1>7, <1>8, <1>9 DEF BoundaryNext

(* The hub's part of the invariant survives them. *)
LEMMA QuietHub ==
  ASSUME HubInv, Typed, Retained, Quiet, logins' \in Nat, logins' >= logins
  PROVE  HubTyped' /\ Retained'
<1>1. logins \in Nat
  BY ReadingsAssumption DEF Typed, WorldTyped
<1>2. current \in 0..logins'
  BY <1>1 DEF Typed, HubTyped
<1> QED
  BY <1>2 DEF Typed, HubTyped, Quiet, Retained

-----------------------------------------------------------------------------
(* The user and the daemon *)

LEMMA LoginStep ==
  ASSUME BoundaryInv, NEW a \in Accounts \cup {NoAccount}, Login(a)
  PROVE  WorldTyped' /\ FlightTyped' /\ Record' /\ Inventories' /\ Visible'
<1>1. logins \in 1..MaxLogins /\ logins < MaxLogins /\ logins' = logins + 1
      /\ MaxLogins \in Nat
  BY ReadingsAssumption DEF Login, BoundaryInv, Typed, WorldTyped
<1>2. WorldTyped'
  <2>1. 1..logins \subseteq 1..logins' /\ 0..logins \subseteq 0..logins'
    BY <1>1
  <2>2. Child \subseteq Child'
    BY <2>1 DEF Child
  <2>3. Reading \subseteq Reading'
    BY <2>1 DEF Reading, Login
  <2>4. SessionType \subseteq SessionType'
    BY <2>1 DEF SessionType
  <2>5. loaded \subseteq AppSessions => loaded' \subseteq AppSessions'
    BY DEF Login, AppSessions
  <2>6. child' \in [Collectors -> {NoChild} \cup Child']
    BY <2>2 DEF Login, BoundaryInv, Typed, WorldTyped, refreshes
  <2>7. reading' \in [Collectors -> {NoReading, NothingRead} \cup Reading']
    BY <2>3 DEF Login, BoundaryInv, Typed, WorldTyped, refreshes
  <2>8. session' \in [Sessions -> SessionType']
    BY <2>4 DEF Login, BoundaryInv, Typed, WorldTyped
  <2> QED
    BY <1>1, <2>1, <2>5, <2>6, <2>7, <2>8 DEF Login, BoundaryInv, Typed, WorldTyped
<1>3. FlightTyped'
  BY <1>1 DEF Login, BoundaryInv, Typed, FlightTyped
<1>4. Record'
  <2>1. PICK was \in [1..MaxLogins -> Accounts \cup {NoAccount}] : Recorded(was)
    BY DEF BoundaryInv, Record
  <2>2. PICK now_was \in [1..MaxLogins -> Accounts \cup {NoAccount}] :
             now_was = [was EXCEPT ![logins + 1] = a]
    OBVIOUS
  <2>3. now_was[logins + 1] = a /\ \A l \in 1..logins : now_was[l] = was[l]
    BY <1>1, <2>2
  <2>4. Recorded(now_was)'
    <3>1. \A s \in Sessions :
             session[s].present => session[s].account = now_was[session[s].login]
      BY <1>1, <2>1, <2>3 DEF Recorded, BoundaryInv, Typed, WorldTyped, SessionType
    <3>2. \A c \in Collectors :
             child[c] # NoChild => child[c].account = now_was[child[c].login]
      BY <1>1, <2>1, <2>3 DEF Recorded, BoundaryInv, Typed, WorldTyped, Child
    <3>3. ASSUME NEW c \in Collectors, reading'[c] \in Reading'
          PROVE  reading[c].account = now_was[reading[c].login]
      <4>1. reading[c] \in Reading
        <5>1. reading'[c] = reading[c]
          BY DEF Login, refreshes
        <5>2. NoReading \notin Reading' /\ NothingRead \notin Reading'
          BY DEF Reading, NoReading, NothingRead
        <5> QED
          BY <3>3, <5>1, <5>2 DEF BoundaryInv, Typed, WorldTyped
      <4>2. reading[c].login \in 1..logins
        BY <4>1 DEF Reading
      <4> QED
        BY <2>1, <2>3, <4>1, <4>2 DEF Recorded
    <3>4. \A m \in flight :
             m.snapshot.state = "ok" => m.snapshot.account = now_was[m.login]
      BY <1>1, <2>1, <2>3 DEF Recorded, BoundaryInv, Typed, FlightTyped
    <3>5. current # 0 => Mine.good.account = now_was[current]
      BY <1>1, <2>1, <2>3 DEF Recorded, BoundaryInv, Typed, HubTyped
    <3>6. daemon.account = now_was[daemon.login]
      BY <1>1, <2>1, <2>3 DEF Recorded, BoundaryInv, Typed, WorldTyped
    <3> QED
      BY <1>1, <2>3, <3>1, <3>2, <3>3, <3>4, <3>5, <3>6
         DEF Login, Recorded, refreshes, vars, Mine
  <2> QED
    BY <2>4 DEF Record
<1>5. Inventories' /\ Visible'
  BY DEF Login, BoundaryInv, Inventories, Adopted, Visible, AppSessions, refreshes, vars
<1> QED
  BY <1>2, <1>3, <1>4, <1>5

(* The daemon catches up with the user, who no inventory is ahead of. *)
LEMMA AdoptStep ==
  ASSUME BoundaryInv, AdoptLogin
  PROVE  WorldTyped' /\ FlightTyped' /\ Record' /\ Inventories' /\ Visible'
<1>1. /\ daemon' = [account |-> login, login |-> logins] /\ login \in Accounts
      /\ logins \in 1..MaxLogins
      /\ UNCHANGED <<vars, login, logins, loaded, session, stamp, child, reading, flight,
                     heard, current, inventory>>
  BY DEF AdoptLogin, BoundaryInv, Typed, WorldTyped, refreshes
<1>2. WorldTyped'
  BY <1>1, ReadingsAssumption
     DEF BoundaryInv, Typed, WorldTyped, SessionType, Child, Reading, AppSessions
<1>3. FlightTyped' /\ Visible'
  BY <1>1 DEF BoundaryInv, Typed, FlightTyped, Visible, AppSessions, vars
<1>4. Record'
  <2>1. PICK was \in [1..MaxLogins -> Accounts \cup {NoAccount}] : Recorded(was)
    BY DEF BoundaryInv, Record
  <2>2. Recorded(was)'
    BY <1>1, <2>1 DEF Recorded, Reading, vars, Mine
  <2> QED
    BY <2>2 DEF Record
<1>5. Inventories'
  <2>1. ASSUME NEW c \in Collectors, reading[c].phase = "checked"
        PROVE  reading[c].login <= logins
    BY <2>1, ReadingsAssumption
       DEF BoundaryInv, Typed, WorldTyped, Reading, NoReading, NothingRead
  <2>2. \A m \in flight : "runtime" \in m.snapshot.reads => m.login <= logins
    BY ReadingsAssumption DEF BoundaryInv, Typed, FlightTyped
  <2> QED
    BY <1>1, <2>1, <2>2 DEF BoundaryInv, Inventories, Adopted, AppSessions
<1> QED
  BY <1>2, <1>3, <1>4, <1>5
-----------------------------------------------------------------------------
(* Sessions start under the daemon's login or the user's, and end. *)

StartsNow(t) ==
  IF t \in AppSessions
  THEN session'[t].login = daemon.login /\ session'[t].account = daemon.account
  ELSE session'[t].login = logins /\ session'[t].account = login

GoesOn(t) == session[t].present /\ session'[t] = session[t]

SessionsChange ==
  /\ session' \in [Sessions -> SessionType]
  /\ \A t \in Sessions : session'[t].app = session[t].app
  /\ \A t \in Sessions : session'[t].present => GoesOn(t) \/ StartsNow(t)

LEMMA Starting ==
  ASSUME BoundaryInv, NEW s \in Sessions, NEW a, NEW l, Starts(s, a, l),
         IF s \in AppSessions THEN a = daemon.account /\ l = daemon.login
         ELSE a = login /\ l = logins
  PROVE  SessionsChange
<1>1. session \in [Sessions -> SessionType] /\ logins \in 1..MaxLogins
  BY DEF BoundaryInv, Typed, WorldTyped
<1>2. l \in 0..logins /\ a \in Accounts \cup {NoAccount}
  BY ReadingsAssumption DEF BoundaryInv, Typed, WorldTyped
<1>3. CASE session[s].login = 0
  <2>1. PICK r : r = [app |-> session[s].app, login |-> l, account |-> a, present |-> TRUE]
    OBVIOUS
  <2>2. session' = [session EXCEPT ![s] = r]
    BY <1>3, <2>1 DEF Starts
  <2>3. r \in SessionType /\ r.app = session[s].app /\ r.login = l /\ r.account = a
    BY <1>1, <1>2, <2>1 DEF SessionType
  <2>4. session' \in [Sessions -> SessionType] /\ session'[s] = r
    BY <1>1, <2>2, <2>3
  <2>5. \A t \in Sessions \ {s} : session'[t] = session[t]
    BY <1>1, <2>2
  <2>6. StartsNow(s)
    BY <2>3, <2>4 DEF StartsNow
  <2>7. \A t \in Sessions : session'[t].app = session[t].app
    BY <2>3, <2>4, <2>5
  <2> QED
    BY <2>4, <2>5, <2>6, <2>7 DEF SessionsChange, GoesOn
<1>4. CASE session[s].login # 0
  <2>1. session' = session
    BY <1>1, <1>4 DEF Starts
  <2> QED
    BY <1>1, <2>1 DEF SessionsChange, GoesOn
<1> QED
  BY <1>3, <1>4

LEMMA Interrupting ==
  ASSUME BoundaryInv, NEW s \in Sessions, Interrupts(s)
  PROVE  SessionsChange /\ ~session'[s].present
<1>1. session \in [Sessions -> SessionType]
  BY DEF BoundaryInv, Typed, WorldTyped
<1>2. PICK r : r = [session[s] EXCEPT !.present = FALSE]
  OBVIOUS
<1>3. session' = [session EXCEPT ![s] = r]
  BY <1>2 DEF Interrupts
<1>4. r \in SessionType /\ r.app = session[s].app /\ ~r.present
  BY <1>1, <1>2 DEF SessionType
<1>5. session' \in [Sessions -> SessionType] /\ session'[s] = r
  BY <1>1, <1>3, <1>4
<1>6. \A t \in Sessions \ {s} : session'[t] = session[t]
  BY <1>1, <1>3
<1> QED
  BY <1>4, <1>5, <1>6 DEF SessionsChange, GoesOn

LEMMA SameApps == SessionsChange => AppSessions' = AppSessions
  BY DEF SessionsChange, AppSessions

(* The daemon's login has been adopted by every inventory that is out, and  *)
(* an account that the hub has left is one the daemon has left, or an       *)
(* inventory is owed: what starts now is no danger.                         *)
LEMMA SessionStep ==
  ASSUME BoundaryInv, Quiet, SessionsChange,
         UNCHANGED <<login, logins, daemon, stamp, child, reading, flight>>,
         loaded' \subseteq AppSessions
  PROVE  WorldTyped' /\ FlightTyped' /\ Record' /\ Inventories' /\ Apart'
<1>1. PICK was \in [1..MaxLogins -> Accounts \cup {NoAccount}] : Recorded(was)
  BY DEF BoundaryInv, Record
<1>2. ASSUME NEW t \in Sessions, session'[t].present
      PROVE  /\ session'[t].login # 0
             /\ session'[t].account = was[session'[t].login]
  BY <1>1, <1>2, ReadingsAssumption
     DEF SessionsChange, GoesOn, StartsNow, Recorded, BoundaryInv, Typed, WorldTyped
<1>3. WorldTyped' /\ FlightTyped'
  <2>1. session' \in [Sessions -> SessionType']
    BY DEF SessionsChange, SessionType
  <2>2. Child' = Child /\ Reading' = Reading
    BY DEF Child, Reading
  <2>3. AppSessions' = AppSessions
    BY SameApps
  <2>4. WorldTyped'
    BY <1>2, <2>1, <2>2, <2>3 DEF BoundaryInv, Typed, WorldTyped
  <2> QED
    BY <2>4 DEF BoundaryInv, Typed, FlightTyped
<1>4. Record'
  <2>1. Reading' = Reading
    BY DEF Reading
  <2>2. Recorded(was)'
    BY <1>1, <1>2, <2>1 DEF Recorded, Quiet
  <2> QED
    BY <2>2 DEF Record
<1>5. Inventories'
  <2>1. ASSUME NEW m \in flight, "runtime" \in m.snapshot.reads,
               NEW t \in AppSessions, session'[t].present
        PROVE  \/ t \in Present(m.snapshot.threads)
               \/ session'[t].account = m.snapshot.account
               \/ session'[t].login >= m.login
    BY <2>1 DEF SessionsChange, GoesOn, StartsNow, BoundaryInv, Inventories, Adopted,
       AppSessions
  <2>2. AppSessions' = AppSessions
    BY SameApps
  <2> QED
    BY <2>1, <2>2 DEF BoundaryInv, Inventories, Adopted
<1>6. Apart'
  <2>1. ASSUME NEW t \in Sessions, session'[t].present,
               Foreign(session'[t].login, session'[t].account)
        PROVE  t \in Mine.quarantine \/ (t \in AppSessions /\ Mine.pending)
    <3>1. CASE GoesOn(t)
      BY <2>1, <3>1 DEF GoesOn, BoundaryInv, Apart
    <3>2. CASE StartsNow(t) /\ t \in AppSessions
      BY <2>1, <3>2 DEF StartsNow, BoundaryInv, Apart
    <3>3. CASE StartsNow(t) /\ t \notin AppSessions
      <4>1. session'[t].login = logins /\ session'[t].account = login /\ logins \in heard
        BY <2>1, <3>3 DEF StartsNow, Foreign
      <4>2. logins = current /\ current # 0
        BY <4>1, ReadingsAssumption DEF BoundaryInv, Typed, HubTyped, WorldTyped
      <4>3. login = Mine.good.account
        BY <1>1, <4>2 DEF Recorded
      <4> QED
        BY <2>1, <4>1, <4>3 DEF Foreign
    <3> QED
      BY <2>1, <3>1, <3>2, <3>3 DEF SessionsChange
  <2>2. Foreign(daemon.login, daemon.account) => Mine.pending
    BY DEF BoundaryInv, Apart
  <2>3. AppSessions' = AppSessions
    BY SameApps
  <2> QED
    BY <2>1, <2>2, <2>3 DEF Quiet, Apart, Foreign
<1> QED
  BY <1>3, <1>4, <1>5, <1>6

LEMMA LoadStep ==
  ASSUME BoundaryInv, Quiet, NEW s \in Sessions, LoadThread(s) \/ UnloadThread(s)
  PROVE  WorldTyped' /\ FlightTyped' /\ Record' /\ Inventories' /\ Visible' /\ Apart'
<1>1. /\ SessionsChange /\ loaded' \subseteq AppSessions
      /\ UNCHANGED <<vars, login, logins, daemon, stamp, child, reading, flight>>
  <2>1. CASE LoadThread(s)
    <3>1. s \in AppSessions /\ Starts(s, daemon.account, daemon.login)
      BY <2>1 DEF LoadThread
    <3>2. SessionsChange
      BY <3>1, Starting
    <3> QED
      BY <2>1, <3>1, <3>2 DEF LoadThread, BoundaryInv, Typed, WorldTyped, refreshes
  <2>2. CASE UnloadThread(s)
    BY <2>2, Interrupting DEF UnloadThread, BoundaryInv, Typed, WorldTyped, refreshes
  <2> QED
    BY <2>1, <2>2
<1>2. AppSessions' = AppSessions
  BY <1>1, SameApps
<1>3. session \in [Sessions -> SessionType]
  BY DEF BoundaryInv, Typed, WorldTyped
<1>4. Visible'
  <2>1. CASE LoadThread(s)
    <3>1. \A t \in Sessions \ {s} : session'[t] = session[t]
      BY <1>3, <2>1 DEF LoadThread, Starts
    <3> QED
      BY <1>2, <2>1, <3>1 DEF LoadThread, BoundaryInv, Visible, vars
  <2>2. CASE UnloadThread(s)
    <3>1. ~session'[s].present /\ \A t \in Sessions \ {s} : session'[t] = session[t]
      BY <1>3, <2>2, Interrupting DEF UnloadThread, Interrupts
    <3> QED
      BY <1>2, <2>2, <3>1 DEF UnloadThread, BoundaryInv, Visible, vars
  <2> QED
    BY <2>1, <2>2
<1> QED
  BY <1>1, <1>4, SessionStep

LEMMA HookStep ==
  ASSUME BoundaryInv, Quiet, NEW s \in Sessions, HookEvent(s) \/ HookLapse(s)
  PROVE  WorldTyped' /\ FlightTyped' /\ Record' /\ Inventories' /\ Visible' /\ Apart'
<1>1. hooks \in [Users -> [Sessions -> Chats]] /\ session \in [Sessions -> SessionType]
  BY DEF BoundaryInv, HubInv, TypeOK, Typed, WorldTyped
<1>2. SessionsChange
  <2>1. CASE UNCHANGED session
    BY <1>1, <2>1 DEF SessionsChange, GoesOn, SessionType
  <2> QED
    BY <2>1, Starting, Interrupting DEF HookEvent, HookLapse
<1>3. UNCHANGED <<login, logins, daemon, loaded, stamp, child, reading, flight>>
      /\ AppSessions' = AppSessions
  BY <1>2, SameApps DEF HookEvent, HookLapse, refreshes
<1>4. \A t \in Sessions \ {s} : session'[t] = session[t] /\ hooks'[User][t] = hooks[User][t]
  BY <1>1, UserIsConsumer DEF HookEvent, HookLapse, ActivityChange, Starts, Interrupts
<1>5. Visible'
  <2>1. CASE s \in AppSessions
    <3>1. UNCHANGED session
      BY <2>1 DEF HookEvent, HookLapse
    <3> QED
      BY <1>3, <1>4, <2>1, <3>1 DEF BoundaryInv, Visible
  <2>2. CASE s \notin AppSessions /\ HookEvent(s)
    <3>1. hooks'[User][s] = "running"
      BY <1>1, <2>2, UserIsConsumer DEF HookEvent, ActivityChange
    <3> QED
      BY <1>3, <1>4, <2>2, <3>1 DEF BoundaryInv, Visible
  <2>3. CASE s \notin AppSessions /\ HookLapse(s)
    <3>1. ~session'[s].present
      BY <2>3, Interrupting DEF HookLapse
    <3> QED
      BY <1>3, <1>4, <2>3, <3>1 DEF BoundaryInv, Visible
  <2> QED
    BY <2>1, <2>2, <2>3
<1>6. loaded' \subseteq AppSessions
  BY <1>3 DEF BoundaryInv, Typed, WorldTyped
<1> QED
  BY <1>2, <1>3, <1>5, <1>6, SessionStep
-----------------------------------------------------------------------------
(* Collectors *)

LEMMA SnapshotReports ==
  ASSUME NEW state \in {"ok", "signed_out", "unavailable"}, NEW at \in Nat,
         NEW account, IF state = "ok" THEN account \in Accounts ELSE account = NoAccount,
         NEW reads \in SUBSET {"runtime"}, NEW threads \in [Sessions -> Chats]
  PROVE  /\ Snapshot(state, at, account, reads, threads) \in Report
         /\ Snapshot(state, at, account, reads, threads).state = state
         /\ Snapshot(state, at, account, reads, threads).at = at
         /\ Snapshot(state, at, account, reads, threads).account = account
         /\ Snapshot(state, at, account, reads, threads).reads = reads
         /\ Snapshot(state, at, account, reads, threads).threads = threads
<1>1. (IF state = "ok" THEN CHOOSE q \in Quotas : TRUE ELSE NoQuota) \in Quotas \cup {NoQuota}
  BY ReadingsAssumption
<1> QED
  BY <1>1 DEF Snapshot, Report

(* What a message must be to be on its way. *)
Deliverable(m, was) ==
  /\ m.snapshot \in Report
  /\ m.snapshot.state # "ok" => m.snapshot.reads = {}
  /\ m.snapshot.state = "ok" => m.login \in 1..logins /\ m.snapshot.account = was[m.login]
  /\ "runtime" \in m.snapshot.reads =>
       /\ Adopted(m.login, m.snapshot.account)
       /\ \A s \in AppSessions : session[s].present =>
            \/ s \in Present(m.snapshot.threads)
            \/ session[s].account = m.snapshot.account
            \/ session[s].login >= m.login

(* What an App Server answers for, and what a collector has read of it. *)
Answers(k, was) == k = NoChild \/ (k \in Child /\ k.account = was[k.login])
Readable(r, was) ==
  \/ r = NoReading
  \/ r = NothingRead
  \/ /\ r \in Reading /\ r.account = was[r.login]
     /\ r.phase = "checked" => Adopted(r.login, r.account)

LEMMA Readings ==
  ASSUME BoundaryInv, NEW was, Recorded(was)
  PROVE  /\ \A c \in Collectors : Answers(child[c], was) /\ Readable(reading[c], was)
         /\ \A m \in flight : Deliverable(m, was)
<1>1. ASSUME NEW c \in Collectors PROVE Answers(child[c], was)
  BY DEF BoundaryInv, Typed, WorldTyped, Recorded, Answers
<1>2. ASSUME NEW c \in Collectors PROVE Readable(reading[c], was)
  BY DEF BoundaryInv, Typed, WorldTyped, Recorded, Inventories, Readable
<1>3. ASSUME NEW m \in flight PROVE Deliverable(m, was)
  BY DEF BoundaryInv, Typed, FlightTyped, Recorded, Inventories, Deliverable
<1> QED
  BY <1>1, <1>2, <1>3

(* One collector goes on to App Server k and reading r and may send the     *)
(* message m.                                                               *)
LEMMA CollectorStep ==
  ASSUME BoundaryInv, Quiet, UNCHANGED <<hooks, truth>>,
         NEW was \in [1..MaxLogins -> Accounts \cup {NoAccount}], Recorded(was),
         stamp' \in 0..MaxStamp,
         NEW c \in Collectors, NEW k, Answers(k, was), child' = [child EXCEPT ![c] = k],
         NEW r, Readable(r, was), reading' = [reading EXCEPT ![c] = r],
         NEW m, flight' = flight \/ flight' = flight \cup {m},
         m \in flight' \ flight => Deliverable(m, was)
  PROVE  WorldTyped' /\ FlightTyped' /\ Record' /\ Inventories' /\ Visible' /\ Apart'
<1>1. UNCHANGED <<login, logins, daemon, loaded, session, AppSessions, SessionType, Child,
                  Reading>>
  BY DEF truth, AppSessions, SessionType, Child, Reading
<1>2. ASSUME NEW d \in Collectors PROVE Answers(child'[d], was)
  <2>1. child'[d] = k \/ child'[d] = child[d]
    BY DEF BoundaryInv, Typed, WorldTyped
  <2> QED
    BY <2>1, Readings
<1>3. ASSUME NEW d \in Collectors PROVE Readable(reading'[d], was)
  <2>1. reading'[d] = r \/ reading'[d] = reading[d]
    BY DEF BoundaryInv, Typed, WorldTyped
  <2> QED
    BY <2>1, Readings
<1>4. ASSUME NEW n \in flight' PROVE Deliverable(n, was)
  <2>1. CASE n \in flight
    BY <2>1, Readings
  <2>2. CASE n \notin flight
    <3>1. n = m
      BY <2>2
    <3> QED
      BY <2>2, <3>1
  <2> QED
    BY <2>1, <2>2
<1>5. child' \in [Collectors -> {NoChild} \cup Child]
  <2>1. \A d \in Collectors : child'[d] \in {NoChild} \cup Child
    BY <1>2 DEF Answers
  <2> QED
    BY <2>1 DEF BoundaryInv, Typed, WorldTyped
<1>6. reading' \in [Collectors -> {NoReading, NothingRead} \cup Reading]
  <2>1. \A d \in Collectors : reading'[d] \in {NoReading, NothingRead} \cup Reading
    BY <1>3 DEF Readable
  <2> QED
    BY <2>1 DEF BoundaryInv, Typed, WorldTyped
<1>7. WorldTyped'
  BY <1>1, <1>5, <1>6 DEF BoundaryInv, Typed, WorldTyped
<1>8. FlightTyped'
  BY <1>1, <1>4 DEF FlightTyped, Deliverable
<1>9. Record'
  <2>1. NoReading \notin Reading /\ NothingRead \notin Reading
    BY DEF Reading, NoReading, NothingRead
  <2>2. \A d \in Collectors : child'[d] # NoChild => child'[d].account = was[child'[d].login]
    BY <1>2 DEF Answers
  <2>3. \A d \in Collectors :
          reading'[d] \in Reading => reading'[d].account = was[reading'[d].login]
    BY <1>3, <2>1 DEF Readable
  <2>4. \A n \in flight' : n.snapshot.state = "ok" => n.snapshot.account = was[n.login]
    BY <1>4 DEF Deliverable
  <2>5. Recorded(was)'
    BY <1>1, <2>2, <2>3, <2>4 DEF Recorded, Quiet
  <2> QED
    BY <2>5 DEF Record
<1>10. Inventories'
  <2>1. NoReading.phase # "checked" /\ NothingRead.phase # "checked"
    BY DEF NoReading, NothingRead
  <2>2. \A d \in Collectors : reading'[d].phase = "checked" =>
          Adopted(reading'[d].login, reading'[d].account)
    BY <1>3, <2>1 DEF Readable
  <2> QED
    BY <1>1, <1>4, <2>2 DEF Inventories, Deliverable, Adopted
<1>11. Visible' /\ Apart'
  BY <1>1 DEF BoundaryInv, Visible, Apart, Foreign, Quiet
<1> QED
  BY <1>7, <1>8, <1>9, <1>10, <1>11

(* A message that is no good snapshot says nothing of logins. *)
LEMMA BadNews ==
  ASSUME NEW state \in {"signed_out", "unavailable"}, NEW at \in Nat,
         NEW was, NEW m,
         m = [snapshot |-> Snapshot(state, at, NoAccount, {}, NoChats), login |-> 0]
  PROVE  Deliverable(m, was)
<1>1. NoChats \in [Sessions -> Chats]
  BY DEF NoChats, Chats
<1>2. /\ m.snapshot \in Report /\ m.snapshot.at = at
      /\ m.snapshot.state = state /\ m.snapshot.reads = {}
  BY <1>1, SnapshotReports
<1> QED
  BY <1>2 DEF Deliverable

(* An App Server takes the login in force; one that ends leaves nothing. *)
LEMMA ChildStep ==
  ASSUME BoundaryInv, Quiet, NEW c \in Collectors, StartChild(c) \/ EndSession(c)
  PROVE  WorldTyped' /\ FlightTyped' /\ Record' /\ Inventories' /\ Visible' /\ Apart'
<1>1. PICK was \in [1..MaxLogins -> Accounts \cup {NoAccount}] : Recorded(was)
  BY DEF BoundaryInv, Record
<1>2. /\ UNCHANGED <<hooks, truth, flight, stamp>> /\ stamp' \in 0..MaxStamp
  BY ReadingsAssumption DEF StartChild, EndSession, vars, BoundaryInv, Typed, WorldTyped
<1>3. PICK k : child' = [child EXCEPT ![c] = k] /\ Answers(k, was)
  <2>1. CASE EndSession(c)
    BY <2>1 DEF EndSession, Answers
  <2>2. CASE StartChild(c)
    <3>1. PICK k : k = [login |-> logins, account |-> login]
      OBVIOUS
    <3>2. k \in Child /\ k.account = was[k.login]
      BY <1>1, <3>1, ReadingsAssumption DEF Child, Recorded, BoundaryInv, Typed, WorldTyped
    <3> QED
      BY <2>2, <3>1, <3>2 DEF StartChild, Answers
  <2> QED
    BY <2>1, <2>2
<1>4. PICK r : reading' = [reading EXCEPT ![c] = r] /\ Readable(r, was)
  <2>1. reading' = [reading EXCEPT ![c] = NoReading]
    BY DEF StartChild, EndSession, BoundaryInv, Typed, WorldTyped
  <2> QED
    BY <2>1 DEF Readable
<1>5. PICK m : m \notin flight' \ flight
  BY <1>2
<1> QED
  BY <1>1, <1>2, <1>3, <1>4, <1>5, CollectorStep

(* What an App Server answers may be of any login up to the one in force. *)
LEMMA AccountStep ==
  ASSUME BoundaryInv, Quiet, NEW c \in Collectors, ReadAccount(c) \/ FindNoAuth(c)
  PROVE  WorldTyped' /\ FlightTyped' /\ Record' /\ Inventories' /\ Visible' /\ Apart'
<1>1. PICK was \in [1..MaxLogins -> Accounts \cup {NoAccount}] : Recorded(was)
  BY DEF BoundaryInv, Record
<1>2. /\ UNCHANGED <<hooks, truth, child, flight, stamp>> /\ stamp' \in 0..MaxStamp
  BY ReadingsAssumption
     DEF ReadAccount, FindNoAuth, Learns, vars, BoundaryInv, Typed, WorldTyped
<1>3. PICK r : reading' = [reading EXCEPT ![c] = r] /\ Readable(r, was)
  <2>1. CASE FindNoAuth(c)
    BY <2>1 DEF FindNoAuth, Learns, NoChild, NothingRead, Readable
  <2>2. CASE ReadAccount(c)
    <3>1. PICK r : r = [phase |-> "read", at |-> 0, login |-> child[c].login,
                        account |-> child[c].account]
      OBVIOUS
    <3>2. child[c] \in Child /\ child[c].account = was[child[c].login]
      BY <1>1, <2>2, Readings DEF ReadAccount, Answers
    <3>3. r \in Reading /\ r.account = was[r.login] /\ r.phase # "checked"
      BY <3>1, <3>2 DEF Child, Reading
    <3> QED
      BY <2>2, <3>1, <3>3 DEF ReadAccount, Learns, Readable
  <2> QED
    BY <2>1, <2>2
<1>4. PICK k : k = child[c]
  OBVIOUS
<1>5. child' = [child EXCEPT ![c] = k] /\ Answers(k, was)
  BY <1>1, <1>2, <1>4, Readings DEF BoundaryInv, Typed, WorldTyped
<1>6. PICK m : m \notin flight' \ flight
  BY <1>2
<1> QED
  BY <1>1, <1>2, <1>3, <1>5, <1>6, CollectorStep

(* The time is taken: of a good reading it is noted, of another one told. *)
LEMMA ObserveStep ==
  ASSUME BoundaryInv, Quiet, NEW c \in Collectors, Observe(c) \/ PublishUnavailable(c)
  PROVE  WorldTyped' /\ FlightTyped' /\ Record' /\ Inventories' /\ Visible' /\ Apart'
<1>1. PICK was \in [1..MaxLogins -> Accounts \cup {NoAccount}] : Recorded(was)
  BY DEF BoundaryInv, Record
<1>2. /\ stamp \in Nat /\ stamp' = stamp + 1 /\ stamp' \in 0..MaxStamp
      /\ stamp + 1 \in Nat
      /\ UNCHANGED <<hooks, truth, child>>
  BY ReadingsAssumption
     DEF Observe, PublishUnavailable, vars, refreshes, BoundaryInv, Typed, WorldTyped
<1>3. PICK k : k = child[c]
  OBVIOUS
<1>4. child' = [child EXCEPT ![c] = k] /\ Answers(k, was)
  BY <1>1, <1>2, <1>3, Readings DEF BoundaryInv, Typed, WorldTyped
<1>5. CASE Observe(c) /\ reading[c].account # NoAccount
  <2>1. PICK r : r = [reading[c] EXCEPT !.phase = "account", !.at = stamp + 1]
    OBVIOUS
  <2>2. reading' = [reading EXCEPT ![c] = r] /\ flight' = flight
    BY <1>2, <1>5, <2>1 DEF Observe
  <2>3. reading[c] \in Reading /\ reading[c].account = was[reading[c].login]
    <3>1. Readable(reading[c], was)
      BY <1>1, Readings
    <3>2. reading[c].phase = "read" /\ reading[c].account # NoAccount
      BY <1>5 DEF Observe
    <3> QED
      BY <3>1, <3>2 DEF Readable, NoReading, NothingRead
  <2>4. /\ r.phase = "account" /\ r.at = stamp + 1 /\ r.login = reading[c].login
        /\ r.account = reading[c].account /\ r.account \in Accounts
        /\ r.login \in 1..logins
        /\ r = [phase |-> "account", at |-> r.at, login |-> r.login, account |-> r.account]
    BY <1>5, <2>1, <2>3 DEF Reading
  <2>5. r \in Reading
    BY <1>2, <2>4 DEF Reading
  <2>6. Readable(r, was)
    BY <2>3, <2>4, <2>5 DEF Readable
  <2>7. PICK m : m \notin flight' \ flight
    BY <2>2
  <2> QED
    BY <1>1, <1>2, <1>4, <2>2, <2>6, <2>7, CollectorStep
<1>6. CASE PublishUnavailable(c) \/ (Observe(c) /\ reading[c].account = NoAccount)
  <2>1. PICK state \in {"signed_out", "unavailable"} :
          flight' = flight \cup {[snapshot |-> Snapshot(state, stamp + 1, NoAccount, {}, NoChats),
                                  login |-> 0]}
    BY <1>2, <1>6 DEF Observe, PublishUnavailable, Send
  <2>2. PICK m : m = [snapshot |-> Snapshot(state, stamp + 1, NoAccount, {}, NoChats),
                      login |-> 0]
    OBVIOUS
  <2>3. Deliverable(m, was)
    BY <1>2, <2>2, BadNews
  <2>4. PICK r : r = NoReading
    OBVIOUS
  <2>5. reading' = [reading EXCEPT ![c] = r]
    BY <1>6, <2>4 DEF Observe, PublishUnavailable, refreshes, BoundaryInv, Typed, WorldTyped
  <2>6. Readable(r, was)
    BY <2>4 DEF Readable
  <2>7. flight' = flight \cup {m}
    BY <2>1, <2>2
  <2> QED
    BY <1>1, <1>2, <1>4, <2>3, <2>5, <2>6, <2>7, CollectorStep
<1> QED
  BY <1>5, <1>6

(* The daemon's account is the one that was read: it has adopted it. *)
LEMMA CheckStep ==
  ASSUME BoundaryInv, Quiet, NEW c \in Collectors, CheckControlAccount(c)
  PROVE  WorldTyped' /\ FlightTyped' /\ Record' /\ Inventories' /\ Visible' /\ Apart'
<1>1. PICK was \in [1..MaxLogins -> Accounts \cup {NoAccount}] : Recorded(was)
  BY DEF BoundaryInv, Record
<1>2. UNCHANGED <<hooks, truth, stamp, child, flight>> /\ stamp' \in 0..MaxStamp
  BY ReadingsAssumption DEF CheckControlAccount, vars, BoundaryInv, Typed, WorldTyped
<1>3. PICK r : r = [reading[c] EXCEPT !.phase = "checked"]
  OBVIOUS
<1>4. reading' = [reading EXCEPT ![c] = r]
  BY <1>3 DEF CheckControlAccount
<1>5. /\ reading[c] \in Reading /\ reading[c].phase = "account"
      /\ reading[c].account = was[reading[c].login] /\ daemon.account = reading[c].account
  <2>1. Readable(reading[c], was)
    BY <1>1, Readings
  <2>2. reading[c].phase = "account" /\ daemon.account = reading[c].account
    BY DEF CheckControlAccount
  <2> QED
    BY <2>1, <2>2 DEF Readable, NoReading, NothingRead
<1>6. /\ r.phase = "checked" /\ r.at = reading[c].at /\ r.login = reading[c].login
      /\ r.account = reading[c].account /\ r \in Reading
  BY <1>3, <1>5 DEF Reading
<1>7. Readable(r, was)
  BY <1>5, <1>6 DEF Readable, Adopted
<1>8. PICK k : k = child[c]
  OBVIOUS
<1>9. child' = [child EXCEPT ![c] = k] /\ Answers(k, was)
  BY <1>1, <1>2, <1>8, Readings DEF BoundaryInv, Typed, WorldTyped
<1>10. PICK m : m \notin flight' \ flight
  BY <1>2
<1> QED
  BY <1>1, <1>2, <1>4, <1>7, <1>9, <1>10, CollectorStep

(* What is published names every thread the daemon holds, or none is read.  *)
LEMMA PublishingStep ==
  ASSUME BoundaryInv, Quiet, NEW c \in Collectors, LoadedThreads(c) \/ InventoryFails(c)
  PROVE  WorldTyped' /\ FlightTyped' /\ Record' /\ Inventories' /\ Visible' /\ Apart'
<1>1. PICK was \in [1..MaxLogins -> Accounts \cup {NoAccount}] : Recorded(was)
  BY DEF BoundaryInv, Record
<1>2. /\ Readable(reading[c], was) /\ reading[c] \in Reading
      /\ reading[c].at \in Nat /\ reading[c].login \in 1..logins
      /\ reading[c].account \in Accounts /\ reading[c].account = was[reading[c].login]
      /\ LoadedThreads(c) => reading[c].phase = "checked"
  <2>1. Readable(reading[c], was)
    BY <1>1, Readings
  <2>2. reading[c].phase \in {"account", "checked"}
    BY DEF LoadedThreads, InventoryFails
  <2>3. reading[c] \in Reading /\ reading[c].account = was[reading[c].login]
    BY <2>1, <2>2 DEF Readable, NoReading, NothingRead
  <2>4. /\ reading[c].at \in Nat /\ reading[c].login \in 1..logins
        /\ reading[c].account \in Accounts
    BY <2>2, <2>3 DEF Reading
  <2> QED
    BY <2>1, <2>3, <2>4 DEF LoadedThreads
<1>3. /\ UNCHANGED <<hooks, truth, stamp, child>> /\ stamp' \in 0..MaxStamp
      /\ reading' = [reading EXCEPT ![c] = NoReading]
  BY ReadingsAssumption
     DEF LoadedThreads, InventoryFails, Publishes, vars, BoundaryInv, Typed, WorldTyped
<1>4. PICK reads \in SUBSET {"runtime"}, threads \in [Sessions -> Chats] :
        /\ Send(Snapshot("ok", reading[c].at, reading[c].account, reads, threads),
                reading[c].login)
        /\ "runtime" \in reads => /\ reading[c].phase = "checked"
                                  /\ loaded \subseteq Present(threads)
  <2>1. CASE LoadedThreads(c)
    <3>1. PICK threads : threads = [s \in Sessions |-> IF s \in loaded THEN "running" ELSE "absent"]
      OBVIOUS
    <3>2. threads \in [Sessions -> Chats]
      BY <3>1 DEF Chats
    <3>3. loaded \subseteq Present(threads)
      BY <3>1 DEF Present, AppSessions, BoundaryInv, Typed, WorldTyped
    <3>4. Send(Snapshot("ok", reading[c].at, reading[c].account, {"runtime"}, threads),
               reading[c].login)
      BY <2>1, <3>1 DEF LoadedThreads, Publishes
    <3> QED
      BY <1>2, <2>1, <3>2, <3>3, <3>4
  <2>2. CASE InventoryFails(c)
    <3>1. NoChats \in [Sessions -> Chats]
      BY DEF NoChats, Chats
    <3>2. PICK reads \in SUBSET {"runtime"}, threads \in [Sessions -> Chats] :
            reads = {} /\ threads = NoChats
      BY <3>1
    <3>3. Send(Snapshot("ok", reading[c].at, reading[c].account, reads, threads),
               reading[c].login)
      BY <2>2, <3>2 DEF InventoryFails, Publishes
    <3>4. "runtime" \notin reads
      BY <3>2
    <3> QED
      BY <3>3, <3>4
  <2> QED
    BY <2>1, <2>2
<1>5. PICK m :
        m = [snapshot |-> Snapshot("ok", reading[c].at, reading[c].account, reads, threads),
             login |-> reading[c].login]
  OBVIOUS
<1>6. /\ m.snapshot \in Report /\ m.snapshot.at = reading[c].at
      /\ m.snapshot.state = "ok" /\ m.snapshot.account = reading[c].account
      /\ m.snapshot.reads = reads /\ m.snapshot.threads = threads
      /\ m.login = reading[c].login
  <2>1. reading[c].at \in Nat /\ reading[c].account \in Accounts
    BY <1>2
  <2> QED
    BY <1>5, <2>1, SnapshotReports
<1>7. "runtime" \in reads =>
        /\ Adopted(m.login, m.snapshot.account)
        /\ \A s \in AppSessions : session[s].present => s \in Present(m.snapshot.threads)
  <2>1. "runtime" \in reads => Adopted(m.login, m.snapshot.account)
    BY <1>2, <1>4, <1>6 DEF Readable, NoReading, NothingRead
  <2>2. \A s \in AppSessions : session[s].present => s \in loaded
    BY DEF BoundaryInv, Visible, AppSessions
  <2> QED
    BY <1>4, <1>6, <2>1, <2>2
<1>8. Deliverable(m, was)
  BY <1>2, <1>6, <1>7 DEF Deliverable
<1>9. flight' = flight \cup {m}
  BY <1>4, <1>5 DEF Send
<1>10. PICK r : r = NoReading
  OBVIOUS
<1>11. Readable(r, was) /\ reading' = [reading EXCEPT ![c] = r]
  BY <1>3, <1>10 DEF Readable
<1>12. PICK k : k = child[c]
  OBVIOUS
<1>13. child' = [child EXCEPT ![c] = k] /\ Answers(k, was)
  BY <1>1, <1>3, <1>12, Readings DEF BoundaryInv, Typed, WorldTyped
<1> QED
  BY <1>1, <1>3, <1>8, <1>9, <1>11, <1>13, CollectorStep
-----------------------------------------------------------------------------
(* A snapshot is delivered *)

(* What the hub makes of an accepted one. *)
LEMMA Accepted ==
  ASSUME BoundaryInv, NEW m \in flight, Deliver(m), Accepts(Mine, m.snapshot)
  PROVE  /\ HubInv'
         /\ Mine' = NextEntry(User, Mine, m.snapshot)
         /\ hooks' = hooks
<1>1. m.snapshot \in Report
  BY DEF BoundaryInv, Typed, FlightTyped
<1>2. Apply(User, m.snapshot)
  BY DEF Deliver, Mine
<1>3. HubInv'
  BY <1>1, <1>2, UserIsConsumer, ApplyTypes, ApplyEntries DEF BoundaryInv, HubInv
<1>4. Mine' = NextEntry(User, Mine, m.snapshot)
  BY <1>2, UserIsConsumer DEF Apply, Mine, BoundaryInv, HubInv, TypeOK
<1> QED
  BY <1>2, <1>3, <1>4 DEF Apply

(* Deliver changes nothing but the hub, and takes the message away. *)
LEMMA DeliverWorld ==
  ASSUME BoundaryInv, NEW m \in flight, Deliver(m), UNCHANGED hooks
  PROVE  WorldTyped' /\ FlightTyped' /\ Inventories' /\ Visible'
<1>1. UNCHANGED <<login, logins, daemon, loaded, session, stamp, child, reading,
                  AppSessions, SessionType, Child, Reading>>
      /\ flight' \subseteq flight
  BY DEF Deliver, truth, refreshes, AppSessions, SessionType, Child, Reading
<1>2. WorldTyped' /\ FlightTyped'
  BY <1>1 DEF BoundaryInv, Typed, WorldTyped, FlightTyped
<1> QED
  BY <1>1, <1>2 DEF BoundaryInv, Inventories, Adopted, Visible

LEMMA DropStep ==
  ASSUME BoundaryInv, NEW m \in flight, Deliver(m), ~Accepts(Mine, m.snapshot)
  PROVE  BoundaryInv'
<1>1. UNCHANGED <<vars, heard, current, inventory, truth, child, reading, AppSessions,
                  Reading>>
      /\ flight' \subseteq flight
  BY DEF Deliver, Mine, refreshes, truth, AppSessions, Reading
<1>2. HubInv'
  <2>1. [Next]_vars
    BY <1>1
  <2> QED
    BY <2>1, TypeStep, EntriesStep DEF BoundaryInv, HubInv
<1>3. HubTyped' /\ Apart' /\ Retained'
  BY <1>1 DEF BoundaryInv, Typed, HubTyped, Apart, Foreign, Retained, vars, truth, Mine
<1>4. Record'
  <2>1. PICK was \in [1..MaxLogins -> Accounts \cup {NoAccount}] : Recorded(was)
    BY DEF BoundaryInv, Record
  <2>2. Recorded(was)'
    BY <1>1, <2>1 DEF Recorded, vars, truth, Mine
  <2> QED
    BY <2>2 DEF Record
<1>5. UNCHANGED hooks
  BY <1>1 DEF vars
<1> QED
  BY <1>2, <1>3, <1>4, <1>5, DeliverWorld DEF BoundaryInv, Typed

(* Without a good snapshot the hub keeps what it knows of the account, and  *)
(* lets the inventory go.                                                   *)
LEMMA BadStep ==
  ASSUME BoundaryInv, NEW m \in flight, Deliver(m), Accepts(Mine, m.snapshot),
         m.snapshot.state # "ok"
  PROVE  BoundaryInv'
<1>1. m.snapshot.reads = {}
  BY DEF BoundaryInv, Typed, FlightTyped
<1>2. /\ Mine'.state # "ok" /\ Mine'.good = Mine.good
      /\ Mine'.quarantine = Mine.quarantine /\ Mine'.pending = Mine.pending
      /\ Mine'.inventoryAt = 0
  <2>1. /\ Mine'.state = m.snapshot.state
        /\ Mine'.good = NextGood(Mine, m.snapshot)
        /\ Mine'.quarantine = NextQuarantine(User, Mine, m.snapshot)
        /\ Mine'.pending = NextPending(User, Mine, m.snapshot)
        /\ Mine'.inventoryAt = NextInventoryAt(User, Mine, m.snapshot)
    BY Accepted DEF NextEntry
  <2>2. ~ReadsRuntime(User, m.snapshot) /\ ~RetainsRuntime(User, Mine, m.snapshot)
        /\ ~ConsumerSwitch(User, Mine, m.snapshot)
    BY DEF ReadsRuntime, RetainsRuntime, ConsumerSwitch, AccountChanges
  <2>3. Mine.pending \in BOOLEAN
    BY UserIsConsumer DEF BoundaryInv, HubInv, TypeOK, Mine, Entry
  <2>4. NextPending(User, Mine, m.snapshot) = Mine.pending
    BY <2>2, <2>3 DEF NextPending
  <2> QED
    BY <2>1, <2>2, <2>4 DEF NextGood, NextQuarantine, NextInventoryAt
<1>3. /\ UNCHANGED <<heard, current, inventory, truth, child, reading, AppSessions, Reading>>
      /\ flight' \subseteq flight
  BY <1>1 DEF Deliver, Mine, refreshes, truth, AppSessions, Reading
<1>4. HubTyped' /\ Apart' /\ Retained'
  BY <1>2, <1>3 DEF BoundaryInv, Typed, HubTyped, Apart, Foreign, Retained, truth
<1>5. Record'
  <2>1. PICK was \in [1..MaxLogins -> Accounts \cup {NoAccount}] : Recorded(was)
    BY DEF BoundaryInv, Record
  <2>2. Recorded(was)'
    BY <1>2, <1>3, <2>1 DEF Recorded, truth
  <2> QED
    BY <2>2 DEF Record
<1> QED
  BY <1>4, <1>5, Accepted, DeliverWorld DEF BoundaryInv, Typed

(* A good one: it takes back what was heard of newer logins, and what the   *)
(* hub would now show of the account of an older one is quarantined.        *)
LEMMA GoodStep ==
  ASSUME BoundaryInv, NEW m \in flight, Deliver(m), Accepts(Mine, m.snapshot),
         m.snapshot.state = "ok"
  PROVE  BoundaryInv'
<1> DEFINE s == m.snapshot
<1>1. /\ heard' = {l \in heard : l < m.login} \cup {m.login} /\ current' = m.login
      /\ UNCHANGED <<login, logins, daemon, loaded, session, child, reading, hooks,
                     AppSessions, Reading>>
      /\ flight' \subseteq flight
      /\ inventory' = IF "runtime" \in s.reads
                      THEN [account |-> s.account, threads |-> Present(s.threads),
                            at |-> now, boundary |-> ConsumerSwitch(User, Mine, s)]
                      ELSE inventory
  BY Accepted DEF Deliver, Mine, truth, refreshes, AppSessions, Reading
<1>2. /\ Mine'.good.account = s.account /\ Mine'.membership = s.account
      /\ Mine'.quarantine = NextQuarantine(User, Mine, s)
      /\ Mine'.pending = NextPending(User, Mine, s)
      /\ Mine'.runtime = NextRuntime(User, Mine, s)
      /\ Mine'.inventoryAt = NextInventoryAt(User, Mine, s)
  <2>1. Mine' = NextEntry(User, Mine, s)
    BY Accepted
  <2>2. /\ Mine'.good = NextGood(Mine, s)
        /\ Mine'.membership = NextMembership(User, Mine, s)
        /\ Mine'.quarantine = NextQuarantine(User, Mine, s)
        /\ Mine'.pending = NextPending(User, Mine, s)
        /\ Mine'.runtime = NextRuntime(User, Mine, s)
        /\ Mine'.inventoryAt = NextInventoryAt(User, Mine, s)
    BY <2>1 DEF NextEntry
  <2>3. NextGood(Mine, s) = [at |-> s.at, account |-> s.account, quota |-> s.quota]
    BY DEF NextGood
  <2>4. NextMembership(User, Mine, s) = s.account
    BY UserIsConsumer DEF NextMembership
  <2> QED
    BY <2>2, <2>3, <2>4
<1>3. /\ s.account \in Accounts /\ m.login \in 1..logins /\ logins \in Nat
      /\ heard \subseteq 1..current /\ current \in Nat
  BY ReadingsAssumption DEF BoundaryInv, Typed, WorldTyped, FlightTyped, HubTyped, Report
<1>4. PICK was \in [1..MaxLogins -> Accounts \cup {NoAccount}] : Recorded(was)
  BY DEF BoundaryInv, Record
<1>5. s.account = was[m.login]
  BY <1>4 DEF Recorded
<1>6. HubTyped'
  <2>1. ASSUME NEW l \in heard' PROVE l \in 1..m.login
    <3>1. l = m.login \/ (l < m.login /\ l \in 1..current)
      BY <1>1, <1>3
    <3> QED
      BY <1>3, <3>1
  <2>2. Mine'.good.account # NoAccount /\ current' # 0
    BY <1>1, <1>2, <1>3, AccountsAssumption
  <2>3. heard' \subseteq 1..current' /\ current' \in 0..logins'
    <3>1. m.login \in 0..logins
      BY <1>3
    <3> QED
      BY <1>1, <2>1, <3>1
  <2>4. Mine'.membership = Mine'.good.account
    BY <1>2
  <2> HIDE DEF s
  <2> QED
    BY <2>2, <2>3, <2>4 DEF HubTyped
<1>7. Record'
  <2>1. Recorded(was)'
    BY <1>1, <1>2, <1>4, <1>5 DEF Recorded
  <2> QED
    BY <2>1 DEF Record
(* What is foreign after this step is older than it, and was foreign before *)
(* if the account has not changed.                                          *)
<1>8. ASSUME NEW l \in heard', NEW a, a = was[l], a # s.account
      PROVE  /\ l < m.login
             /\ ConsumerSwitch(User, Mine, s) \/ Foreign(l, a)
  <2>1. l \in heard /\ l < m.login
    <3>1. l # m.login
      BY <1>5, <1>8
    <3> QED
      BY <1>1, <1>8, <3>1
  <2>2. current # 0
    <3>1. l \in 1..current
      BY <1>3, <2>1
    <3> QED
      BY <3>1
  <2>3. Mine.good.account # NoAccount
    BY <2>2 DEF BoundaryInv, Typed, HubTyped
  <2> QED
    BY <1>8, <2>1, <2>3, UserIsConsumer DEF ConsumerSwitch, AccountChanges, Foreign
<1>9. Apart'
  <2>1. ASSUME Foreign(daemon.login, daemon.account)'
        PROVE  Mine'.pending
    <3>1. /\ daemon.login \in heard' /\ daemon.account # s.account
          /\ daemon.account = was[daemon.login]
      BY <1>1, <1>2, <1>4, <2>1 DEF Foreign, Recorded
    <3>2. /\ daemon.login < m.login
          /\ ConsumerSwitch(User, Mine, s) \/ Foreign(daemon.login, daemon.account)
      BY <1>8, <3>1
    <3>3. ConsumerSwitch(User, Mine, s) \/ Mine.pending
      BY <3>2 DEF BoundaryInv, Apart
    <3>4. ~ReadsRuntime(User, s)
      <4>1. ~(daemon.login >= m.login)
        BY <1>3, <3>2 DEF BoundaryInv, Typed, WorldTyped
      <4> QED
        BY <3>1, <4>1 DEF ReadsRuntime, BoundaryInv, Inventories, Adopted
    <3> QED
      BY <1>2, <3>3, <3>4 DEF NextPending
  <2>2. ASSUME NEW t \in Sessions, session[t].present,
               Foreign(session[t].login, session[t].account)'
        PROVE  t \in Mine'.quarantine \/ (t \in AppSessions /\ Mine'.pending)
    <3>1. /\ session[t].login \in heard' /\ session[t].account # s.account
          /\ session[t].account = was[session[t].login]
      BY <1>1, <1>2, <1>4, <2>2 DEF Foreign, Recorded
    <3>2. /\ session[t].login < m.login
          /\ ConsumerSwitch(User, Mine, s) \/ Foreign(session[t].login, session[t].account)
      BY <1>8, <3>1
    <3>3. \/ ConsumerSwitch(User, Mine, s) \/ t \in Mine.quarantine
          \/ t \in AppSessions /\ Mine.pending
      BY <2>2, <3>2 DEF BoundaryInv, Apart
    <3>4. ReadsRuntime(User, s) /\ t \in AppSessions => t \in Present(s.threads)
      <4>1. ~(session[t].login >= m.login)
        BY <1>3, <3>2 DEF BoundaryInv, Typed, WorldTyped, SessionType
      <4> QED
        BY <2>2, <3>1, <4>1 DEF ReadsRuntime, BoundaryInv, Inventories
    <3>5. t \notin AppSessions => t \in Present(hooks[User])
      BY <2>2 DEF BoundaryInv, Visible, Present
    <3>6. CASE ReadsRuntime(User, s)
      BY <1>2, <3>3, <3>4, <3>5, <3>6 DEF NextQuarantine
    <3>7. CASE ~ReadsRuntime(User, s)
      BY <1>2, <3>3, <3>5, <3>7 DEF NextQuarantine, NextPending
    <3> QED
      BY <3>6, <3>7
  <2> QED
    BY <1>1, <2>1, <2>2 DEF Apart
<1>10. Retained'
  <2>1. CASE ReadsRuntime(User, s) /\ ~ConsumerSwitch(User, Mine, s)
    <3>1. /\ inventory'.at = now /\ inventory'.account = s.account
          /\ ~inventory'.boundary /\ inventory'.threads = Present(s.threads)
      BY <1>1, <2>1 DEF ReadsRuntime
    <3>2. Mine'.inventoryAt = now
      BY <1>2, <2>1 DEF NextInventoryAt
    <3>3. Mine'.quarantine = {} => Present(Mine'.runtime) = Present(s.threads)
      BY <1>2, <2>1 DEF NextRuntime, Present
    <3> QED
      BY <1>2, <1>3, <3>1, <3>2, <3>3, AccountsAssumption DEF Retained
  <2>2. CASE RetainsRuntime(User, Mine, s)
    <3>1. /\ inventory' = inventory /\ Mine'.inventoryAt = Mine.inventoryAt
          /\ Mine'.runtime = Mine.runtime /\ Mine'.quarantine = Mine.quarantine
      BY <1>1, <1>2, <2>2
         DEF RetainsRuntime, ReadsRuntime, NextInventoryAt, NextRuntime, NextQuarantine
    <3>2. Mine.good.account \in {NoAccount, s.account}
      BY <2>2 DEF RetainsRuntime, ConsumerSwitch, AccountChanges
    <3>3. Mine.inventoryAt # 0 => Mine.good.account = s.account
      BY <3>2 DEF BoundaryInv, Retained
    <3> QED
      BY <1>2, <3>1, <3>3 DEF BoundaryInv, Retained
  <2>3. CASE /\ ~(ReadsRuntime(User, s) /\ ~ConsumerSwitch(User, Mine, s))
             /\ ~RetainsRuntime(User, Mine, s)
    BY <1>2, <2>3 DEF NextInventoryAt, Retained
  <2> QED
    BY <2>1, <2>2, <2>3
<1> QED
  BY <1>1, <1>6, <1>7, <1>9, <1>10, Accepted, DeliverWorld DEF BoundaryInv, Typed

(* The daemon adopts the login in force: the hub has heard of it last or    *)
(* not at all.                                                              *)
LEMMA AdoptApart ==
  ASSUME BoundaryInv, Quiet, AdoptLogin PROVE Apart'
<1>1. PICK was \in [1..MaxLogins -> Accounts \cup {NoAccount}] : Recorded(was)
  BY DEF BoundaryInv, Record
<1>2. ~Foreign(logins, login)
  <2>1. logins \in heard => logins = current /\ current # 0
    BY ReadingsAssumption DEF BoundaryInv, Typed, WorldTyped, HubTyped
  <2> QED
    BY <1>1, <2>1 DEF Recorded, Foreign
<1>3. daemon'.login = logins /\ daemon'.account = login
      /\ session' = session /\ AppSessions' = AppSessions
  BY DEF AdoptLogin, AppSessions
<1> QED
  BY <1>2, <1>3 DEF BoundaryInv, Apart, Foreign, Quiet

LEMMA BoundaryStep == BoundaryInv /\ [BoundaryNext]_<<vars, world>> => BoundaryInv'
<1> SUFFICES ASSUME BoundaryInv, [BoundaryNext]_<<vars, world>> PROVE BoundaryInv'
  OBVIOUS
<1>1. CASE \E m \in flight : Deliver(m)
  BY <1>1, DropStep, BadStep, GoodStep
<1>2. CASE \A m \in flight : ~Deliver(m)
  <2>1. Quiet /\ HubInv'
    BY <1>2, QuietSteps DEF BoundaryInv
  <2>2. logins \in Nat
    BY ReadingsAssumption DEF BoundaryInv, Typed, WorldTyped
  <2>3. ASSUME WorldTyped' /\ FlightTyped' /\ Record' /\ Inventories' /\ Visible' /\ Apart',
               logins' >= logins
        PROVE  BoundaryInv'
    <3>1. logins' \in Nat
      BY <2>3, ReadingsAssumption DEF WorldTyped
    <3> QED
      BY <2>1, <2>3, <3>1, QuietHub DEF BoundaryInv, Typed
  <2>4. ASSUME NEW a \in Accounts \cup {NoAccount}, Login(a) PROVE BoundaryInv'
    <3>1. Apart'
      BY <2>1, <2>4 DEF Login, BoundaryInv, Apart, Foreign, Quiet, AppSessions
    <3> QED
      BY <2>2, <2>3, <2>4, <3>1, LoginStep DEF Login
  <2>5. CASE AdoptLogin
    <3>1. Apart'
      BY <2>1, <2>5, AdoptApart
    <3> QED
      BY <2>2, <2>3, <2>5, <3>1, AdoptStep DEF AdoptLogin
  <2>6. ASSUME NEW s \in Sessions, LoadThread(s) \/ UnloadThread(s) PROVE BoundaryInv'
    BY <2>1, <2>2, <2>3, <2>6, LoadStep DEF LoadThread, UnloadThread
  <2>7. ASSUME NEW s \in Sessions, HookEvent(s) \/ HookLapse(s) PROVE BoundaryInv'
    BY <2>1, <2>2, <2>3, <2>7, HookStep DEF HookEvent, HookLapse
  <2>8. ASSUME NEW c \in Collectors, StartChild(c) \/ EndSession(c) PROVE BoundaryInv'
    BY <2>1, <2>2, <2>3, <2>8, ChildStep DEF StartChild, EndSession, truth
  <2>9. ASSUME NEW c \in Collectors, ReadAccount(c) \/ FindNoAuth(c) PROVE BoundaryInv'
    BY <2>1, <2>2, <2>3, <2>9, AccountStep DEF ReadAccount, FindNoAuth, Learns, truth
  <2>10. ASSUME NEW c \in Collectors, Observe(c) \/ PublishUnavailable(c)
         PROVE  BoundaryInv'
    BY <2>1, <2>2, <2>3, <2>10, ObserveStep DEF Observe, PublishUnavailable, truth
  <2>11. ASSUME NEW c \in Collectors, CheckControlAccount(c) PROVE BoundaryInv'
    <3>1. logins' = logins
      BY <2>11 DEF CheckControlAccount, truth
    <3> QED
      BY <2>1, <2>2, <2>3, <2>11, <3>1, CheckStep
  <2>12. ASSUME NEW c \in Collectors, LoadedThreads(c) \/ InventoryFails(c)
         PROVE  BoundaryInv'
    BY <2>1, <2>2, <2>3, <2>12, PublishingStep
       DEF LoadedThreads, InventoryFails, Publishes, truth
  <2>13. CASE UNCHANGED <<world, hooks>>
    <3>1. UNCHANGED <<AppSessions, SessionType, Child, Reading>>
      BY <2>13 DEF world, truth, AppSessions, SessionType, Child, Reading
    <3>2. WorldTyped' /\ FlightTyped' /\ Inventories' /\ Visible' /\ Apart'
      BY <2>1, <2>13, <3>1 DEF BoundaryInv, Typed, WorldTyped, FlightTyped, Inventories,
         Adopted, Visible, Apart, Foreign, Quiet, world, truth, refreshes
    <3>3. PICK was \in [1..MaxLogins -> Accounts \cup {NoAccount}] : Recorded(was)
      BY DEF BoundaryInv, Record
    <3>4. Recorded(was)'
      BY <2>1, <2>13, <3>1, <3>3 DEF Recorded, Quiet, world, truth, refreshes
    <3>5. Record'
      BY <3>4 DEF Record
    <3> QED
      BY <2>2, <2>3, <2>13, <3>2, <3>5 DEF world, truth
  <2> QED
    BY <1>2, <2>4, <2>5, <2>6, <2>7, <2>8, <2>9, <2>10, <2>11, <2>12, <2>13
       DEF BoundaryNext, Tick, FeedHistory, vars
<1> QED
  BY <1>1, <1>2

LEMMA BoundaryInvariant == BoundarySpec => []BoundaryInv
  BY BoundaryInitially, BoundaryStep, PTL DEF BoundarySpec

(* A session that has been present since it was started under a login the   *)
(* hub has heard of, and has not taken back for an older one since, is      *)
(* never shown under an account other than its own, however late after its  *)
(* read the account is stamped and however collectors overlap and their     *)
(* snapshots are lost, delayed or reordered.                                *)
THEOREM NeverUnderAnother == BoundarySpec => []HiddenAcrossBoundary
<1>1. ASSUME BoundaryInv, NEW a \in Accounts, NEW s \in ActiveChats(User, a),
             session[s].present, session[s].login \in heard, session[s].account # a
      PROVE  FALSE
  <2>1. s \in Sessions /\ Mine.membership = a
    BY <1>1 DEF ActiveChats, Mine
  <2>2. Clean(Mine) /\ Attached(User, Mine)
    BY <1>1, UserIsConsumer DEF BoundaryInv, HubInv, EntriesOK, Mine
  <2>3. Mine.good.account = a
    BY <2>1, <2>2, AccountsAssumption DEF Attached
  <2>4. s \in Mine.quarantine \/ Mine.pending
    BY <1>1, <2>1, <2>3 DEF BoundaryInv, Apart, Foreign
  <2>5. VisibleRuntime(User)[s] = "absent" /\ VisibleHooks(User)[s] = "absent"
    BY <2>1, <2>2, <2>4 DEF VisibleRuntime, VisibleHooks, Clean, NoChats, Mine
  <2> QED
    BY <1>1, <2>5 DEF ActiveChats
<1>2. BoundaryInv => HiddenAcrossBoundary
  <2> SUFFICES ASSUME BoundaryInv PROVE HiddenAcrossBoundary
    OBVIOUS
  <2> QED
    BY <1>1 DEF HiddenAcrossBoundary
<1> QED
  BY <1>2, BoundaryInvariant, PTL

(* When the hub claims to know the chats of a user, its index is exactly    *)
(* what one inventory of the present account reported, taken after the      *)
(* account boundary and within its grace.                                   *)
THEOREM KnownIsTrue == BoundarySpec => []KnownIsComplete
<1>1. ASSUME BoundaryInv, ActiveChatsKnown(User)
      PROVE  /\ inventory.account = entries[User].membership
             /\ ~inventory.boundary
             /\ Present(entries[User].runtime) = inventory.threads
             /\ now <= inventory.at + InventoryGrace
  <2>1. Mine.inventoryAt # 0 /\ Mine.quarantine = {} /\ Mine.state = "ok"
        /\ now <= Mine.inventoryAt + InventoryGrace
    BY <1>1 DEF ActiveChatsKnown, RuntimeInventoryRecent, Fresh, Mine
  <2>2. Mine.membership = Mine.good.account
    BY <1>1, <2>1 DEF BoundaryInv, Typed, HubTyped
  <2> QED
    BY <1>1, <2>1, <2>2 DEF BoundaryInv, Retained, Mine
<1>2. BoundaryInv => KnownIsComplete
  BY <1>1 DEF KnownIsComplete
<1> QED
  BY <1>2, BoundaryInvariant, PTL
-----------------------------------------------------------------------------
(* One collector                                                            *)
(*                                                                         *)
(* With a single collector the logins of good snapshots come in the order  *)
(* of their times, late as those may be: an App Server is started with the *)
(* login in force, and what it answers is stamped before it is replaced.   *)

OneCollector == \A c, d \in Collectors : c = d

Good == {m \in flight : m.snapshot.state = "ok"}

(* Good snapshots on their way, and the last the hub accepted, are in order. *)
Latest ==
  /\ Mine.good.at <= Mine.at /\ Mine.at <= stamp
  /\ \A m \in flight : m.snapshot.at <= stamp
  /\ \A m \in Good : m.snapshot.at > Mine.good.at => m.login >= current
  /\ \A m, n \in Good : m.snapshot.at <= n.snapshot.at => m.login <= n.login

(* The collector's App Server is behind none of them, nor is its reading. *)
OfTheChild ==
  \A c \in Collectors :
    /\ child[c] # NoChild =>
         current <= child[c].login /\ \A m \in Good : m.login <= child[c].login
    /\ reading[c].account # NoAccount =>
         child[c] # NoChild /\ reading[c].login = child[c].login
    /\ reading[c].phase \in {"account", "checked"} =>
         /\ reading[c].at <= stamp
         /\ Mine.good.at < reading[c].at
         /\ \A m \in Good : m.snapshot.at < reading[c].at

Ordered == Latest /\ OfTheChild

LEMMA OrderedInitially == BoundaryInit => Ordered
<1> SUFFICES ASSUME BoundaryInit PROVE Ordered
  OBVIOUS
<1>1. Mine = InitialEntry
  BY UserIsConsumer DEF BoundaryInit, Init, Mine
<1>2. Latest
  BY <1>1 DEF BoundaryInit, Latest, Good, InitialEntry, NoGood
<1>3. OfTheChild
  BY DEF BoundaryInit, OfTheChild, NoReading
<1> QED
  BY <1>2, <1>3 DEF Ordered

(* The numbers that are compared. *)
LEMMA Numbers ==
  ASSUME BoundaryInv
  PROVE  /\ stamp \in Nat /\ logins \in Nat /\ current \in Nat /\ current <= logins
         /\ Mine.at \in Nat /\ Mine.good.at \in Nat
         /\ \A m \in flight : m.snapshot.at \in Nat
         /\ \A m \in Good : m.login \in Nat /\ m.login <= logins
<1>1. stamp \in Nat /\ logins \in Nat
  BY ReadingsAssumption DEF BoundaryInv, Typed, WorldTyped
<1>2. current \in Nat /\ current <= logins
  BY <1>1 DEF BoundaryInv, Typed, HubTyped
<1>3. Mine.at \in Nat /\ Mine.good.at \in Nat
  BY UserIsConsumer DEF BoundaryInv, HubInv, TypeOK, Mine, Entry
<1>4. \A m \in flight : m.snapshot.at \in Nat
  BY DEF BoundaryInv, Typed, FlightTyped, Report
<1>5. \A m \in Good : m.login \in Nat /\ m.login <= logins
  BY <1>1 DEF BoundaryInv, Typed, FlightTyped, Good
<1> QED
  BY <1>1, <1>2, <1>3, <1>4, <1>5

(* The collector goes on to k and r, and sends nothing good. *)
LEMMA ReadInOrder ==
  ASSUME BoundaryInv, Ordered, OneCollector, Quiet, NEW c \in Collectors,
         Good' = Good, stamp' \in Nat, stamp' >= stamp,
         \A m \in flight' : m.snapshot.at <= stamp',
         NEW k, child' = [child EXCEPT ![c] = k],
         NEW r, reading' = [reading EXCEPT ![c] = r],
         k # NoChild => current <= k.login /\ \A m \in Good : m.login <= k.login,
         r.account # NoAccount => k # NoChild /\ r.login = k.login,
         r.phase \in {"account", "checked"} =>
           /\ r.at <= stamp'
           /\ Mine.good.at < r.at
           /\ \A m \in Good : m.snapshot.at < r.at
  PROVE  Ordered'
<1>1. Latest'
  BY Numbers DEF Ordered, Latest, Quiet
<1>2. \A d \in Collectors : child'[d] = k /\ reading'[d] = r
  BY DEF OneCollector, BoundaryInv, Typed, WorldTyped
<1>3. OfTheChild'
  BY <1>2 DEF OfTheChild, Quiet
<1> QED
  BY <1>1, <1>3 DEF Ordered

LEMMA CollectorInOrder ==
  ASSUME BoundaryInv, Ordered, OneCollector, Quiet, NEW c \in Collectors,
         \/ StartChild(c) \/ EndSession(c)
         \/ ReadAccount(c) \/ FindNoAuth(c) \/ Observe(c) \/ PublishUnavailable(c)
         \/ CheckControlAccount(c)
  PROVE  Ordered'
<1>1. child \in [Collectors -> {NoChild} \cup Child]
      /\ reading \in [Collectors -> {NoReading, NothingRead} \cup Reading]
  BY DEF BoundaryInv, Typed, WorldTyped
<1>2. \A d \in Collectors :
        /\ child[d] # NoChild =>
             current <= child[d].login /\ \A m \in Good : m.login <= child[d].login
        /\ reading[d].account # NoAccount =>
             child[d] # NoChild /\ reading[d].login = child[d].login
        /\ reading[d].phase \in {"account", "checked"} =>
             /\ reading[d].at <= stamp
             /\ Mine.good.at < reading[d].at
             /\ \A m \in Good : m.snapshot.at < reading[d].at
  BY DEF Ordered, OfTheChild
<1>3. /\ Mine.good.at <= stamp
      /\ \A m \in flight : m.snapshot.at <= stamp
      /\ \A m \in Good : m.snapshot.at <= stamp
  BY Numbers DEF Ordered, Latest, Good
<1>4. NoReading.phase = "none" /\ NoReading.account = NoAccount
  BY DEF NoReading
<1>5. PICK k : k = child[c]
  OBVIOUS
<1>6. PICK r : r = NoReading
  OBVIOUS
<1>7. stamp \in Nat /\ stamp >= stamp
  BY Numbers
<1>8. CASE StartChild(c)
  <2>1. PICK l : l = [login |-> logins, account |-> login]
    OBVIOUS
  <2>2. child' = [child EXCEPT ![c] = l] /\ UNCHANGED <<reading, flight, Good, stamp>>
    BY <1>8, <2>1 DEF StartChild, Good
  <2>3. reading' = [reading EXCEPT ![c] = r]
    BY <1>1, <1>6, <1>8, <2>2 DEF StartChild
  <2>4. current <= l.login /\ \A m \in Good : m.login <= l.login
    BY <2>1, Numbers
  <2> QED
    BY <1>3, <1>4, <1>6, <1>7, <2>2, <2>3, <2>4, ReadInOrder
<1>9. CASE EndSession(c)
  <2>1. PICK l : l = NoChild
    OBVIOUS
  <2>2. /\ child' = [child EXCEPT ![c] = l] /\ reading' = [reading EXCEPT ![c] = r]
        /\ UNCHANGED <<flight, Good, stamp>>
    BY <1>6, <1>9, <2>1 DEF EndSession, Good
  <2> QED
    BY <1>3, <1>4, <1>6, <1>7, <2>1, <2>2, ReadInOrder
<1>10. CASE ReadAccount(c) \/ FindNoAuth(c)
  <2>1. PICK q : q = [phase |-> "read", at |-> 0, login |-> k.login, account |-> k.account]
    OBVIOUS
  <2>2. /\ reading' = [reading EXCEPT ![c] = q]
        /\ UNCHANGED <<child, flight, Good, stamp>>
    BY <1>5, <1>10, <2>1 DEF ReadAccount, FindNoAuth, Learns, Good
  <2>3. child' = [child EXCEPT ![c] = k]
    BY <1>1, <1>5, <2>2
  <2>4. q.account # NoAccount => k # NoChild /\ q.login = k.login
    BY <2>1 DEF NoChild
  <2>5. q.phase \notin {"account", "checked"}
    BY <2>1
  <2> QED
    BY <1>2, <1>3, <1>5, <1>7, <2>2, <2>3, <2>4, <2>5, ReadInOrder
<1>11. CASE Observe(c) /\ reading[c].account # NoAccount
  <2>1. PICK q : q = [reading[c] EXCEPT !.phase = "account", !.at = stamp + 1]
    OBVIOUS
  <2>2. /\ reading' = [reading EXCEPT ![c] = q] /\ stamp' = stamp + 1
        /\ child' = [child EXCEPT ![c] = k] /\ UNCHANGED <<flight, Good>>
    BY <1>1, <1>5, <1>11, <2>1 DEF Observe, Good
  <2>3. q.account = reading[c].account /\ q.login = reading[c].login /\ q.at = stamp + 1
    <3>1. reading[c] \in Reading
      BY <1>1, <1>11 DEF NoReading, NothingRead
    <3> QED
      BY <2>1, <3>1 DEF Reading
  <2>4. /\ stamp' \in Nat /\ stamp' >= stamp /\ q.at <= stamp'
        /\ Mine.good.at < q.at /\ \A m \in flight : m.snapshot.at <= stamp'
    BY <1>3, <2>2, <2>3, Numbers
  <2>5. \A m \in Good : m.snapshot.at < q.at
    BY <1>3, <2>3, Numbers DEF Good
  <2> QED
    BY <1>2, <1>5, <2>2, <2>3, <2>4, <2>5, ReadInOrder
<1>12. CASE PublishUnavailable(c) \/ (Observe(c) /\ reading[c].account = NoAccount)
  <2>1. PICK n : /\ n.snapshot.state \in {"signed_out", "unavailable"}
                 /\ n.snapshot.at = stamp + 1
                 /\ flight' = flight \cup {n}
    <3>1. stamp' = stamp + 1
      BY <1>12 DEF Observe, PublishUnavailable
    <3>2. PICK state \in {"signed_out", "unavailable"} :
            flight' = flight \cup {[snapshot |-> Snapshot(state, stamp + 1, NoAccount, {}, NoChats),
                                    login |-> 0]}
      BY <1>12, <3>1 DEF Observe, PublishUnavailable, Send
    <3>3. PICK n : n = [snapshot |-> Snapshot(state, stamp + 1, NoAccount, {}, NoChats),
                        login |-> 0]
      OBVIOUS
    <3>4. n.snapshot.state = state /\ n.snapshot.at = stamp + 1
      BY <3>3 DEF Snapshot
    <3> QED
      BY <3>2, <3>3, <3>4
  <2>2. /\ reading' = [reading EXCEPT ![c] = r] /\ stamp' = stamp + 1
        /\ child' = [child EXCEPT ![c] = k]
    BY <1>1, <1>5, <1>6, <1>12 DEF Observe, PublishUnavailable, refreshes
  <2>3. Good' = Good
    BY <2>1 DEF Good
  <2>4. /\ stamp' \in Nat /\ stamp' >= stamp /\ \A m \in flight' : m.snapshot.at <= stamp'
    BY <1>3, <2>1, <2>2, Numbers
  <2> QED
    BY <1>2, <1>4, <1>5, <1>6, <2>2, <2>3, <2>4, ReadInOrder
<1>13. CASE CheckControlAccount(c)
  <2>1. PICK q : q = [reading[c] EXCEPT !.phase = "checked"]
    OBVIOUS
  <2>2. /\ reading' = [reading EXCEPT ![c] = q]
        /\ child' = [child EXCEPT ![c] = k] /\ UNCHANGED <<flight, Good, stamp>>
    BY <1>1, <1>5, <1>13, <2>1 DEF CheckControlAccount, Good
  <2>3. reading[c].phase = "account"
    BY <1>13 DEF CheckControlAccount
  <2>4. q.account = reading[c].account /\ q.login = reading[c].login /\ q.at = reading[c].at
    <3>1. reading[c] \in Reading
      BY <1>1, <2>3 DEF NoReading, NothingRead
    <3> QED
      BY <2>1, <3>1 DEF Reading
  <2> QED
    BY <1>2, <1>3, <1>5, <1>7, <2>2, <2>3, <2>4, ReadInOrder
<1> QED
  BY <1>8, <1>9, <1>10, <1>11, <1>12, <1>13

(* A good snapshot is sent: it is the newest, and of the newest login sent. *)
LEMMA PublishedInOrder ==
  ASSUME BoundaryInv, Ordered, OneCollector, Quiet, NEW c \in Collectors,
         LoadedThreads(c) \/ InventoryFails(c)
  PROVE  Ordered'
<1>1. PICK n : /\ flight' = flight \cup {n} /\ n.login = reading[c].login
               /\ n.snapshot.state = "ok" /\ n.snapshot.at = reading[c].at
  <2>1. PICK reads, threads :
          Send(Snapshot("ok", reading[c].at, reading[c].account, reads, threads),
               reading[c].login)
    BY DEF LoadedThreads, InventoryFails, Publishes
  <2>2. PICK n :
          n = [snapshot |-> Snapshot("ok", reading[c].at, reading[c].account, reads, threads),
               login |-> reading[c].login]
    OBVIOUS
  <2>3. /\ n.login = reading[c].login
        /\ n.snapshot.state = "ok" /\ n.snapshot.at = reading[c].at
    BY <2>2 DEF Snapshot
  <2>4. flight' = flight \cup {n}
    BY <2>1, <2>2 DEF Send
  <2> QED
    BY <2>3, <2>4
<1>2. /\ UNCHANGED <<child, stamp>> /\ \A d \in Collectors : reading'[d] = NoReading /\ d = c
  BY DEF LoadedThreads, InventoryFails, Publishes, OneCollector, BoundaryInv, Typed, WorldTyped
<1>3. Good' = Good \cup {n}
  BY <1>1 DEF Good
<1>4. /\ reading[c].phase \in {"account", "checked"} /\ reading[c].account # NoAccount
      /\ reading[c].login \in Nat /\ reading[c].at \in Nat
  <2>1. reading[c].phase \in {"account", "checked"}
    BY DEF LoadedThreads, InventoryFails
  <2>2. reading[c] \in Reading
    BY <2>1 DEF BoundaryInv, Typed, WorldTyped, NoReading, NothingRead
  <2> QED
    BY <2>1, <2>2, AccountsAssumption DEF Reading
<1>5. /\ n.snapshot.at <= stamp /\ n.snapshot.at > Mine.good.at
      /\ \A m \in Good : m.snapshot.at < n.snapshot.at
      /\ child[c] # NoChild /\ n.login = child[c].login
      /\ current <= n.login /\ \A m \in Good : m.login <= n.login
  BY <1>1, <1>4 DEF Ordered, OfTheChild
<1>6. /\ n.snapshot.at \in Nat /\ n.login \in Nat
      /\ \A m \in Good : m.snapshot.at \in Nat /\ m.login \in Nat
  BY <1>1, <1>4, Numbers DEF Good
<1>7. Latest'
  <2>1. /\ Mine.good.at <= Mine.at /\ Mine.at <= stamp
        /\ \A m \in flight' : m.snapshot.at <= stamp
        /\ \A m \in Good' : m.snapshot.at > Mine.good.at => m.login >= current
    BY <1>1, <1>3, <1>5, <1>6, Numbers DEF Ordered, Latest
  <2>2. ASSUME NEW x \in Good', NEW y \in Good', x.snapshot.at <= y.snapshot.at
        PROVE  x.login <= y.login
    <3>1. CASE x \in Good /\ y \in Good
      BY <2>2, <3>1 DEF Ordered, Latest
    <3>2. CASE y = n
      BY <1>3, <1>5, <1>6, <3>2
    <3>3. CASE x = n /\ y \in Good
      BY <1>5, <1>6, <2>2, <3>3
    <3> QED
      BY <1>3, <3>1, <3>2, <3>3
  <2> QED
    BY <1>2, <2>1, <2>2 DEF Latest, Quiet
<1>8. OfTheChild'
  <2>1. \A m \in Good' : m.login <= child[c].login
    BY <1>3, <1>5, <1>6
  <2>2. NoReading.phase = "none" /\ NoReading.account = NoAccount
    BY DEF NoReading
  <2> QED
    BY <1>2, <1>5, <2>1, <2>2 DEF OfTheChild, Quiet
<1> QED
  BY <1>7, <1>8 DEF Ordered

(* The hub goes on to a login no older. *)
LEMMA DeliveredInOrder ==
  ASSUME BoundaryInv, Ordered, NEW m \in flight, Deliver(m)
  PROVE  Ordered' /\ current' >= current
<1>1. UNCHANGED <<stamp, child, reading>> /\ flight' \subseteq flight /\ Good' \subseteq Good
  BY DEF Deliver, refreshes, Good
<1>2. CASE ~Accepts(Mine, m.snapshot)
  <2>1. UNCHANGED <<Mine, current>>
    BY <1>2 DEF Deliver, Mine, vars
  <2> QED
    BY <1>1, <2>1, Numbers DEF Ordered, Latest, OfTheChild
<1>3. CASE Accepts(Mine, m.snapshot)
  <2>1. /\ Mine'.at = m.snapshot.at /\ Mine'.good = NextGood(Mine, m.snapshot)
        /\ m.snapshot.at > Mine.at
    BY <1>3, Accepted DEF NextEntry, Accepts
  <2>2. m.snapshot.at <= stamp /\ m.snapshot.at \in Nat /\ m.snapshot.at > Mine.good.at
        /\ Mine'.at <= stamp /\ Mine.good.at <= Mine'.at
    BY <2>1, Numbers DEF Ordered, Latest
  <2>3. CASE m.snapshot.state # "ok"
    <3>1. Mine'.good = Mine.good /\ current' = current
      BY <1>3, <2>1, <2>3 DEF NextGood, Deliver, Mine
    <3> QED
      BY <1>1, <2>2, <3>1, Numbers DEF Ordered, Latest, OfTheChild
  <2>4. CASE m.snapshot.state = "ok"
    <3>1. /\ Mine'.good.at = m.snapshot.at /\ current' = m.login /\ m \in Good
      BY <1>3, <2>1, <2>4 DEF NextGood, Deliver, Mine, Good
    <3>2. current' >= current
      BY <2>2, <3>1 DEF Ordered, Latest
    <3>3. Latest'
      <4>1. ASSUME NEW n \in Good', n.snapshot.at > m.snapshot.at
            PROVE  n.login >= m.login
        <5>1. m.snapshot.at <= n.snapshot.at /\ n \in Good
          BY <1>1, <2>2, <4>1, Numbers DEF Good
        <5>2. m.login <= n.login
          BY <3>1, <5>1 DEF Ordered, Latest
        <5> QED
          BY <3>1, <5>1, <5>2, Numbers
      <4>2. \A n \in flight' : n.snapshot.at <= stamp
        BY <1>1 DEF Ordered, Latest
      <4>3. \A x, y \in Good' : x.snapshot.at <= y.snapshot.at => x.login <= y.login
        BY <1>1 DEF Ordered, Latest
      <4>4. Mine'.good.at <= Mine'.at
        BY <2>1, <2>2, <3>1
      <4> QED
        BY <1>1, <2>2, <3>1, <4>1, <4>2, <4>3, <4>4 DEF Latest
    <3>4. OfTheChild'
      BY <1>1, <3>1 DEF Ordered, OfTheChild
    <3> QED
      BY <3>2, <3>3, <3>4 DEF Ordered
  <2> QED
    BY <2>3, <2>4
<1> QED
  BY <1>2, <1>3

LEMMA OrderedStep ==
  ASSUME BoundaryInv, Ordered, OneCollector, [BoundaryNext]_<<vars, world>>
  PROVE  Ordered' /\ current' >= current
<1>1. CASE \E m \in flight : Deliver(m)
  BY <1>1, DeliveredInOrder
<1>2. CASE \A m \in flight : ~Deliver(m)
  <2>1. Quiet
    BY <1>2, QuietSteps DEF BoundaryInv
  <2>2. current' >= current
    BY <2>1, Numbers DEF Quiet
  <2>3. CASE UNCHANGED <<stamp, child, reading, flight>>
    <3>1. UNCHANGED <<Mine, current, Good>>
      BY <2>1, <2>3 DEF Quiet, Good
    <3>2. Latest'
      BY <2>3, <3>1 DEF Ordered, Latest
    <3>3. OfTheChild'
      BY <2>3, <3>1 DEF Ordered, OfTheChild
    <3> QED
      BY <2>2, <3>2, <3>3 DEF Ordered
  <2>4. ASSUME NEW c \in Collectors,
               \/ StartChild(c) \/ EndSession(c)
               \/ ReadAccount(c) \/ FindNoAuth(c) \/ Observe(c) \/ PublishUnavailable(c)
               \/ CheckControlAccount(c) \/ LoadedThreads(c) \/ InventoryFails(c)
        PROVE  Ordered'
    BY <2>1, <2>4, CollectorInOrder, PublishedInOrder
  <2>5. \/ UNCHANGED <<stamp, child, reading, flight>>
        \/ \E c \in Collectors :
             \/ StartChild(c) \/ EndSession(c)
             \/ ReadAccount(c) \/ FindNoAuth(c) \/ Observe(c) \/ PublishUnavailable(c)
             \/ CheckControlAccount(c) \/ LoadedThreads(c) \/ InventoryFails(c)
    <3>1. CASE UNCHANGED <<vars, world>>
      BY <3>1 DEF world, refreshes
    <3>2. CASE BoundaryNext
      BY <1>2, <3>2 DEF BoundaryNext, Login, AdoptLogin, LoadThread, UnloadThread, HookEvent,
         HookLapse, world, refreshes
    <3> QED
      BY <3>1, <3>2
  <2> QED
    BY <2>2, <2>3, <2>4, <2>5
<1> QED
  BY <1>1, <1>2

(* With one collector the hub never goes back to an older login and takes   *)
(* back none it has heard of, although App Servers answer for logins past   *)
(* and snapshots are stamped late, lost and reordered.                      *)
THEOREM OneCollectorInOrder ==
  ASSUME OneCollector
  PROVE  BoundarySpec => [][current' >= current /\ heard \subseteq heard']_<<vars, world>>
<1> DEFINE Onward == current' >= current /\ heard \subseteq heard'
<1>1. BoundaryInit => Ordered
  BY OrderedInitially
<1>2. BoundaryInv /\ Ordered /\ [BoundaryNext]_<<vars, world>> => Ordered'
  BY OrderedStep
<1>3. ASSUME BoundaryInv, BoundaryInv', Ordered, [BoundaryNext]_<<vars, world>>
      PROVE  Onward
  <2>1. current' >= current
    BY <1>3, OrderedStep
  <2>2. heard \subseteq heard'
    <3>1. CASE \E m \in flight : Deliver(m)
      <4>1. PICK m \in flight : Deliver(m)
        BY <3>1
      <4>2. \/ heard' = heard
            \/ heard' = {l \in heard : l < m.login} \cup {m.login} /\ current' = m.login
        BY <4>1 DEF Deliver, vars
      <4>3. ASSUME NEW l \in heard, current' = m.login PROVE l < m.login \/ l = m.login
        <5>1. l \in 1..current /\ current \in Nat /\ current' \in Nat
          BY <1>3, <4>3 DEF BoundaryInv, Typed, HubTyped
        <5> QED
          BY <2>1, <4>3, <5>1
      <4> QED
        BY <4>2, <4>3
    <3>2. CASE \A m \in flight : ~Deliver(m)
      BY <1>3, <3>2, QuietSteps DEF BoundaryInv, Quiet
    <3> QED
      BY <3>1, <3>2
  <2> QED
    BY <2>1, <2>2
<1>4. BoundaryInv /\ BoundaryInv' /\ Ordered /\ [BoundaryNext]_<<vars, world>>
        => [Onward]_<<vars, world>>
  BY <1>3
<1> QED
  BY <1>1, <1>2, <1>4, BoundaryInvariant, PTL DEF BoundarySpec
=============================================================================
