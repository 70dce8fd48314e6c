# Formal models of the Codex usage dashboard

This directory holds TLA+ modules that model the concurrent and fault-tolerant
core of `packages/codex-usage-dashboard`, configurations that check them with
TLC, and proofs checked with TLAPS. Paths below are relative to
`src/packages/codex-usage-dashboard/internal/` unless they start with `src/`.

## 1. The system

Several Unix users of one host use Codex. A *collector* per user supervises a
private Codex App Server and publishes snapshots of the user's account, quota,
recent and loaded threads to the dashboard over a local socket. Hooks of the
Codex sessions report activity over a second socket. The dashboard aggregates
both by account, keeps a history of the weekly quota windows on disk, and streams
the result to browsers.

| Part | State | Operations | Talks to | Modelled in |
|---|---|---|---|---|
| Hub (`hub/hub.go`) | an entry per user (last and last good observation, caches, runtime index, quarantine), the history source per account, revision, subscribers | `Apply`, `Refresh`, `Subscribe`, cancel | called by ingest and activity; feeds history after releasing its lock; sends to subscribers while holding it | `Hub`, `HubSources`, `Broadcast`, `AccountBoundary` |
| Activity tracker (`activity/tracker.go`) | chats per user and session, turn leases, wake-up channel | `Apply` of five events, reads that prune, `runExpiry` | called by the activity server; tells the hub | `ActivityTracker`, `TurnLeases` |
| History tracker (`history/history.go`) | lanes per account, revision, dirty and degraded flags, two files | `ApplySnapshot`, `Snapshot`, `Persist`, `Open` | called by the hub | `History`, `HistoryRecovery` |
| Collector (`collector/`) | idle flag, child, baseline of the auth file, session result, backoff | `Run`, `runSession`, `refresh`, publications | starts the App Server, reads through the RPC client, publishes to ingest | `Collector`, `Refresh`, `AccountBoundary` |
| Live version detector (`collector/process_version_linux.go`) | what it has read so far of one process | `detect`, one file of `/proc` at a time | processes, which change meanwhile | `LiveVersion` |
| Snapshot (`collector/snapshot.go`, `model/model.go`) | none | sanitising of the answers, `Validate` | between the RPC client and ingest | `Observation` |
| RPC client (`codex/`) | pending calls, write gate, error, done, notifications | `call`, `readLoop`, `fail`, `Close`, `LoadedThreads` | pipes of the child, or the control socket | `RpcClient`, `LoadedThreads` |
| Ingest server (`hub/ingest.go`) | connections | one snapshot per connection | collectors, hub | delivery in `AccountBoundary` |
| Status stream (`hub/http.go`) | slots, one subscription per slot | events, keep-alives, status requests | hub, browsers | `StatusStream` |
| Browser (`web/static/assets/app.js`) | event stream, latest revision, the status it shows | stream events, polls, `acceptStatus` | status stream | `StatusStream` |
| Activity server and reporter (`activity/`) | connections | one event per connection | tracker, then hub | `StatusStream`; a lost event is one that does not happen in `ActivityTracker` |
| Wiring (`cmd/`) | none | `runServe`: start, stop | connects the tracker, the hub and the servers | the composition in `StatusStream`, restarts |
| Hook input parser, rendering, Nix modules | none | pure functions and configuration | | not modelled |

What is hard in it: snapshots of one user arrive on concurrent connections, late
or not at all; optional reads fail one by one; the user changes accounts while
sessions of the former account stay loaded; several users report one account out
of phase; history is fed outside of the hub's lock; channels are drained while
they are filled; leases expire between a plan and a sleep, or are pruned by a read that tells
nobody; a browser hears the same revisions over a stream and a poll, and again
from 0 after a restart; two files are replaced one after the other and the
process may stop between them; a child may stop reading, answer twice, or die
while others wait for it; threads unload while they are listed; processes exec,
exit and pass on their identifiers while `/proc` is read.

## 2. Modules

Every module starts with what it abstracts. Definitions keep the names of the
code where they can; `PROJECT.json` maps each to its lines. Definitions marked
"Mutant" are not part of the models: each is a plausible mistake in the
definition that follows it, which the properties are tested against.

**Hub.** One user is a record `entries[u]`, one field per field of `entry`;
`Next...` operators compute the fields of the entry after a snapshot, in the
order of `Hub.Apply`. `Apply(u, s)` is the whole handler: acceptance by collector
time, the account boundary and its quarantine, the retained inventory, the
caches, the source selection for history, the new revision and its broadcast. It
needs `ApplyMuFree` (`Hub.applyMu` is held until the history was fed), and
`FeedHistory` is the part after `Hub.mu` is released. `Refresh` and
`ActivityChange` recompute without a snapshot. Quotas are model values compared
for equality: two values stand for quotas that differ by more than the tolerances
of `quotaSnapshotsEquivalent` (five points, five minutes), so chains of quotas of
which only neighbours agree are left out. Time is a counter bounded by `MaxTime`,
and a snapshot carries the time at which it was read.

**HubSources** adds what the history tracker was told and by whom, to state which
collector it follows. **AccountBoundary** composes the hub with the user, the
Codex daemon, the sessions, and collectors. A collector starts an App Server
(`StartChild`), which from then on answers for the login it found, also after
the user has logged in elsewhere, until the collector ends it (`EndSession`). A
refresh reads the account (`ReadAccount`), takes the time (`Observe`), compares
the account of the control daemon (`CheckControlAccount`) and lists its threads
(`LoadedThreads`), each in a step of its own, with logins, sessions and other
collectors in between; the snapshot is delivered later or never. A reading of the
former account can therefore carry a stamp taken after the new login. Properties
are stated about the true owner of a session, which no component knows.

**Broadcast** models the selects of `broadcastLocked` one channel operation at a
time, with publishers competing for the lock, cancellations and readers.
**LatestFeed** is what a subscriber is promised: a one-place inbox that always
holds, or has delivered, the newest revision. `ImplementsLatestFeed` is the
refinement: a subscriber's inbox is its channel, except between draining and
resending, when the abstract inbox already holds the new revision.

**ActivityTracker** models every event with the pruning and the eviction it
does, reads, and the expiry worker as three steps (plan, wake, timer) between
which anything may happen. **TurnLeases** remembers for each turn what its client
last said, which the tracker forgets for turns beyond its limit. Its steps are
those of the tracker (`LeasesEvents`), reads and the clock (`LeasesWork`), and
the worker (`LeasesWorker`).

**StatusStream** extends `Broadcast` with what is on both sides of it. Before: the
activity server, which changes the tracker, and refreshes the hub in a later
step, and the expiry worker, which calls the hub only if it was the one that
pruned. After: stream handlers with a limited number of slots, each of which
forwards what its channel holds and now and then writes a keep-alive, whose
revision is fixed before the activity is read; connections that get lost or stay
full; browsers that merge events and polls in `acceptStatus`. The process may
restart, with revisions from 0. The contents of a response are the number of
changes it reflects; which chats those are is the tracker's business. A
behaviour has one of several loads, so that not every client, slot and restart
is multiplied with every other.

**LiveVersion** is `detect`: the listing and then, per process, nine reads in the
order of the code, each of which sees the process table of its moment. Between
them processes fork, exec, exit, change user or control group; identifiers are
given out again, but not within one tick of start times. `been` and `steady`
record the past for the properties. Paths are abstracted to what the allowlist
and the store rules make of them.

**LoadedThreads** is the inventory: pages with cursors, metadata reads one by one,
one retry after a refused read, and the selection per session. The server is
external: one that pages in order while its threads load, run and unload, or one
that sends any page and cursor. **Observation** has the sanitizers and
`Validate` as operators on answers; text is usable or not. **Refresh** composes the three in
the order of `Collector.refresh`, with every optional read that may fail.

**History** models the tracker and its two files: observation with jitter and
candidate windows, rebaselining, pruning, caps, and every write as its own step
with four outcomes (done, failed before the rename, renamed but unsynced, crash).
`Open` is loading, sanitising, reconciling and pruning. **HistoryRecovery** puts it
beside a rate-limit service that consumes, refunds, resets early and rolls over,
so that "recorded twice" has a meaning. A full reset within the jitter band of a
window that was just anchored is indistinguishable from rounding; the tracker
records it as two adjustments. The service of the model does not do that
(`EarlyReset` requires the windows to be more than two jitters apart).

**Collector** models `Run` as a sequence of places: looking at the auth file,
telling the dashboard once, starting a child, taking the baseline, reading,
publishing, the select, closing and backing off. A publication is accepted,
accepted with a lost acknowledgement, or refused. The child is assumed to answer
for the login it found when it started, the worst case. Failures are counted
against `MaxFaults`. What one reading consists of is `Refresh`.

**RpcClient** models each call as register, gate, write, wait; the reading
goroutine with its replies to server requests, which pass the same gate; `fail`
in two steps; the process waiter; `Close`; and both transports: a context
interrupts a write to the control socket, which closes it, and none to the pipe.
A context may expire at any time. The server is unconstrained.

The `MC...` modules give constants values TLC needs. `HubProofs`,
`StatusStreamProofs`, `TurnLeasesProofs`, `HistoryProofs`, `CollectorProofs`,
`RefreshProofs` and `RpcClientProofs` hold the theorems, and `Folding` what
they need to know of the folds and filters of the community modules.

## 3. Runs

| Run | Question | Bounds, and why they suffice |
|---|---|---|
| `hub` | Do caches, quarantine and entries stay right through any snapshots of one consumer? | two accounts, one session, two optional reads, one subscriber, times 1..3: leave an account, return to it, and let an inventory expire |
| `boundary` | Is a session of the former account ever shown under the new one? | two logins, one session, loaded in the daemon or of the command line, two collectors that overlap; two stamps, enough for a snapshot of the former login to be stamped last and to arrive before or after the one of the new login; times 1..2 for a retained inventory to expire |
| `sources` | Which source does the history follow, and in which order? | an anchor of A and a consumer who also uses B; of A the two are its sources, of B only the consumer is, because an anchor is never the source of another account; two quotas to disagree on; time 3 for a source to become stale and another to take over |
| `stream` | Are channels used safely, do they deliver, and does every change reach every browser? | three loads. A client that joins, reads and leaves on two slots while the hook worker and the expiry worker publish two revisions: a full channel, a drain, and a publisher in between. A browser with one slot through a restart, and the same with a tick of the clock between answers: its lost connection keeps the slot, its stream is refused, polls overtake events. One event in a connection, so that writes block |
| `activity` | Do the limits hold and spare live work, does the worker miss a lease, does an untracked turn show as idle? | three users with two sessions each, limits of one chat per user and two in all, so that each limit binds where the other does not; one tracked turn and a second one for user 1; leases of length 2 and three times, so that leases of different ages compete and the worker's timer fires |
| `history` | Do memory and files agree, or the tracker say so? | two accounts for one lane, caps of one, jitter 1, two faults of any kind; a start from empty files, and one from two files of different ages that hold a lane each and together more than a file may hold (`LeftBehind`), so that the write of `Open` is refused |
| `recovery` | Is one change of the service recorded once? | two early changes, two crashes, reports rounded by 1, a week of 5 with jitter 1 so that a window can settle and be completed |
| `recovery_failed` | the same with failed writes: violated, see 5 | one change, two faults |
| `rpc` | Do calls return, and with their own answers? | two callers, two calls, two server messages, one place in each stream: late and repeated answers, full streams, refusals between requests |
| `collector` | Does the dashboard end up with the account that is logged in? | two logins, one loss of the file, one quota change, two faults, backoff 1..3 (not a power of two) |
| `collector_signout` | the comment on signed-out publications: violated, see 5 | two changes of the file, no faults |
| `refresh` | Is the version of one process, does the inventory hide a chat, is the quota published? | five loads, each of which varies one part. `processes`: seven tables of five processes, two of them changing at any point of the reads, starts at two times. `threads`: four threads, two in one session, one unusable and one that the sanitizer rejects, three reads, pages of two, one row, two moves. `pages`: any pages and cursors. `quota`: windows of no length, past, future and out of range in both places, buckets whose numbered names collide. `history`: up to three rows of three sessions with every order of timestamps |

Larger instances were tried while modelling: the two collectors with a third
stamp, three consumers of one account, ten times larger recovery runs. They take
longer than is practical and found nothing else.

What these bounds do not reach, and only the theorems cover: two consumers of one
account (`sources` exercises the handoff between the anchor and a consumer,
`ContinuityEarned` and `StaleBeforeHandoff` hold for any users); the choice among
several chats of one user (`activity` allows one, so that `EvictionSparesRunning`
exercises the choice among users, and `RunningChatsAreSpared` covers both); the
cache of thread names (`hub` reads only runtime and tokens, `CachesNeverCross`
covers all of them).

Properties that a reader should look at first: `HiddenAcrossBoundary` (a session
that has been present ever since it was started under a login the hub has heard
of, and for which no snapshot of an older login was accepted since, is not shown
under an account it does not belong to), `AmbiguousHidden`,
`CachesFollowAccount`, `NoRollback`, `ContinuityIsEarned` and
`HandoffNeedsStaleSource` (history compares two observations only if they come
from one source, and changes source only when the former fell silent),
`ImplementsLatestFeed`, `NeverShowsLess` and `ChangesAreShown` (what a browser
shows never goes back, and catches up without anyone announcing a change),
`NoLostWakeup`, `LiveTurnsShowRunning`,
`EvictionSparesRunning`, `DurableUnlessDegraded`, `RecordedOnce`,
`ReplacedNotCompleted`, `AnswersMatch`, `CallsReturn`, `Converges`,
`VersionOfOneProcess`, `NewestSteadyIsFound`, `SteadyThreadsAppear`,
`QuotaIsPublished`.

### Deadlock

Deadlock is checked except where a model ends when its bounds are used up:
`boundary`, `sources`, `rpc`, `refresh` (one refresh that ends) and `collector`
(which also models that `Run` returns) set `CHECK_DEADLOCK FALSE`.

### Fairness

- `stream`: publishers run (the lock is free again after a bounded number of
  non-blocking operations); nothing is assumed of readers, so that a hub that
  waited for one would keep polls from being answered. For `ChangesAreShown` an open page keeps polling (`setInterval`, once a minute)
  and the answers are computed (a read lock and no blocking operation); strong
  fairness says that not every poll fails. Nothing is assumed of streams:
  connections may be lost for ever, handlers may never write, and a refused
  `EventSource` never tries again. That a restarting service does not restart
  for ever is the bound of the load.
- `activity`: the expiry worker is a goroutine that runs as long as the
  server. Events, reads and the clock owe nothing.
- `rpc`: goroutines run, and selects on a context end because every context has
  a deadline. The server owes nothing. `CallsReturn` therefore excepts a write to
  the pipe of a child that has stopped reading: `writeFull` looks at the context
  only before it starts. Nothing in the code interrupts such a write but the exit
  of the child or `Close`. That `Close` returns, which `ReaderEnds` includes, takes
  for granted that a killed child is gone soon after.
- `collector`: `Run` is one goroutine whose waits have timers (weak fairness).
  Strong fairness only for the recycle case of the select: Go chooses among ready
  cases at random, and a timer that has fired stays ready until it is received.
  `Converges` needs it: the baseline of the auth file is taken after the child
  has started, so that a login in between leaves no difference for the stat
  ticker to see, and only the recycle timer corrects it.

## 4. Proofs

For all values of the constants, from the named assumptions of the modules:

- `HubProofs`, about the hub: `TypeCorrect`, `AmbiguityStaysHidden`,
  `CachesNeverCross`, `NeverBack`, `NewestReachesAll`. The inductive invariant says of
  each entry that its runtime index is empty while the boundary is pending and
  disjoint from the quarantine (`Clean`), and that its caches are of the account of
  its last good observation (`Attached`). The subscriber theorem rests on
  the channel holding the newest revision or being empty after it was received.
- `HubProofs`, about what the history hears: `ContinuityEarned`, `OneSourceHeard`
  and `StaleBeforeHandoff`, for any users, anchors, quotas and times. `Followed`
  compares the source of an account with the last observation decided for it: the
  account version of the entry has not changed exactly as long as the user has not
  been reported elsewhere, and while it has not, the entry is of that account and no
  older than the observation, nor different at the same time. A user who leaves and
  comes back before the next update is thereby another source, although every
  field but the version may look the same. `Handed` says what may wait between the
  release of `Hub.mu` and the tracker: at most one update of an account, of one
  Apply only, which is the last one decided and continues what the tracker has. It
  is inductive only because `applyMu` lets no second Apply decide before the
  updates of the first are handed over. `UpdatesAre` and `OneSource` say what an
  Apply can decide: one update of an account, from a fresh source.
- `HubProofs`, about the boundary: `NeverUnderAnother` and `KnownIsTrue`, for any logins,
  sessions, accounts and collectors. The properties speak of the true owner of a
  session, which the hub never sees, so the invariant has to say what the
  snapshots under way reveal of it. `Record` keeps, as a function from logins to
  accounts, which account each login was of; App Servers, readings, snapshots and
  the daemon agree with it, whenever they were stamped. From it follows `Adopted`:
  once an inventory for a login has been taken, what the daemon loads belongs to
  the same account or to a login at least as new, because the daemon serves the
  login in force and no App Server is ahead of that. What the hub has of a user is
  then either indexed under the account it belongs to, or in the quarantine, or
  withheld because an inventory is owed (`Apart`). The proof of a delivered
  snapshot uses the invariant of the hub through `Report`, the set of all
  snapshots any collector could send.

  The hub orders snapshots by the time a collector took, not by the login it
  speaks of. While two collectors overlap, one with a stale App Server, a snapshot
  of the former login may be stamped last and take the hub back to that login. The
  sessions it knows are quarantined then as at any change of account, but one of
  the newer login that a hook first reports afterwards is shown under the former
  account until a snapshot of the newer login arrives (the hub has no way to tell). `heard` therefore gives up newer logins when an
  older one is accepted, and `HiddenAcrossBoundary` speaks of those that are left.
  `OneCollectorInOrder` shows that this takes two collectors: with one, although
  its App Servers are stale and its stamps late, the hub never accepts an older
  login after a newer one, so that nothing is given up.
- `StatusStreamProofs`, about the channels: `TypeCorrect`, `SafeSends` and
  `Refines`, the refinement of `LatestFeed`. The invariant says which publisher
  holds the lock, that the subscribers already served hold or have received the
  newest revision, and that nobody else fills a channel between a drain and the
  resend, which is why the second select never drops. `StreamIsBroadcast` shows
  that every behaviour of the whole service is one of the channels alone, so that
  all of it holds there too (`StreamSendsAreSafe`, `StreamRefines`).
- `StatusStreamProofs`, about the service: `NoChangeUnannounced`,
  `StreamTypeCorrect` and `ShowsNoLess`, for any number of publishers, handlers,
  browsers, restarts and ticks. What a browser shows came to it over channels,
  reads, connections and polls that overtake each other, so the invariant
  (`StreamInv`) does not follow them: it says that some set of statuses, the
  `Ledger`, contains all that is held anywhere, and that clock and revision
  together date its members. Of two statuses of one instant the higher revision
  announces no less, and of two instants the later one, because a restart takes
  time and a revision of a process announces what it announced when it was made.
  `NextLedger` continues the ledger over any step. `ShowsNoLess` then needs only
  that `latest` is the revision of what is shown while the stream is open
  (`Shows`). The model assumes that publishers, handlers and browsers are
  different (`StreamAssumption`), which they are as goroutines and pages.
- `TurnLeasesProofs`: of the tracker `WithinLimits`, `NeverLate` and
  `RunningChatsAreSpared`, and of its turns `LiveTurnsNeverIdle`. The limits hold
  because an eviction happens in the step that admits a chat and removes the
  oldest of a set that is never empty when a limit is exceeded. `NeverLate` needs
  only the types: an event that changes a lease signals, and what a read prunes
  can only delay the next one (`RenewalDelays`).
  `LeaseInv` says that a turn that was reported running is covered by its own
  lease, or by the overflow lease of its chat, which is never shorter.
- `HistoryProofs`: `NothingLostUnlessDegraded`, `AdjustmentsFirst`,
  `RevisionsNeverBack` and `FilesAreAccepted`. `FileInv` relates memory and the two
  files in every phase: which write is under way and what it carries (`PhaseInv`),
  and that a part that is not owed to a file is in it (`OwedInv`), through failed
  writes, files replaced but not synced, crashes and `Open`. `LimitInv` is the
  argument that a refused write can only be one of `Open`, and with the types it
  gives `FilesAreAccepted`: what `validateDiskState` and
  `validateAdjustmentDiskState` ask of accounts, completed windows and
  adjustments holds of both files and of the memory of a tracker that serves. `HistoryTypes` is the
  rest of the types, in memory, in both files and in every write under way
  (`TypedInv`), for any cap on the adjustments.
- `HistoryProofs`, about the service whose windows are recorded:
  `EarlyChangeRecordedOnce`, `ReplacedWindowsStayReplaced` and `ScheduledResetOnce`,
  for any number of changes and crashes, any rounding within the jitter and any
  length of a week, with the hypothesis that the only faults are crashes
  (`Faults \subseteq {"crash"}`). The hypothesis is needed: with failed writes the first of them is
  violated, see 5. `RecoveryInv` says of memory (`Good`) and of the files
  (`FileGood`) what each record stands for: an adjustment for exactly one change of
  the service, at most one more change being still unseen, and that what the
  files would be read as is either caught up with memory or owes it the
  write under way (`CaughtUp`, `Owes`). A crash between the two files leaves an adjustment
  that the lanes of the other file do not reflect; replaying it (`ReplayGood`) brings
  the lanes to where memory was, so that the next report of the service is not
  taken for another decrease.
- `Folding`: what a left fold computes is stated as a function of the number of
  steps taken (`IsFold`, `FoldExists`), and what holds before the first step and after
  each one holds of the result. The induction is over a set of natural numbers, by
  its least element, so it needs no induction theorem that takes an
  operator. The ranks that a strict total order gives to the members of a finite
  set (`RankTaken`, `NumberRanks`) describe what a sort returns.
- `CollectorProofs`: `TypeCorrect`, `NeverTwoChildren` and `NoChangeIsForgotten`,
  for any bounds of the backoff, logins and faults.
- `RefreshProofs`, about the version: `NoMixture` and `NewestIsFound`. `VersionInv` says, for every
  place between two reads, which facts the reads so far have established of one
  process (`Looking`), and that every candidate is of one (`Found`). The point is
  the second round of reads: what the first round found was true of whoever had
  the identifier then; that the start time is the same before and after the
  second round makes it the same process, since a process keeps its start time
  and no two processes of one identifier share one (`Past`). `SteadyInv` says where a
  process that has not changed is: still to be looked at, a candidate, or being
  looked at with everything read so far right. Nothing is assumed of the number
  of processes or of what they do.
- `RefreshProofs`, about the inventory: `OnlyTheLoadedAppear` and `TheSteadyAppear`,
  for any finite set of threads, any page size and limits, and whatever the daemon
  loads, unloads and runs between two calls. `ThreadsInv` says, beside types, that
  whatever is loaded during an attempt was noted as such and that the rows read
  are of the identifiers of this attempt (`Noted`, `Reading`), and that a polite
  server has listed every steady thread up to its cursor, and what was read of one
  is still so (`Covered`). For a page this needs that `PoliteAnswer` is in order and
  leaves nothing out before its cursor (`PoliteAnswerIs`), and that neither the
  removal of repeated identifiers nor the limit loses one while reads are left
  (`PagedIs`). For the selection, `SelectIs` shows from the ranks of the preference that
  every row read has one of its session in the result, active if it is, or that
  the rows wanted are used up by preferred ones.
- `RefreshProofs`, about a whole refresh: `ObservationIsPublished`, `RefreshTypes` and
  `RefreshFindsTheVersion`. A refresh steps as the detection and as the inventory do
  (`RefreshDetects`, `RefreshReadsThreads`), so that their theorems hold in it.
  `SnapshotInv` says of every part of the snapshot that it is either left out or what
  the sanitizers make of the answer that was accepted, and only for an account that
  is signed in. What they make of it is shown to be valid for every answer of the
  types in `codex/types.go`: names of buckets differ, because `uniqueLimitID` tries
  more suffixes than there are names (`UniqueIs`, `LimitsAre`); rows of recent threads
  are of different sessions, and each timestamp of a merged row is the one of a row
  of its session, the earliest and the latest there are (`MergedRows`), so that a
  merged row that is not in order needs two rows of which each leaves one out
  (`MergedValid`). Hence a refresh rejects its own snapshot for no reason
  other than the two named in `QuotaIsPublished`. The proof assumes of the answers only
  that timestamps are integers, and of names that one base with two different
  suffixes gives two names. What is shown of a snapshot covers the parts that
  `Observation` keeps; percentages, credits and texts are not among them.
- `RpcClientProofs`: `TypeCorrect`, `AnswersBelong`, `ReaderHasRoom`,
  `NothingStale`, `OneWriter`, all from the inductive invariant `IInv`.
  Identifiers number the calls, every message that names a request carries the
  number of its call (`Numbers`), active calls own distinct identifiers (`OwnIDs`), an identifier leaves `pending` before its channel is
  written to (`Registered`), and the gate is held by exactly one writer
  (`Exclusive`).

Only model-checked:

- liveness: `ChangesAreShown`, `ExpiryHappens`, `Converges`, `CallsReturn` and
  `ReaderEnds` (the provers have no fairness or `ENABLED`).

Every safety property the passing runs check is a theorem, or a conjunct of one,
for every value of the constants that the named assumptions allow.

## 5. Disagreements found

- **A retry duplicate after a failed write** (`recovery_failed`,
  `history/history.go:696`). The comment says `CoreRevisionBefore` suppresses the
  duplicate after a stop between the two files. When an earlier write of the
  history file failed, memory is ahead of the file at the same revision, the
  stored adjustment starts from a window the file does not hold, and the restart
  records it again. The same happens when the earlier write replaced the file and
  only the sync of the directory failed: the file then has a newer revision than
  the adjustment is tagged with.
- **A suppressed sign-out** (`collector_signout`, `collector/collector.go:261`).
  `waitForAuthentication` keeps one flag for both publications. If the auth file
  cannot be read first and is removed then, the accepted "unavailable" suppresses
  the signed-out state that the comment promises, and the dashboard keeps the user
  with the account until the next login.
- Seen and not runs:
  - The comment in `collector/collector.go:374-376` says the hub clears its runtime
    set when the inventory read fails; `hub/hub.go:308-319` keeps it for a grace
    period, as its own comment says.
  - The comment in `collector/collector.go:355-356` says that optional metadata
    "must never discard an otherwise valid quota observation". Two rows of one
    session, each valid because it leaves one timestamp out, merge
    (`collector/snapshot.go:164`) into one whose update precedes its creation;
    `Validate` then rejects the whole snapshot. `QuotaIsPublished` excepts this by
    name (`SplitTimestamps`). No server is known to answer so.
  - The same happens for a weekly window whose reset is past or missing
    (`model/model.go:348`), the other exception (`UnusableMainWindow`). No property catches either.
  - A collector that overlaps its successor, with an App Server of the former login,
    may stamp its reading last and take the hub back to the former account until
    the next snapshot (`hub/hub.go:277` orders by that stamp alone). One collector
    never does (`OneCollectorInOrder`).
  - `sanitizeRuntimeThreads` drops a row after `selectLoadedThreads` has preferred
    it to another one of its session, which is then not reported either.
  - The comment in `history/history.go:392-395` says that no lane is admitted that
    could never be persisted. `Open` (225-231) merges the two files without
    looking at the limit, and its own write is then refused ("cannot compact usage
    history"): the service does not start until something in the files expires.
    Files of one age never do this; the `history` run starts from two that differ.
  - An event stream that gets the 503 of a full server fails for good
    (`web/static/assets/app.js`, no new `EventSource` is made); the page goes on
    with its polls, which is why `ChangesAreShown` holds.

## 6. Not modelled, and the plan

Left out for good: formatting and sanitising of text, request and header checks,
the parser of hook input and the parsers of `/proc` files (stateless functions of
text), WebSocket framing and handshake, the ownership of sockets, the command line
and demo data, the reset points inferred for a response, Nix configuration. The
wall clock of the service does not step back: browsers order statuses by
`generatedAt` first and would show nothing new until the clock has caught up.

Three hazards have no property. A weekly window that `Validate` refuses and the
preference of `selectLoadedThreads` are in section 5. While the history file
cannot be written, `appendAdjustment` takes a second decrease from an equal window
for a retry of the first (`history/history.go:1145`), and nothing in the code or
its documentation says which adjustments must survive degraded operation.

Order of the work, the most important behaviour first:

1. done: hub, boundary, sources, broadcast, tracker, history, recovery, RPC client,
   collector; proofs of hub, broadcast and RPC client.
2. done: the status stream with its keep-alives composed with the broadcast, the
   activity server and the browser; the live version detector and its proofs; the
   inventory of loaded threads; sanitising and validation; one refresh as a whole.
3. done, as theorems: the safety of the tracker and of its turns, of the two files
   of history with their recovery, of the collector loop, of the status stream with its browsers, of
   the account boundary, of the sources the history follows, and of a refresh with
   its detection of the version, its inventory and its sanitizers.
