---------------------------- MODULE StatusStream ----------------------------
(***************************************************************************)
(* The way of a change of activity to the browsers: the activity server    *)
(* changes the tracker and refreshes the hub, the hub broadcasts (module   *)
(* Broadcast), a handler of /api/v1/events writes what it receives and a   *)
(* keep-alive now and then, and a browser merges its event stream with its *)
(* polls of /api/v1/status, through lost connections and restarts.         *)
(*                                                                         *)
(* What the tracker holds is abstracted to the number of changes it has    *)
(* seen, which also counts the restarts that empty it.                     *)
(***************************************************************************)
EXTENDS Broadcast

CONSTANTS
  Expirer,      \* the publisher that is the tracker's expiry worker
  Browsers,
  Gone,         \* what a handler serves whose connection is lost
  Other,        \* a client of the stream that is no browser
  LinkRoom,     \* what a connection holds before a write blocks
  Loads         \* who takes part in a behaviour, and its bounds: the changes of
                \* the tracker and the clock between restarts, and the restarts

ASSUME StreamAssumption ==
  /\ Expirer \in Publishers
  /\ Publishers \cap Subscribers = {} /\ Browsers \cap Subscribers = {}
  /\ {NoOne, Gone, Other} \cap Browsers = {} /\ NoOne \notin {Gone, Other}
  /\ LinkRoom \in Nat \ {0}
  /\ \A l \in Loads :
       /\ l.slots \subseteq Subscribers
       /\ l.clients \subseteq Browsers \cup {Other}
       /\ l.changes \in Nat /\ l.ticks \in Nat /\ l.restarts \in Nat

VARIABLES
  load,       \* the load of this behaviour
  base,       \* the revision the running process calls 0
  restarts,   \* restarts so far
  now,        \* the clock, in the resolution browsers compare
  content,    \* changes of the tracker so far
  due,        \* a lease has run out and nobody has pruned it
  told,       \* content when an event or the expiry worker last changed it
  announced,  \* content at the last refresh
  pending,    \* pending[p]: p has changed the tracker and not yet refreshed
  payload,    \* payload[p], payload[b]: the response p broadcasts or ch[b] holds
  reading,    \* reading[r]: what Hub.Status has fixed for r before it reads
              \* the tracker
  serves,     \* serves[b]: the browser of stream handler b, NoOne if its slot
              \* is free, Gone if the connection is lost
  link,       \* link[n]: what is on its way to browser n
  poll,       \* poll[n]: the answer to n's request of the status
  stream,     \* stream[n]: the state of n's EventSource
  latest,     \* latest[n]: latestStatusRevision
  shown       \* shown[n]: currentStatus

serverVars == <<load, base, restarts, now, content, due, told, announced, pending>>
streamVars == <<payload, reading, serves, link>>
browserVars == <<poll, stream, latest, shown>>
allVars == <<vars, serverVars, streamVars, browserVars>>

NoStatus == [rev |-> NoRevision]
End == [rev |-> -2]  \* the end of a stream, after its last event
Readers == Subscribers \cup Browsers

StreamInit ==
  /\ Init
  /\ load \in Loads
  /\ base = 0 /\ restarts = 0 /\ now = 1
  /\ content = 0 /\ told = 0 /\ announced = 0
  /\ due = FALSE
  /\ pending = [p \in Publishers |-> FALSE]
  /\ payload = [x \in Publishers \cup Subscribers |-> NoStatus]
  /\ reading = [r \in Readers |-> NoStatus]
  /\ serves = [b \in Subscribers |-> NoOne]
  /\ link = [n \in Browsers |-> <<>>]
  /\ poll = [n \in Browsers |-> NoStatus]
  /\ stream = [n \in Browsers |-> "connecting"]
  /\ latest = [n \in Browsers |-> NoRevision]
  /\ shown = [n \in Browsers |-> NoStatus]

-----------------------------------------------------------------------------
(* The tracker and the hub *)

(* Every read of the tracker prunes, and tells nobody. *)
Pruned == IF due THEN content + 1 ELSE content
ReadTracker == content' = Pruned /\ due' = FALSE

(* A status: its revision and generatedAt were fixed first.  What its       *)
(* revision announced is not sent; properties refer to it.                  *)
Status(rev, gen, pub) == [rev |-> rev, gen |-> gen, pub |-> pub, content |-> Pruned]
StatusNow == Status(revision - base, now, announced)

(* Hub.mu is an RWMutex: Status holds it for reading. *)
NobodyReads == \A r \in Readers : reading[r] = NoStatus

(* Mutant: a change is not announced while another broadcast is under way. *)
ChangedUnlessBusy(p) == pending' = [pending EXCEPT ![p] = mu = NoOne]

Changed(p) == pending' = [pending EXCEPT ![p] = TRUE]

(* handle of the activity server, up to the reply it sends before OnChange. *)
ApplyEvent(p) ==
  /\ p # Expirer
  /\ job[p] = Idle /\ ~pending[p]
  /\ content < load.changes + restarts
  /\ content' = content + 1
  /\ due' = FALSE
  /\ told' = content'
  /\ Changed(p)
  /\ UNCHANGED <<vars, load, base, restarts, now, announced, streamVars, browserVars>>

LeaseRunsOut ==
  /\ ~due
  /\ content < load.changes + restarts
  /\ due' = TRUE
  /\ UNCHANGED <<vars, load, base, restarts, now, content, told, announced, pending,
                 streamVars, browserVars>>

(* The worker prunes what is due and calls onExpire only if that changed    *)
(* anything.                                                                *)
Expire ==
  /\ due
  /\ job[Expirer] = Idle /\ ~pending[Expirer]
  /\ ReadTracker
  /\ told' = content'
  /\ Changed(Expirer)
  /\ UNCHANGED <<vars, load, base, restarts, now, announced, streamVars, browserVars>>

(* Hub.Refresh, the OnChange of the activity server. *)
Refresh(p) ==
  /\ pending[p]
  /\ NobodyReads
  /\ Publish(p)
  /\ ReadTracker
  /\ announced' = Pruned
  /\ pending' = [pending EXCEPT ![p] = FALSE]
  /\ payload' = [payload EXCEPT ![p] = Status(revision + 1 - base, now, Pruned)]
  /\ UNCHANGED <<load, base, restarts, now, told, reading, serves, link, browserVars>>

(* What a channel holds changes with the steps of the broadcast. *)
BroadcastStep(p) ==
  /\ Broadcasts(p)
  /\ payload' =
       [x \in Publishers \cup Subscribers |->
          IF x \in Subscribers
          THEN IF ch'[x] = <<>> THEN NoStatus
               ELSE IF ch'[x] = ch[x] THEN payload[x] ELSE payload[p]
          ELSE IF job'[x] = Idle THEN NoStatus ELSE payload[x]]
  /\ UNCHANGED <<serverVars, reading, serves, link, browserVars>>

(* The process ends and another one starts: memory is lost, and revisions   *)
(* start again at 0.  The streams have ended before (HandlerReturns).       *)
Restart ==
  /\ restarts < load.restarts
  /\ mu = NoOne
  /\ \A b \in Subscribers : serves[b] = NoOne
  /\ restarts' = restarts + 1
  /\ base' = revision
  /\ now' = now + 1
  /\ content' = content + 1
  /\ told' = content + 1
  /\ announced' = content + 1
  /\ due' = FALSE
  /\ pending' = [p \in Publishers |-> FALSE]
  /\ reading' = [r \in Readers |-> NoStatus]
  /\ UNCHANGED <<vars, load, payload, serves, link, browserVars>>

Tick ==
  /\ now < 1 + load.ticks + restarts
  /\ now' = now + 1
  /\ UNCHANGED <<vars, load, base, restarts, content, due, told, announced, pending,
                 streamVars, browserVars>>

(* Status takes the read lock, which fixes the revision and generatedAt ... *)
StartReading(r) ==
  /\ reading[r] = NoStatus
  /\ mu = NoOne
  /\ reading' = [reading EXCEPT ![r] = [StatusNow EXCEPT !.content = 0]]

(* ... and then reads the tracker. *)
WasRead(r) == Status(reading[r].rev, reading[r].gen, reading[r].pub)
FinishReading(r) ==
  /\ reading[r] # NoStatus
  /\ reading' = [reading EXCEPT ![r] = NoStatus]
  /\ ReadTracker

-----------------------------------------------------------------------------
(* Handlers of event streams; the slots are the handlers *)

Streaming(n) == {b \in Subscribers : serves[b] = n}
Free == {b \in load.slots : serves[b] = NoOne}

(* The event stream of client n is handed to handler b. *)
Serve(n, b) ==
  /\ n \in load.clients
  /\ b \in Free
  /\ NobodyReads
  /\ Subscribe(b)
  /\ ReadTracker
  /\ serves' = [serves EXCEPT ![b] = n]
  /\ payload' = [payload EXCEPT ![b] = StatusNow]
  /\ UNCHANGED <<load, base, restarts, now, told, announced, pending, reading, link,
                 browserVars>>

Reconnecting(n) == stream[n] = "connecting" /\ Streaming(n) = {} /\ link[n] = <<>>
Connect(n, b) == Reconnecting(n) /\ Serve(n, b)

(* 503: an EventSource that gets one does not try again. *)
Refused(n) ==
  /\ n \in load.clients
  /\ Reconnecting(n)
  /\ Free = {}
  /\ stream' = [stream EXCEPT ![n] = "failed"]
  /\ UNCHANGED <<vars, serverVars, streamVars, poll, latest, shown>>

(* Mutant: a write does not wait for the client. *)
MayWriteAnyTime(b) ==
  /\ serves[b] # NoOne
  /\ reading[b] = NoStatus

MayWrite(b) ==
  /\ serves[b] \in Browsers => Len(link[serves[b]]) < LinkRoom
  /\ serves[b] # NoOne
  /\ reading[b] = NoStatus

(* What other clients do with their events is not followed; a write to a    *)
(* lost connection fails, or succeeds for nothing.                          *)
Written(b, s) ==
  IF serves[b] \in Browsers
  THEN link' = [link EXCEPT ![serves[b]] = Append(@, s)]
  ELSE UNCHANGED link

Forward(b) ==
  /\ MayWrite(b)
  /\ Receive(b)
  /\ Written(b, payload[b])
  /\ payload' = [payload EXCEPT ![b] = NoStatus]
  /\ UNCHANGED <<serverVars, reading, serves, browserVars>>

KeepAlive(b) ==
  /\ MayWrite(b)
  /\ StartReading(b)
  /\ UNCHANGED <<vars, serverVars, payload, serves, link, browserVars>>

KeepAliveWritten(b) ==
  /\ FinishReading(b)
  /\ Written(b, WasRead(b))
  /\ UNCHANGED <<vars, load, base, restarts, now, told, announced, pending, payload,
                 serves, browserVars>>

(* The client is gone, a write times out, or the service stops. *)
HandlerReturns(b) ==
  /\ serves[b] # NoOne
  /\ reading[b] = NoStatus
  /\ NobodyReads
  /\ Cancel(b)
  /\ serves' = [serves EXCEPT ![b] = NoOne]
  /\ Written(b, End)
  /\ UNCHANGED <<serverVars, payload, reading, browserVars>>

-----------------------------------------------------------------------------
(* Browsers *)

ConnectionLost(n) ==
  /\ Streaming(n) # {}
  /\ serves' = [b \in Subscribers |-> IF serves[b] = n THEN Gone ELSE serves[b]]
  /\ link' = [link EXCEPT ![n] = <<>>]
  /\ stream' = [stream EXCEPT ![n] = "connecting"]
  /\ UNCHANGED <<vars, serverVars, payload, reading, poll, latest, shown>>

(* Mutant: statuses are ordered by their revisions alone. *)
AcceptsByRevision(n, s) == s.rev >= latest[n]

(* Mutant: a revision is shown once. *)
AcceptsNewRevision(n, s) ==
  \/ shown[n] = NoStatus
  \/ s.gen > shown[n].gen /\ s.rev < latest[n]
  \/ s.gen >= shown[n].gen /\ s.rev > latest[n]

(* Neither generated earlier nor, unless the service has restarted, of an   *)
(* earlier revision.                                                        *)
Accepts(n, s) ==
  \/ shown[n] = NoStatus /\ s.rev >= latest[n]
  \/ /\ shown[n] # NoStatus
     /\ s.gen >= shown[n].gen
     /\ s.rev >= latest[n] \/ s.gen > shown[n].gen

AcceptStatus(n, s) ==
  IF Accepts(n, s)
  THEN /\ latest' = [latest EXCEPT ![n] = s.rev]
       /\ shown' = [shown EXCEPT ![n] = s]
  ELSE UNCHANGED <<latest, shown>>

(* The headers arrive with the first event. *)
OpenEvent(n) ==
  /\ stream[n] = "connecting"
  /\ link[n] # <<>>
  /\ stream' = [stream EXCEPT ![n] = "open"]
  /\ latest' = [latest EXCEPT ![n] = NoRevision]
  /\ UNCHANGED <<vars, serverVars, streamVars, poll, shown>>

SnapshotEvent(n) ==
  /\ stream[n] = "open"
  /\ link[n] # <<>> /\ Head(link[n]) # End
  /\ AcceptStatus(n, Head(link[n]))
  /\ link' = [link EXCEPT ![n] = Tail(@)]
  /\ UNCHANGED <<vars, serverVars, payload, reading, serves, poll, stream>>

ErrorEvent(n) ==
  /\ stream[n] = "open"
  /\ link[n] # <<>> /\ Head(link[n]) = End
  /\ stream' = [stream EXCEPT ![n] = "connecting"]
  /\ link' = [link EXCEPT ![n] = <<>>]
  /\ UNCHANGED <<vars, serverVars, payload, reading, serves, poll, latest, shown>>

(* fetchStatus, once a minute *)
FetchStatus(n) ==
  /\ n \in load.clients
  /\ poll[n] = NoStatus
  /\ StartReading(n)
  /\ UNCHANGED <<vars, serverVars, payload, serves, link, browserVars>>

StatusAnswered(n) ==
  /\ FinishReading(n)
  /\ poll' = [poll EXCEPT ![n] = WasRead(n)]
  /\ UNCHANGED <<vars, load, base, restarts, now, told, announced, pending, payload,
                 serves, link, stream, latest, shown>>

StatusFetched(n) ==
  /\ poll[n] # NoStatus
  /\ AcceptStatus(n, poll[n])
  /\ poll' = [poll EXCEPT ![n] = NoStatus]
  /\ UNCHANGED <<vars, serverVars, streamVars, stream>>

FetchFails(n) ==
  /\ poll[n] # NoStatus
  /\ poll' = [poll EXCEPT ![n] = NoStatus]
  /\ UNCHANGED <<vars, serverVars, streamVars, stream, latest, shown>>

-----------------------------------------------------------------------------
StreamNext ==
  \/ \E p \in Publishers : ApplyEvent(p) \/ Refresh(p) \/ BroadcastStep(p)
  \/ LeaseRunsOut \/ Expire \/ Restart \/ Tick
  \/ \E b \in Subscribers :
       \/ Forward(b) \/ KeepAlive(b) \/ KeepAliveWritten(b) \/ HandlerReturns(b)
       \/ Serve(Other, b)
       \/ \E n \in Browsers : Connect(n, b)
  \/ \E n \in Browsers :
       \/ Refused(n) \/ ConnectionLost(n)
       \/ OpenEvent(n) \/ SnapshotEvent(n) \/ ErrorEvent(n)
       \/ FetchStatus(n) \/ StatusAnswered(n) \/ StatusFetched(n) \/ FetchFails(n)

StreamSpec == StreamInit /\ [][StreamNext]_allVars

(* Broadcasts and reads of the status have no blocking operation; the timer *)
(* of an open page keeps polling, and some poll gets through.               *)
FairStreamSpec ==
  /\ StreamSpec
  /\ \A p \in Publishers : WF_allVars(BroadcastStep(p))
  /\ \A n \in Browsers :
       /\ WF_allVars(FetchStatus(n)) /\ WF_allVars(StatusAnswered(n))
       /\ SF_allVars(StatusFetched(n))

-----------------------------------------------------------------------------
(* Properties *)

Sent == [rev : 0..revision, gen : 1..now, pub : 0..announced, content : 0..content]

(* Statuses on their way are older than the state of the server in every    *)
(* respect: a browser cannot have been told of what is not there yet.       *)
StreamTypeOK ==
  /\ TypeOK
  /\ base \in 0..revision /\ restarts \in Nat /\ now \in Nat
  /\ content \in Nat /\ told \in 0..content /\ announced \in 0..content /\ due \in BOOLEAN
  /\ pending \in [Publishers -> BOOLEAN]
  /\ payload \in [Publishers \cup Subscribers -> Sent \cup {NoStatus}]
  /\ \A b \in Subscribers : (payload[b] = NoStatus) <=> (ch[b] = <<>>)
  /\ reading \in [Readers -> Sent \cup {NoStatus}]
  /\ serves \in [Subscribers -> Browsers \cup {NoOne, Gone, Other}]
  /\ \A b \in Subscribers : b \in subs <=> serves[b] # NoOne
  /\ \A n \in Browsers :
       /\ Len(link[n]) <= LinkRoom + 1
       /\ \A i \in 1..Len(link[n]) : link[n][i] \in Sent \cup {End}
  /\ poll \in [Browsers -> Sent \cup {NoStatus}]
  /\ stream \in [Browsers -> {"connecting", "open", "failed"}]
  /\ latest \in [Browsers -> -1..revision]
  /\ shown \in [Browsers -> Sent \cup {NoStatus}]

(* What an event or the expiry worker has changed is in the last revision,  *)
(* or the goroutine that changed it is still going to publish one.          *)
NothingUnannounced ==
  told > announced => \E p \in Publishers : pending[p]

(* Between two openings of its stream a browser never shows a status from   *)
(* before a revision it has shown, also not one of a process that is gone.  *)
NeverShowsLess ==
  [][\A n \in Browsers :
       shown'[n] # shown[n] /\ shown[n] # NoStatus =>
         \/ shown'[n].pub >= shown[n].pub
         \/ latest[n] = NoRevision /\ shown'[n].gen = shown[n].gen]_allVars

(* Every change is shown in every open browser, also one that nobody        *)
(* announced, and in a browser whose stream was refused.                    *)
ChangesAreShown ==
  \A n \in Browsers : \A c \in 1..MaxRevision :
    (n \in load.clients /\ content >= c) ~>
      (shown[n] # NoStatus /\ shown[n].content >= c)
=============================================================================
