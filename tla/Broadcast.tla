----------------------------- MODULE Broadcast -----------------------------
(***************************************************************************)
(* Subscribe, cancel and broadcastLocked of the hub, one channel operation *)
(* at a time.  Publishers (Apply, Refresh) hold Hub.mu while they walk the *)
(* subscriber map; the readers drain their capacity-one channels without   *)
(* any lock, also in the middle of the selects of broadcastLocked.         *)
(***************************************************************************)
EXTENDS Integers, Sequences

CONSTANTS
  Publishers,   \* goroutines that call Apply or Refresh
  Subscribers,  \* goroutines that serve an event stream
  NoOne,        \* nobody: Hub.mu is free
  MaxRevision   \* bound on the revisions published

ASSUME NoOneAssumption == NoOne \notin Publishers \cup Subscribers

VARIABLES
  mu,        \* the publisher that holds Hub.mu
  revision,  \* h.revision
  subs,      \* keys of h.subs
  ch,        \* ch[b]: contents of the channel of b
  last,      \* last[b]: the last revision b received
  job        \* job[p]: where publisher p is in broadcastLocked

vars == <<mu, revision, subs, ch, last, job>>

NoRevision == -1
Capacity == 1
Idle == [pc |-> "idle", todo |-> {}, at |-> NoOne, response |-> NoRevision]

Init ==
  /\ mu = NoOne
  /\ revision = 0
  /\ subs = {}
  /\ ch = [b \in Subscribers |-> <<>>]
  /\ last = [b \in Subscribers |-> NoRevision]
  /\ job = [p \in Publishers |-> Idle]

(* Under the lock: count the revision and fix the response to send. *)
Publish(p) ==
  /\ mu = NoOne
  /\ job[p] = Idle
  /\ revision < MaxRevision
  /\ mu' = p
  /\ revision' = revision + 1
  /\ job' = [job EXCEPT ![p] = [pc |-> "range", todo |-> subs, at |-> NoOne,
                                response |-> revision + 1]]
  /\ UNCHANGED <<subs, ch, last>>

(* The range loop takes the subscribers in any order. *)
NextChannel(p) ==
  /\ job[p].pc = "range"
  /\ \E b \in job[p].todo :
       job' = [job EXCEPT ![p] =
                [@ EXCEPT !.pc = "send", !.at = b, !.todo = job[p].todo \ {b}]]
  /\ UNCHANGED <<mu, revision, subs, ch, last>>

(* select { case ch <- response: default: }: what p does next is next. *)
TrySend(p, next) ==
  LET b == job[p].at
  IN  IF Len(ch[b]) < Capacity
      THEN /\ ch' = [ch EXCEPT ![b] = Append(@, job[p].response)]
           /\ job' = [job EXCEPT ![p] = [@ EXCEPT !.pc = "range", !.at = NoOne]]
      ELSE /\ UNCHANGED ch
           /\ job' = [job EXCEPT ![p] =
                [@ EXCEPT !.pc = next, !.at = IF next = "range" THEN NoOne ELSE b]]

(* Mutant: the newest revision is dropped when the channel is full. *)
SendOnce(p) ==
  /\ job[p].pc = "send"
  /\ TrySend(p, "range")
  /\ UNCHANGED <<mu, revision, subs, last>>

Send(p) ==
  /\ job[p].pc = "send"
  /\ TrySend(p, "drain")
  /\ UNCHANGED <<mu, revision, subs, last>>

(* select { case <-ch: default: } *)
Drain(p) ==
  /\ job[p].pc = "drain"
  /\ ch' = [ch EXCEPT ![job[p].at] = <<>>]
  /\ job' = [job EXCEPT ![p].pc = "resend"]
  /\ UNCHANGED <<mu, revision, subs, last>>

(* If the channel is full again the response is dropped. *)
Resend(p) ==
  /\ job[p].pc = "resend"
  /\ TrySend(p, "range")
  /\ UNCHANGED <<mu, revision, subs, last>>

Unlock(p) ==
  /\ job[p].pc = "range" /\ job[p].todo = {}
  /\ job' = [job EXCEPT ![p] = Idle]
  /\ mu' = NoOne
  /\ UNCHANGED <<revision, subs, ch, last>>

(* The first send goes to a new, empty channel and cannot block. *)
Subscribe(b) ==
  /\ b \notin subs
  /\ mu = NoOne
  /\ subs' = subs \cup {b}
  /\ ch' = [ch EXCEPT ![b] = <<revision>>]
  /\ last' = [last EXCEPT ![b] = NoRevision]
  /\ UNCHANGED <<mu, revision, job>>

(* Mutant: the channel is closed without Hub.mu. *)
CancelUnlocked(b) ==
  /\ b \in subs
  /\ subs' = subs \ {b}
  /\ UNCHANGED <<mu, revision, ch, last, job>>

(* Delete and close; what the channel holds can still be received. *)
Cancel(b) ==
  /\ b \in subs
  /\ mu = NoOne
  /\ subs' = subs \ {b}
  /\ UNCHANGED <<mu, revision, ch, last, job>>

Receive(b) ==
  /\ ch[b] # <<>>
  /\ last' = [last EXCEPT ![b] = Head(ch[b])]
  /\ ch' = [ch EXCEPT ![b] = Tail(@)]
  /\ UNCHANGED <<mu, revision, subs, job>>

Broadcasts(p) == NextChannel(p) \/ Send(p) \/ Drain(p) \/ Resend(p) \/ Unlock(p)

Next ==
  \/ \E p \in Publishers : Publish(p) \/ Broadcasts(p)
  \/ \E b \in Subscribers : Subscribe(b) \/ Cancel(b) \/ Receive(b)

Spec == Init /\ [][Next]_vars

(* broadcastLocked runs to its end: it has no blocking operation.  Readers, *)
(* which wait for a browser, are given no fairness here.                    *)
PublisherSpec == Spec /\ \A p \in Publishers : WF_vars(Broadcasts(p))

-----------------------------------------------------------------------------
(* Properties *)

Job ==
  [pc : {"idle", "range", "send", "drain", "resend"}, todo : SUBSET Subscribers,
   at : Subscribers \cup {NoOne}, response : Nat \cup {NoRevision}]

(* Every variable has the type of its Go counterpart; a channel is bounded. *)
TypeOK ==
  /\ mu \in Publishers \cup {NoOne}
  /\ revision \in Nat
  /\ subs \subseteq Subscribers
  /\ ch \in [Subscribers -> Seq(Nat)]
  /\ \A b \in Subscribers : Len(ch[b]) <= Capacity
  /\ last \in [Subscribers -> Nat \cup {NoRevision}]
  /\ job \in [Publishers -> Job]

(* A publisher never sends to a channel cancel has closed (a panic in Go)   *)
(* and never finds the channel full a second time, which would drop the     *)
(* newest revision.                                                         *)
SendsAreSafe ==
  \A p \in Publishers :
    /\ job[p].todo \subseteq subs
    /\ job[p].at \in subs \cup {NoOne}
    /\ job[p].pc = "resend" => ch[job[p].at] = <<>>

(* The micro-steps implement a one-place inbox whose content is replaced    *)
(* atomically: while p has drained a channel and not yet resent to it, the  *)
(* abstract inbox already holds the response.                               *)
Resending(b) == {p \in Publishers : job[p].pc = "resend" /\ job[p].at = b}

Unserved(p) ==
  job[p].todo \cup (IF job[p].pc \in {"send", "drain"} THEN {job[p].at} ELSE {})

Owed == UNION {Unserved(p) : p \in Publishers}

Content(b) ==
  IF Resending(b) # {} THEN job[CHOOSE p \in Resending(b) : TRUE].response
  ELSE IF ch[b] = <<>> THEN NoRevision ELSE Head(ch[b])

Inbox == [b \in Subscribers |-> Content(b)]

Feed == INSTANCE LatestFeed WITH
  newest <- revision, joined <- subs, owed <- Owed, inbox <- Inbox, taken <- last

ImplementsLatestFeed == Feed!FeedSpec
=============================================================================
