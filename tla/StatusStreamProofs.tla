------------------------ MODULE StatusStreamProofs -------------------------
(***************************************************************************)
(* First the safety of broadcastLocked for any number of publishers and    *)
(* subscribers.  Everything rests on Hub.mu: at most one publisher is past *)
(* its lock, so that nobody else sends to, adds or closes a channel while  *)
(* it walks the map, and what it sends is the newest revision.             *)
(*                                                                         *)
(* Then, with any tracker, handlers and browsers around the channels: that *)
(* every behaviour of the stream is one of the broadcast, that no change   *)
(* is forgotten, and that browsers do not show older statuses again.       *)
(***************************************************************************)
EXTENDS StatusStream, TLAPS

(* The types alone; the capacity of the channels is OnePlace. *)
Typed ==
  /\ mu \in Publishers \cup {NoOne}
  /\ revision \in Nat
  /\ subs \subseteq Subscribers
  /\ ch \in [Subscribers -> Seq(Nat)]
  /\ last \in [Subscribers -> Nat \cup {NoRevision}]
  /\ job \in [Publishers -> Job]

(* A publisher that is not idle holds the lock and sends the newest         *)
(* revision; it is at one subscriber at a time, which it still had to serve *)
(* when it came there.                                                      *)
Walks(p) ==
  /\ job[p].pc = "idle" => job[p] = Idle
  /\ job[p].pc # "idle" => mu = p /\ job[p].response = revision
  /\ job[p].todo \subseteq subs
  /\ job[p].pc = "range" => job[p].at = NoOne
  /\ job[p].pc \in {"send", "drain", "resend"} =>
       job[p].at \in subs /\ job[p].at \notin job[p].todo
  /\ job[p].pc = "resend" => ch[job[p].at] = <<>>

Walk == \A p \in Publishers : Walks(p)

OnePlace == \A b \in Subscribers : Len(ch[b]) <= 1

IInv == Typed /\ Walk /\ OnePlace

LEMMA NobodyHasNoName == NoOne \notin Publishers /\ NoOne \notin Subscribers
  BY NoOneAssumption

(* The invariant holds initially. *)
LEMMA InitInv == Init => IInv
  BY NobodyHasNoName
     DEF Init, IInv, Typed, Job, Walk, Walks, OnePlace, Idle, NoRevision

(* A try-send to b leaves its channel as it is or appends one revision to it. *)
LEMMA TrySendType ==
  ASSUME Typed, NEW p \in Publishers, NEW next \in {"drain", "range"},
         job[p].at \in Subscribers, job[p].response \in Nat, TrySend(p, next)
  PROVE  ch' \in [Subscribers -> Seq(Nat)] /\ job' \in [Publishers -> Job]
<1> DEFINE b == job[p].at
<1>1. ch[b] \in Seq(Nat) /\ job \in [Publishers -> Job] /\ ch \in [Subscribers -> Seq(Nat)]
  BY DEF Typed
<1>2. CASE Len(ch[b]) < Capacity
  <2>1. ch' = [ch EXCEPT ![b] = Append(@, job[p].response)]
    BY <1>2 DEF TrySend
  <2>2. job' = [job EXCEPT ![p] = [@ EXCEPT !.pc = "range", !.at = NoOne]]
    BY <1>2 DEF TrySend
  <2>3. Append(ch[b], job[p].response) \in Seq(Nat)
    BY <1>1
  <2>4. ch' \in [Subscribers -> Seq(Nat)]
    BY <1>1, <2>1, <2>3
  <2>5. job' \in [Publishers -> Job]
    BY <1>1, <2>2 DEF Job
  <2> QED
    BY <2>4, <2>5
<1>3. CASE ~(Len(ch[b]) < Capacity)
  <2>1. job' = [job EXCEPT ![p] =
                [@ EXCEPT !.pc = next, !.at = IF next = "range" THEN NoOne ELSE b]]
    BY <1>3 DEF TrySend
  <2>2. ch' = ch
    BY <1>3 DEF TrySend
  <2> DEFINE r == [job[p] EXCEPT !.pc = next, !.at = IF next = "range" THEN NoOne ELSE b]
  <2>3. r \in Job
    BY <1>1, next \in {"drain", "range"} DEF Job
  <2>4. job' \in [Publishers -> Job]
    <3>1. job' = [job EXCEPT ![p] = r]
      BY <2>1
    <3> HIDE DEF r
    <3> QED
      BY <1>1, <2>3, <3>1
  <2> QED
    BY <1>1, <2>2, <2>4
<1> QED
  BY <1>2, <1>3

(* While a publisher is between its lock and its unlock, what it sends is a *)
(* revision and whom it sends it to is a subscriber.                        *)
LEMMA Sender ==
  ASSUME Typed, Walk, NEW p \in Publishers, job[p].pc \in {"send", "drain", "resend"}
  PROVE  job[p].at \in Subscribers /\ job[p].response \in Nat /\ mu = p
  BY DEF Typed, Walk, Walks

LEMMA TypeStep == Typed /\ Walk /\ [Next]_vars => Typed'
<1> SUFFICES ASSUME Typed, Walk, [Next]_vars PROVE Typed'
  OBVIOUS
<1>1. ASSUME NEW p \in Publishers, Publish(p) PROVE Typed'
  <2>1. job' \in [Publishers -> Job]
    BY <1>1 DEF Publish, Typed, Job
  <2> QED
    BY <1>1, <2>1 DEF Publish, Typed
<1>2. ASSUME NEW p \in Publishers, NextChannel(p) PROVE Typed'
  <2>1. PICK b \in job[p].todo : job' = [job EXCEPT ![p] =
                [@ EXCEPT !.pc = "send", !.at = b, !.todo = job[p].todo \ {b}]]
    BY <1>2 DEF NextChannel
  <2>2. job' \in [Publishers -> Job]
    BY <2>1 DEF Typed, Job
  <2> QED
    BY <1>2, <2>2 DEF NextChannel, Typed
<1>3. ASSUME NEW p \in Publishers, Send(p) \/ Resend(p) PROVE Typed'
  <2>1. PICK next \in {"drain", "range"} : TrySend(p, next)
    BY <1>3 DEF Send, Resend
  <2>2. job[p].at \in Subscribers /\ job[p].response \in Nat
    BY <1>3, Sender DEF Send, Resend
  <2>3. ch' \in [Subscribers -> Seq(Nat)] /\ job' \in [Publishers -> Job]
    BY <2>1, <2>2, TrySendType
  <2> QED
    BY <1>3, <2>3 DEF Send, Resend, Typed
<1>4. ASSUME NEW p \in Publishers, Drain(p) PROVE Typed'
  <2>1. job' \in [Publishers -> Job]
    BY <1>4 DEF Drain, Typed, Job
  <2>2. ch' \in [Subscribers -> Seq(Nat)]
    BY <1>4, Sender DEF Drain, Typed
  <2> QED
    BY <1>4, <2>1, <2>2 DEF Drain, Typed
<1>5. ASSUME NEW p \in Publishers, Unlock(p) PROVE Typed'
  BY <1>5 DEF Unlock, Idle, Typed, Job
<1>6. ASSUME NEW b \in Subscribers, Subscribe(b) \/ Cancel(b) PROVE Typed'
  <2>1. <<revision>> \in Seq(Nat)
    BY DEF Typed
  <2>2. ch' \in [Subscribers -> Seq(Nat)]
    BY <1>6, <2>1 DEF Subscribe, Cancel, Typed
  <2> QED
    BY <1>6, <2>2 DEF Subscribe, Cancel, Typed
<1>7. ASSUME NEW b \in Subscribers, Receive(b) PROVE Typed'
  <2>1. ch[b] \in Seq(Nat) /\ ch[b] # <<>>
    BY <1>7 DEF Receive, Typed
  <2>2. Head(ch[b]) \in Nat /\ Tail(ch[b]) \in Seq(Nat)
    BY <2>1
  <2> QED
    BY <1>7, <2>2 DEF Receive, Typed
<1>8. CASE UNCHANGED vars
  BY <1>8 DEF vars, Typed
<1> QED
  BY <1>1, <1>2, <1>3, <1>4, <1>5, <1>6, <1>7, <1>8 DEF Next, Broadcasts

(* A step of p that leaves the others' jobs alone preserves Walk as soon as  *)
(* p still walks: while p has work to do or takes the lock, they are idle.    *)
LEMMA OnlyOneWalks ==
  ASSUME Typed, Walk, NEW p \in Publishers, mu \in {p, NoOne},
         \A q \in Publishers \ {p} : job'[q] = job[q], Walks(p)'
  PROVE  Walk'
<1>1. ASSUME NEW q \in Publishers \ {p} PROVE job'[q] = Idle
  BY <1>1, NobodyHasNoName DEF Walk, Walks
<1>2. ASSUME NEW q \in Publishers \ {p} PROVE Walks(q)'
  <2>1. job'[q] = Idle
    BY <1>1
  <2>2. job'[q].pc = "idle" /\ job'[q].todo = {}
    BY <2>1 DEF Idle
  <2> QED
    BY <2>1, <2>2 DEF Walks
<1> QED
  BY <1>2 DEF Walk

LEMMA WalkStep == Typed /\ Walk /\ OnePlace /\ [Next]_vars => Walk'
<1> SUFFICES ASSUME Typed, Walk, OnePlace, [Next]_vars PROVE Walk'
  OBVIOUS
<1>1. ASSUME NEW p \in Publishers, Publish(p) PROVE Walk'
  <2>1. Walks(p)'
    BY <1>1, NobodyHasNoName DEF Publish, Walks, Typed, Job
  <2> QED
    BY <1>1, <2>1, OnlyOneWalks DEF Publish, Typed
<1>2. ASSUME NEW p \in Publishers, NextChannel(p) PROVE Walk'
  <2>1. PICK b \in job[p].todo : job' = [job EXCEPT ![p] =
                [@ EXCEPT !.pc = "send", !.at = b, !.todo = job[p].todo \ {b}]]
    BY <1>2 DEF NextChannel
  <2>2. Walks(p) /\ job[p].pc = "range"
    BY <1>2 DEF NextChannel, Walk
  <2>3. Walks(p)'
    BY <1>2, <2>1, <2>2 DEF NextChannel, Walks, Typed, Job
  <2> QED
    BY <2>1, <2>2, <2>3, OnlyOneWalks DEF Walks, Typed
<1>3. ASSUME NEW p \in Publishers, NEW next \in {"drain", "range"},
             TrySend(p, next), Walks(p), job[p].pc \in {"send", "resend"},
             UNCHANGED <<mu, revision, subs, last>>
      PROVE  Walk'
  <2>1. CASE Len(ch[job[p].at]) < Capacity
    <3>1. job' = [job EXCEPT ![p] = [@ EXCEPT !.pc = "range", !.at = NoOne]]
      BY <1>3, <2>1 DEF TrySend
    <3>2. Walks(p)'
      BY <1>3, <3>1 DEF Walks, Typed, Job
    <3> QED
      BY <1>3, <3>1, <3>2, OnlyOneWalks DEF Walks, Typed
  <2>2. CASE ~(Len(ch[job[p].at]) < Capacity)
    <3>1. job' = [job EXCEPT ![p] =
                [@ EXCEPT !.pc = next, !.at = IF next = "range" THEN NoOne ELSE job[p].at]]
      BY <1>3, <2>2 DEF TrySend
    <3>2. Walks(p)'
      BY <1>3, <3>1 DEF Walks, Typed, Job
    <3> QED
      BY <1>3, <3>1, <3>2, OnlyOneWalks DEF Walks, Typed
  <2> QED
    BY <2>1, <2>2
<1>4. ASSUME NEW p \in Publishers, Send(p) \/ Resend(p) PROVE Walk'
  BY <1>3, <1>4 DEF Send, Resend, Walk
<1>5. ASSUME NEW p \in Publishers, Drain(p) PROVE Walk'
  <2>1. Walks(p) /\ job[p].at \in Subscribers /\ mu = p
    BY <1>5, Sender DEF Drain, Walk
  <2>2. Walks(p)'
    BY <1>5, <2>1 DEF Drain, Walks, Typed, Job
  <2> QED
    BY <1>5, <2>1, <2>2, OnlyOneWalks DEF Drain, Typed
<1>6. ASSUME NEW p \in Publishers, Unlock(p) PROVE Walk'
  <2>1. job'[p] = Idle /\ mu = p
    BY <1>6 DEF Unlock, Typed, Walk, Walks
  <2>2. Walks(p)'
    BY <2>1 DEF Walks, Idle
  <2> QED
    BY <1>6, <2>1, <2>2, OnlyOneWalks DEF Unlock, Typed
<1>7. ASSUME NEW b \in Subscribers, Subscribe(b) \/ Cancel(b) PROVE Walk'
  <2>1. \A q \in Publishers : job'[q] = Idle
    BY <1>7, NobodyHasNoName DEF Subscribe, Cancel, Walk, Walks
  <2>2. ASSUME NEW q \in Publishers PROVE Walks(q)'
    <3>1. job'[q] = Idle
      BY <2>1
    <3> QED
      BY <3>1 DEF Walks, Idle
  <2> QED
    BY <2>2 DEF Walk
<1>8. ASSUME NEW b \in Subscribers, Receive(b) PROVE Walk'
  <2>1. ASSUME NEW q \in Publishers PROVE Walks(q)'
    BY <1>8 DEF Receive, Walk, Walks, Typed
  <2> QED
    BY <2>1 DEF Walk
<1>9. CASE UNCHANGED vars
  BY <1>9 DEF vars, Walk, Walks
<1> QED
  BY <1>1, <1>2, <1>4, <1>5, <1>6, <1>7, <1>8, <1>9 DEF Next, Broadcasts

(* A channel is replaced by the empty one, by a single revision, or by its  *)
(* tail: it never grows past one place.                                     *)
LEMMA OnePlaceStep == Typed /\ Walk /\ OnePlace /\ [Next]_vars => OnePlace'
<1> SUFFICES ASSUME Typed, Walk, OnePlace, [Next]_vars PROVE OnePlace'
  OBVIOUS
<1>1. ASSUME NEW p \in Publishers, NEW next, TrySend(p, next), job[p].at \in Subscribers
      PROVE  OnePlace'
  <2>1. ch[job[p].at] \in Seq(Nat)
    BY <1>1 DEF Typed
  <2>2. CASE Len(ch[job[p].at]) < 1
    <3>1. Len(Append(ch[job[p].at], job[p].response)) = 1
      BY <2>1, <2>2
    <3> QED
      BY <1>1, <2>2, <3>1 DEF TrySend, OnePlace, Typed, Capacity
  <2>3. CASE ~(Len(ch[job[p].at]) < 1)
    BY <1>1, <2>3 DEF TrySend, OnePlace, Capacity
  <2> QED
    BY <2>2, <2>3
<1>2. ASSUME NEW p \in Publishers, Send(p) \/ Resend(p) PROVE OnePlace'
  BY <1>1, <1>2, Sender DEF Send, Resend
<1>3. ASSUME NEW p \in Publishers, Drain(p) PROVE OnePlace'
  BY <1>3 DEF Drain, OnePlace, Typed
<1>4. ASSUME NEW b \in Subscribers, Receive(b) PROVE OnePlace'
  <2>1. ch[b] \in Seq(Nat) /\ ch[b] # <<>> /\ Len(ch[b]) <= 1
    BY <1>4 DEF Receive, Typed, OnePlace
  <2>2. Len(Tail(ch[b])) <= 1
    BY <2>1
  <2> QED
    BY <1>4, <2>2 DEF Receive, OnePlace, Typed
<1>5. ASSUME NEW b \in Subscribers, Subscribe(b) PROVE OnePlace'
  BY <1>5 DEF Subscribe, OnePlace, Typed
<1>6. CASE UNCHANGED ch
  BY <1>6 DEF OnePlace
<1> QED
  BY <1>2, <1>3, <1>4, <1>5, <1>6
     DEF Next, Broadcasts, Publish, NextChannel, Unlock, Cancel, vars

LEMMA Invariance == Spec => []IInv
<1>1. IInv /\ [Next]_vars => IInv'
  BY TypeStep, WalkStep, OnePlaceStep DEF IInv
<1> QED
  BY InitInv, <1>1, PTL DEF Spec

(* The variables keep their types, and a channel never outgrows its place.  *)
THEOREM TypeCorrect == Spec => []TypeOK
<1>1. IInv => TypeOK
  BY DEF IInv, Typed, OnePlace, TypeOK, Capacity
<1> QED
  BY <1>1, Invariance, PTL

(* No publisher ever sends to a channel that cancel has closed, nor finds   *)
(* a channel it has just drained full again, whatever readers do meanwhile. *)
THEOREM SafeSends == Spec => []SendsAreSafe
<1>1. ASSUME IInv, NEW p \in Publishers
      PROVE  /\ job[p].todo \subseteq subs
             /\ job[p].at \in subs \cup {NoOne}
             /\ job[p].pc = "resend" => ch[job[p].at] = <<>>
  <2>1. job[p].pc \in {"idle", "range", "send", "drain", "resend"}
    BY <1>1 DEF IInv, Typed, Job
  <2> QED
    BY <1>1, <2>1 DEF IInv, Walk, Walks, Idle
<1>2. IInv => SendsAreSafe
  BY <1>1 DEF SendsAreSafe
<1> QED
  BY <1>2, Invariance, PTL
-----------------------------------------------------------------------------
(* Refinement.  Who is still owed the newest revision and what the inboxes  *)
(* hold, read off the one job that is not idle.                             *)

(* Nobody is owed anything while the lock is free. *)
LEMMA FreeLock == IInv /\ mu = NoOne => Owed = {}
<1> SUFFICES ASSUME IInv, mu = NoOne PROVE Owed = {}
  OBVIOUS
<1>1. ASSUME NEW p \in Publishers PROVE Unserved(p) = {}
  <2>1. job[p] = Idle
    BY NobodyHasNoName DEF IInv, Walk, Walks
  <2> QED
    BY <2>1 DEF Unserved, Idle
<1> QED
  BY <1>1 DEF Owed

(* While p holds it, those p has still to offer the revision to. *)
LEMMA HeldLock == IInv => \A p \in Publishers : mu = p => Owed = Unserved(p)
<1> SUFFICES ASSUME IInv, NEW p \in Publishers, mu = p PROVE Owed = Unserved(p)
  OBVIOUS
<1>1. ASSUME NEW q \in Publishers, q # p PROVE Unserved(q) = {}
  <2>1. job[q] = Idle
    BY <1>1 DEF IInv, Walk, Walks
  <2> QED
    BY <2>1 DEF Unserved, Idle
<1> QED
  BY <1>1 DEF Owed

(* What b can take: nothing but its channel, except between the drain and   *)
(* the second send.                                                         *)
LEMMA Contents ==
  IInv => \A b \in Subscribers : Inbox[b] =
    IF \E p \in Publishers : job[p].pc = "resend" /\ job[p].at = b THEN revision
    ELSE IF ch[b] = <<>> THEN NoRevision ELSE Head(ch[b])
<1> SUFFICES ASSUME IInv, NEW b \in Subscribers
             PROVE  Content(b) =
               IF \E p \in Publishers : job[p].pc = "resend" /\ job[p].at = b
               THEN revision ELSE IF ch[b] = <<>> THEN NoRevision ELSE Head(ch[b])
  BY DEF Inbox
<1>1. ASSUME NEW p \in Publishers, job[p].pc = "resend", job[p].at = b
      PROVE  Content(b) = revision
  <2>1. Resending(b) # {} /\ (CHOOSE q \in Resending(b) : TRUE) \in Resending(b)
    BY <1>1 DEF Resending
  <2>2. \A q \in Resending(b) : job[q].response = revision
    BY DEF Resending, IInv, Walk, Walks
  <2> QED
    BY <2>1, <2>2 DEF Content
<1>2. ASSUME ~ \E p \in Publishers : job[p].pc = "resend" /\ job[p].at = b
      PROVE  Resending(b) = {}
  BY <1>2 DEF Resending
<1> QED
  BY <1>1, <1>2 DEF Content

Taken(b) == IF ch[b] = <<>> THEN NoRevision ELSE Head(ch[b])

(* The abstract state as a function of the lock and of the job of whoever   *)
(* holds it.                                                                *)
View ==
  /\ mu = NoOne => /\ Owed = {}
                   /\ \A b \in Subscribers : Inbox[b] = Taken(b)
  /\ \A p \in Publishers : mu = p =>
       /\ Owed = Unserved(p)
       /\ \A b \in Subscribers :
            Inbox[b] = IF job[p].pc = "resend" /\ job[p].at = b THEN revision ELSE Taken(b)

LEMMA Viewed == IInv => View
<1> SUFFICES ASSUME IInv PROVE View
  OBVIOUS
<1>1. ASSUME NEW p \in Publishers, job[p].pc = "resend" PROVE mu = p
  BY <1>1 DEF IInv, Walk, Walks
<1>2. ASSUME mu = NoOne, NEW b \in Subscribers PROVE Inbox[b] = Taken(b)
  BY <1>1, <1>2, Contents, NobodyHasNoName DEF Taken
<1>3. ASSUME NEW p \in Publishers, mu = p, NEW b \in Subscribers
      PROVE  Inbox[b] = IF job[p].pc = "resend" /\ job[p].at = b THEN revision ELSE Taken(b)
  BY <1>1, <1>3, Contents DEF Taken
<1> QED
  BY <1>2, <1>3, FreeLock, HeldLock DEF View

LEMMA ViewedNext == IInv' => View'
  BY Viewed, PTL

(* Two inboxes are equal when they hold the same for every subscriber.      *)
LEMMA SameInbox ==
  ASSUME \A b \in Subscribers : Inbox'[b] = Inbox[b]
  PROVE  Inbox' = Inbox
  BY DEF Inbox

LEMMA ReplacedInbox ==
  ASSUME NEW c \in Subscribers, NEW v, Inbox'[c] = v,
         \A b \in Subscribers \ {c} : Inbox'[b] = Inbox[b]
  PROVE  Inbox' = [Inbox EXCEPT ![c] = v]
  BY DEF Inbox

LEMMA InitRefines == Init => Feed!FeedInit
<1> SUFFICES ASSUME Init PROVE Feed!FeedInit
  OBVIOUS
<1>1. IInv
  BY InitInv
<1>2. Owed = {}
  BY <1>1, FreeLock DEF Init
<1>3. \A b \in Subscribers : Inbox[b] = NoRevision
  BY <1>1, Contents DEF Init, Idle
<1>4. Inbox = [b \in Subscribers |-> Feed!Nothing]
  BY <1>3 DEF Inbox, Feed!Nothing, NoRevision
<1> QED
  BY <1>2, <1>4 DEF Init, Feed!FeedInit, Feed!Nothing, NoRevision

(* Publish announces, the send that finds room and the drain offer, every   *)
(* other step of a publisher changes nothing a subscriber could tell.       *)
LEMMA StepRefines == IInv /\ IInv' /\ [Next]_vars => [Feed!FeedNext]_(Feed!feedVars)
<1> SUFFICES ASSUME IInv, IInv', [Next]_vars PROVE [Feed!FeedNext]_(Feed!feedVars)
  OBVIOUS
<1> USE DEF Feed!feedVars
<1>a. View /\ View' /\ Typed /\ Walk /\ OnePlace /\ Typed'
  BY Viewed, ViewedNext DEF IInv
<1>1. ASSUME NEW p \in Publishers, Publish(p) PROVE Feed!Announce
  <2>1. Owed = {} /\ \A b \in Subscribers : Inbox[b] = Taken(b)
    BY <1>1, <1>a DEF Publish, View
  <2>2. job'[p] = [pc |-> "range", todo |-> subs, at |-> NoOne, response |-> revision + 1]
    BY <1>1, <1>a DEF Publish, Typed
  <2>3. Owed' = subs
    <3>1. mu' = p
      BY <1>1 DEF Publish
    <3>2. Owed' = Unserved(p)'
      BY <3>1, <1>a DEF View
    <3>3. Unserved(p)' = subs
      BY <2>2 DEF Unserved
    <3> QED
      BY <3>2, <3>3
  <2>4. \A b \in Subscribers : Inbox'[b] = Taken(b)
    BY <1>1, <2>2, <1>a DEF Publish, View, Taken
  <2>5. Inbox' = Inbox
    BY <2>1, <2>4, SameInbox
  <2> QED
    BY <1>1, <2>1, <2>3, <2>5 DEF Publish, Feed!Announce
<1>2. ASSUME NEW p \in Publishers, NextChannel(p) PROVE UNCHANGED Feed!feedVars
  <2>1. PICK b \in job[p].todo : job' = [job EXCEPT ![p] =
                [@ EXCEPT !.pc = "send", !.at = b, !.todo = job[p].todo \ {b}]]
    BY <1>2 DEF NextChannel
  <2>2. mu = p /\ mu' = p /\ job[p].pc = "range" /\ job[p].at = NoOne
    BY <1>2, <1>a DEF NextChannel, Walk, Walks
  <2>3. /\ job'[p].pc = "send" /\ job'[p].at = b /\ job'[p].todo = job[p].todo \ {b}
    BY <2>1, <1>a DEF Typed, Job
  <2>4. Owed' = Owed
    BY <2>2, <2>3, <1>a DEF View, Unserved
  <2>5. Inbox' = Inbox
    BY <1>2, <2>2, <2>3, <1>a, SameInbox DEF View, Taken, NextChannel
  <2> QED
    BY <1>2, <2>4, <2>5 DEF NextChannel
<1>3. ASSUME NEW p \in Publishers, Send(p) PROVE [Feed!FeedNext]_(Feed!feedVars)
  <2> DEFINE b == job[p].at
  <2>1. /\ b \in Subscribers /\ mu = p /\ mu' = p /\ job[p].response = revision
        /\ job[p].pc = "send" /\ b \notin job[p].todo /\ ch[b] \in Seq(Nat)
        /\ UNCHANGED <<revision, subs, last>>
    BY <1>3, <1>a, Sender DEF Send, Walk, Walks, Typed
  <2>2. Owed = job[p].todo \cup {b} /\ \A c \in Subscribers : Inbox[c] = Taken(c)
    BY <2>1, <1>a DEF View, Unserved
  <2>3. CASE Len(ch[b]) < Capacity
    <3>1. /\ ch' = [ch EXCEPT ![b] = Append(@, revision)]
          /\ job' = [job EXCEPT ![p] = [@ EXCEPT !.pc = "range", !.at = NoOne]]
      BY <1>3, <2>1, <2>3 DEF Send, TrySend
    <3>2. job'[p].pc = "range" /\ job'[p].todo = job[p].todo
      BY <3>1, <1>a DEF Typed, Job
    <3>3. Owed' = Owed \ {b} /\ b \in Owed
      BY <2>1, <2>2, <3>2, <1>a DEF View, Unserved
    <3>4. \A c \in Subscribers : Inbox'[c] = Taken(c)'
      BY <2>1, <3>2, <1>a DEF View
    <3>5. ch'[b] = <<revision>> /\ \A c \in Subscribers \ {b} : ch'[c] = ch[c]
      <4>1. ch[b] = <<>>
        BY <2>1, <2>3 DEF Capacity
      <4>2. Append(<<>>, revision) = <<revision>>
        BY <1>a DEF Typed
      <4> QED
        BY <2>1, <3>1, <4>1, <4>2, <1>a DEF Typed
    <3>6. Inbox'[b] = revision /\ \A c \in Subscribers \ {b} : Inbox'[c] = Inbox[c]
      BY <2>1, <2>2, <3>4, <3>5 DEF Taken
    <3>7. Inbox' = [Inbox EXCEPT ![b] = revision]
      BY <2>1, <3>6, ReplacedInbox
    <3>8. Feed!Offer(b)
      BY <2>1, <3>3, <3>7 DEF Feed!Offer
    <3> QED
      BY <2>1, <3>8 DEF Feed!FeedNext
  <2>4. CASE ~(Len(ch[b]) < Capacity)
    <3>1. ch' = ch /\ job' = [job EXCEPT ![p] = [@ EXCEPT !.pc = "drain", !.at = b]]
      BY <1>3, <2>4 DEF Send, TrySend
    <3>2. job'[p].pc = "drain" /\ job'[p].todo = job[p].todo /\ job'[p].at = b
      BY <3>1, <1>a DEF Typed, Job
    <3>3. Owed' = Owed
      BY <2>1, <2>2, <3>2, <1>a DEF View, Unserved
    <3>4. Inbox' = Inbox
      BY <2>1, <2>2, <3>1, <3>2, <1>a, SameInbox DEF View, Taken
    <3> QED
      BY <2>1, <3>3, <3>4
  <2> QED
    BY <2>3, <2>4
<1>4. ASSUME NEW p \in Publishers, Drain(p) PROVE Feed!FeedNext
  <2> DEFINE b == job[p].at
  <2>1. /\ b \in Subscribers /\ mu = p /\ mu' = p /\ job[p].pc = "drain"
        /\ b \notin job[p].todo /\ UNCHANGED <<revision, subs, last>>
    BY <1>4, <1>a, Sender DEF Drain, Walk, Walks
  <2>2. /\ job'[p].pc = "resend" /\ job'[p].todo = job[p].todo /\ job'[p].at = b
        /\ \A c \in Subscribers \ {b} : ch'[c] = ch[c]
    BY <1>4, <1>a DEF Drain, Typed, Job
  <2>3. Owed = job[p].todo \cup {b} /\ Owed' = job[p].todo
    BY <2>1, <2>2, <1>a DEF View, Unserved
  <2>4. Inbox'[b] = revision /\ \A c \in Subscribers \ {b} : Inbox'[c] = Inbox[c]
    BY <2>1, <2>2, <1>a DEF View, Taken
  <2>5. Inbox' = [Inbox EXCEPT ![b] = revision]
    BY <2>1, <2>4, ReplacedInbox
  <2>6. Feed!Offer(b)
    BY <2>1, <2>3, <2>5 DEF Feed!Offer
  <2> QED
    BY <2>1, <2>6 DEF Feed!FeedNext
<1>5. ASSUME NEW p \in Publishers, Resend(p) PROVE UNCHANGED Feed!feedVars
  <2> DEFINE b == job[p].at
  <2>1. /\ b \in Subscribers /\ mu = p /\ mu' = p /\ job[p].response = revision
        /\ job[p].pc = "resend" /\ ch[b] = <<>> /\ UNCHANGED <<revision, subs, last>>
    BY <1>5, <1>a, Sender DEF Resend, Walk, Walks
  <2>2. /\ ch' = [ch EXCEPT ![b] = Append(@, revision)]
        /\ job' = [job EXCEPT ![p] = [@ EXCEPT !.pc = "range", !.at = NoOne]]
    BY <1>5, <2>1 DEF Resend, TrySend, Capacity
  <2>3. job'[p].pc = "range" /\ job'[p].todo = job[p].todo
    BY <2>2, <1>a DEF Typed, Job
  <2>4. ch'[b] = <<revision>> /\ \A c \in Subscribers \ {b} : ch'[c] = ch[c]
    BY <2>1, <2>2, <1>a DEF Typed
  <2>5. Owed' = Owed
    BY <2>1, <2>3, <1>a DEF View, Unserved
  <2>6. Inbox' = Inbox
    <3>1. Inbox[b] = revision /\ \A c \in Subscribers \ {b} : Inbox[c] = Taken(c)
      BY <2>1, <1>a DEF View
    <3>2. \A c \in Subscribers : Inbox'[c] = Taken(c)'
      BY <2>1, <2>3, <1>a DEF View
    <3>3. Inbox'[b] = revision
      BY <2>1, <2>4, <3>2 DEF Taken
    <3>4. \A c \in Subscribers \ {b} : Inbox'[c] = Inbox[c]
      BY <2>4, <3>1, <3>2 DEF Taken
    <3> QED
      BY <3>1, <3>3, <3>4, SameInbox
  <2> QED
    BY <2>1, <2>5, <2>6
<1>6. ASSUME NEW p \in Publishers, Unlock(p) PROVE UNCHANGED Feed!feedVars
  <2>1. mu = p /\ mu' = NoOne /\ job[p].pc = "range" /\ job[p].todo = {}
    BY <1>6, <1>a DEF Unlock, Walk, Walks
  <2>2. Owed = {} /\ Owed' = {}
    BY <2>1, <1>a DEF View, Unserved
  <2>3. Inbox' = Inbox
    <3>1. \A b \in Subscribers : Inbox[b] = Taken(b) /\ Inbox'[b] = Taken(b)'
      BY <2>1, <1>a DEF View
    <3>2. ch' = ch
      BY <1>6 DEF Unlock
    <3>3. \A b \in Subscribers : Inbox'[b] = Inbox[b]
      BY <3>1, <3>2 DEF Taken
    <3> QED
      BY <3>3, SameInbox
  <2> QED
    BY <1>6, <2>2, <2>3 DEF Unlock
<1>7. ASSUME NEW b \in Subscribers, Subscribe(b) PROVE Feed!Join(b)
  <2>1. Owed = {} /\ Owed' = {}
    BY <1>7, <1>a DEF Subscribe, View
  <2>2. ch'[b] = <<revision>> /\ \A c \in Subscribers \ {b} : ch'[c] = ch[c]
    BY <1>7, <1>a DEF Subscribe, Typed
  <2>3. Inbox'[b] = revision /\ \A c \in Subscribers \ {b} : Inbox'[c] = Inbox[c]
    BY <1>7, <2>2, <1>a DEF Subscribe, View, Taken
  <2>4. Inbox' = [Inbox EXCEPT ![b] = revision]
    BY <2>3, ReplacedInbox
  <2> QED
    BY <1>7, <2>1, <2>4 DEF Subscribe, Feed!Join, Feed!Nothing, NoRevision
<1>8. ASSUME NEW b \in Subscribers, Cancel(b) PROVE Feed!Leave(b)
  <2>1. Owed = {} /\ Owed' = {} /\ Inbox' = Inbox
    BY <1>8, <1>a, SameInbox DEF Cancel, View, Taken
  <2> QED
    BY <1>8, <2>1 DEF Cancel, Feed!Leave
<1>9. ASSUME NEW b \in Subscribers, Receive(b) PROVE Feed!Take(b)
  <2>1. /\ ch[b] \in Seq(Nat) /\ ch[b] # <<>> /\ Len(ch[b]) <= 1
        /\ UNCHANGED <<mu, revision, subs, job>>
    BY <1>9, <1>a DEF Receive, Typed, OnePlace
  <2>2. Tail(ch[b]) = <<>> /\ Head(ch[b]) \in Nat
    BY <2>1
  <2>3. ch'[b] = <<>> /\ \A c \in Subscribers \ {b} : ch'[c] = ch[c]
    BY <1>9, <2>2, <1>a DEF Receive, Typed
  <2>4. ~ \E p \in Publishers : job[p].pc = "resend" /\ job[p].at = b
    BY <2>1, <1>a DEF Walk, Walks
  <2>5. Inbox[b] = Head(ch[b]) /\ Inbox'[b] = NoRevision
    BY <2>1, <2>3, <2>4, <1>a DEF View, Taken, Typed
  <2>6. \A c \in Subscribers \ {b} : Inbox'[c] = Inbox[c]
    BY <2>1, <2>3 DEF Inbox, Content, Resending
  <2>7. Owed' = Owed
    BY <2>1 DEF Owed, Unserved
  <2>8. Inbox' = [Inbox EXCEPT ![b] = NoRevision]
    BY <2>5, <2>6, ReplacedInbox
  <2> QED
    BY <1>9, <2>2, <2>5, <2>7, <2>8 DEF Receive, Feed!Take, Feed!Nothing, NoRevision
<1>10. CASE UNCHANGED vars
  <2>1. Owed' = Owed /\ Inbox' = Inbox
    BY <1>10 DEF vars, Owed, Unserved, Inbox, Content, Resending
  <2> QED
    BY <1>10, <2>1 DEF vars
<1> QED
  BY <1>1, <1>2, <1>3, <1>4, <1>5, <1>6, <1>7, <1>8, <1>9, <1>10
     DEF Next, Broadcasts, Feed!FeedNext

(* The channel operations of broadcastLocked, Subscribe and cancel, in every *)
(* interleaving with each other and with the readers, amount to a one-place  *)
(* inbox per subscriber whose content every new revision replaces at once.   *)
THEOREM Refines == Spec => ImplementsLatestFeed
  BY InitRefines, StepRefines, Invariance, PTL DEF Spec, ImplementsLatestFeed, Feed!FeedSpec
-----------------------------------------------------------------------------
(* The status stream around the channels *)

LEMMA StreamSteps == [StreamNext]_allVars => [Next]_vars
<1> SUFFICES ASSUME [StreamNext]_allVars PROVE [Next]_vars
  OBVIOUS
<1>1. ASSUME NEW p \in Publishers, ApplyEvent(p) \/ Refresh(p) \/ BroadcastStep(p)
      PROVE  [Next]_vars
  BY <1>1 DEF ApplyEvent, Refresh, BroadcastStep, Next
<1>2. CASE LeaseRunsOut \/ Expire \/ Restart \/ Tick
  BY <1>2 DEF LeaseRunsOut, Expire, Restart, Tick
<1>3. ASSUME NEW b \in Subscribers,
             Forward(b) \/ KeepAlive(b) \/ KeepAliveWritten(b) \/ HandlerReturns(b)
      PROVE  [Next]_vars
  BY <1>3 DEF Forward, KeepAlive, KeepAliveWritten, HandlerReturns, Next
<1>4. ASSUME NEW b \in Subscribers, NEW n, Serve(n, b) PROVE [Next]_vars
  BY <1>4 DEF Serve, Next
<1>5. ASSUME NEW n \in Browsers,
             \/ Refused(n) \/ ConnectionLost(n)
             \/ OpenEvent(n) \/ SnapshotEvent(n) \/ ErrorEvent(n)
             \/ FetchStatus(n) \/ StatusAnswered(n) \/ StatusFetched(n) \/ FetchFails(n)
      PROVE  UNCHANGED vars
  BY <1>5 DEF Refused, ConnectionLost, OpenEvent, SnapshotEvent, ErrorEvent, FetchStatus,
     StatusAnswered, StatusFetched, FetchFails
<1>6. CASE UNCHANGED allVars
  BY <1>6 DEF allVars
<1> QED
  BY <1>1, <1>2, <1>3, <1>4, <1>5, <1>6 DEF StreamNext, Connect

(* Handlers, keep-alives, browsers, events, expiries and restarts add no    *)
(* step of their own to the channels: what holds of broadcastLocked alone   *)
(* holds of the service.                                                    *)
THEOREM StreamIsBroadcast == StreamSpec => Spec
<1>1. StreamInit => Init
  BY DEF StreamInit
<1> QED
  BY <1>1, StreamSteps, PTL DEF StreamSpec, Spec

(* In the service no handler that returns makes a publisher send to a       *)
(* closed channel.                                                          *)
THEOREM StreamSendsAreSafe == StreamSpec => []SendsAreSafe
  BY StreamIsBroadcast, SafeSends, PTL

(* In the service the channels are one-place inboxes of the newest revision. *)
THEOREM StreamRefines == StreamSpec => ImplementsLatestFeed
  BY StreamIsBroadcast, Refines, PTL

-----------------------------------------------------------------------------
(* The tracker's changes and their announcements *)

Counters ==
  /\ base \in 0..revision /\ restarts \in Nat /\ now \in Nat \ {0}
  /\ content \in Nat /\ told \in 0..content /\ announced \in 0..content
Flags == due \in BOOLEAN /\ pending \in [Publishers -> BOOLEAN]
ServerTyped == Counters /\ Flags

LEMMA ServerInit == StreamInit => ServerTyped
<1> SUFFICES ASSUME StreamInit PROVE ServerTyped
  OBVIOUS
<1>1. /\ revision = 0 /\ base = 0 /\ restarts = 0 /\ now = 1
      /\ content = 0 /\ told = 0 /\ announced = 0
  BY DEF StreamInit, Init
<1>2. Counters
  BY <1>1 DEF Counters
<1>3. Flags
  BY DEF StreamInit, Flags
<1> QED
  BY <1>2, <1>3 DEF ServerTyped

LEMMA PrunedType ==
  ASSUME ServerTyped PROVE Pruned \in Nat /\ Pruned >= content
  BY DEF ServerTyped, Counters, Pruned

(* What one step does to the server: nothing goes back, and what a revision *)
(* of a process announces is fixed.                                         *)
Onward ==
  /\ revision' >= revision /\ now' >= now
  /\ content' >= content /\ announced' >= announced
  /\ now' = now => base' = base
  /\ now' = now /\ revision' = revision => announced' = announced

LEMMA ServerStep ==
  ASSUME IInv, ServerTyped, [StreamNext]_allVars
  PROVE  ServerTyped' /\ Onward
<1>1. revision \in Nat /\ Counters /\ Flags
  BY DEF IInv, Typed, ServerTyped
<1>a. Pruned \in Nat /\ Pruned >= content
  BY PrunedType
<1>b. ASSUME Counters', Flags', Onward PROVE ServerTyped' /\ Onward
  BY <1>b DEF ServerTyped
<1>2. CASE UNCHANGED <<revision, serverVars>>
  <2>1. /\ revision' = revision /\ base' = base /\ restarts' = restarts /\ now' = now
        /\ content' = content /\ told' = told /\ announced' = announced
    BY <1>2 DEF serverVars
  <2>2. due' = due /\ pending' = pending
    BY <1>2 DEF serverVars
  <2>3. Counters' /\ Onward
    BY <1>1, <2>1 DEF Counters, Onward
  <2> QED
    BY <1>1, <1>b, <2>2, <2>3 DEF Flags
<1>3. ASSUME NEW p \in Publishers, ApplyEvent(p) PROVE ServerTyped' /\ Onward
  <2>1. /\ revision' = revision /\ base' = base /\ restarts' = restarts /\ now' = now
        /\ content' = content + 1 /\ told' = content' /\ announced' = announced
    BY <1>3 DEF ApplyEvent, vars
  <2>2. due' = FALSE /\ pending' = [pending EXCEPT ![p] = TRUE]
    BY <1>3 DEF ApplyEvent, Changed
  <2>3. Counters' /\ Onward
    BY <1>1, <2>1 DEF Counters, Onward
  <2>4. Flags'
    BY <1>1, <2>2 DEF Flags
  <2> QED
    BY <1>b, <2>3, <2>4
<1>4. ASSUME NEW p \in Publishers, Refresh(p) PROVE ServerTyped' /\ Onward
  <2>1. /\ revision' = revision + 1 /\ base' = base /\ restarts' = restarts /\ now' = now
        /\ content' = Pruned /\ told' = told /\ announced' = Pruned
    BY <1>4 DEF Refresh, Publish, ReadTracker
  <2>2. due' = FALSE /\ pending' = [pending EXCEPT ![p] = FALSE]
    BY <1>4 DEF Refresh, ReadTracker
  <2>3. Counters' /\ Onward
    BY <1>1, <1>a, <2>1 DEF Counters, Onward
  <2>4. Flags'
    BY <1>1, <2>2 DEF Flags
  <2> QED
    BY <1>b, <2>3, <2>4
<1>5. CASE LeaseRunsOut \/ Tick
  <2>1. /\ revision' = revision /\ base' = base /\ restarts' = restarts
        /\ content' = content /\ told' = told /\ announced' = announced
    BY <1>5 DEF LeaseRunsOut, Tick, vars
  <2>2. now' = now \/ now' = now + 1
    BY <1>5 DEF LeaseRunsOut, Tick
  <2>3. Counters' /\ Onward
    BY <1>1, <2>1, <2>2 DEF Counters, Onward
  <2>4. Flags'
    BY <1>1, <1>5 DEF LeaseRunsOut, Tick, Flags
  <2> QED
    BY <1>b, <2>3, <2>4
<1>6. CASE Expire
  <2>1. /\ revision' = revision /\ base' = base /\ restarts' = restarts /\ now' = now
        /\ content' = Pruned /\ told' = content' /\ announced' = announced
    BY <1>6 DEF Expire, ReadTracker, vars
  <2>2. due' = FALSE /\ pending' = [pending EXCEPT ![Expirer] = TRUE]
    BY <1>6 DEF Expire, ReadTracker, Changed
  <2>3. Counters' /\ Onward
    BY <1>1, <1>a, <2>1 DEF Counters, Onward
  <2>4. Flags'
    BY <1>1, <2>2 DEF Flags
  <2> QED
    BY <1>b, <2>3, <2>4
<1>7. CASE Restart
  <2>1. /\ revision' = revision /\ base' = revision /\ restarts' = restarts + 1
        /\ now' = now + 1
        /\ content' = content + 1 /\ told' = content + 1 /\ announced' = content + 1
    BY <1>7 DEF Restart, vars
  <2>2. Counters' /\ Onward
    BY <1>1, <2>1 DEF Counters, Onward
  <2>3. Flags'
    BY <1>7 DEF Restart, Flags
  <2> QED
    BY <1>b, <2>2, <2>3
<1>8. ASSUME ReadTracker,
             UNCHANGED <<revision, base, restarts, now, told, announced, pending>>
      PROVE  ServerTyped' /\ Onward
  <2>1. /\ revision' = revision /\ base' = base /\ restarts' = restarts /\ now' = now
        /\ content' = Pruned /\ told' = told /\ announced' = announced
    BY <1>8 DEF ReadTracker
  <2>2. due' = FALSE /\ pending' = pending
    BY <1>8 DEF ReadTracker
  <2>3. Counters' /\ Onward
    BY <1>1, <1>a, <2>1 DEF Counters, Onward
  <2>4. Flags'
    BY <1>1, <2>2 DEF Flags
  <2> QED
    BY <1>b, <2>3, <2>4
<1>9. ASSUME NEW b \in Subscribers, NEW n, Serve(n, b) PROVE ServerTyped' /\ Onward
  BY <1>8, <1>9 DEF Serve, Subscribe
<1>10. ASSUME NEW b \in Subscribers, KeepAliveWritten(b) PROVE ServerTyped' /\ Onward
  BY <1>8, <1>10 DEF KeepAliveWritten, FinishReading, vars
<1>11. ASSUME NEW n \in Browsers, StatusAnswered(n) PROVE ServerTyped' /\ Onward
  BY <1>8, <1>11 DEF StatusAnswered, FinishReading, vars
<1>12. ASSUME NEW p \in Publishers, BroadcastStep(p) PROVE UNCHANGED <<revision, serverVars>>
  BY <1>12 DEF BroadcastStep, Broadcasts, NextChannel, Send, Drain, Resend, Unlock
<1>13. ASSUME NEW b \in Subscribers, Forward(b) \/ KeepAlive(b) \/ HandlerReturns(b)
       PROVE  UNCHANGED <<revision, serverVars>>
  BY <1>13 DEF Forward, Receive, KeepAlive, HandlerReturns, Cancel, vars
<1>14. ASSUME NEW n \in Browsers,
              \/ Refused(n) \/ ConnectionLost(n)
              \/ OpenEvent(n) \/ SnapshotEvent(n) \/ ErrorEvent(n)
              \/ FetchStatus(n) \/ StatusFetched(n) \/ FetchFails(n)
       PROVE  UNCHANGED <<revision, serverVars>>
  BY <1>14 DEF Refused, ConnectionLost, OpenEvent, SnapshotEvent, ErrorEvent, FetchStatus,
     StatusFetched, FetchFails, vars
<1>15. CASE UNCHANGED allVars
  BY <1>2, <1>15 DEF allVars, vars
<1> QED
  BY <1>2, <1>3, <1>4, <1>5, <1>6, <1>7, <1>9, <1>10, <1>11, <1>12, <1>13, <1>14, <1>15
     DEF StreamNext, Connect

LEMMA ServerInvariant == StreamSpec => [](IInv /\ ServerTyped)
<1>1. StreamInit => IInv
  BY InitInv DEF StreamInit
<1>2. IInv /\ [StreamNext]_allVars => IInv'
  BY StreamSteps, TypeStep, WalkStep, OnePlaceStep DEF IInv
<1> QED
  BY <1>1, <1>2, ServerInit, ServerStep, PTL DEF StreamSpec

(* Whatever an event or the expiry worker has changed is in the last        *)
(* revision, or a goroutine that will publish one is still on its way there. *)
THEOREM NoChangeUnannounced == StreamSpec => []NothingUnannounced
<1>1. StreamInit => NothingUnannounced
  BY DEF StreamInit, NothingUnannounced
<1>2. ASSUME IInv, ServerTyped, NothingUnannounced, [StreamNext]_allVars
      PROVE  NothingUnannounced'
  <2>1. CASE UNCHANGED <<told, announced, pending>>
    BY <1>2, <2>1 DEF NothingUnannounced
  <2>2. ASSUME NEW p \in Publishers, Changed(p) PROVE NothingUnannounced'
    <3>1. pending'[p]
      BY <1>2, <2>2 DEF Changed, ServerTyped, Flags
    <3> QED
      BY <3>1 DEF NothingUnannounced
  <2>3. ASSUME NEW p \in Publishers, Refresh(p) PROVE NothingUnannounced'
    <3>1. told' = told /\ announced' = Pruned /\ told <= content /\ content \in Nat
          /\ told \in Nat
      BY <1>2, <2>3 DEF Refresh, ServerTyped, Counters
    <3>2. ~(told' > announced')
      BY <1>2, <3>1, PrunedType
    <3> QED
      BY <3>2 DEF NothingUnannounced
  <2>4. CASE Restart
    BY <1>2, <2>4 DEF Restart, NothingUnannounced, ServerTyped, Counters
  <2>5. ASSUME NEW p \in Publishers, ApplyEvent(p) PROVE NothingUnannounced'
    BY <2>2, <2>5 DEF ApplyEvent
  <2>6. CASE Expire
    BY <2>2, <2>6, StreamAssumption DEF Expire
  <2>7. CASE LeaseRunsOut \/ Tick \/ UNCHANGED allVars
    BY <2>1, <2>7 DEF LeaseRunsOut, Tick, allVars, serverVars
  <2>8. ASSUME NEW p \in Publishers, BroadcastStep(p) PROVE NothingUnannounced'
    BY <2>1, <2>8 DEF BroadcastStep, serverVars
  <2>9. ASSUME NEW b \in Subscribers,
               Forward(b) \/ KeepAlive(b) \/ KeepAliveWritten(b) \/ HandlerReturns(b)
        PROVE  NothingUnannounced'
    BY <2>1, <2>9 DEF Forward, KeepAlive, KeepAliveWritten, HandlerReturns, serverVars
  <2>10. ASSUME NEW b \in Subscribers, NEW n, Serve(n, b) PROVE NothingUnannounced'
    BY <2>1, <2>10 DEF Serve
  <2>11. ASSUME NEW n \in Browsers,
               \/ Refused(n) \/ ConnectionLost(n)
               \/ OpenEvent(n) \/ SnapshotEvent(n) \/ ErrorEvent(n)
               \/ FetchStatus(n) \/ StatusAnswered(n) \/ StatusFetched(n) \/ FetchFails(n)
        PROVE  NothingUnannounced'
    BY <2>1, <2>11 DEF Refused, ConnectionLost, OpenEvent, SnapshotEvent, ErrorEvent,
       FetchStatus, StatusAnswered, StatusFetched, FetchFails, serverVars
  <2> QED
    BY <1>2, <2>3, <2>4, <2>5, <2>6, <2>7, <2>8, <2>9, <2>10, <2>11 DEF StreamNext, Connect
<1> QED
  BY <1>1, <1>2, ServerInvariant, PTL DEF StreamSpec
-----------------------------------------------------------------------------
(* Statuses on their way *)

(* The order in which a browser compares statuses while its stream is open. *)
NotAfter(s, t) == s.gen < t.gen \/ (s.gen = t.gen /\ s.rev <= t.rev)

Current(s) == s.rev = revision - base /\ s.gen = now /\ s.pub = announced

(* D holds every status that may have been sent so far.  The clock and the  *)
(* revision that Status fixes under the lock date what it announces.        *)
Ledger(D) ==
  /\ D \subseteq Sent
  /\ \A s \in D, c \in 0..content : [s EXCEPT !.content = c] \in D
  /\ \A s \in Sent : Current(s) => s \in D
  /\ \A s \in D : s.gen = now =>
       /\ s.rev <= revision - base
       /\ s.rev = revision - base => s.pub = announced
  /\ \A s, t \in D : NotAfter(s, t) => s.pub <= t.pub

LEMMA FirstLedger ==
  ASSUME StreamInit PROVE \E D : Ledger(D)
<1> DEFINE S == {s \in Sent : TRUE}
<1>1. revision = 0 /\ base = 0 /\ now = 1 /\ content = 0 /\ announced = 0
  BY DEF StreamInit, Init
<1>2. \A s \in Sent : s.rev = 0 /\ s.gen = 1 /\ s.pub = 0 /\ s.content = 0
  BY <1>1 DEF Sent
<1>3. \A s \in Sent, c \in 0..content : [s EXCEPT !.content = c] \in Sent
  BY <1>1 DEF Sent
<1>4. \A s \in Sent : s.gen = now =>
       /\ s.rev <= revision - base
       /\ s.rev = revision - base => s.pub = announced
  BY <1>1, <1>2
<1>5. \A s, t \in Sent : NotAfter(s, t) => s.pub <= t.pub
  BY <1>2 DEF NotAfter
<1> QED
  BY <1>3, <1>4, <1>5 DEF Ledger

(* The ledger of one state can be continued in the next.                    *)
LEMMA NextLedger ==
  ASSUME revision \in Nat, revision' \in Nat, Counters, Counters', Onward,
         NEW D, Ledger(D)
  PROVE  \E E : /\ Ledger(E)' /\ D \subseteq E
               /\ \A s \in D, c \in 0..content' : [s EXCEPT !.content = c] \in E
<1> DEFINE Old(s) == \E d \in D : s.rev = d.rev /\ s.gen = d.gen /\ s.pub = d.pub
           Fresh(s) == s.rev = revision' - base' /\ s.gen = now' /\ s.pub = announced'
<1>1. PICK T : T = [rev : 0..revision', gen : 1..now', pub : 0..announced', content : 0..content']
  OBVIOUS
<1>2. PICK E : E = {s \in T : Old(s) \/ Fresh(s)}
  OBVIOUS
<1>t. Sent' = T
  BY <1>1 DEF Sent
<1>3. D \subseteq T
  BY <1>1 DEF Ledger, Sent, Onward, Counters
<1>4. D \subseteq E
  BY <1>2, <1>3
<1>5. \A s \in D, c \in 0..content' : [s EXCEPT !.content = c] \in E
  <2> TAKE s \in D, c \in 0..content'
  <2>1. PICK x : x = [s EXCEPT !.content = c]
    OBVIOUS
  <2>2. s \in T
    BY <1>3
  <2>3. x \in T /\ x.rev = s.rev /\ x.gen = s.gen /\ x.pub = s.pub
    BY <1>1, <2>1, <2>2
  <2> QED
    BY <1>2, <2>1, <2>3
<1>6. \A s \in E, c \in 0..content' : [s EXCEPT !.content = c] \in E
  <2> TAKE s \in E, c \in 0..content'
  <2>1. PICK x : x = [s EXCEPT !.content = c]
    OBVIOUS
  <2>2. s \in T /\ (Old(s) \/ Fresh(s))
    BY <1>2
  <2>3. x \in T /\ x.rev = s.rev /\ x.gen = s.gen /\ x.pub = s.pub
    BY <1>1, <2>1, <2>2
  <2>4. Old(x) \/ Fresh(x)
    BY <2>2, <2>3
  <2> QED
    BY <1>2, <2>1, <2>3, <2>4
<1>7. \A s \in T : Fresh(s) => s \in E
  BY <1>2
<1>8. \A d \in D : /\ d.rev \in Nat /\ d.gen \in Nat /\ d.pub \in Nat
                  /\ d.gen <= now /\ d.pub <= announced
  BY DEF Ledger, Sent, Counters
<1>9. \A d \in D : d.gen = now' =>
       /\ d.rev <= revision' - base'
       /\ d.rev = revision' - base' => d.pub = announced'
  <2> SUFFICES ASSUME NEW d \in D, d.gen = now'
               PROVE  /\ d.rev <= revision' - base'
                      /\ d.rev = revision' - base' => d.pub = announced'
    OBVIOUS
  <2>1. now' = now /\ base' = base /\ now \in Nat
    BY <1>8 DEF Onward, Counters
  <2>2. /\ d.rev <= revision - base
        /\ d.rev = revision - base => d.pub = announced
    BY <2>1 DEF Ledger
  <2>3. revision' >= revision /\ (revision' = revision => announced' = announced)
    BY <2>1 DEF Onward
  <2>4. base \in Int /\ d.rev \in Nat
    BY <1>8 DEF Counters
  <2> QED
    BY <2>1, <2>2, <2>3, <2>4
<1>10. \A s \in E : s.gen = now' =>
       /\ s.rev <= revision' - base'
       /\ s.rev = revision' - base' => s.pub = announced'
  <2> SUFFICES ASSUME NEW s \in E, s.gen = now'
               PROVE  /\ s.rev <= revision' - base'
                      /\ s.rev = revision' - base' => s.pub = announced'
    OBVIOUS
  <2>1. CASE Old(s)
    BY <1>9, <2>1
  <2>2. CASE Fresh(s)
    <3>1. base' \in Int /\ revision' - base' \in Int
      BY DEF Counters
    <3>2. s.rev = revision' - base' /\ s.pub = announced'
      BY <2>2
    <3>3. \A x \in Int : x <= x
      OBVIOUS
    <3>4. s.rev <= revision' - base'
      BY <3>1, <3>2, <3>3
    <3> QED
      BY <3>2, <3>4
  <2> QED
    BY <1>2, <2>1, <2>2
<1>11. ASSUME NEW s \in E, NEW t \in E, NotAfter(s, t) PROVE s.pub <= t.pub
  <2>1. now' \in Nat /\ now \in Nat /\ now' >= now /\ announced' >= announced
        /\ announced \in Nat /\ announced' \in Nat /\ base' \in Int
    BY DEF Counters, Onward
  <2>2. CASE Old(s) /\ Old(t)
    <3>1. PICK d \in D : s.rev = d.rev /\ s.gen = d.gen /\ s.pub = d.pub
      BY <2>2
    <3>2. PICK e \in D : t.rev = e.rev /\ t.gen = e.gen /\ t.pub = e.pub
      BY <2>2
    <3>3. NotAfter(d, e)
      BY <1>11, <3>1, <3>2 DEF NotAfter
    <3> QED
      BY <3>1, <3>2, <3>3 DEF Ledger
  <2>3. CASE Old(s) /\ Fresh(t)
    <3>1. PICK d \in D : s.rev = d.rev /\ s.gen = d.gen /\ s.pub = d.pub
      BY <2>3
    <3> QED
      BY <1>8, <2>1, <2>3, <3>1
  <2>4. CASE Fresh(s) /\ Old(t)
    <3>1. PICK d \in D : t.rev = d.rev /\ t.gen = d.gen /\ t.pub = d.pub
      BY <2>4
    <3>2. ~(s.gen < t.gen)
      BY <1>8, <2>1, <2>4, <3>1
    <3>3. d.gen = now' /\ revision' - base' <= d.rev
      BY <1>11, <2>4, <3>1, <3>2 DEF NotAfter
    <3>4. d.rev = revision' - base'
      BY <1>8, <1>9, <2>1, <3>3
    <3>5. d.pub = announced'
      BY <1>9, <3>3, <3>4
    <3> QED
      BY <2>1, <2>4, <3>1, <3>5
  <2>5. CASE Fresh(s) /\ Fresh(t)
    BY <2>1, <2>5
  <2> QED
    BY <1>2, <2>2, <2>3, <2>4, <2>5
<1>12. Ledger(E)'
  <2>1. E \subseteq T
    BY <1>2
  <2> QED
    BY <1>t, <1>6, <1>7, <1>10, <1>11, <2>1 DEF Ledger, Current
<1> QED
  BY <1>4, <1>5, <1>12

LEMMA NoStatusIsUnsent ==
  ASSUME NEW D, Ledger(D) PROVE NoStatus \notin D /\ End \notin D
<1>1. \A d \in D : d.rev >= 0
  BY DEF Ledger, Sent
<1>2. NoStatus.rev = -1 /\ End.rev = -2
  BY DEF NoStatus, End, NoRevision
<1> QED
  BY <1>1, <1>2

(* What is read of the server now is in the ledger.                         *)
LEMMA CurrentIsSent ==
  ASSUME revision \in Nat, Counters, NEW D, Ledger(D), NEW c \in 0..content
  PROVE  [rev |-> revision - base, gen |-> now, pub |-> announced, content |-> c] \in D
<1>1. PICK s : s = [rev |-> revision - base, gen |-> now, pub |-> announced, content |-> c]
  OBVIOUS
<1>2. revision - base \in 0..revision /\ now \in 1..now /\ announced \in 0..announced
  BY DEF Counters
<1>3. s \in Sent
  BY <1>1, <1>2 DEF Sent
<1>4. Current(s)
  BY <1>1 DEF Current
<1> QED
  BY <1>1, <1>3, <1>4 DEF Ledger

(* Whatever is on its way or shown has been sent. *)
Held(D) ==
  /\ payload \in [Publishers \cup Subscribers -> D \cup {NoStatus}]
  /\ reading \in [Readers -> D \cup {NoStatus}]
  /\ link \in [Browsers -> Seq(D \cup {End})]
  /\ poll \in [Browsers -> D \cup {NoStatus}]
  /\ shown \in [Browsers -> D \cup {NoStatus}]

(* A response goes with every broadcast, a status with every revision in a  *)
(* channel.                                                                 *)
Orderly ==
  /\ \A p \in Publishers : payload[p] = NoStatus <=> job[p] = Idle
  /\ \A b \in Subscribers : payload[b] = NoStatus <=> ch[b] = <<>>

LEMMA WrittenType ==
  ASSUME NEW D, NEW E, D \subseteq E, link \in [Browsers -> Seq(D \cup {End})],
         NEW b, NEW s \in E \cup {End}, Written(b, s)
  PROVE  link' \in [Browsers -> Seq(E \cup {End})]
<1>1. link \in [Browsers -> Seq(E \cup {End})]
  <2>1. ASSUME NEW q \in Seq(D \cup {End}) PROVE q \in Seq(E \cup {End})
    BY <2>1
  <2> QED
    BY <2>1
<1>2. CASE serves[b] \in Browsers
  <2>1. PICK n \in Browsers : n = serves[b]
    BY <1>2
  <2>2. link' = [link EXCEPT ![n] = Append(link[n], s)]
    BY <1>2, <2>1 DEF Written
  <2>3. Append(link[n], s) \in Seq(E \cup {End})
    BY <1>1
  <2> QED
    BY <1>1, <2>2, <2>3
<1>3. CASE serves[b] \notin Browsers
  BY <1>1, <1>3 DEF Written
<1> QED
  BY <1>2, <1>3

LEMMA AcceptType ==
  ASSUME NEW E, shown \in [Browsers -> E \cup {NoStatus}],
         NEW n \in Browsers, NEW s \in E, AcceptStatus(n, s)
  PROVE  shown' \in [Browsers -> E \cup {NoStatus}]
<1>1. CASE Accepts(n, s)
  BY <1>1 DEF AcceptStatus
<1>2. CASE ~Accepts(n, s)
  BY <1>2 DEF AcceptStatus
<1> QED
  BY <1>1, <1>2

LEMMA HeldStep ==
  ASSUME revision \in Nat, revision' \in Nat, ServerTyped, ServerTyped', Onward, Orderly,
         NEW D, NEW E, Ledger(D), Ledger(E)', D \subseteq E, Held(D),
         \A s \in D, c \in 0..content' : [s EXCEPT !.content = c] \in E,
         [StreamNext]_allVars
  PROVE  Held(E)'
<1>1. Counters /\ Counters' /\ Pruned \in Nat /\ content \in Nat /\ content' \in Nat
  BY PrunedType DEF ServerTyped, Counters
<1>2. NoStatus \notin D /\ End \notin D
  BY NoStatusIsUnsent
<1>3. ASSUME NEW c \in 0..content'
      PROVE  [rev |-> revision' - base', gen |-> now', pub |-> announced', content |-> c] \in E
  <2>1. PICK s : s = [rev |-> revision' - base', gen |-> now', pub |-> announced',
                      content |-> c]
    OBVIOUS
  <2>2. /\ revision' - base' \in 0..revision' /\ now' \in 1..now'
        /\ announced' \in 0..announced'
    BY <1>1 DEF Counters
  <2>3. s \in Sent'
    BY <2>1, <2>2 DEF Sent
  <2>4. Current(s)'
    BY <2>1 DEF Current
  <2> QED
    BY <2>1, <2>3, <2>4 DEF Ledger
<1>4. ASSUME NEW r \in Readers, FinishReading(r) PROVE WasRead(r) \in E
  <2>1. PICK d \in D : d = reading[r]
    BY <1>4 DEF FinishReading, Held
  <2>2. content' = Pruned /\ Pruned \in 0..content'
    BY <1>1, <1>4 DEF FinishReading, ReadTracker
  <2>3. d \in Sent
    BY DEF Ledger
  <2>4. [d EXCEPT !.content = Pruned] = Status(d.rev, d.gen, d.pub)
    BY <2>3 DEF Sent, Status
  <2>5. [d EXCEPT !.content = Pruned] \in E
    BY <2>2
  <2> QED
    BY <2>1, <2>4, <2>5 DEF WasRead
<1>5. ASSUME NEW r \in Readers, StartReading(r),
             UNCHANGED <<revision, base, now, announced, content>>
      PROVE  reading' \in [Readers -> E \cup {NoStatus}]
  <2>1. PICK s : s = [StatusNow EXCEPT !.content = 0]
    OBVIOUS
  <2>2. s = [rev |-> revision' - base', gen |-> now', pub |-> announced', content |-> 0]
    BY <1>5, <2>1 DEF StatusNow, Status
  <2>3. s \in E
    BY <1>1, <1>3, <2>2
  <2>4. reading' = [reading EXCEPT ![r] = s]
    BY <1>5, <2>1 DEF StartReading
  <2> QED
    BY <2>3, <2>4 DEF Held
<1>6. UNCHANGED payload => payload' \in [Publishers \cup Subscribers -> E \cup {NoStatus}]
  BY DEF Held
<1>7. UNCHANGED reading => reading' \in [Readers -> E \cup {NoStatus}]
  BY DEF Held
<1>8. UNCHANGED link => link' \in [Browsers -> Seq(E \cup {End})]
  <2>1. ASSUME NEW q \in Seq(D \cup {End}) PROVE q \in Seq(E \cup {End})
    BY <2>1
  <2> QED
    BY <2>1 DEF Held
<1>9. UNCHANGED poll => poll' \in [Browsers -> E \cup {NoStatus}]
  BY DEF Held
<1>10. shown \in [Browsers -> E \cup {NoStatus}]
  BY DEF Held
<1>11. UNCHANGED <<reading, link, poll, shown>>
       /\ payload' \in [Publishers \cup Subscribers -> E \cup {NoStatus}] => Held(E)'
  BY <1>7, <1>8, <1>9, <1>10 DEF Held
<1>12. UNCHANGED <<payload, link, poll, shown>>
       /\ reading' \in [Readers -> E \cup {NoStatus}] => Held(E)'
  BY <1>6, <1>8, <1>9, <1>10 DEF Held
<1>13. UNCHANGED <<payload, poll, shown>>
       /\ reading' \in [Readers -> E \cup {NoStatus}]
       /\ link' \in [Browsers -> Seq(E \cup {End})] => Held(E)'
  BY <1>6, <1>9, <1>10 DEF Held
<1>14. UNCHANGED <<payload, reading, link>>
       /\ poll' \in [Browsers -> E \cup {NoStatus}]
       /\ shown' \in [Browsers -> E \cup {NoStatus}] => Held(E)'
  BY <1>6, <1>7, <1>8 DEF Held
<1>15. UNCHANGED <<payload, reading, link, poll, shown>> => Held(E)'
  BY <1>7, <1>12
<1>16. ASSUME NEW p \in Publishers, ApplyEvent(p) PROVE Held(E)'
  BY <1>15, <1>16 DEF ApplyEvent, streamVars, browserVars
<1>17. ASSUME NEW p \in Publishers, Refresh(p) PROVE Held(E)'
  <2>1. PICK s : s = Status(revision + 1 - base, now, Pruned)
    OBVIOUS
  <2>2. s = [rev |-> revision' - base', gen |-> now', pub |-> announced', content |-> content']
    <3>1. /\ revision' = revision + 1 /\ base' = base /\ now' = now
          /\ announced' = Pruned /\ content' = Pruned
      BY <1>17 DEF Refresh, Publish, ReadTracker
    <3>2. revision' - base' = revision + 1 - base
      <4>1. base \in Int
        BY <1>1 DEF Counters
      <4> QED
        BY <3>1, <4>1
    <3>3. s = [rev |-> revision + 1 - base, gen |-> now, pub |-> Pruned, content |-> Pruned]
      BY <2>1 DEF Status
    <3> QED
      BY <3>1, <3>2, <3>3
  <2>3. s \in E
    BY <1>1, <1>3, <2>2
  <2>4. payload' = [payload EXCEPT ![p] = s]
    BY <1>17, <2>1 DEF Refresh
  <2>5. payload' \in [Publishers \cup Subscribers -> E \cup {NoStatus}]
    BY <2>3, <2>4 DEF Held
  <2> QED
    BY <1>11, <1>17, <2>5 DEF Refresh, browserVars
<1>18. ASSUME NEW p \in Publishers, BroadcastStep(p) PROVE Held(E)'
  <2>1. \A x \in Publishers \cup Subscribers : payload[x] \in E \cup {NoStatus}
    BY DEF Held
  <2>2. payload' \in [Publishers \cup Subscribers -> E \cup {NoStatus}]
    BY <1>18, <2>1 DEF BroadcastStep
  <2> QED
    BY <1>11, <1>18, <2>2 DEF BroadcastStep, browserVars
<1>19. CASE LeaseRunsOut \/ Expire \/ Tick
  BY <1>15, <1>19 DEF LeaseRunsOut, Expire, Tick, streamVars, browserVars
<1>20. CASE Restart
  <2>1. reading' \in [Readers -> E \cup {NoStatus}]
    BY <1>20 DEF Restart
  <2> QED
    BY <1>12, <1>20, <2>1 DEF Restart, browserVars
<1>21. ASSUME NEW b \in Subscribers, Forward(b) PROVE Held(E)'
  <2>1. payload[b] \in E
    BY <1>21 DEF Forward, Receive, Orderly, Held
  <2>2. link' \in [Browsers -> Seq(E \cup {End})]
    BY <1>21, <2>1, WrittenType DEF Forward, Held
  <2>3. payload' \in [Publishers \cup Subscribers -> E \cup {NoStatus}]
    BY <1>21 DEF Forward, Held
  <2>4. UNCHANGED <<reading, poll, shown>>
    BY <1>21 DEF Forward, browserVars
  <2> QED
    BY <1>7, <1>9, <1>10, <2>2, <2>3, <2>4 DEF Held
<1>22. ASSUME NEW b \in Subscribers, KeepAlive(b) PROVE Held(E)'
  BY <1>5, <1>12, <1>22 DEF KeepAlive, serverVars, browserVars, vars, Readers
<1>23. ASSUME NEW b \in Subscribers, KeepAliveWritten(b) PROVE Held(E)'
  <2>1. WasRead(b) \in E
    BY <1>4, <1>23 DEF KeepAliveWritten, Readers
  <2>2. link' \in [Browsers -> Seq(E \cup {End})]
    BY <1>23, <2>1, WrittenType DEF KeepAliveWritten, Held
  <2>3. reading' \in [Readers -> E \cup {NoStatus}]
    BY <1>23 DEF KeepAliveWritten, FinishReading, Held
  <2> QED
    BY <1>13, <1>23, <2>2, <2>3 DEF KeepAliveWritten, browserVars
<1>24. ASSUME NEW b \in Subscribers, HandlerReturns(b) PROVE Held(E)'
  <2>1. link' \in [Browsers -> Seq(E \cup {End})]
    BY <1>24, WrittenType DEF HandlerReturns, Held
  <2> QED
    BY <1>7, <1>13, <1>24, <2>1 DEF HandlerReturns, browserVars
<1>25. ASSUME NEW b \in Subscribers, NEW n, Serve(n, b) PROVE Held(E)'
  <2>1. StatusNow = [rev |-> revision' - base', gen |-> now', pub |-> announced',
                     content |-> content']
    BY <1>25 DEF Serve, Subscribe, ReadTracker, StatusNow, Status
  <2>2. StatusNow \in E
    BY <1>1, <1>3, <2>1
  <2>3. payload' \in [Publishers \cup Subscribers -> E \cup {NoStatus}]
    BY <1>25, <2>2 DEF Serve, Held
  <2> QED
    BY <1>11, <1>25, <2>3 DEF Serve, browserVars
<1>26. ASSUME NEW n \in Browsers, Refused(n) \/ OpenEvent(n) PROVE Held(E)'
  BY <1>15, <1>26 DEF Refused, OpenEvent, streamVars
<1>27. ASSUME NEW n \in Browsers, ConnectionLost(n) \/ ErrorEvent(n) PROVE Held(E)'
  <2>1. link' = [link EXCEPT ![n] = <<>>]
    BY <1>27 DEF ConnectionLost, ErrorEvent
  <2>2. ASSUME NEW q \in Seq(D \cup {End}) PROVE q \in Seq(E \cup {End})
    BY <2>2
  <2>3. link' \in [Browsers -> Seq(E \cup {End})]
    BY <2>1, <2>2 DEF Held
  <2> QED
    BY <1>7, <1>13, <1>27, <2>3 DEF ConnectionLost, ErrorEvent
<1>28. ASSUME NEW n \in Browsers, SnapshotEvent(n) PROVE Held(E)'
  <2>1. link[n] \in Seq(D \cup {End}) /\ link[n] # <<>> /\ Head(link[n]) # End
    BY <1>28 DEF SnapshotEvent, Held
  <2>2. Head(link[n]) \in D /\ Tail(link[n]) \in Seq(D \cup {End})
    BY <2>1
  <2>3. shown' \in [Browsers -> E \cup {NoStatus}]
    BY <1>10, <1>28, <2>2, AcceptType DEF SnapshotEvent
  <2>4. ASSUME NEW q \in Seq(D \cup {End}) PROVE q \in Seq(E \cup {End})
    BY <2>4
  <2>5. link' \in [Browsers -> Seq(E \cup {End})]
    BY <1>28, <2>2, <2>4 DEF SnapshotEvent, Held
  <2>6. UNCHANGED <<payload, reading, poll>>
    BY <1>28 DEF SnapshotEvent
  <2> QED
    BY <1>6, <1>7, <1>9, <2>3, <2>5, <2>6 DEF Held
<1>29. ASSUME NEW n \in Browsers, FetchStatus(n) PROVE Held(E)'
  BY <1>5, <1>12, <1>29 DEF FetchStatus, serverVars, browserVars, vars, Readers
<1>30. ASSUME NEW n \in Browsers, StatusAnswered(n) PROVE Held(E)'
  <2>1. WasRead(n) \in E
    BY <1>4, <1>30 DEF StatusAnswered, Readers
  <2>2. poll' \in [Browsers -> E \cup {NoStatus}]
    BY <1>30, <2>1 DEF StatusAnswered, Held
  <2>3. reading' \in [Readers -> E \cup {NoStatus}]
    BY <1>30 DEF StatusAnswered, FinishReading, Held
  <2>4. UNCHANGED <<payload, link, shown>>
    BY <1>30 DEF StatusAnswered
  <2> QED
    BY <1>6, <1>8, <1>10, <2>2, <2>3, <2>4 DEF Held
<1>31. ASSUME NEW n \in Browsers, StatusFetched(n) PROVE Held(E)'
  <2>1. poll[n] \in E
    BY <1>31 DEF StatusFetched, Held
  <2>2. shown' \in [Browsers -> E \cup {NoStatus}]
    BY <1>10, <1>31, <2>1, AcceptType DEF StatusFetched
  <2>3. poll' \in [Browsers -> E \cup {NoStatus}]
    BY <1>31 DEF StatusFetched, Held
  <2> QED
    BY <1>14, <1>31, <2>2, <2>3 DEF StatusFetched, streamVars
<1>32. ASSUME NEW n \in Browsers, FetchFails(n) PROVE Held(E)'
  <2>1. poll' \in [Browsers -> E \cup {NoStatus}]
    BY <1>32 DEF FetchFails, Held
  <2> QED
    BY <1>10, <1>14, <1>32, <2>1 DEF FetchFails, streamVars
<1>33. CASE UNCHANGED allVars
  BY <1>15, <1>33 DEF allVars, streamVars, browserVars
<1> QED
  BY <1>16, <1>17, <1>18, <1>19, <1>20, <1>21, <1>22, <1>23, <1>24, <1>25, <1>26, <1>27,
     <1>28, <1>29, <1>30, <1>31, <1>32, <1>33 DEF StreamNext, Connect

LEMMA OrderlyStep ==
  ASSUME IInv, ServerTyped, Orderly, NEW D, Ledger(D), Held(D), [StreamNext]_allVars
  PROVE  Orderly'
<1>1. revision \in Nat /\ Counters /\ OnePlace
  BY DEF IInv, Typed, ServerTyped
<1>2. NoStatus.rev = -1
  BY DEF NoStatus, NoRevision
<1>3. /\ payload \in [Publishers \cup Subscribers -> D \cup {NoStatus}]
      /\ ch \in [Subscribers -> Seq(Nat)] /\ job \in [Publishers -> Job]
  BY DEF Held, IInv, Typed
<1>4. Publishers \cap Subscribers = {}
  BY StreamAssumption
<1>5. CASE UNCHANGED <<payload, ch, job>>
  BY <1>5 DEF Orderly
<1>6. ASSUME NEW p \in Publishers, Refresh(p) PROVE Orderly'
  <2>1. PICK s : s = Status(revision + 1 - base, now, Pruned)
    OBVIOUS
  <2>2. s.rev = revision + 1 - base
    BY <2>1 DEF Status
  <2>3. s # NoStatus
    BY <1>1, <1>2, <2>2 DEF Counters
  <2>4. payload' = [payload EXCEPT ![p] = s] /\ ch' = ch
    BY <1>6, <2>1 DEF Refresh, Publish
  <2>5. job'[p].pc = "range" /\ \A q \in Publishers \ {p} : job'[q] = job[q]
    BY <1>3, <1>6 DEF Refresh, Publish
  <2>6. job'[p] # Idle
    BY <2>5 DEF Idle
  <2>7. ASSUME NEW q \in Publishers PROVE payload'[q] = NoStatus <=> job'[q] = Idle
    BY <1>3, <2>3, <2>4, <2>5, <2>6 DEF Orderly
  <2>8. ASSUME NEW b \in Subscribers PROVE payload'[b] = NoStatus <=> ch'[b] = <<>>
    BY <1>3, <1>4, <2>4 DEF Orderly
  <2> QED
    BY <2>7, <2>8 DEF Orderly
<1>7. ASSUME NEW p \in Publishers, BroadcastStep(p) PROVE Orderly'
  <2>1. job[p] # Idle
    <3>1. job[p].pc # "idle"
      BY <1>7 DEF BroadcastStep, Broadcasts, NextChannel, Send, Drain, Resend, Unlock
    <3> QED
      BY <3>1 DEF Idle
  <2>2. payload[p] # NoStatus
    BY <2>1 DEF Orderly
  <2>3. ASSUME NEW q \in Publishers \ {p} PROVE job'[q] = job[q]
    BY <1>3, <1>7, <2>3
       DEF BroadcastStep, Broadcasts, NextChannel, Send, Drain, Resend, Unlock, TrySend
  <2>4. ASSUME NEW q \in Publishers PROVE payload'[q] = NoStatus <=> job'[q] = Idle
    <3>1. payload'[q] = IF job'[q] = Idle THEN NoStatus ELSE payload[q]
      BY <1>4, <1>7 DEF BroadcastStep
    <3> QED
      BY <2>1, <2>3, <3>1 DEF Orderly
  <2>5. ASSUME NEW b \in Subscribers PROVE payload'[b] = NoStatus <=> ch'[b] = <<>>
    <3>1. payload'[b] = IF ch'[b] = <<>> THEN NoStatus
                        ELSE IF ch'[b] = ch[b] THEN payload[b] ELSE payload[p]
      BY <1>7 DEF BroadcastStep
    <3> QED
      BY <2>2, <3>1 DEF Orderly
  <2> QED
    BY <2>4, <2>5 DEF Orderly
<1>8. ASSUME NEW b \in Subscribers, NEW n, Serve(n, b) PROVE Orderly'
  <2>1. StatusNow.rev = revision - base
    BY DEF StatusNow, Status
  <2>2. StatusNow # NoStatus
    BY <1>1, <1>2, <2>1 DEF Counters
  <2>3. /\ payload' = [payload EXCEPT ![b] = StatusNow]
        /\ ch' = [ch EXCEPT ![b] = <<revision>>] /\ job' = job
    BY <1>8 DEF Serve, Subscribe
  <2>4. <<revision>> # <<>>
    OBVIOUS
  <2>5. ASSUME NEW q \in Publishers PROVE payload'[q] = NoStatus <=> job'[q] = Idle
    BY <1>3, <1>4, <2>3 DEF Orderly
  <2>6. ASSUME NEW c \in Subscribers PROVE payload'[c] = NoStatus <=> ch'[c] = <<>>
    BY <1>3, <2>2, <2>3, <2>4 DEF Orderly
  <2> QED
    BY <2>5, <2>6 DEF Orderly
<1>9. ASSUME NEW b \in Subscribers, Forward(b) PROVE Orderly'
  <2>1. ch[b] \in Seq(Nat) /\ ch[b] # <<>> /\ Len(ch[b]) <= 1
    BY <1>1, <1>3, <1>9 DEF Forward, Receive, OnePlace
  <2>2. Tail(ch[b]) = <<>>
    BY <2>1
  <2>3. /\ payload' = [payload EXCEPT ![b] = NoStatus]
        /\ ch' = [ch EXCEPT ![b] = <<>>] /\ job' = job
    BY <1>9, <2>2 DEF Forward, Receive
  <2>4. ASSUME NEW q \in Publishers PROVE payload'[q] = NoStatus <=> job'[q] = Idle
    BY <1>3, <1>4, <2>3 DEF Orderly
  <2>5. ASSUME NEW c \in Subscribers PROVE payload'[c] = NoStatus <=> ch'[c] = <<>>
    BY <1>3, <2>3 DEF Orderly
  <2> QED
    BY <2>4, <2>5 DEF Orderly
<1>10. ASSUME NEW b \in Subscribers, KeepAlive(b) \/ KeepAliveWritten(b) \/ HandlerReturns(b)
       PROVE  Orderly'
  BY <1>5, <1>10 DEF KeepAlive, KeepAliveWritten, HandlerReturns, Cancel, vars
<1>11. ASSUME NEW p \in Publishers, ApplyEvent(p) PROVE Orderly'
  BY <1>5, <1>11 DEF ApplyEvent, vars, streamVars
<1>12. CASE LeaseRunsOut \/ Expire \/ Restart \/ Tick \/ UNCHANGED allVars
  BY <1>5, <1>12 DEF LeaseRunsOut, Expire, Restart, Tick, allVars, vars, streamVars
<1>13. ASSUME NEW n \in Browsers,
              \/ Refused(n) \/ ConnectionLost(n)
              \/ OpenEvent(n) \/ SnapshotEvent(n) \/ ErrorEvent(n)
              \/ FetchStatus(n) \/ StatusAnswered(n) \/ StatusFetched(n) \/ FetchFails(n)
       PROVE  Orderly'
  BY <1>5, <1>13 DEF Refused, ConnectionLost, OpenEvent, SnapshotEvent, ErrorEvent,
     FetchStatus, StatusAnswered, StatusFetched, FetchFails, vars, streamVars
<1> QED
  BY <1>6, <1>7, <1>8, <1>9, <1>10, <1>11, <1>12, <1>13 DEF StreamNext, Connect

(* While its stream is open a browser compares with the revision it shows.  *)
Shows ==
  /\ latest \in [Browsers -> Int]
  /\ \A n \in Browsers :
       latest[n] = NoRevision \/ (shown[n] # NoStatus /\ latest[n] = shown[n].rev)

LEMMA ShowsAccepted ==
  ASSUME Shows, NEW D, Ledger(D), Held(D), NEW n \in Browsers, NEW s \in D,
         AcceptStatus(n, s)
  PROVE  Shows'
<1>1. s.rev \in Int /\ s # NoStatus
  BY NoStatusIsUnsent DEF Ledger, Sent
<1>2. CASE Accepts(n, s)
  <2>1. /\ latest' = [latest EXCEPT ![n] = s.rev] /\ shown' = [shown EXCEPT ![n] = s]
        /\ latest \in [Browsers -> Int] /\ shown \in [Browsers -> D \cup {NoStatus}]
    BY <1>2 DEF AcceptStatus, Shows, Held
  <2>2. latest' \in [Browsers -> Int]
    BY <1>1, <2>1
  <2>3. ASSUME NEW m \in Browsers
        PROVE  latest'[m] = NoRevision \/ (shown'[m] # NoStatus /\ latest'[m] = shown'[m].rev)
    <3>1. CASE m = n
      BY <1>1, <2>1, <3>1
    <3>2. CASE m # n
      BY <2>1, <3>2 DEF Shows
    <3> QED
      BY <3>1, <3>2
  <2> QED
    BY <2>2, <2>3 DEF Shows
<1>3. CASE ~Accepts(n, s)
  BY <1>3 DEF AcceptStatus, Shows
<1> QED
  BY <1>2, <1>3

LEMMA ShowsStep ==
  ASSUME Shows, NEW D, Ledger(D), Held(D), [StreamNext]_allVars PROVE Shows'
<1>1. CASE UNCHANGED <<latest, shown>>
  BY <1>1 DEF Shows
<1>2. ASSUME NEW n \in Browsers, OpenEvent(n) PROVE Shows'
  <2>1. latest' = [latest EXCEPT ![n] = NoRevision] /\ shown' = shown
    BY <1>2 DEF OpenEvent
  <2>2. NoRevision \in Int
    BY DEF NoRevision
  <2> QED
    BY <2>1, <2>2 DEF Shows
<1>3. ASSUME NEW n \in Browsers, SnapshotEvent(n) PROVE Shows'
  <2>1. link[n] \in Seq(D \cup {End}) /\ link[n] # <<>> /\ Head(link[n]) # End
    BY <1>3 DEF SnapshotEvent, Held
  <2>2. Head(link[n]) \in D
    BY <2>1
  <2> QED
    BY <1>3, <2>2, ShowsAccepted DEF SnapshotEvent
<1>4. ASSUME NEW n \in Browsers, StatusFetched(n) PROVE Shows'
  <2>1. poll[n] \in D
    BY <1>4 DEF StatusFetched, Held
  <2> QED
    BY <1>4, <2>1, ShowsAccepted DEF StatusFetched
<1>5. ASSUME NEW p \in Publishers, ApplyEvent(p) \/ Refresh(p) \/ BroadcastStep(p)
      PROVE  Shows'
  BY <1>1, <1>5 DEF ApplyEvent, Refresh, BroadcastStep, browserVars
<1>6. CASE LeaseRunsOut \/ Expire \/ Restart \/ Tick \/ UNCHANGED allVars
  BY <1>1, <1>6 DEF LeaseRunsOut, Expire, Restart, Tick, allVars, browserVars
<1>7. ASSUME NEW b \in Subscribers,
             Forward(b) \/ KeepAlive(b) \/ KeepAliveWritten(b) \/ HandlerReturns(b)
      PROVE  Shows'
  BY <1>1, <1>7 DEF Forward, KeepAlive, KeepAliveWritten, HandlerReturns, browserVars
<1>8. ASSUME NEW b \in Subscribers, NEW n, Serve(n, b) PROVE Shows'
  BY <1>1, <1>8 DEF Serve, browserVars
<1>9. ASSUME NEW n \in Browsers,
             \/ Refused(n) \/ ConnectionLost(n) \/ ErrorEvent(n)
             \/ FetchStatus(n) \/ StatusAnswered(n) \/ FetchFails(n)
      PROVE  Shows'
  BY <1>1, <1>9 DEF Refused, ConnectionLost, ErrorEvent, FetchStatus, StatusAnswered,
     FetchFails, browserVars
<1> QED
  BY <1>2, <1>3, <1>4, <1>5, <1>6, <1>7, <1>8, <1>9 DEF StreamNext, Connect

(* A connection has one handler, which writes only while there is room.     *)
Handlers ==
  /\ load \in Loads
  /\ serves \in [Subscribers -> Browsers \cup {NoOne, Gone, Other}]
  /\ stream \in [Browsers -> {"connecting", "open", "failed"}]
  /\ \A b \in Subscribers : b \in subs <=> serves[b] # NoOne
  /\ \A b, c \in Subscribers : serves[b] \in Browsers /\ serves[b] = serves[c] => b = c

Room ==
  /\ \A n \in Browsers : Len(link[n]) <= LinkRoom + 1
  /\ \A b \in Subscribers, n \in Browsers : serves[b] = n =>
       /\ Len(link[n]) <= LinkRoom
       /\ reading[b] # NoStatus => Len(link[n]) < LinkRoom

LEMMA HandlersStep == Handlers /\ [StreamNext]_allVars => Handlers'
<1> SUFFICES ASSUME Handlers, [StreamNext]_allVars PROVE Handlers'
  OBVIOUS
<1>1. NoOne \notin Browsers /\ NoOne # Gone /\ NoOne # Other /\ Gone \notin Browsers
      /\ Other \notin Browsers
  BY StreamAssumption
<1>2. CASE UNCHANGED <<load, serves, stream, subs>>
  BY <1>2 DEF Handlers
<1>3. ASSUME NEW p \in Publishers, ApplyEvent(p) \/ Refresh(p) \/ BroadcastStep(p)
      PROVE  Handlers'
  BY <1>2, <1>3 DEF ApplyEvent, Refresh, Publish, BroadcastStep, Broadcasts, NextChannel,
     Send, Drain, Resend, Unlock, vars, serverVars, streamVars, browserVars
<1>4. CASE LeaseRunsOut \/ Expire \/ Restart \/ Tick \/ UNCHANGED allVars
  BY <1>2, <1>4 DEF LeaseRunsOut, Expire, Restart, Tick, allVars, vars, serverVars,
     streamVars, browserVars
<1>5. ASSUME NEW b \in Subscribers, Forward(b) \/ KeepAlive(b) \/ KeepAliveWritten(b)
      PROVE  Handlers'
  BY <1>2, <1>5 DEF Forward, Receive, KeepAlive, KeepAliveWritten, vars, serverVars, browserVars
<1>6. ASSUME NEW b \in Subscribers, HandlerReturns(b) PROVE Handlers'
  <2>1. /\ serves' = [serves EXCEPT ![b] = NoOne] /\ subs' = subs \ {b}
        /\ load' = load /\ stream' = stream
    BY <1>6 DEF HandlerReturns, Cancel, serverVars, browserVars
  <2> QED
    BY <1>1, <2>1 DEF Handlers
<1>7. ASSUME NEW b \in Subscribers, NEW n \in Browsers \cup {Other}, Serve(n, b),
             n \in Browsers => Streaming(n) = {}
      PROVE  Handlers'
  <2>1. /\ serves' = [serves EXCEPT ![b] = n] /\ subs' = subs \cup {b}
        /\ load' = load /\ stream' = stream
    BY <1>7 DEF Serve, Subscribe, browserVars
  <2>2. ASSUME NEW c \in Subscribers PROVE n \in Browsers => serves[c] # n
    BY <1>7 DEF Streaming
  <2>3. ASSUME NEW c \in Subscribers, NEW d \in Subscribers,
               serves'[c] \in Browsers, serves'[c] = serves'[d]
        PROVE  c = d
    <3>1. CASE c = b \/ d = b
      BY <2>1, <2>2, <2>3, <3>1 DEF Handlers
    <3>2. CASE c # b /\ d # b
      BY <2>1, <2>3, <3>2 DEF Handlers
    <3> QED
      BY <3>1, <3>2
  <2>4. ASSUME NEW c \in Subscribers PROVE c \in subs' <=> serves'[c] # NoOne
    BY <1>1, <2>1 DEF Handlers
  <2> QED
    BY <2>1, <2>3, <2>4 DEF Handlers
<1>8. ASSUME NEW n \in Browsers, Refused(n) \/ OpenEvent(n) \/ ErrorEvent(n)
      PROVE  Handlers'
  <2>1. UNCHANGED <<load, serves, subs>>
    BY <1>8 DEF Refused, OpenEvent, ErrorEvent, vars, serverVars, streamVars
  <2>2. stream' \in [Browsers -> {"connecting", "open", "failed"}]
    BY <1>8 DEF Refused, OpenEvent, ErrorEvent, Handlers
  <2> QED
    BY <2>1, <2>2 DEF Handlers
<1>9. ASSUME NEW n \in Browsers, ConnectionLost(n) PROVE Handlers'
  <2>1. /\ serves' = [b \in Subscribers |-> IF serves[b] = n THEN Gone ELSE serves[b]]
        /\ stream' = [stream EXCEPT ![n] = "connecting"]
        /\ load' = load /\ subs' = subs
    BY <1>9 DEF ConnectionLost, vars, serverVars
  <2>2. \A b \in Subscribers : serves'[b] # NoOne <=> serves[b] # NoOne
    BY <1>1, <2>1
  <2>3. \A b \in Subscribers : serves'[b] \in Browsers => serves'[b] = serves[b]
    BY <1>1, <2>1
  <2> QED
    BY <2>1, <2>2, <2>3 DEF Handlers
<1>10. ASSUME NEW n \in Browsers,
              \/ SnapshotEvent(n) \/ FetchStatus(n) \/ StatusAnswered(n)
              \/ StatusFetched(n) \/ FetchFails(n)
       PROVE  Handlers'
  BY <1>2, <1>10 DEF SnapshotEvent, FetchStatus, StatusAnswered, StatusFetched, FetchFails,
     vars, serverVars, streamVars, browserVars
<1> QED
  BY <1>1, <1>3, <1>4, <1>5, <1>6, <1>7, <1>8, <1>9, <1>10
     DEF StreamNext, Connect, Reconnecting

LEMMA LinkWritten ==
  ASSUME Handlers, Room, NEW D, link \in [Browsers -> Seq(D)],
         NEW b \in Subscribers, serves[b] # NoOne, NEW s, Written(b, s),
         serves[b] \in Browsers => Len(link[serves[b]]) < LinkRoom
  PROVE  /\ \A n \in Browsers : Len(link'[n]) <= LinkRoom + 1
         /\ \A n \in Browsers : n # serves[b] => link'[n] = link[n]
         /\ \A n \in Browsers : n = serves[b] => Len(link'[n]) <= LinkRoom
<1>1. CASE serves[b] \in Browsers
  <2>1. PICK m \in Browsers : m = serves[b]
    BY <1>1
  <2>2. link' = [link EXCEPT ![m] = Append(link[m], s)]
    BY <1>1, <2>1 DEF Written
  <2>3. Len(link'[m]) = Len(link[m]) + 1 /\ Len(link[m]) \in Nat
    BY <2>2
  <2>4. Len(link'[m]) <= LinkRoom
    BY <1>1, <2>1, <2>3, StreamAssumption
  <2>5. LinkRoom <= LinkRoom + 1 /\ LinkRoom \in Nat
    BY StreamAssumption
  <2> QED
    BY <2>1, <2>2, <2>3, <2>4, <2>5 DEF Room
<1>2. CASE serves[b] \notin Browsers
  BY <1>2 DEF Written, Room
<1> QED
  BY <1>1, <1>2

LEMMA RoomStep ==
  ASSUME Handlers, Room, NEW D, Ledger(D), Held(D), [StreamNext]_allVars PROVE Room'
<1>1. NoOne \notin Browsers /\ Gone \notin Browsers /\ Other \notin Browsers
      /\ Browsers \cap Subscribers = {} /\ LinkRoom \in Nat \ {0}
  BY StreamAssumption
<1>2. /\ link \in [Browsers -> Seq(D \cup {End})]
      /\ reading \in [Readers -> D \cup {NoStatus}]
      /\ serves \in [Subscribers -> Browsers \cup {NoOne, Gone, Other}]
  BY DEF Held, Handlers
<1>3. CASE UNCHANGED <<link, serves, reading>>
  BY <1>3 DEF Room
<1>4. ASSUME NEW p \in Publishers, ApplyEvent(p) \/ Refresh(p) \/ BroadcastStep(p)
      PROVE  Room'
  BY <1>3, <1>4 DEF ApplyEvent, Refresh, BroadcastStep, streamVars
<1>5. CASE LeaseRunsOut \/ Expire \/ Tick \/ UNCHANGED allVars
  BY <1>3, <1>5 DEF LeaseRunsOut, Expire, Tick, allVars, streamVars
<1>6. CASE Restart
  <2>1. link' = link /\ serves' = serves /\ \A b \in Subscribers : serves[b] = NoOne
    BY <1>6 DEF Restart
  <2> QED
    BY <1>1, <2>1 DEF Room
<1>7. ASSUME NEW b \in Subscribers, Forward(b) PROVE Room'
  <2>1. /\ serves[b] # NoOne /\ reading[b] = NoStatus
        /\ serves[b] \in Browsers => Len(link[serves[b]]) < LinkRoom
        /\ Written(b, payload[b]) /\ UNCHANGED <<reading, serves>>
    BY <1>7 DEF Forward, MayWrite
  <2>2. /\ \A n \in Browsers : Len(link'[n]) <= LinkRoom + 1
        /\ \A n \in Browsers : n # serves[b] => link'[n] = link[n]
        /\ \A n \in Browsers : n = serves[b] => Len(link'[n]) <= LinkRoom
    BY <1>2, <2>1, LinkWritten
  <2>3. ASSUME NEW c \in Subscribers, NEW n \in Browsers, serves'[c] = n
        PROVE  /\ Len(link'[n]) <= LinkRoom
               /\ reading'[c] # NoStatus => Len(link'[n]) < LinkRoom
    <3>1. CASE n = serves[b]
      BY <2>1, <2>2, <2>3, <3>1 DEF Handlers
    <3>2. CASE n # serves[b]
      BY <2>1, <2>2, <2>3, <3>2 DEF Room
    <3> QED
      BY <3>1, <3>2
  <2> QED
    BY <2>2, <2>3 DEF Room
<1>8. ASSUME NEW b \in Subscribers, KeepAlive(b) PROVE Room'
  <2>1. /\ serves[b] \in Browsers => Len(link[serves[b]]) < LinkRoom
        /\ UNCHANGED <<link, serves>>
    BY <1>8 DEF KeepAlive, MayWrite
  <2>2. \A c \in Subscribers : c # b => reading'[c] = reading[c]
    BY <1>2, <1>8 DEF KeepAlive, StartReading, Readers
  <2> QED
    BY <2>1, <2>2 DEF Room
<1>9. ASSUME NEW b \in Subscribers, KeepAliveWritten(b) PROVE Room'
  <2>1. /\ reading[b] # NoStatus /\ reading' = [reading EXCEPT ![b] = NoStatus]
        /\ Written(b, WasRead(b)) /\ UNCHANGED serves
    BY <1>9 DEF KeepAliveWritten, FinishReading
  <2>2. b \in Readers /\ Subscribers \subseteq Readers
    BY DEF Readers
  <2>3. reading'[b] = NoStatus /\ \A c \in Subscribers : c # b => reading'[c] = reading[c]
    BY <1>2, <2>1, <2>2
  <2>4. serves[b] \in Browsers => Len(link[serves[b]]) < LinkRoom
    BY <2>1 DEF Room
  <2>5. CASE serves[b] = NoOne
    BY <1>1, <2>1, <2>3, <2>5 DEF Written, Room
  <2>6. CASE serves[b] # NoOne
    <3>1. /\ \A n \in Browsers : Len(link'[n]) <= LinkRoom + 1
          /\ \A n \in Browsers : n # serves[b] => link'[n] = link[n]
          /\ \A n \in Browsers : n = serves[b] => Len(link'[n]) <= LinkRoom
      BY <1>2, <2>1, <2>4, <2>6, LinkWritten
    <3>2. ASSUME NEW c \in Subscribers, NEW n \in Browsers, serves'[c] = n
          PROVE  /\ Len(link'[n]) <= LinkRoom
                 /\ reading'[c] # NoStatus => Len(link'[n]) < LinkRoom
      <4>1. CASE n = serves[b]
        BY <2>1, <2>3, <3>1, <3>2, <4>1 DEF Handlers
      <4>2. CASE n # serves[b]
        BY <2>1, <2>3, <3>1, <3>2, <4>2 DEF Room
      <4> QED
        BY <4>1, <4>2
    <3> QED
      BY <3>1, <3>2 DEF Room
  <2> QED
    BY <2>5, <2>6
<1>10. ASSUME NEW b \in Subscribers, HandlerReturns(b) PROVE Room'
  <2>1. /\ serves[b] # NoOne /\ serves' = [serves EXCEPT ![b] = NoOne]
        /\ Written(b, End) /\ UNCHANGED reading
    BY <1>10 DEF HandlerReturns
  <2>2. ASSUME NEW n \in Browsers, n # serves[b] PROVE link'[n] = link[n]
    BY <1>2, <2>1, <2>2 DEF Written
  <2>3. ASSUME NEW n \in Browsers, n = serves[b] PROVE Len(link'[n]) <= LinkRoom + 1
    <3>1. link' = [link EXCEPT ![n] = Append(link[n], End)]
      BY <2>1, <2>3 DEF Written
    <3>2. Len(link'[n]) = Len(link[n]) + 1 /\ Len(link[n]) \in Nat
      BY <1>2, <3>1
    <3>3. Len(link[n]) <= LinkRoom
      BY <2>3 DEF Room
    <3> QED
      BY <1>1, <3>2, <3>3
  <2>4. \A n \in Browsers : Len(link'[n]) <= LinkRoom + 1
    BY <2>2, <2>3 DEF Room
  <2>5. ASSUME NEW c \in Subscribers, NEW n \in Browsers, serves'[c] = n
        PROVE  /\ Len(link'[n]) <= LinkRoom
               /\ reading'[c] # NoStatus => Len(link'[n]) < LinkRoom
    <3>1. c # b /\ serves[c] = n
      BY <1>1, <1>2, <2>1, <2>5
    <3>2. n # serves[b]
      BY <3>1 DEF Handlers
    <3> QED
      BY <2>1, <2>2, <3>1, <3>2 DEF Room
  <2> QED
    BY <2>4, <2>5 DEF Room
<1>11. ASSUME NEW b \in Subscribers, NEW n \in Browsers \cup {Other}, Serve(n, b),
              n \in Browsers => link[n] = <<>>
       PROVE  Room'
  <2>1. /\ serves' = [serves EXCEPT ![b] = n] /\ UNCHANGED <<link, reading>>
        /\ NobodyReads
    BY <1>11 DEF Serve
  <2>2. \A c \in Subscribers : reading'[c] = NoStatus
    BY <2>1 DEF NobodyReads, Readers
  <2>3. \A m \in Browsers : Len(link'[m]) <= LinkRoom + 1
    BY <2>1 DEF Room
  <2>4. ASSUME NEW c \in Subscribers, NEW m \in Browsers, serves'[c] = m
        PROVE  Len(link'[m]) <= LinkRoom
    <3>1. CASE c = b
      <4>1. link[m] = <<>>
        BY <1>2, <1>11, <2>1, <2>4, <3>1
      <4> QED
        BY <1>1, <2>1, <4>1
    <3>2. CASE c # b
      BY <2>1, <2>4, <3>2 DEF Room
    <3> QED
      BY <3>1, <3>2
  <2> QED
    BY <2>2, <2>3, <2>4 DEF Room
<1>12. ASSUME NEW n \in Browsers, link' = [link EXCEPT ![n] = <<>>], reading' = reading,
              \A b \in Subscribers : serves'[b] \in Browsers => serves'[b] = serves[b]
       PROVE  Room'
  <2>1. Len(link'[n]) = 0 /\ \A m \in Browsers : m # n => link'[m] = link[m]
    BY <1>2, <1>12
  <2> QED
    BY <1>1, <1>12, <2>1 DEF Room
<1>13. ASSUME NEW n \in Browsers, ConnectionLost(n) PROVE Room'
  <2>1. serves' = [b \in Subscribers |-> IF serves[b] = n THEN Gone ELSE serves[b]]
    BY <1>13 DEF ConnectionLost
  <2>2. \A b \in Subscribers : serves'[b] \in Browsers => serves'[b] = serves[b]
    BY <1>1, <2>1
  <2> QED
    BY <1>12, <1>13, <2>2 DEF ConnectionLost
<1>14. ASSUME NEW n \in Browsers, ErrorEvent(n) PROVE Room'
  BY <1>12, <1>14 DEF ErrorEvent
<1>15. ASSUME NEW n \in Browsers, SnapshotEvent(n) PROVE Room'
  <2>1. /\ link[n] # <<>> /\ link' = [link EXCEPT ![n] = Tail(@)]
        /\ UNCHANGED <<serves, reading>>
    BY <1>15 DEF SnapshotEvent
  <2>2. link[n] \in Seq(D \cup {End})
    BY <1>2
  <2>3. Len(Tail(link[n])) = Len(link[n]) - 1 /\ Len(link[n]) \in Nat
    BY <2>1, <2>2
  <2>4. link'[n] = Tail(link[n]) /\ \A m \in Browsers : m # n => link'[m] = link[m]
    BY <1>2, <2>1
  <2>5. ASSUME NEW k \in Nat PROVE /\ Len(link[n]) <= k => Len(link'[n]) <= k
                                  /\ Len(link[n]) < k => Len(link'[n]) < k
    BY <2>3, <2>4
  <2>6. LinkRoom \in Nat /\ LinkRoom + 1 \in Nat
    BY <1>1
  <2> QED
    BY <2>1, <2>4, <2>5, <2>6 DEF Room
<1>16. ASSUME NEW n \in Browsers, FetchStatus(n) \/ StatusAnswered(n) PROVE Room'
  <2>1. /\ UNCHANGED <<link, serves>>
        /\ \E v : reading' = [reading EXCEPT ![n] = v]
    BY <1>16 DEF FetchStatus, StatusAnswered, StartReading, FinishReading
  <2>2. \A b \in Subscribers : reading'[b] = reading[b]
    BY <1>1, <1>2, <2>1 DEF Readers
  <2> QED
    BY <2>1, <2>2 DEF Room
<1>17. ASSUME NEW n \in Browsers,
              Refused(n) \/ OpenEvent(n) \/ StatusFetched(n) \/ FetchFails(n)
       PROVE  Room'
  BY <1>3, <1>17 DEF Refused, OpenEvent, StatusFetched, FetchFails, streamVars
<1> QED
  BY <1>1, <1>4, <1>5, <1>6, <1>7, <1>8, <1>9, <1>10, <1>11, <1>13, <1>14, <1>15, <1>16, <1>17
     DEF StreamNext, Connect, Reconnecting

StreamInv ==
  /\ IInv /\ ServerTyped
  /\ Handlers /\ Room /\ Shows /\ Orderly
  /\ \E D : Ledger(D) /\ Held(D)

LEMMA StreamInvInit == StreamInit => StreamInv
<1> SUFFICES ASSUME StreamInit PROVE StreamInv
  OBVIOUS
<1>1. IInv /\ ServerTyped
  BY InitInv, ServerInit DEF StreamInit
<1>2. Handlers
  BY StreamAssumption DEF StreamInit, Init, Handlers
<1>3. Room
  <2>1. link = [n \in Browsers |-> <<>>] /\ LinkRoom \in Nat \ {0}
        /\ \A b \in Subscribers : serves[b] \notin Browsers
    BY StreamAssumption DEF StreamInit
  <2>2. \A n \in Browsers : Len(link[n]) = 0
    BY <2>1
  <2> QED
    BY <2>1, <2>2 DEF Room
<1>4. Shows
  BY DEF StreamInit, Shows, NoRevision
<1>5. Orderly
  <2>1. /\ payload = [x \in Publishers \cup Subscribers |-> NoStatus]
        /\ ch = [b \in Subscribers |-> <<>>] /\ job = [p \in Publishers |-> Idle]
    BY DEF StreamInit, Init
  <2> QED
    BY <2>1 DEF Orderly
<1>6. PICK D : Ledger(D)
  BY FirstLedger
<1>7. Held(D)
  BY DEF StreamInit, Held
<1> QED
  BY <1>1, <1>2, <1>3, <1>4, <1>5, <1>6, <1>7 DEF StreamInv

LEMMA StreamInvStep == StreamInv /\ [StreamNext]_allVars => StreamInv'
<1> SUFFICES ASSUME StreamInv, [StreamNext]_allVars PROVE StreamInv'
  OBVIOUS
<1>1. IInv'
  BY StreamSteps, TypeStep, WalkStep, OnePlaceStep DEF StreamInv, IInv
<1>2. ServerTyped' /\ Onward
  BY ServerStep DEF StreamInv
<1>3. revision \in Nat /\ revision' \in Nat /\ Counters /\ Counters'
  BY <1>1, <1>2 DEF StreamInv, IInv, Typed, ServerTyped
<1>4. PICK D : Ledger(D) /\ Held(D)
  BY DEF StreamInv
<1>5. PICK E : /\ Ledger(E)' /\ D \subseteq E
               /\ \A s \in D, c \in 0..content' : [s EXCEPT !.content = c] \in E
  BY <1>2, <1>3, <1>4, NextLedger
<1>6. Held(E)'
  BY <1>2, <1>3, <1>4, <1>5, HeldStep DEF StreamInv
<1>7. Orderly'
  BY <1>4, OrderlyStep DEF StreamInv
<1>8. Handlers'
  BY HandlersStep DEF StreamInv
<1>9. Room'
  BY <1>4, RoomStep DEF StreamInv
<1>10. Shows'
  BY <1>4, ShowsStep DEF StreamInv
<1> QED
  BY <1>1, <1>2, <1>5, <1>6, <1>7, <1>8, <1>9, <1>10 DEF StreamInv

LEMMA StreamInvariant == StreamSpec => []StreamInv
  BY StreamInvInit, StreamInvStep, PTL DEF StreamSpec

(* Whatever waits in a channel, a read, a connection or a browser was       *)
(* answered by the service at some time, no connection is written to beyond *)
(* its room, and the subscriptions of the hub are those of the handlers.    *)
THEOREM StreamTypeCorrect == StreamSpec => []StreamTypeOK
<1>1. ASSUME StreamInv PROVE StreamTypeOK
  <2>1. PICK D : Ledger(D) /\ Held(D)
    BY <1>1 DEF StreamInv
  <2>2. D \subseteq Sent
    BY <2>1 DEF Ledger
  <2>3. TypeOK
    BY <1>1 DEF StreamInv, IInv, Typed, OnePlace, TypeOK, Capacity
  <2>4. /\ base \in 0..revision /\ restarts \in Nat /\ now \in Nat
        /\ content \in Nat /\ told \in 0..content /\ announced \in 0..content
    BY <1>1 DEF StreamInv, ServerTyped, Counters
  <2>5. due \in BOOLEAN /\ pending \in [Publishers -> BOOLEAN]
    BY <1>1 DEF StreamInv, ServerTyped, Flags
  <2>6. /\ payload \in [Publishers \cup Subscribers -> Sent \cup {NoStatus}]
        /\ reading \in [Readers -> Sent \cup {NoStatus}]
        /\ poll \in [Browsers -> Sent \cup {NoStatus}]
        /\ shown \in [Browsers -> Sent \cup {NoStatus}]
    BY <2>1, <2>2 DEF Held
  <2>7. \A b \in Subscribers : (payload[b] = NoStatus) <=> (ch[b] = <<>>)
    BY <1>1 DEF StreamInv, Orderly
  <2>8. /\ serves \in [Subscribers -> Browsers \cup {NoOne, Gone, Other}]
        /\ \A b \in Subscribers : b \in subs <=> serves[b] # NoOne
        /\ stream \in [Browsers -> {"connecting", "open", "failed"}]
    BY <1>1 DEF StreamInv, Handlers
  <2>9. ASSUME NEW n \in Browsers
        PROVE  /\ Len(link[n]) <= LinkRoom + 1
               /\ \A i \in 1..Len(link[n]) : link[n][i] \in Sent \cup {End}
    <3>1. link[n] \in Seq(D \cup {End})
      BY <2>1 DEF Held
    <3> QED
      BY <1>1, <2>2, <3>1 DEF StreamInv, Room
  <2>10. latest \in [Browsers -> -1..revision]
    <3>1. latest \in [Browsers -> Int] /\ revision \in Nat
      BY <1>1 DEF StreamInv, Shows, IInv, Typed
    <3>2. ASSUME NEW n \in Browsers PROVE latest[n] \in -1..revision
      <4>1. CASE latest[n] = NoRevision
        BY <3>1, <4>1 DEF NoRevision
      <4>2. CASE shown[n] # NoStatus /\ latest[n] = shown[n].rev
        <5>1. shown[n] \in Sent
          BY <2>6, <4>2
        <5>2. shown[n].rev \in 0..revision
          BY <5>1 DEF Sent
        <5> QED
          BY <3>1, <4>2, <5>2
      <4> QED
        BY <1>1, <4>1, <4>2 DEF StreamInv, Shows
    <3> QED
      BY <3>1, <3>2
  <2> QED
    BY <2>3, <2>4, <2>5, <2>6, <2>7, <2>8, <2>9, <2>10 DEF StreamTypeOK
<1> QED
  BY <1>1, StreamInvariant, PTL

LEMMA AcceptedIsNoOlder ==
  ASSUME Shows, NEW D, Ledger(D), Held(D), NEW m \in Browsers, NEW s \in D,
         AcceptStatus(m, s), NEW n \in Browsers, shown'[n] # shown[n], shown[n] # NoStatus
  PROVE  \/ shown'[n].pub >= shown[n].pub
         \/ latest[n] = NoRevision /\ shown'[n].gen = shown[n].gen
<1>1. Accepts(m, s) /\ shown' = [shown EXCEPT ![m] = s]
  BY DEF AcceptStatus
<1>2. n = m /\ shown'[n] = s /\ shown[n] \in D
  BY <1>1 DEF Held
<1>3. PICK t \in D : t = shown[n]
  BY <1>2
<1>4. /\ s.gen \in Nat /\ t.gen \in Nat /\ s.rev \in Nat /\ t.rev \in Nat
      /\ s.pub \in Nat /\ t.pub \in Nat
  BY DEF Ledger, Sent
<1>5. s.gen >= t.gen /\ (s.rev >= latest[n] \/ s.gen > t.gen)
  BY <1>1, <1>2, <1>3 DEF Accepts
<1>6. latest[n] = NoRevision \/ latest[n] = t.rev
  BY <1>3 DEF Shows
<1>7. CASE NotAfter(t, s)
  <2>1. t.pub <= s.pub
    BY <1>7 DEF Ledger
  <2> QED
    BY <1>2, <1>3, <1>4, <2>1
<1>8. CASE ~NotAfter(t, s)
  <2>1. s.gen = t.gen /\ ~(t.rev <= s.rev)
    BY <1>4, <1>5, <1>8 DEF NotAfter
  <2>2. latest[n] # t.rev
    BY <1>4, <1>5, <2>1
  <2> QED
    BY <1>2, <1>3, <1>6, <2>1, <2>2
<1> QED
  BY <1>7, <1>8

(* Between two openings of its event stream a browser never goes back       *)
(* behind a revision it has shown, in whatever order its stream and its     *)
(* polls deliver what the service answered before and after a restart.      *)
THEOREM ShowsNoLess == StreamSpec => NeverShowsLess
<1>1. ASSUME StreamInv, [StreamNext]_allVars,
             NEW n \in Browsers, shown'[n] # shown[n], shown[n] # NoStatus
      PROVE  \/ shown'[n].pub >= shown[n].pub
             \/ latest[n] = NoRevision /\ shown'[n].gen = shown[n].gen
  <2>1. PICK D : Ledger(D) /\ Held(D)
    BY <1>1 DEF StreamInv
  <2>2. ~ UNCHANGED shown
    BY <1>1
  <2>3. PICK m \in Browsers : SnapshotEvent(m) \/ StatusFetched(m)
    <3>1. ASSUME NEW p \in Publishers, ApplyEvent(p) \/ Refresh(p) \/ BroadcastStep(p)
          PROVE  FALSE
      BY <2>2, <3>1 DEF ApplyEvent, Refresh, BroadcastStep, browserVars
    <3>2. CASE LeaseRunsOut \/ Expire \/ Restart \/ Tick \/ UNCHANGED allVars
      BY <2>2, <3>2 DEF LeaseRunsOut, Expire, Restart, Tick, allVars, browserVars
    <3>3. ASSUME NEW b \in Subscribers,
                 Forward(b) \/ KeepAlive(b) \/ KeepAliveWritten(b) \/ HandlerReturns(b)
          PROVE  FALSE
      BY <2>2, <3>3 DEF Forward, KeepAlive, KeepAliveWritten, HandlerReturns, browserVars
    <3>4. ASSUME NEW b \in Subscribers, NEW c, Serve(c, b) PROVE FALSE
      BY <2>2, <3>4 DEF Serve, browserVars
    <3>5. ASSUME NEW m \in Browsers,
                 \/ Refused(m) \/ ConnectionLost(m) \/ OpenEvent(m) \/ ErrorEvent(m)
                 \/ FetchStatus(m) \/ StatusAnswered(m) \/ FetchFails(m)
          PROVE  FALSE
      BY <2>2, <3>5 DEF Refused, ConnectionLost, OpenEvent, ErrorEvent, FetchStatus,
         StatusAnswered, FetchFails, browserVars
    <3> QED
      BY <1>1, <3>1, <3>2, <3>3, <3>4, <3>5 DEF StreamNext, Connect
  <2>4. PICK s \in D : AcceptStatus(m, s)
    <3>1. CASE SnapshotEvent(m)
      <4>1. /\ link[m] \in Seq(D \cup {End}) /\ link[m] # <<>> /\ Head(link[m]) # End
            /\ AcceptStatus(m, Head(link[m]))
        BY <2>1, <3>1 DEF SnapshotEvent, Held
      <4>2. Head(link[m]) \in D
        BY <4>1
      <4> QED
        BY <4>1, <4>2
    <3>2. CASE StatusFetched(m)
      BY <2>1, <3>2 DEF StatusFetched, Held
    <3> QED
      BY <2>3, <3>1, <3>2
  <2> QED
    BY <1>1, <2>1, <2>4, AcceptedIsNoOlder DEF StreamInv
<1>2. StreamInv /\ [StreamNext]_allVars =>
        [\A n \in Browsers :
           shown'[n] # shown[n] /\ shown[n] # NoStatus =>
             \/ shown'[n].pub >= shown[n].pub
             \/ latest[n] = NoRevision /\ shown'[n].gen = shown[n].gen]_allVars
  BY <1>1
<1> QED
  BY <1>2, StreamInvariant, PTL DEF StreamSpec, NeverShowsLess
=============================================================================
