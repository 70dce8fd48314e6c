---------------------------- MODULE LatestFeed ----------------------------
(***************************************************************************)
(* What a subscriber of the hub is promised, without channels or locks: a  *)
(* one-place inbox in which every new revision replaces the one before it. *)
(***************************************************************************)
EXTENDS Integers

CONSTANT Subscribers

VARIABLES
  newest,  \* the revision published last
  joined,  \* the subscribers
  owed,    \* those the newest revision has still to be offered to
  inbox,   \* inbox[b]: what b can take, or Nothing
  taken    \* taken[b]: what b took last, or Nothing

feedVars == <<newest, joined, owed, inbox, taken>>

Nothing == -1

FeedInit ==
  /\ newest = 0
  /\ joined = {}
  /\ owed = {}
  /\ inbox = [b \in Subscribers |-> Nothing]
  /\ taken = [b \in Subscribers |-> Nothing]

Announce ==
  /\ owed = {}
  /\ newest' = newest + 1
  /\ owed' = joined
  /\ UNCHANGED <<joined, inbox, taken>>

Offer(b) ==
  /\ b \in owed
  /\ owed' = owed \ {b}
  /\ inbox' = [inbox EXCEPT ![b] = newest]
  /\ UNCHANGED <<newest, joined, taken>>

Take(b) ==
  /\ inbox[b] # Nothing
  /\ inbox' = [inbox EXCEPT ![b] = Nothing]
  /\ taken' = [taken EXCEPT ![b] = inbox[b]]
  /\ UNCHANGED <<newest, joined, owed>>

Join(b) ==
  /\ b \notin joined
  /\ owed = {}
  /\ joined' = joined \cup {b}
  /\ inbox' = [inbox EXCEPT ![b] = newest]
  /\ taken' = [taken EXCEPT ![b] = Nothing]
  /\ UNCHANGED <<newest, owed>>

Leave(b) ==
  /\ b \in joined
  /\ owed = {}
  /\ joined' = joined \ {b}
  /\ UNCHANGED <<newest, owed, inbox, taken>>

FeedNext ==
  \/ Announce
  \/ \E b \in Subscribers : Offer(b) \/ Take(b) \/ Join(b) \/ Leave(b)

FeedSpec == FeedInit /\ [][FeedNext]_feedVars
=============================================================================
