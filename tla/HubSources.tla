---------------------------- MODULE HubSources ----------------------------
(***************************************************************************)
(* The hub as the history tracker hears it: several Linux users report the *)
(* same account, and the tracker must follow one of them at a time, be     *)
(* told when it changes, and hear the updates in the order in which the    *)
(* hub decided them although they are handed over without Hub.mu.          *)
(***************************************************************************)
EXTENDS Hub

VARIABLES
  fed,      \* fed[a]: the last update of account a the tracker was handed
  unbroken  \* unbroken[a]: since observed[a] was decided its user has not
            \* reported a sign-out or another account

sourceVars == <<vars, fed, unbroken>>

SourcesInit ==
  /\ Init
  /\ fed = [a \in Accounts |-> NoObservation]
  /\ unbroken = [a \in Accounts |-> FALSE]

Leaves(s, a) == SignsOut(s) \/ (s.state = "ok" /\ s.account # a)

ApplyTracked(u, s) ==
  /\ Apply(u, s)
  /\ unbroken' = [a \in Accounts |->
       \/ observed'[a] # observed[a]
       \/ unbroken[a] /\ ~(u = observed[a].user /\ Leaves(s, a))]
  /\ UNCHANGED fed

FeedTracked(u, n) ==
  /\ FeedHistory(u, n)
  /\ fed' = [fed EXCEPT ![n.account] = n.o]
  /\ UNCHANGED unbroken

SourcesNext ==
  \/ \E u \in Users, s \in Snapshots : ApplyTracked(u, s)
  \/ \E u \in Users : \E n \in outbox[u] : FeedTracked(u, n)
  \/ Tick /\ UNCHANGED <<fed, unbroken>>

SourcesSpec == SourcesInit /\ [][SourcesNext]_sourceVars

-----------------------------------------------------------------------------
(* Properties *)

Decided(u) == outbox'[u] \ outbox[u]

(* The tracker compares an update with its predecessor only if both come    *)
(* from one user who stayed in the account, as far as the hub was told:     *)
(* everything else is decided as a rebaseline.                              *)
ContinuityIsEarned ==
  [][\A u \in Users : \A n \in Decided(u) :
       ~n.rebaseline => /\ n.o.user = observed[n.account].user
                        /\ unbroken[n.account]]_sourceVars

(* The updates of concurrent Apply calls reach the tracker in decision      *)
(* order: what is handed over as a continuation continues, later in         *)
(* collector time, what the tracker was handed last.                        *)
HistoryHearsOneSource ==
  [][\A u \in Users : \A n \in outbox[u] \ outbox'[u] :
       ~n.rebaseline => /\ SameSource(n.o, fed[n.account])
                        /\ n.o.at > fed[n.account].at]_sourceVars

(* A source that merely fails keeps the history until its last good         *)
(* observation is stale: only an anchor, or the source leaving the account, *)
(* ends its turn earlier.                                                   *)
HandoffNeedsStaleSource ==
  [][\A a \in Accounts :
       LET prior == observed[a].user
           next == observed'[a].user
       IN  /\ prior # NoUser /\ next # prior
           /\ ~IsAnchor(next)
           /\ unbroken[a]
           /\ entries'[prior].state \in {"ok", "unavailable"}
           /\ entries'[prior].good.account = a
           => now > entries'[prior].goodAt + StaleAfter]_sourceVars
=============================================================================
