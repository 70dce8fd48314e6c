-------------------------- MODULE AccountBoundary --------------------------
(***************************************************************************)
(* One consumer who logs in and out of accounts, its sessions, its         *)
(* collectors and the hub together: may a session started under an account *)
(* the user has left be shown under the account it is in now?              *)
(*                                                                         *)
(* The hub cannot see who owns a session.  A collector reads the account   *)
(* from its own App Server, which answers for the login it found when it   *)
(* was started; then it takes the time, which is what the hub orders       *)
(* snapshots by; then it checks that the user's control daemon reports the *)
(* same account; then it lists the threads the daemon has loaded.  Between *)
(* these everything may change, and the result may be delivered late,      *)
(* never, or after a newer one.                                            *)
(***************************************************************************)
EXTENDS Hub

CONSTANTS
  User,         \* the consumer
  Collectors,   \* collector processes, which may overlap
  MaxLogins,    \* bound on the account changes of the user
  MaxStamp      \* bound on the observations of the collectors

ASSUME UserAssumption == Users = {User} /\ Expected[User] = NoAccount
ASSUME ReadingsAssumption ==
  Quotas # {} /\ MaxLogins \in Nat \ {0} /\ MaxStamp \in Nat

VARIABLES
  login,     \* the account in the user's auth.json
  logins,    \* how many times it has changed
  daemon,    \* the account of the control daemon, with the login it took it from
  loaded,    \* threads loaded in the control daemon
  session,   \* session[s]: whether s lives in the control daemon, the login and
             \* account it was started under, and whether it has been present
             \* without interruption since
  stamp,     \* collector time of the last observation
  child,     \* child[c]: the login the App Server of c started with
  reading,   \* reading[c]: the snapshot collector c is assembling
  flight,    \* snapshots on their way to the hub, a good one with its login
  heard,     \* logins the hub has accepted a good snapshot of; hearing of an
             \* older one takes back those it knew to be newer
  current,   \* the login of the last good snapshot it accepted
  inventory  \* the last complete inventory it accepted

truth == <<login, logins, daemon, loaded, session>>
refreshes == <<child, reading>>
world == <<truth, stamp, refreshes, flight, heard, current, inventory>>

AppSessions == {s \in Sessions : session[s].app}
NotStarted(app) ==
  [app |-> app, login |-> 0, account |-> NoAccount, present |-> FALSE]
NoChild == [login |-> 0, account |-> NoAccount]
NoReading == [phase |-> "none", at |-> 0, login |-> 0, account |-> NoAccount]
NoInventory == [account |-> NoAccount, threads |-> {}, at |-> 0, boundary |-> FALSE]

BoundaryInit ==
  /\ Init
  /\ login \in Accounts
  /\ logins = 1
  /\ daemon = [account |-> login, login |-> 1]
  /\ loaded = {}
  /\ session \in [Sessions -> {NotStarted(app) : app \in BOOLEAN}]
  /\ stamp = 0
  /\ child = [c \in Collectors |-> NoChild]
  /\ reading = [c \in Collectors |-> NoReading]
  /\ flight = {}
  /\ heard = {}
  /\ current = 0
  /\ inventory = NoInventory

-----------------------------------------------------------------------------
(* The user: accounts, the daemon, sessions and their hooks *)

Login(a) ==
  /\ logins < MaxLogins
  /\ a # login
  /\ login' = a
  /\ logins' = logins + 1
  /\ UNCHANGED <<vars, daemon, loaded, session, stamp, refreshes, flight,
                 heard, current, inventory>>

(* The daemon notices a login some time later and keeps its threads. *)
AdoptLogin ==
  /\ login # NoAccount
  /\ daemon # [account |-> login, login |-> logins]
  /\ daemon' = [account |-> login, login |-> logins]
  /\ UNCHANGED <<vars, login, logins, loaded, session, stamp, refreshes, flight,
                 heard, current, inventory>>

Starts(s, account, l) ==
  session' = [session EXCEPT ![s] =
    IF @.login = 0 THEN [app |-> @.app, login |-> l, account |-> account, present |-> TRUE]
    ELSE @]
Interrupts(s) == session' = [session EXCEPT ![s].present = FALSE]

LoadThread(s) ==
  /\ s \in AppSessions \ loaded
  /\ loaded' = loaded \cup {s}
  /\ Starts(s, daemon.account, daemon.login)
  /\ UNCHANGED <<vars, login, logins, daemon, stamp, refreshes, flight,
                 heard, current, inventory>>

UnloadThread(s) ==
  /\ s \in loaded
  /\ loaded' = loaded \ {s}
  /\ Interrupts(s)
  /\ UNCHANGED <<vars, login, logins, daemon, stamp, refreshes, flight,
                 heard, current, inventory>>

(* Every hooked session is reported running, the case in which most is shown. *)
HookEvent(s) ==
  /\ IF s \in AppSessions THEN s \in loaded /\ UNCHANGED session
     ELSE login # NoAccount /\ Starts(s, login, logins)
  /\ ActivityChange(User, s, "running")
  /\ UNCHANGED <<login, logins, daemon, loaded, stamp, refreshes, flight,
                 heard, current, inventory>>

(* The session ends, or its lease expires while the session is silent. *)
HookLapse(s) ==
  /\ ActivityChange(User, s, "absent")
  /\ IF s \in AppSessions THEN UNCHANGED session ELSE Interrupts(s)
  /\ UNCHANGED <<login, logins, daemon, loaded, stamp, refreshes, flight,
                 heard, current, inventory>>

-----------------------------------------------------------------------------
(* A collector and its App Server *)

(* The login is there when the collector looks; it may be gone when the App *)
(* Server does, which then answers that nobody is signed in.                *)
StartChild(c) ==
  /\ child[c] = NoChild /\ reading[c] = NoReading
  /\ child' = [child EXCEPT ![c] = [login |-> logins, account |-> login]]
  /\ UNCHANGED <<vars, truth, stamp, reading, flight, heard, current, inventory>>

(* Another auth file, the recycle interval, a failed read, or the end of    *)
(* the collector and its child.                                             *)
EndSession(c) ==
  /\ child[c] # NoChild \/ reading[c] # NoReading
  /\ child' = [child EXCEPT ![c] = NoChild]
  /\ reading' = [reading EXCEPT ![c] = NoReading]
  /\ UNCHANGED <<vars, truth, stamp, flight, heard, current, inventory>>

-----------------------------------------------------------------------------
(* Its refreshes, one read at a time *)

Snapshot(state, at, account, reads, threads) ==
  [at |-> at, state |-> state, account |-> account,
   quota |-> IF state = "ok" THEN CHOOSE q \in Quotas : TRUE ELSE NoQuota,
   reads |-> reads, threads |-> threads]

Send(s, l) == flight' = flight \cup {[snapshot |-> s, login |-> l]}

Learns(c, from) ==
  /\ reading[c] = NoReading
  /\ reading' = [reading EXCEPT ![c] =
       [phase |-> "read", at |-> 0, login |-> from.login, account |-> from.account]]
  /\ UNCHANGED <<vars, truth, stamp, child, flight, heard, current, inventory>>

ReadAccount(c) == child[c] # NoChild /\ Learns(c, child[c])

FindNoAuth(c) ==
  /\ child[c] = NoChild /\ login = NoAccount
  /\ Learns(c, NoChild)

(* The time is taken when the account is known; that nobody is signed in is *)
(* published at once.                                                       *)
Observe(c) ==
  /\ reading[c].phase = "read"
  /\ stamp < MaxStamp
  /\ stamp' = stamp + 1
  /\ IF reading[c].account = NoAccount
     THEN /\ Send(Snapshot("signed_out", stamp', NoAccount, {}, NoChats), 0)
          /\ reading' = [reading EXCEPT ![c] = NoReading]
     ELSE /\ reading' = [reading EXCEPT ![c].phase = "account", ![c].at = stamp']
          /\ UNCHANGED flight
  /\ UNCHANGED <<vars, truth, child, heard, current, inventory>>

(* After a session that failed, or when the auth file cannot be examined. *)
PublishUnavailable(c) ==
  /\ child[c] = NoChild /\ reading[c] = NoReading
  /\ stamp < MaxStamp
  /\ stamp' = stamp + 1
  /\ Send(Snapshot("unavailable", stamp', NoAccount, {}, NoChats), 0)
  /\ UNCHANGED <<vars, truth, refreshes, heard, current, inventory>>

(* Mutant: the daemon is not asked for its account. *)
CheckNothing(c) ==
  /\ reading[c].phase = "account"
  /\ reading' = [reading EXCEPT ![c].phase = "checked"]
  /\ UNCHANGED <<vars, truth, stamp, child, flight, heard, current, inventory>>

CheckControlAccount(c) ==
  /\ reading[c].phase = "account"
  /\ daemon.account = reading[c].account
  /\ reading' = [reading EXCEPT ![c].phase = "checked"]
  /\ UNCHANGED <<vars, truth, stamp, child, flight, heard, current, inventory>>

Publishes(c, reads, threads) ==
  /\ Send(Snapshot("ok", reading[c].at, reading[c].account, reads, threads),
          reading[c].login)
  /\ reading' = [reading EXCEPT ![c] = NoReading]
  /\ UNCHANGED <<vars, truth, stamp, child, heard, current, inventory>>

(* Every loaded thread is reported running, the case in which most is shown. *)
LoadedThreads(c) ==
  /\ reading[c].phase = "checked"
  /\ Publishes(c, {"runtime"},
       [s \in Sessions |-> IF s \in loaded THEN "running" ELSE "absent"])

(* No socket, another account, a timeout: published without inventory. *)
InventoryFails(c) ==
  /\ reading[c].phase \in {"account", "checked"}
  /\ Publishes(c, {}, NoChats)

-----------------------------------------------------------------------------
(* Hub.Apply of a snapshot in flight; a message never delivered is lost. *)
Deliver(m) ==
  LET s == m.snapshot
      e == entries[User]
  IN  /\ flight' = flight \ {m}
      /\ IF ~Accepts(e, s)
         THEN UNCHANGED <<vars, heard, current, inventory>>
         ELSE /\ Apply(User, s)
              /\ heard' = IF s.state = "ok"
                          THEN {l \in heard : l < m.login} \cup {m.login} ELSE heard
              /\ current' = IF s.state = "ok" THEN m.login ELSE current
              /\ inventory' =
                   IF "runtime" \in s.reads
                   THEN [account |-> s.account, threads |-> Present(s.threads),
                         at |-> now, boundary |-> ConsumerSwitch(User, e, s)]
                   ELSE inventory
      /\ UNCHANGED <<truth, stamp, refreshes>>

BoundaryNext ==
  \/ \E a \in Accounts \cup {NoAccount} : Login(a)
  \/ AdoptLogin
  \/ \E s \in Sessions :
       LoadThread(s) \/ UnloadThread(s) \/ HookEvent(s) \/ HookLapse(s)
  \/ \E c \in Collectors :
       \/ StartChild(c) \/ EndSession(c)
       \/ ReadAccount(c) \/ FindNoAuth(c) \/ Observe(c) \/ PublishUnavailable(c)
       \/ CheckControlAccount(c) \/ LoadedThreads(c) \/ InventoryFails(c)
  \/ \E m \in flight : Deliver(m)
  \/ Tick /\ UNCHANGED world
  \/ \E n \in outbox[User] : FeedHistory(User, n) /\ UNCHANGED world

BoundarySpec == BoundaryInit /\ [][BoundaryNext]_<<vars, world>>

-----------------------------------------------------------------------------
(* Properties *)

(* A session that has been present ever since it was started under a login  *)
(* the hub has heard of, and has not taken back for an older one since, is  *)
(* never shown under an account other than its own.                         *)
HiddenAcrossBoundary ==
  \A a \in Accounts : \A s \in ActiveChats(User, a) :
    session[s].present /\ session[s].login \in heard => session[s].account = a

(* When the hub claims to know the chats of a user, its index is exactly    *)
(* what one complete inventory of the user's present account reported, an   *)
(* inventory taken after the account boundary and not past its grace.       *)
KnownIsComplete ==
  ActiveChatsKnown(User) =>
    /\ inventory.account = entries[User].membership
    /\ ~inventory.boundary
    /\ Present(entries[User].runtime) = inventory.threads
    /\ now <= inventory.at + InventoryGrace
=============================================================================
