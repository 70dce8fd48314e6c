------------------------------ MODULE MCRefresh ------------------------------
(***************************************************************************)
(* An instance of Refresh for TLC.  In every behaviour one part varies: the *)
(* processes of the host, the threads of the daemon, or the answers.        *)
(***************************************************************************)
EXTENDS Refresh

MCCollectorCgroup == <<"dashboard">>
MCOtherCgroups == {<<"user">>, <<"dashboard", "child">>}

-----------------------------------------------------------------------------
Entry(start, exe, uid, cgroup, parent) ==
  [alive |-> TRUE, start |-> start, exe |-> exe, uid |-> uid, cgroup |-> cgroup,
   parent |-> parent]
Free == [Entry(0, OtherProgram, OtherUser, <<"user">>, Reaper) EXCEPT !.alive = FALSE]
Codex(start, v, parent) == Entry(start, v, CollectorUser, <<"user">>, parent)

(* Pids 1 and 2 are the reaper and the collector. *)
Host(p3, p4, p5) ==
  << Entry(0, OtherProgram, OtherUser, <<"user">>, Reaper),
     Entry(0, Dashboard, CollectorUser, MCCollectorCgroup, Reaper), p3, p4, p5 >>

Quiet == Host(Free, Free, Free)

(* Two versions; another user's; the collector's own child; a child of      *)
(* another dashboard; more processes than the directory limit.              *)
Busy ==
  { Host(Codex(0, "v1", Reaper), Codex(0, "v2", Reaper), Free),
    Host(Codex(1, "v1", Reaper), Codex(0, "v2", 3), Free),
    Host(Codex(1, "v1", Reaper), Entry(1, "v2", OtherUser, <<"user">>, Reaper), Free),
    Host(Codex(0, "v1", Reaper), Entry(1, "v2", CollectorUser, <<"dashboard", "child">>, Collector), Free),
    Host(Entry(0, Dashboard, CollectorUser, <<"user">>, Reaper), Codex(1, "v1", 3), Free),
    Host(Codex(0, "v1", Reaper), Entry(0, "v1", CollectorUser, Unparsed, Reaper), Free),
    Host(Codex(0, "v1", Reaper), Codex(0, "v2", Reaper), Codex(0, "v1", Reaper)) }

MCTables == {Quiet} \cup Busy

-----------------------------------------------------------------------------
NoThreads == {[t \in Threads |-> "unloaded"]}
SomeThreads ==
  { <<"active", "idle", "idle", "idle">>, <<"idle", "active", "unloaded", "idle">>,
    <<"idle", "unloaded", "active", "active">> }
SameAge == [t \in Threads |-> 0]
OtherAge == [t \in Threads |-> IF t = 2 THEN 1 ELSE IF t = 4 THEN 2 ELSE 0]

MCSessionOf == [t \in Threads |-> IF t <= 2 THEN 1 ELSE t]

-----------------------------------------------------------------------------
Windows ==
  {NoWindow, [weekly |-> FALSE, resetsAt |-> 9]}
  \cup [weekly : {TRUE}, resetsAt : {0, ObservedAt, ObservedAt + 1, MaxStamp + 1}]
Buckets == {<<>>, << <<1>>, <<1>>, <<1, 2>>, <<1>> >>, << <<1, 2>>, <<1>>, <<1>> >>}
AnyLimits == [primary : Windows, secondary : Windows, buckets : Buckets]
GoodLimits == {[primary |-> NoWindow, secondary |-> [weekly |-> TRUE, resetsAt |-> MaxStamp],
                buckets |-> << <<1>> >>]}

ThreadRows ==
  [session : {1}, usable : {TRUE}, created : 0..2, updated : 0..2]
  \cup {[session |-> 2, usable |-> u, created |-> 1, updated |-> MaxStamp + 1] : u \in BOOLEAN}
  \cup {[session |-> 3, usable |-> u, created |-> 1, updated |-> 0] : u \in BOOLEAN}
AnyRows == UNION {[1..n -> ThreadRows] : n \in 0..3}

Plain ==
  [accounts |-> {"chatgpt"}, tables |-> {Quiet}, changes |-> 0,
   statuses |-> NoThreads, updates |-> {SameAge}, polite |-> {TRUE}, moves |-> 0, usage |-> {FALSE},
   limits |-> GoodLimits, threads |-> {<<>>}]

MCLoads ==
  [processes |-> [Plain EXCEPT !.accounts = {"none"}, !.tables = Busy, !.changes = MaxChanges],
   quota |-> [Plain EXCEPT !.accounts = Accounts, !.limits = AnyLimits, !.usage = BOOLEAN],
   history |-> [Plain EXCEPT !.threads = AnyRows],
   threads |-> [Plain EXCEPT !.statuses = SomeThreads, !.updates = {SameAge, OtherAge},
                             !.moves = MaxMoves],
   pages |-> [Plain EXCEPT !.statuses = { <<"active", "unloaded", "idle", "idle">> },
                           !.polite = {FALSE}]]
=============================================================================
