---------------------------- MODULE RpcClient ----------------------------
(***************************************************************************)
(* codex.Client, the JSON-lines client of the Codex App Server: calls from *)
(* several goroutines, the goroutine that reads the answers and replies to *)
(* the requests of the server, the gate that orders the writes, contexts   *)
(* that expire, and the failure and closing of the transport.              *)
(*                                                                         *)
(* The server is external. It reads what is written to it or stops         *)
(* reading, answers in any order, late, twice or not at all, sends         *)
(* notifications, requests and lines that are no JSON, and may exit.       *)
(***************************************************************************)
EXTENDS Integers, Sequences

CONSTANTS
  Callers,      \* goroutines that make calls
  MaxCalls,     \* bound: calls made
  MaxMessages,  \* bound: messages of the server
  Room          \* lines that fit into the stream in each direction

VARIABLES
  stream,     \* "stdio", or "control" whose writes a context interrupts
  nextID,     \* Client.nextID
  pending,    \* Client.pending: the identifiers that have an answer channel
  answers,    \* the one-place answer channels: the call that was answered
  gate,       \* Client.writeGate holds its token
  readErr,    \* Client.readErr
  done,       \* Client.done is closed
  notified,   \* answers waiting in Client.notifications
  calls,      \* the calls in progress
  made,       \* the number of calls made; numbers the calls
  reader,     \* readLoop
  closer,     \* Close
  up,         \* the child runs, or the connection is open
  toServer, toClient,
  received,   \* the requests the server has read
  sent        \* the number of messages of the server

callVars == <<calls, made, nextID>>
serverVars == <<received, sent>>
vars == <<stream, nextID, pending, answers, gate, readErr, done, notified,
          calls, made, reader, closer, up, toServer, toClient, received, sent>>

ASSUME RpcAssumption ==
  /\ MaxCalls \in Nat \ {0} /\ MaxMessages \in Nat /\ Room \in Nat \ {0}
  /\ "reader" \notin Callers

None == 0
IDs == 1..MaxCalls
Idle == [pc |-> "idle", id |-> None, n |-> None]

Answer(r) == [kind |-> "answer", id |-> r.id, n |-> r.n]
Unasked(k) == [kind |-> k, id |-> None, n |-> None]
Unaskeds == {Unasked(k) : k \in {"notification", "request", "garbage"}}
Reply == [id |-> None, n |-> None]

Init ==
  /\ stream \in {"stdio", "control"}
  /\ nextID = 1 /\ pending = {} /\ answers = [i \in IDs |-> None]
  /\ gate = TRUE /\ readErr = "none" /\ done = FALSE /\ notified = 0
  /\ calls = [c \in Callers |-> Idle] /\ made = 0
  /\ reader = [pc |-> "read", id |-> None, n |-> None]
  /\ closer = "open" /\ up = TRUE
  /\ toServer = <<>> /\ toClient = <<>> /\ received = {} /\ sent = 0

-----------------------------------------------------------------------------
(* fail: the first error is kept and the answer channels are forgotten      *)
(* under Client.mu; done is closed after it is released, and failOnce holds *)
(* the other callers of fail until then.                                    *)

Fail(e) ==
  /\ readErr' = IF readErr = "none" THEN e ELSE readErr
  /\ pending' = IF readErr = "none" THEN {} ELSE pending

CloseDone ==
  /\ readErr # "none" /\ ~done
  /\ done' = TRUE
  /\ UNCHANGED <<stream, callVars, pending, answers, gate, readErr, notified,
                 reader, closer, up, toServer, toClient, serverVars>>

-----------------------------------------------------------------------------
(* call and writeJSON *)

(* Mutant: the lowest identifier without an answer channel. *)
LowestID == CHOOSE i \in IDs : i \notin pending /\ \A j \in IDs \ pending : i <= j

FreshID == nextID

(* Mutant: the answer channel stays. *)
KeepPending(id) == pending' = pending

RemovePending(id) == pending' = pending \ {id}

Register(c) ==
  /\ calls[c].pc = "idle" /\ made < MaxCalls
  /\ calls' = [calls EXCEPT ![c] = [pc |-> "gate", id |-> FreshID, n |-> made + 1]]
  /\ made' = made + 1
  /\ nextID' = nextID + 1
  /\ pending' = pending \cup {FreshID}
  /\ answers' = [answers EXCEPT ![FreshID] = None]
  /\ UNCHANGED <<stream, gate, readErr, done, notified, reader, closer, up,
                 toServer, toClient, serverVars>>

Return(c) == calls' = [calls EXCEPT ![c] = Idle]

GateOpen == gate

(* Both selects of writeJSON: the gate is kept only if nothing else ended. *)
TakeGate(c) ==
  /\ calls[c].pc = "gate" /\ GateOpen /\ ~done
  /\ gate' = FALSE
  /\ calls' = [calls EXCEPT ![c].pc = "write"]
  /\ UNCHANGED <<stream, nextID, pending, answers, readErr, done, notified,
                 made, reader, closer, up, toServer, toClient, serverVars>>

(* The context of a call may expire at any time, and does in the end.       *)
Abandon(c) ==
  /\ calls[c].pc = "gate"
  /\ Return(c)
  /\ RemovePending(calls[c].id)
  /\ UNCHANGED <<stream, nextID, answers, gate, readErr, done, notified, made,
                 reader, closer, up, toServer, toClient, serverVars>>

Write(c) ==
  /\ calls[c].pc = "write" /\ up /\ Len(toServer) < Room
  /\ toServer' = Append(toServer, [id |-> calls[c].id, n |-> calls[c].n])
  /\ gate' = TRUE
  /\ calls' = [calls EXCEPT ![c].pc = "wait"]
  /\ UNCHANGED <<stream, nextID, pending, answers, readErr, done, notified,
                 made, reader, closer, up, toClient, serverVars>>

(* A context ends a write to the control socket, which closes the socket: a *)
(* part of the frame may have been written. It ends no write to the pipe.   *)
CutWrite(c) ==
  /\ calls[c].pc = "write" /\ stream = "control"
  /\ up' = FALSE
  /\ gate' = TRUE
  /\ Return(c)
  /\ RemovePending(calls[c].id)
  /\ UNCHANGED <<stream, nextID, answers, readErr, done, notified, made,
                 reader, closer, toServer, toClient, serverVars>>

BreakWrite(c) ==
  /\ calls[c].pc = "write" /\ ~up
  /\ Fail("closed")
  /\ calls' = [calls EXCEPT ![c].pc = "failing"]
  /\ UNCHANGED <<stream, nextID, answers, gate, done, notified, made, reader,
                 closer, up, toServer, toClient, serverVars>>

ReturnBroken(c) ==
  /\ calls[c].pc = "failing" /\ done
  /\ gate' = TRUE
  /\ Return(c)
  /\ RemovePending(calls[c].id)
  /\ UNCHANGED <<stream, nextID, answers, readErr, done, notified, made,
                 reader, closer, up, toServer, toClient, serverVars>>

TakeAnswer(c) ==
  /\ calls[c].pc = "wait" /\ answers[calls[c].id] # None
  /\ answers' = [answers EXCEPT ![calls[c].id] = None]
  /\ Return(c)
  /\ UNCHANGED <<stream, nextID, pending, gate, readErr, done, notified, made,
                 reader, closer, up, toServer, toClient, serverVars>>

(* Mutant: the context of a call is not looked at. *)
OnlyIfDone == done

(* done is closed, or the context has expired. *)
MayGiveUp == TRUE

GiveUp(c) ==
  /\ calls[c].pc = "wait" /\ MayGiveUp
  /\ Return(c)
  /\ RemovePending(calls[c].id)
  /\ UNCHANGED <<stream, nextID, answers, gate, readErr, done, notified, made,
                 reader, closer, up, toServer, toClient, serverVars>>

-----------------------------------------------------------------------------
(* readLoop and handleServerMessage *)

(* The answer channel is taken out of the map with the first answer. *)
Claim(id) == pending' = pending \ {id}

Coalesce == notified' = 1

ReadAnswer ==
  /\ reader.pc = "read" /\ toClient # <<>> /\ Head(toClient).kind = "answer"
  /\ toClient' = Tail(toClient)
  /\ LET m == Head(toClient) IN
       /\ Claim(m.id)
       /\ reader' = IF m.id \in pending
                    THEN [pc |-> "deliver", id |-> m.id, n |-> m.n] ELSE reader
  /\ UNCHANGED <<stream, callVars, answers, gate, readErr, done, notified,
                 closer, up, toServer, serverVars>>

(* The channel is sent to after the lock is released. *)
Deliver ==
  /\ reader.pc = "deliver" /\ answers[reader.id] = None
  /\ answers' = [answers EXCEPT ![reader.id] = reader.n]
  /\ reader' = [pc |-> "read", id |-> None, n |-> None]
  /\ UNCHANGED <<stream, callVars, pending, gate, readErr, done, notified,
                 closer, up, toServer, toClient, serverVars>>

ReadNotification ==
  /\ reader.pc = "read" /\ toClient # <<>> /\ Head(toClient).kind = "notification"
  /\ toClient' = Tail(toClient)
  /\ Coalesce
  /\ UNCHANGED <<stream, callVars, pending, answers, gate, readErr, done, reader,
                 closer, up, toServer, serverVars>>

(* The request of a server is refused, by the goroutine that reads. *)
ReadRequest ==
  /\ reader.pc = "read" /\ toClient # <<>> /\ Head(toClient).kind = "request"
  /\ toClient' = Tail(toClient)
  /\ reader' = [reader EXCEPT !.pc = "gate"]
  /\ UNCHANGED <<stream, callVars, pending, answers, gate, readErr, done, notified,
                 closer, up, toServer, serverVars>>

ReplyTakesGate ==
  /\ reader.pc = "gate" /\ GateOpen /\ ~done
  /\ gate' = FALSE
  /\ reader' = [reader EXCEPT !.pc = "write"]
  /\ UNCHANGED <<stream, callVars, pending, answers, readErr, done, notified,
                 closer, up, toServer, toClient, serverVars>>

(* A reply has a context of its own, of defaultHandshakeTimeout. *)
AbandonReply ==
  /\ reader.pc = "gate"
  /\ reader' = [reader EXCEPT !.pc = "read"]
  /\ UNCHANGED <<stream, callVars, pending, answers, gate, readErr, done, notified,
                 closer, up, toServer, toClient, serverVars>>

WriteReply ==
  /\ reader.pc = "write" /\ up /\ Len(toServer) < Room
  /\ toServer' = Append(toServer, Reply)
  /\ gate' = TRUE
  /\ reader' = [reader EXCEPT !.pc = "read"]
  /\ UNCHANGED <<stream, callVars, pending, answers, readErr, done, notified,
                 closer, up, toClient, serverVars>>

CutReply ==
  /\ reader.pc = "write" /\ stream = "control"
  /\ up' = FALSE
  /\ gate' = TRUE
  /\ reader' = [reader EXCEPT !.pc = "read"]
  /\ UNCHANGED <<stream, callVars, pending, answers, readErr, done, notified,
                 closer, toServer, toClient, serverVars>>

BreakReply ==
  /\ reader.pc = "write" /\ ~up
  /\ Fail("closed")
  /\ reader' = [reader EXCEPT !.pc = "failing"]
  /\ UNCHANGED <<stream, callVars, answers, gate, done, notified, closer, up,
                 toServer, toClient, serverVars>>

(* The error of a reply is ignored, and reading goes on. *)
ReturnBrokenReply ==
  /\ reader.pc = "failing" /\ done
  /\ gate' = TRUE
  /\ reader' = [reader EXCEPT !.pc = "read"]
  /\ UNCHANGED <<stream, callVars, pending, answers, readErr, done, notified,
                 closer, up, toServer, toClient, serverVars>>

EndReading(e) ==
  /\ Fail(e)
  /\ reader' = [reader EXCEPT !.pc = "ended"]
  /\ UNCHANGED <<stream, callVars, answers, gate, done, notified, closer, up,
                 toServer, toClient, serverVars>>

ReadGarbage ==
  /\ reader.pc = "read" /\ toClient # <<>> /\ Head(toClient).kind = "garbage"
  /\ EndReading("protocol")

(* What is left in the stream may be lost when Wait or Close closes it; a   *)
(* broken connection is an error of the scanner, the end of a pipe is not.  *)
ReadEnd ==
  /\ reader.pc = "read" /\ ~up
  /\ \E e \in {"closed", "protocol"} : EndReading(e)

-----------------------------------------------------------------------------
(* Process exit, Close, and the user of the notifications *)

(* The goroutine that waits for the child. *)
ChildExited ==
  /\ stream = "stdio" /\ ~up /\ readErr = "none"
  /\ Fail("closed")
  /\ UNCHANGED <<stream, callVars, answers, gate, done, notified, reader, closer,
                 up, toServer, toClient, serverVars>>

Close ==
  /\ closer = "open"
  /\ Fail("closed")
  /\ closer' = "failing"
  /\ UNCHANGED <<stream, callVars, answers, gate, done, notified, reader, up,
                 toServer, toClient, serverVars>>

(* Mutant: the transport is left open. *)
LeaveTransport == up' = up

(* closeProcess kills the child; the control socket is closed. *)
CloseTransport == up' = FALSE

FinishClose ==
  /\ closer = "failing" /\ done
  /\ CloseTransport
  /\ closer' = "closed"
  /\ UNCHANGED <<stream, callVars, pending, answers, gate, readErr, done, notified,
                 reader, toServer, toClient, serverVars>>

TakeNotification ==
  /\ notified > 0
  /\ notified' = notified - 1
  /\ UNCHANGED <<stream, callVars, pending, answers, gate, readErr, done, reader,
                 closer, up, toServer, toClient, serverVars>>

-----------------------------------------------------------------------------
(* The server *)

ServerReads ==
  /\ up /\ toServer # <<>>
  /\ toServer' = Tail(toServer)
  /\ received' = received \cup ({Head(toServer)} \ {Reply})
  /\ UNCHANGED <<stream, callVars, pending, answers, gate, readErr, done, notified,
                 reader, closer, up, toClient, sent>>

(* An answer to any request it has read, again if it likes, or a message    *)
(* nobody asked for.                                                        *)
ServerSends ==
  /\ up /\ sent < MaxMessages /\ Len(toClient) < Room
  /\ \E m \in Unaskeds \cup {Answer(r) : r \in received} :
       toClient' = Append(toClient, m)
  /\ sent' = sent + 1
  /\ UNCHANGED <<stream, callVars, pending, answers, gate, readErr, done, notified,
                 reader, closer, up, toServer, received>>

ServerExits ==
  /\ up
  /\ up' = FALSE
  /\ UNCHANGED <<stream, callVars, pending, answers, gate, readErr, done, notified,
                 reader, closer, toServer, toClient, serverVars>>

CallStep(c) ==
  \/ TakeGate(c) \/ Abandon(c) \/ Write(c) \/ CutWrite(c) \/ BreakWrite(c)
  \/ ReturnBroken(c) \/ TakeAnswer(c) \/ GiveUp(c)
ReaderStep ==
  \/ ReadAnswer \/ Deliver \/ ReadNotification \/ ReadRequest \/ ReplyTakesGate
  \/ AbandonReply \/ WriteReply \/ CutReply \/ BreakReply \/ ReturnBrokenReply
  \/ ReadGarbage \/ ReadEnd

Next ==
  \/ \E c \in Callers : Register(c) \/ CallStep(c)
  \/ ReaderStep
  \/ CloseDone \/ ChildExited \/ Close \/ FinishClose \/ TakeNotification
  \/ ServerReads \/ ServerSends \/ ServerExits

(* Goroutines run, and every context has a deadline, so that a select on it *)
(* does not wait for ever. The server owes nothing: it may stop reading or  *)
(* answering at any time.                                                   *)
Spec ==
  /\ Init /\ [][Next]_vars
  /\ \A c \in Callers : WF_vars(CallStep(c))
  /\ WF_vars(ReaderStep) /\ WF_vars(CloseDone) /\ WF_vars(ChildExited)
  /\ WF_vars(FinishClose)

-----------------------------------------------------------------------------
(* Properties *)

Calls ==
  [pc : {"idle", "gate", "write", "failing", "wait"}, id : 0..MaxCalls,
   n : 0..MaxCalls]

ReaderState ==
  [pc : {"read", "deliver", "gate", "write", "failing", "ended"},
   id : 0..MaxCalls, n : 0..MaxCalls]

Line == [id : 0..MaxCalls, n : 0..MaxCalls]

ServerMessage ==
  [kind : {"answer", "notification", "request", "garbage"},
   id : 0..MaxCalls, n : 0..MaxCalls]

CallTypes ==
  /\ calls \in [Callers -> Calls] /\ answers \in [IDs -> 0..MaxCalls]
  /\ nextID \in Nat /\ made \in 0..MaxCalls /\ pending \subseteq IDs

ScalarTypes ==
  /\ stream \in {"stdio", "control"}
  /\ gate \in BOOLEAN /\ done \in BOOLEAN /\ up \in BOOLEAN
  /\ readErr \in {"none", "closed", "protocol"}
  /\ notified \in 0..1
  /\ closer \in {"open", "failing", "closed"}
  /\ sent \in 0..MaxMessages

StreamTypes ==
  /\ reader \in ReaderState
  /\ toServer \in Seq(Line) /\ toClient \in Seq(ServerMessage)
  /\ received \subseteq [id : IDs, n : IDs]

(* Every variable has the type of its Go counterpart; the notifications     *)
(* never need more than the one place of their channel.                     *)
TypeOK == CallTypes /\ ScalarTypes /\ StreamTypes

(* A call only ever gets the answer to its own request, however late the    *)
(* answers to the calls that gave up before it arrive.                      *)
AnswersMatch ==
  \A c \in Callers :
    calls[c].pc # "idle" => answers[calls[c].id] \in {None, calls[c].n}

(* The reading goroutine never blocks on an answer channel: it is empty     *)
(* whenever something is about to be sent to it, whatever the server        *)
(* repeats.                                                                 *)
AnswersHaveRoom == reader.pc = "deliver" => answers[reader.id] = None

(* Every registered answer channel belongs to a call in progress: calls     *)
(* that time out, fail or start after a failure leave none behind.          *)
NoStaleCalls == pending \subseteq {calls[c].id : c \in Callers}

(* Lines are written one at a time, by the callers and by the reading       *)
(* goroutine, and the gate comes back from every way a write can end.       *)
Writers ==
  {c \in Callers : calls[c].pc \in {"write", "failing"}}
    \cup (IF reader.pc \in {"write", "failing"} THEN {"reader"} ELSE {})
WritesExclusive ==
  IF gate THEN Writers = {} ELSE \E w \in Callers \cup {"reader"} : Writers = {w}

(* Every call ends, although the server may have stopped reading or         *)
(* answering, because its deadline ends it. The exception is a write to the pipe  *)
(* of a child that does not read: writeFull looks at the context only       *)
(* before it starts.                                                        *)
CallsReturn ==
  \A c \in Callers :
    calls[c].pc # "idle"
      ~> (calls[c].pc = "idle" \/ (stream = "stdio" /\ calls[c].pc = "write"))

(* A Close that has begun returns, although others may be calling fail at   *)
(* the same time, and the reading goroutine ends, whatever it was doing: the *)
(* clients that a collector connects for every refresh do not pile up.      *)
ReaderEnds == closer # "open" ~> closer = "closed" /\ reader.pc = "ended"
=============================================================================
