-------------------------- MODULE RpcClientProofs --------------------------
(***************************************************************************)
(* Proofs about RpcClient, for every number of callers, calls and          *)
(* messages.                                                               *)
(***************************************************************************)
EXTENDS RpcClient, TLAPS

(* Every record that names a request carries the number of the call that    *)
(* made it: identifiers are never given out twice.                          *)
Numbered(r) == r.id = r.n

CallRecord == [pc : {"idle", "gate", "write", "failing", "wait"}, id : Nat, n : Nat]
ReaderRecord == [pc : {"read", "deliver", "gate", "write", "failing", "ended"},
                 id : Nat, n : Nat]
Message == [kind : {"answer", "notification", "request", "garbage"}, id : Nat, n : Nat]
Request == [id : Nat, n : Nat]

Typed ==
  /\ calls \in [Callers -> CallRecord]
  /\ reader \in ReaderRecord
  /\ made \in Nat /\ nextID = made + 1
  /\ answers \in [IDs -> Nat]
  /\ gate \in BOOLEAN
  /\ toServer \in Seq(Request) /\ toClient \in Seq(Message)
  /\ received \in SUBSET Request

Numbers ==
  /\ \A c \in Callers : Numbered(calls[c])
  /\ \A i \in DOMAIN toServer : Numbered(toServer[i])
  /\ \A r \in received : Numbered(r)
  /\ \A i \in DOMAIN toClient : Numbered(toClient[i])
  /\ Numbered(reader)
  /\ \A i \in IDs : answers[i] \in {None, i}

(* A call in progress has an identifier of its own, from those given out.   *)
OwnIDs ==
  /\ \A c \in Callers : calls[c].pc # "idle" => calls[c].id \in 1..made
  /\ \A c \in Callers : calls[c].pc = "idle" => calls[c].id = None
  /\ \A c, d \in Callers : calls[c].pc # "idle" /\ calls[c].id = calls[d].id => c = d
  /\ made <= MaxCalls

(* An identifier leaves pending before its channel is written to, once.     *)
Registered ==
  /\ pending \subseteq 1..made
  /\ \A i \in pending : answers[i] = None
  /\ reader.pc = "deliver" =>
       reader.id \in 1..made /\ reader.id \notin pending /\ answers[reader.id] = None

Writing == {"write", "failing"}
Exclusive ==
  /\ gate => /\ \A c \in Callers : calls[c].pc \notin Writing
             /\ reader.pc \notin Writing
  /\ ~gate => \/ reader.pc \in Writing
              \/ \E c \in Callers : calls[c].pc \in Writing
  /\ \A c, d \in Callers :
       calls[c].pc \in Writing /\ calls[d].pc \in Writing => c = d
  /\ \A c \in Callers : ~(calls[c].pc \in Writing /\ reader.pc \in Writing)

IInv == Typed /\ Numbers /\ OwnIDs /\ Registered /\ NoStaleCalls /\ Exclusive

-----------------------------------------------------------------------------
(* The initial states satisfy the inductive invariant. *)
LEMMA InitIInv == Init => IInv
  <1>1. SUFFICES ASSUME Init PROVE IInv
    OBVIOUS
  <1>2. MaxCalls \in Nat
    BY RpcAssumption
  <1>3. Typed /\ Numbers
    BY <1>1, <1>2 DEF Init, Typed, Numbers, Numbered, CallRecord, ReaderRecord, Message,
       Request, Idle, None, IDs
  <1>4. OwnIDs /\ Registered /\ NoStaleCalls /\ Exclusive
    BY <1>1, <1>2 DEF Init, OwnIDs, Registered, NoStaleCalls, Exclusive, Writing,
       Idle, None, IDs
  <1> QED BY <1>3, <1>4 DEF IInv

(* Registering a call gives it the next identifier. *)
LEMMA RegisterKeeps ==
  ASSUME IInv, NEW c \in Callers, Register(c)
  PROVE  IInv'
  <1> DEFINE new == [pc |-> "gate", id |-> made + 1, n |-> made + 1]
  <1> USE RpcAssumption DEF IInv
  <1>1. /\ made \in Nat /\ made < MaxCalls /\ nextID = made + 1 /\ made + 1 \in IDs
        /\ calls \in [Callers -> CallRecord] /\ calls[c].pc = "idle"
        /\ calls' = [calls EXCEPT ![c] = new] /\ new \in CallRecord
        /\ made' = made + 1 /\ nextID' = made + 2
        /\ pending' = pending \cup {made + 1}
        /\ answers' = [answers EXCEPT ![made + 1] = None]
        /\ UNCHANGED <<gate, reader, toServer, toClient, received>>
    BY DEF Register, Typed, FreshID, serverVars, IDs, CallRecord
  <1>2. calls'[c] = new /\ \A d \in Callers \ {c} : calls'[d] = calls[d]
    BY <1>1
  <1> HIDE DEF new
  <1>3. new.pc = "gate" /\ new.id = made + 1 /\ Numbered(new)
    BY <1>1 DEF new, Numbered
  <1>4. Typed'
    BY <1>1 DEF Typed, None
  <1>5. Numbers'
    BY <1>1, <1>2, <1>3 DEF Typed, Numbers, Numbered, None
  <1>6. OwnIDs'
    <2>1. \A d \in Callers : calls'[d].pc # "idle" => calls'[d].id \in 1..made'
      BY <1>1, <1>2, <1>3 DEF OwnIDs
    <2>2. \A d \in Callers : calls'[d].pc = "idle" => calls'[d].id = None
      BY <1>2, <1>3 DEF OwnIDs
    <2>3. \A d \in Callers \ {c} : calls'[d].id # made + 1
      BY <1>1, <1>2 DEF OwnIDs, None
    <2>4. \A d, e \in Callers :
            calls'[d].pc # "idle" /\ calls'[d].id = calls'[e].id => d = e
      BY <1>2, <1>3, <2>3 DEF OwnIDs
    <2> QED BY <1>1, <2>1, <2>2, <2>4 DEF OwnIDs
  <1>7. Registered'
    BY <1>1 DEF Typed, Registered, None
  <1>8. NoStaleCalls'
    <2>1. \A d \in Callers : calls[d].id \in pending => calls'[d] = calls[d]
      BY <1>1, <1>2 DEF OwnIDs, Registered, None
    <2>2. made + 1 \in {calls'[d].id : d \in Callers}
      BY <1>2, <1>3
    <2> QED BY <1>1, <2>1, <2>2 DEF NoStaleCalls
  <1>9. Exclusive'
    BY <1>1, <1>2, <1>3 DEF Exclusive, Writing
  <1> QED BY <1>4, <1>5, <1>6, <1>7, <1>8, <1>9

(* A call that ends gives back its identifier, and the gate if it held it. *)
LEMMA EndKeeps ==
  ASSUME IInv, NEW c \in Callers, calls[c].pc # "idle", Return(c),
         \/ RemovePending(calls[c].id)
         \/ UNCHANGED pending /\ calls[c].id \notin pending,
         gate' = (gate \/ calls[c].pc \in Writing),
         \/ UNCHANGED answers
         \/ calls[c].id \notin pending /\ answers' = [answers EXCEPT ![calls[c].id] = None],
         UNCHANGED <<nextID, made, reader, toServer, toClient, received>>
  PROVE  IInv'
  <1> USE DEF IInv
  <1>1. /\ calls \in [Callers -> CallRecord] /\ calls' = [calls EXCEPT ![c] = Idle]
        /\ Idle \in CallRecord /\ Idle.pc = "idle" /\ Idle.id = None /\ Idle.n = None
    BY DEF Typed, Return, Idle, CallRecord, None
  <1>2. calls'[c] = Idle /\ \A d \in Callers \ {c} : calls'[d] = calls[d]
    BY <1>1
  <1>3. pending' = pending \ {calls[c].id}
    BY DEF RemovePending
  <1>4. answers' \in [IDs -> Nat] /\ \A i \in IDs : answers'[i] \in {answers[i], None}
    BY DEF Typed, None
  <1>5. Typed'
    BY <1>1, <1>4 DEF Typed
  <1>6. Numbers'
    BY <1>1, <1>2, <1>4 DEF Numbers, Numbered
  <1>7. OwnIDs'
    <2>1. \A d, e \in Callers :
            calls'[d].pc # "idle" /\ calls'[d].id = calls'[e].id => d = e
      BY <1>1, <1>2 DEF OwnIDs, None
    <2> QED BY <1>1, <1>2, <2>1 DEF OwnIDs
  <1>8. Registered'
    <2>1. MaxCalls \in Nat /\ made \in Nat /\ made <= MaxCalls /\ 1..made \subseteq IDs
      BY RpcAssumption DEF Typed, OwnIDs, IDs
    <2> QED BY <1>3, <1>4, <2>1 DEF Registered, None
  <1>9. NoStaleCalls'
    <2>1. SUFFICES ASSUME NEW i \in pending' PROVE \E d \in Callers : i = calls'[d].id
      BY DEF NoStaleCalls
    <2>2. PICK d \in Callers : i = calls[d].id
      BY <1>3, <2>1 DEF NoStaleCalls
    <2> QED BY <1>2, <1>3, <2>2
  <1>10. Exclusive'
    BY <1>1, <1>2 DEF Typed, Exclusive, Writing
  <1> QED BY <1>5, <1>6, <1>7, <1>8, <1>9, <1>10

LEMMA EndingsKeep ==
  ASSUME IInv, NEW c \in Callers,
         Abandon(c) \/ CutWrite(c) \/ ReturnBroken(c) \/ TakeAnswer(c) \/ GiveUp(c)
  PROVE  IInv'
  <1>1. gate \in BOOLEAN
    BY DEF IInv, Typed
  <1>2. /\ calls[c].pc # "idle" /\ Return(c)
        /\ UNCHANGED <<nextID, made, reader, toServer, toClient, received>>
    BY DEF Abandon, CutWrite, ReturnBroken, TakeAnswer, GiveUp, serverVars
  <1>3. gate' = (gate \/ calls[c].pc \in Writing)
    BY <1>1 DEF Abandon, CutWrite, ReturnBroken, TakeAnswer, GiveUp, Writing
  <1>4. \/ RemovePending(calls[c].id) /\ UNCHANGED answers
        \/ /\ UNCHANGED pending /\ calls[c].id \notin pending
           /\ answers' = [answers EXCEPT ![calls[c].id] = None]
    BY DEF Abandon, CutWrite, ReturnBroken, TakeAnswer, GiveUp, IInv, Registered
  <1> QED BY <1>2, <1>3, <1>4, EndKeeps

(* A call in progress that moves on keeps its identifier. What it holds of  *)
(* the gate it passes on, and it may fail the transport.                    *)
LEMMA MoveKeeps ==
  ASSUME IInv, NEW c \in Callers, TakeGate(c) \/ Write(c) \/ BreakWrite(c)
  PROVE  IInv'
  <1> USE DEF IInv
  <1>1. PICK p \in {"write", "wait", "failing"} :
          /\ calls[c].pc # "idle" /\ calls' = [calls EXCEPT ![c].pc = p]
          /\ gate' = (p = "wait")
          /\ p = "write" <=> gate
          /\ p # "write" => calls[c].pc = "write"
    BY DEF TakeGate, Write, BreakWrite, GateOpen, Typed, Exclusive, Writing
  <1>2. /\ pending' \in SUBSET pending
        /\ UNCHANGED <<nextID, made, answers, reader, toClient, received>>
    BY DEF TakeGate, Write, BreakWrite, Fail, serverVars
  <1>3. /\ calls \in [Callers -> CallRecord]
        /\ calls' \in [Callers -> CallRecord]
        /\ calls'[c] = [calls[c] EXCEPT !.pc = p]
        /\ \A d \in Callers \ {c} : calls'[d] = calls[d]
        /\ \A d \in Callers : calls'[d].id = calls[d].id /\ calls'[d].n = calls[d].n
        /\ calls'[c].pc = p
    BY <1>1 DEF Typed, CallRecord
  <1>4. /\ toServer' \in Seq(Request)
        /\ \A i \in DOMAIN toServer' : Numbered(toServer'[i])
    <2> DEFINE r == [id |-> calls[c].id, n |-> calls[c].n]
    <2>1. CASE UNCHANGED toServer
      BY <2>1 DEF Typed, Numbers
    <2>2. CASE toServer' = Append(toServer, r)
      <3>1. r \in Request /\ Numbered(r) /\ toServer \in Seq(Request)
        BY <1>3 DEF Typed, Numbers, Numbered, CallRecord, Request
      <3> HIDE DEF r
      <3> QED BY <2>2, <3>1 DEF Numbers
    <2> QED BY <2>1, <2>2 DEF TakeGate, Write, BreakWrite
  <1>5. gate' \in BOOLEAN
    BY <1>1 DEF Typed
  <1>6. Typed'
    BY <1>2, <1>3, <1>4, <1>5 DEF Typed
  <1>7. Numbers'
    BY <1>2, <1>3, <1>4 DEF Numbers, Numbered
  <1>8. OwnIDs'
    BY <1>1, <1>2, <1>3 DEF OwnIDs
  <1>9. Registered'
    BY <1>2 DEF Registered
  <1>10. NoStaleCalls'
    BY <1>2, <1>3 DEF NoStaleCalls
  <1>11. Exclusive'
    <2>1. CASE p = "write"
      BY <1>1, <1>2, <1>3, <2>1 DEF Exclusive, Writing
    <2>2. CASE p = "wait"
      BY <1>1, <1>2, <1>3, <2>2 DEF Exclusive, Writing
    <2>3. CASE p = "failing"
      BY <1>1, <1>2, <1>3, <2>3 DEF Exclusive, Writing
    <2> QED BY <2>1, <2>2, <2>3
  <1> QED BY <1>6, <1>7, <1>8, <1>9, <1>10, <1>11

(* An answer is taken to its channel only by taking the channel out of      *)
(* pending, and all a request of the server can do is to pass the gate.     *)
LEMMA AnswerKeeps ==
  ASSUME IInv, ReadAnswer \/ Deliver
  PROVE  IInv'
  <1> USE DEF IInv
  <1>1. UNCHANGED <<calls, made, nextID, gate, toServer, received>>
    BY DEF ReadAnswer, Deliver, callVars, serverVars
  <1>2. MaxCalls \in Nat /\ made \in Nat /\ made <= MaxCalls /\ 1..made \subseteq IDs
    BY RpcAssumption DEF Typed, OwnIDs, IDs
  <1>3. CASE ReadAnswer
    <2> DEFINE m == Head(toClient)
    <2>1. /\ toClient \in Seq(Message) /\ toClient # <<>> /\ m \in Message /\ Numbered(m)
          /\ toClient' = Tail(toClient) /\ toClient' \in Seq(Message)
          /\ \A i \in DOMAIN toClient' : Numbered(toClient'[i])
      BY <1>3 DEF ReadAnswer, Typed, Numbers
    <2>2. /\ reader.pc = "read" /\ pending' = pending \ {m.id} /\ UNCHANGED answers
          /\ reader' = IF m.id \in pending
                       THEN [pc |-> "deliver", id |-> m.id, n |-> m.n] ELSE reader
      BY <1>3 DEF ReadAnswer, Claim
    <2>3. m.id \in Nat /\ m.n \in Nat /\ m.id = m.n
      BY <2>1 DEF Message, Numbered
    <2> HIDE DEF m
    <2>4. reader' \in ReaderRecord /\ Numbered(reader')
      BY <2>2, <2>3 DEF Typed, Numbers, Numbered, ReaderRecord
    <2>5. Typed' /\ Numbers'
      BY <1>1, <2>1, <2>2, <2>4 DEF Typed, Numbers, Numbered
    <2>6. OwnIDs'
      BY <1>1 DEF OwnIDs
    <2>7. Registered'
      <3>1. CASE m.id \in pending
        BY <1>1, <2>2, <3>1 DEF Registered
      <3>2. CASE m.id \notin pending
        BY <1>1, <2>2, <3>2 DEF Registered
      <3> QED BY <3>1, <3>2
    <2>8. NoStaleCalls'
      BY <1>1, <2>2 DEF NoStaleCalls
    <2>9. Exclusive'
      BY <1>1, <2>2 DEF Exclusive, Writing
    <2> QED BY <2>5, <2>6, <2>7, <2>8, <2>9
  <1>4. CASE Deliver
    <2>1. /\ reader.pc = "deliver" /\ reader.id \in 1..made /\ reader.id \notin pending
          /\ answers' = [answers EXCEPT ![reader.id] = reader.n]
          /\ reader' = [pc |-> "read", id |-> None, n |-> None]
          /\ reader.n = reader.id
          /\ UNCHANGED <<pending, toClient>>
      BY <1>4 DEF Deliver, Registered, Numbers, Numbered
    <2>2. Typed'
      BY <1>1, <1>2, <2>1 DEF Typed, ReaderRecord, None
    <2>3. Numbers'
      BY <1>1, <1>2, <2>1 DEF Typed, Numbers, Numbered, None
    <2>4. OwnIDs'
      BY <1>1 DEF OwnIDs
    <2>5. Registered'
      BY <1>1, <1>2, <2>1 DEF Typed, Registered
    <2>6. NoStaleCalls' /\ Exclusive'
      BY <1>1, <2>1 DEF NoStaleCalls, Exclusive, Writing
    <2> QED BY <2>2, <2>3, <2>4, <2>5, <2>6
  <1> QED BY <1>3, <1>4

(* Every other step of the reading goroutine changes its place alone, the   *)
(* gate as its place says, the streams, or fails the transport.             *)
LEMMA ReaderKeeps ==
  ASSUME IInv, ReaderStep, ~ReadAnswer, ~Deliver
  PROVE  IInv'
  <1> USE DEF IInv
  <1> DEFINE Reading == ReadNotification \/ ReadRequest \/ AbandonReply \/ ReadGarbage \/ ReadEnd
             Writes  == WriteReply \/ CutReply \/ ReturnBrokenReply
  <1>1. /\ pending' \in SUBSET pending
        /\ UNCHANGED <<calls, made, nextID, answers, received>>
    BY DEF ReaderStep, ReadNotification, ReadRequest, ReplyTakesGate, AbandonReply,
       WriteReply, CutReply, BreakReply, ReturnBrokenReply, ReadGarbage, ReadEnd,
       EndReading, Fail, callVars, serverVars
  <1>2. PICK p \in {"read", "gate", "write", "failing", "ended"} :
          /\ reader' = [reader EXCEPT !.pc = p] /\ reader.pc # "deliver"
          /\ \/ UNCHANGED gate /\ reader.pc \notin Writing /\ p \notin Writing
             \/ gate /\ gate' = FALSE /\ p = "write"
             \/ UNCHANGED gate /\ reader.pc = "write" /\ p = "failing"
             \/ gate' = TRUE /\ reader.pc \in Writing /\ p = "read"
    <2>1. reader = [reader EXCEPT !.pc = reader.pc]
      BY DEF Typed, ReaderRecord
    <2>2. CASE ReadNotification
      BY <2>1, <2>2 DEF ReadNotification, Writing
    <2>3. CASE ReadRequest \/ AbandonReply \/ ReadGarbage \/ ReadEnd
      BY <2>3 DEF ReadRequest, AbandonReply, ReadGarbage, ReadEnd, EndReading, Writing
    <2>4. CASE ReplyTakesGate
      BY <2>4 DEF ReplyTakesGate, GateOpen, Typed
    <2>5. CASE BreakReply
      BY <2>5 DEF BreakReply
    <2>6. CASE Writes
      BY <2>6 DEF WriteReply, CutReply, ReturnBrokenReply, Writing
    <2> QED BY <2>2, <2>3, <2>4, <2>5, <2>6 DEF ReaderStep
  <1>3. reader' \in ReaderRecord /\ Numbered(reader') /\ reader'.pc = p
    BY <1>2 DEF Typed, Numbers, Numbered, ReaderRecord
  <1>4. gate' \in BOOLEAN
    BY <1>2 DEF Typed
  <1>5. /\ toClient' \in Seq(Message) /\ \A i \in DOMAIN toClient' : Numbered(toClient'[i])
    <2>1. CASE UNCHANGED toClient
      BY <2>1 DEF Typed, Numbers
    <2>2. CASE toClient # <<>> /\ toClient' = Tail(toClient)
      BY <2>2 DEF Typed, Numbers
    <2> QED BY <2>1, <2>2 DEF ReaderStep, ReadNotification, ReadRequest, ReplyTakesGate,
          AbandonReply, WriteReply, CutReply, BreakReply, ReturnBrokenReply, ReadGarbage,
          ReadEnd, EndReading
  <1>6. /\ toServer' \in Seq(Request) /\ \A i \in DOMAIN toServer' : Numbered(toServer'[i])
    <2>1. CASE UNCHANGED toServer
      BY <2>1 DEF Typed, Numbers
    <2>2. CASE toServer' = Append(toServer, Reply)
      <3>1. Reply \in Request /\ Numbered(Reply) /\ toServer \in Seq(Request)
        BY DEF Typed, Reply, Request, Numbered, None
      <3> QED BY <2>2, <3>1 DEF Numbers
    <2> QED BY <2>1, <2>2 DEF ReaderStep, ReadNotification, ReadRequest, ReplyTakesGate,
          AbandonReply, WriteReply, CutReply, BreakReply, ReturnBrokenReply, ReadGarbage,
          ReadEnd, EndReading
  <1>7. Typed' /\ Numbers'
    BY <1>1, <1>3, <1>4, <1>5, <1>6 DEF Typed, Numbers
  <1>8. OwnIDs' /\ NoStaleCalls'
    BY <1>1 DEF OwnIDs, NoStaleCalls
  <1>9. Registered'
    BY <1>1, <1>3 DEF Registered
  <1>10. Exclusive'
    <2>1. UNCHANGED calls
      BY <1>1
    <2> QED BY <1>2, <1>3, <2>1 DEF Exclusive, Writing
  <1> QED BY <1>7, <1>8, <1>9, <1>10

(* The server, Close and the ends of the transport. *)
LEMMA OthersKeep ==
  ASSUME IInv,
         \/ CloseDone \/ ChildExited \/ Close \/ FinishClose \/ TakeNotification
         \/ ServerReads \/ ServerSends \/ ServerExits \/ UNCHANGED vars
  PROVE  IInv'
  <1> USE DEF IInv
  <1>1. /\ pending' \in SUBSET pending
        /\ UNCHANGED <<calls, made, nextID, answers, gate, reader>>
    BY DEF CloseDone, ChildExited, Close, FinishClose, TakeNotification, ServerReads,
       ServerSends, ServerExits, Fail, callVars, vars
  <1>2. OwnIDs' /\ NoStaleCalls' /\ Registered' /\ Exclusive'
    BY <1>1 DEF OwnIDs, NoStaleCalls, Registered, Exclusive
  <1>3. CASE UNCHANGED <<toServer, toClient, received>>
    BY <1>1, <1>2, <1>3 DEF Typed, Numbers, Numbered
  <1>4. CASE ServerReads
    <2>1. /\ toServer \in Seq(Request) /\ toServer # <<>> /\ UNCHANGED toClient
          /\ toServer' = Tail(toServer)
          /\ received' = received \cup ({Head(toServer)} \ {Reply})
      BY <1>4 DEF ServerReads, Typed
    <2>2. /\ toServer' \in Seq(Request) /\ Head(toServer) \in Request
          /\ Numbered(Head(toServer)) /\ \A i \in DOMAIN toServer' : Numbered(toServer'[i])
      BY <2>1 DEF Numbers
    <2> QED BY <1>1, <1>2, <2>1, <2>2 DEF Typed, Numbers, Numbered
  <1>5. CASE ServerSends
    <2>1. PICK m \in Unaskeds \cup {Answer(r) : r \in received} :
            toClient' = Append(toClient, m) /\ UNCHANGED <<toServer, received>>
      BY <1>5 DEF ServerSends
    <2>2. m \in Message /\ Numbered(m) /\ toClient \in Seq(Message)
      BY DEF Unaskeds, Unasked, Answer, Message, Request, Numbered, Typed, Numbers, None
    <2>3. toClient' \in Seq(Message) /\ \A i \in DOMAIN toClient' : Numbered(toClient'[i])
      BY <2>1, <2>2 DEF Numbers
    <2> QED BY <1>1, <1>2, <2>1, <2>3 DEF Typed, Numbers, Numbered
  <1> QED BY <1>3, <1>4, <1>5 DEF CloseDone, ChildExited, Close, FinishClose,
        TakeNotification, ServerExits, serverVars, vars

(* IInv is inductive. *)
LEMMA StepIInv == IInv /\ [Next]_vars => IInv'
  <1> SUFFICES ASSUME IInv, [Next]_vars PROVE IInv'
    OBVIOUS
  <1>1. CASE \E c \in Callers : Register(c) \/ CallStep(c)
    BY <1>1, RegisterKeeps, EndingsKeep, MoveKeeps DEF CallStep
  <1>2. CASE ReaderStep
    BY <1>2, AnswerKeeps, ReaderKeeps
  <1>3. CASE ~(\E c \in Callers : Register(c) \/ CallStep(c)) /\ ~ReaderStep
    BY <1>3, OthersKeep DEF Next
  <1> QED BY <1>1, <1>2, <1>3

LEMMA Invariance == Spec => []IInv
  BY InitIInv, StepIInv, PTL DEF Spec

-----------------------------------------------------------------------------
LEMMA RegisterTypes ==
  ASSUME IInv, TypeOK, NEW c \in Callers, Register(c)
  PROVE  TypeOK'
  <1>1. /\ made + 1 \in IDs /\ nextID = made + 1 /\ made + 1 \in 0..MaxCalls
    BY RpcAssumption DEF Register, IInv, Typed, TypeOK, IDs
  <1>2. CallTypes'
    BY <1>1, RpcAssumption DEF Register, TypeOK, CallTypes, Calls, FreshID, IDs, None
  <1>3. ScalarTypes' /\ StreamTypes'
    BY DEF Register, TypeOK, ScalarTypes, StreamTypes, serverVars
  <1> QED BY <1>2, <1>3 DEF TypeOK

LEMMA CallTypesKept ==
  ASSUME IInv, TypeOK, NEW c \in Callers, CallStep(c)
  PROVE  TypeOK'
  <1>1. CallTypes'
    <2>1. UNCHANGED <<nextID, made>> /\ pending' \subseteq pending
      BY DEF CallStep, TakeGate, Abandon, Write, CutWrite, BreakWrite, ReturnBroken,
         TakeAnswer, GiveUp, RemovePending, Fail
    <2>2. UNCHANGED answers \/ answers' = [answers EXCEPT ![calls[c].id] = None]
      BY DEF CallStep, TakeGate, Abandon, Write, CutWrite, BreakWrite, ReturnBroken,
         TakeAnswer, GiveUp
    <2>3. \/ calls' = [calls EXCEPT ![c] = Idle]
          \/ \E pc \in {"write", "wait", "failing"} : calls' = [calls EXCEPT ![c].pc = pc]
      BY DEF CallStep, TakeGate, Abandon, Write, CutWrite, BreakWrite, ReturnBroken,
         TakeAnswer, GiveUp, Return
    <2>4. Idle \in Calls /\ None \in 0..MaxCalls
      BY RpcAssumption DEF Idle, Calls, None
    <2>5. calls' \in [Callers -> Calls]
      <3>1. CASE calls' = [calls EXCEPT ![c] = Idle]
        BY <2>4, <3>1 DEF TypeOK, CallTypes
      <3>2. ASSUME NEW pc \in {"write", "wait", "failing"}, calls' = [calls EXCEPT ![c].pc = pc]
            PROVE  calls' \in [Callers -> Calls]
        BY <3>2 DEF TypeOK, CallTypes, Calls
      <3> QED BY <2>3, <3>1, <3>2
    <2> QED BY <2>1, <2>2, <2>4, <2>5 DEF TypeOK, CallTypes
  <1>2. ScalarTypes'
    BY DEF CallStep, TakeGate, Abandon, Write, CutWrite, BreakWrite, ReturnBroken, TakeAnswer,
       GiveUp, Fail, serverVars, TypeOK, ScalarTypes
  <1>3. StreamTypes'
    <2>1. UNCHANGED <<reader, toClient, received>>
      BY DEF CallStep, TakeGate, Abandon, Write, CutWrite, BreakWrite, ReturnBroken,
         TakeAnswer, GiveUp, serverVars
    <2>2. toServer' \in Seq(Line)
      <3>1. CASE UNCHANGED toServer
        BY <3>1 DEF TypeOK, StreamTypes
      <3>2. CASE toServer' = Append(toServer, [id |-> calls[c].id, n |-> calls[c].n])
        <4>1. [id |-> calls[c].id, n |-> calls[c].n] \in Line /\ toServer \in Seq(Line)
          BY DEF TypeOK, CallTypes, StreamTypes, Calls, Line
        <4> QED BY <3>2, <4>1
      <3> QED BY <3>1, <3>2 DEF CallStep, TakeGate, Abandon, Write, CutWrite, BreakWrite,
            ReturnBroken, TakeAnswer, GiveUp
    <2> QED BY <2>1, <2>2 DEF TypeOK, StreamTypes
  <1> QED BY <1>1, <1>2, <1>3 DEF TypeOK

LEMMA ReaderTypesKept ==
  ASSUME IInv, TypeOK, ReaderStep
  PROVE  TypeOK'
  <1> USE DEF ReaderStep, ReadAnswer, Deliver, ReadNotification, ReadRequest, ReplyTakesGate,
      AbandonReply, WriteReply, CutReply, BreakReply, ReturnBrokenReply, ReadGarbage, ReadEnd,
      EndReading
  <1>1. toClient # <<>> => Head(toClient) \in ServerMessage /\ Tail(toClient) \in Seq(ServerMessage)
    BY DEF TypeOK, StreamTypes
  <1>2. CallTypes'
    <2>1. UNCHANGED <<calls, nextID, made>> /\ pending' \subseteq pending
      BY DEF Claim, Fail, callVars
    <2>2. UNCHANGED answers \/ answers' = [answers EXCEPT ![reader.id] = reader.n]
      OBVIOUS
    <2>3. reader.n \in 0..MaxCalls
      BY DEF TypeOK, StreamTypes, ReaderState
    <2> QED BY <2>1, <2>2, <2>3 DEF TypeOK, CallTypes
  <1>3. ScalarTypes'
    <2>1. UNCHANGED <<stream, done, closer, sent>> /\ notified' \in {notified, 1}
      BY DEF Coalesce, serverVars
    <2>2. gate' \in {gate, TRUE, FALSE} /\ up' \in {up, FALSE}
      OBVIOUS
    <2>3. readErr' \in {readErr, "closed", "protocol"}
      BY DEF Fail
    <2>4. notified' \in 0..1 /\ sent' \in 0..MaxMessages
      BY <2>1 DEF TypeOK, ScalarTypes
    <2>5. gate' \in BOOLEAN /\ done' \in BOOLEAN /\ up' \in BOOLEAN
      BY <2>1, <2>2, Zenon DEF TypeOK, ScalarTypes
    <2> QED BY <2>1, <2>3, <2>4, <2>5, Zenon DEF TypeOK, ScalarTypes
  <1>4. StreamTypes'
    <2>1. reader' \in ReaderState
      <3>1. reader \in ReaderState /\ None \in 0..MaxCalls
        BY RpcAssumption DEF TypeOK, StreamTypes, None
      <3>2. CASE ReadAnswer
        BY <1>1, <3>1, <3>2 DEF ReaderState, ServerMessage
      <3>3. CASE Deliver
        BY <3>1, <3>3 DEF ReaderState
      <3>4. CASE \E pc \in {"read", "gate", "write", "failing", "ended"} :
                   reader' = [reader EXCEPT !.pc = pc]
        BY <3>1, <3>4 DEF ReaderState
      <3>5. CASE UNCHANGED reader
        BY <3>1, <3>5
      <3> QED BY <3>2, <3>3, <3>4, <3>5
    <2>2. toServer' \in Seq(Line)
      <3>1. toServer \in Seq(Line) /\ Reply \in Line
        BY RpcAssumption DEF TypeOK, StreamTypes, Line, Reply, None
      <3>2. Append(toServer, Reply) \in Seq(Line)
        BY <3>1
      <3> QED BY <3>1, <3>2
    <2>3. toClient' \in Seq(ServerMessage)
      BY <1>1 DEF TypeOK, StreamTypes
    <2>4. UNCHANGED received
      BY DEF serverVars
    <2> QED BY <2>1, <2>2, <2>3, <2>4 DEF TypeOK, StreamTypes
  <1> QED BY <1>2, <1>3, <1>4 DEF TypeOK

LEMMA OtherTypesKept ==
  ASSUME IInv, TypeOK,
         \/ CloseDone \/ ChildExited \/ Close \/ FinishClose \/ TakeNotification
         \/ ServerReads \/ ServerSends \/ ServerExits \/ UNCHANGED vars
  PROVE  TypeOK'
  <1> USE DEF CloseDone, ChildExited, Close, FinishClose, TakeNotification, ServerReads,
      ServerSends, ServerExits, vars
  <1>1. CallTypes'
    BY DEF Fail, callVars, TypeOK, CallTypes
  <1>2. ScalarTypes'
    <2>1. UNCHANGED <<stream, gate>> /\ done' \in {done, TRUE} /\ up' \in {up, FALSE}
      BY DEF CloseTransport
    <2>2. readErr' \in {readErr, "closed"} /\ closer' \in {closer, "failing", "closed"}
      BY DEF Fail
    <2>3. notified' \in 0..1 /\ sent' \in 0..MaxMessages
      BY RpcAssumption DEF serverVars, TypeOK, ScalarTypes
    <2> QED BY <2>1, <2>2, <2>3 DEF TypeOK, ScalarTypes
  <1>3. StreamTypes'
    <2>1. UNCHANGED reader
      OBVIOUS
    <2>2. CASE UNCHANGED <<toServer, toClient, received>>
      BY <2>1, <2>2 DEF TypeOK, StreamTypes
    <2>3. CASE ServerReads
      <3>1. toServer \in Seq(Line) /\ toServer # <<>>
        BY <2>3 DEF TypeOK, StreamTypes
      <3>2. Head(toServer) \in Line /\ Numbered(Head(toServer)) /\ Tail(toServer) \in Seq(Line)
        BY <3>1 DEF IInv, Numbers
      <3>3. Head(toServer) # Reply => Head(toServer) \in [id : IDs, n : IDs]
        BY <3>2, RpcAssumption DEF Line, Numbered, Reply, None, IDs
      <3> QED BY <2>1, <2>3, <3>2, <3>3 DEF TypeOK, StreamTypes
    <2>4. CASE ServerSends
      <3>1. PICK m \in Unaskeds \cup {Answer(r) : r \in received} :
              toClient' = Append(toClient, m) /\ UNCHANGED <<toServer, received>>
        BY <2>4
      <3>2. m \in ServerMessage /\ toClient \in Seq(ServerMessage)
        BY RpcAssumption DEF TypeOK, StreamTypes, Unaskeds, Unasked, Answer, ServerMessage, None, IDs
      <3>3. toClient' \in Seq(ServerMessage)
        BY <3>1, <3>2
      <3> QED BY <2>1, <3>1, <3>3 DEF TypeOK, StreamTypes
    <2> QED BY <2>2, <2>3, <2>4 DEF serverVars
  <1> QED BY <1>1, <1>2, <1>3 DEF TypeOK

(* Every variable of the client keeps the type of its Go counterpart; in    *)
(* particular the buffered notification never outgrows its channel.         *)
THEOREM TypeCorrect == Spec => []TypeOK
  <1>1. Init => TypeOK
    <2> SUFFICES ASSUME Init PROVE TypeOK
      OBVIOUS
    <2>1. CallTypes
      BY RpcAssumption DEF Init, CallTypes, Calls, Idle, IDs, None
    <2>2. ScalarTypes
      <3>1. notified \in 0..1 /\ sent \in 0..MaxMessages
        BY RpcAssumption DEF Init
      <3>2. gate \in BOOLEAN /\ done \in BOOLEAN /\ up \in BOOLEAN
        BY DEF Init
      <3> QED BY <3>1, <3>2 DEF Init, ScalarTypes
    <2>3. StreamTypes
      BY RpcAssumption DEF Init, StreamTypes, ReaderState, None
    <2> QED BY <2>1, <2>2, <2>3 DEF TypeOK
  <1>2. IInv /\ TypeOK /\ [Next]_vars => TypeOK'
    <2> SUFFICES ASSUME IInv, TypeOK, [Next]_vars PROVE TypeOK'
      OBVIOUS
    <2>1. CASE \E c \in Callers : Register(c) \/ CallStep(c)
      BY <2>1, RegisterTypes, CallTypesKept
    <2>2. CASE ReaderStep
      BY <2>2, ReaderTypesKept
    <2>3. CASE ~(\E c \in Callers : Register(c) \/ CallStep(c)) /\ ~ReaderStep
      BY <2>3, OtherTypesKept DEF Next
    <2> QED BY <2>1, <2>2, <2>3
  <1> QED BY <1>1, <1>2, Invariance, PTL DEF Spec

-----------------------------------------------------------------------------
(* A call only ever gets the answer to its own request, however late the    *)
(* answers to earlier calls of Client.call arrive.                          *)
THEOREM AnswersBelong == Spec => []AnswersMatch
  <1>1. IInv => AnswersMatch
    <2> SUFFICES ASSUME IInv, NEW c \in Callers, calls[c].pc # "idle"
                 PROVE  answers[calls[c].id] \in {None, calls[c].n}
      BY DEF AnswersMatch
    <2>1. calls[c].id \in IDs
      BY RpcAssumption DEF IInv, Typed, OwnIDs, IDs
    <2> QED BY <2>1 DEF IInv, Numbers, Numbered
  <1> QED BY <1>1, Invariance, PTL

(* readLoop never blocks on the channel of a call, whatever is repeated.    *)
THEOREM ReaderHasRoom == Spec => []AnswersHaveRoom
  <1>1. IInv => AnswersHaveRoom
    BY DEF IInv, Registered, AnswersHaveRoom
  <1> QED BY <1>1, Invariance, PTL

(* Every channel in Client.pending belongs to a call in progress.           *)
THEOREM NothingStale == Spec => []NoStaleCalls
  <1>1. IInv => NoStaleCalls
    BY DEF IInv
  <1> QED BY <1>1, Invariance, PTL

(* At most one goroutine writes, and it holds the token of writeGate.       *)
THEOREM OneWriter == Spec => []WritesExclusive
  <1>1. IInv => WritesExclusive
    <2> SUFFICES ASSUME IInv PROVE WritesExclusive
      OBVIOUS
    <2>1. CASE gate
      BY <2>1 DEF IInv, Exclusive, WritesExclusive, Writers, Writing
    <2>2. CASE ~gate /\ reader.pc \in Writing
      BY <2>2 DEF IInv, Exclusive, WritesExclusive, Writers, Writing
    <2>3. CASE ~gate /\ reader.pc \notin Writing
      <3>1. PICK c \in Callers : calls[c].pc \in Writing
        BY <2>3 DEF IInv, Exclusive
      <3>2. Writers = {c}
        BY <2>3, <3>1 DEF IInv, Exclusive, Writers, Writing
      <3> QED BY <2>3, <3>2 DEF WritesExclusive
    <2> QED BY <2>1, <2>2, <2>3
  <1> QED BY <1>1, Invariance, PTL
=============================================================================
