------------------------ MODULE PTPTransactionProofs ------------------------
(***************************************************************************)
(* Proofs about PTPTransaction: its types, that it implements              *)
(* RequestResponse, that a call which returns OK leaves both sides in      *)
(* step, and that the next call's data are then its own - for any          *)
(* operations, any number of calls and sessions, and containers of any     *)
(* length.                                                                 *)
(*                                                                         *)
(* What makes an OK the call's own is that a response with the id of the   *)
(* call at work answers this call, or for an opening a repetition of it:   *)
(* whatever was sent before has a smaller id.  So the invariant keeps      *)
(* account of the ids of everything in flight, be it a request the device  *)
(* has not dealt with, a response on its way, or one read ahead            *)
(* (Accounted), of their order (Last, and Behind when the request was      *)
(* written again), and, after an OK, of whose they are (OnlyOwn).          *)
(***************************************************************************)
EXTENDS PTPTransaction, TLAPS

-----------------------------------------------------------------------------
(* The inductive invariant.                                                 *)

\* Where a call is, and what it has left to do.
Shape ==
  /\ pc = "idle" <=> told # "none"
  /\ since <= call
  /\ op = "none" => pc = "idle" /\ session = "opening"
  /\ op # "none" => call >= 1 /\ transactionId = id + 1
  /\ session = "closed" => pc = "idle" /\ op = "CloseSession"
  /\ session = "opening" /\ op # "OpenSession" => pc = "idle"
  /\ op = "OpenSession" => id = 0
  /\ session # "opening" => op # "none"
  /\ pc \in {"dataMore", "drain"} => left >= 1
  /\ pc = "dataOut" => inbox # <<>> /\ ~inbox[Len(inbox)].complete

\* A request that carries the id of the call at work is one of its own.
OwnId(r, n, from) == r.id <= n /\ (r.id = n => r.call >= from)

\* A response that carries it means that the device has done one of them.
Earned(p, n, isDone) ==
  p.kind = "resp" => p.id <= n /\ (p.id = n /\ p.code = "ok" => isDone)

Fine(p, n, isDone) ==
  Earned(p, n, isDone) /\ (p.kind = "data" => Earned(p.surplus, n, isDone))

\* A session is about to be opened over empty pipes, and what was read ahead
\* will be forgotten.
Fresh == session = "opening" /\ op # "OpenSession"

Accounted ==
  ~crossed =>
    /\ \A i \in DOMAIN inbox : OwnId(inbox[i], id, since)
    /\ \A i \in DOMAIN pipe : Fine(pipe[i], id, done)
    /\ Earned(buffer, id, done) \/ Fresh
    /\ Fresh => inbox = <<>> /\ pipe = <<>>

OkIsDone ==
  told = "ok" /\ op # "CloseSession" /\ ~crossed => done

\* A packet with the id n of a call, or such a response with it.
Bears(p, n) ==
  \/ p.kind = "resp" /\ p.id = n
  \/ p.kind = "data" /\ p.surplus.kind = "resp" /\ p.surplus.id = n

\* The answer of the call at work is the last that can come, if its request
\* was written once.
Last ==
  ~crossed /\ do_retry /\ op \notin {"OpenSession", "none"} =>
    /\ \A i \in DOMAIN inbox :
         inbox[i].id = id => pc # "request" /\ i = Len(inbox)
    /\ \A i \in DOMAIN pipe :
         Bears(pipe[i], id) => pc # "request" /\ i = Len(pipe) /\ inbox = <<>>
    /\ Bears(buffer, id) => pc # "request" /\ pipe = <<>> /\ inbox = <<>>

OwnRequests(box) == \A i \in DOMAIN box : box[i].id = id /\ box[i].call = call

\* What follows the request of the call at work, or its answer, is its own.
BehindRequest(box) ==
  \A i, j \in DOMAIN box :
    i <= j /\ box[i].id = id => box[j].id = id /\ box[j].call = call

BehindAnswer(line, box) ==
  \A i, j \in DOMAIN line :
    i <= j /\ Bears(line[i], id) => line[j].call = call /\ OwnRequests(box)

\* So it is however often the request was written.
Behind ==
  ~crossed /\ op \notin {"OpenSession", "none"} =>
    /\ BehindRequest(inbox)
    /\ BehindAnswer(pipe, inbox)
    /\ Bears(buffer, id) =>
         (\A i \in DOMAIN pipe : pipe[i].call = call) /\ OwnRequests(inbox)

\* After a call that returned OK all that is in flight is of the call at work.
OnlyOwn ==
  ~crossed /\ afterOk =>
    /\ \A i \in DOMAIN inbox : inbox[i].call = call /\ inbox[i].op = op
    /\ \A i \in DOMAIN pipe : pipe[i].call = call
    /\ \A i \in DOMAIN data : data[i] = call

\* Then, as long as a get has no data, it has not read over them either.
DataComes ==
  ~crossed /\ afterOk /\ op \in Gets /\ data = <<>> =>
    /\ pc \in {"request", "dataIn"} =>
         /\ buffer = NoPacket
         /\ pipe # <<>> => ~(pipe[1].kind = "resp" /\ pipe[1].code = "ok")
    /\ pc = "resp" => buffer.kind = "resp" /\ buffer.code = "refused"
    /\ pc \notin {"dataOut", "dataMore"}
    /\ told # "ok"

\* A session whose close has been tried is not used any more.
ClosedIsLeft == op = "CloseSession" /\ pc = "idle" => session # "open"

IInv ==
  /\ TypeOK /\ Shape /\ ClosedIsLeft
  /\ Accounted /\ OkIsDone
  /\ Last /\ Behind /\ OkResynchronises
  /\ OnlyOwn /\ DataComes

-----------------------------------------------------------------------------
(* Sequences of packets.                                                    *)

LEMMA TailParts ==
  ASSUME NEW S, NEW s \in Seq(S), s # <<>>
  PROVE  /\ Head(s) \in S /\ Head(s) = s[1] /\ 1 \in DOMAIN s
         /\ Tail(s) \in Seq(S)
         /\ \A i \in DOMAIN Tail(s) : i + 1 \in DOMAIN s /\ Tail(s)[i] = s[i + 1]
OBVIOUS

LEMMA RestParts ==
  ASSUME NEW S, NEW s \in Seq(S), NEW n \in 1..Len(s)
  PROVE  /\ SubSeq(s, n + 1, Len(s)) \in Seq(S)
         /\ \A i \in DOMAIN SubSeq(s, n + 1, Len(s)) :
              i + n \in DOMAIN s /\ SubSeq(s, n + 1, Len(s))[i] = s[i + n]
OBVIOUS

LEMMA FrontParts ==
  ASSUME NEW S, NEW s \in Seq(S), s # <<>>
  PROVE  /\ SubSeq(s, 1, Len(s) - 1) \in Seq(S)
         /\ \A i \in DOMAIN SubSeq(s, 1, Len(s) - 1) :
              i \in DOMAIN s /\ SubSeq(s, 1, Len(s) - 1)[i] = s[i]
OBVIOUS

LEMMA ConcatParts ==
  ASSUME NEW S, NEW s \in Seq(S), NEW t \in Seq(S)
  PROVE  /\ s \o t \in Seq(S)
         /\ \A i \in DOMAIN (s \o t) :
              \/ i \in DOMAIN s /\ (s \o t)[i] = s[i]
              \/ i - Len(s) \in DOMAIN t /\ (s \o t)[i] = t[i - Len(s)]
OBVIOUS

-----------------------------------------------------------------------------
(* Packets.                                                                 *)

LEMMA PacketParts ==
  ASSUME NEW p \in Packet
  PROVE  /\ p.kind \in {"resp", "data", "more"} /\ p.call \in Calls
         /\ p.kind = "resp" => p \in Response /\ p.id \in Nat /\ p.code \in {"ok", "refused"}
         /\ p.kind = "data" => /\ p.op \in Gets /\ p.more \in 0..MaxMore
                               /\ p.surplus \in Response \cup {NoPacket}
BY DEF Packet, Response, Data, More

(* What the device sends for a request: packets whose responses carry its   *)
(* id.                                                                      *)
Carries(p, n) ==
  /\ p \in Packet
  /\ p.kind = "resp" => p.id = n
  /\ p.kind = "data" /\ p.surplus.kind = "resp" => p.surplus.id = n

LEMMA ResponseParts ==
  ASSUME NEW r \in Request, NEW code \in {"ok", "refused"}
  PROVE  /\ Answered(r, code) \in Response
         /\ Answered(r, code).kind = "resp" /\ Answered(r, code).id = r.id
         /\ Carries(Answered(r, code), r.id)
BY DEF Answered, Response, Request, Packet, Carries

LEMMA ContainerParts ==
  ASSUME TransactionAssumption, NEW r \in Request, r.op \in Gets, NEW n \in 0..MaxMore,
         NEW surplus \in Response \cup {NoPacket},
         surplus.kind = "resp" => surplus.id = r.id
  PROVE  /\ Container(r, n, surplus) \in Seq(Packet)
         /\ \A i \in DOMAIN Container(r, n, surplus) :
              Carries(Container(r, n, surplus)[i], r.id)
<1> DEFINE d == [kind |-> "data", call |-> r.call, op |-> r.op, more |-> n, surplus |-> surplus]
           m == [kind |-> "more", call |-> r.call]
           rest == [i \in 1..n |-> m]
<1>1. d \in Packet /\ m \in Packet
  BY DEF Packet, Data, More, Request
<1>2. <<d>> \in Seq(Packet) /\ rest \in Seq(Packet)
  <2>1. n \in Nat
    BY DEF TransactionAssumption
  <2> QED BY <1>1, <2>1
<1>3. Carries(d, r.id) /\ Carries(m, r.id)
  BY <1>1 DEF Carries
<1>4. DOMAIN <<d>> = {1} /\ <<d>>[1] = d /\ DOMAIN rest = 1..n /\ \A i \in 1..n : rest[i] = m
  OBVIOUS
<1>5. Container(r, n, surplus) = <<d>> \o rest
  BY DEF Container
<1> HIDE DEF d, m, rest
<1> QED BY <1>2, <1>3, <1>4, <1>5, ConcatParts

LEMMA AnswerParts ==
  ASSUME TransactionAssumption, NEW r \in Request, NEW answer \in Answers(r)
  PROVE  /\ answer \in Seq(Packet)
         /\ \A i \in DOMAIN answer : Carries(answer[i], r.id)
<1> DEFINE ok == Answered(r, "ok")
<1>1. ok \in Response /\ ok.id = r.id /\ Carries(ok, r.id) /\ ok \in Packet
  BY ResponseParts DEF Packet
<1>2. <<ok>> \in Seq(Packet) /\ DOMAIN <<ok>> = {1} /\ <<ok>>[1] = ok
  BY <1>1
<1>3. NoPacket.kind # "resp"
  BY DEF NoPacket
<1> HIDE DEF ok
<1>4. CASE r.op \notin Gets
  BY <1>1, <1>2, <1>4 DEF Answers, ok
<1>5. CASE r.op \in Gets
  <2>1. CASE answer = Container(r, 0, ok)
    <3>1. 0 \in 0..MaxMore
      BY DEF TransactionAssumption
    <3> QED BY <1>1, <1>5, <2>1, <3>1, ContainerParts
  <2>2. ASSUME NEW n \in 0..MaxMore, answer = Container(r, n, NoPacket) \o <<ok>>
        PROVE  /\ answer \in Seq(Packet)
               /\ \A i \in DOMAIN answer : Carries(answer[i], r.id)
    <3> DEFINE c == Container(r, n, NoPacket)
    <3>1. c \in Seq(Packet) /\ \A i \in DOMAIN c : Carries(c[i], r.id)
      BY <1>3, <1>5, ContainerParts
    <3> HIDE DEF c
    <3>2. answer = c \o <<ok>>
      BY <2>2 DEF c
    <3> QED BY <1>1, <1>2, <3>1, <3>2, ConcatParts
  <2> QED BY <1>5, <2>1, <2>2 DEF Answers, ok
<1> QED BY <1>4, <1>5

-----------------------------------------------------------------------------
(* The types.                                                               *)

LEMMA InitType == ASSUME TransactionAssumption, Init PROVE TypeOK
<1>1. 1 \in 1..MaxSessions /\ 0 \in 0..MaxMore /\ 0 \in 0..MaxCalls /\ 0 \in 0..3
  BY DEF TransactionAssumption
<1>2. <<>> \in Seq(Request) /\ <<>> \in Seq(Packet) /\ <<>> \in Seq(Calls)
  OBVIOUS
<1>3. /\ done \in BOOLEAN /\ refused \in BOOLEAN /\ afterOk \in BOOLEAN /\ crossed \in BOOLEAN
      /\ do_retry \in BOOLEAN
  BY DEF Init
<1>4. retries \in 0..MaxRetries
  BY DEF Init, TransactionAssumption
<1> QED BY <1>1, <1>2, <1>3, <1>4 DEF Init, TypeOK

\* What is left when a read has taken the first packet.
LEMMA FirstParts ==
  ASSUME TypeOK, Arrived
  PROVE  /\ First \in Packet
         /\ PipeAfter \in Seq(Packet)
<1>1. CASE buffer # NoPacket
  BY <1>1 DEF TypeOK, First, PipeAfter, Packet
<1>2. CASE buffer = NoPacket
  <2>1. pipe \in Seq(Packet) /\ pipe # <<>>
    BY <1>2 DEF Arrived, TypeOK
  <2> QED BY <1>2, <2>1, TailParts DEF First, PipeAfter
<1> QED BY <1>1, <1>2

LEMMA BeginType ==
  ASSUME TransactionAssumption, TypeOK, Shape, NEW o \in Ops, NEW next \in Nat,
         Begin(o, next)
  PROVE  /\ transactionId' \in Nat /\ id' \in Nat /\ op' \in Ops
         /\ call' \in 1..MaxCalls /\ call' = call + 1 /\ pc' = "request" /\ told' = "none"
         /\ data' \in Seq(Calls)
         /\ left' = left /\ tries' = tries /\ inbox' = inbox /\ pipe' = pipe
         /\ session' = session /\ sessions' = sessions /\ crossed' = crossed
         /\ op' = o /\ id' = next /\ transactionId' = next + 1 /\ pc = "idle"
         /\ call' \in Calls
BY DEF Begin, TypeOK, TransactionAssumption, application, Calls, Ops, Work

LEMMA BeginRetry ==
  ASSUME TypeOK, NEW o, NEW next, Begin(o, next)
  PROVE  do_retry' \in BOOLEAN /\ retries' \in 0..MaxRetries
BY DEF Begin, TypeOK

LEMMA ReturnType ==
  ASSUME TransactionAssumption, TypeOK, NEW outcome \in {"ok", "refused", "failed"},
         Return(outcome)
  PROVE  /\ pc' = "idle" /\ told' = outcome
         /\ session' \in {"opening", "open", "closed"}
         /\ left' \in 0..MaxMore /\ tries' \in 0..3
BY DEF Return, TypeOK, TransactionAssumption

LEMMA DeliverType ==
  ASSUME TypeOK, NEW p \in Packet, Deliver(p)
  PROVE  data' \in Seq(Calls)
<1>1. p.call \in Calls
  BY PacketParts
<1> QED BY <1>1 DEF Deliver, TypeOK

LEMMA DeliverSome ==
  ASSUME TypeOK, NEW p \in Packet, Deliver(p)
  PROVE  data' # <<>>
<1>1. data \in Seq(Calls) /\ p.call \in Calls
  BY PacketParts DEF TypeOK
<1> QED BY <1>1 DEF Deliver

LEMMA InboxType ==
  ASSUME TransactionAssumption, TypeOK, Shape, pc # "idle"
  PROVE  /\ Accepted \in Seq(Request)
         /\ inbox # <<>> => Completed \in Seq(Request)
<1>1. Kept \in Seq(Request)
  BY FrontParts DEF Kept, TypeOK
<1>2. [call |-> call, op |-> op, id |-> id, complete |-> op \notin Puts] \in Request
  BY DEF Request, TypeOK, Shape, Calls
<1>3. ASSUME inbox # <<>>
      PROVE  Completed \in Seq(Request)
  <2>1. inbox \in Seq(Request) /\ Len(inbox) \in DOMAIN inbox
    BY <1>3 DEF TypeOK
  <2> DEFINE r == inbox[Len(inbox)]
  <2>2. r \in Request
    BY <2>1
  <2>3. [r EXCEPT !.complete = TRUE] \in Request
    BY <2>2 DEF Request
  <2> HIDE DEF r
  <2>4. Completed = [inbox EXCEPT ![Len(inbox)] = [r EXCEPT !.complete = TRUE]]
    BY DEF Completed, r
  <2> QED BY <2>1, <2>3, <2>4
<1> QED BY <1>1, <1>2, <1>3 DEF Accepted

LEMMA TypeStep ==
  ASSUME TransactionAssumption, TypeOK, Shape, [Next]_vars
  PROVE  TypeOK'
<1> USE DEF settled, begun
<1>1. CASE OpenSession
  <2>1. Begin("OpenSession", 0) /\ "OpenSession" \in Ops /\ 0 \in Nat
    BY <1>1 DEF OpenSession, Ops
  <2>2. afterOk' \in BOOLEAN /\ done' \in BOOLEAN /\ refused' \in BOOLEAN
    BY <1>1 DEF OpenSession, TypeOK
  <2>3. since' \in 0..MaxCalls /\ buffer' = NoPacket
    BY <1>1, <2>1, BeginType DEF OpenSession, TypeOK
  <2>4. crossed' = crossed /\ pc' = "request" /\ told' = "none"
    BY <2>1 DEF Begin, application
  <2>5. do_retry' \in BOOLEAN /\ retries' \in 0..MaxRetries
    BY <2>1, BeginRetry
  <2>6. crossed' \in BOOLEAN
    BY <2>4 DEF TypeOK
  <2>7. /\ transactionId' \in Nat /\ id' \in Nat /\ op' \in Ops /\ call' \in 1..MaxCalls
        /\ data' \in Seq(Calls)
        /\ UNCHANGED <<left, tries, inbox, pipe, session, sessions>>
    BY <2>1, BeginType
  <2>8. call' \in 0..MaxCalls
    BY <2>7 DEF TransactionAssumption
  <2> QED BY <2>2, <2>3, <2>4, <2>5, <2>6, <2>7, <2>8 DEF TypeOK
<1>2. ASSUME NEW o \in Work \cup {"CloseSession"}, Transact(o)
      PROVE  TypeOK'
  <2>1. Begin(o, transactionId) /\ o \in Ops /\ transactionId \in Nat
    BY <1>2 DEF Transact, Ops, TypeOK
  <2>2. afterOk' \in BOOLEAN /\ done' \in BOOLEAN /\ refused' \in BOOLEAN
    BY <1>2 DEF Transact
  <2>3. since' \in 0..MaxCalls /\ buffer' = buffer
    BY <1>2, <2>1, BeginType DEF Transact, TypeOK
  <2>4. crossed' = crossed /\ pc' = "request" /\ told' = "none"
    BY <2>1 DEF Begin, application
  <2>5. do_retry' \in BOOLEAN /\ retries' \in 0..MaxRetries
    BY <2>1, BeginRetry
  <2>6. crossed' \in BOOLEAN
    BY <2>4 DEF TypeOK
  <2>7. /\ transactionId' \in Nat /\ id' \in Nat /\ op' \in Ops /\ call' \in 1..MaxCalls
        /\ data' \in Seq(Calls)
        /\ UNCHANGED <<left, tries, inbox, pipe, session, sessions>>
    BY <2>1, BeginType
  <2>8. call' \in 0..MaxCalls
    BY <2>7 DEF TransactionAssumption
  <2> QED BY <2>2, <2>3, <2>4, <2>5, <2>6, <2>7, <2>8 DEF TypeOK
<1>3. CASE Reopen
  <2>1. crossed' \in BOOLEAN
    BY <1>3 DEF Reopen, TypeOK
  <2>2. inbox' \in Seq(Request) /\ pipe' \in Seq(Packet)
    <3>1. <<>> \in Seq(Request) /\ <<>> \in Seq(Packet)
      OBVIOUS
    <3> QED BY <1>3, <3>1 DEF Reopen, TypeOK
  <2>3. sessions' \in 1..MaxSessions /\ session' = "opening"
    BY <1>3 DEF Reopen, TypeOK, TransactionAssumption
  <2> QED BY <1>3, <2>1, <2>2, <2>3 DEF Reopen, TypeOK, params, request
<1>4. CASE SendRequest
  <2>1. inbox' \in Seq(Request)
    BY <1>4, InboxType DEF SendRequest, TypeOK
  <2>2. /\ pc' \in {"idle", "request", "dataOut", "dataIn", "resp"} /\ tries' \in 0..3
        /\ told' \in {"none", "ok", "refused", "failed"} /\ left' \in 0..MaxMore
        /\ session' \in {"opening", "open", "closed"}
    BY <1>4, ReturnType DEF SendRequest, AfterRequest, TypeOK
  <2>3. do_retry' \in BOOLEAN
    BY <1>4 DEF SendRequest, TypeOK
  <2>4. retries' \in 0..MaxRetries
    <3>1. retries' = retries \/ (retries < MaxRetries /\ retries' = retries + 1)
      BY <1>4 DEF SendRequest
    <3> QED BY <3>1 DEF TypeOK, TransactionAssumption
  <2> QED BY <1>4, <2>1, <2>2, <2>3, <2>4 DEF SendRequest, TypeOK, request
<1>5. CASE SendData
  <2>1. inbox' \in Seq(Request)
    BY <1>5, InboxType DEF SendData, TypeOK, Shape
  <2>2. /\ pc' \in {"idle", "resp"} /\ tries' \in 0..3
        /\ told' \in {"none", "ok", "refused", "failed"} /\ left' \in 0..MaxMore
        /\ session' \in {"opening", "open", "closed"}
    BY <1>5, ReturnType DEF SendData, TypeOK
  <2> QED BY <1>5, <2>1, <2>2 DEF SendData, TypeOK, request
<1>6. CASE GetData
  <2>1. First \in Packet /\ PipeAfter \in Seq(Packet)
    BY <1>6, FirstParts DEF GetData
  <2>2. buffer' \in Response \cup {NoPacket}
    BY <1>6, <2>1, PacketParts
    DEF GetData, ResponseForData, WrongData, OwnCodeData, BufferAfter
  <2>4. data' \in Seq(Calls)
    BY <1>6, <2>1, DeliverType
    DEF GetData, ResponseForData, WrongData, OwnCodeData, TypeOK
  <2>3. /\ pc' \in {"idle", "drain", "dataMore", "resp"} /\ tries' \in 0..3
        /\ told' \in {"none", "ok", "refused", "failed"} /\ left' \in 0..MaxMore
        /\ session' \in {"opening", "open", "closed"}
    BY <1>6, <2>1, PacketParts, ReturnType
    DEF GetData, ResponseForData, WrongData, OwnCodeData, TypeOK
  <2> QED BY <1>6, <2>1, <2>2, <2>3, <2>4 DEF GetData, TypeOK, request
<1>7. CASE GetMore
  <2>1. pipe \in Seq(Packet) /\ pipe # <<>> /\ Head(pipe) \in Packet /\ Tail(pipe) \in Seq(Packet)
    BY <1>7, TailParts DEF GetMore, TypeOK
  <2>2. pipe' \in Seq(Packet)
    BY <1>7, <2>1, RestParts DEF GetMore
  <2>3. data' \in Seq(Calls)
    BY <1>7, <2>1, DeliverType DEF GetMore, TypeOK
  <2>4. /\ pc' \in {"idle", "dataMore", "resp"} /\ tries' \in 0..3
        /\ told' \in {"none", "ok", "refused", "failed"} /\ left' \in 0..MaxMore
        /\ session' \in {"opening", "open", "closed"}
    BY <1>7, ReturnType DEF GetMore, TypeOK, Shape, TransactionAssumption
  <2> QED BY <1>7, <2>2, <2>3, <2>4 DEF GetMore, TypeOK, request
<1>8. CASE Drain
  <2>1. pipe' \in Seq(Packet)
    BY <1>8, TailParts DEF Drain, TypeOK
  <2>2. /\ pc' \in {"idle", "drain"} /\ tries' \in 0..3
        /\ told' \in {"none", "ok", "refused", "failed"} /\ left' \in 0..MaxMore
        /\ session' \in {"opening", "open", "closed"}
    BY <1>8, ReturnType DEF Drain, TypeOK, Shape, TransactionAssumption
  <2> QED BY <1>8, <2>1, <2>2 DEF Drain, TypeOK, request
<1>9. CASE GetResponse
  <2>1. First \in Packet /\ PipeAfter \in Seq(Packet)
    BY <1>9, FirstParts DEF GetResponse
  <2>2. /\ pc' \in {"idle", "resp"} /\ tries' \in 0..3
        /\ told' \in {"none", "ok", "refused", "failed"} /\ left' \in 0..MaxMore
        /\ session' \in {"opening", "open", "closed"}
    <3>1. CASE Skip(First)
      BY <1>9, <3>1 DEF GetResponse, Skip, TypeOK
    <3>2. CASE Conclude(First)
      BY <3>2, ReturnType DEF Conclude
    <3> QED BY <1>9, <3>1, <3>2 DEF GetResponse
  <2>3. buffer' = NoPacket /\ pipe' = PipeAfter /\ data' = data /\ inbox' = inbox
    BY <1>9 DEF GetResponse, BufferAfter
  <2> QED BY <1>9, <2>1, <2>2, <2>3 DEF GetResponse, TypeOK, request
<1>10. CASE ReadFails
  <2>1. pc' = "idle" /\ told' = "failed" /\ left' \in 0..MaxMore /\ tries' \in 0..3
        /\ session' \in {"opening", "open", "closed"}
    BY <1>10, ReturnType DEF ReadFails
  <2> QED BY <1>10, <2>1 DEF ReadFails, TypeOK, request
<1>11. CASE DeviceAnswers
  <2>1. inbox # <<>> /\ Head(inbox) \in Request /\ inbox' \in Seq(Request)
    BY <1>11, TailParts DEF DeviceAnswers, TypeOK
  <2>2. pipe' \in Seq(Packet)
    <3>1. ASSUME NEW answer \in Answers(Head(inbox))
          PROVE  pipe \o answer \in Seq(Packet)
      BY <2>1, <3>1, AnswerParts, ConcatParts DEF TypeOK
    <3>2. Append(pipe, Answered(Head(inbox), "refused")) \in Seq(Packet)
      BY <2>1, ResponseParts DEF TypeOK, Packet
    <3> QED BY <1>11, <3>1, <3>2 DEF DeviceAnswers
  <2>3. done' \in BOOLEAN /\ refused' \in BOOLEAN
    BY <1>11 DEF DeviceAnswers, TypeOK
  <2> QED BY <1>11, <2>1, <2>2, <2>3 DEF DeviceAnswers, TypeOK, params, request, application
<1>12. CASE UNCHANGED vars
  BY <1>12 DEF TypeOK, vars, params, request, device, application
<1> QED
  BY <1>1, <1>2, <1>3, <1>4, <1>5, <1>6, <1>7, <1>8, <1>9, <1>10, <1>11, <1>12
  DEF Next, Host

-----------------------------------------------------------------------------
(* The shape of a call.                                                     *)

\* What returning does to it, and what the call keeps that runs on.
LEMMA ReturnShape ==
  ASSUME TransactionAssumption, TypeOK, Shape, NEW outcome \in {"ok", "refused", "failed"},
         pc # "idle", Return(outcome), UNCHANGED begun
  PROVE  Shape'
<1>1. /\ pc' = "idle" /\ told' = outcome /\ op # "none" /\ session # "closed"
      /\ session' = CASE op = "OpenSession" /\ outcome = "ok" -> "open"
                      [] op = "CloseSession" -> "closed"
                      [] OTHER -> session
  BY DEF Return, Shape
<1>2. since' = since /\ call' = call /\ op' = op /\ transactionId' = transactionId /\ id' = id
  BY DEF begun, request
<1> QED BY <1>1, <1>2 DEF Shape, TypeOK

LEMMA RunOnShape ==
  ASSUME TypeOK, Shape, pc # "idle", UNCHANGED begun, UNCHANGED <<session, told>>,
         pc' \in {"request", "dataOut", "dataIn", "dataMore", "drain", "resp"},
         pc' \in {"dataMore", "drain"} => left' >= 1,
         pc' = "dataOut" => inbox' # <<>> /\ ~inbox'[Len(inbox')].complete
  PROVE  Shape'
<1>1. /\ since' = since /\ call' = call /\ op' = op /\ transactionId' = transactionId
      /\ id' = id /\ session' = session /\ told' = told
  BY DEF begun, request
<1> QED BY <1>1 DEF Shape, TypeOK

LEMMA ShapeStep ==
  ASSUME TransactionAssumption, TypeOK, Shape, [Next]_vars
  PROVE  Shape'
<1> USE DEF settled
<1>1. CASE OpenSession
  <2>1. Begin("OpenSession", 0) /\ "OpenSession" \in Ops /\ 0 \in Nat /\ session = "opening"
    BY <1>1 DEF OpenSession, Ops
  <2>2. since' <= call'
    BY <1>1, <2>1, BeginType DEF OpenSession, TypeOK, Shape
  <2>3. "OpenSession" # "none" /\ "OpenSession" # "CloseSession"
    OBVIOUS
  <2> QED BY <2>1, <2>2, <2>3, BeginType DEF Shape, TypeOK
<1>2. ASSUME NEW o \in Work \cup {"CloseSession"}, Transact(o)
      PROVE  Shape'
  <2>1. Begin(o, transactionId) /\ o \in Ops /\ transactionId \in Nat /\ session = "open"
    BY <1>2 DEF Transact, Ops, TypeOK
  <2>2. since' = call + 1
    BY <1>2 DEF Transact
  <2>3. o # "OpenSession" /\ o # "none"
    BY DEF Work, TransactionAssumption
  <2>4. /\ pc' = "request" /\ told' = "none" /\ op' = o /\ call' = call + 1 /\ call \in Nat
        /\ id' = transactionId /\ transactionId' = transactionId + 1 /\ session' = session
    BY <2>1, BeginType DEF TypeOK
  <2> QED BY <2>1, <2>2, <2>3, <2>4 DEF Shape
<1>3. CASE Reopen
  BY <1>3 DEF Reopen, Shape, params, request
<1>4. CASE SendRequest
  <2>1. pc # "idle"
    BY <1>4 DEF SendRequest
  <2>2. CASE Return("failed")
    BY <1>4, <2>1, <2>2, ReturnShape DEF SendRequest
  <2>3. CASE inbox' = Accepted /\ pc' = AfterRequest /\ UNCHANGED <<session, told>>
    <3>1. pc' = "dataOut" => op \in Puts
      BY <2>3 DEF AfterRequest
    <3>2. inbox' # <<>> /\ (op \in Puts => ~inbox'[Len(inbox')].complete)
      <4>1. Kept \in Seq(Request)
        BY FrontParts DEF Kept, TypeOK
      <4> DEFINE r == [call |-> call, op |-> op, id |-> id, complete |-> op \notin Puts]
      <4>2. op \in Puts => ~r.complete
        OBVIOUS
      <4> HIDE DEF r
      <4>3. inbox' = Append(Kept, r)
        BY <2>3 DEF Accepted, r
      <4>4. inbox' # <<>> /\ inbox'[Len(inbox')] = r
        BY <4>1, <4>3
      <4> QED BY <4>2, <4>4
    <3>3. pc' \in {"dataOut", "dataIn", "resp"}
      BY <2>3 DEF AfterRequest
    <3> QED BY <1>4, <2>1, <2>3, <3>1, <3>2, <3>3, RunOnShape DEF SendRequest
  <2>4. CASE UNCHANGED <<pc, session, told>>
    BY <1>4, <2>1, <2>4, RunOnShape DEF SendRequest
  <2> QED BY <1>4, <2>2, <2>3, <2>4 DEF SendRequest
<1>5. CASE SendData
  <2>1. CASE Return("failed")
    BY <1>5, <2>1, ReturnShape DEF SendData
  <2>2. CASE pc' = "resp" /\ UNCHANGED <<session, told>>
    BY <1>5, <2>2, RunOnShape DEF SendData
  <2> QED BY <1>5, <2>1, <2>2 DEF SendData
<1>6. CASE GetData
  <2>1. First \in Packet
    BY <1>6, FirstParts DEF GetData
  <2>2. CASE Return("failed")
    BY <1>6, <2>2, ReturnShape DEF GetData
  <2>3. CASE /\ pc' \in {"resp", "drain", "dataMore"}
             /\ pc' \in {"dataMore", "drain"} => left' >= 1
             /\ UNCHANGED <<session, told>>
    BY <1>6, <2>3, RunOnShape DEF GetData
  <2>4. CASE ResponseForData(First)
    BY <2>3, <2>4 DEF ResponseForData
  <2>5. CASE WrongData(First)
    BY <2>1, <2>2, <2>3, <2>5, PacketParts DEF WrongData
  <2>6. CASE OwnCodeData(First)
    BY <2>1, <2>2, <2>3, <2>6, PacketParts DEF OwnCodeData
  <2> QED BY <1>6, <2>4, <2>5, <2>6 DEF GetData
<1>7. CASE GetMore
  <2>1. CASE Return("failed")
    BY <1>7, <2>1, ReturnShape DEF GetMore
  <2>2. CASE /\ left' = left - 1 /\ pc' = IF left > 1 THEN "dataMore" ELSE "resp"
             /\ UNCHANGED <<session, told>>
    BY <1>7, <2>2, RunOnShape DEF GetMore, TypeOK
  <2> QED BY <1>7, <2>1, <2>2 DEF GetMore
<1>8. CASE Drain
  <2>1. CASE Return("failed")
    BY <1>8, <2>1, ReturnShape DEF Drain
  <2>2. CASE /\ left > 1 /\ left' = left - 1 /\ pc' = pc
             /\ UNCHANGED <<session, told>>
    BY <1>8, <2>2, RunOnShape DEF Drain, TypeOK
  <2> QED BY <1>8, <2>1, <2>2 DEF Drain
<1>9. CASE GetResponse
  <2>1. First \in Packet
    BY <1>9, FirstParts DEF GetResponse
  <2>2. CASE Skip(First)
    BY <1>9, <2>2, RunOnShape DEF GetResponse, Skip
  <2>3. CASE Conclude(First)
    <3>1. PICK outcome \in {"ok", "refused", "failed"} : Return(outcome)
      BY <2>3 DEF Conclude
    <3> QED BY <1>9, <3>1, ReturnShape DEF GetResponse
  <2> QED BY <1>9, <2>2, <2>3 DEF GetResponse
<1>10. CASE ReadFails
  BY <1>10, ReturnShape DEF ReadFails
<1>11. CASE DeviceAnswers
  <2>1. pc = "dataOut" => inbox' # <<>> /\ ~inbox'[Len(inbox')].complete
    <3>1. inbox \in Seq(Request) /\ inbox # <<>> /\ inbox' = Tail(inbox) /\ inbox[1].complete
      BY <1>11 DEF DeviceAnswers, TypeOK
    <3>2. pc = "dataOut" => Len(inbox) > 1
      BY <3>1 DEF Shape
    <3>3. Len(inbox) > 1 => Len(inbox') >= 1 /\ inbox'[Len(inbox')] = inbox[Len(inbox)]
      BY <3>1
    <3>4. Len(inbox) > 1 => inbox' # <<>>
      BY <3>3
    <3> QED BY <3>2, <3>3, <3>4 DEF Shape
  <2> QED BY <1>11, <2>1 DEF DeviceAnswers, Shape, params, request, application
<1>12. CASE UNCHANGED vars
  BY <1>12 DEF Shape, vars, params, request, device, application
<1> QED
  BY <1>1, <1>2, <1>3, <1>4, <1>5, <1>6, <1>7, <1>8, <1>9, <1>10, <1>11, <1>12
  DEF Next, Host

-----------------------------------------------------------------------------
(* The account of ids.                                                      *)

LEMMA NoneEarned == Earned(NoPacket, id, done)
BY DEF Earned, NoPacket

\* What a step of the host has to show: it sends and reads, and id and done
\* stay as they are.
LEMMA HostAccount ==
  ASSUME Shape, Accounted, pc # "idle", UNCHANGED begun,
         session' \in {session, "open", "closed"},
         ~crossed => /\ \A i \in DOMAIN inbox' : OwnId(inbox'[i], id, since)
                     /\ \A i \in DOMAIN pipe' : Fine(pipe'[i], id, done)
                     /\ Earned(buffer', id, done)
  PROVE  Accounted'
<1>1. ~Fresh'
  BY DEF Fresh, Shape, begun, request
<1>2. /\ id' = id /\ since' = since /\ done' = done /\ crossed' = crossed
  BY DEF begun, request
<1>3. CASE ~crossed
  <2>1. \A i \in DOMAIN inbox' : OwnId(inbox'[i], id', since')
    BY <1>2, <1>3 DEF OwnId
  <2>2. \A i \in DOMAIN pipe' : Fine(pipe'[i], id', done')
    BY <1>2, <1>3 DEF Fine, Earned
  <2>3. Earned(buffer', id', done')
    BY <1>2, <1>3 DEF Earned
  <2> QED BY <1>1, <2>1, <2>2, <2>3 DEF Accounted
<1> QED BY <1>2, <1>3 DEF Accounted

LEMMA ReturnSession ==
  ASSUME NEW outcome, Return(outcome)
  PROVE  session' \in {session, "open", "closed"}
BY DEF Return

\* A packet taken from the buffer or the pipe is accounted for, and so are
\* those behind it.
LEMMA FirstAccount ==
  ASSUME TypeOK, Shape, Accounted, Arrived, ~crossed, pc # "idle"
  PROVE  /\ Fine(First, id, done)
         /\ \A i \in DOMAIN PipeAfter : Fine(PipeAfter[i], id, done)
<1>1. Earned(buffer, id, done) /\ \A i \in DOMAIN pipe : Fine(pipe[i], id, done)
  BY DEF Accounted, Fresh, Shape
<1>2. CASE buffer # NoPacket
  <2>1. buffer.kind = "resp"
    BY <1>2 DEF TypeOK, Response
  <2> QED BY <1>1, <1>2, <2>1 DEF First, PipeAfter, Fine
<1>3. CASE buffer = NoPacket
  <2>1. pipe \in Seq(Packet) /\ pipe # <<>>
    BY <1>3 DEF Arrived, TypeOK
  <2> QED BY <1>1, <1>3, <2>1, TailParts DEF First, PipeAfter
<1> QED BY <1>2, <1>3

\* The device's inbox when a request, or the rest of its data, has come.
LEMMA InboxAccount ==
  ASSUME TypeOK, Shape, Accounted, ~crossed, pc # "idle"
  PROVE  /\ \A i \in DOMAIN Accepted : OwnId(Accepted[i], id, since)
         /\ inbox # <<>> => \A i \in DOMAIN Completed : OwnId(Completed[i], id, since)
<1>1. inbox \in Seq(Request) /\ \A i \in DOMAIN inbox : OwnId(inbox[i], id, since)
  BY DEF Accounted, TypeOK
<1>2. Kept \in Seq(Request) /\ \A i \in DOMAIN Kept : OwnId(Kept[i], id, since)
  BY <1>1, FrontParts DEF Kept
<1> DEFINE r == [call |-> call, op |-> op, id |-> id, complete |-> op \notin Puts]
<1>3. r \in Request /\ OwnId(r, id, since)
  BY DEF OwnId, Shape, TypeOK, Request, Calls
<1> HIDE DEF r
<1>4. \A i \in DOMAIN Accepted : OwnId(Accepted[i], id, since)
  <2>1. Accepted = Append(Kept, r)
    BY DEF Accepted, r
  <2>2. \A i \in DOMAIN Append(Kept, r) :
          Append(Kept, r)[i] = r \/ (i \in DOMAIN Kept /\ Append(Kept, r)[i] = Kept[i])
    BY <1>2, <1>3
  <2> QED BY <1>2, <1>3, <2>1, <2>2
<1>5. ASSUME inbox # <<>>, NEW i \in DOMAIN Completed
      PROVE  OwnId(Completed[i], id, since)
  <2>1. DOMAIN Completed = DOMAIN inbox /\ inbox[i] \in Request
    BY <1>1, <1>5 DEF Completed
  <2>2. Completed[i].id = inbox[i].id /\ Completed[i].call = inbox[i].call
    BY <1>1, <2>1 DEF Completed, Request
  <2> QED BY <1>1, <2>1, <2>2 DEF OwnId
<1> QED BY <1>4, <1>5

LEMMA AccountStep ==
  ASSUME TransactionAssumption, TypeOK, Shape, Accounted, [Next]_vars
  PROVE  Accounted'
<1> USE DEF settled
<1>1. CASE OpenSession
  <2>1. /\ Begin("OpenSession", 0) /\ "OpenSession" \in Ops /\ 0 \in Nat
        /\ session = "opening" /\ buffer' = NoPacket
        /\ op = "OpenSession" => since' = since /\ done' = done
    BY <1>1 DEF OpenSession, Ops
  <2>2. /\ id' = 0 /\ op' = "OpenSession" /\ inbox' = inbox /\ pipe' = pipe
        /\ crossed' = crossed
    BY <2>1, BeginType
  <2>3. ~Fresh' /\ Earned(buffer', id', done')
    BY <2>1, <2>2 DEF Fresh, Earned, NoPacket
  <2>4. CASE op = "OpenSession"
    <3>1. id = 0
      BY <2>4 DEF Shape
    <3> QED BY <2>1, <2>2, <2>3, <2>4, <3>1 DEF Accounted, OwnId, Fine, Earned
  <2>5. CASE op # "OpenSession" /\ ~crossed
    <3>1. inbox' = <<>> /\ pipe' = <<>>
      BY <2>1, <2>2, <2>5 DEF Accounted, Fresh
    <3> QED BY <2>3, <3>1 DEF Accounted
  <2> QED BY <2>2, <2>4, <2>5 DEF Accounted
<1>2. ASSUME NEW o \in Work \cup {"CloseSession"}, Transact(o)
      PROVE  Accounted'
  <2>1. /\ Begin(o, transactionId) /\ o \in Ops /\ transactionId \in Nat
        /\ session = "open" /\ buffer' = buffer
    BY <1>2 DEF Transact, Ops, TypeOK
  <2>2. /\ id' = id + 1 /\ inbox' = inbox /\ pipe' = pipe /\ crossed' = crossed
        /\ session' = "open"
    BY <2>1, BeginType DEF Shape
  <2>3. ~Fresh /\ ~Fresh' /\ id \in Nat
    BY <2>1, <2>2 DEF Fresh, TypeOK
  <2>4. ASSUME ~crossed, NEW i \in DOMAIN inbox
        PROVE  OwnId(inbox[i], id', since')
    <3>1. inbox[i] \in Request /\ OwnId(inbox[i], id, since)
      BY <2>4 DEF Accounted, TypeOK
    <3>2. inbox[i].id \in Nat
      BY <3>1 DEF Request
    <3> QED BY <2>2, <2>3, <3>1, <3>2 DEF OwnId
  <2>5. ASSUME NEW p \in Response \cup {NoPacket}, Earned(p, id, done)
        PROVE  Earned(p, id', done')
    <3>1. p.kind = "resp" => p.id \in Nat
      BY DEF Response, NoPacket
    <3> QED BY <2>2, <2>3, <2>5, <3>1 DEF Earned
  <2>6. ASSUME NEW p \in Packet, Fine(p, id, done)
        PROVE  Fine(p, id', done')
    <3>1. Earned(p, id', done')
      <4>1. CASE p.kind = "resp"
        BY <2>5, <2>6, <4>1, PacketParts DEF Fine
      <4>2. CASE p.kind # "resp"
        BY <4>2 DEF Earned
      <4> QED BY <4>1, <4>2
    <3>2. p.kind = "data" => Earned(p.surplus, id', done')
      BY <2>5, <2>6, PacketParts DEF Fine
    <3> QED BY <3>1, <3>2 DEF Fine
  <2>7. ASSUME ~crossed
        PROVE  Earned(buffer', id', done')
    <3>1. Earned(buffer, id, done) /\ buffer \in Response \cup {NoPacket}
      BY <2>3, <2>7 DEF Accounted, TypeOK
    <3> QED BY <2>1, <2>5, <3>1
  <2>8. ASSUME ~crossed, NEW i \in DOMAIN pipe
        PROVE  Fine(pipe[i], id', done')
    <3>1. pipe[i] \in Packet /\ Fine(pipe[i], id, done)
      BY <2>8 DEF Accounted, TypeOK
    <3> QED BY <2>6, <3>1
  <2> QED BY <2>2, <2>3, <2>4, <2>7, <2>8 DEF Accounted
<1>3. CASE Reopen
  <2>1. CASE crossed'
    BY <2>1 DEF Accounted
  <2>2. CASE inbox' = <<>> /\ pipe' = <<>>
    <3>1. Fresh'
      BY <1>3 DEF Reopen, Shape, Fresh, request
    <3> QED BY <2>2, <3>1 DEF Accounted
  <2> QED BY <1>3, <2>1, <2>2 DEF Reopen
<1>4. CASE SendRequest
  <2>1. session' \in {session, "open", "closed"}
    BY <1>4, ReturnSession DEF SendRequest
  <2>2. ~crossed => \A i \in DOMAIN inbox' : OwnId(inbox'[i], id, since)
    BY <1>4, InboxAccount DEF SendRequest, Accounted
  <2> QED BY <1>4, <2>1, <2>2, HostAccount DEF SendRequest, Accounted, Fresh, Shape
<1>5. CASE SendData
  <2>1. session' \in {session, "open", "closed"}
    BY <1>5, ReturnSession DEF SendData
  <2>2. ~crossed => \A i \in DOMAIN inbox' : OwnId(inbox'[i], id, since)
    BY <1>5, InboxAccount DEF SendData, Accounted, Shape
  <2> QED BY <1>5, <2>1, <2>2, HostAccount DEF SendData, Accounted, Fresh, Shape
<1>6. CASE GetData
  <2>1. session' \in {session, "open", "closed"}
    BY <1>6, ReturnSession DEF GetData, ResponseForData, WrongData, OwnCodeData
  <2>2. ~crossed => Fine(First, id, done) /\ \A i \in DOMAIN pipe' : Fine(pipe'[i], id, done)
    BY <1>6, FirstAccount DEF GetData
  <2>3. ~crossed => Earned(buffer', id, done)
    BY <1>6, <2>2, NoneEarned
    DEF GetData, ResponseForData, WrongData, OwnCodeData, BufferAfter, Fine
  <2> QED BY <1>6, <2>1, <2>2, <2>3, HostAccount DEF GetData, Accounted
<1>7. CASE GetMore
  <2>1. session' \in {session, "open", "closed"}
    BY <1>7, ReturnSession DEF GetMore
  <2>2. pipe \in Seq(Packet) /\ pipe # <<>>
    BY <1>7 DEF GetMore, TypeOK
  <2>3. ~crossed => \A i \in DOMAIN pipe' : Fine(pipe'[i], id, done)
    <3>1. CASE pipe' = Tail(pipe)
      BY <2>2, <3>1, TailParts DEF Accounted
    <3>2. ASSUME NEW n \in 1..Len(pipe), pipe' = SubSeq(pipe, n + 1, Len(pipe))
          PROVE  ~crossed => \A i \in DOMAIN pipe' : Fine(pipe'[i], id, done)
      BY <2>2, <3>2, RestParts DEF Accounted
    <3> QED BY <1>7, <3>1, <3>2 DEF GetMore
  <2> QED BY <1>7, <2>1, <2>3, HostAccount DEF GetMore, Accounted, Fresh, Shape
<1>8. CASE Drain
  <2>1. session' \in {session, "open", "closed"}
    BY <1>8, ReturnSession DEF Drain
  <2>2. pipe \in Seq(Packet) /\ pipe # <<>>
    BY <1>8 DEF Drain, TypeOK
  <2>3. ~crossed => \A i \in DOMAIN pipe' : Fine(pipe'[i], id, done)
    BY <1>8, <2>2, TailParts DEF Drain, Accounted
  <2> QED BY <1>8, <2>1, <2>3, HostAccount DEF Drain, Accounted, Fresh, Shape
<1>9. CASE GetResponse
  <2>1. session' \in {session, "open", "closed"}
    BY <1>9, ReturnSession DEF GetResponse, Skip, Conclude
  <2>2. ~crossed => \A i \in DOMAIN pipe' : Fine(pipe'[i], id, done)
    BY <1>9, FirstAccount DEF GetResponse
  <2>3. Earned(buffer', id, done)
    BY <1>9, NoneEarned DEF GetResponse, BufferAfter
  <2> QED BY <1>9, <2>1, <2>2, <2>3, HostAccount DEF GetResponse, Accounted
<1>10. CASE ReadFails
  <2>1. session' \in {session, "open", "closed"}
    BY <1>10, ReturnSession DEF ReadFails
  <2>2. pc # "idle"
    BY <1>10 DEF ReadFails
  <2> QED BY <1>10, <2>1, <2>2, HostAccount DEF ReadFails, Accounted, Fresh, Shape
<1>11. CASE DeviceAnswers
  <2>1. /\ UNCHANGED <<id, since, buffer, session, op, crossed>>
        /\ inbox \in Seq(Request) /\ inbox # <<>> /\ inbox' = Tail(inbox)
        /\ pipe \in Seq(Packet)
        /\ done => done'
    BY <1>11 DEF DeviceAnswers, TypeOK, params, request, application
  <2>2. CASE ~crossed
    <3> DEFINE r == Head(inbox)
    <3>1. r \in Request /\ OwnId(r, id, since) /\ r.id \in Nat
      <4>1. r \in Request /\ r = inbox[1] /\ 1 \in DOMAIN inbox
        BY <2>1, TailParts
      <4>2. r.id \in Nat
        BY <4>1 DEF Request
      <4> QED BY <2>2, <4>1, <4>2 DEF Accounted
    <3>2. ~Fresh /\ ~Fresh'
      BY <2>1, <2>2 DEF Accounted, Fresh
    <3>3. \A i \in DOMAIN inbox' : OwnId(inbox'[i], id', since')
      BY <2>1, <2>2, TailParts DEF Accounted, OwnId
    <3>4. Earned(buffer', id', done')
      <4>1. Earned(buffer, id, done)
        BY <2>2, <3>2 DEF Accounted
      <4> QED BY <2>1, <4>1 DEF Earned
    <3>5. \A i \in DOMAIN pipe : Fine(pipe[i], id', done')
      <4>1. ASSUME NEW i \in DOMAIN pipe
            PROVE  Fine(pipe[i], id', done')
        <5>1. Fine(pipe[i], id, done)
          BY <2>2 DEF Accounted
        <5> QED BY <2>1, <5>1 DEF Fine, Earned
      <4> QED BY <4>1
    <3>6. \A i \in DOMAIN pipe' : Fine(pipe'[i], id', done')
      <4>1. ASSUME NEW answer \in Answers(r), done' = (done \/ r.call >= since),
                   pipe' = pipe \o answer
            PROVE  \A i \in DOMAIN pipe' : Fine(pipe'[i], id', done')
        <5>1. answer \in Seq(Packet) /\ \A i \in DOMAIN answer : Carries(answer[i], r.id)
          BY <3>1, <4>1, AnswerParts
        <5>2. \A i \in DOMAIN answer : Fine(answer[i], id', done')
          BY <2>1, <3>1, <4>1, <5>1 DEF Carries, Fine, Earned, OwnId
        <5> QED BY <2>1, <3>5, <4>1, <5>1, <5>2, ConcatParts
      <4>2. ASSUME pipe' = Append(pipe, Answered(r, "refused"))
            PROVE  \A i \in DOMAIN pipe' : Fine(pipe'[i], id', done')
        <5> DEFINE a == Answered(r, "refused")
        <5>1. a \in Packet /\ Fine(a, id', done')
          BY <2>1, <3>1 DEF Answered, Fine, Earned, OwnId, Packet, Response, Request
        <5> HIDE DEF a
        <5>2. pipe' = Append(pipe, a)
          BY <4>2 DEF a
        <5>3. \A i \in DOMAIN pipe' : pipe'[i] = a \/ (i \in DOMAIN pipe /\ pipe'[i] = pipe[i])
          BY <2>1, <5>1, <5>2
        <5> QED BY <3>5, <5>1, <5>3
      <4> QED BY <1>11, <4>1, <4>2 DEF DeviceAnswers
    <3> QED BY <2>2, <3>2, <3>3, <3>4, <3>6 DEF Accounted
  <2> QED BY <2>1, <2>2 DEF Accounted
<1>12. CASE UNCHANGED vars
  BY <1>12 DEF Accounted, OwnId, Fine, Earned, Fresh, vars, params, request, device, application
<1> QED
  BY <1>1, <1>2, <1>3, <1>4, <1>5, <1>6, <1>7, <1>8, <1>9, <1>10, <1>11, <1>12
  DEF Next, Host

-----------------------------------------------------------------------------
(* A call that returns OK was done.                                         *)

\* The one step that returns OK reads a response with the id of the call.
LEMMA OkReads ==
  ASSUME TransactionAssumption, TypeOK, Shape, Host, told' = "ok", op # "CloseSession"
  PROVE  /\ GetResponse /\ Arrived
         /\ First.kind = "resp" /\ First.code = "ok" /\ First.id = id
<1>1. told # "ok"
  BY DEF Shape, Host, SendRequest, SendData, GetData, GetMore, Drain, GetResponse, ReadFails
<1>2. CASE GetResponse
  <2>1. First \in Packet /\ Arrived
    BY <1>2, FirstParts DEF GetResponse
  <2>2. ~Skip(First)
    BY <1>1 DEF Skip
  <2> QED BY <1>2, <2>1, <2>2, PacketParts DEF GetResponse, Conclude, Return
<1>3. CASE ~GetResponse
  <2>1. ~Return("failed")
    BY DEF Return
  <2>2. told' = told
    BY <1>3, <2>1
    DEF Host, SendRequest, SendData, GetData, ResponseForData, WrongData, OwnCodeData,
        GetMore, Drain, ReadFails
  <2> QED BY <1>1, <2>2
<1> QED BY <1>2, <1>3

LEMMA OkStep ==
  ASSUME TransactionAssumption, TypeOK, Shape, Accounted, Host,
         told' = "ok", op # "CloseSession", ~crossed
  PROVE  done
<1>1. /\ GetResponse /\ Arrived
      /\ First.kind = "resp" /\ First.code = "ok" /\ First.id = id
  BY OkReads
<1>2. Earned(First, id, done)
  BY <1>1, FirstAccount DEF GetResponse, Fine
<1> QED BY <1>1, <1>2 DEF Earned

\* What a step of the host keeps, and how it returns.
LEMMA HostKeeps ==
  ASSUME TypeOK, Shape, Host
  PROVE  /\ pc # "idle" /\ told = "none"
         /\ op' = op /\ call' = call /\ done' = done /\ crossed' = crossed
         /\ told' \in {"none", "ok", "refused", "failed"}
<1>1. pc # "idle" /\ UNCHANGED begun
  BY DEF Host, SendRequest, SendData, GetData, GetMore, Drain, GetResponse, ReadFails, settled
<1>2. told' \in {told, "ok", "refused", "failed"}
  BY DEF Host, SendRequest, SendData, GetData, ResponseForData, WrongData, OwnCodeData,
         GetMore, Drain, GetResponse, Skip, Conclude, ReadFails, Return
<1> QED BY <1>1, <1>2 DEF Shape, begun, request

LEMMA OkIsDoneStep ==
  ASSUME TransactionAssumption, TypeOK, Shape, Accounted, OkIsDone, [Next]_vars
  PROVE  OkIsDone'
<1>1. CASE OpenSession
  BY <1>1 DEF OpenSession, Begin, OkIsDone
<1>2. ASSUME NEW o \in Work \cup {"CloseSession"}, Transact(o)
      PROVE  OkIsDone'
  BY <1>2 DEF Transact, Begin, OkIsDone
<1>3. CASE Reopen
  BY <1>3 DEF Reopen, Shape, OkIsDone, request
<1>4. CASE Host
  BY <1>4, OkStep, HostKeeps DEF OkIsDone
<1>5. CASE DeviceAnswers
  <2>1. op' = op /\ told' = told /\ crossed' = crossed
    BY <1>5 DEF DeviceAnswers, request, application
  <2>2. done => done'
    BY <1>5 DEF DeviceAnswers
  <2> QED BY <2>1, <2>2 DEF OkIsDone
<1>6. CASE UNCHANGED vars
  BY <1>6 DEF OkIsDone, vars, request, device, application
<1> QED BY <1>1, <1>2, <1>3, <1>4, <1>5, <1>6 DEF Next

-----------------------------------------------------------------------------
(* Nothing comes after the answer of the call at work.                      *)

LEMMA NoneBears == ASSUME NEW n PROVE ~Bears(NoPacket, n)
BY DEF Bears, NoPacket

\* What a step of the host has to show.
LEMMA HostLast ==
  ASSUME pc # "idle", UNCHANGED begun, pc' # "request",
         do_retry' = do_retry,
         ~crossed /\ do_retry /\ op \notin {"OpenSession", "none"} =>
           /\ \A i \in DOMAIN inbox' : inbox'[i].id = id => i = Len(inbox')
           /\ \A i \in DOMAIN pipe' :
                Bears(pipe'[i], id) => i = Len(pipe') /\ inbox' = <<>>
           /\ Bears(buffer', id) => pipe' = <<>> /\ inbox' = <<>>
  PROVE  Last'
BY DEF Last, begun, request

\* Of what a read leaves, and of the packet that it takes.
LEMMA FirstLast ==
  ASSUME TypeOK, Last, Arrived, ~crossed, do_retry, op \notin {"OpenSession", "none"}
  PROVE  /\ Bears(First, id) => PipeAfter = <<>> /\ inbox = <<>>
         /\ \A i \in DOMAIN PipeAfter :
              Bears(PipeAfter[i], id) => i = Len(PipeAfter) /\ inbox = <<>>
<1>1. CASE buffer # NoPacket
  BY <1>1 DEF First, PipeAfter, Last
<1>2. CASE buffer = NoPacket
  <2>1. pipe \in Seq(Packet) /\ pipe # <<>> /\ First = pipe[1] /\ PipeAfter = Tail(pipe)
    BY <1>2, TailParts DEF Arrived, TypeOK, First, PipeAfter
  <2>2. 1 \in DOMAIN pipe /\ Len(Tail(pipe)) = Len(pipe) - 1
    BY <2>1
  <2>3. Len(pipe) = 1 => Tail(pipe) = <<>>
    BY <2>1
  <2>4. Bears(First, id) => PipeAfter = <<>> /\ inbox = <<>>
    BY <2>1, <2>2, <2>3 DEF Last
  <2>5. ASSUME NEW i \in DOMAIN Tail(pipe), Bears(Tail(pipe)[i], id)
        PROVE  i = Len(Tail(pipe)) /\ inbox = <<>>
    <3>1. i + 1 \in DOMAIN pipe /\ Tail(pipe)[i] = pipe[i + 1] /\ i \in Nat
      BY <2>1, TailParts
    <3>2. i + 1 = Len(pipe) /\ inbox = <<>>
      BY <2>5, <3>1 DEF Last
    <3> QED BY <2>2, <3>1, <3>2
  <2> QED BY <2>1, <2>4, <2>5
<1> QED BY <1>1, <1>2

\* What is kept of it for the response phase.
LEMMA BuffersFirst ==
  ASSUME TypeOK, GetData
  PROVE  Bears(buffer', id) => Bears(First, id)
<1>1. First \in Packet
  BY FirstParts DEF GetData
<1>2. CASE ResponseForData(First)
  BY <1>2 DEF ResponseForData
<1>3. CASE WrongData(First)
  BY <1>3, NoneBears DEF WrongData, BufferAfter
<1>4. CASE OwnCodeData(First)
  <2>1. First.surplus \in Response \cup {NoPacket}
    BY <1>1, <1>4, PacketParts DEF OwnCodeData
  <2> QED BY <1>4, <2>1 DEF OwnCodeData, Bears, Response, NoPacket
<1> QED BY <1>2, <1>3, <1>4 DEF GetData

LEMMA RestLast ==
  ASSUME TypeOK, Last, ~crossed, do_retry, op \notin {"OpenSession", "none"}, pipe # <<>>,
         NEW n \in 1..Len(pipe), pipe' = SubSeq(pipe, n + 1, Len(pipe))
  PROVE  \A i \in DOMAIN pipe' : Bears(pipe'[i], id) => i = Len(pipe') /\ inbox = <<>>
<1>1. pipe \in Seq(Packet) /\ Len(pipe') = Len(pipe) - n
  BY DEF TypeOK
<1>2. ASSUME NEW i \in DOMAIN pipe', Bears(pipe'[i], id)
      PROVE  i = Len(pipe') /\ inbox = <<>>
  <2>1. i + n \in DOMAIN pipe /\ pipe'[i] = pipe[i + n] /\ i \in Nat /\ n \in Nat
    BY <1>1, <1>2, RestParts
  <2>2. i + n = Len(pipe) /\ inbox = <<>>
    BY <1>2, <2>1 DEF Last
  <2> QED BY <1>1, <2>1, <2>2
<1> QED BY <1>2

LEMMA TailRest ==
  ASSUME NEW S, NEW s \in Seq(S), s # <<>>
  PROVE  1 \in 1..Len(s) /\ Tail(s) = SubSeq(s, 1 + 1, Len(s))
OBVIOUS

LEMMA AcceptedLast ==
  ASSUME TypeOK, Last, pc = "request", ~crossed, do_retry, op \notin {"OpenSession", "none"}
  PROVE  \A i \in DOMAIN Accepted : Accepted[i].id = id => i = Len(Accepted)
<1>1. inbox \in Seq(Request) /\ \A i \in DOMAIN inbox : inbox[i].id # id
  BY DEF TypeOK, Last
<1>2. Kept \in Seq(Request) /\ \A i \in DOMAIN Kept : Kept[i].id # id
  BY <1>1, FrontParts DEF Kept
<1> DEFINE r == [call |-> call, op |-> op, id |-> id, complete |-> op \notin Puts]
<1>3. \A i \in DOMAIN Append(Kept, r) :
        i = Len(Append(Kept, r)) \/ (i \in DOMAIN Kept /\ Append(Kept, r)[i] = Kept[i])
  BY <1>2
<1> QED BY <1>2, <1>3 DEF Accepted

LEMMA CompletedLast ==
  ASSUME TypeOK, Last, ~crossed, do_retry, op \notin {"OpenSession", "none"}, inbox # <<>>
  PROVE  \A i \in DOMAIN Completed : Completed[i].id = id => i = Len(Completed)
<1>1. inbox \in Seq(Request)
  BY DEF TypeOK
<1>2. DOMAIN Completed = DOMAIN inbox /\ Len(Completed) = Len(inbox)
  BY <1>1 DEF Completed
<1>3. ASSUME NEW i \in DOMAIN inbox
      PROVE  Completed[i].id = inbox[i].id
  <2>1. inbox[i] \in Request
    BY <1>1
  <2> QED BY <1>1, <2>1 DEF Completed, Request
<1> QED BY <1>2, <1>3 DEF Last

\* The response is the last of what the device sends.
LEMMA ContainerShape ==
  ASSUME TransactionAssumption, NEW r, NEW n \in 0..MaxMore, NEW surplus
  PROVE  /\ Len(Container(r, n, surplus)) = n + 1
         /\ Container(r, n, surplus)[1].kind = "data"
         /\ Container(r, n, surplus)[1].surplus = surplus
         /\ \A i \in DOMAIN Container(r, n, surplus) :
              i # 1 => Container(r, n, surplus)[i].kind = "more"
         /\ DOMAIN Container(r, n, surplus) = 1..(n + 1)
<1> DEFINE d == [kind |-> "data", call |-> r.call, op |-> r.op, more |-> n, surplus |-> surplus]
           m == [kind |-> "more", call |-> r.call]
           rest == [i \in 1..n |-> m]
<1>1. d.kind = "data" /\ d.surplus = surplus /\ m.kind = "more" /\ n \in Nat
  BY DEF TransactionAssumption
<1>2. /\ <<d>> \in Seq({d, m}) /\ rest \in Seq({d, m})
      /\ Len(<<d>>) = 1 /\ <<d>>[1] = d /\ Len(rest) = n
      /\ DOMAIN <<d>> = {1} /\ DOMAIN rest = 1..n /\ \A i \in 1..n : rest[i] = m
  BY <1>1
<1>3. Container(r, n, surplus) = <<d>> \o rest
  BY DEF Container
<1> HIDE DEF d, m, rest
<1> QED BY <1>1, <1>2, <1>3

LEMMA AnswerLast ==
  ASSUME TransactionAssumption, NEW r \in Request, NEW answer \in Answers(r), NEW n,
         NEW i \in DOMAIN answer, Bears(answer[i], n)
  PROVE  i = Len(answer) /\ n = r.id
<1> DEFINE ok == Answered(r, "ok")
<1>1. ok.kind = "resp" /\ ok.id = r.id /\ ok.kind # "data"
  BY DEF Answered
<1> HIDE DEF ok
<1>2. CASE answer = <<ok>>
  BY <1>1, <1>2 DEF Bears
<1>3. CASE answer = Container(r, 0, ok)
  <2>1. 0 \in 0..MaxMore
    BY DEF TransactionAssumption
  <2> QED BY <1>1, <1>3, <2>1, ContainerShape DEF Bears
<1>4. ASSUME NEW k \in 0..MaxMore, answer = Container(r, k, NoPacket) \o <<ok>>,
             r.op \in Gets
      PROVE  i = Len(answer) /\ n = r.id
  <2> DEFINE c == Container(r, k, NoPacket)
  <2>1. /\ c \in Seq(Packet)
        /\ \A j \in DOMAIN c : ~Bears(c[j], n)
    <3>1. NoPacket.kind # "resp"
      BY DEF NoPacket
    <3>2. c \in Seq(Packet)
      BY <1>4, <3>1, ContainerParts
    <3>3. /\ c[1].kind = "data" /\ c[1].surplus = NoPacket
          /\ \A j \in DOMAIN c : j # 1 => c[j].kind = "more"
      BY ContainerShape
    <3> HIDE DEF c
    <3> QED BY <3>1, <3>2, <3>3 DEF Bears
  <2> HIDE DEF c
  <2>2. answer = c \o <<ok>> /\ ok \in Packet
    BY <1>4, ResponseParts DEF c, ok, Packet
  <2>3. /\ Len(answer) = Len(c) + 1 /\ answer[Len(answer)] = ok
        /\ \A j \in DOMAIN answer : j = Len(answer) \/ (j \in DOMAIN c /\ answer[j] = c[j])
    BY <2>1, <2>2
  <2> QED BY <1>1, <2>1, <2>3 DEF Bears
<1> QED BY <1>2, <1>3, <1>4 DEF Answers, ok

\* All that the device sends for a request is of its call; for a get it begins
\* with data, unless it is refused.
LEMMA AnswerCalls ==
  ASSUME TransactionAssumption, NEW r \in Request, NEW answer \in Answers(r)
  PROVE  /\ \A i \in DOMAIN answer : answer[i].call = r.call
         /\ r.op \in Gets => 1 \in DOMAIN answer /\ answer[1].kind = "data"
<1> DEFINE ok == Answered(r, "ok")
<1>1. ok.call = r.call /\ ok \in Packet
  BY ResponseParts DEF Answered, Packet
<1> HIDE DEF ok
<1>2. ASSUME NEW n \in 0..MaxMore, NEW surplus
      PROVE  \A i \in DOMAIN Container(r, n, surplus) :
               Container(r, n, surplus)[i].call = r.call
  <2> DEFINE d == [kind |-> "data", call |-> r.call, op |-> r.op, more |-> n, surplus |-> surplus]
             m == [kind |-> "more", call |-> r.call]
             rest == [i \in 1..n |-> m]
  <2>1. d.call = r.call /\ m.call = r.call /\ n \in Nat
    BY DEF TransactionAssumption
  <2>2. /\ <<d>> \in Seq({d, m}) /\ rest \in Seq({d, m})
        /\ DOMAIN <<d>> = {1} /\ <<d>>[1] = d /\ DOMAIN rest = 1..n /\ \A i \in 1..n : rest[i] = m
    BY <2>1
  <2>3. Container(r, n, surplus) = <<d>> \o rest
    BY DEF Container
  <2> HIDE DEF d, m, rest
  <2> QED BY <2>1, <2>2, <2>3, ConcatParts
<1>3. CASE r.op \notin Gets
  <2>1. answer = <<ok>>
    BY <1>3 DEF Answers, ok
  <2> QED BY <1>1, <1>3, <2>1
<1>4. CASE r.op \in Gets /\ answer = Container(r, 0, ok)
  <2>1. 0 \in 0..MaxMore
    BY DEF TransactionAssumption
  <2>2. DOMAIN answer = 1..(0 + 1) /\ answer[1].kind = "data"
    <3>1. ASSUME NEW n \in 0..MaxMore
          PROVE  DOMAIN Container(r, n, ok) = 1..(n + 1) /\ Container(r, n, ok)[1].kind = "data"
      BY ContainerShape
    <3> QED BY <1>4, <2>1, <3>1
  <2>3. 1 \in DOMAIN answer
    BY <2>2
  <2>4. \A i \in DOMAIN answer : answer[i].call = r.call
    BY <1>2, <1>4, <2>1
  <2> QED BY <2>2, <2>3, <2>4
<1>5. ASSUME NEW n \in 0..MaxMore, r.op \in Gets, answer = Container(r, n, NoPacket) \o <<ok>>
      PROVE  /\ \A i \in DOMAIN answer : answer[i].call = r.call
             /\ 1 \in DOMAIN answer /\ answer[1].kind = "data"
  <2> DEFINE c == Container(r, n, NoPacket)
  <2>1. /\ c \in Seq(Packet) /\ Len(c) = n + 1 /\ n \in Nat /\ c[1].kind = "data"
        /\ \A i \in DOMAIN c : c[i].call = r.call
    <3>1. NoPacket.kind # "resp"
      BY DEF NoPacket
    <3>2. c \in Seq(Packet)
      BY <1>5, <3>1, ContainerParts
    <3>3. Len(c) = n + 1 /\ c[1].kind = "data"
      BY ContainerShape
    <3>4. \A i \in DOMAIN c : c[i].call = r.call
      BY <1>2
    <3>5. n \in Nat
      BY DEF TransactionAssumption
    <3> HIDE DEF c
    <3> QED BY <3>2, <3>3, <3>4, <3>5
  <2> HIDE DEF c
  <2>2. answer = c \o <<ok>>
    BY <1>5 DEF c
  <2>3. \A i \in DOMAIN answer : (i \in DOMAIN c /\ answer[i] = c[i]) \/ answer[i] = ok
    BY <1>1, <2>1, <2>2
  <2>4. 1 \in DOMAIN answer /\ answer[1] = c[1]
    BY <1>1, <2>1, <2>2
  <2> QED BY <1>1, <2>1, <2>3, <2>4
<1> QED BY <1>3, <1>4, <1>5 DEF Answers, ok

LEMMA DeviceLast ==
  ASSUME TransactionAssumption, TypeOK, Last, DeviceAnswers,
         ~crossed, do_retry, op \notin {"OpenSession", "none"}
  PROVE  Last'
<1> DEFINE r == Head(inbox)
<1>1. /\ UNCHANGED <<id, op, pc, buffer, crossed, do_retry>>
      /\ inbox \in Seq(Request) /\ inbox # <<>> /\ inbox' = Tail(inbox)
      /\ pipe \in Seq(Packet)
  BY DEF DeviceAnswers, TypeOK, params, request, application
<1>2. r \in Request /\ r = inbox[1] /\ 1 \in DOMAIN inbox
  BY <1>1, TailParts
<1>3. r.id = id => pc # "request" /\ inbox' = <<>>
  BY <1>1, <1>2 DEF Last
<1>4. ASSUME NEW i \in DOMAIN inbox', inbox'[i].id = id'
      PROVE  pc' # "request" /\ i = Len(inbox')
  <2>1. i + 1 \in DOMAIN inbox /\ inbox'[i] = inbox[i + 1] /\ i \in Nat
    BY <1>1, TailParts
  <2>2. i + 1 = Len(inbox) /\ pc # "request"
    BY <1>1, <1>4, <2>1 DEF Last
  <2> QED BY <1>1, <2>1, <2>2
<1>5. (\A i \in DOMAIN pipe : ~Bears(pipe[i], id)) /\ ~Bears(buffer, id)
  BY <1>1 DEF Last
<1>6. ASSUME NEW i \in DOMAIN pipe', Bears(pipe'[i], id')
      PROVE  pc' # "request" /\ i = Len(pipe') /\ inbox' = <<>>
  <2>1. ASSUME NEW answer \in Answers(r), pipe' = pipe \o answer
        PROVE  i = Len(pipe') /\ r.id = id
    <3>1. answer \in Seq(Packet)
      BY <1>2, <2>1, AnswerParts
    <3>2. i - Len(pipe) \in DOMAIN answer /\ pipe'[i] = answer[i - Len(pipe)]
      BY <1>1, <1>5, <1>6, <2>1, <3>1, ConcatParts
    <3>3. i - Len(pipe) = Len(answer) /\ id = r.id
      BY <1>1, <1>2, <1>6, <2>1, <3>2, AnswerLast
    <3>4. Len(pipe') = Len(pipe) + Len(answer) /\ Len(pipe) \in Nat /\ Len(answer) \in Nat
      BY <1>1, <2>1, <3>1
    <3>5. i \in Int
      BY <1>1, <2>1, <3>1
    <3> QED BY <3>3, <3>4, <3>5
  <2>2. ASSUME pipe' = Append(pipe, Answered(r, "refused"))
        PROVE  i = Len(pipe') /\ r.id = id
    <3> DEFINE a == Answered(r, "refused")
    <3>1. a \in Packet /\ (Bears(a, id) => r.id = id)
      BY <1>2, ResponseParts DEF Bears, Packet, Answered
    <3> HIDE DEF a
    <3>2. pipe' = Append(pipe, a)
      BY <2>2 DEF a
    <3>3. (i = Len(pipe') /\ pipe'[i] = a) \/ (i \in DOMAIN pipe /\ pipe'[i] = pipe[i])
      BY <1>1, <3>1, <3>2
    <3> QED BY <1>1, <1>5, <1>6, <3>1, <3>3
  <2>3. i = Len(pipe') /\ r.id = id
    BY <2>1, <2>2 DEF DeviceAnswers
  <2> QED BY <1>1, <1>3, <2>3
<1> QED BY <1>1, <1>4, <1>5, <1>6 DEF Last

\* Nothing in flight has the id of a call that begins.
LEMMA NewId ==
  ASSUME TransactionAssumption, TypeOK, Shape, Accounted, ~crossed,
         NEW o \in Work \cup {"CloseSession"}, Transact(o)
  PROVE  /\ \A i \in DOMAIN inbox : inbox[i].id # id'
         /\ \A i \in DOMAIN pipe : ~Bears(pipe[i], id')
         /\ ~Bears(buffer, id')
<1>1. Begin(o, transactionId) /\ o \in Ops /\ transactionId \in Nat /\ session = "open"
  BY DEF Transact, Ops, TypeOK
<1>2. id' = id + 1 /\ id \in Nat /\ ~Fresh
  BY <1>1, BeginType DEF Shape, TypeOK, Fresh
<1>3. ASSUME NEW i \in DOMAIN inbox
      PROVE  inbox[i].id # id'
  <2>1. inbox[i] \in Request /\ inbox[i].id <= id
    BY DEF Accounted, OwnId, TypeOK
  <2>2. inbox[i].id \in Nat
    BY <2>1 DEF Request
  <2> QED BY <1>2, <2>1, <2>2
<1>4. ASSUME NEW p \in Packet \cup {NoPacket}, Fine(p, id, done)
      PROVE  ~Bears(p, id')
  <2>1. ASSUME NEW q \in Response \cup {NoPacket}, Earned(q, id, done)
        PROVE  ~(q.kind = "resp" /\ q.id = id')
    <3>1. q.kind = "resp" => q.id \in Nat
      BY DEF Response, NoPacket
    <3> QED BY <1>2, <2>1, <3>1 DEF Earned
  <2>2. CASE p.kind = "resp"
    BY <1>4, <2>1, <2>2, PacketParts DEF Fine, Bears, NoPacket
  <2>3. CASE p.kind = "data"
    BY <1>4, <2>1, <2>3, PacketParts DEF Fine, Bears, NoPacket
  <2> QED BY <2>2, <2>3 DEF Bears
<1>5. ASSUME NEW i \in DOMAIN pipe
      PROVE  ~Bears(pipe[i], id')
  <2>1. pipe[i] \in Packet /\ Fine(pipe[i], id, done)
    BY DEF Accounted, TypeOK
  <2> QED BY <1>4, <2>1
<1>6. ~Bears(buffer, id')
  <2>1. buffer \in Packet \cup {NoPacket} /\ buffer.kind # "data"
    BY DEF TypeOK, Packet, Response, NoPacket
  <2>2. Fine(buffer, id, done)
    BY <1>2, <2>1 DEF Accounted, Fine
  <2> QED BY <1>4, <2>1, <2>2
<1> QED BY <1>3, <1>5, <1>6

LEMMA LastStep ==
  ASSUME TransactionAssumption, TypeOK, Shape, Accounted, Last, [Next]_vars
  PROVE  Last'
<1> USE DEF settled
<1>1. CASE OpenSession
  BY <1>1 DEF OpenSession, Begin, Last
<1>2. ASSUME NEW o \in Work \cup {"CloseSession"}, Transact(o)
      PROVE  Last'
  <2>1. /\ Begin(o, transactionId) /\ o \in Ops /\ transactionId \in Nat
        /\ session = "open" /\ buffer' = buffer
    BY <1>2 DEF Transact, Ops, TypeOK
  <2>2. /\ id' = id + 1 /\ inbox' = inbox /\ pipe' = pipe /\ crossed' = crossed /\ id \in Nat
    BY <2>1, BeginType DEF Shape, TypeOK
  <2>4. ASSUME ~crossed
        PROVE  /\ \A i \in DOMAIN inbox : inbox[i].id # id'
               /\ \A i \in DOMAIN pipe : ~Bears(pipe[i], id')
               /\ ~Bears(buffer, id')
    BY <1>2, <2>4, NewId
  <2> QED BY <2>1, <2>2, <2>4 DEF Last
<1>3. CASE Reopen
  BY <1>3 DEF Reopen, Last, params, request
<1>4. CASE SendRequest
  <2>0. CASE ~do_retry'
    BY <2>0 DEF Last
  <2>1. pc # "idle" /\ (do_retry' => pc' # "request" /\ do_retry' = do_retry)
    BY <1>4 DEF SendRequest, AfterRequest, Return
  <2>2. ASSUME ~crossed, do_retry, op \notin {"OpenSession", "none"}
        PROVE  /\ \A i \in DOMAIN inbox' : inbox'[i].id = id => i = Len(inbox')
               /\ \A i \in DOMAIN pipe : ~Bears(pipe[i], id)
               /\ ~Bears(buffer, id)
    BY <1>4, <2>2, AcceptedLast DEF SendRequest, Last
  <2> QED BY <1>4, <2>0, <2>1, <2>2, HostLast DEF SendRequest
<1>5. CASE SendData
  <2>1. pc # "idle" /\ pc' # "request" /\ inbox # <<>>
    BY <1>5 DEF SendData, Return, Shape
  <2>2. ASSUME ~crossed, do_retry, op \notin {"OpenSession", "none"}
        PROVE  /\ \A i \in DOMAIN inbox' : inbox'[i].id = id => i = Len(inbox')
               /\ \A i \in DOMAIN pipe : ~Bears(pipe[i], id)
               /\ ~Bears(buffer, id)
    BY <1>5, <2>1, <2>2, CompletedLast DEF SendData, Last
  <2> QED BY <1>5, <2>1, <2>2, HostLast DEF SendData
<1>6. CASE GetData
  <2>1. pc # "idle" /\ pc' # "request"
    BY <1>6 DEF GetData, ResponseForData, WrongData, OwnCodeData, Return
  <2>2. ASSUME ~crossed, do_retry, op \notin {"OpenSession", "none"}
        PROVE  /\ \A i \in DOMAIN pipe' : Bears(pipe'[i], id) => i = Len(pipe') /\ inbox' = <<>>
               /\ Bears(buffer', id) => pipe' = <<>> /\ inbox' = <<>>
    <3>1. /\ Bears(First, id) => pipe' = <<>> /\ inbox' = <<>>
          /\ \A i \in DOMAIN pipe' : Bears(pipe'[i], id) => i = Len(pipe') /\ inbox' = <<>>
      BY <1>6, <2>2, FirstLast DEF GetData
    <3>2. Bears(buffer', id) => Bears(First, id)
      BY <1>6, BuffersFirst
    <3> QED BY <3>1, <3>2
  <2> QED BY <1>6, <2>1, <2>2, HostLast DEF GetData, Last
<1>7. CASE GetMore
  <2>1. pc # "idle" /\ pc' # "request" /\ pipe \in Seq(Packet) /\ pipe # <<>>
    BY <1>7 DEF GetMore, Return, TypeOK
  <2>2. PICK n \in 1..Len(pipe) : pipe' = SubSeq(pipe, n + 1, Len(pipe))
    BY <1>7, <2>1, TailRest DEF GetMore
  <2>3. ASSUME ~crossed, do_retry, op \notin {"OpenSession", "none"}
        PROVE  /\ \A i \in DOMAIN pipe' : Bears(pipe'[i], id) => i = Len(pipe') /\ inbox = <<>>
               /\ ~Bears(buffer, id)
    BY <2>1, <2>2, <2>3, RestLast DEF Last
  <2> QED BY <1>7, <2>1, <2>3, HostLast DEF GetMore, Last
<1>8. CASE Drain
  <2>1. pc # "idle" /\ pc' # "request" /\ pipe \in Seq(Packet) /\ pipe # <<>>
    BY <1>8 DEF Drain, Return, TypeOK
  <2>2. PICK n \in 1..Len(pipe) : pipe' = SubSeq(pipe, n + 1, Len(pipe))
    BY <1>8, <2>1, TailRest DEF Drain
  <2>3. ASSUME ~crossed, do_retry, op \notin {"OpenSession", "none"}
        PROVE  /\ \A i \in DOMAIN pipe' : Bears(pipe'[i], id) => i = Len(pipe') /\ inbox = <<>>
               /\ ~Bears(buffer, id)
    BY <2>1, <2>2, <2>3, RestLast DEF Last
  <2> QED BY <1>8, <2>1, <2>3, HostLast DEF Drain, Last
<1>9. CASE GetResponse
  <2>1. pc # "idle" /\ pc' # "request"
    BY <1>9 DEF GetResponse, Skip, Conclude, Return
  <2>2. ASSUME ~crossed, do_retry, op \notin {"OpenSession", "none"}
        PROVE  \A i \in DOMAIN pipe' : Bears(pipe'[i], id) => i = Len(pipe') /\ inbox' = <<>>
    BY <1>9, <2>2, FirstLast DEF GetResponse
  <2>3. ~Bears(buffer', id)
    BY <1>9, NoneBears DEF GetResponse, BufferAfter
  <2> QED BY <1>9, <2>1, <2>2, <2>3, HostLast DEF GetResponse, Last
<1>10. CASE ReadFails
  <2>1. pc # "idle" /\ pc' # "request"
    BY <1>10 DEF ReadFails, Return
  <2> QED BY <1>10, <2>1, HostLast DEF ReadFails, Last
<1>11. CASE DeviceAnswers
  <2>1. UNCHANGED <<op, crossed, do_retry>>
    BY <1>11 DEF DeviceAnswers, request, application
  <2> QED BY <1>11, <2>1, DeviceLast DEF Last
<1>12. CASE UNCHANGED vars
  BY <1>12 DEF Last, vars, params, request, device, application
<1> QED
  BY <1>1, <1>2, <1>3, <1>4, <1>5, <1>6, <1>7, <1>8, <1>9, <1>10, <1>11, <1>12
  DEF Next, Host

-----------------------------------------------------------------------------
(* What comes after the answer of the call at work is its own.              *)

\* What a step of the host has to show.
LEMMA HostBehind ==
  ASSUME UNCHANGED begun,
         ~crossed /\ op \notin {"OpenSession", "none"} =>
           /\ BehindRequest(inbox')
           /\ BehindAnswer(pipe', inbox')
           /\ Bears(buffer', id) =>
                (\A i \in DOMAIN pipe' : pipe'[i].call = call) /\ OwnRequests(inbox')
  PROVE  Behind'
BY DEF Behind, BehindRequest, BehindAnswer, OwnRequests, begun, request

\* Of what a read leaves, and of the packet that it takes.
LEMMA FirstBehind ==
  ASSUME TypeOK, Behind, Arrived, ~crossed, op \notin {"OpenSession", "none"}
  PROVE  /\ Bears(First, id) =>
              (\A i \in DOMAIN PipeAfter : PipeAfter[i].call = call) /\ OwnRequests(inbox)
         /\ BehindAnswer(PipeAfter, inbox)
<1>1. CASE buffer # NoPacket
  BY <1>1 DEF First, PipeAfter, Behind
<1>2. CASE buffer = NoPacket
  <2>1. pipe \in Seq(Packet) /\ pipe # <<>> /\ First = pipe[1] /\ PipeAfter = Tail(pipe)
    BY <1>2, TailParts DEF Arrived, TypeOK, First, PipeAfter
  <2>2. 1 \in DOMAIN pipe /\ \A i \in DOMAIN pipe : i \in Nat /\ 1 <= i
    BY <2>1
  <2>3. \A i \in DOMAIN Tail(pipe) :
          i + 1 \in DOMAIN pipe /\ Tail(pipe)[i] = pipe[i + 1] /\ i \in Nat
    BY <2>1, TailParts
  <2>4. ASSUME Bears(First, id)
        PROVE  (\A i \in DOMAIN Tail(pipe) : Tail(pipe)[i].call = call) /\ OwnRequests(inbox)
    BY <2>1, <2>2, <2>3, <2>4 DEF Behind, BehindAnswer
  <2>5. ASSUME NEW i \in DOMAIN Tail(pipe), NEW j \in DOMAIN Tail(pipe), i <= j,
               Bears(Tail(pipe)[i], id)
        PROVE  Tail(pipe)[j].call = call /\ OwnRequests(inbox)
    <3>1. i + 1 <= j + 1
      BY <2>3, <2>5
    <3> QED BY <2>3, <2>5, <3>1 DEF Behind, BehindAnswer
  <2> QED BY <2>1, <2>4, <2>5 DEF BehindAnswer
<1> QED BY <1>1, <1>2

LEMMA RestBehind ==
  ASSUME TypeOK, Behind, ~crossed, op \notin {"OpenSession", "none"}, pipe # <<>>,
         NEW n \in 1..Len(pipe), pipe' = SubSeq(pipe, n + 1, Len(pipe))
  PROVE  BehindAnswer(pipe', inbox)
<1>1. pipe \in Seq(Packet)
  BY DEF TypeOK
<1>2. \A i \in DOMAIN pipe' : i + n \in DOMAIN pipe /\ pipe'[i] = pipe[i + n] /\ i \in Nat
  BY <1>1, RestParts
<1>3. ASSUME NEW i \in DOMAIN pipe', NEW j \in DOMAIN pipe', i <= j, Bears(pipe'[i], id)
      PROVE  pipe'[j].call = call /\ OwnRequests(inbox)
  <2>1. i + n <= j + n
    BY <1>2, <1>3
  <2> QED BY <1>2, <1>3, <2>1 DEF Behind, BehindAnswer
<1> QED BY <1>3 DEF BehindAnswer

LEMMA AcceptedBehind ==
  ASSUME TypeOK, BehindRequest(inbox)
  PROVE  /\ BehindRequest(Accepted)
         /\ OwnRequests(inbox) => OwnRequests(Accepted)
<1> DEFINE r == [call |-> call, op |-> op, id |-> id, complete |-> op \notin Puts]
<1>1. inbox \in Seq(Request) /\ r.id = id /\ r.call = call
  BY DEF TypeOK
<1>2. /\ Kept \in Seq(Request)
      /\ \A i \in DOMAIN Kept : i \in DOMAIN inbox /\ Kept[i] = inbox[i]
  BY <1>1, FrontParts DEF Kept
<1> HIDE DEF r
<1>3. Accepted = Append(Kept, r)
  BY DEF Accepted, r
<1>4. \A i \in DOMAIN Append(Kept, r) :
        \/ i = Len(Kept) + 1 /\ Append(Kept, r)[i] = r
        \/ i \in 1..Len(Kept) /\ i \in DOMAIN Kept /\ Append(Kept, r)[i] = Kept[i]
  BY <1>2
<1>5. ASSUME NEW i \in DOMAIN Accepted, NEW j \in DOMAIN Accepted, i <= j,
             Accepted[i].id = id
      PROVE  Accepted[j].id = id /\ Accepted[j].call = call
  <2>1. CASE Accepted[j] = r
    BY <1>1, <2>1
  <2>2. CASE Accepted[j] # r
    <3>1. j \in 1..Len(Kept) /\ j \in DOMAIN Kept /\ Accepted[j] = Kept[j]
      BY <1>3, <1>4, <2>2
    <3>2. i # Len(Kept) + 1
      BY <1>2, <1>5, <3>1
    <3>3. i \in DOMAIN Kept /\ Accepted[i] = Kept[i]
      BY <1>3, <1>4, <3>2
    <3> QED BY <1>2, <1>5, <3>1, <3>3 DEF BehindRequest
  <2> QED BY <2>1, <2>2
<1>6. OwnRequests(inbox) => OwnRequests(Accepted)
  BY <1>1, <1>2, <1>3, <1>4 DEF OwnRequests
<1> QED BY <1>5, <1>6 DEF BehindRequest

LEMMA CompletedBehind ==
  ASSUME TypeOK, BehindRequest(inbox), inbox # <<>>
  PROVE  /\ BehindRequest(Completed)
         /\ OwnRequests(inbox) => OwnRequests(Completed)
<1>1. inbox \in Seq(Request) /\ DOMAIN Completed = DOMAIN inbox
  BY DEF TypeOK, Completed
<1>2. ASSUME NEW i \in DOMAIN inbox
      PROVE  Completed[i].id = inbox[i].id /\ Completed[i].call = inbox[i].call
  <2>1. inbox[i] \in Request
    BY <1>1
  <2> QED BY <1>1, <2>1 DEF Completed, Request
<1> QED BY <1>1, <1>2 DEF BehindRequest, OwnRequests

LEMMA DeviceBehind ==
  ASSUME TransactionAssumption, TypeOK, Behind, DeviceAnswers,
         ~crossed, op \notin {"OpenSession", "none"}
  PROVE  Behind'
<1> DEFINE r == Head(inbox)
<1>1. /\ UNCHANGED <<id, op, call, buffer, crossed>>
      /\ inbox \in Seq(Request) /\ inbox # <<>> /\ inbox' = Tail(inbox)
      /\ pipe \in Seq(Packet)
  BY DEF DeviceAnswers, TypeOK, params, request, application
<1>2. r \in Request /\ r = inbox[1] /\ 1 \in DOMAIN inbox
  BY <1>1, TailParts
<1>3. \A i \in DOMAIN inbox' : i + 1 \in DOMAIN inbox /\ inbox'[i] = inbox[i + 1] /\ i \in Nat
  BY <1>1, TailParts
<1>4. BehindRequest(inbox')
  <2>1. ASSUME NEW i \in DOMAIN inbox', NEW j \in DOMAIN inbox', i <= j, inbox'[i].id = id
        PROVE  inbox'[j].id = id /\ inbox'[j].call = call
    <3>1. i + 1 <= j + 1
      BY <1>3, <2>1
    <3> QED BY <1>3, <2>1, <3>1 DEF Behind, BehindRequest
  <2> QED BY <2>1 DEF BehindRequest
<1>5. OwnRequests(inbox) => r.call = call /\ OwnRequests(inbox')
  BY <1>2, <1>3 DEF OwnRequests
<1>6. r.id = id => OwnRequests(inbox)
  <2>1. \A i \in DOMAIN inbox : 1 <= i
    BY <1>1
  <2> QED BY <1>2, <2>1 DEF Behind, BehindRequest, OwnRequests
\* what is appended to the pipe
<1>7. PICK answer \in Seq(Packet) :
        /\ pipe' = pipe \o answer
        /\ \A i \in DOMAIN answer : answer[i].call = r.call /\ (Bears(answer[i], id) => r.id = id)
  <2>1. ASSUME NEW a \in Answers(r), pipe' = pipe \o a
        PROVE  /\ a \in Seq(Packet)
               /\ \A i \in DOMAIN a : a[i].call = r.call /\ (Bears(a[i], id) => r.id = id)
    BY <1>2, <2>1, AnswerParts, AnswerCalls, AnswerLast
  <2>2. ASSUME pipe' = Append(pipe, Answered(r, "refused"))
        PROVE  \E a \in Seq(Packet) :
                 /\ pipe' = pipe \o a
                 /\ \A i \in DOMAIN a : a[i].call = r.call /\ (Bears(a[i], id) => r.id = id)
    <3> DEFINE a == Answered(r, "refused")
    <3>1. a \in Packet /\ a.call = r.call /\ (Bears(a, id) => r.id = id)
      BY <1>2, ResponseParts DEF Bears, Packet, Answered
    <3> HIDE DEF a
    <3>2. pipe' = pipe \o <<a>>
      BY <1>1, <2>2, <3>1 DEF a
    <3>3. <<a>> \in Seq(Packet) /\ \A i \in DOMAIN <<a>> : <<a>>[i] = a
      BY <3>1
    <3> QED BY <3>1, <3>2, <3>3
  <2> QED BY <2>1, <2>2 DEF DeviceAnswers
<1>8. /\ \A i \in DOMAIN pipe' :
           \/ i \in 1..Len(pipe) /\ i \in DOMAIN pipe /\ pipe'[i] = pipe[i]
           \/ /\ i \notin 1..Len(pipe) /\ i - Len(pipe) \in DOMAIN answer
              /\ pipe'[i] = answer[i - Len(pipe)]
      /\ \A i \in DOMAIN pipe' : i \in Nat /\ 1 <= i
  BY <1>1, <1>7
<1>9. ASSUME NEW i \in DOMAIN pipe', NEW j \in DOMAIN pipe', i <= j, Bears(pipe'[i], id)
      PROVE  pipe'[j].call = call /\ OwnRequests(inbox')
  <2>1. OwnRequests(inbox)
    <3>1. CASE i \in DOMAIN pipe /\ pipe'[i] = pipe[i]
      <4>1. i <= i
        BY <1>8
      <4> QED BY <1>9, <3>1, <4>1 DEF Behind, BehindAnswer
    <3>2. CASE i - Len(pipe) \in DOMAIN answer /\ pipe'[i] = answer[i - Len(pipe)]
      BY <1>6, <1>7, <1>9, <3>2
    <3> QED BY <1>8, <3>1, <3>2
  <2>2. CASE j \in 1..Len(pipe) /\ j \in DOMAIN pipe /\ pipe'[j] = pipe[j]
    <3>1. i \in 1..Len(pipe)
      BY <1>1, <1>8, <1>9, <2>2
    <3>2. i \in DOMAIN pipe /\ pipe'[i] = pipe[i]
      BY <1>8, <3>1
    <3> QED BY <1>5, <1>9, <2>1, <2>2, <3>2 DEF Behind, BehindAnswer
  <2>3. CASE j - Len(pipe) \in DOMAIN answer /\ pipe'[j] = answer[j - Len(pipe)]
    BY <1>5, <1>7, <2>1, <2>3
  <2> QED BY <1>8, <2>2, <2>3
<1>10. ASSUME Bears(buffer, id)
       PROVE  (\A i \in DOMAIN pipe' : pipe'[i].call = call) /\ OwnRequests(inbox')
  <2>1. (\A i \in DOMAIN pipe : pipe[i].call = call) /\ OwnRequests(inbox)
    BY <1>10 DEF Behind
  <2> QED BY <1>5, <1>7, <1>8, <2>1
<1> QED
  BY <1>1, <1>4, <1>9, <1>10 DEF Behind, BehindRequest, BehindAnswer, OwnRequests

LEMMA BehindStep ==
  ASSUME TransactionAssumption, TypeOK, Shape, Accounted, Behind, [Next]_vars
  PROVE  Behind'
<1> USE DEF settled
<1>1. CASE OpenSession
  BY <1>1 DEF OpenSession, Begin, Behind
<1>2. ASSUME NEW o \in Work \cup {"CloseSession"}, Transact(o)
      PROVE  Behind'
  <2>1. UNCHANGED <<inbox, pipe, buffer, crossed>>
    BY <1>2 DEF Transact, Begin, application
  <2>2. ASSUME ~crossed
        PROVE  /\ \A i \in DOMAIN inbox : inbox[i].id # id'
               /\ \A i \in DOMAIN pipe : ~Bears(pipe[i], id')
               /\ ~Bears(buffer, id')
    BY <1>2, <2>2, NewId
  <2> QED BY <2>1, <2>2 DEF Behind, BehindRequest, BehindAnswer
<1>3. CASE Reopen
  BY <1>3 DEF Reopen, Behind, BehindRequest, BehindAnswer, OwnRequests, params, request
<1>4. CASE SendRequest
  BY <1>4, AcceptedBehind, HostBehind DEF SendRequest, Behind, BehindAnswer
<1>5. CASE SendData
  <2>1. inbox # <<>>
    BY <1>5 DEF SendData, Shape
  <2> QED BY <1>5, <2>1, CompletedBehind, HostBehind DEF SendData, Behind, BehindAnswer
<1>6. CASE GetData
  <2>1. ASSUME ~crossed, op \notin {"OpenSession", "none"}
        PROVE  /\ Bears(First, id) =>
                    (\A i \in DOMAIN pipe' : pipe'[i].call = call) /\ OwnRequests(inbox)
               /\ BehindAnswer(pipe', inbox)
    BY <1>6, <2>1, FirstBehind DEF GetData
  <2>2. Bears(buffer', id) => Bears(First, id)
    BY <1>6, BuffersFirst
  <2> QED BY <1>6, <2>1, <2>2, HostBehind DEF GetData, Behind
<1>7. CASE GetMore
  <2>1. pipe \in Seq(Packet) /\ pipe # <<>>
    BY <1>7 DEF GetMore, TypeOK
  <2>2. PICK n \in 1..Len(pipe) : pipe' = SubSeq(pipe, n + 1, Len(pipe))
    BY <1>7, <2>1, TailRest DEF GetMore
  <2>3. ASSUME ~crossed, op \notin {"OpenSession", "none"}
        PROVE  /\ BehindAnswer(pipe', inbox)
               /\ Bears(buffer, id) =>
                    (\A i \in DOMAIN pipe' : pipe'[i].call = call) /\ OwnRequests(inbox)
    BY <2>1, <2>2, <2>3, RestBehind, RestParts DEF Behind
  <2> QED BY <1>7, <2>3, HostBehind DEF GetMore, Behind
<1>8. CASE Drain
  <2>1. pipe \in Seq(Packet) /\ pipe # <<>>
    BY <1>8 DEF Drain, TypeOK
  <2>2. PICK n \in 1..Len(pipe) : pipe' = SubSeq(pipe, n + 1, Len(pipe))
    BY <1>8, <2>1, TailRest DEF Drain
  <2>3. ASSUME ~crossed, op \notin {"OpenSession", "none"}
        PROVE  /\ BehindAnswer(pipe', inbox)
               /\ Bears(buffer, id) =>
                    (\A i \in DOMAIN pipe' : pipe'[i].call = call) /\ OwnRequests(inbox)
    BY <2>1, <2>2, <2>3, RestBehind, RestParts DEF Behind
  <2> QED BY <1>8, <2>3, HostBehind DEF Drain, Behind
<1>9. CASE GetResponse
  <2>1. ASSUME ~crossed, op \notin {"OpenSession", "none"}
        PROVE  BehindAnswer(pipe', inbox)
    BY <1>9, <2>1, FirstBehind DEF GetResponse
  <2>2. ~Bears(buffer', id)
    BY <1>9, NoneBears DEF GetResponse, BufferAfter
  <2> QED BY <1>9, <2>1, <2>2, HostBehind DEF GetResponse, Behind
<1>10. CASE ReadFails
  BY <1>10, HostBehind DEF ReadFails, Behind
<1>11. CASE DeviceAnswers
  <2>1. UNCHANGED <<op, crossed>>
    BY <1>11 DEF DeviceAnswers, request, application
  <2> QED BY <1>11, <2>1, DeviceBehind DEF Behind
<1>12. CASE UNCHANGED vars
  BY <1>12 DEF Behind, BehindRequest, BehindAnswer, OwnRequests, vars, params, request, device,
               application
<1> QED
  BY <1>1, <1>2, <1>3, <1>4, <1>5, <1>6, <1>7, <1>8, <1>9, <1>10, <1>11, <1>12
  DEF Next, Host

LEMMA SyncStep ==
  ASSUME TransactionAssumption, TypeOK, Shape, Last, Behind, OkResynchronises, [Next]_vars
  PROVE  OkResynchronises'
<1>1. Work \cap {"OpenSession", "CloseSession", "none"} = {}
  BY DEF TransactionAssumption, Work
<1>2. CASE OpenSession
  BY <1>2 DEF OpenSession, Begin, OkResynchronises, ReturnsOk
<1>3. ASSUME NEW o \in Work \cup {"CloseSession"}, Transact(o)
      PROVE  OkResynchronises'
  BY <1>3 DEF Transact, Begin, OkResynchronises, ReturnsOk
<1>4. CASE Reopen
  BY <1>1, <1>4 DEF Reopen, Shape, OkResynchronises, ReturnsOk, request
<1>5. CASE Host
  <2>1. UNCHANGED <<op, call, crossed>>
    BY <1>5, HostKeeps
  <2>2. ASSUME told' = "ok", op \in Work, ~crossed
        PROVE  /\ buffer' = NoPacket /\ do_retry' = do_retry
               /\ do_retry => pipe' = <<>> /\ inbox' = <<>>
               /\ \A i \in DOMAIN pipe' : pipe'[i].call = call
               /\ \A i \in DOMAIN inbox' : inbox'[i].call = call
    <3>1. op \notin {"OpenSession", "CloseSession", "none"}
      BY <1>1, <2>2
    <3>2. GetResponse /\ Arrived /\ Bears(First, id)
      BY <1>5, <2>2, <3>1, OkReads DEF Bears
    <3>3. buffer' = NoPacket /\ pipe' = PipeAfter /\ UNCHANGED <<inbox, do_retry>>
      BY <3>2 DEF GetResponse, BufferAfter, settled
    <3>4. do_retry => PipeAfter = <<>> /\ inbox = <<>>
      BY <2>2, <3>1, <3>2, FirstLast
    <3>5. (\A i \in DOMAIN PipeAfter : PipeAfter[i].call = call) /\ OwnRequests(inbox)
      BY <2>2, <3>1, <3>2, FirstBehind
    <3> QED BY <3>3, <3>4, <3>5 DEF OwnRequests
  <2> QED BY <2>1, <2>2 DEF OkResynchronises, OnlyOwnInFlight, ReturnsOk
<1>6. CASE DeviceAnswers
  <2> DEFINE r == Head(inbox)
  <2>1. /\ UNCHANGED <<op, call, crossed, pc, told, do_retry, buffer>>
        /\ inbox \in Seq(Request) /\ inbox # <<>> /\ inbox' = Tail(inbox)
        /\ pipe \in Seq(Packet)
    BY <1>6 DEF DeviceAnswers, TypeOK, params, request, application
  <2>2. CASE ReturnsOk /\ op \in Work /\ ~crossed
    <3>1. buffer = NoPacket /\ OnlyOwnInFlight /\ ~do_retry
      BY <2>1, <2>2 DEF OkResynchronises
    <3>2. r \in Request /\ r = inbox[1] /\ 1 \in DOMAIN inbox
      BY <2>1, TailParts
    <3>3. r.call = call /\ \A i \in DOMAIN inbox' : inbox'[i].call = call
      BY <2>1, <3>1, <3>2, TailParts DEF OnlyOwnInFlight
    <3>4. ASSUME NEW answer \in Answers(r), pipe' = pipe \o answer
          PROVE  \A i \in DOMAIN pipe' : pipe'[i].call = call
      <4>1. answer \in Seq(Packet) /\ \A i \in DOMAIN answer : answer[i].call = call
        BY <3>2, <3>3, <3>4, AnswerParts, AnswerCalls
      <4> QED BY <2>1, <3>1, <3>4, <4>1, ConcatParts DEF OnlyOwnInFlight
    <3>5. ASSUME pipe' = Append(pipe, Answered(r, "refused"))
          PROVE  \A i \in DOMAIN pipe' : pipe'[i].call = call
      <4> DEFINE a == Answered(r, "refused")
      <4>1. a.call = call /\ a \in Packet
        BY <3>2, <3>3, ResponseParts DEF Answered, Packet
      <4> HIDE DEF a
      <4>2. pipe' = Append(pipe, a)
        BY <3>5 DEF a
      <4>3. \A i \in DOMAIN pipe' : (i \in DOMAIN pipe /\ pipe'[i] = pipe[i]) \/ pipe'[i] = a
        BY <2>1, <4>1, <4>2
      <4> QED BY <3>1, <4>1, <4>3 DEF OnlyOwnInFlight
    <3>6. \A i \in DOMAIN pipe' : pipe'[i].call = call
      BY <1>6, <3>4, <3>5 DEF DeviceAnswers
    <3> QED BY <2>1, <3>1, <3>3, <3>6 DEF OkResynchronises, OnlyOwnInFlight
  <2> QED BY <2>1, <2>2 DEF OkResynchronises, ReturnsOk
<1>7. CASE UNCHANGED vars
  BY <1>7 DEF OkResynchronises, OnlyOwnInFlight, ReturnsOk, vars, request, device, application,
              params
<1> QED BY <1>2, <1>3, <1>4, <1>5, <1>6, <1>7 DEF Next

-----------------------------------------------------------------------------
(* The data of a call after one that returned OK.                           *)

LEMMA ClosedStep ==
  ASSUME TypeOK, Shape, ClosedIsLeft, [Next]_vars
  PROVE  ClosedIsLeft'
<1>1. CASE OpenSession
  BY <1>1 DEF OpenSession, Begin, ClosedIsLeft
<1>2. ASSUME NEW o \in Work \cup {"CloseSession"}, Transact(o)
      PROVE  ClosedIsLeft'
  BY <1>2 DEF Transact, Begin, ClosedIsLeft
<1>3. CASE Reopen
  BY <1>3 DEF Reopen, ClosedIsLeft
<1>4. CASE Host
  <2>1. op' = op /\ pc # "idle"
    BY <1>4, HostKeeps
  <2>2. pc' # "idle" \/ \E outcome : Return(outcome)
    BY <1>4, <2>1
    DEF Host, SendRequest, AfterRequest, SendData, GetData, ResponseForData, WrongData,
        OwnCodeData, GetMore, Drain, GetResponse, Skip, Conclude, ReadFails
  <2> QED BY <2>1, <2>2 DEF ClosedIsLeft, Return
<1>5. CASE DeviceAnswers
  BY <1>5 DEF DeviceAnswers, ClosedIsLeft, request, application
<1>6. CASE UNCHANGED vars
  BY <1>6 DEF ClosedIsLeft, vars, request, application
<1> QED BY <1>1, <1>2, <1>3, <1>4, <1>5, <1>6 DEF Next

\* What is empty after an OK is empty when the next call begins.
LEMMA BeginsAlone ==
  ASSUME TransactionAssumption, TypeOK, Shape, ClosedIsLeft, OkResynchronises,
         NEW o \in Work \cup {"CloseSession"}, Transact(o), ~crossed, afterOk'
  PROVE  buffer' = NoPacket /\ pipe' = <<>> /\ inbox' = <<>>
<1>1. /\ pc = "idle" /\ session = "open" /\ told = "ok" /\ op # "OpenSession"
      /\ UNCHANGED <<buffer, pipe, inbox>>
  BY DEF Transact, Begin
<1>2. op \in Work
  BY <1>1 DEF ClosedIsLeft, Shape, TypeOK, Ops
<1>3. do_retry
  BY DEF Transact
<1> QED BY <1>1, <1>2, <1>3 DEF OkResynchronises, ReturnsOk

\* What a step of the host has to show.
LEMMA HostOwn ==
  ASSUME UNCHANGED begun,
         ~crossed /\ afterOk =>
           /\ \A i \in DOMAIN inbox' : inbox'[i].call = call /\ inbox'[i].op = op
           /\ \A i \in DOMAIN pipe' : pipe'[i].call = call
           /\ \A i \in DOMAIN data' : data'[i] = call
  PROVE  OnlyOwn'
BY DEF OnlyOwn, begun, request

LEMMA DeliverOwn ==
  ASSUME TypeOK, NEW p \in Packet, Deliver(p), p.call = call,
         \A i \in DOMAIN data : data[i] = call
  PROVE  data' # <<>> /\ \A i \in DOMAIN data' : data'[i] = call
<1>1. data \in Seq(Calls) /\ p.call \in Calls /\ data' = Append(data, call)
  BY PacketParts DEF TypeOK, Deliver
<1>2. \A i \in DOMAIN data' : (i \in DOMAIN data /\ data'[i] = data[i]) \/ data'[i] = call
  BY <1>1
<1>3. data' # <<>>
  BY <1>1
<1> QED BY <1>2, <1>3

LEMMA InboxOwn ==
  ASSUME TypeOK, \A i \in DOMAIN inbox : inbox[i].call = call /\ inbox[i].op = op
  PROVE  /\ \A i \in DOMAIN Accepted : Accepted[i].call = call /\ Accepted[i].op = op
         /\ inbox # <<>> => \A i \in DOMAIN Completed :
                              Completed[i].call = call /\ Completed[i].op = op
<1>1. inbox \in Seq(Request)
  BY DEF TypeOK
<1>2. Kept \in Seq(Request) /\ \A i \in DOMAIN Kept : Kept[i].call = call /\ Kept[i].op = op
  BY <1>1, FrontParts DEF Kept
<1> DEFINE r == [call |-> call, op |-> op, id |-> id, complete |-> op \notin Puts]
<1>3. \A i \in DOMAIN Append(Kept, r) :
        (i \in DOMAIN Kept /\ Append(Kept, r)[i] = Kept[i]) \/ Append(Kept, r)[i] = r
  BY <1>2
<1>4. \A i \in DOMAIN Accepted : Accepted[i].call = call /\ Accepted[i].op = op
  BY <1>2, <1>3 DEF Accepted
<1>5. ASSUME inbox # <<>>, NEW i \in DOMAIN Completed
      PROVE  Completed[i].call = call /\ Completed[i].op = op
  <2>1. DOMAIN Completed = DOMAIN inbox /\ inbox[i] \in Request
    BY <1>1, <1>5 DEF Completed
  <2>2. Completed[i].op = inbox[i].op /\ Completed[i].call = inbox[i].call
    BY <1>1, <2>1 DEF Completed, Request
  <2> QED BY <2>1, <2>2
<1> QED BY <1>4, <1>5

LEMMA OwnStep ==
  ASSUME TransactionAssumption, TypeOK, Shape, ClosedIsLeft, OkResynchronises,
         OnlyOwn, [Next]_vars
  PROVE  OnlyOwn'
<1> USE DEF settled
<1>1. CASE OpenSession
  BY <1>1 DEF OpenSession, OnlyOwn
<1>2. ASSUME NEW o \in Work \cup {"CloseSession"}, Transact(o)
      PROVE  OnlyOwn'
  <2>1. data' = <<>> /\ crossed' = crossed
    BY <1>2 DEF Transact, Begin, application
  <2> QED BY <1>2, <2>1, BeginsAlone DEF OnlyOwn
<1>3. CASE Reopen
  BY <1>3 DEF Reopen, OnlyOwn, request
<1>4. CASE SendRequest
  BY <1>4, InboxOwn, HostOwn DEF SendRequest, OnlyOwn
<1>5. CASE SendData
  <2>1. inbox # <<>>
    BY <1>5 DEF SendData, Shape
  <2> QED BY <1>5, <2>1, InboxOwn, HostOwn DEF SendData, OnlyOwn
<1>6. CASE GetData
  <2>1. First \in Packet
    BY <1>6, FirstParts DEF GetData
  <2>2. ASSUME ~crossed, afterOk
        PROVE  /\ \A i \in DOMAIN pipe' : pipe'[i].call = call
               /\ First.kind = "data" => First.call = call
    <3>1. CASE buffer # NoPacket
      <4>1. First.kind = "resp"
        BY <3>1 DEF First, TypeOK, Response
      <4> QED BY <1>6, <2>2, <3>1, <4>1 DEF GetData, PipeAfter, OnlyOwn
    <3>2. CASE buffer = NoPacket
      <4>1. pipe \in Seq(Packet) /\ pipe # <<>>
        BY <1>6, <3>2 DEF GetData, Arrived, TypeOK
      <4> QED BY <1>6, <2>2, <3>2, <4>1, TailParts DEF GetData, PipeAfter, First, OnlyOwn
    <3> QED BY <3>1, <3>2
  <2>3. ASSUME ~crossed, afterOk
        PROVE  \A i \in DOMAIN data' : data'[i] = call
    BY <1>6, <2>1, <2>2, <2>3, DeliverOwn
    DEF GetData, ResponseForData, WrongData, OwnCodeData, OnlyOwn
  <2> QED BY <1>6, <2>2, <2>3, HostOwn DEF GetData, OnlyOwn
<1>7. CASE GetMore
  <2>1. pipe \in Seq(Packet) /\ pipe # <<>>
    BY <1>7 DEF GetMore, TypeOK
  <2>2. PICK n \in 1..Len(pipe) : pipe' = SubSeq(pipe, n + 1, Len(pipe))
    BY <1>7, <2>1, TailRest DEF GetMore
  <2>3. ASSUME ~crossed, afterOk
        PROVE  /\ \A i \in DOMAIN pipe' : pipe'[i].call = call
               /\ Head(pipe) \in Packet /\ Head(pipe).call = call
    BY <2>1, <2>2, <2>3, TailParts, RestParts DEF OnlyOwn
  <2>4. ASSUME ~crossed, afterOk
        PROVE  \A i \in DOMAIN data' : data'[i] = call
    BY <1>7, <2>3, <2>4, DeliverOwn DEF GetMore, OnlyOwn
  <2> QED BY <1>7, <2>3, <2>4, HostOwn DEF GetMore, OnlyOwn
<1>8. CASE Drain
  <2>1. pipe \in Seq(Packet) /\ pipe # <<>> /\ pipe' = Tail(pipe)
    BY <1>8 DEF Drain, TypeOK
  <2>2. ASSUME ~crossed, afterOk
        PROVE  \A i \in DOMAIN pipe' : pipe'[i].call = call
    BY <2>1, <2>2, TailParts DEF OnlyOwn
  <2> QED BY <1>8, <2>2, HostOwn DEF Drain, OnlyOwn
<1>9. CASE GetResponse
  <2>1. ASSUME ~crossed, afterOk
        PROVE  \A i \in DOMAIN pipe' : pipe'[i].call = call
    <3>1. CASE buffer # NoPacket
      BY <1>9, <2>1, <3>1 DEF GetResponse, PipeAfter, OnlyOwn
    <3>2. CASE buffer = NoPacket
      <4>1. pipe \in Seq(Packet) /\ pipe # <<>>
        BY <1>9, <3>2 DEF GetResponse, Arrived, TypeOK
      <4> QED BY <1>9, <2>1, <3>2, <4>1, TailParts DEF GetResponse, PipeAfter, OnlyOwn
    <3> QED BY <3>1, <3>2
  <2> QED BY <1>9, <2>1, HostOwn DEF GetResponse, OnlyOwn
<1>10. CASE ReadFails
  BY <1>10, HostOwn DEF ReadFails, OnlyOwn
<1>11. CASE DeviceAnswers
  <2> DEFINE r == Head(inbox)
  <2>1. /\ UNCHANGED <<op, call, crossed, afterOk, data>>
        /\ inbox \in Seq(Request) /\ inbox # <<>> /\ inbox' = Tail(inbox)
        /\ pipe \in Seq(Packet)
    BY <1>11 DEF DeviceAnswers, TypeOK, request, application
  <2>2. r \in Request /\ r = inbox[1] /\ 1 \in DOMAIN inbox
    BY <2>1, TailParts
  <2>3. CASE ~crossed /\ afterOk
    <3>1. r.call = call
      BY <2>2, <2>3 DEF OnlyOwn
    <3>2. \A i \in DOMAIN inbox' : inbox'[i].call = call /\ inbox'[i].op = op
      BY <2>1, <2>3, TailParts DEF OnlyOwn
    <3>3. ASSUME NEW answer \in Answers(r), pipe' = pipe \o answer
          PROVE  \A i \in DOMAIN pipe' : pipe'[i].call = call
      <4>1. answer \in Seq(Packet) /\ \A i \in DOMAIN answer : answer[i].call = call
        BY <2>2, <3>1, <3>3, AnswerParts, AnswerCalls
      <4> QED BY <2>1, <2>3, <3>3, <4>1, ConcatParts DEF OnlyOwn
    <3>4. ASSUME pipe' = Append(pipe, Answered(r, "refused"))
          PROVE  \A i \in DOMAIN pipe' : pipe'[i].call = call
      <4> DEFINE a == Answered(r, "refused")
      <4>1. a.call = call /\ a \in Packet
        BY <2>2, <3>1, ResponseParts DEF Answered, Packet
      <4> HIDE DEF a
      <4>2. pipe' = Append(pipe, a)
        BY <3>4 DEF a
      <4>3. \A i \in DOMAIN pipe' : (i \in DOMAIN pipe /\ pipe'[i] = pipe[i]) \/ pipe'[i] = a
        BY <2>1, <4>1, <4>2
      <4> QED BY <2>3, <4>1, <4>3 DEF OnlyOwn
    <3>5. \A i \in DOMAIN pipe' : pipe'[i].call = call
      BY <1>11, <3>3, <3>4 DEF DeviceAnswers
    <3> QED BY <2>1, <2>3, <3>2, <3>5 DEF OnlyOwn
  <2> QED BY <2>1, <2>3 DEF OnlyOwn
<1>12. CASE UNCHANGED vars
  BY <1>12 DEF OnlyOwn, vars, request, device, application
<1> QED
  BY <1>1, <1>2, <1>3, <1>4, <1>5, <1>6, <1>7, <1>8, <1>9, <1>10, <1>11, <1>12
  DEF Next, Host

LEMMA DataStep ==
  ASSUME TransactionAssumption, TypeOK, Shape, ClosedIsLeft, OkResynchronises,
         OnlyOwn, DataComes, [Next]_vars
  PROVE  DataComes'
<1>1. CASE OpenSession
  BY <1>1 DEF OpenSession, DataComes
<1>2. ASSUME NEW o \in Work \cup {"CloseSession"}, Transact(o)
      PROVE  DataComes'
  <2>1. pc' = "request" /\ told' = "none" /\ crossed' = crossed
    BY <1>2 DEF Transact, Begin, application
  <2> QED BY <1>2, <2>1, BeginsAlone DEF DataComes
<1>3. CASE Reopen
  <2>1. op \notin Gets /\ op' = op
    BY <1>3 DEF Reopen, Shape, request, TransactionAssumption
  <2> QED BY <2>1 DEF DataComes
<1>4. CASE Host
  <2>1. UNCHANGED begun /\ UNCHANGED <<op, crossed, afterOk>>
    BY <1>4
    DEF Host, SendRequest, SendData, GetData, GetMore, Drain, GetResponse, ReadFails,
        settled, begun, request
  <2> SUFFICES ASSUME ~crossed, afterOk, op \in Gets, data' = <<>>
               PROVE  DataComes'
    BY <2>1 DEF DataComes
  <2> DEFINE Rests == pc' \in {"idle", "drain"} /\ told' # "ok"
  <2>2. CASE Rests
    BY <2>1, <2>2 DEF DataComes
  <2>3. Return("failed") => Rests
    BY DEF Return
  <2>4. data = <<>>
    <3>1. CASE GetData
      <4>1. First \in Packet
        BY <3>1, FirstParts DEF GetData
      <4>2. ~Deliver(First)
        BY <4>1, DeliverSome
      <4> QED BY <3>1, <4>2 DEF GetData, ResponseForData, WrongData, OwnCodeData
    <3>2. CASE GetMore
      <4>1. Head(pipe) \in Packet
        BY <3>2, TailParts DEF GetMore, TypeOK
      <4>2. ~Deliver(Head(pipe))
        BY <4>1, DeliverSome
      <4> QED BY <3>2, <4>2 DEF GetMore
    <3> QED BY <1>4, <3>1, <3>2
            DEF Host, SendRequest, SendData, Drain, GetResponse, ReadFails
  <2> HIDE DEF Rests
  <2>5. CASE SendRequest
    <3>1. CASE pc' = AfterRequest /\ pipe' = pipe /\ buffer' = buffer /\ told' = told
      <4>1. pc' = "dataIn" /\ told = "none" /\ pc = "request"
        BY <2>5, <3>1 DEF SendRequest, AfterRequest, TransactionAssumption, Shape
      <4> QED BY <2>1, <2>4, <3>1, <4>1 DEF DataComes
    <3>2. CASE UNCHANGED <<pc, pipe, buffer, told>>
      BY <2>1, <2>4, <3>2 DEF DataComes
    <3> QED BY <2>2, <2>3, <2>5, <3>1, <3>2 DEF SendRequest
  <2>6. CASE SendData
    BY <2>4, <2>6 DEF SendData, DataComes
  <2>7. CASE GetData
    <3>1. /\ buffer = NoPacket /\ pipe \in Seq(Packet) /\ pipe # <<>> /\ First = pipe[1]
          /\ ~(First.kind = "resp" /\ First.code = "ok") /\ told = "none"
      BY <2>4, <2>7, TailParts DEF GetData, Arrived, First, DataComes, TypeOK, Shape
    <3>2. First \in Packet
      BY <2>7, FirstParts DEF GetData
    <3>3. CASE ResponseForData(First)
      <4>1. First.kind = "resp" /\ First.code = "refused" /\ buffer' = First
            /\ pc' = "resp" /\ told' = "none"
        BY <3>1, <3>2, <3>3, PacketParts DEF ResponseForData
      <4> QED BY <2>1, <4>1 DEF DataComes
    <3>4. CASE WrongData(First)
      BY <2>2, <2>3, <3>1, <3>4 DEF WrongData, Rests
    <3>5. CASE OwnCodeData(First)
      <4>1. ~Deliver(First)
        BY <3>2, DeliverSome
      <4> QED BY <2>2, <2>3, <3>5, <4>1 DEF OwnCodeData
    <3> QED BY <2>7, <3>3, <3>4, <3>5 DEF GetData
  <2>8. CASE GetMore
    BY <2>4, <2>8 DEF GetMore, DataComes
  <2>9. CASE Drain
    BY <2>2, <2>3, <2>9 DEF Drain, Rests, Shape
  <2>10. CASE GetResponse
    <3>1. buffer.kind = "resp" /\ buffer.code = "refused" /\ First = buffer
      BY <2>4, <2>10 DEF GetResponse, DataComes, First, NoPacket
    <3>2. pc' = "idle" /\ told' # "ok"
      BY <2>10, <3>1 DEF GetResponse, Skip, Conclude, Return
    <3> QED BY <2>2, <3>2 DEF Rests
  <2>11. CASE ReadFails
    BY <2>2, <2>3, <2>11 DEF ReadFails
  <2> QED BY <1>4, <2>5, <2>6, <2>7, <2>8, <2>9, <2>10, <2>11 DEF Host
<1>5. CASE DeviceAnswers
  <2> DEFINE r == Head(inbox)
  <2>1. /\ UNCHANGED <<op, pc, buffer, told, crossed, afterOk, data>>
        /\ inbox \in Seq(Request) /\ inbox # <<>> /\ pipe \in Seq(Packet)
    BY <1>5 DEF DeviceAnswers, TypeOK, params, request, application
  <2>2. r \in Request /\ r = inbox[1] /\ 1 \in DOMAIN inbox
    BY <2>1, TailParts
  <2>3. CASE ~crossed /\ afterOk /\ op \in Gets /\ data = <<>> /\ pc \in {"request", "dataIn"}
    <3>1. r.op \in Gets
      BY <2>2, <2>3 DEF OnlyOwn
    <3>2. CASE pipe # <<>>
      <4>1. ASSUME NEW answer \in Answers(r), pipe' = pipe \o answer
            PROVE  pipe'[1] = pipe[1]
        BY <2>1, <2>2, <3>2, <4>1, AnswerParts
      <4>2. ASSUME pipe' = Append(pipe, Answered(r, "refused"))
            PROVE  pipe'[1] = pipe[1]
        BY <2>1, <3>2, <4>2
      <4>3. pipe'[1] = pipe[1]
        BY <1>5, <4>1, <4>2 DEF DeviceAnswers
      <4> QED BY <2>1, <2>3, <3>2, <4>3 DEF DataComes
    <3>3. CASE pipe = <<>>
      <4>1. ASSUME NEW answer \in Answers(r), pipe' = pipe \o answer
            PROVE  pipe'[1].kind = "data"
        <5>1. answer \in Seq(Packet) /\ answer[1].kind = "data" /\ 1 \in DOMAIN answer
          BY <2>2, <3>1, <4>1, AnswerParts, AnswerCalls
        <5>2. pipe' = answer
          BY <3>3, <4>1, <5>1
        <5> QED BY <5>1, <5>2
      <4>2. ASSUME pipe' = Append(pipe, Answered(r, "refused"))
            PROVE  pipe'[1].code = "refused"
        BY <3>3, <4>2 DEF Answered
      <4>3. pipe'[1].kind = "data" \/ pipe'[1].code = "refused"
        BY <1>5, <4>1, <4>2 DEF DeviceAnswers
      <4> QED BY <2>1, <2>3, <4>3 DEF DataComes
    <3> QED BY <3>2, <3>3
  <2> QED BY <2>1, <2>3 DEF DataComes
<1>6. CASE UNCHANGED vars
  BY <1>6 DEF DataComes, vars, params, request, device, application
<1> QED BY <1>1, <1>2, <1>3, <1>4, <1>5, <1>6 DEF Next

-----------------------------------------------------------------------------
(* The theorems.                                                            *)

LEMMA InvInit == ASSUME TransactionAssumption, Init PROVE IInv
<1>1. TypeOK
  BY InitType
<1>2. Shape /\ Accounted /\ OkIsDone /\ Last /\ Behind /\ ClosedIsLeft
  BY DEF Init, Shape, Accounted, OkIsDone, Fresh, Last, Behind, ClosedIsLeft
<1>3. OkResynchronises /\ OnlyOwn /\ DataComes
  BY DEF Init, OkResynchronises, ReturnsOk, OnlyOwn, DataComes
<1> QED BY <1>3, <1>1, <1>2 DEF IInv

(* What every reachable state keeps: types, the course of a call, the ids   *)
(* of what is in flight, and whose it is (ptp_transaction_new over usb.c).  *)
THEOREM Invariant == Spec => []IInv
<1>1. Init => IInv
  BY InvInit, TransactionAssumption
<1>2. IInv /\ [Next]_vars => IInv'
  BY TypeStep, ShapeStep, ClosedStep, AccountStep, OkIsDoneStep, LastStep, BehindStep, SyncStep,
     OwnStep, DataStep, TransactionAssumption DEF IInv
<1> QED BY <1>1, <1>2, PTL DEF Spec

(* TypeOK: what every variable of the transaction layer and the device      *)
(* holds, for containers of any length and any number of calls.             *)
THEOREM TypeCorrect == Spec => []TypeOK
<1>1. IInv => TypeOK
  BY DEF IInv
<1> QED BY <1>1, Invariant, PTL

\* Init and Next of RequestResponse under the mapping of Promised.
LEMMA PromisedInit == Init => Promised!Init
BY DEF Init, Promised!Init

LEMMA PromisedStep ==
  ASSUME TransactionAssumption, IInv, IInv', [Next]_vars
  PROVE  [Promised!Next]_(Promised!vars)
<1> USE DEF Promised!Next, Promised!vars
<1>1. CASE OpenSession
  <2>1. /\ told # "none" /\ told' = "none" /\ op' = "OpenSession" /\ crossed' = crossed
    BY <1>1 DEF OpenSession, Begin, application, IInv, Shape
  <2>2. done' = (op = "OpenSession" /\ done)
    BY <1>1 DEF OpenSession, IInv, TypeOK
  <2> QED BY <2>1, <2>2 DEF Promised!Ask
<1>2. ASSUME NEW o \in Work \cup {"CloseSession"}, Transact(o)
      PROVE  Promised!Next
  <2>1. /\ told # "none" /\ told' = "none" /\ op' = o /\ done' = FALSE
        /\ o # "OpenSession" /\ o # "none"
    BY <1>2 DEF Transact, Begin, IInv, Shape, Work, TransactionAssumption
  <2> QED BY <2>1 DEF Promised!Ask
<1>3. CASE Reopen
  BY <1>3 DEF Reopen, request, IInv, Shape
<1>4. CASE Host
  <2>1. /\ told = "none" /\ op # "none" /\ op' = op /\ done' = done /\ crossed' = crossed
        /\ told' \in {"none", "ok", "refused", "failed"}
    BY <1>4, HostKeeps DEF IInv, Shape
  <2>2. told' = "ok" /\ op # "CloseSession" /\ ~crossed => done
    BY <1>4, OkStep DEF IInv
  <2>3. CASE told' = "none"
    BY <2>1, <2>3
  <2>4. CASE told' # "none"
    BY <2>1, <2>2, <2>4 DEF Promised!Answer, Promised!Answers
  <2> QED BY <2>3, <2>4
<1>5. CASE DeviceAnswers
  <2>1. /\ op' = op /\ told' = told /\ crossed' = crossed
        /\ done' = TRUE \/ done' = done
    BY <1>5 DEF DeviceAnswers, request, application, IInv, TypeOK
  <2> QED BY <2>1 DEF Promised!Decide
<1>6. CASE UNCHANGED vars
  BY <1>6 DEF vars, request, device, application
<1> QED BY <1>1, <1>2, <1>3, <1>4, <1>5, <1>6 DEF Next

(* ptp_transaction_new with ptp_usb_getresp: a call that returns OK was     *)
(* done by the device, its own request and no other - PTPTransaction        *)
(* implements RequestResponse, however late the device answers.             *)
THEOREM AnswersRequest == Spec => AnswersOwnRequest
<1>1. IInv /\ IInv' /\ [Next]_vars => [Promised!Next]_(Promised!vars)
  BY PromisedStep, TransactionAssumption
<1> QED BY <1>1, PromisedInit, Invariant, PTL DEF Spec, AnswersOwnRequest, Promised!Spec

(* ptp_transaction_new over ptp_usb_sendreq: whatever was late, cut short   *)
(* or cancelled before, a call that returns OK leaves nothing read ahead,   *)
(* and nothing in flight or unanswered but a second copy of its request.    *)
THEOREM OkLeavesInStep == Spec => []OkResynchronises
<1>1. IInv => OkResynchronises
  BY DEF IInv
<1> QED BY <1>1, Invariant, PTL

(* ptp_usb_getdata: a get that returns OK after a call that did, with its   *)
(* request written once, has handed over data, and only the data of its own *)
(* request.                                                                 *)
THEOREM DataIsTheCalls == Spec => []DataAfterOkIsOwn
<1>1. ASSUME IInv
      PROVE  DataAfterOkIsOwn
  BY <1>1, TransactionAssumption DEF IInv, OnlyOwn, DataComes, DataAfterOkIsOwn, ReturnsOk, OwnData
<1> QED BY <1>1, Invariant, PTL

=============================================================================
