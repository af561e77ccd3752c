--------------------------- MODULE PTPTransaction ---------------------------
(* PTP transactions over USB: ptp_transaction_new of ptp.c and the four     *)
(* functions of usb.c it runs on (send the request, send data, get data,    *)
(* get the response), one transaction after another, over one pair of bulk  *)
(* pipes to a device that may answer late.                                  *)
(*                                                                         *)
(* The device, and what is in flight from it, are external: `inbox` holds   *)
(* the requests it has not dealt with, `pipe` the packets it has sent and   *)
(* the host has not read.  It deals with requests in the order they came.   *)
(* A read may fail whatever the pipe holds: the answer had not arrived yet, *)
(* or the port reported an error that outlasted the halt-and-retry of the   *)
(* code.  A packet is one read of the host: a data container too long for   *)
(* the first read is followed by "more" packets.                            *)
(*                                                                         *)
(* Calls are numbered for the properties; packets remember whose answer     *)
(* they carry, which the code cannot see: it has the operation code of a    *)
(* data packet and the transaction id of a response.                        *)
EXTENDS Integers, Sequences, FiniteSets

CONSTANTS
  Gets,                     \* operations that return data
  Puts,                     \* operations that send data
  Plains,                   \* operations without data
  MaxCalls,                 \* bound: calls made
  MaxMore,                  \* bound: packets of a data container after its first
  MaxSessions,              \* bound: sessions opened, in one process or several
  MaxRetries                \* bound: requests written again, over all calls

ASSUME TransactionAssumption ==
  /\ MaxCalls \in Nat \ {0}
  /\ MaxMore \in Nat
  /\ MaxSessions \in Nat \ {0}
  /\ MaxRetries \in Nat
  /\ Gets \cap (Puts \cup Plains) = {}
  /\ Puts \cap Plains = {}
  /\ {"OpenSession", "CloseSession", "none"} \cap (Gets \cup Puts \cup Plains) = {}

Calls == 1..MaxCalls
Work == Gets \cup Puts \cup Plains
Ops == Work \cup {"OpenSession", "CloseSession"}

Response == [kind : {"resp"}, call : Calls, id : Nat, code : {"ok", "refused"}]
NoPacket == [kind |-> "none"]
\* a response that came in the same read as the data is the packet's surplus
Data == [kind : {"data"}, call : Calls, op : Gets, more : 0..MaxMore,
         surplus : Response \cup {NoPacket}]
More == [kind : {"more"}, call : Calls]
Packet == Response \cup Data \cup More
Request == [call : Calls, op : Ops, id : Nat, complete : BOOLEAN]

VARIABLES
  \* params
  transactionId,            \* transaction_id: the next one to use
  buffer,                   \* response_packet: read ahead of its turn
  \* the transaction at work, or the last one
  pc,
  op, id,                   \* ptp->Code and ptp->Transaction_ID of the request
  do_retry,                 \* its request has not been written again
  left,                     \* packets of the container still to be read
  tries,
  \* the device, external
  inbox, pipe,
  \* the application
  session,                  \* "opening", "open", "closed"
  sessions,
  \* for the properties
  call,                     \* calls made so far
  retries,                  \* requests written again so far
  since,                    \* the first of a run of repeated openings
  done, refused,            \* what the device did with the requests since then
  told,                     \* what the call returned
  data,                     \* whose packets it handed to its handler
  afterOk,                  \* the call before it was no opening, returned OK and
                            \* did not write its request again
  crossed                   \* a session was opened over what was in flight
                            \* from the one before

params == <<transactionId, buffer>>
request == <<op, id, call, since, afterOk>>
device == <<inbox, pipe, done, refused>>
application == <<session, sessions, crossed>>
vars == <<params, request, do_retry, retries, pc, left, tries, device, application, told, data>>
\* what no step of a transaction changes once it has begun
begun == <<transactionId, request, done, refused, sessions, crossed>>
\* and once its request is sent
settled == <<begun, do_retry, retries>>

TypeOK ==
  /\ transactionId \in Nat
  /\ buffer \in Response \cup {NoPacket}
  /\ pc \in {"idle", "request", "dataOut", "dataIn", "dataMore", "drain", "resp"}
  /\ op \in Ops \cup {"none"}
  /\ id \in Nat
  /\ do_retry \in BOOLEAN
  /\ left \in 0..MaxMore
  /\ tries \in 0..3
  /\ inbox \in Seq(Request)
  /\ pipe \in Seq(Packet)
  /\ session \in {"opening", "open", "closed"}
  /\ sessions \in 1..MaxSessions
  /\ call \in 0..MaxCalls
  /\ retries \in 0..MaxRetries
  /\ since \in 0..MaxCalls
  /\ done \in BOOLEAN
  /\ refused \in BOOLEAN
  /\ told \in {"none", "ok", "refused", "failed"}
  /\ data \in Seq(Calls)
  /\ afterOk \in BOOLEAN
  /\ crossed \in BOOLEAN

Init ==
  /\ transactionId = 0
  /\ buffer = NoPacket
  /\ pc = "idle"
  /\ op = "none"
  /\ id = 0
  /\ do_retry = TRUE
  /\ left = 0
  /\ tries = 0
  /\ inbox = <<>>
  /\ pipe = <<>>
  /\ session = "opening"
  /\ sessions = 1
  /\ call = 0
  /\ retries = 0
  /\ since = 0
  /\ done = FALSE
  /\ refused = FALSE
  /\ told = "failed"
  /\ data = <<>>
  /\ afterOk = FALSE
  /\ crossed = FALSE

-----------------------------------------------------------------------------
(* Beginning a transaction.                                                 *)

\* MUTANT of Begin: the counter is not moved on.
BeginKeepsId(o, next) ==
  /\ pc = "idle"
  /\ call < MaxCalls
  /\ call' = call + 1
  /\ op' = o
  /\ id' = next
  /\ transactionId' = next
  /\ pc' = "request"
  /\ do_retry' = TRUE
  /\ told' = "none"
  /\ data' = <<>>
  /\ UNCHANGED <<retries, left, tries, inbox, pipe, application>>

(* The id is taken, and the counter moved on, before anything is sent.      *)
Begin(o, next) ==
  /\ pc = "idle"
  /\ call < MaxCalls
  /\ call' = call + 1
  /\ op' = o
  /\ id' = next
  /\ transactionId' = next + 1
  /\ pc' = "request"
  /\ do_retry' = TRUE
  /\ told' = "none"
  /\ data' = <<>>
  /\ UNCHANGED <<retries, left, tries, inbox, pipe, application>>

(* ptp_opensession starts the ids again and forgets a response read ahead.  *)
(* camera_init repeats it while it fails.                                   *)
OpenSession ==
  /\ session = "opening"
  /\ Begin("OpenSession", 0)
  /\ buffer' = NoPacket
  /\ afterOk' = FALSE
  /\ IF op = "OpenSession"
     THEN UNCHANGED <<since, done, refused>>
     ELSE since' = call + 1 /\ done' = FALSE /\ refused' = FALSE

Transact(o) ==
  /\ session = "open"
  /\ Begin(o, transactionId)
  /\ since' = call + 1
  /\ done' = FALSE
  /\ refused' = FALSE
  /\ afterOk' = (told = "ok" /\ op # "OpenSession" /\ do_retry)
  /\ UNCHANGED buffer

(* A session is opened again, by this process or the next one to open the   *)
(* device: after a reset of the port, which empties the pipes, or without.  *)
Reopen ==
  /\ pc = "idle"
  /\ session = "closed"
  /\ sessions < MaxSessions
  /\ session' = "opening"
  /\ sessions' = sessions + 1
  /\ \/ /\ inbox' = <<>>
        /\ pipe' = <<>>
        /\ UNCHANGED crossed
     \/ /\ inbox # <<>> \/ pipe # <<>>
        /\ crossed' = TRUE
        /\ UNCHANGED <<inbox, pipe>>
  /\ UNCHANGED <<params, request, do_retry, retries, pc, left, tries, done, refused, told, data>>

Return(outcome) ==
  /\ pc' = "idle"
  /\ told' = outcome
  /\ session' = CASE op = "OpenSession" /\ outcome = "ok" -> "open"
                  [] op = "CloseSession" -> "closed"
                  [] OTHER -> session
  /\ left' = 0
  /\ tries' = 0

-----------------------------------------------------------------------------
(* Sending.                                                                 *)

\* A new command makes the device give up one whose data never came.
Kept ==
  IF inbox # <<>> /\ ~inbox[Len(inbox)].complete
  THEN SubSeq(inbox, 1, Len(inbox) - 1) ELSE inbox
Accepted ==
  Append(Kept, [call |-> call, op |-> op, id |-> id, complete |-> op \notin Puts])

AfterRequest ==
  CASE op \in Puts -> "dataOut"
    [] op \in Gets -> "dataIn"
    [] OTHER -> "resp"

(* ptp_usb_sendreq.  A write that failed may have reached the device.  The  *)
(* code clears the halt and writes the same request, with the same id, once *)
(* more: the device may then have it twice, do it twice and answer twice.   *)
SendRequest ==
  /\ pc = "request"
  /\ \/ /\ inbox' = Accepted
        /\ pc' = AfterRequest
        /\ tries' = 3
        /\ UNCHANGED <<do_retry, retries, left, session, told>>
     \/ /\ do_retry
        /\ retries < MaxRetries
        /\ do_retry' = FALSE
        /\ retries' = retries + 1
        /\ inbox' \in {inbox, Accepted}
        /\ UNCHANGED <<pc, tries, left, session, told>>
     \/ /\ inbox' \in {inbox, Accepted}
        /\ Return("failed")
        /\ UNCHANGED <<do_retry, retries>>
  /\ UNCHANGED <<begun, buffer, pipe, data>>

\* The last request of the inbox, once all of its data are there.
Completed == [inbox EXCEPT ![Len(inbox)].complete = TRUE]

(* ptp_usb_senddata.  A source that fails, or a write, ends the call with   *)
(* the device waiting for the rest; a failed write may have been the last.  *)
SendData ==
  /\ pc = "dataOut"
  /\ \/ /\ inbox' = Completed
        /\ pc' = "resp"
        /\ UNCHANGED <<left, tries, session, told>>
     \/ /\ inbox' \in {inbox, Completed}
        /\ Return("failed")
  /\ UNCHANGED <<settled, buffer, pipe, data>>

-----------------------------------------------------------------------------
(* Reading.  ptp_usb_getpacket serves the packet read ahead before it reads *)
(* the port; the rest of a long container is read from the port directly.   *)

Arrived == buffer # NoPacket \/ pipe # <<>>
First == IF buffer # NoPacket THEN buffer ELSE Head(pipe)
PipeAfter == IF buffer # NoPacket THEN pipe ELSE Tail(pipe)
\* MUTANT of BufferAfter: the packet is not freed
BufferKept == buffer
BufferAfter == NoPacket

(* What is handed to the data handler, which may refuse it.                 *)
Deliver(p) == data' = Append(data, p.call)

ReadFails ==
  /\ \/ pc \in {"dataMore", "drain"}
     \/ pc \in {"dataIn", "resp"} /\ buffer = NoPacket
  /\ Return("failed")
  /\ UNCHANGED <<settled, buffer, inbox, pipe, data>>

\* MUTANT of ResponseForData: a response ends the call.
ResponseEndsCall(p) ==
  /\ p.kind = "resp"
  /\ buffer' = NoPacket
  /\ Return("ok")
  /\ UNCHANGED data

(* A response where data was expected is kept for its own phase.            *)
ResponseForData(p) ==
  /\ p.kind = "resp"
  /\ buffer' = p
  /\ pc' = "resp"
  /\ UNCHANGED <<left, tries, session, told, data>>

(* Not a container, or the data of another operation: the call fails, after *)
(* the rest of such data has been read.                                     *)
WrongData(p) ==
  /\ buffer' = BufferAfter
  /\ \/ /\ p.kind = "more" \/ (p.kind = "data" /\ p.op # op /\ p.more = 0)
        /\ Return("failed")
     \/ /\ p.kind = "data" /\ p.op # op /\ p.more > 0
        /\ left' = p.more
        /\ pc' = "drain"
        /\ UNCHANGED <<tries, session, told>>
  /\ UNCHANGED data

\* MUTANT of OwnCodeData: one packet too many is counted.
OwnCodeDataOff(p) ==
  /\ p.kind = "data"
  /\ p.op = op
  /\ buffer' = p.surplus
  /\ Deliver(p)
  /\ left' = p.more + 1
  /\ pc' = "dataMore"
  /\ UNCHANGED <<tries, session, told>>

(* Data of this operation, whatever its transaction id says.  A response in *)
(* the same read is kept for its own phase.                                 *)
OwnCodeData(p) ==
  /\ p.kind = "data"
  /\ p.op = op
  /\ buffer' = p.surplus
  /\ \/ /\ Deliver(p)
        /\ left' = p.more
        /\ pc' = IF p.more > 0 THEN "dataMore" ELSE "resp"
        /\ UNCHANGED <<tries, session, told>>
     \/ /\ Return("failed")
        /\ UNCHANGED data

(* ptp_usb_getdata, its first packet.                                       *)
GetData ==
  /\ pc = "dataIn"
  /\ Arrived
  /\ pipe' = PipeAfter
  /\ \/ ResponseForData(First)
     \/ WrongData(First)
     \/ OwnCodeData(First)
  /\ UNCHANGED <<settled, inbox>>

(* ptp_usb_getdata, the rest of a container.  The handler may refuse a      *)
(* packet; once a megabyte is there the application may cancel after any.   *)
(* Then ptp_transaction_new sends the cancel request and drains nothing:    *)
(* whether the device drops what it has sent is its own affair.             *)
GetMore ==
  /\ pc = "dataMore"
  /\ pipe # <<>>
  /\ \/ /\ pipe' = Tail(pipe)
        /\ Deliver(Head(pipe))
        /\ left' = left - 1
        /\ pc' = IF left > 1 THEN "dataMore" ELSE "resp"
        /\ UNCHANGED <<tries, session, told>>
     \/ /\ pipe' = Tail(pipe)
        /\ Return("failed")
        /\ UNCHANGED data
     \/ /\ \E n \in 1..Len(pipe) :
             /\ \A i \in 1..n : pipe[i].call = Head(pipe).call
             /\ pipe' = SubSeq(pipe, n + 1, Len(pipe))
        /\ Deliver(Head(pipe))
        /\ Return("failed")
  /\ UNCHANGED <<settled, buffer, inbox>>

(* Reading away the rest of data that came late.                            *)
Drain ==
  /\ pc = "drain"
  /\ pipe # <<>>
  /\ pipe' = Tail(pipe)
  /\ \/ /\ left > 1
        /\ left' = left - 1
        /\ UNCHANGED <<pc, tries, session, told>>
     \/ /\ left <= 1
        /\ Return("failed")
  /\ UNCHANGED <<settled, buffer, inbox, data>>

-----------------------------------------------------------------------------
(* The response: ptp_usb_getresp in the loop of ptp_transaction_new.        *)

(* A short data packet where the response was expected is skipped; so is an *)
(* older response, and, by an opening that has tries left, a newer one.     *)
Skip(p) ==
  /\ \/ /\ p.kind = "data" /\ p.more = 0 /\ p.surplus = NoPacket
        /\ UNCHANGED tries
     \/ /\ p.kind = "resp" /\ p.code = "ok" /\ p.id < id
        /\ op # "CloseSession"
        /\ UNCHANGED tries
     \/ /\ p.kind = "resp" /\ p.code = "ok" /\ p.id > id
        /\ op = "OpenSession"
        /\ tries > 1
        /\ tries' = tries - 1
  /\ UNCHANGED <<pc, left, session, told>>

\* MUTANT of Conclude: the id of a response is not compared.
ConcludeAny(p) ==
  /\ p.kind = "resp"
  /\ Return(p.code)

(* An error code ends the call whichever transaction it answers.  The id of *)
(* an OK must be this call's; CloseSession takes an older one too.          *)
Conclude(p) ==
  /\ \/ /\ p.kind = "more" \/ (p.kind = "data" /\ (p.more > 0 \/ p.surplus # NoPacket))
        /\ Return("failed")
     \/ /\ p.kind = "resp" /\ p.code = "refused"
        /\ Return("refused")
     \/ /\ p.kind = "resp" /\ p.code = "ok"
        /\ p.id = id \/ (p.id < id /\ op = "CloseSession")
        /\ Return("ok")
     \/ /\ p.kind = "resp" /\ p.code = "ok" /\ p.id > id
        /\ op # "OpenSession" \/ tries <= 1
        /\ Return("failed")

GetResponse ==
  /\ pc = "resp"
  /\ Arrived
  /\ buffer' = BufferAfter
  /\ pipe' = PipeAfter
  /\ Skip(First) \/ Conclude(First)
  /\ UNCHANGED <<settled, inbox, data>>

-----------------------------------------------------------------------------
(* The device.                                                              *)

Answered(r, code) == [kind |-> "resp", call |-> r.call, id |-> r.id, code |-> code]

Container(r, n, surplus) ==
  << [kind |-> "data", call |-> r.call, op |-> r.op, more |-> n, surplus |-> surplus] >>
  \o [i \in 1..n |-> [kind |-> "more", call |-> r.call]]

(* What the device sends for request r: an error at once, or the data, if   *)
(* any, and then the response, perhaps in one read with short data.         *)
Answers(r) ==
  IF r.op \in Gets
  THEN {Container(r, n, NoPacket) \o <<Answered(r, "ok")>> : n \in 0..MaxMore}
       \cup {Container(r, 0, Answered(r, "ok"))}
  ELSE {<<Answered(r, "ok")>>}

DeviceAnswers ==
  /\ inbox # <<>>
  /\ Head(inbox).complete
  /\ inbox' = Tail(inbox)
  /\ \/ /\ done' = (done \/ Head(inbox).call >= since)
        /\ \E answer \in Answers(Head(inbox)) : pipe' = pipe \o answer
        /\ UNCHANGED refused
     \/ /\ refused' = (refused \/ Head(inbox).call >= since)
        /\ pipe' = Append(pipe, Answered(Head(inbox), "refused"))
        /\ UNCHANGED done
  /\ UNCHANGED <<params, request, do_retry, retries, pc, left, tries, application, told, data>>

-----------------------------------------------------------------------------

Host ==
  \/ SendRequest \/ SendData
  \/ GetData \/ GetMore \/ Drain
  \/ GetResponse
  \/ ReadFails

Next ==
  \/ OpenSession
  \/ \E o \in Work \cup {"CloseSession"} : Transact(o)
  \/ Reopen
  \/ Host
  \/ DeviceAnswers

Spec == Init /\ [][Next]_vars

(* A call of the code runs on: a read ends, if only by the timeout of the   *)
(* port.  Nothing is assumed of the device.                                 *)
FairSpec == Spec /\ WF_vars(Host)

-----------------------------------------------------------------------------
(* Properties.                                                              *)

ReturnsOk == pc = "idle" /\ told = "ok"

(* ptp_transaction_new: a call other than CloseSession that returns OK was  *)
(* done by the device - this very request, not an older one whose response  *)
(* came late; for an opening, one of its repetitions.  Ids begin again with *)
(* every session, so this holds until one is opened over what is in flight  *)
(* from the one before: see OkIsOwn.                                        *)
Promised == INSTANCE RequestResponse WITH
  asks <- CASE op = "none" -> "nothing"
            [] op = "OpenSession" -> "open"
            [] OTHER -> "work",
  told <- IF told = "ok" /\ (op = "CloseSession" \/ crossed) THEN "unsure"
          ELSE IF op = "none" THEN "unsure" ELSE told

AnswersOwnRequest == Promised!Spec

\* What is in flight, in either direction, carries this call's request or answers.
OnlyOwnInFlight ==
  /\ \A i \in DOMAIN pipe : pipe[i].call = call
  /\ \A i \in DOMAIN inbox : inbox[i].call = call

(* ptp_transaction_new with ptp_usb_getpacket: whatever was late, cut short *)
(* or cancelled before, a call that returns OK ends with both sides in      *)
(* step: nothing is read ahead, and nothing of an earlier call is in flight *)
(* or still to be dealt with; nor is anything of this call, unless its      *)
(* request was written again and the device has both.                       *)
OkResynchronises ==
  ReturnsOk /\ op \in Work /\ ~crossed =>
    /\ buffer = NoPacket
    /\ OnlyOwnInFlight
    /\ do_retry => pipe = <<>> /\ inbox = <<>>

OwnData == data # <<>> /\ \A i \in DOMAIN data : data[i] = call

(* ptp_usb_getdata does not look at the transaction id of data: what keeps  *)
(* one call's data from another is that the call before it left both sides  *)
(* in step.  After a call that returned OK, and whose request was written   *)
(* only once, a get that returns OK has handed over data, and only the data *)
(* of its own request.  Its own request may have been written again: both   *)
(* answers are its own, and what it does not read is the next call's luck.  *)
DataAfterOkIsOwn == ReturnsOk /\ op \in Gets /\ afterOk /\ ~crossed => OwnData

(* ptp_usb_getdata: "if this is a valid packet that came late, drain it".   *)
(* A get that returns OK has handed over its own data.  Late data of the    *)
(* same operation, or a late response, break it.                            *)
DataIsOwn == ReturnsOk /\ op \in Gets /\ ~crossed => OwnData

(* ptp_usb_getresp: an error code is the answer to this call's request.     *)
(* Late errors break it.                                                    *)
RefusalIsOwn == pc = "idle" /\ told = "refused" => refused

(* ptp_transaction_new: "try to clean up potential left overs from previous *)
(* session".  AnswersOwnRequest across sessions, which left overs break.    *)
OkIsOwn == ReturnsOk /\ op # "CloseSession" => done

(* The loops of ptp_transaction_new and ptp_usb_getdata, which do not count *)
(* what they skip: every call returns, whatever the device has sent.        *)
CallReturns == pc # "idle" ~> pc = "idle"

=============================================================================
