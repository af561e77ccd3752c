------------------------------ MODULE PTPEvents ------------------------------
(* PTP events: ptp_usb_event reads them from the interrupt endpoint, and    *)
(* ptp_check_event, ptp_wait_event and ptp_check_event_queue put them into  *)
(* params->events, from which the driver takes them (camlibs/ptp2/ptp.c and *)
(* usb.c, over the pool of InterruptPool).                                  *)
(*                                                                         *)
(* What an event does to the object cache is left out, and so are the       *)
(* vendors' own queues.                                                     *)
EXTENDS InterruptPool, SequencesExt

VARIABLES
  reading,                  \* where in ptp_usb_event: the readings still to come
  part,                     \* the packets of the event being read
  events,                   \* params->events
  taken                     \* packets of events taken from it

driver == <<reading, part, events, taken>>
vars == <<poolVars, driver>>

TypeOK ==
  /\ PoolTypeOK
  /\ reading \in {"no", "once", "first", "again", "rest"}
  /\ part \in Seq(Packet)
  /\ events \in Seq(Seq(Packet))
  /\ taken \subseteq 1..MaxPackets

Init ==
  /\ PoolInit
  /\ reading = "no"
  /\ part = <<>>
  /\ events = <<>>
  /\ taken = {}

-----------------------------------------------------------------------------
(* ptp_usb_event: a reading that may wait is tried twice, one that looks    *)
(* into the queue once.                                                     *)

Check(waits) ==
  /\ reading = "no"
  /\ CheckInt(waits)
  /\ reading' = IF waits THEN "first" ELSE "once"
  /\ UNCHANGED <<part, events, taken>>

Came == ret.status = "completed"
Answered(where) == pc = "idle" /\ inUse /\ reading \in where /\ ret.status # "none"

CheckAgain ==
  /\ Answered({"first"})
  /\ ~Came
  /\ CheckInt(TRUE)
  /\ reading' = "again"
  /\ UNCHANGED <<part, events, taken>>

\* ptp_usb_event returns, the result having been read
Done ==
  /\ reading' = "no"
  /\ ret' = None
  /\ UNCHANGED <<handle, pool, ended, irqs, pc, closing, owed, bounds, ghosts>>

(* Nothing, or an error.                                                    *)
CheckFails ==
  /\ Answered({"once", "again"})
  /\ ~Came
  /\ Done
  /\ UNCHANGED <<part, events, taken>>

\* ptp_add_event
Adds(event) ==
  /\ events' = Append(events, event)
  /\ part' = <<>>
  /\ Done

(* A short packet: whatever it is, it is taken for an event.                *)
ReadEvent ==
  /\ Answered({"once", "first", "again"})
  /\ Came
  /\ ~ret.packet.more
  /\ Adds(<<ret.packet>>)
  /\ UNCHANGED taken

(* One that says it is longer is read on, ...                               *)
ReadOn ==
  /\ Answered({"once", "first", "again"})
  /\ Came
  /\ ret.packet.more
  /\ part' = <<ret.packet>>
  /\ reading' = "rest"
  /\ CheckInt(TRUE)
  /\ UNCHANGED <<events, taken>>

(* ... until it is complete, or nothing came in time: it is an event all    *)
(* the same.                                                                *)
ReadRest ==
  /\ Answered({"rest"})
  /\ Adds(IF Came THEN Append(part, ret.packet) ELSE part)
  /\ UNCHANGED taken

-----------------------------------------------------------------------------
(* ptp_get_one_event takes the first event, ptp_get_one_event_by_type the   *)
(* first of its code, which may be any.                                     *)
TakeEvent ==
  /\ reading = "no"
  /\ \E i \in DOMAIN events :
       /\ taken' = taken \cup {events[i][j].n : j \in DOMAIN events[i]}
       /\ events' = RemoveAt(events, i)
  /\ UNCHANGED <<poolVars, reading, part>>

-----------------------------------------------------------------------------

Outside == Occurs \/ DeviceSends \/ TransferFails
Calls == reading = "no" /\ (Open \/ Cut \/ Bulk)
Reads == CheckAgain \/ CheckFails \/ ReadEvent \/ ReadOn \/ ReadRest

Next ==
  \/ (Outside \/ Calls \/ Port) /\ UNCHANGED driver
  \/ \E waits \in BOOLEAN : Check(waits)
  \/ Reads
  \/ TakeEvent

Spec == Init /\ [][Next]_vars

(* Calls run on: a wait is over by its timeout.  A device that has an event *)
(* sends it when it is asked, and the driver asks for events again and      *)
(* again, with a timeout, as it does in every wait for an event or capture. *)
FairSpec ==
  /\ Spec
  /\ WF_vars(Port /\ UNCHANGED driver)
  /\ WF_vars(Reads)
  /\ WF_vars(DeviceSends /\ UNCHANGED driver)
  /\ SF_vars(Check(TRUE))

-----------------------------------------------------------------------------
(* Properties.                                                              *)

(* gp_libusb1_check_int relies on nrofactiveinttransfers to see that a      *)
(* transfer was lost: whatever fails, it counts those that are submitted or *)
(* have ended unreported, and too many only by those the code forgot when   *)
(* they ended just before they were cancelled.  A closed port has none, so  *)
(* that no callback finds its private data freed.                           *)
Pooled == {i \in DOMAIN ended : ended[i].pooled}
PoolAccounted ==
  /\ active = inFlight + loose + Len(ended) + forgotten
  /\ inFlight + Cardinality(Pooled) <= slots
  /\ ~dh => slots = 0 /\ inFlight = 0 /\ loose = 0 /\ ended = <<>> /\ irqs = <<>>

(* The packets on their way, in the order in which they will be taken: a    *)
(* sequence of sequences, with NoPacket where a transfer brought none.      *)
Brought(s) == [i \in DOMAIN s |-> s[i].packet]
Underway == <<<<ret.packet>>, Brought(irqs), Brought(ended), owed>>
Line == events \o <<part>> \o Underway

Numbers(s) == {s[i].n : i \in DOMAIN s} \ {0}
Present(line) == UNION {Numbers(line[i]) : i \in DOMAIN line}

Before(A, B) == \A m \in A, n \in B : m < n
Sorted(s) ==
  \A i, j \in DOMAIN s : i < j /\ s[i].n # 0 /\ s[j].n # 0 => s[i].n < s[j].n
InOrder(line) ==
  /\ \A i \in DOMAIN line : Sorted(line[i])
  /\ \A i, j \in DOMAIN line : i < j => Before(Numbers(line[i]), Numbers(line[j]))

(* _cb_irq, check_int and ptp_usb_event together: what the device has sent  *)
(* reaches the driver in order and once, and nothing is lost but what a     *)
(* close frees.                                                             *)
EachEventOnce ==
  /\ InOrder(Line)
  /\ Present(Line) \cap (taken \cup dropped) = {}
  /\ Present(Line) \cup taken \cup dropped = 1..packets

(* "If we have lost all the queued transfers, we should probably restart    *)
(* them": what happens on the camera reaches the driver, whatever transfers *)
(* have failed before, while the port stays open - as long as no transfer   *)
(* was forgotten or could not be submitted again: see WaitHasTransfer.      *)
EventArrives ==
  \A n \in 1..MaxPackets :
    n \in Present(Underway) ~> \/ n \notin Present(Underway)
                               \/ ~inUse
                               \/ forgotten > 0 \/ inFlight + Cardinality(Pooled) < slots

(* The same at the moment it matters: a wait has transfers that can end it. *)
(* Transfers that end just before they would be cancelled break it, being   *)
(* counted for ever, and so does a callback that cannot submit its own      *)
(* again, which keeps its slot.                                             *)
WaitHasTransfer ==
  pc = "wait" /\ irqs = <<>> /\ ended = <<>> => inFlight > 0

(* ptp_usb_event: "if we read anything over interrupt endpoint it must be   *)
(* an event".  The rest of an event that came too late is read as one.      *)
EventsAreWhole == \A i \in DOMAIN events : events[i][1].first

=============================================================================
