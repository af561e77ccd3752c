---------------------------- MODULE InterruptPool ----------------------------
(* The interrupt endpoint of a USB port (libgphoto2_port/libusb1): a pool   *)
(* of transfers that is kept submitted, the callback that queues what they  *)
(* bring, gp_libusb1_check_int that hands it out, and the emptying of the   *)
(* pool when the port is closed or reset.                                   *)
(*                                                                         *)
(* The device and libusb are external.  A submitted transfer ends when the  *)
(* device fills it, or with an error, or cancelled; libusb reports it, in   *)
(* order, from whatever call handles its events.  Handling events reports   *)
(* all that has ended, so that the blocking call at the end of              *)
(* _close_async_interrupts never has anything left to wait for.             *)
(*                                                                         *)
(* The slots of the array are counted: no code depends on which is used.    *)
EXTENDS Naturals, Sequences

CONSTANTS
  NB_INTERRUPT_TRANSFERS,
  Faults,                   \* what may go wrong, see PoolAssumption
  MaxPackets,               \* bound: packets the device has for the endpoint
  MaxFaults,                \* bound: faults in a behaviour
  MaxCuts                   \* bound: closings and resets

ASSUME PoolAssumption ==
  /\ NB_INTERRUPT_TRANSFERS \in Nat \ {0}
  /\ MaxPackets \in Nat /\ MaxFaults \in Nat /\ MaxCuts \in Nat
  /\ Faults \subseteq
       {"error", "gone",    \* a transfer ends with an error, or the device gone
        "urbs",             \* queueing the pool fails half-way
        "submit",           \* the callback cannot submit its transfer again
        "late",             \* a transfer ends just before it would be cancelled
        "release"}          \* the interface cannot be released

NoPacket == [n |-> 0, first |-> FALSE, more |-> FALSE]
\* n numbers the packets; an event is a first packet, and its rest if there is more
Packet == [n : 1..MaxPackets, first : BOOLEAN, more : BOOLEAN]
Ends == {"completed", "error", "gone", "cancelled"}

VARIABLES
  dh,                       \* the handle is not NULL
  inUse,                    \* opened, and not closed again, by the application
  slots,                    \* slots of transfers[] that are not NULL
  inFlight,                 \* transfers of the pool that are submitted
  loose,                    \* submitted transfers the pool has forgotten
  ended,                    \* transfers that have ended, unreported
  active,                   \* nrofactiveinttransfers
  irqs,                     \* irqs_head .. irqs_tail
  pc,                       \* "idle", or where in a call of the port
  closing,                  \* that call is a close, not a reset
  ret,                      \* what gp_libusb1_check_int returned
  owed,                     \* packets the device has not sent yet
  packets, faults, cuts,    \* counters of the bounds
  \* for the properties
  dropped,                  \* packets lost with a transfer, or freed unread by a close
  forgotten                 \* transfers that are counted though nobody will report them

handle == <<dh, inUse>>
pool == <<slots, inFlight, loose, active>>
bounds == <<packets, faults, cuts>>
ghosts == <<dropped, forgotten>>
poolVars == <<handle, pool, ended, irqs, pc, closing, ret, owed, bounds, ghosts>>

Events == {"wait", "bulk", "catchUp", "reap"}
PoolTypeOK ==
  /\ dh \in BOOLEAN /\ inUse \in BOOLEAN /\ closing \in BOOLEAN
  /\ slots \in 0..NB_INTERRUPT_TRANSFERS
  /\ inFlight \in 0..NB_INTERRUPT_TRANSFERS
  /\ loose \in Nat
  /\ active \in Nat
  /\ ended \in Seq([status : Ends, packet : Packet \cup {NoPacket}, pooled : BOOLEAN])
  /\ irqs \in Seq([status : Ends, packet : Packet \cup {NoPacket}])
  /\ pc \in {"idle", "cancel", "finish"} \cup Events
  /\ ret \in [status : Ends \cup {"none", "timeout"}, packet : Packet \cup {NoPacket}]
  /\ owed \in Seq(Packet)
  /\ packets \in 0..MaxPackets /\ faults \in 0..MaxFaults /\ cuts \in 0..MaxCuts
  /\ dropped \subseteq 1..MaxPackets
  /\ forgotten \in Nat

Returned(status, p) == [status |-> status, packet |-> p]
None == Returned("none", NoPacket)

PoolInit ==
  /\ dh = FALSE /\ inUse = FALSE /\ closing = FALSE
  /\ slots = 0 /\ inFlight = 0 /\ loose = 0 /\ active = 0
  /\ ended = <<>> /\ irqs = <<>> /\ owed = <<>>
  /\ pc = "idle"
  /\ ret = None
  /\ packets = 0 /\ faults = 0 /\ cuts = 0
  /\ dropped = {} /\ forgotten = 0

Fault(kind) == kind \in Faults /\ faults < MaxFaults /\ faults' = faults + 1

-----------------------------------------------------------------------------
(* The device, and the ends of transfers.                                   *)

(* Something happens on the camera: an event of one packet, or of two.      *)
Occurs ==
  \E size \in 1..2 :
    /\ packets + size <= MaxPackets
    /\ packets' = packets + size
    /\ owed' = owed \o [i \in 1..size |->
                          [n |-> packets + i, first |-> i = 1, more |-> i < size]]
    /\ UNCHANGED <<handle, pool, ended, irqs, pc, closing, ret, faults, cuts, ghosts>>

(* Between the catching up and the cancellation nothing ends, but late.     *)
InTime == pc # "cancel"

Ended(status, p, pooled) ==
  /\ IF pooled
     THEN inFlight > 0 /\ inFlight' = inFlight - 1 /\ UNCHANGED loose
     ELSE loose > 0 /\ loose' = loose - 1 /\ UNCHANGED inFlight
  /\ ended' = Append(ended, [status |-> status, packet |-> p, pooled |-> pooled])
  /\ UNCHANGED <<handle, slots, active, irqs, pc, closing, ret, packets, cuts, ghosts>>

(* The device fills a transfer.                                             *)
DeviceSends ==
  /\ owed # <<>>
  /\ owed' = Tail(owed)
  /\ (InTime /\ UNCHANGED faults) \/ (~InTime /\ Fault("late"))
  /\ \E pooled \in BOOLEAN : Ended("completed", Head(owed), pooled)

TransferFails ==
  /\ InTime
  /\ \E status \in {"error", "gone"}, pooled \in BOOLEAN :
       Fault(status) /\ Ended(status, NoPacket, pooled)
  /\ UNCHANGED owed

-----------------------------------------------------------------------------
(* Handling events: _cb_irq for each transfer that has ended.               *)

Queues(c) == c.status # "cancelled"

\* MUTANT of Freed: the transfer is still counted.
FreedUncounted(c) ==
  /\ c.status # "completed"
  /\ slots' = IF c.pooled THEN slots - 1 ELSE slots
  /\ UNCHANGED <<inFlight, loose, active, faults, forgotten>>

(* One that did not complete is freed, if the pool knows it.                *)
Freed(c) ==
  /\ c.status # "completed"
  /\ IF c.pooled
     THEN slots' = slots - 1 /\ active' = active - 1 /\ UNCHANGED forgotten
     ELSE forgotten' = forgotten + 1 /\ UNCHANGED <<slots, active>>
  /\ UNCHANGED <<inFlight, loose, faults>>

(* One that completed is submitted again, whether the pool knows it or not, *)
(* and keeps its slot if that fails.                                        *)
Resubmitted(c) ==
  /\ c.status = "completed"
  /\ \/ /\ IF c.pooled THEN inFlight' = inFlight + 1 /\ UNCHANGED loose
                       ELSE loose' = loose + 1 /\ UNCHANGED inFlight
        /\ UNCHANGED <<active, faults>>
     \/ /\ Fault("submit")
        /\ active' = active - 1
        /\ UNCHANGED <<inFlight, loose>>
  /\ UNCHANGED <<slots, forgotten>>

Callback ==
  /\ pc \in Events
  /\ ended # <<>>
  /\ LET c == Head(ended) IN
       /\ irqs' = IF Queues(c) THEN Append(irqs, Returned(c.status, c.packet)) ELSE irqs
       /\ Freed(c) \/ Resubmitted(c)
  /\ ended' = Tail(ended)
  /\ UNCHANGED <<handle, pc, closing, ret, owed, packets, cuts, dropped>>

(* A transfer over the bulk pipes handles events too.                       *)
Bulk ==
  /\ pc = "idle"
  /\ inUse
  /\ pc' = "bulk"
  /\ UNCHANGED <<handle, pool, ended, irqs, closing, ret, owed, bounds, ghosts>>

BulkDone ==
  /\ pc = "bulk"
  /\ ended = <<>>
  /\ pc' = "idle"
  /\ UNCHANGED <<handle, pool, ended, irqs, closing, ret, owed, bounds, ghosts>>

-----------------------------------------------------------------------------
(* gp_libusb1_check_int.                                                    *)

\* MUTANT of Missing: slots that are taken are filled as well.
MissingAll == NB_INTERRUPT_TRANSFERS

\* gp_libusb1_queue_interrupt_urbs fills the slots that are NULL.
Missing == NB_INTERRUPT_TRANSFERS - slots
Queue(k) ==
  /\ slots' = slots + k
  /\ inFlight' = inFlight + k
  /\ active' = active + k
  /\ UNCHANGED loose

\* MUTANT of Restarts: what was lost stays lost.
RestartsNever == FALSE
Restarts == active < NB_INTERRUPT_TRANSFERS

\* MUTANT of Similar: what follows an error goes with it.
SimilarAny(k) == k = 1 \/ irqs[1].status # "completed"

\* Errors of one kind in a row are reported once.
Similar(k) == \A i \in 1..k : irqs[i].status = irqs[1].status
ServedUpTo(k) ==
  /\ k \in 1..Len(irqs)
  /\ IF irqs[1].status = "completed" THEN k = 1
     ELSE Similar(k) /\ (k < Len(irqs) => ~Similar(k + 1))

Serve ==
  \E k \in 1..Len(irqs) :
    /\ ServedUpTo(k)
    /\ ret' = irqs[k]
    /\ irqs' = SubSeq(irqs, k + 1, Len(irqs))

(* gp_libusb1_check_int on a device with an interrupt endpoint: it may wait, *)
(* or only look at what is queued.                                           *)
CheckInt(waits) ==
  /\ pc = "idle"
  /\ inUse
  /\ \/ /\ irqs # <<>>
        /\ Serve
        /\ UNCHANGED <<pool, pc, faults>>
     \/ /\ irqs = <<>> /\ ~waits
        /\ ret' = Returned("timeout", NoPacket)
        /\ UNCHANGED <<pool, irqs, pc, faults>>
     \/ /\ irqs = <<>> /\ waits
        /\ pc' = "wait"
        /\ ret' = None
        /\ IF Restarts THEN Queue(Missing) ELSE UNCHANGED pool
        /\ UNCHANGED <<irqs, faults>>
     \/ /\ irqs = <<>> /\ waits /\ Restarts
        /\ Fault("urbs")
        /\ \E k \in 0..(NB_INTERRUPT_TRANSFERS - 1) : k < Missing /\ Queue(k)
        /\ ret' = Returned("error", NoPacket)
        /\ UNCHANGED <<irqs, pc>>
  /\ UNCHANGED <<handle, ended, closing, owed, packets, cuts, ghosts>>

(* Something was reported, or the time is up, or libusb failed to look.     *)
WaitEnds ==
  /\ pc = "wait"
  /\ ended = <<>>
  /\ pc' = "idle"
  /\ \/ irqs # <<>> /\ Serve
     \/ /\ irqs = <<>>
        /\ \E status \in {"timeout", "error"} : ret' = Returned(status, NoPacket)
        /\ UNCHANGED irqs
  /\ UNCHANGED <<handle, pool, ended, closing, owed, bounds, ghosts>>

-----------------------------------------------------------------------------
(* Opening, closing, resetting.                                             *)

(* gp_libusb1_open, all transfers being submitted.                          *)
Open ==
  /\ pc = "idle"
  /\ ~inUse
  /\ dh' = TRUE /\ inUse' = TRUE
  /\ Queue(Missing)
  /\ UNCHANGED <<ended, irqs, pc, closing, ret, owed, bounds, ghosts>>

(* gp_libusb1_close and gp_libusb1_reset catch up on pending transfers.     *)
Cut ==
  /\ pc = "idle"
  /\ inUse
  /\ cuts < MaxCuts
  /\ cuts' = cuts + 1
  /\ closing' \in BOOLEAN
  /\ pc' = "catchUp"
  /\ UNCHANGED <<handle, pool, ended, irqs, ret, owed, packets, faults, ghosts>>

CaughtUp ==
  /\ pc = "catchUp"
  /\ ended = <<>>
  /\ pc' = "cancel"
  /\ UNCHANGED <<handle, pool, ended, irqs, closing, ret, owed, bounds, ghosts>>

Unread(s) == {s[i].packet.n : i \in DOMAIN s} \ {0}
Cancelled == [status |-> "cancelled", packet |-> NoPacket, pooled |-> TRUE]

(* Submitted transfers are cancelled.  One that cannot be - it has ended,   *)
(* or was not submitted - leaves the pool as it is; libusb may report one   *)
(* that had ended as cancelled still.                                       *)
CancelAll ==
  /\ pc = "cancel"
  /\ \E asCancelled \in BOOLEAN :
       /\ asCancelled => ended # <<>>
       /\ ended' =
            [i \in DOMAIN ended |->
               [status |-> IF asCancelled THEN "cancelled" ELSE ended[i].status,
                packet |-> IF asCancelled THEN NoPacket ELSE ended[i].packet,
                pooled |-> FALSE]]
            \o [i \in 1..inFlight |-> Cancelled]
       /\ IF asCancelled
          THEN dropped' = dropped \cup Unread(ended)
          ELSE UNCHANGED dropped
  /\ slots' = inFlight
  /\ inFlight' = 0
  /\ pc' = "reap"
  /\ UNCHANGED <<handle, loose, active, irqs, closing, ret, owed, bounds, forgotten>>

Reaped ==
  /\ pc = "reap"
  /\ ended = <<>>
  /\ pc' = "finish"
  /\ UNCHANGED <<handle, pool, ended, irqs, closing, ret, owed, bounds, ghosts>>

(* libusb_close drops what it finds submitted, and the queue is freed; not  *)
(* so if the interface cannot be released.                                  *)
Closed ==
  /\ pc = "finish"
  /\ closing
  /\ inUse' = FALSE
  /\ \/ /\ dh' = FALSE
        /\ loose' = 0
        /\ ended' = <<>>
        /\ irqs' = <<>>
        /\ dropped' = dropped \cup Unread(irqs) \cup Unread(ended)
        /\ forgotten' = forgotten + loose + Len(ended)
        /\ UNCHANGED faults
     \/ /\ Fault("release")
        /\ UNCHANGED <<dh, loose, ended, irqs, ghosts>>
  /\ pc' = "idle"
  /\ UNCHANGED <<slots, inFlight, active, closing, ret, owed, packets, cuts>>

(* Nothing is queued again before somebody waits.                           *)
ResetDone ==
  /\ pc = "finish"
  /\ ~closing
  /\ pc' = "idle"
  /\ UNCHANGED <<handle, pool, ended, irqs, closing, ret, owed, bounds, ghosts>>

-----------------------------------------------------------------------------

Port ==
  \/ Callback \/ BulkDone \/ WaitEnds
  \/ CaughtUp \/ CancelAll \/ Reaped \/ Closed \/ ResetDone

=============================================================================
