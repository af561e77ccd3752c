--------------------------- MODULE PentaxCapture ---------------------------
(***************************************************************************)
(* One synchronous Pentax capture after another: admission, the shutter,   *)
(* the wait for a transfer candidate, transfer, deletion on the camera,    *)
(* reconciliation of companion files, publication and every way out        *)
(* (camlibs/ptp2/library.c, pentax-utils.c, pentax-publication.c).         *)
(*                                                                         *)
(* The camera is external: it answers one PTP exchange at a time, and      *)
(* between two exchanges it goes on exposing and offering candidates, is   *)
(* operated by hand, or the host process is restarted.  A candidate has no *)
(* request identity, so who owns an image is known to the specification    *)
(* (own, outputs, mine), never to the code.                                *)
(***************************************************************************)
EXTENDS Integers, Sequences, SequencesExt

CONSTANTS
  MaxExposures,     \* bound on the exposures of a behaviour
  MaxParts,         \* files that one exposure can write: 2 is RAW+JPEG
  MaxPublications,  \* slots of capture_publications and extra_capture_files
  Faults            \* what can go wrong, of FaultKinds

FaultKinds ==
  {"read",        \* conditions cannot be read, or are too short
   "reject",      \* InitiateCapture is answered with an error
   "lost",        \* the response to InitiateCapture is lost
   "transfer",    \* candidate information or data is not transferred
   "delete",      \* DeleteTransferCandidate is answered with an error
   "delete_lost", \* ... is carried out and its response is lost
   "publish",     \* the host's filesystem refuses the file
   "save",        \* an orphan cannot be written to the recovery directory
   "stop",        \* TerminateCapture is answered with an error
   "hold",        \* the application uses the Bulb start and stop actions
   "body",        \* somebody presses the shutter button of the camera
   "restart"}     \* the host process is restarted

ASSUME PentaxAssumption ==
  /\ MaxExposures \in Nat /\ MaxParts \in Nat \ {0} /\ MaxPublications \in Nat \ {0}
  /\ Faults \subseteq FaultKinds

Exposures == 1..MaxExposures
Image     == [exp: Exposures, part: 1..MaxParts]
NoImage   == [exp |-> 0, part |-> 0]

VARIABLES
  \* the camera
  making,       \* images being exposed or processed
  queue,        \* transfer candidates; the first one is selected (+32, +36)
  held,         \* a held shutter is open
  exposures,    \* number of exposures so far
  outputs,      \* the images of each exposure
  \* the session: PTPParams.pentax
  transfer_state, recovery_required, capture_output_pending,
  bulb_action_active, bulb_action_stop_requested, bulb_action_timed_fallback,
  publications,        \* capture_publications
  extras,              \* extra_capture_files
  \* the call in progress
  pc, mode,
  loop,         \* who called pentax_reconcile_extra_candidates
  image,        \* the candidate in hand, or NoImage
  primary,      \* the candidate transferred as the capture's file, or NoImage
  incomplete,   \* the reconciliation failed
  \* what the specification knows
  own,          \* the exposure of the latest shutter, 0: none
  mine,         \* the exposures made by this session
  kept,         \* images handed to the application or written to disk
  saved,        \* those written to the recovery directory
  deleted       \* images the host had the camera delete

camera == <<making, queue, held, exposures, outputs>>
latches == <<transfer_state, recovery_required, capture_output_pending>>
bulb   == <<bulb_action_active, bulb_action_stop_requested, bulb_action_timed_fallback>>
files  == <<publications, extras>>
call   == <<pc, mode, loop, image, primary, incomplete>>
ghosts == <<own, mine, kept, saved, deleted>>
vars   == <<camera, latches, bulb, files, call, ghosts>>

TransferStates == {"IDLE", "TRIGGERED", "WAITING", "TRANSFERRING", "FINALIZING"}

TypeOK ==
  /\ making \in Seq(Image) /\ queue \in Seq(Image) /\ held \in BOOLEAN
  /\ exposures \in 0..MaxExposures /\ outputs \in [Exposures -> SUBSET Image]
  /\ transfer_state \in TransferStates
  /\ recovery_required \in BOOLEAN /\ capture_output_pending \in BOOLEAN
  /\ bulb_action_active \in BOOLEAN /\ bulb_action_stop_requested \in BOOLEAN
  /\ bulb_action_timed_fallback \in BOOLEAN
  /\ publications \in Seq(Image) /\ extras \in Seq(Image)
  /\ Len(publications) <= MaxPublications /\ Len(extras) <= MaxPublications
  /\ pc \in {"idle", "recovery", "preconditions", "look", "fetch", "drop", "claimed",
             "initiate", "waiting", "transfer", "delete", "publish", "stop",
             "terminate", "verify"}
  /\ mode \in {"timed", "start", "finalize"}
  /\ loop \in {"recovery", "preconditions", "companions"}
  /\ image \in Image \cup {NoImage} /\ primary \in Image \cup {NoImage}
  /\ incomplete \in BOOLEAN
  /\ own \in 0..MaxExposures /\ mine \subseteq Exposures
  /\ kept \subseteq Image /\ saved \subseteq Image /\ deleted \subseteq Image

Init ==
  /\ making = <<>> /\ queue = <<>> /\ held = FALSE /\ exposures = 0
  /\ outputs = [e \in Exposures |-> {}]
  /\ transfer_state = "IDLE" /\ recovery_required = FALSE
  /\ capture_output_pending = FALSE
  /\ bulb_action_active = FALSE /\ bulb_action_stop_requested = FALSE
  /\ bulb_action_timed_fallback = FALSE
  /\ publications = <<>> /\ extras = <<>>
  /\ pc = "idle" /\ mode = "timed" /\ loop = "companions"
  /\ image = NoImage /\ primary = NoImage /\ incomplete = FALSE
  /\ own = 0 /\ mine = {} /\ kept = {} /\ saved = {} /\ deleted = {}

-----------------------------------------------------------------------------
(* The camera.                                                              *)
Active == making # <<>>

(* It starts exposure number exposures + 1, of one or more files.           *)
Expose(hold) ==
  /\ exposures < MaxExposures
  /\ exposures' = exposures + 1
  /\ \E n \in 1..MaxParts :
       LET new == [p \in 1..n |-> [exp |-> exposures + 1, part |-> p]] IN
         /\ making' = making \o new
         /\ outputs' = [outputs EXCEPT ![exposures + 1] = ToSet(new)]
  /\ held' = hold
  /\ UNCHANGED queue

OffersCandidate ==
  /\ Active /\ ~held
  /\ queue' = Append(queue, Head(making)) /\ making' = Tail(making)
  /\ UNCHANGED <<held, exposures, outputs, latches, bulb, files, call, ghosts>>

ClosesHeldShutter ==
  /\ held /\ held' = FALSE
  /\ UNCHANGED <<making, queue, exposures, outputs, latches, bulb, files, call, ghosts>>

BodyShutter ==
  /\ "body" \in Faults /\ ~Active
  /\ Expose(FALSE)
  /\ UNCHANGED <<latches, bulb, files, call, ghosts>>

(* TerminateCapture: the exposure in progress ends or is abandoned.         *)
Terminated ==
  /\ held' = FALSE
  /\ \/ UNCHANGED <<making, outputs>>
     \/ /\ making' = <<>>
        /\ outputs' = [e \in Exposures |-> outputs[e] \ ToSet(making)]
  /\ UNCHANGED <<queue, exposures>>

DeletesCandidate ==
  /\ queue' = Tail(queue) /\ deleted' = deleted \cup {Head(queue)}
  /\ UNCHANGED <<making, held, exposures, outputs>>

-----------------------------------------------------------------------------
(* A conditions frame: +104, and +32/+36 as the selected image.             *)
Unreadable == [readable |-> FALSE, active |-> FALSE, image |-> NoImage]
Frame == [readable |-> TRUE, active |-> Active,
          image |-> IF queue = <<>> THEN NoImage ELSE Head(queue)]
Readings == {Frame} \cup (IF "read" \in Faults THEN {Unreadable} ELSE {})

(* pentax_admission_block_reason, policy strict.                            *)
Reckless(f) == IF ~f.readable THEN "unreadable" ELSE "none"
Reason(f) == IF ~f.readable THEN "unreadable"
             ELSE IF f.active THEN "unsafe_activity"
             ELSE IF f.image # NoImage THEN "candidate" ELSE "none"

(* pentax_admission_apply_output_obligation: a quiet camera releases the    *)
(* obligation unless an operation is still in flight.                       *)
InFlight    == transfer_state # "IDLE" \/ bulb_action_active
Releases(f) == Reason(f) = "none" /\ ~InFlight
Quiet(f)    == Reason(f) = "none" /\ (capture_output_pending => Releases(f))

(* pentax_orphan_candidate_claimable.                                       *)
Claimable(f) == Reason(f) = "candidate" /\ ~capture_output_pending

(* The request is refused: nothing was sent to the shutter.                 *)
Refuse == pc' = "idle" /\ UNCHANGED <<publications, extras>>

(* The part of a bulb action that ends with its capture.                    *)
ClearBulb ==
  IF mode = "finalize"
  THEN /\ bulb_action_active' = FALSE /\ bulb_action_stop_requested' = FALSE
       /\ bulb_action_timed_fallback' = FALSE
  ELSE UNCHANGED bulb

(* Where every call that passed admission leaves (out:).                    *)
StaysOpen == transfer_state' = "FINALIZING" /\ pc' = "idle" /\ ClearBulb
Leave == transfer_state' = "IDLE" /\ pc' = "idle" /\ ClearBulb

(* An error while a candidate is in hand preserves it.                      *)
LeavePreserving == Leave /\ recovery_required' = TRUE

-----------------------------------------------------------------------------
(* gp_camera_capture, or the start edge of a Bulb action.  A request that   *)
(* is refused at once changes nothing, except that a start edge drops what  *)
(* an unmatched earlier one deferred.                                       *)
StartAllowed ==
  ~bulb_action_active /\ transfer_state = "IDLE" /\ ~capture_output_pending

Request(m) ==
  /\ pc = "idle" /\ m \in {"timed", "start"}
  /\ m = "start" => "hold" \in Faults /\ StartAllowed
  /\ recovery_required \/ transfer_state = "IDLE"
  /\ pc' = IF recovery_required THEN "recovery" ELSE "preconditions"
  /\ mode' = m
  /\ bulb_action_timed_fallback' = (bulb_action_timed_fallback /\ m = "timed")
  /\ UNCHANGED <<camera, latches, bulb_action_active, bulb_action_stop_requested,
                 files, loop, image, primary, incomplete, ghosts>>

RefusedStart ==
  /\ pc = "idle" /\ "hold" \in Faults /\ ~StartAllowed
  /\ bulb_action_timed_fallback /\ bulb_action_timed_fallback' = FALSE
  /\ UNCHANGED <<camera, latches, bulb_action_active, bulb_action_stop_requested,
                 files, call, ghosts>>

(* The probe that can clear recovery_required.                              *)
Recovered ==
  /\ recovery_required' = FALSE
  /\ pc' = IF transfer_state = "IDLE" THEN "preconditions" ELSE "idle"

RecoveryProbe ==
  /\ pc = "recovery"
  /\ \E f \in Readings :
       /\ capture_output_pending' = (capture_output_pending /\ ~Releases(f))
       /\ \/ /\ Quiet(f) /\ Recovered
             /\ UNCHANGED loop
          \/ /\ Claimable(f)
             /\ pc' = "look" /\ loop' = "recovery"
             /\ UNCHANGED recovery_required
          \/ /\ ~Quiet(f) /\ ~Claimable(f)
             /\ pc' = "idle"
             /\ UNCHANGED <<recovery_required, loop>>
  /\ UNCHANGED <<camera, transfer_state, bulb, files, mode, image, primary,
                 incomplete, ghosts>>

(* Admitted: a Bulb start may still find the wrong mode, or a body that     *)
(* times the exposure itself, or not understand the conditions it has read; *)
(* otherwise a new output generation begins.                                *)
Admit ==
  \/ /\ mode = "start" /\ pc' = "idle"
     /\ capture_output_pending' = FALSE
     /\ \/ /\ recovery_required' = FALSE
           /\ bulb_action_timed_fallback' \in {bulb_action_timed_fallback, TRUE}
        \/ /\ "read" \in Faults
           /\ recovery_required' = TRUE
           /\ UNCHANGED bulb_action_timed_fallback
     /\ UNCHANGED files
  \/ /\ pc' = "initiate"
     /\ recovery_required' = FALSE
     /\ publications' = <<>> /\ extras' = <<>>
     /\ capture_output_pending' = TRUE
     /\ UNCHANGED bulb_action_timed_fallback

RefusePreconditions ==
  /\ recovery_required' = TRUE /\ pc' = "idle"
  /\ UNCHANGED <<capture_output_pending, bulb_action_timed_fallback, files>>

Preconditions ==
  /\ pc = "preconditions"
  /\ \E f \in Readings :
       \/ Quiet(f) /\ Admit /\ UNCHANGED loop
       \/ /\ Claimable(f)
          /\ pc' = "look" /\ loop' = "preconditions"
          /\ UNCHANGED <<recovery_required, capture_output_pending,
                         bulb_action_timed_fallback, files>>
       \/ ~Quiet(f) /\ ~Claimable(f) /\ RefusePreconditions /\ UNCHANGED loop
  /\ UNCHANGED <<camera, transfer_state, bulb_action_active,
                 bulb_action_stop_requested, mode, image, primary, incomplete, ghosts>>

-----------------------------------------------------------------------------
(* pentax_reconcile_extra_candidates, for orphans before the shutter and    *)
(* for the companions of a capture's own file after it.                     *)
Claiming == loop # "companions"

(* An orphan needs no proof; a companion has the primary file's basename.   *)
AnyCandidate(i) == TRUE
IsOwned(i) == Claiming \/ i.exp = primary.exp

LoopRetries == pc' = "look" /\ UNCHANGED <<recovery_required, incomplete>>
LoopFails ==
  CASE loop = "companions"    -> /\ pc' = "publish" /\ incomplete' = TRUE
                                 /\ recovery_required' = TRUE
    [] loop = "preconditions" -> /\ pc' = "idle" /\ recovery_required' = TRUE
                                 /\ UNCHANGED incomplete
    [] loop = "recovery"      -> pc' = "idle" /\ UNCHANGED <<recovery_required, incomplete>>

(* What a claim recovered belongs to no request of the application.         *)
LoopEnds ==
  /\ incomplete' = FALSE
  /\ IF Claiming
     THEN /\ pc' = "claimed" /\ publications' = <<>> /\ extras' = <<>>
          /\ UNCHANGED recovery_required
     ELSE /\ pc' = "publish" /\ recovery_required' = TRUE
          /\ UNCHANGED files

(* Cancellation or the deadline can end any wait for the camera.            *)
GivesUp == TRUE

(* One round: ends on a quiet camera, goes on with an owned candidate,      *)
(* fails on another.                                                        *)
Look ==
  /\ pc = "look"
  /\ \E f \in Readings :
       \/ f.readable /\ Reason(f) = "none" /\ LoopEnds /\ UNCHANGED image
       \/ /\ f.image # NoImage /\ IsOwned(f.image)
          /\ image' = f.image /\ pc' = "fetch"
          /\ UNCHANGED <<recovery_required, incomplete, files>>
       \/ GivesUp /\ LoopFails /\ UNCHANGED <<image, files>>
  /\ UNCHANGED <<camera, transfer_state, capture_output_pending, bulb, mode, loop,
                 primary, ghosts>>

(* pentax_reconcile_transfer_candidate: transfer, publish and, for an       *)
(* orphan, write to disk.  A failed write leaves the publication behind.    *)
PublishesUnbounded(i) == publications' = Append(publications, i)
Publishes(i) ==
  /\ Len(publications) < MaxPublications
  /\ publications' = Append(publications, i)

FetchUnsaved ==
  /\ pc = "fetch"
  /\ Publishes(image) /\ pc' = "drop"
  /\ UNCHANGED <<camera, latches, bulb, extras, mode, loop, image, primary,
                 incomplete, ghosts>>

Fetch ==
  /\ pc = "fetch"
  /\ \/ /\ Publishes(image) /\ pc' = "drop"
        /\ extras' = IF Len(extras) < MaxPublications THEN Append(extras, image) ELSE extras
        /\ kept' = kept \cup {image}
        /\ saved' = IF Claiming THEN saved \cup {image} ELSE saved
        /\ UNCHANGED <<recovery_required, incomplete>>
     \/ /\ "save" \in Faults /\ Claiming /\ Publishes(image) /\ LoopFails
        /\ UNCHANGED <<extras, kept, saved>>
     \/ /\ {"transfer", "publish"} \cap Faults # {} \/ Len(publications) = MaxPublications
        /\ LoopFails
        /\ UNCHANGED <<files, kept, saved>>
  /\ UNCHANGED <<camera, transfer_state, capture_output_pending, bulb, mode, loop,
                 image, primary, own, mine, deleted>>

DropResponses ==
  (IF "delete" \in Faults THEN {"rejected"} ELSE {})
    \cup (IF "delete_lost" \in Faults THEN {"lost"} ELSE {}) \cup {"ok"}

Drop ==
  /\ pc = "drop"
  /\ \E r \in DropResponses :
       /\ IF r = "rejected" THEN UNCHANGED <<camera, deleted>> ELSE DeletesCandidate
       /\ IF r = "ok" THEN pc' = "look" /\ UNCHANGED <<recovery_required, incomplete>>
          ELSE LoopFails
  /\ UNCHANGED <<transfer_state, capture_output_pending, bulb, files, mode, loop,
                 image, primary, own, mine, kept, saved>>

(* After a claim one fresh frame decides.                                   *)
Claimed ==
  /\ pc = "claimed"
  /\ \E f \in Readings :
       IF loop = "recovery"
       THEN /\ IF Reason(f) = "none" THEN Recovered
               ELSE pc' = "idle" /\ UNCHANGED recovery_required
            /\ UNCHANGED <<capture_output_pending, bulb_action_timed_fallback, files>>
       ELSE IF Quiet(f) THEN Admit ELSE RefusePreconditions
  /\ UNCHANGED <<camera, transfer_state, bulb_action_active,
                 bulb_action_stop_requested, mode, loop, image, primary, incomplete, ghosts>>

-----------------------------------------------------------------------------
(* The shutter.  The obligation is recorded before; only an answer that     *)
(* says no takes it back.                                                   *)
Fires(hold) ==
  /\ ~Active /\ Expose(hold)
  /\ own' = exposures + 1 /\ mine' = mine \cup {exposures + 1}

NotConfirmed(r) == r # "ok"
Rejected(r)     == r = "rejected"

Initiate ==
  /\ pc = "initiate"
  /\ \E r \in {"ok", "rejected", "lost"} :
       /\ \/ r \in {"ok", "lost"} /\ Fires(mode = "start")
          \/ /\ r = "rejected" => "reject" \in Faults \/ Active \/ exposures = MaxExposures
             /\ r # "ok"
             /\ own' = 0 /\ UNCHANGED <<camera, mine>>
       /\ r = "lost" => "lost" \in Faults
       /\ capture_output_pending' = ~Rejected(r)
       /\ recovery_required' = (r # "ok")
       /\ IF r = "ok" /\ mode = "timed"
          THEN pc' = "waiting" /\ transfer_state' = "WAITING"
          ELSE pc' = "idle" /\ transfer_state' = IF r = "ok" THEN "TRIGGERED" ELSE "IDLE"
       /\ bulb_action_active' = (r = "ok" /\ mode = "start")
  /\ bulb_action_stop_requested' = FALSE
  /\ UNCHANGED <<bulb_action_timed_fallback, files, mode, loop, image, primary,
                 incomplete, kept, saved, deleted>>

(* The wait ends with a candidate, on cancellation or at its deadline.      *)
Waiting ==
  /\ pc = "waiting"
  /\ \/ /\ queue # <<>>
        /\ image' = Head(queue) /\ pc' = "transfer" /\ transfer_state' = "TRANSFERRING"
     \/ /\ GivesUp /\ pc' = IF mode = "finalize" THEN "verify" ELSE "terminate"
        /\ UNCHANGED <<image, transfer_state>>
  /\ UNCHANGED <<camera, recovery_required, capture_output_pending, bulb, files, mode,
                 loop, primary, incomplete, ghosts>>

Terminate ==
  /\ pc = "terminate" /\ pc' = "verify"
  /\ \/ Terminated
     \/ "stop" \in Faults /\ UNCHANGED camera
  /\ UNCHANGED <<latches, bulb, files, mode, loop, image, primary, incomplete, ghosts>>

Verify ==
  /\ pc = "verify"
  /\ \E f \in Readings :
       recovery_required' = (recovery_required \/ ~f.readable \/ f.active)
  /\ Leave
  /\ UNCHANGED <<camera, capture_output_pending, files, mode, loop, image, primary,
                 incomplete, ghosts>>

Transfer ==
  /\ pc = "transfer"
  /\ \/ /\ pc' = "delete" /\ transfer_state' = "FINALIZING"
        /\ primary' = image
        /\ UNCHANGED <<recovery_required, bulb>>
     \/ "transfer" \in Faults /\ LeavePreserving /\ UNCHANGED primary
  /\ UNCHANGED <<camera, capture_output_pending, files, mode, loop, image,
                 incomplete, ghosts>>

(* The candidate is deleted on the camera before the file is published.     *)
Delete ==
  /\ pc = "delete"
  /\ \E r \in DropResponses :
       /\ IF r = "rejected" THEN UNCHANGED <<camera, deleted>> ELSE DeletesCandidate
       /\ IF r = "ok"
          THEN /\ pc' = "look" /\ loop' = "companions"
               /\ UNCHANGED <<transfer_state, recovery_required, bulb>>
          ELSE LeavePreserving /\ UNCHANGED loop
  /\ UNCHANGED <<capture_output_pending, files, mode, image, primary, incomplete,
                 own, mine, kept, saved>>

(* Publication discharges the obligation when the reconciliation succeeded. *)
AlwaysDischarges == FALSE
Undischarged == incomplete

Publish ==
  /\ pc = "publish"
  /\ \/ /\ Publishes(primary) /\ kept' = kept \cup {primary}
        /\ capture_output_pending' = Undischarged
     \/ /\ "publish" \in Faults \/ Len(publications) = MaxPublications
        /\ UNCHANGED <<publications, kept, capture_output_pending>>
  /\ LeavePreserving
  /\ UNCHANGED <<camera, extras, mode, loop, image, primary, incomplete,
                 own, mine, saved, deleted>>

-----------------------------------------------------------------------------
(* The stop edge of a Bulb action.  After a start that the body times by    *)
(* itself it is an ordinary capture, or nothing when it is cancelled.       *)
StopDeferred ==
  /\ pc = "idle" /\ bulb_action_timed_fallback
  /\ bulb_action_timed_fallback' = FALSE
  /\ \/ /\ recovery_required \/ transfer_state = "IDLE"
        /\ pc' = IF recovery_required THEN "recovery" ELSE "preconditions"
        /\ mode' = "timed"
     \/ UNCHANGED <<pc, mode>>
  /\ UNCHANGED <<camera, latches, bulb_action_active, bulb_action_stop_requested, files,
                 loop, image, primary, incomplete, ghosts>>

BulbStop ==
  /\ pc = "idle" /\ ~bulb_action_timed_fallback
  /\ bulb_action_active /\ ~bulb_action_stop_requested /\ transfer_state = "TRIGGERED"
  /\ pc' = "stop"
  /\ UNCHANGED <<camera, latches, bulb, files, mode, loop, image, primary,
                 incomplete, ghosts>>

(* Its TerminateCapture: a lost answer, or one that the exposure has ended  *)
(* already, is taken for an accepted stop; a rejected one is not repeated.  *)
Finalize ==
  IF capture_output_pending
  THEN pc' = "waiting" /\ transfer_state' = "WAITING" /\ mode' = "finalize"
  ELSE pc' = "idle" /\ UNCHANGED <<transfer_state, mode>>

Stop ==
  /\ pc = "stop"
  /\ bulb_action_stop_requested' = TRUE
  /\ \/ /\ held' = FALSE /\ UNCHANGED <<making, queue, exposures, outputs>>
        /\ Finalize /\ UNCHANGED recovery_required
     \/ /\ "lost" \in Faults /\ UNCHANGED camera
        /\ Finalize /\ UNCHANGED recovery_required
     \/ /\ "stop" \in Faults /\ UNCHANGED <<camera, transfer_state, mode>>
        /\ recovery_required' = TRUE /\ pc' = "idle"
  /\ UNCHANGED <<capture_output_pending, bulb_action_active, bulb_action_timed_fallback,
                 files, loop, image, primary, incomplete, ghosts>>

(* The process dies and another one opens the session: what it finds open   *)
(* it observes, and it remembers nothing.                                   *)
Restart ==
  /\ "restart" \in Faults
  /\ \E f \in Readings : recovery_required' \in {FALSE, ~f.readable \/ f.active}
  /\ transfer_state' = "IDLE" /\ capture_output_pending' = FALSE
  /\ bulb_action_active' = FALSE /\ bulb_action_stop_requested' = FALSE
  /\ bulb_action_timed_fallback' = FALSE
  /\ publications' = <<>> /\ extras' = <<>>
  /\ pc' = "idle" /\ own' = 0 /\ mine' = {}
  /\ image' = NoImage /\ primary' = NoImage
  /\ UNCHANGED <<camera, mode, loop, incomplete, kept, saved, deleted>>

-----------------------------------------------------------------------------
CallStep ==
  \/ RecoveryProbe \/ Preconditions \/ Look \/ Fetch \/ Drop \/ Claimed
  \/ Initiate \/ Waiting \/ Terminate \/ Verify \/ Transfer \/ Delete \/ Publish \/ Stop

CameraStep == OffersCandidate \/ ClosesHeldShutter

Next ==
  \/ CallStep \/ CameraStep
  \/ \E m \in {"timed", "start"} : Request(m)
  \/ RefusedStart \/ StopDeferred \/ BulbStop
  \/ BodyShutter \/ Restart

Spec == Init /\ [][Next]_vars

(* A call goes on, and its waits end at a deadline; the camera finishes its *)
(* exposures; the application goes on asking for captures, and stops a Bulb *)
(* action that it has started.                                              *)
FairSpec ==
  /\ Spec
  /\ WF_vars(CallStep) /\ WF_vars(CameraStep)
  /\ WF_vars(Request("timed")) /\ WF_vars(BulbStop)

-----------------------------------------------------------------------------
OutputsOf(e) == IF e = 0 THEN {} ELSE outputs[e]

(* The shutter is released only over a quiet camera: no candidate that the  *)
(* new capture could take for its own (issue #34), no exposure in progress. *)
ShutterOverQuietCamera ==
  [][own' # own /\ own' # 0 => queue = <<>> /\ making = <<>>]_vars

(* A capture whose file is published and whose obligation is discharged has *)
(* delivered exactly the images of the exposure it made, companions         *)
(* included: none of another exposure, and none left behind.                *)
SuccessDeliversExposure ==
  [][pc = "publish" /\ primary' \in ToSet(publications') /\ ~capture_output_pending'
       => ToSet(publications') = OutputsOf(own)]_vars

(* What is deleted on the camera was made by this session's captures or has *)
(* been written to disk: never an unowned candidate, left by whichever      *)
(* session.  (With the body's own shutter, MCPentaxBody, one can be lost.)  *)
DeletesOnlyOwned ==
  [][\A i \in deleted' \ deleted : i \in saved \/ i.exp \in mine]_vars

(* At rest, nothing the host deleted is lost.                               *)
DeletedIsKept == pc = "idle" => deleted \subseteq kept

(* As long as an image of this session is still on the camera or in the     *)
(* making, the obligation that holds back the next shutter is latched.      *)
UnsettledIsPending ==
  pc = "idle" /\ (\E i \in ToSet(making \o queue) : i.exp \in mine)
    => capture_output_pending

(* Between calls an operation is in flight exactly for a Bulb action that   *)
(* has started, and it owes an image.                                       *)
FlightIsBulb ==
  pc = "idle" =>
    /\ transfer_state = (IF bulb_action_active THEN "TRIGGERED" ELSE "IDLE")
    /\ bulb_action_active => capture_output_pending

(* Every call returns: no wait for the camera outlasts its deadline.        *)
CallsReturn == pc # "idle" ~> pc = "idle"

(* "A readable idle +32/+36/+104 sample cannot clear it": the obligation of *)
(* an exposure ends only when its images are with the application.          *)
ObligationOutlivesReadiness ==
  [][capture_output_pending /\ ~capture_output_pending' => OutputsOf(own') \subseteq kept']_vars

(* "A frame that really did land without being downloaded still shows up as *)
(* a candidate, so it is claimed as an orphan".                             *)
LandedFrameIsClaimed == pc = "idle" /\ queue # <<>> ~> queue = <<>>

(* Recovered files "must not be reported as this capture's outputs by the   *)
(* next get_extra_capture_files".                                           *)
OrphansNotReported == pc = "idle" => ToSet(extras) \cap saved = {}

(* "a refused shutter must not destroy the preceding completed result":     *)
(* between calls, an exposure that was delivered is published until another *)
(* shutter is answered.                                                     *)
RefusalKeepsResult ==
  pc = "idle" /\ OutputsOf(own) # {} /\ OutputsOf(own) \subseteq kept \ saved
    => OutputsOf(own) \subseteq ToSet(publications)

(* "Slot zero is the primary output".                                       *)
SlotZeroIsPrimary ==
  pc = "idle" /\ primary \in ToSet(publications) => publications[1] = primary

(* A non-idle transfer_state is resolved so: "Wait for that operation to    *)
(* complete", and an operation is in flight only "until the matching stop   *)
(* action".                                                                 *)
OperationCompletes == transfer_state # "IDLE" ~> transfer_state = "IDLE"
=============================================================================
