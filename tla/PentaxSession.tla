---------------------------- MODULE PentaxSession ----------------------------
(* One process after another connects to a Pentax body that captures: the   *)
(* opening loop of camera_init with the recovery of a stale session, vendor *)
(* mode and its rollback, previews in PC live view, camera_exit - and the   *)
(* death of the process anywhere (camlibs/ptp2/library.c, a build with      *)
(* LIBGPHOTO2_ENABLE_PENTAX_RESEARCH_CAPTURE, pentax_candidate true).       *)
(*                                                                         *)
(* The body is external: its session, vendor mode and live view (d035) are  *)
(* what the commands make of them, and it exposes when somebody presses its *)
(* button.  A command that failed may have been carried out, its response   *)
(* being lost; without an open session the body carries out none.           *)
(*                                                                         *)
(* Nothing counts the connections: all of them are checked, without bound.  *)
EXTENDS Naturals

VARIABLES
  \* the body
  session,                  \* "closed", "ours" (opened by this process), "other"
  vendor,                   \* vendor mode
  liveView,                 \* d035 = 1
  exposing,                 \* the activity of the conditions is unsafe
  candidate,                \* a transfer candidate waits
  \* what the process has connected to
  usb,                      \* GP_PORT_USB
  direct,                   \* starts live view without reading d035
  supported,                \* pentax.supported_model
  pentaxId,                 \* VendorExtensionID is PTP_VENDOR_PENTAX
  \* params
  inliveview, original, originalValid, keep_live_view,
  vendor_mode_enabled, vendor_mode_unknown,
  recovery_required,
  candidateKnown,           \* candidate_handle
  \* the call at work
  pc,
  tries,
  failing,                  \* an error is kept: what the call will return
  pentaxExit,               \* pentax_exit of camera_exit
  \* for the properties
  told,                     \* what camera_init failed with, or camera_exit returned
  touched,                  \* the body was operated since this process observed it,
                            \* or connected
  loose                     \* why live view may outlast the process: "found" on at
                            \* the connection; its start, or its reading at the
                            \* connection, "unanswered"

body == <<session, vendor, liveView, exposing, candidate>>
model == <<usb, direct, supported, pentaxId>>
preview == <<inliveview, original, originalValid, keep_live_view>>
mode == <<vendor_mode_enabled, vendor_mode_unknown>>
seen == <<recovery_required, candidateKnown>>
call == <<tries, failing, pentaxExit>>
vars == <<body, model, preview, mode, seen, pc, call, told, touched, loose>>

InitPcs == {"open", "observe", "close", "reset", "reopen", "observeAgain", "info",
            "identify", "reconcile", "enable", "refresh", "rollback"}
ReadyPcs == {"ready", "start", "frame"}
ExitPcs == {"restore", "disable", "closing"}

TypeOK ==
  /\ session \in {"closed", "ours", "other"}
  /\ vendor \in BOOLEAN /\ liveView \in BOOLEAN
  /\ exposing \in BOOLEAN /\ candidate \in BOOLEAN
  /\ usb \in BOOLEAN /\ direct \in BOOLEAN
  /\ supported \in BOOLEAN /\ pentaxId \in BOOLEAN
  /\ inliveview \in BOOLEAN /\ keep_live_view \in BOOLEAN
  /\ original \in BOOLEAN /\ originalValid \in BOOLEAN
  /\ vendor_mode_enabled \in BOOLEAN /\ vendor_mode_unknown \in BOOLEAN
  /\ recovery_required \in BOOLEAN /\ candidateKnown \in BOOLEAN
  /\ pc \in {"none"} \cup InitPcs \cup ReadyPcs \cup ExitPcs
  /\ tries \in 0..9
  /\ failing \in BOOLEAN /\ pentaxExit \in BOOLEAN /\ touched \in BOOLEAN
  /\ told \in {"none", "ok", "failed"}
  /\ loose \in {"no", "found", "unanswered"}

Init ==
  /\ session = "closed" /\ vendor = FALSE /\ liveView = FALSE
  /\ exposing = FALSE /\ candidate = FALSE
  /\ usb = TRUE /\ direct = FALSE /\ supported = TRUE /\ pentaxId = TRUE
  /\ inliveview = FALSE /\ original = FALSE /\ originalValid = FALSE
  /\ keep_live_view = FALSE
  /\ vendor_mode_enabled = FALSE /\ vendor_mode_unknown = FALSE
  /\ recovery_required = FALSE /\ candidateKnown = FALSE
  /\ pc = "none" /\ tries = 0 /\ failing = FALSE /\ pentaxExit = FALSE
  /\ told = "none" /\ touched = FALSE /\ loose = "no"

-----------------------------------------------------------------------------
(* The body, and the processes that come and go.                            *)

Exposes ==
  /\ exposing' = ~exposing
  /\ candidate' \in IF exposing THEN {candidate, TRUE} ELSE {candidate}
  /\ touched' = TRUE
  /\ UNCHANGED <<session, vendor, liveView, model, preview, mode, seen, pc, call, told, loose>>

(* It is switched off and on again between two connections.                 *)
SwitchedOff ==
  /\ pc = "none"
  /\ session' = "closed"
  /\ vendor' = FALSE /\ liveView' = FALSE /\ exposing' = FALSE /\ candidate' = FALSE
  /\ UNCHANGED <<model, preview, mode, seen, pc, call, told, touched, loose>>

(* The process dies: the body may notice that it is gone, or keep the       *)
(* session.                                                                 *)
Dies ==
  /\ pc # "none"
  /\ pc' = "none"
  /\ told' = "none"
  /\ session' \in {session, "closed"}
  /\ UNCHANGED <<vendor, liveView, exposing, candidate, model, preview, mode, seen,
                 call, touched, loose>>

(* camera_init begins, with a private library of zeros.                     *)
Connect ==
  /\ pc = "none"
  /\ session' = IF session = "ours" THEN "other" ELSE session
  /\ usb' \in BOOLEAN /\ direct' \in BOOLEAN
  /\ supported' \in BOOLEAN /\ pentaxId' \in BOOLEAN
  /\ inliveview' = FALSE /\ original' = FALSE /\ originalValid' = FALSE
  /\ keep_live_view' = FALSE
  /\ vendor_mode_enabled' = FALSE /\ vendor_mode_unknown' = FALSE
  /\ recovery_required' = FALSE /\ candidateKnown' = FALSE
  /\ pc' = "open" /\ tries' = 0 /\ failing' = FALSE /\ pentaxExit' = FALSE
  /\ told' = "none" /\ touched' = FALSE
  /\ loose' = IF liveView THEN "found" ELSE "no"
  /\ UNCHANGED <<vendor, liveView, exposing, candidate>>

-----------------------------------------------------------------------------
(* The opening loop of camera_init, and pentax_recover_stale_session.       *)

InitFails == pc' = "none" /\ told' = "failed"

\* What the command makes of the session: opened or closed, if it is carried out.
Opened == IF session = "closed" THEN "ours" ELSE session

\* MUTANT of OpenSession: one session id too many is tried.
OpenSessionOnce ==
  /\ pc = "open"
  /\ session' = session
  /\ \/ tries < 10 /\ tries' = tries + 1 /\ UNCHANGED <<pc, told>>
     \/ tries = 10 /\ InitFails /\ UNCHANGED tries
  /\ UNCHANGED <<vendor, liveView, exposing, candidate, model, preview, mode, seen,
                 failing, pentaxExit, touched, loose>>

(* Opened, already open, or an error: an id that is not accepted is tried   *)
(* ten times over, a transport error leads to the recovery twice at most,   *)
(* any other error is tried three times in all.                             *)
OpenSession ==
  /\ pc = "open"
  /\ \/ /\ session = "closed"
        /\ session' = "ours"
        /\ pc' = "info"
        /\ UNCHANGED <<tries, told>>
     \/ /\ session # "closed"
        /\ pc' = "observe"
        /\ UNCHANGED <<session, tries, told>>
     \/ /\ session' \in {session, Opened}
        /\ IF tries + 1 < 3
           THEN pc' = "observe" /\ tries' = tries + 1 /\ UNCHANGED told
           ELSE InitFails /\ UNCHANGED tries
     \/ /\ \E limit \in {3, 10} :
             IF tries + 1 < limit
             THEN tries' = tries + 1 /\ UNCHANGED <<pc, told>>
             ELSE InitFails /\ UNCHANGED tries
        /\ UNCHANGED session
  /\ UNCHANGED <<vendor, liveView, exposing, candidate, model, preview, mode, seen,
                 failing, pentaxExit, touched, loose>>

(* pentax_reconcile_reused_session.  d035 is read, and then the conditions; *)
(* each may fail, and both do without a session.                            *)
Observe(d035, conditions) ==
  /\ session = "closed" => ~d035 /\ ~conditions
  /\ inliveview' = (inliveview \/ (d035 /\ liveView))
  /\ original' = IF d035 THEN liveView ELSE original
  /\ originalValid' = (originalValid \/ d035)
  /\ recovery_required' = (recovery_required \/ ~conditions \/ exposing)
  /\ candidateKnown' = (candidateKnown \/ (conditions /\ ~exposing /\ candidate))
  /\ touched' = (touched /\ ~conditions)

\* MUTANT of Quiet: live view does not count.
QuietButLive(d035, conditions) == d035 /\ conditions /\ ~exposing /\ ~candidate

\* Its result: both were read, and the body was at rest.
Quiet(d035, conditions) ==
  d035 /\ ~liveView /\ conditions /\ ~exposing /\ ~candidate

NotOverUsb ==
  /\ pc = "observe"
  /\ ~usb
  /\ recovery_required' = TRUE
  /\ InitFails
  /\ UNCHANGED <<body, model, preview, mode, candidateKnown, call, touched, loose>>

RecoveryObserves ==
  /\ pc = "observeAgain" \/ (pc = "observe" /\ usb)
  /\ \E d035, conditions \in BOOLEAN :
       /\ Observe(d035, conditions)
       /\ \/ /\ Quiet(d035, conditions)
             /\ ~recovery_required
             /\ pc' = IF pc = "observe" THEN "close" ELSE "info"
             /\ UNCHANGED told
          \/ /\ recovery_required \/ ~Quiet(d035, conditions)
             /\ InitFails
  /\ UNCHANGED <<body, model, keep_live_view, mode, call, loose>>

CloseStale ==
  /\ pc = "close"
  /\ \/ session' = "closed" /\ pc' = "reset" /\ UNCHANGED told
     \/ session' \in {session, "closed"} /\ InitFails
  /\ UNCHANGED <<vendor, liveView, exposing, candidate, model, preview, mode, seen,
                 call, touched, loose>>

(* gp_port_reset.  Vendor mode may survive it.                              *)
ResetPort ==
  /\ pc = "reset"
  /\ vendor' \in {vendor, FALSE}
  /\ (pc' = "reopen" /\ UNCHANGED told) \/ InitFails
  /\ UNCHANGED <<session, liveView, exposing, candidate, model, preview, mode, seen,
                 call, touched, loose>>

Reopen ==
  /\ pc = "reopen"
  /\ \/ session' = "ours" /\ pc' = "observeAgain" /\ UNCHANGED told
     \/ session' \in {session, Opened} /\ InitFails
  /\ UNCHANGED <<vendor, liveView, exposing, candidate, model, preview, mode, seen,
                 call, touched, loose>>

-----------------------------------------------------------------------------
(* The rest of camera_init.                                                 *)

GetDeviceInfo ==
  /\ pc = "info"
  /\ (pc' = "identify" /\ UNCHANGED told) \/ InitFails
  /\ UNCHANGED <<body, model, preview, mode, seen, call, touched, loose>>

(* pentax_identify_supported_model clears params->pentax - inliveview is    *)
(* not in it.  A model it does not know goes on as generic PTP.             *)
IdentifySupportedModel ==
  /\ pc = "identify"
  /\ original' = FALSE /\ originalValid' = FALSE /\ keep_live_view' = FALSE
  /\ vendor_mode_enabled' = FALSE /\ vendor_mode_unknown' = FALSE
  /\ recovery_required' = FALSE /\ candidateKnown' = FALSE
  /\ pc' = IF supported THEN "reconcile" ELSE "ready"
  /\ UNCHANGED <<body, model, inliveview, call, told, touched, loose>>

\* MUTANT of Reconcile: only a session that was open already is observed.
ReconcileSkipped ==
  /\ pc = "reconcile"
  /\ pc' = "enable"
  /\ UNCHANGED <<body, model, preview, mode, seen, call, told, touched, loose>>

(* Observed on every connection, whatever the result.                       *)
Reconcile ==
  /\ pc = "reconcile"
  /\ \E d035, conditions \in BOOLEAN :
       /\ Observe(d035, conditions)
       /\ loose' = IF liveView /\ ~d035 THEN "unanswered" ELSE loose
  /\ pc' = "enable"
  /\ UNCHANGED <<body, model, keep_live_view, mode, call, told>>

EnableVendorMode ==
  /\ pc = "enable"
  /\ \/ /\ vendor' = TRUE
        /\ vendor_mode_enabled' = TRUE
        /\ vendor_mode_unknown' = FALSE
        /\ pc' = "refresh"
        /\ UNCHANGED told
     \/ /\ vendor' \in {vendor, TRUE}
        /\ InitFails
        /\ UNCHANGED mode
  /\ UNCHANGED <<session, liveView, exposing, candidate, model, preview, seen, call,
                 touched, loose>>

(* DeviceInfo cannot be read again, or (failing) not be fixed up.           *)
RefreshDeviceInfo ==
  /\ pc = "refresh"
  /\ \/ pc' = "ready" /\ UNCHANGED failing
     \/ pc' = "rollback" /\ failing' \in BOOLEAN
  /\ UNCHANGED <<body, model, preview, mode, seen, tries, pentaxExit, told,
                 touched, loose>>

\* The command that disables vendor mode.
VendorModeDisabled ==
  vendor' = FALSE /\ vendor_mode_enabled' = FALSE /\ vendor_mode_unknown' = FALSE
VendorModeUnsure ==
  vendor' \in {vendor, FALSE} /\ vendor_mode_unknown' = TRUE /\ UNCHANGED vendor_mode_enabled

RollBack ==
  /\ pc = "rollback"
  /\ VendorModeDisabled \/ VendorModeUnsure
  /\ IF failing THEN InitFails ELSE pc' = "ready" /\ UNCHANGED told
  /\ UNCHANGED <<session, liveView, exposing, candidate, model, preview, seen, call,
                 touched, loose>>

-----------------------------------------------------------------------------
(* camera_capture_preview.                                                  *)

StartPreview ==
  /\ pc = "ready"
  /\ vendor_mode_enabled
  /\ \/ /\ inliveview
        /\ pc' = "frame"
        /\ UNCHANGED preview
     \/ /\ ~inliveview
        /\ original' = (liveView /\ ~direct)
        /\ originalValid' = TRUE
        /\ inliveview' = original'
        /\ pc' = IF original' THEN "frame" ELSE "start"
        /\ UNCHANGED keep_live_view
     \/ /\ ~inliveview /\ ~direct
        /\ UNCHANGED <<preview, pc>>
  /\ UNCHANGED <<body, model, mode, seen, call, told, touched, loose>>

StartLiveView ==
  /\ pc = "start"
  /\ \/ /\ liveView' = TRUE
        /\ inliveview' = TRUE
        /\ pc' = "frame"
        /\ UNCHANGED <<originalValid, loose>>
     \/ /\ liveView' \in {liveView, TRUE}
        /\ originalValid' = FALSE
        /\ loose' = IF liveView' THEN "unanswered" ELSE loose
        /\ pc' = "ready"
        /\ UNCHANGED inliveview
  /\ UNCHANGED <<session, vendor, exposing, candidate, model, original, keep_live_view,
                 mode, seen, call, told, touched>>

\* pentax_restore_live_view writes the original value back.
LiveViewRestored ==
  /\ liveView' = original
  /\ inliveview' = FALSE /\ original' = FALSE /\ originalValid' = FALSE
LiveViewUnsure ==
  liveView' \in {liveView, original} /\ UNCHANGED <<inliveview, original, originalValid>>

(* However the frame turned out - delivered, refused, cancelled - what the  *)
(* body was doing before is restored, unless live view is to stay.          *)
GetFrame ==
  /\ pc = "frame"
  /\ IF original \/ keep_live_view
     THEN UNCHANGED <<liveView, inliveview, original, originalValid>>
     ELSE LiveViewRestored \/ LiveViewUnsure
  /\ pc' = "ready"
  /\ UNCHANGED <<session, vendor, exposing, candidate, model, keep_live_view, mode, seen,
                 call, told, touched, loose>>

(* _put_Pentax_KeepLiveView.                                                *)
SetKeepLiveView ==
  /\ pc = "ready"
  /\ supported /\ vendor_mode_enabled
  /\ keep_live_view' = ~keep_live_view
  /\ UNCHANGED <<body, model, inliveview, original, originalValid, mode, seen, pc, call,
                 told, touched, loose>>

-----------------------------------------------------------------------------
(* camera_exit.                                                             *)

Exit ==
  /\ pc = "ready"
  /\ pentaxExit' = (vendor_mode_enabled \/ pentaxId)
  /\ failing' = FALSE
  /\ pc' = IF vendor_mode_enabled \/ (pentaxId /\ vendor_mode_unknown)
           THEN IF inliveview THEN "restore" ELSE "disable"
           ELSE "closing"
  /\ UNCHANGED <<body, model, preview, mode, seen, tries, told, touched, loose>>

(* Forced: live view that was to stay ends too.                             *)
ExitRestores ==
  /\ pc = "restore"
  /\ \/ LiveViewRestored /\ UNCHANGED failing
     \/ LiveViewUnsure /\ failing' = TRUE
  /\ pc' = "disable"
  /\ UNCHANGED <<session, vendor, exposing, candidate, model, keep_live_view, mode, seen,
                 tries, pentaxExit, told, touched, loose>>

\* MUTANT of ExitDisables: a result that overwrites the first error.
ExitDisablesOverwrites ==
  /\ pc = "disable"
  /\ \/ VendorModeDisabled /\ failing' = FALSE
     \/ VendorModeUnsure /\ failing' = TRUE
  /\ pc' = "closing"
  /\ UNCHANGED <<session, liveView, exposing, candidate, model, preview, seen,
                 tries, pentaxExit, told, touched, loose>>

ExitDisables ==
  /\ pc = "disable"
  /\ \/ VendorModeDisabled /\ UNCHANGED failing
     \/ VendorModeUnsure /\ failing' = TRUE
  /\ pc' = "closing"
  /\ UNCHANGED <<session, liveView, exposing, candidate, model, preview, seen,
                 tries, pentaxExit, told, touched, loose>>

(* CloseSession is always sent; only a Pentax exit reports that it failed.  *)
ExitCloses ==
  /\ pc = "closing"
  /\ \/ /\ session' = "closed"
        /\ told' = IF failing THEN "failed" ELSE "ok"
     \/ /\ session' \in {session, "closed"}
        /\ told' = IF failing \/ pentaxExit THEN "failed" ELSE "ok"
  /\ pc' = "none"
  /\ UNCHANGED <<vendor, liveView, exposing, candidate, model, preview, mode, seen, call,
                 touched, loose>>

-----------------------------------------------------------------------------

CameraInit ==
  \/ OpenSession
  \/ NotOverUsb \/ RecoveryObserves \/ CloseStale \/ ResetPort \/ Reopen
  \/ GetDeviceInfo \/ IdentifySupportedModel \/ Reconcile
  \/ EnableVendorMode \/ RefreshDeviceInfo \/ RollBack

CapturePreview == StartPreview \/ StartLiveView \/ GetFrame

CameraExit == Exit \/ ExitRestores \/ ExitDisables \/ ExitCloses

Next ==
  \/ Connect \/ CameraInit
  \/ CapturePreview \/ SetKeepLiveView
  \/ CameraExit
  \/ Dies \/ Exposes \/ SwitchedOff

Spec == Init /\ [][Next]_vars

-----------------------------------------------------------------------------
(* Properties.                                                              *)

AtRest == ~exposing /\ ~candidate /\ ~liveView

(* pentax_recover_stale_session: a session is closed under its owner, and   *)
(* the port reset, only over USB and over a body last seen with no          *)
(* exposure, candidate or live view - unless it was operated since.         *)
ResetOnlyQuietBody ==
  pc \in {"close", "reset"} => usb /\ (touched \/ AtRest)

(* camera_init: a camera it returned OK for has a session of this process,  *)
(* whatever the body held before; and if vendor mode went on, what the body *)
(* was still doing is known to the capture functions.  A restore never      *)
(* lacks the value to restore, and nothing is lost by clearing the params.  *)
ReadyIsReconciled ==
  pc \in ReadyPcs =>
    /\ session = "ours"
    /\ supported /\ ~touched /\ exposing => recovery_required
    /\ supported /\ ~touched /\ candidate => recovery_required \/ candidateKnown
    /\ inliveview => originalValid

ExitedOk == pc = "none" /\ told = "ok"

(* camera_exit: an exit with Pentax handling that reports OK leaves the     *)
(* body as another program expects it: no vendor mode, no session, and no   *)
(* live view but what was on before or what an answer was lost about.       *)
CleanExit ==
  ExitedOk /\ supported /\ pentaxExit =>
    ~vendor /\ session = "closed" /\ (liveView => loose # "no")

(* pentax_restore_live_view: "Session teardown (camera_exit) overrides that *)
(* policy so the camera never stays in PC-LV after the controlling process  *)
(* disconnects".  It stays when it was found on, left by a process that     *)
(* died: the value this exit restores is the 1 that was found.              *)
LiveViewEndsWithSession ==
  ExitedOk /\ supported /\ pentaxExit /\ ~inliveview /\ loose # "unanswered"
    => ~liveView

=============================================================================
