------------------------ MODULE PentaxSessionProofs ------------------------
(***************************************************************************)
(* Proofs about PentaxSession: its four properties, for every behaviour.   *)
(*                                                                         *)
(* Each is an invariant of its own, apart from CleanExit: what an exit     *)
(* leaves behind depends on what the session has kept account of since it  *)
(* was opened - vendor mode, and live view with the value to restore.      *)
(***************************************************************************)
EXTENDS PentaxSession, TLAPS

-----------------------------------------------------------------------------
(* The inductive invariants.                                                *)

Observed == {"enable", "refresh", "rollback"} \cup ReadyPcs

\* From the opening that succeeds to CloseSession the session is this process's.
Owned ==
  pc \in {"observeAgain", "info", "identify", "reconcile"} \cup Observed \cup ExitPcs
    => session = "ours"

\* What the body was doing when it was observed is known.
Known ==
  pc \in Observed /\ supported /\ ~touched =>
    /\ exposing => recovery_required
    /\ candidate => recovery_required \/ candidateKnown

\* params->inliveview and the value to restore go together, inliveview being no
\* part of what pentax_identify_supported_model clears.
Books ==
  /\ pc \in InitPcs \ Observed => ~inliveview
  /\ pc \in Observed => (inliveview => originalValid)
  /\ pc = "start" => ~inliveview /\ originalValid

\* Vendor mode that may be on is remembered until an exit has dealt with it.
VendorAccounted ==
  /\ pc \in {"refresh", "rollback", "start", "frame"} => vendor_mode_enabled
  /\ pc \in ReadyPcs /\ supported => (vendor => vendor_mode_enabled)
  /\ pc = "closing" /\ supported /\ ~failing => ~vendor

\* So is live view that this process started.
LiveViewAccounted ==
  /\ pc \in InitPcs /\ loose = "no" => ~liveView
  /\ pc \in {"reconcile", "restore"} \cup Observed /\ loose = "no" => ~original
  /\ pc \in ReadyPcs /\ loose = "no" /\ liveView => inliveview /\ vendor_mode_enabled
  /\ pc \in {"disable", "closing"} /\ loose = "no" /\ ~failing => ~liveView

-----------------------------------------------------------------------------
(* The types.  What is assigned a truth value is given as a step of its     *)
(* own.                                                                     *)
LEMMA TypeStep ==
  ASSUME TypeOK, [Next]_vars
  PROVE  TypeOK'
<1> USE DEF TypeOK, InitPcs, ReadyPcs, ExitPcs
<1>1. CASE CameraInit
  <2>1. CASE OpenSession
    BY <2>1 DEF OpenSession, InitFails, Opened, body, model, preview, mode, seen, call
  <2>2. CASE NotOverUsb
    BY <2>2 DEF NotOverUsb, InitFails, body, model, preview, mode, seen, call
  <2>3. CASE RecoveryObserves
    BY <2>3
    DEF RecoveryObserves, InitFails, Observe, Quiet, body, model, preview, mode, seen,
        call
  <2>4. CASE CloseStale
    BY <2>4 DEF CloseStale, InitFails, body, model, preview, mode, seen, call
  <2>5. CASE ResetPort
    <3>1. vendor' \in BOOLEAN
      BY <2>5, Zenon DEF ResetPort, InitFails
    <3> QED
      BY <2>5, <3>1 DEF ResetPort, InitFails, body, model, preview, mode, seen, call
  <2>6. CASE Reopen
    BY <2>6 DEF Reopen, InitFails, Opened, body, model, preview, mode, seen, call
  <2>7. CASE GetDeviceInfo
    BY <2>7 DEF GetDeviceInfo, InitFails, body, model, preview, mode, seen, call
  <2>8. CASE IdentifySupportedModel
    <3>1. /\ original' \in BOOLEAN
          /\ originalValid' \in BOOLEAN
          /\ keep_live_view' \in BOOLEAN
          /\ vendor_mode_enabled' \in BOOLEAN
          /\ vendor_mode_unknown' \in BOOLEAN
          /\ recovery_required' \in BOOLEAN
          /\ candidateKnown' \in BOOLEAN
      BY <2>8, Zenon DEF IdentifySupportedModel
    <3> QED
      BY <2>8, <3>1 DEF IdentifySupportedModel, body, model, preview, mode, seen, call
  <2>9. CASE Reconcile
    BY <2>9 DEF Reconcile, Observe, body, model, preview, mode, seen, call
  <2>10. CASE EnableVendorMode
    <3>1. UNCHANGED mode => UNCHANGED vendor_mode_enabled /\ UNCHANGED vendor_mode_unknown
      BY DEF mode
    <3>2. /\ vendor' \in BOOLEAN
          /\ vendor_mode_enabled' \in BOOLEAN
          /\ vendor_mode_unknown' \in BOOLEAN
      BY <2>10, <3>1, Zenon DEF EnableVendorMode
    <3>3. told' \in {"none", "ok", "failed"} /\ pc' \in {"refresh", "none"}
      BY <2>10 DEF EnableVendorMode, InitFails
    <3> QED
      BY <2>10, <3>2, <3>3 DEF EnableVendorMode, body, model, preview, mode, seen, call
  <2>11. CASE RefreshDeviceInfo
    BY <2>11 DEF RefreshDeviceInfo, body, model, preview, mode, seen, call
  <2>12. CASE RollBack
    <3>1. /\ vendor' \in BOOLEAN
          /\ vendor_mode_enabled' \in BOOLEAN
          /\ vendor_mode_unknown' \in BOOLEAN
      BY <2>12, Zenon DEF RollBack, InitFails, VendorModeDisabled, VendorModeUnsure
    <3> QED
      BY <2>12, <3>1
      DEF RollBack, InitFails, VendorModeDisabled, VendorModeUnsure, body, model,
          preview, mode, seen, call
  <2> QED
    BY <1>1, <2>1, <2>2, <2>3, <2>4, <2>5, <2>6, <2>7, <2>8, <2>9, <2>10, <2>11, <2>12
    DEF CameraInit
<1>2. CASE CapturePreview
  <2>1. CASE StartPreview
    <3>1. UNCHANGED preview =>
            /\ UNCHANGED inliveview /\ UNCHANGED original
            /\ UNCHANGED originalValid /\ UNCHANGED keep_live_view
      BY DEF preview
    <3>2. /\ inliveview' \in BOOLEAN /\ original' \in BOOLEAN
          /\ originalValid' \in BOOLEAN /\ keep_live_view' \in BOOLEAN
      BY <2>1, <3>1, Zenon DEF StartPreview
    <3>3. pc' \in {"ready", "start", "frame"}
      BY <2>1 DEF StartPreview
    <3>4. UNCHANGED <<body, model, mode, seen, call, told, touched, loose>>
      BY <2>1 DEF StartPreview
    <3> QED
      BY <3>2, <3>3, <3>4 DEF body, model, preview, mode, seen, call
  <2>2. CASE StartLiveView
    <3>1. /\ UNCHANGED <<originalValid, loose>> =>
               UNCHANGED originalValid /\ UNCHANGED loose
          /\ loose' \in {"no", "found", "unanswered"}
          /\ pc' \in {"ready", "frame"}
      BY <2>2 DEF StartLiveView
    <3>2. liveView' \in BOOLEAN /\ inliveview' \in BOOLEAN /\ originalValid' \in BOOLEAN
      BY <2>2, <3>1, Zenon DEF StartLiveView
    <3>3. UNCHANGED <<session, vendor, exposing, candidate, model, original, keep_live_view,
                      mode, seen, call, told, touched>>
      BY <2>2 DEF StartLiveView
    <3> QED
      BY <3>1, <3>2, <3>3 DEF body, model, preview, mode, seen, call
  <2>3. CASE GetFrame
    <3>1. /\ liveView' \in BOOLEAN /\ inliveview' \in BOOLEAN /\ original' \in BOOLEAN
          /\ originalValid' \in BOOLEAN
      BY <2>3, Zenon DEF GetFrame, LiveViewRestored, LiveViewUnsure
    <3> QED
      BY <2>3, <3>1
      DEF GetFrame, LiveViewRestored, LiveViewUnsure, body, model, preview, mode, seen,
          call
  <2> QED
    BY <1>2, <2>1, <2>2, <2>3 DEF CapturePreview
<1>3. CASE CameraExit
  <2>1. CASE Exit
    <3>1. pentaxExit' \in BOOLEAN /\ failing' \in BOOLEAN
      BY <2>1, Zenon DEF Exit
    <3> QED
      BY <2>1, <3>1 DEF Exit, body, model, preview, mode, seen, call
  <2>2. CASE ExitRestores
    <3>1. /\ liveView' \in BOOLEAN /\ inliveview' \in BOOLEAN /\ original' \in BOOLEAN
          /\ originalValid' \in BOOLEAN /\ failing' \in BOOLEAN
      BY <2>2, Zenon DEF ExitRestores, LiveViewRestored, LiveViewUnsure
    <3> QED
      BY <2>2, <3>1
      DEF ExitRestores, LiveViewRestored, LiveViewUnsure, body, model, preview, mode,
          seen, call
  <2>3. CASE ExitDisables
    <3>1. /\ vendor' \in BOOLEAN
          /\ vendor_mode_enabled' \in BOOLEAN
          /\ vendor_mode_unknown' \in BOOLEAN
          /\ failing' \in BOOLEAN
      BY <2>3, Zenon DEF ExitDisables, VendorModeDisabled, VendorModeUnsure
    <3> QED
      BY <2>3, <3>1
      DEF ExitDisables, VendorModeDisabled, VendorModeUnsure, body, model, preview,
          mode, seen, call
  <2>4. CASE ExitCloses
    BY <2>4 DEF ExitCloses, body, model, preview, mode, seen, call
  <2> QED
    BY <1>3, <2>1, <2>2, <2>3, <2>4 DEF CameraExit
<1>4. CASE Connect \/ SetKeepLiveView \/ Dies \/ Exposes \/ SwitchedOff
  <2>1. CASE Connect
    <3>1. /\ inliveview' \in BOOLEAN /\ original' \in BOOLEAN /\ originalValid' \in BOOLEAN
          /\ keep_live_view' \in BOOLEAN
          /\ vendor_mode_enabled' \in BOOLEAN
          /\ vendor_mode_unknown' \in BOOLEAN
          /\ recovery_required' \in BOOLEAN
          /\ candidateKnown' \in BOOLEAN
          /\ failing' \in BOOLEAN
          /\ pentaxExit' \in BOOLEAN /\ touched' \in BOOLEAN
      BY <2>1, Zenon DEF Connect
    <3> QED
      BY <2>1, <3>1 DEF Connect, body, model, preview, mode, seen, call
  <2>2. CASE SetKeepLiveView
    BY <2>2 DEF SetKeepLiveView, body, model, preview, mode, seen, call
  <2>3. CASE Dies
    BY <2>3 DEF Dies, body, model, preview, mode, seen, call
  <2>4. CASE Exposes
    <3>1. exposing' \in BOOLEAN /\ candidate' \in BOOLEAN /\ touched' \in BOOLEAN
      BY <2>4, Zenon DEF Exposes
    <3> QED
      BY <2>4, <3>1 DEF Exposes, body, model, preview, mode, seen, call
  <2>5. CASE SwitchedOff
    <3>1. /\ vendor' \in BOOLEAN /\ liveView' \in BOOLEAN /\ exposing' \in BOOLEAN
          /\ candidate' \in BOOLEAN
      BY <2>5, Zenon DEF SwitchedOff
    <3> QED
      BY <2>5, <3>1 DEF SwitchedOff, body, model, preview, mode, seen, call
  <2> QED
    BY <1>4, <2>1, <2>2, <2>3, <2>4, <2>5
<1>5. CASE UNCHANGED vars
  BY <1>5 DEF vars, body, model, preview, mode, seen, call
<1> QED
  BY <1>1, <1>2, <1>3, <1>4, <1>5 DEF Next

(* A stale session is closed and reset only over a quiet body.              *)
LEMMA QuietStep ==
  ASSUME ResetOnlyQuietBody, [Next]_vars
  PROVE  ResetOnlyQuietBody'
<1> USE DEF ResetOnlyQuietBody, AtRest
<1>1. CASE CameraInit
  BY <1>1
  DEF CameraInit, OpenSession, InitFails, Opened, NotOverUsb, RecoveryObserves, Observe,
      Quiet, CloseStale, ResetPort, Reopen, GetDeviceInfo, IdentifySupportedModel,
      Reconcile, EnableVendorMode, RefreshDeviceInfo, RollBack, VendorModeDisabled,
      VendorModeUnsure, body, model, preview, mode, seen, call
<1>2. CASE CapturePreview
  BY <1>2
  DEF CapturePreview, StartPreview, StartLiveView, GetFrame, LiveViewRestored,
      LiveViewUnsure, body, model, preview, mode, seen, call
<1>3. CASE CameraExit
  BY <1>3
  DEF CameraExit, Exit, ExitRestores, LiveViewRestored, LiveViewUnsure, ExitDisables,
      VendorModeDisabled, VendorModeUnsure, ExitCloses, body, model, preview, mode,
      seen, call
<1>4. CASE Connect \/ SetKeepLiveView \/ Dies \/ Exposes \/ SwitchedOff
  BY <1>4
  DEF Connect, SetKeepLiveView, Dies, Exposes, SwitchedOff, body, model, preview, mode,
      seen, call
<1>5. CASE UNCHANGED vars
  BY <1>5 DEF vars, body, model, preview, mode, seen, call
<1> QED
  BY <1>1, <1>2, <1>3, <1>4, <1>5 DEF Next

(* Every way into the rest of camera_init opens the session.                *)
LEMMA OwnedStep ==
  ASSUME Owned, [Next]_vars
  PROVE  Owned'
<1> USE DEF Owned, InitPcs, ReadyPcs, ExitPcs, Observed
<1>1. CASE CameraInit
  BY <1>1
  DEF CameraInit, OpenSession, InitFails, Opened, NotOverUsb, RecoveryObserves, Observe,
      Quiet, CloseStale, ResetPort, Reopen, GetDeviceInfo, IdentifySupportedModel,
      Reconcile, EnableVendorMode, RefreshDeviceInfo, RollBack, VendorModeDisabled,
      VendorModeUnsure, body, model, preview, mode, seen, call
<1>2. CASE CapturePreview
  BY <1>2
  DEF CapturePreview, StartPreview, StartLiveView, GetFrame, LiveViewRestored,
      LiveViewUnsure, body, model, preview, mode, seen, call
<1>3. CASE CameraExit
  BY <1>3
  DEF CameraExit, Exit, ExitRestores, LiveViewRestored, LiveViewUnsure, ExitDisables,
      VendorModeDisabled, VendorModeUnsure, ExitCloses, body, model, preview, mode,
      seen, call
<1>4. CASE Connect \/ SetKeepLiveView \/ Dies \/ Exposes \/ SwitchedOff
  BY <1>4
  DEF Connect, SetKeepLiveView, Dies, Exposes, SwitchedOff, body, model, preview, mode,
      seen, call
<1>5. CASE UNCHANGED vars
  BY <1>5 DEF vars, body, model, preview, mode, seen, call
<1> QED
  BY <1>1, <1>2, <1>3, <1>4, <1>5 DEF Next

(* What the reading at the connection shows is kept.                        *)
LEMMA KnownStep ==
  ASSUME TypeOK, Known, [Next]_vars
  PROVE  Known'
<1> USE DEF TypeOK, Known, InitPcs, ReadyPcs, ExitPcs, Observed
<1>1. CASE CameraInit
  BY <1>1
  DEF CameraInit, OpenSession, InitFails, Opened, NotOverUsb, RecoveryObserves, Observe,
      Quiet, CloseStale, ResetPort, Reopen, GetDeviceInfo, IdentifySupportedModel,
      Reconcile, EnableVendorMode, RefreshDeviceInfo, RollBack, VendorModeDisabled,
      VendorModeUnsure, body, model, preview, mode, seen, call
<1>2. CASE CapturePreview
  BY <1>2
  DEF CapturePreview, StartPreview, StartLiveView, GetFrame, LiveViewRestored,
      LiveViewUnsure, body, model, preview, mode, seen, call
<1>3. CASE CameraExit
  BY <1>3
  DEF CameraExit, Exit, ExitRestores, LiveViewRestored, LiveViewUnsure, ExitDisables,
      VendorModeDisabled, VendorModeUnsure, ExitCloses, body, model, preview, mode,
      seen, call
<1>4. CASE Connect \/ SetKeepLiveView \/ Dies \/ Exposes \/ SwitchedOff
  BY <1>4
  DEF Connect, SetKeepLiveView, Dies, Exposes, SwitchedOff, body, model, preview, mode,
      seen, call
<1>5. CASE UNCHANGED vars
  BY <1>5 DEF vars, body, model, preview, mode, seen, call
<1> QED
  BY <1>1, <1>2, <1>3, <1>4, <1>5 DEF Next

(* Live view in the books has a value to restore.                           *)
LEMMA BooksStep ==
  ASSUME TypeOK, Books, [Next]_vars
  PROVE  Books'
<1> USE DEF TypeOK, Books, InitPcs, ReadyPcs, ExitPcs, Observed
<1>1. CASE CameraInit
  <2>1. CASE OpenSession
    BY <2>1 DEF OpenSession, InitFails, Opened, body, model, preview, mode, seen, call
  <2>2. CASE NotOverUsb
    BY <2>2 DEF NotOverUsb, InitFails, body, model, preview, mode, seen, call
  <2>3. CASE RecoveryObserves
    BY <2>3
    DEF RecoveryObserves, InitFails, Observe, Quiet, body, model, preview, mode, seen,
        call
  <2>4. CASE CloseStale
    BY <2>4 DEF CloseStale, InitFails, body, model, preview, mode, seen, call
  <2>5. CASE ResetPort
    BY <2>5 DEF ResetPort, InitFails, body, model, preview, mode, seen, call
  <2>6. CASE Reopen
    BY <2>6 DEF Reopen, InitFails, Opened, body, model, preview, mode, seen, call
  <2>7. CASE GetDeviceInfo
    BY <2>7 DEF GetDeviceInfo, InitFails, body, model, preview, mode, seen, call
  <2>8. CASE IdentifySupportedModel
    BY <2>8 DEF IdentifySupportedModel, body, model, preview, mode, seen, call
  <2>9. CASE Reconcile
    BY <2>9 DEF Reconcile, Observe, body, model, preview, mode, seen, call
  <2>10. CASE EnableVendorMode
    BY <2>10 DEF EnableVendorMode, InitFails, body, model, preview, mode, seen, call
  <2>11. CASE RefreshDeviceInfo
    BY <2>11 DEF RefreshDeviceInfo, body, model, preview, mode, seen, call
  <2>12. CASE RollBack
    BY <2>12
    DEF RollBack, InitFails, VendorModeDisabled, VendorModeUnsure, body, model, preview,
        mode, seen, call
  <2> QED
    BY <1>1, <2>1, <2>2, <2>3, <2>4, <2>5, <2>6, <2>7, <2>8, <2>9, <2>10, <2>11, <2>12
    DEF CameraInit
<1>2. CASE CapturePreview
  <2>1. CASE StartPreview
    BY <2>1 DEF StartPreview, body, model, preview, mode, seen, call
  <2>2. CASE StartLiveView
    <3>1. ~inliveview /\ originalValid
      BY <2>2 DEF StartLiveView
    <3>2. \/ pc' = "frame" /\ UNCHANGED originalValid
          \/ pc' = "ready" /\ UNCHANGED inliveview
      BY <2>2 DEF StartLiveView
    <3>3. CASE pc' = "frame" /\ UNCHANGED originalValid
      BY <3>1, <3>3
    <3>4. CASE pc' = "ready" /\ UNCHANGED inliveview
      BY <3>1, <3>4
    <3> QED
      BY <3>2, <3>3, <3>4
  <2>3. CASE GetFrame
    BY <2>3
    DEF GetFrame, LiveViewRestored, LiveViewUnsure, body, model, preview, mode, seen,
        call
  <2> QED
    BY <1>2, <2>1, <2>2, <2>3 DEF CapturePreview
<1>3. CASE CameraExit
  BY <1>3
  DEF CameraExit, Exit, ExitRestores, LiveViewRestored, LiveViewUnsure, ExitDisables,
      VendorModeDisabled, VendorModeUnsure, ExitCloses, body, model, preview, mode,
      seen, call
<1>4. CASE Connect \/ SetKeepLiveView \/ Dies \/ Exposes \/ SwitchedOff
  <2>1. CASE Connect
    BY <2>1 DEF Connect, body, model, preview, mode, seen, call
  <2>2. CASE SetKeepLiveView
    BY <2>2 DEF SetKeepLiveView, body, model, preview, mode, seen, call
  <2>3. CASE Dies
    BY <2>3 DEF Dies, body, model, preview, mode, seen, call
  <2>4. CASE Exposes
    BY <2>4 DEF Exposes, body, model, preview, mode, seen, call
  <2>5. CASE SwitchedOff
    BY <2>5 DEF SwitchedOff, body, model, preview, mode, seen, call
  <2> QED
    BY <1>4, <2>1, <2>2, <2>3, <2>4, <2>5
<1>5. CASE UNCHANGED vars
  BY <1>5 DEF vars, body, model, preview, mode, seen, call
<1> QED
  BY <1>1, <1>2, <1>3, <1>4, <1>5 DEF Next

(* Vendor mode is switched off, or remembered, or an error.                  *)
LEMMA VendorStep ==
  ASSUME TypeOK, VendorAccounted, [Next]_vars
  PROVE  VendorAccounted'
<1> USE DEF TypeOK, VendorAccounted, InitPcs, ReadyPcs, ExitPcs, Observed
<1>1. CASE CameraInit
  <2>1. CASE OpenSession
    BY <2>1 DEF OpenSession, InitFails, Opened, body, model, preview, mode, seen, call
  <2>2. CASE NotOverUsb
    BY <2>2 DEF NotOverUsb, InitFails, body, model, preview, mode, seen, call
  <2>3. CASE RecoveryObserves
    BY <2>3
    DEF RecoveryObserves, InitFails, Observe, Quiet, body, model, preview, mode, seen,
        call
  <2>4. CASE CloseStale
    BY <2>4 DEF CloseStale, InitFails, body, model, preview, mode, seen, call
  <2>5. CASE ResetPort
    BY <2>5 DEF ResetPort, InitFails, body, model, preview, mode, seen, call
  <2>6. CASE Reopen
    BY <2>6 DEF Reopen, InitFails, Opened, body, model, preview, mode, seen, call
  <2>7. CASE GetDeviceInfo
    BY <2>7 DEF GetDeviceInfo, InitFails, body, model, preview, mode, seen, call
  <2>8. CASE IdentifySupportedModel
    BY <2>8 DEF IdentifySupportedModel, body, model, preview, mode, seen, call
  <2>9. CASE Reconcile
    BY <2>9 DEF Reconcile, Observe, body, model, preview, mode, seen, call
  <2>10. CASE EnableVendorMode
    BY <2>10 DEF EnableVendorMode, InitFails, body, model, preview, mode, seen, call
  <2>11. CASE RefreshDeviceInfo
    BY <2>11 DEF RefreshDeviceInfo, body, model, preview, mode, seen, call
  <2>12. CASE RollBack
    <3>1. pc' \in {"none", "ready"} /\ UNCHANGED supported
      BY <2>12 DEF RollBack, InitFails, model
    <3>2. CASE VendorModeDisabled
      BY <3>1, <3>2 DEF VendorModeDisabled
    <3>3. CASE VendorModeUnsure
      BY <2>12, <3>1, <3>3 DEF RollBack, VendorModeUnsure
    <3> QED
      BY <2>12, <3>2, <3>3 DEF RollBack
  <2> QED
    BY <1>1, <2>1, <2>2, <2>3, <2>4, <2>5, <2>6, <2>7, <2>8, <2>9, <2>10, <2>11, <2>12
    DEF CameraInit
<1>2. CASE CapturePreview
  BY <1>2
  DEF CapturePreview, StartPreview, StartLiveView, GetFrame, LiveViewRestored,
      LiveViewUnsure, body, model, preview, mode, seen, call
<1>3. CASE CameraExit
  <2>1. CASE Exit
    BY <2>1 DEF Exit, body, model, preview, mode, seen, call
  <2>2. CASE ExitRestores
    BY <2>2
    DEF ExitRestores, LiveViewRestored, LiveViewUnsure, body, model, preview, mode,
        seen, call
  <2>3. CASE ExitDisables
    BY <2>3
    DEF ExitDisables, VendorModeDisabled, VendorModeUnsure, body, model, preview, mode,
        seen, call
  <2>4. CASE ExitCloses
    BY <2>4 DEF ExitCloses, body, model, preview, mode, seen, call
  <2> QED
    BY <1>3, <2>1, <2>2, <2>3, <2>4 DEF CameraExit
<1>4. CASE Connect \/ SetKeepLiveView \/ Dies \/ Exposes \/ SwitchedOff
  <2>1. CASE Connect
    BY <2>1 DEF Connect, body, model, preview, mode, seen, call
  <2>2. CASE SetKeepLiveView
    BY <2>2 DEF SetKeepLiveView, body, model, preview, mode, seen, call
  <2>3. CASE Dies
    BY <2>3 DEF Dies, body, model, preview, mode, seen, call
  <2>4. CASE Exposes
    BY <2>4 DEF Exposes, body, model, preview, mode, seen, call
  <2>5. CASE SwitchedOff
    BY <2>5 DEF SwitchedOff, body, model, preview, mode, seen, call
  <2> QED
    BY <1>4, <2>1, <2>2, <2>3, <2>4, <2>5
<1>5. CASE UNCHANGED vars
  BY <1>5 DEF vars, body, model, preview, mode, seen, call
<1> QED
  BY <1>1, <1>2, <1>3, <1>4, <1>5 DEF Next

(* So is live view.                                                         *)
LEMMA LiveViewStep ==
  ASSUME TypeOK, Books, VendorAccounted, LiveViewAccounted, [Next]_vars
  PROVE  LiveViewAccounted'
<1> USE DEF TypeOK, Books, VendorAccounted, LiveViewAccounted, InitPcs, ReadyPcs,
            ExitPcs, Observed
<1>1. CASE CameraInit
  <2>1. CASE OpenSession
    BY <2>1 DEF OpenSession, InitFails, Opened, body, model, preview, mode, seen, call
  <2>2. CASE NotOverUsb
    BY <2>2 DEF NotOverUsb, InitFails, body, model, preview, mode, seen, call
  <2>3. CASE RecoveryObserves
    BY <2>3
    DEF RecoveryObserves, InitFails, Observe, Quiet, body, model, preview, mode, seen,
        call
  <2>4. CASE CloseStale
    BY <2>4 DEF CloseStale, InitFails, body, model, preview, mode, seen, call
  <2>5. CASE ResetPort
    BY <2>5 DEF ResetPort, InitFails, body, model, preview, mode, seen, call
  <2>6. CASE Reopen
    BY <2>6 DEF Reopen, InitFails, Opened, body, model, preview, mode, seen, call
  <2>7. CASE GetDeviceInfo
    BY <2>7 DEF GetDeviceInfo, InitFails, body, model, preview, mode, seen, call
  <2>8. CASE IdentifySupportedModel
    BY <2>8 DEF IdentifySupportedModel, body, model, preview, mode, seen, call
  <2>9. CASE Reconcile
    BY <2>9 DEF Reconcile, Observe, body, model, preview, mode, seen, call
  <2>10. CASE EnableVendorMode
    BY <2>10 DEF EnableVendorMode, InitFails, body, model, preview, mode, seen, call
  <2>11. CASE RefreshDeviceInfo
    BY <2>11 DEF RefreshDeviceInfo, body, model, preview, mode, seen, call
  <2>12. CASE RollBack
    BY <2>12
    DEF RollBack, InitFails, VendorModeDisabled, VendorModeUnsure, body, model, preview,
        mode, seen, call
  <2> QED
    BY <1>1, <2>1, <2>2, <2>3, <2>4, <2>5, <2>6, <2>7, <2>8, <2>9, <2>10, <2>11, <2>12
    DEF CameraInit
<1>2. CASE CapturePreview
  BY <1>2
  DEF CapturePreview, StartPreview, StartLiveView, GetFrame, LiveViewRestored,
      LiveViewUnsure, body, model, preview, mode, seen, call
<1>3. CASE CameraExit
  <2>1. CASE Exit
    BY <2>1 DEF Exit, body, model, preview, mode, seen, call
  <2>2. CASE ExitRestores
    BY <2>2
    DEF ExitRestores, LiveViewRestored, LiveViewUnsure, body, model, preview, mode,
        seen, call
  <2>3. CASE ExitDisables
    BY <2>3
    DEF ExitDisables, VendorModeDisabled, VendorModeUnsure, body, model, preview, mode,
        seen, call
  <2>4. CASE ExitCloses
    BY <2>4 DEF ExitCloses, body, model, preview, mode, seen, call
  <2> QED
    BY <1>3, <2>1, <2>2, <2>3, <2>4 DEF CameraExit
<1>4. CASE Connect \/ SetKeepLiveView \/ Dies \/ Exposes \/ SwitchedOff
  <2>1. CASE Connect
    BY <2>1 DEF Connect, body, model, preview, mode, seen, call
  <2>2. CASE SetKeepLiveView
    BY <2>2 DEF SetKeepLiveView, body, model, preview, mode, seen, call
  <2>3. CASE Dies
    BY <2>3 DEF Dies, body, model, preview, mode, seen, call
  <2>4. CASE Exposes
    BY <2>4 DEF Exposes, body, model, preview, mode, seen, call
  <2>5. CASE SwitchedOff
    BY <2>5 DEF SwitchedOff, body, model, preview, mode, seen, call
  <2> QED
    BY <1>4, <2>1, <2>2, <2>3, <2>4, <2>5
<1>5. CASE UNCHANGED vars
  BY <1>5 DEF vars, body, model, preview, mode, seen, call
<1> QED
  BY <1>1, <1>2, <1>3, <1>4, <1>5 DEF Next

(* An exit that reports OK has done all of it.                              *)
LEMMA CleanExitStep ==
  ASSUME TypeOK, VendorAccounted, LiveViewAccounted, CleanExit, [Next]_vars
  PROVE  CleanExit'
<1> USE DEF TypeOK, VendorAccounted, LiveViewAccounted, CleanExit, ExitedOk, InitPcs,
            ReadyPcs, ExitPcs, Observed
<1>1. CASE CameraInit
  <2>1. CASE OpenSession
    BY <2>1 DEF OpenSession, InitFails, Opened, body, model, preview, mode, seen, call
  <2>2. CASE NotOverUsb
    BY <2>2 DEF NotOverUsb, InitFails, body, model, preview, mode, seen, call
  <2>3. CASE RecoveryObserves
    BY <2>3
    DEF RecoveryObserves, InitFails, Observe, Quiet, body, model, preview, mode, seen,
        call
  <2>4. CASE CloseStale
    BY <2>4 DEF CloseStale, InitFails, body, model, preview, mode, seen, call
  <2>5. CASE ResetPort
    BY <2>5 DEF ResetPort, InitFails, body, model, preview, mode, seen, call
  <2>6. CASE Reopen
    BY <2>6 DEF Reopen, InitFails, Opened, body, model, preview, mode, seen, call
  <2>7. CASE GetDeviceInfo
    BY <2>7 DEF GetDeviceInfo, InitFails, body, model, preview, mode, seen, call
  <2>8. CASE IdentifySupportedModel
    BY <2>8 DEF IdentifySupportedModel, body, model, preview, mode, seen, call
  <2>9. CASE Reconcile
    BY <2>9 DEF Reconcile, Observe, body, model, preview, mode, seen, call
  <2>10. CASE EnableVendorMode
    BY <2>10 DEF EnableVendorMode, InitFails, body, model, preview, mode, seen, call
  <2>11. CASE RefreshDeviceInfo
    BY <2>11 DEF RefreshDeviceInfo, body, model, preview, mode, seen, call
  <2>12. CASE RollBack
    BY <2>12
    DEF RollBack, InitFails, VendorModeDisabled, VendorModeUnsure, body, model, preview,
        mode, seen, call
  <2> QED
    BY <1>1, <2>1, <2>2, <2>3, <2>4, <2>5, <2>6, <2>7, <2>8, <2>9, <2>10, <2>11, <2>12
    DEF CameraInit
<1>2. CASE CapturePreview
  BY <1>2
  DEF CapturePreview, StartPreview, StartLiveView, GetFrame, LiveViewRestored,
      LiveViewUnsure, body, model, preview, mode, seen, call
<1>3. CASE CameraExit
  BY <1>3
  DEF CameraExit, Exit, ExitRestores, LiveViewRestored, LiveViewUnsure, ExitDisables,
      VendorModeDisabled, VendorModeUnsure, ExitCloses, body, model, preview, mode,
      seen, call
<1>4. CASE Connect \/ SetKeepLiveView \/ Dies \/ Exposes \/ SwitchedOff
  <2>1. CASE Connect
    BY <2>1 DEF Connect, body, model, preview, mode, seen, call
  <2>2. CASE SetKeepLiveView
    BY <2>2 DEF SetKeepLiveView, body, model, preview, mode, seen, call
  <2>3. CASE Dies
    BY <2>3 DEF Dies, body, model, preview, mode, seen, call
  <2>4. CASE Exposes
    BY <2>4 DEF Exposes, body, model, preview, mode, seen, call
  <2>5. CASE SwitchedOff
    BY <2>5 DEF SwitchedOff, body, model, preview, mode, seen, call
  <2> QED
    BY <1>4, <2>1, <2>2, <2>3, <2>4, <2>5
<1>5. CASE UNCHANGED vars
  BY <1>5 DEF vars, body, model, preview, mode, seen, call
<1> QED
  BY <1>1, <1>2, <1>3, <1>4, <1>5 DEF Next

-----------------------------------------------------------------------------
(* PentaxSession: every variable keeps its type.                            *)
THEOREM TypeCorrect == Spec => []TypeOK
<1>1. Init => TypeOK
  <2> SUFFICES ASSUME Init PROVE TypeOK
    OBVIOUS
  <2>1. /\ vendor \in BOOLEAN /\ liveView \in BOOLEAN
        /\ exposing \in BOOLEAN /\ candidate \in BOOLEAN
        /\ usb \in BOOLEAN /\ direct \in BOOLEAN
        /\ supported \in BOOLEAN /\ pentaxId \in BOOLEAN
    BY Zenon DEF Init
  <2>2. /\ inliveview \in BOOLEAN /\ keep_live_view \in BOOLEAN
        /\ original \in BOOLEAN /\ originalValid \in BOOLEAN
        /\ vendor_mode_enabled \in BOOLEAN /\ vendor_mode_unknown \in BOOLEAN
        /\ recovery_required \in BOOLEAN /\ candidateKnown \in BOOLEAN
        /\ failing \in BOOLEAN /\ pentaxExit \in BOOLEAN /\ touched \in BOOLEAN
    BY Zenon DEF Init
  <2>3. tries \in 0..9
    BY DEF Init
  <2>4. /\ session \in {"closed", "ours", "other"}
        /\ pc \in {"none"} \cup InitPcs \cup ReadyPcs \cup ExitPcs
        /\ told \in {"none", "ok", "failed"}
        /\ loose \in {"no", "found", "unanswered"}
    BY DEF Init
  <2> QED
    BY <2>1, <2>2, <2>3, <2>4, Zenon DEF TypeOK
<1>2. TypeOK /\ [Next]_vars => TypeOK'
  BY TypeStep
<1> QED
  BY <1>1, <1>2, PTL DEF Spec

(* pentax_recover_stale_session: only a body seen at rest is reset.         *)
THEOREM ResetIsSafe == Spec => []ResetOnlyQuietBody
<1>1. Init => ResetOnlyQuietBody
  BY DEF Init, ResetOnlyQuietBody
<1>2. ResetOnlyQuietBody /\ [Next]_vars => ResetOnlyQuietBody'
  BY QuietStep
<1> QED
  BY <1>1, <1>2, PTL DEF Spec

(* camera_init: an opened camera is this process's, and its state known.    *)
THEOREM OpenedIsReconciled == Spec => []ReadyIsReconciled
<1>1. Init => Owned /\ Known /\ Books
  BY DEF Init, Owned, Known, Books, InitPcs, ReadyPcs, ExitPcs, Observed
<1>2. TypeOK /\ Owned /\ Known /\ Books /\ [Next]_vars => Owned' /\ Known' /\ Books'
  BY OwnedStep, KnownStep, BooksStep
<1>3. Owned /\ Known /\ Books => ReadyIsReconciled
  BY DEF Owned, Known, Books, ReadyIsReconciled, ReadyPcs, Observed
<1> QED
  BY <1>1, <1>2, <1>3, TypeCorrect, PTL DEF Spec

(* camera_exit: an exit that reports OK leaves the body clean.              *)
THEOREM ExitIsClean == Spec => []CleanExit
<1> DEFINE I == Books /\ VendorAccounted /\ LiveViewAccounted /\ CleanExit
<1>1. Init => I
  BY DEF Init, Books, VendorAccounted, LiveViewAccounted, CleanExit, ExitedOk,
         InitPcs, ReadyPcs, ExitPcs, Observed
<1>2. TypeOK /\ I /\ [Next]_vars => I'
  BY BooksStep, VendorStep, LiveViewStep, CleanExitStep
<1>3. I => CleanExit
  OBVIOUS
<1> QED
  BY <1>1, <1>2, <1>3, TypeCorrect, PTL DEF Spec

=============================================================================
