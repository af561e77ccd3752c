----------------------------- MODULE CameraCore -----------------------------
(***************************************************************************)
(* The life of one Camera object (libgphoto2/gphoto2-camera.c): its        *)
(* reference count, its busy counter "used", the exit that waits for the   *)
(* busy counter, the loading and unloading of the driver and the driver's  *)
(* keepalive timer.                                                        *)
(*                                                                         *)
(* The library is used from one thread, but drivers call the application   *)
(* back (context progress and idle functions) and the application calls    *)
(* the library again from there.  The interleaving is therefore that of a  *)
(* call stack: "stack" holds the library calls in progress, innermost      *)
(* last, each waiting at the point where it runs driver or detection code. *)
(* Code between two such points is one step.                               *)
(***************************************************************************)
EXTENDS Integers, Sequences, FiniteSets

CONSTANTS
  Models,       \* camera models; each has its own driver library
  NoDriver,     \* camera->pc->lh == NULL
  Ops,          \* public operations the application calls, see OpKinds
  CallbackFrom, \* library functions whose callbacks re-enter the library
  Faults,       \* failures that the code answers with CAMERA_UNUSED
  UsedModulus,  \* 256: "used" is an unsigned char
  MaxRefs,      \* bound on the references the application holds
  MaxDepth      \* bound on nested library calls

OpKinds == {"ordinary", "file_get_info", "extra_files"}

ASSUME CameraAssumption ==
  /\ NoDriver \notin Models
  /\ Ops \subseteq OpKinds
  /\ CallbackFrom \subseteq {"operation", "init", "exit"}
  /\ Faults \subseteq {"detect", "set_port_info"}
  /\ UsedModulus \in Nat \ {0, 1}
  /\ MaxRefs \in Nat \ {0}
  /\ MaxDepth \in Nat \ {0}

VARIABLES
  ref_count,       \* pc->ref_count
  used,            \* pc->used
  exit_requested,  \* pc->exit_requested
  model,           \* pc->a, the abilities in force
  lh,              \* the model whose driver library is loaded, or NoDriver
  port_open,       \* is the port open
  timers,          \* pc->timeout_ids_len
  freed,           \* has gp_camera_free released the object
  preview,         \* outcome of gp_camera_file_get_info's own download
  stack            \* the library calls in progress

vars == <<ref_count, used, exit_requested, model, lh, port_open, timers,
          freed, preview, stack>>

Frame == [fn: {"operation"}, at: {"init", "driver"}, then: OpKinds]
           \cup [fn: {"init"}, at: {"detect", "driver"}, then: {"return"}]
           \cup [fn: {"exit"}, at: {"driver"},
                 then: {"return", "unused", "free", "set_abilities",
                        "set_port_info"}]

TypeOK ==
  /\ ref_count \in 0..MaxRefs
  /\ used \in 0..(UsedModulus - 1)
  /\ exit_requested \in BOOLEAN
  /\ model \in Models
  /\ lh \in Models \cup {NoDriver}
  /\ port_open \in BOOLEAN
  /\ timers \in 0..1
  /\ freed \in BOOLEAN
  /\ preview \in {"none", "got", "refused"}
  /\ stack \in Seq(Frame)

-----------------------------------------------------------------------------
Top  == stack[Len(stack)]
Rest == SubSeq(stack, 1, Len(stack) - 1)

At(fn, at) == stack # <<>> /\ Top.fn = fn /\ Top.at = at

InOperation == \E i \in DOMAIN stack : stack[i].fn = "operation"

(* The application may call: it holds a reference and either is outside the *)
(* library or has been called back by it.                                   *)
Callable ==
  /\ ~freed /\ ref_count > 0 /\ Len(stack) < MaxDepth
  /\ \/ stack = <<>>
     \/ InOperation /\ "operation" \in CallbackFrom
     \/ stack # <<>> /\ Top.fn \in CallbackFrom

(* The tests of the code that decide what waits for what.                   *)
Dropped == FALSE                    \* a test that was left out (mutants)
RefusesOperation == used # 0        \* CHECK_INIT
PostponesExit    == used # 0        \* gp_camera_exit
PostponesFree    == used # 0        \* gp_camera_unref
ExitIsDue        == exit_requested  \* CAMERA_UNUSED, the last user
FreeIsDue        == ref_count = 0   \* CAMERA_UNUSED, the last user
ClosesFirst      == lh # NoDriver   \* gp_camera_set_abilities, _set_port_info

Push(frames, fn, at, then) ==
  Append(frames, [fn |-> fn, at |-> at, then |-> then])

Init ==
  /\ ref_count = 1 /\ used = 0 /\ exit_requested = FALSE
  /\ model \in Models /\ lh = NoDriver /\ port_open = FALSE
  /\ timers = 0 /\ freed = FALSE /\ preview = "none" /\ stack = <<>>

-----------------------------------------------------------------------------
(* Every pending timer is removed before the driver is asked to exit.       *)
TimersKept == timers
TimersOnExit == 0

(* gp_camera_exit past its busy test.  With a driver loaded its exit        *)
(* function runs next (ExitReturns); without one the rest is immediate.     *)
(* Callers guarantee used = 0.                                              *)
BeginExit(rest, then) ==
  /\ timers' = TimersOnExit
  /\ IF lh # NoDriver
     THEN /\ stack' = Push(rest, "exit", "driver", then)
          /\ UNCHANGED <<port_open, freed>>
     ELSE /\ stack' = rest
          /\ port_open' = FALSE
          /\ freed' = (freed \/ then = "free" \/ (then = "unused" /\ FreeIsDue))
  /\ UNCHANGED lh

(* gp_camera_free: a loaded camera is closed first, whatever that returns.  *)
BeginFree(rest) ==
  IF lh # NoDriver
  THEN BeginExit(rest, "free")
  ELSE /\ freed' = TRUE /\ port_open' = FALSE /\ stack' = rest
       /\ UNCHANGED <<lh, timers>>

(* CAMERA_UNUSED on a counter holding u, the caller's frame being gone:     *)
(* the last user performs a postponed exit, then a postponed free.          *)
Release(u, rest) ==
  LET left == (u - 1) % UsedModulus IN
  /\ used' = left
  /\ CASE left = 0 /\ ExitIsDue -> BeginExit(rest, "unused")
       [] left = 0 /\ ~ExitIsDue /\ FreeIsDue -> BeginFree(rest)
       [] OTHER -> stack' = rest /\ UNCHANGED <<lh, port_open, timers, freed>>
  /\ UNCHANGED <<ref_count, exit_requested, model>>

(* gp_camera_ref.                                                           *)
Ref ==
  /\ Callable /\ ref_count < MaxRefs
  /\ ref_count' = ref_count + 1
  /\ UNCHANGED <<used, exit_requested, model, lh, port_open, timers, freed,
                 preview, stack>>

(* gp_camera_unref: the last one frees the camera unless it is in use, and  *)
(* freeing a loaded camera runs gp_camera_exit first.  An application drops *)
(* its last reference from inside a call only if that call is an operation. *)
Unref ==
  /\ Callable
  /\ ref_count > 1 \/ stack = <<>> \/ InOperation
  /\ ref_count' = ref_count - 1
  /\ IF ref_count = 1 /\ ~PostponesFree
     THEN BeginFree(stack)
     ELSE UNCHANGED <<lh, port_open, timers, freed, stack>>
  /\ UNCHANGED <<used, exit_requested, model, preview>>

(* gp_camera_exit called by the application.                                *)
Exit ==
  /\ Callable
  /\ IF PostponesExit
     THEN /\ exit_requested' = TRUE
          /\ UNCHANGED <<lh, port_open, timers, freed, stack>>
     ELSE BeginExit(stack, "return") /\ UNCHANGED exit_requested
  /\ UNCHANGED <<ref_count, used, model, preview>>

(* gp_camera_set_abilities and gp_camera_set_port_info close a loaded       *)
(* camera first; while it is in use that exit is only requested, and the    *)
(* new value is stored all the same.                                        *)
Reconfigure(then) ==
  \/ /\ ClosesFirst /\ ~PostponesExit
     /\ BeginExit(stack, then)
     /\ UNCHANGED <<ref_count, used, exit_requested, model>>
  \/ /\ ~ClosesFirst \/ PostponesExit
     /\ exit_requested' = (exit_requested \/ ClosesFirst)
     /\ model' \in IF then = "set_abilities" THEN Models ELSE {model}
     /\ UNCHANGED <<ref_count, used, lh, port_open, timers, freed, stack>>

SetAbilities == Callable /\ Reconfigure("set_abilities") /\ UNCHANGED preview
SetPortInfo  == Callable /\ Reconfigure("set_port_info") /\ UNCHANGED preview

(* gp_port_set_info fails: CR releases a use that gp_camera_set_port_info   *)
(* never took.  A loaded camera has been closed, or asked to close, by the  *)
(* same call: there the failing call is Exit followed by this action.       *)
SetPortInfoFails ==
  /\ Callable /\ "set_port_info" \in Faults
  /\ lh = NoDriver \/ (used # 0 /\ exit_requested)
  /\ Release(used, stack)
  /\ UNCHANGED preview
-----------------------------------------------------------------------------
(* gp_camera_init called by the application, outside any other call and on  *)
(* a camera that is not initialised.  The code does not check either: from  *)
(* a callback, or a second time, it forgets an exit that was postponed and  *)
(* loads a driver over the one in use.  That is left out, and the           *)
(* properties say nothing of an application that does it.                   *)
CallInit ==
  /\ Callable /\ stack = <<>> /\ lh = NoDriver
  /\ exit_requested' = FALSE
  /\ stack' = Push(stack, "init", "detect", "return")
  /\ UNCHANGED <<ref_count, used, model, lh, port_open, timers, freed, preview>>

(* CHECK_INIT: a busy camera refuses (nothing changes, so the refusal is no *)
(* step of its own); a free one is marked busy and initialised if needed.   *)
CHECK_INIT(op, rest) ==
  /\ ~RefusesOperation
  /\ used' = 1
  /\ IF lh = NoDriver
     THEN /\ exit_requested' = FALSE
          /\ stack' = Push(Push(rest, "operation", "init", op),
                           "init", "detect", "return")
     ELSE /\ stack' = Push(rest, "operation", "driver", op)
          /\ UNCHANGED exit_requested

CallOperation(op) ==
  /\ Callable
  /\ CHECK_INIT(op, stack)
  /\ UNCHANGED <<ref_count, model, lh, port_open, timers, freed, preview>>

(* The driver library is loaded, the port opened, camera_init entered.      *)
LoadDriver ==
  /\ At("init", "detect")
  /\ lh' = model /\ port_open' = TRUE
  /\ stack' = Push(Rest, "init", "driver", "return")
  /\ UNCHANGED <<ref_count, used, exit_requested, model, timers, freed, preview>>

(* gp_camera_init has failed with the camera unloaded: CR in CHECK_INIT     *)
(* releases the use its operation took; a direct caller just returns.       *)
InitOfOperation(rest) == rest # <<>> /\ rest[Len(rest)].fn = "operation"

AfterFailedInit(u, rest) ==
  IF InitOfOperation(rest)
  THEN Release(u, SubSeq(rest, 1, Len(rest) - 1))
  ELSE /\ stack' = rest /\ used' = u
       /\ UNCHANGED <<ref_count, exit_requested, model, lh, timers, freed,
                      port_open>>

(* No camera found, no port set, driver or port does not open: returns that *)
(* leave the busy counter alone.                                            *)
InitFindsNothing ==
  /\ At("init", "detect")
  /\ AfterFailedInit(used, Rest)
  /\ UNCHANGED preview

(* CRSL and CRS inside gp_camera_init: a failed detection step releases a   *)
(* use before the error is returned.  An abandoned camera is freed by that  *)
(* release, under the operation whose CHECK_INIT is still to come.          *)
InitDetectFails ==
  /\ At("init", "detect") /\ "detect" \in Faults
  /\ IF used = 1 /\ ref_count = 0
     THEN Release(used, Rest)
     ELSE AfterFailedInit((used - 1) % UsedModulus, Rest)
  /\ UNCHANGED preview

(* camera_init succeeded; a driver may have started its keepalive timer.    *)
InitReturns ==
  /\ At("init", "driver")
  /\ timers' \in {timers, 1}
  /\ stack' = IF InitOfOperation(Rest)
              THEN [Rest EXCEPT ![Len(Rest)].at = "driver"] ELSE Rest
  /\ UNCHANGED <<ref_count, used, exit_requested, model, lh, port_open, freed,
                 preview>>

(* camera_init failed: the port is closed and the library unloaded.  Timers *)
(* stay, but there is none yet: the one driver that has a timer, konica,    *)
(* starts it as the last thing its camera_init does.                        *)
DriverInitFails ==
  /\ At("init", "driver")
  /\ lh' = NoDriver /\ port_open' = FALSE
  /\ IF InitOfOperation(Rest)
     THEN LET left == (used - 1) % UsedModulus IN
          /\ used' = left /\ stack' = SubSeq(Rest, 1, Len(Rest) - 1)
          /\ freed' = (left = 0 /\ FreeIsDue)
          /\ timers' = IF left = 0 /\ ExitIsDue THEN TimersOnExit ELSE timers
     ELSE stack' = Rest /\ UNCHANGED <<used, freed, timers>>
  /\ UNCHANGED <<ref_count, exit_requested, model, preview>>
-----------------------------------------------------------------------------
(* The driver stops its keepalive timer around a command and restarts it.   *)
RestartWithoutStop == timers + 1
StopOrRestart == 1 - timers

ToggleTimer ==
  /\ At("operation", "driver")
  /\ timers' = StopOrRestart
  /\ UNCHANGED <<ref_count, used, exit_requested, model, lh, port_open, freed,
                 preview, stack>>

(* An operation's driver call returns: CAMERA_UNUSED and back to the        *)
(* caller.  gp_camera_get_extra_capture_files omits CAMERA_UNUSED.          *)
OnlyOrdinaryReleases == Top.then # "ordinary"
ReturnsInUse == Top.then = "extra_files"

OperationReturns ==
  /\ At("operation", "driver")
  /\ IF ReturnsInUse
     THEN /\ stack' = Rest
          /\ UNCHANGED <<ref_count, used, exit_requested, model, lh, port_open,
                         timers, freed>>
     ELSE Release(used, Rest)
  /\ UNCHANGED preview

(* gp_camera_file_get_info on a driver without file information downloads   *)
(* the preview through the public gp_camera_file_get while still in use.    *)
InfoFallback ==
  /\ At("operation", "driver") /\ Top.then = "file_get_info"
  /\ preview' = IF RefusesOperation THEN "refused" ELSE "got"
  /\ Release(used, Rest)

(* functions->exit returns: the rest of gp_camera_exit, then its caller.    *)
ExitReturns ==
  /\ At("exit", "driver")
  /\ lh' = NoDriver /\ port_open' = FALSE
  /\ freed' = (freed \/ Top.then = "free" \/ (Top.then = "unused" /\ FreeIsDue))
  /\ model' \in IF Top.then = "set_abilities" THEN Models ELSE {model}
  /\ stack' = Rest
  /\ UNCHANGED <<ref_count, used, exit_requested, timers, preview>>
-----------------------------------------------------------------------------
AppCall ==
  \/ Ref \/ Unref \/ Exit \/ SetAbilities \/ SetPortInfo \/ SetPortInfoFails
  \/ CallInit \/ \E op \in Ops : CallOperation(op)

(* A driver or detection call in progress comes back, one way or another.   *)
CallReturns ==
  \/ LoadDriver \/ InitFindsNothing \/ InitDetectFails \/ InitReturns
  \/ DriverInitFails \/ OperationReturns \/ InfoFallback \/ ExitReturns

Next == AppCall \/ ToggleTimer \/ CallReturns

Spec == Init /\ [][Next]_vars

(* The innermost driver or detection call comes back in the end: the port's  *)
(* timeouts bound every wait in it.  The application owes nothing.          *)
FairSpec == Spec /\ WF_vars(CallReturns)
-----------------------------------------------------------------------------
(* "used" is the number of operations in progress, so a camera at rest is   *)
(* never busy (CHECK_INIT against CAMERA_UNUSED on every path).             *)
UsedCountsOperations ==
  ~freed => used = Cardinality({i \in DOMAIN stack : stack[i].fn = "operation"})

(* A camera at rest is not busy: "The camera will get reinitialized by      *)
(* gp_camera_init() automatically if you try to access the camera again".   *)
RestingCameraAnswers == stack = <<>> /\ ~freed => used = 0

(* A busy camera refuses: whatever the application does from a callback, at *)
(* most one library call at a time is inside the driver.                    *)
DriverNotReentered ==
  Cardinality({i \in DOMAIN stack : stack[i].at = "driver"}) <= 1

(* gp_camera_exit is postponed while the camera is in use: no call waiting  *)
(* below the one that unloads the driver has driver code to return to.      *)
DriverOutlivesItsCalls ==
  [][lh # NoDriver /\ lh' = NoDriver
       => \A i \in 1..(Len(stack) - 1) : stack[i].at # "driver"]_vars

(* A postponed free is the last thing that happens to a camera: it is       *)
(* closed, has no timer and nobody is left inside it or holds it.           *)
FreeIsLast ==
  freed => /\ stack = <<>> /\ ref_count = 0
           /\ lh = NoDriver /\ ~port_open /\ timers = 0

(* An exit requested of a camera in use is performed as soon as it is no    *)
(* longer in use; no operation, reconfiguration or implied initialisation   *)
(* in between loses the request.                                            *)
IdleExitIsPerformed ==
  stack = <<>> /\ exit_requested => lh = NoDriver /\ ~port_open

(* The driver loaded in a camera at rest is the one of the abilities set    *)
(* last, although they may be replaced under a running operation.           *)
SettledDriverMatchesAbilities ==
  stack = <<>> /\ ~freed => lh \in {NoDriver, model}

(* The keepalive timer, whose function is driver code, never outlives the   *)
(* driver library.                                                          *)
TimersHaveDriver == timers # 0 => lh # NoDriver

(* A camera nobody refers to any more is freed.                             *)
AbandonedIsFreed == ref_count = 0 ~> freed

(* The preview that gp_camera_file_get_info fetches when the driver has no  *)
(* file information is not refused by the camera.                           *)
InfoPreviewNotRefused == preview # "refused"
=============================================================================
