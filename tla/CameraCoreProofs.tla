-------------------------- MODULE CameraCoreProofs --------------------------
(***************************************************************************)
(* Proofs about CameraCore, for any models, references, counter width and  *)
(* nesting bound: the types, without any condition; and for the paths on   *)
(* which every use taken is given back (Balanced), that the busy counter   *)
(* is exact, that a busy camera is neither re-entered nor unloaded under a *)
(* call, that a postponed exit and a postponed free are performed, last,   *)
(* and that no timer or stale driver survives.                             *)
(*                                                                         *)
(* The properties are not inductive: whether Release may exit or free      *)
(* depends on which calls are on the stack.  CInv therefore says which     *)
(* five shapes the stack takes, and what each implies for the counter, the *)
(* driver and the timers.                                                  *)
(***************************************************************************)
EXTENDS CameraCore, SequenceTheorems, FiniteSetTheorems, TLAPS

(* CAMERA_UNUSED keeps the unsigned char in range, and takes one use to     *)
(* none.                                                                    *)
LEMMA LeftIsTyped ==
  ASSUME NEW u \in 0..(UsedModulus - 1)
  PROVE  /\ (u - 1) % UsedModulus \in 0..(UsedModulus - 1)
         /\ u = 1 => (u - 1) % UsedModulus = 0
<1>1. UsedModulus \in Nat /\ UsedModulus > 1
  BY CameraAssumption
<1> QED
  BY <1>1

(* What a prefix of the call stack is.                                      *)
LEMMA Prefix ==
  ASSUME NEW s \in Seq(Frame), NEW n \in Nat, n <= Len(s)
  PROVE  /\ SubSeq(s, 1, n) \in Seq(Frame)
         /\ Len(SubSeq(s, 1, n)) = n
         /\ \A i \in 1..n : SubSeq(s, 1, n)[i] = s[i]
         /\ n = 0 => SubSeq(s, 1, n) = <<>>
<1>1. \A i \in 1..n : s[i] \in Frame
  OBVIOUS
<1>2. SubSeq(s, 1, n) \in Seq(Frame)
  BY <1>1
<1>3. Len(SubSeq(s, 1, n)) = IF 1 <= n THEN n - 1 + 1 ELSE 0
  OBVIOUS
<1>4. Len(SubSeq(s, 1, n)) = n
  BY <1>3
<1>5. \A i \in 1..n : SubSeq(s, 1, n)[i] = s[i]
  OBVIOUS
<1> QED
  BY <1>2, <1>4, <1>5, EmptySeq

(* The stack once its innermost call is gone.                               *)
LEMMA Shorter ==
  ASSUME NEW s \in Seq(Frame), s # <<>>
  PROVE  /\ Len(s) \in Nat /\ Len(s) > 0
         /\ SubSeq(s, 1, Len(s) - 1) \in Seq(Frame)
         /\ Len(SubSeq(s, 1, Len(s) - 1)) = Len(s) - 1
         /\ \A i \in 1..(Len(s) - 1) : SubSeq(s, 1, Len(s) - 1)[i] = s[i]
         /\ Len(s) = 1 => SubSeq(s, 1, Len(s) - 1) = <<>>
<1>1. Len(s) \in Nat /\ Len(s) > 0 /\ Len(s) - 1 \in Nat /\ Len(s) - 1 <= Len(s)
  BY EmptySeq
<1>2. Len(s) = 1 <=> Len(s) - 1 = 0
  BY <1>1
<1> QED
  BY <1>1, <1>2, Prefix, Zenon

(* The stack with one more call.                                            *)
LEMMA Longer ==
  ASSUME NEW s \in Seq(Frame), NEW fn, NEW at, NEW then,
         [fn |-> fn, at |-> at, then |-> then] \in Frame
  PROVE  /\ Push(s, fn, at, then) \in Seq(Frame)
         /\ Len(Push(s, fn, at, then)) = Len(s) + 1
         /\ \A i \in 1..Len(s) : Push(s, fn, at, then)[i] = s[i]
         /\ Push(s, fn, at, then)[Len(s) + 1] = [fn |-> fn, at |-> at, then |-> then]
BY DEF Push

(* The first call on an empty stack.                                        *)
LEMMA FirstFrame ==
  ASSUME NEW fn, NEW at, NEW then, [fn |-> fn, at |-> at, then |-> then] \in Frame
  PROVE  /\ Len(Push(<<>>, fn, at, then)) = 1
         /\ Push(<<>>, fn, at, then)[1] = [fn |-> fn, at |-> at, then |-> then]
<1>1. <<>> \in Seq(Frame) /\ Len(<<>>) = 0
  BY EmptySeq
<1>2. Len(Push(<<>>, fn, at, then)) = Len(<<>>) + 1
  BY <1>1, Longer, Zenon
<1>3. Push(<<>>, fn, at, then)[1] = [fn |-> fn, at |-> at, then |-> then]
  BY DEF Push
<1> QED
  BY <1>1, <1>2, <1>3

(* The frames the actions push are frames.                                  *)
LEMMA FrameKinds ==
  /\ \A at \in {"init", "driver"}, op \in Ops :
        [fn |-> "operation", at |-> at, then |-> op] \in Frame
  /\ \A at \in {"detect", "driver"} :
        [fn |-> "init", at |-> at, then |-> "return"] \in Frame
  /\ \A then \in {"return", "unused", "free", "set_abilities", "set_port_info"} :
        [fn |-> "exit", at |-> "driver", then |-> then] \in Frame
BY CameraAssumption DEF Frame, OpKinds

(* CHECK_INIT on a closed camera leaves an operation below its own init.    *)
LEMMA InitOverOperation ==
  ASSUME NEW op \in Ops, NEW s,
         s = Push(Push(<<>>, "operation", "init", op), "init", "detect", "return")
  PROVE  /\ Len(s) = 2
         /\ s[1] = [fn |-> "operation", at |-> "init", then |-> op]
         /\ s[2] = [fn |-> "init", at |-> "detect", then |-> "return"]
<1> DEFINE a == [fn |-> "operation", at |-> "init", then |-> op]
           b == [fn |-> "init", at |-> "detect", then |-> "return"]
<1>1. a \in Frame /\ b \in Frame
  BY FrameKinds
<1>2. s = Append(Append(<<>>, a), b)
  BY DEF Push
<1> HIDE DEF a, b
<1>3. /\ Append(<<>>, a) \in Seq(Frame) /\ Len(Append(<<>>, a)) = 1
      /\ Append(<<>>, a)[1] = a
  BY <1>1
<1>4. Len(s) = 2 /\ s[1] = a /\ s[2] = b
  BY <1>1, <1>2, <1>3
<1> QED
  BY <1>4 DEF a, b

(* gp_camera_exit past its busy test keeps the types.                       *)
LEMMA BeginExitType ==
  ASSUME TypeOK, NEW rest \in Seq(Frame),
         NEW then \in {"return", "unused", "free", "set_abilities", "set_port_info"},
         BeginExit(rest, then)
  PROVE  /\ stack' \in Seq(Frame) /\ timers' \in 0..1 /\ port_open' \in BOOLEAN
         /\ freed' \in BOOLEAN /\ lh' \in Models \cup {NoDriver}
<1>1. timers' \in 0..1 /\ lh' \in Models \cup {NoDriver}
  BY DEF TypeOK, BeginExit, TimersOnExit
<1>2. CASE lh # NoDriver
  <2>1. stack' = Push(rest, "exit", "driver", then) /\ UNCHANGED <<port_open, freed>>
    BY <1>2 DEF BeginExit
  <2>2. stack' \in Seq(Frame)
    BY <2>1, Longer, FrameKinds
  <2> QED
    BY <1>1, <2>1, <2>2 DEF TypeOK
<1>3. CASE lh = NoDriver
  BY <1>1, <1>3 DEF TypeOK, BeginExit, FreeIsDue
<1> QED
  BY <1>2, <1>3

(* So does gp_camera_free.                                                  *)
LEMMA BeginFreeType ==
  ASSUME TypeOK, NEW rest \in Seq(Frame), BeginFree(rest)
  PROVE  /\ stack' \in Seq(Frame) /\ timers' \in 0..1 /\ port_open' \in BOOLEAN
         /\ freed' \in BOOLEAN /\ lh' \in Models \cup {NoDriver}
BY BeginExitType DEF TypeOK, BeginFree

(* CAMERA_UNUSED, the exit or the free it performs included, keeps them.    *)
LEMMA ReleaseType ==
  ASSUME TypeOK, NEW rest \in Seq(Frame), NEW u \in 0..(UsedModulus - 1),
         Release(u, rest), preview' \in {"none", "got", "refused"}
  PROVE  TypeOK'
<1>1. used' \in 0..(UsedModulus - 1)
  BY LeftIsTyped DEF Release
<1>2. /\ ref_count' = ref_count /\ exit_requested' = exit_requested /\ model' = model
  BY DEF Release
<1>3. \/ BeginExit(rest, "unused") \/ BeginFree(rest)
      \/ stack' = rest /\ UNCHANGED <<lh, port_open, timers, freed>>
  BY DEF Release
<1>4. /\ stack' \in Seq(Frame) /\ timers' \in 0..1 /\ port_open' \in BOOLEAN
      /\ freed' \in BOOLEAN /\ lh' \in Models \cup {NoDriver}
  BY <1>3, BeginExitType, BeginFreeType DEF TypeOK
<1> QED
  BY <1>1, <1>2, <1>4 DEF TypeOK

(* A call that returns leaves a stack of calls.                             *)
LEMMA RestIsTyped ==
  ASSUME TypeOK, stack # <<>>
  PROVE  Rest \in Seq(Frame)
BY Shorter DEF TypeOK, Rest

(* A failed gp_camera_init keeps the types, whoever called it.              *)
LEMMA AfterFailedInitType ==
  ASSUME TypeOK, NEW rest \in Seq(Frame), NEW u \in 0..(UsedModulus - 1),
         AfterFailedInit(u, rest), UNCHANGED preview
  PROVE  TypeOK'
<1>0. preview' \in {"none", "got", "refused"}
  BY DEF TypeOK
<1>1. CASE InitOfOperation(rest)
  <2>1. SubSeq(rest, 1, Len(rest) - 1) \in Seq(Frame)
    BY <1>1, Shorter DEF InitOfOperation
  <2> QED
    BY <1>0, <1>1, <2>1, ReleaseType DEF AfterFailedInit
<1>2. CASE ~InitOfOperation(rest)
  BY <1>2 DEF AfterFailedInit, TypeOK
<1> QED
  BY <1>1, <1>2

(* What the application calls keeps the types.                              *)
LEMMA AppCallType ==
  ASSUME TypeOK, AppCall
  PROVE  TypeOK'
<1>0. stack \in Seq(Frame) /\ used \in 0..(UsedModulus - 1)
  BY DEF TypeOK
<1>1. CASE Ref
  BY <1>1, CameraAssumption DEF TypeOK, Ref
<1>2. CASE Unref
  <2>1. ref_count' \in 0..MaxRefs
    BY <1>2, CameraAssumption DEF TypeOK, Unref, Callable
  <2>2. BeginFree(stack) \/ UNCHANGED <<lh, port_open, timers, freed, stack>>
    BY <1>2 DEF Unref
  <2> QED
    BY <1>0, <1>2, <2>1, <2>2, BeginFreeType DEF TypeOK, Unref
<1>3. CASE Exit
  <2>1. CASE PostponesExit
    BY <1>3, <2>1 DEF TypeOK, Exit
  <2>2. CASE ~PostponesExit
    BY <1>0, <1>3, <2>2, BeginExitType DEF TypeOK, Exit
  <2> QED
    BY <2>1, <2>2
<1>4. ASSUME NEW then \in {"set_abilities", "set_port_info"}, Reconfigure(then), UNCHANGED preview
      PROVE  TypeOK'
  <2>1. CASE BeginExit(stack, then) /\ UNCHANGED <<ref_count, used, exit_requested, model>>
    BY <1>0, <1>4, <2>1, BeginExitType DEF TypeOK
  <2>2. CASE /\ exit_requested' = (exit_requested \/ ClosesFirst)
             /\ model' \in IF then = "set_abilities" THEN Models ELSE {model}
             /\ UNCHANGED <<ref_count, used, lh, port_open, timers, freed, stack>>
    BY <1>4, <2>2 DEF TypeOK, ClosesFirst
  <2> QED
    BY <1>4, <2>1, <2>2 DEF Reconfigure
<1>5. CASE SetPortInfoFails
  BY <1>0, <1>5, ReleaseType DEF SetPortInfoFails, TypeOK
<1>6. CASE CallInit
  <2>1. stack' \in Seq(Frame)
    BY <1>0, <1>6, Longer, FrameKinds DEF CallInit
  <2> QED
    BY <1>6, <2>1 DEF TypeOK, CallInit
<1>7. ASSUME NEW op \in Ops, CallOperation(op)
      PROVE  TypeOK'
  <2>1. /\ Push(stack, "operation", "driver", op) \in Seq(Frame)
        /\ Push(stack, "operation", "init", op) \in Seq(Frame)
    BY <1>0, Longer, FrameKinds
  <2>2. Push(Push(stack, "operation", "init", op), "init", "detect", "return") \in Seq(Frame)
    BY <2>1, Longer, FrameKinds
  <2>3. stack' \in Seq(Frame) /\ exit_requested' \in BOOLEAN
    BY <1>7, <2>1, <2>2 DEF CallOperation, CHECK_INIT, TypeOK
  <2>4. used' = 1 /\ 1 \in 0..(UsedModulus - 1)
    BY <1>7, CameraAssumption DEF CallOperation, CHECK_INIT
  <2> QED
    BY <1>7, <2>3, <2>4 DEF TypeOK, CallOperation
<1> QED
  BY <1>1, <1>2, <1>3, <1>4, <1>5, <1>6, <1>7 DEF AppCall, SetAbilities, SetPortInfo

(* What a driver or detection call does on return keeps them.               *)
LEMMA CallReturnsType ==
  ASSUME TypeOK, CallReturns
  PROVE  TypeOK'
<1>0. used \in 0..(UsedModulus - 1)
  BY DEF TypeOK
<1>1. stack # <<>> /\ Rest \in Seq(Frame)
  BY RestIsTyped
     DEF CallReturns, LoadDriver, InitFindsNothing, InitDetectFails, InitReturns, DriverInitFails,
         OperationReturns, InfoFallback, ExitReturns, At
<1>2. CASE LoadDriver
  <2>1. stack' \in Seq(Frame)
    BY <1>1, <1>2, Longer, FrameKinds DEF LoadDriver
  <2> QED
    BY <1>2, <2>1 DEF TypeOK, LoadDriver
<1>3. CASE InitFindsNothing
  BY <1>0, <1>1, <1>3, AfterFailedInitType DEF InitFindsNothing
<1>4. CASE InitDetectFails
  BY <1>0, <1>1, <1>4, AfterFailedInitType, ReleaseType, LeftIsTyped DEF InitDetectFails, TypeOK
<1>5. CASE InitReturns
  <2>1. CASE InitOfOperation(Rest)
    <3> DEFINE f == [Rest[Len(Rest)] EXCEPT !.at = "driver"]
    <3>1. Len(Rest) \in 1..Len(Rest) /\ Rest[Len(Rest)] \in Frame /\ Rest[Len(Rest)].fn = "operation"
      BY <1>1, <2>1, EmptySeq DEF InitOfOperation
    <3>2. f \in Frame
      BY <3>1 DEF Frame
    <3>3. stack' = [Rest EXCEPT ![Len(Rest)] = f]
      BY <1>5, <2>1 DEF InitReturns
    <3>4. stack' \in Seq(Frame)
      <4> HIDE DEF f
      <4> QED BY <1>1, <3>1, <3>2, <3>3
    <3> QED
      BY <1>5, <3>4 DEF TypeOK, InitReturns
  <2>2. CASE ~InitOfOperation(Rest)
    BY <1>1, <1>5, <2>2 DEF TypeOK, InitReturns
  <2> QED
    BY <2>1, <2>2
<1>6. CASE DriverInitFails
  <2>1. InitOfOperation(Rest) => SubSeq(Rest, 1, Len(Rest) - 1) \in Seq(Frame)
    BY <1>1, Shorter DEF InitOfOperation
  <2>2. stack' \in Seq(Frame)
    BY <1>1, <1>6, <2>1 DEF DriverInitFails
  <2>3. used' \in 0..(UsedModulus - 1)
    BY <1>0, <1>6, LeftIsTyped DEF DriverInitFails
  <2>4. timers' \in 0..1
    BY <1>6 DEF TypeOK, DriverInitFails, TimersOnExit
  <2>5. freed' \in BOOLEAN
    <3>1. CASE InitOfOperation(Rest)
      <4>1. freed' = ((used - 1) % UsedModulus = 0 /\ FreeIsDue)
        BY <1>6, <3>1 DEF DriverInitFails
      <4> QED
        BY <4>1
    <3>2. CASE ~InitOfOperation(Rest)
      BY <1>6, <3>2 DEF DriverInitFails, TypeOK
    <3> QED
      BY <3>1, <3>2
  <2> QED
    BY <1>6, <2>2, <2>3, <2>4, <2>5 DEF TypeOK, DriverInitFails
<1>7. CASE OperationReturns
  <2>1. CASE ReturnsInUse
    BY <1>1, <1>7, <2>1 DEF TypeOK, OperationReturns
  <2>2. CASE ~ReturnsInUse
    BY <1>0, <1>1, <1>7, <2>2, ReleaseType DEF OperationReturns, TypeOK
  <2> QED
    BY <2>1, <2>2
<1>8. CASE InfoFallback
  <2>1. Release(used, Rest) /\ preview' \in {"none", "got", "refused"}
    BY <1>8 DEF InfoFallback
  <2> QED
    BY <1>0, <1>1, <2>1, ReleaseType
<1>9. CASE ExitReturns
  BY <1>1, <1>9 DEF TypeOK, ExitReturns, FreeIsDue
<1> QED
  BY <1>2, <1>3, <1>4, <1>5, <1>6, <1>7, <1>8, <1>9 DEF CallReturns

(* TypeOK is inductive as it stands: Frame says which points a call of each *)
(* kind waits at.                                                           *)
LEMMA TypeStep == TypeOK /\ [Next]_vars => TypeOK'
<1> SUFFICES ASSUME TypeOK, [Next]_vars PROVE TypeOK'
  OBVIOUS
<1>1. CASE UNCHANGED vars
  BY <1>1 DEF TypeOK, vars
<1>2. CASE ToggleTimer
  BY <1>2 DEF TypeOK, ToggleTimer, StopOrRestart
<1> QED
  BY <1>1, <1>2, AppCallType, CallReturnsType DEF Next

(* A new camera has the types.                                              *)
LEMMA TypeInit == Init => TypeOK
<1>1. 1 \in 0..MaxRefs /\ 0 \in 0..(UsedModulus - 1) /\ 0 \in 0..1
  BY CameraAssumption
<1>2. <<>> \in Seq(Frame)
  BY EmptySeq
<1> QED
  BY <1>1, <1>2 DEF Init, TypeOK

(* Every variable of a camera keeps its range, on every path, those that    *)
(* release a use nobody took included: the busy counter wraps but stays a   *)
(* byte, and the stack only ever holds calls that gphoto2-camera.c can be   *)
(* in.                                                                      *)
THEOREM TypeCorrect == Spec => []TypeOK
BY TypeInit, TypeStep, PTL DEF Spec
-----------------------------------------------------------------------------
(* The paths on which CAMERA_UNUSED balances CHECK_INIT: no failing         *)
(* detection (CRSL and CRS in gp_camera_init), no failing gp_port_set_info, *)
(* no gp_camera_get_extra_capture_files, and callbacks only from            *)
(* operations.  Without it they do not all hold: see MCCameraDetect.cfg,    *)
(* MCCameraSetPort.cfg, MCCameraExtraFiles.cfg, MCCameraInitCallback.cfg.   *)
Balanced ==
  /\ Faults = {} /\ "extra_files" \notin Ops /\ CallbackFrom \subseteq {"operation"}

(* The five shapes the call stack takes.  Nothing in progress, and a        *)
(* requested exit performed.                                                *)
Rests == stack = <<>> /\ used = 0 /\ (exit_requested => lh = NoDriver)

(* The n-th call initialises the camera: driver code runs only once the     *)
(* library is loaded, and no timer can be left.                             *)
Opens(n) ==
  /\ Len(stack) = n /\ stack[n].fn = "init" /\ timers = 0
  /\ stack[n].at = "detect" <=> lh = NoDriver

(* The application called gp_camera_init; CallInit cancelled any request.   *)
OpensAlone == Opens(1) /\ used = 0 /\ ~exit_requested

(* One operation is in the driver.                                          *)
Operates ==
  /\ Len(stack) = 1 /\ stack[1].fn = "operation" /\ stack[1].at = "driver"
  /\ stack[1].then # "extra_files" /\ used = 1 /\ lh # NoDriver

(* One operation waits for CHECK_INIT's gp_camera_init.                     *)
OpensToOperate ==
  /\ Opens(2) /\ stack[1].fn = "operation" /\ stack[1].at = "init"
  /\ stack[1].then # "extra_files" /\ used = 1

(* gp_camera_exit is in the driver, nobody being left in the camera.        *)
Closes ==
  /\ Len(stack) = 1 /\ stack[1].fn = "exit" /\ used = 0 /\ lh # NoDriver /\ timers = 0
  /\ stack[1].then = "free" => ref_count = 0

(* No other shape occurs, and the stack never holds more than two calls: a  *)
(* camera with used = 1 refuses operations and postpones exit and free.     *)
Shape == Rests \/ OpensAlone \/ Operates \/ OpensToOperate \/ Closes

(* The driver is the one of the abilities, or has an exit to come.          *)
Current == lh \in {NoDriver, model} \/ exit_requested

(* What holds besides, at whatever point a call waits.                      *)
Facts ==
  /\ FreeIsLast /\ TimersHaveDriver /\ Current
  /\ port_open => lh # NoDriver

(* The inductive invariant.                                                 *)
CInv == TypeOK /\ Shape /\ Facts

(* A new camera rests.                                                      *)
LEMMA ConfigInit == Init => Shape /\ Facts
BY DEF Init, Shape, Rests, Facts, FreeIsLast, TimersHaveDriver, Current

(* The application calls from outside or from an operation's callbacks,     *)
(* never while gp_camera_exit or its own gp_camera_init runs.               *)
LEMMA CalledWhen ==
  ASSUME CInv, Balanced, Callable
  PROVE  ~freed /\ ref_count > 0 /\ (Rests \/ Operates \/ OpensToOperate)
<1>1. ~freed /\ ref_count > 0
  BY DEF Callable
<1>2. CASE stack = <<>>
  BY <1>1, <1>2, EmptySeq DEF CInv, TypeOK, Shape, OpensAlone, Opens, Closes
<1>3. CASE stack # <<>> /\ (InOperation \/ Top.fn = "operation")
  <2>1. CASE OpensAlone \/ Closes
    <3>1. Len(stack) = 1 /\ stack[1].fn # "operation"
      BY <2>1 DEF OpensAlone, Opens, Closes
    <3>2. DOMAIN stack = {1}
      BY <3>1 DEF CInv, TypeOK
    <3> QED
      BY <1>3, <3>1, <3>2 DEF InOperation, Top
  <2> QED
    BY <1>1, <1>3, <2>1 DEF CInv, Shape
<1> QED
  BY <1>2, <1>3 DEF Callable, Balanced

(* gp_camera_exit of a loaded camera that nobody uses.                      *)
LEMMA ClosingShape ==
  ASSUME CInv, NEW then \in {"return", "unused", "free", "set_abilities", "set_port_info"},
         BeginExit(<<>>, then), lh # NoDriver, used' = 0, then = "free" => ref_count' = 0
  PROVE  Closes' /\ lh' = lh /\ timers' = 0 /\ UNCHANGED <<port_open, freed>>
<1>1. stack' = Push(<<>>, "exit", "driver", then) /\ timers' = 0 /\ lh' = lh
      /\ UNCHANGED <<port_open, freed>>
  BY DEF BeginExit, TimersOnExit
<1>2. Len(stack') = 1 /\ stack'[1] = [fn |-> "exit", at |-> "driver", then |-> then]
  BY <1>1, FirstFrame, FrameKinds
<1> QED
  BY <1>1, <1>2 DEF Closes

(* The last use is given back, from a stack that is empty below it.         *)
LEMMA ReleaseLast ==
  ASSUME CInv, ~freed, used = 1, Release(used, <<>>)
  PROVE  Shape' /\ Facts'
<1>1. used' = 0
  BY LeftIsTyped DEF CInv, TypeOK, Release
<1>2. UNCHANGED <<ref_count, exit_requested, model>>
  BY DEF Release
<1>3. \/ exit_requested /\ BeginExit(<<>>, "unused")
      \/ ~exit_requested /\ ref_count = 0 /\ BeginFree(<<>>)
      \/ /\ ~exit_requested /\ ref_count # 0
         /\ stack' = <<>> /\ UNCHANGED <<lh, port_open, timers, freed>>
  BY <1>1 DEF Release, ExitIsDue, FreeIsDue
<1>4. CASE lh # NoDriver /\ (BeginExit(<<>>, "unused") \/ (ref_count = 0 /\ BeginExit(<<>>, "free")))
  <2>1. Closes' /\ lh' = lh /\ timers' = 0 /\ UNCHANGED <<port_open, freed>>
    BY <1>1, <1>2, <1>4, ClosingShape
  <2> QED
    BY <1>2, <2>1, <1>4 DEF CInv, Shape, Facts, FreeIsLast, TimersHaveDriver, Current
<1>5. CASE lh = NoDriver /\ exit_requested /\ BeginExit(<<>>, "unused")
  BY <1>1, <1>2, <1>5
     DEF CInv, Shape, Rests, Facts, FreeIsLast, TimersHaveDriver, Current, BeginExit, TimersOnExit, FreeIsDue
<1>6. CASE lh = NoDriver /\ ~exit_requested /\ ref_count = 0 /\ BeginFree(<<>>)
  BY <1>1, <1>2, <1>6
     DEF CInv, Shape, Rests, Facts, FreeIsLast, TimersHaveDriver, Current, BeginFree
<1>7. CASE /\ ~exit_requested /\ ref_count # 0
           /\ stack' = <<>> /\ UNCHANGED <<lh, port_open, timers, freed>>
  BY <1>1, <1>2, <1>7
     DEF CInv, Shape, Rests, Facts, FreeIsLast, TimersHaveDriver, Current
<1>8. lh # NoDriver /\ BeginFree(<<>>) => BeginExit(<<>>, "free")
  BY DEF BeginFree
<1>9. CASE exit_requested /\ BeginExit(<<>>, "unused")
  BY <1>4, <1>5, <1>9
<1>10. CASE ~exit_requested /\ ref_count = 0 /\ BeginFree(<<>>)
  BY <1>4, <1>6, <1>8, <1>10, Zenon
<1> QED
  BY <1>3, <1>7, <1>9, <1>10

(* While the stack stays as it is, only what the application asks for       *)
(* changes: the abilities and a request of an exit.                         *)
LEMMA SameStack ==
  ASSUME CInv, ~freed, UNCHANGED <<used, lh, port_open, freed, stack>>,
         timers' = timers \/ Operates,
         Closes => ref_count' = ref_count,
         OpensAlone \/ Rests => exit_requested' = exit_requested,
         lh \in {NoDriver, model'} \/ exit_requested'
  PROVE  Shape' /\ Facts'
<1>1. Facts'
  BY DEF CInv, Facts, FreeIsLast, TimersHaveDriver, Current, Operates
<1>2. ASSUME Rests PROVE Shape'
  BY <1>2 DEF Shape, Rests
<1>3. ASSUME OpensAlone PROVE Shape'
  BY <1>3 DEF Shape, OpensAlone, Opens, Operates
<1>4. ASSUME Operates PROVE Shape'
  BY <1>4 DEF Shape, Operates
<1>5. ASSUME OpensToOperate PROVE Shape'
  BY <1>5 DEF Shape, OpensToOperate, Opens, Operates
<1>6. ASSUME Closes PROVE Shape'
  BY <1>6 DEF Shape, Closes, Operates
<1> QED
  BY <1>1, <1>2, <1>3, <1>4, <1>5, <1>6 DEF CInv, Shape

(* What the application calls keeps the shape: one case per call.           *)
LEMMA AppCallShape ==
  ASSUME CInv, Balanced, AppCall
  PROVE  Shape' /\ Facts'
<1>0. Callable
  BY DEF AppCall, Ref, Unref, Exit, SetAbilities, SetPortInfo, SetPortInfoFails, CallInit, CallOperation
<1>1. ~freed /\ ref_count > 0 /\ (Rests \/ Operates \/ OpensToOperate)
  BY <1>0, CalledWhen
<1>2. Rests <=> used = 0
  BY <1>1 DEF Rests, Operates, OpensToOperate
<1>3. Rests => stack = <<>> /\ (exit_requested => lh = NoDriver)
  BY DEF Rests
<1>4. ~Closes /\ ~OpensAlone
  BY <1>1, EmptySeq DEF CInv, TypeOK, Rests, Operates, OpensToOperate, Closes, OpensAlone, Opens
<1>5. CASE Ref
  BY <1>1, <1>4, <1>5, SameStack DEF Ref, CInv, Facts, Current
<1>6. ASSUME NEW then \in {"return", "unused", "free", "set_abilities", "set_port_info"},
             BeginExit(<<>>, then), Rests, then # "unused",
             lh = NoDriver => then \in {"return", "set_abilities", "set_port_info"},
             UNCHANGED <<used, exit_requested, model>>,
             then = "free" => ref_count' = 0
      PROVE  Shape' /\ Facts'
  <2>1. used' = 0
    BY <1>6 DEF Rests
  <2>2. CASE lh # NoDriver
    <3>1. Closes' /\ lh' = lh /\ timers' = 0 /\ UNCHANGED <<port_open, freed>>
      BY <1>6, <2>1, <2>2, ClosingShape
    <3> QED
      BY <1>1, <1>6, <2>2, <3>1 DEF CInv, Shape, Facts, FreeIsLast, TimersHaveDriver, Current
  <2>3. CASE lh = NoDriver
    <3>1. /\ stack' = <<>> /\ lh' = lh /\ timers' = 0 /\ port_open' = FALSE
      BY <1>6, <2>3 DEF BeginExit, TimersOnExit
    <3>2. freed' = freed
      <4>1. freed' = (freed \/ then = "free" \/ (then = "unused" /\ FreeIsDue))
        BY <1>6, <2>3 DEF BeginExit
      <4>2. freed = FALSE /\ then # "free" /\ then # "unused"
        BY <1>1, <1>6, <2>3 DEF CInv, TypeOK
      <4> QED
        BY <4>1, <4>2
    <3> QED
      BY <1>1, <1>6, <2>1, <2>3, <3>1, <3>2
         DEF CInv, Shape, Rests, Facts, FreeIsLast, TimersHaveDriver, Current
  <2> QED
    BY <2>2, <2>3
<1>7. CASE Unref
  <2>1. CASE ref_count = 1 /\ ~PostponesFree
    <3>1. Rests /\ BeginFree(<<>>) /\ ref_count' = 0 /\ UNCHANGED <<used, exit_requested, model>>
      BY <1>2, <1>3, <1>7, <2>1 DEF Unref, PostponesFree
    <3>2. CASE lh # NoDriver
      BY <1>6, <3>1, <3>2 DEF BeginFree
    <3>3. CASE lh = NoDriver
      BY <3>1, <3>3
         DEF BeginFree, CInv, Shape, Rests, Facts, FreeIsLast, TimersHaveDriver, Current
    <3> QED
      BY <3>2, <3>3
  <2>2. CASE ~(ref_count = 1 /\ ~PostponesFree)
    BY <1>1, <1>4, <1>7, <2>2, SameStack DEF Unref, CInv, Facts, Current
  <2> QED
    BY <2>1, <2>2
<1>8. CASE Exit
  <2>1. CASE PostponesExit
    BY <1>1, <1>2, <1>4, <1>8, <2>1, SameStack DEF Exit, PostponesExit
  <2>2. CASE ~PostponesExit
    <3>1. Rests /\ BeginExit(<<>>, "return") /\ UNCHANGED <<used, exit_requested, model, ref_count>>
      BY <1>2, <1>3, <1>8, <2>2 DEF Exit, PostponesExit
    <3> QED
      BY <1>6, <3>1
  <2> QED
    BY <2>1, <2>2
<1>9. ASSUME NEW then \in {"set_abilities", "set_port_info"}, Reconfigure(then)
      PROVE  Shape' /\ Facts'
  <2>1. CASE ClosesFirst /\ ~PostponesExit /\ BeginExit(stack, then)
             /\ UNCHANGED <<ref_count, used, exit_requested, model>>
    <3>1. Rests /\ BeginExit(<<>>, then)
      BY <1>2, <1>3, <2>1 DEF PostponesExit
    <3> QED
      BY <1>6, <2>1, <3>1
  <2>2. CASE /\ ~ClosesFirst \/ PostponesExit
             /\ exit_requested' = (exit_requested \/ ClosesFirst)
             /\ UNCHANGED <<ref_count, used, lh, port_open, timers, freed, stack>>
    <3>1. lh = NoDriver \/ exit_requested'
      BY <2>2 DEF ClosesFirst
    <3>2. Rests => exit_requested' = exit_requested
      BY <1>2, <2>2 DEF ClosesFirst, PostponesExit, CInv, TypeOK
    <3> QED
      BY <1>1, <1>4, <2>2, <3>1, <3>2, SameStack
  <2> QED
    BY <1>9, <2>1, <2>2 DEF Reconfigure
<1>10. CASE CallInit
  <2>1. Rests
    BY <1>1, <1>10, EmptySeq DEF CallInit, Operates, OpensToOperate, Opens, CInv, TypeOK
  <2>2. Len(stack') = 1 /\ stack'[1] = [fn |-> "init", at |-> "detect", then |-> "return"]
    BY <1>10, FirstFrame, FrameKinds DEF CallInit
  <2>3. OpensAlone'
    BY <1>10, <2>1, <2>2 DEF CallInit, Rests, OpensAlone, Opens, CInv, TypeOK, Facts, TimersHaveDriver
  <2> QED
    BY <1>1, <1>10, <2>3
       DEF CallInit, Shape, CInv, Facts, FreeIsLast, TimersHaveDriver, Current
<1>11. ASSUME NEW op \in Ops, CallOperation(op)
       PROVE  Shape' /\ Facts'
  <2>1. Rests /\ used' = 1 /\ op # "extra_files"
    BY <1>2, <1>11 DEF CallOperation, CHECK_INIT, RefusesOperation, Balanced
  <2>2. CASE lh = NoDriver
    <3>1. /\ stack' = Push(Push(<<>>, "operation", "init", op), "init", "detect", "return")
          /\ exit_requested' = FALSE
      BY <1>3, <1>11, <2>1, <2>2 DEF CallOperation, CHECK_INIT
    <3>2. op \in Ops
      BY <1>11
    <3>3. /\ Len(stack') = 2
          /\ stack'[1] = [fn |-> "operation", at |-> "init", then |-> op]
          /\ stack'[2] = [fn |-> "init", at |-> "detect", then |-> "return"]
      BY <3>1, <3>2, InitOverOperation
    <3>4. OpensToOperate'
      BY <1>11, <2>1, <2>2, <3>3
         DEF CallOperation, OpensToOperate, Opens, CInv, TypeOK, Facts, TimersHaveDriver
    <3> QED
      BY <1>1, <1>11, <2>2, <3>4
         DEF CallOperation, Shape, CInv, Facts, FreeIsLast, TimersHaveDriver, Current
  <2>3. CASE lh # NoDriver
    <3>1. stack' = Push(<<>>, "operation", "driver", op) /\ exit_requested' = exit_requested
      BY <1>3, <1>11, <2>1, <2>3 DEF CallOperation, CHECK_INIT
    <3>2. Len(stack') = 1 /\ stack'[1] = [fn |-> "operation", at |-> "driver", then |-> op]
      BY <3>1, FirstFrame, FrameKinds
    <3>3. Operates'
      BY <1>11, <2>1, <2>3, <3>2 DEF CallOperation, Operates
    <3> QED
      BY <1>1, <1>11, <2>3, <3>1, <3>3
         DEF CallOperation, Shape, CInv, Facts, FreeIsLast, TimersHaveDriver, Current
  <2> QED
    BY <2>2, <2>3
<1>12. CASE SetPortInfoFails
  BY <1>12 DEF SetPortInfoFails, Balanced
<1> QED
  BY <1>5, <1>7, <1>8, <1>9, <1>10, <1>11, <1>12 DEF AppCall, SetAbilities, SetPortInfo

(* Which shape a call returns from, and what is left of the stack.          *)
LEMMA ReturningShape ==
  ASSUME CInv, stack # <<>>
  PROVE  /\ ~freed /\ ~Rests
         /\ Len(stack) = 1 => Top = stack[1] /\ Rest = <<>> /\ ~OpensToOperate
         /\ Len(stack) = 2 => /\ Top = stack[2] /\ Len(Rest) = 1 /\ Rest[1] = stack[1]
                              /\ Rest # <<>> /\ SubSeq(Rest, 1, Len(Rest) - 1) = <<>>
                              /\ OpensToOperate
<1>1. stack \in Seq(Frame) /\ ~freed /\ ~Rests
  BY DEF CInv, TypeOK, Facts, FreeIsLast, Rests
<1>2. Len(stack) = 2 => OpensToOperate
  BY <1>1 DEF CInv, Shape, OpensAlone, Opens, Operates, Closes
<1>3. ASSUME Len(stack) = 2
      PROVE  Len(Rest) = 1 /\ Rest[1] = stack[1] /\ Rest \in Seq(Frame)
  BY <1>1, <1>3, Shorter DEF Rest
<1>4. ASSUME Len(stack) = 2
      PROVE  Rest # <<>> /\ SubSeq(Rest, 1, Len(Rest) - 1) = <<>>
  <2>1. Rest \in Seq(Frame) /\ Len(Rest) = 1
    BY <1>3, <1>4
  <2>2. Rest # <<>>
    BY <2>1, EmptySeq
  <2> QED
    BY <2>1, <2>2, Shorter, Zenon
<1>5. Len(stack) = 1 => Top = stack[1] /\ Rest = <<>> /\ ~OpensToOperate
  BY <1>1, Shorter DEF Top, Rest, OpensToOperate, Opens
<1> QED
  BY <1>1, <1>2, <1>3, <1>4, <1>5 DEF Top

(* A gp_camera_init in progress was called directly or by CHECK_INIT.       *)
LEMMA InitReturningFrom ==
  ASSUME CInv, NEW at \in {"detect", "driver"}, At("init", at)
  PROVE  /\ at = "detect" <=> lh = NoDriver
         /\ timers = 0 /\ ~freed
         /\ \/ OpensAlone /\ Rest = <<>> /\ ~InitOfOperation(Rest)
            \/ /\ OpensToOperate /\ InitOfOperation(Rest) /\ Len(Rest) = 1
               /\ Rest[1] = stack[1] /\ SubSeq(Rest, 1, Len(Rest) - 1) = <<>>
<1>1. stack # <<>> /\ Top.fn = "init" /\ Top.at = at
  BY DEF At
<1>2. CASE OpensAlone
  BY <1>1, <1>2, ReturningShape DEF OpensAlone, Opens, InitOfOperation
<1>3. CASE OpensToOperate
  BY <1>1, <1>3, ReturningShape DEF OpensToOperate, Opens, InitOfOperation
<1>4. CASE Operates \/ Closes
  BY <1>1, <1>4, ReturningShape DEF Operates, Closes
<1> QED
  BY <1>1, <1>2, <1>3, <1>4, ReturningShape DEF CInv, Shape

(* Driver code of an operation runs under the operation alone.              *)
LEMMA DriverReturningFrom ==
  ASSUME CInv, At("operation", "driver")
  PROVE  Operates /\ Rest = <<>> /\ ~freed /\ Top.then # "extra_files"
<1>1. stack # <<>> /\ Top.fn = "operation"
  BY DEF At
<1>2. ~OpensAlone /\ ~Closes /\ ~OpensToOperate
  BY <1>1, ReturningShape DEF OpensAlone, OpensToOperate, Opens, Closes
<1>3. Operates
  BY <1>1, <1>2, ReturningShape DEF CInv, Shape
<1> QED
  BY <1>1, <1>3, ReturningShape DEF Operates

(* What driver and detection calls do on return keeps the shape.            *)
LEMMA CallReturnsShape ==
  ASSUME CInv, Balanced, CallReturns
  PROVE  Shape' /\ Facts'
<1>1. CASE LoadDriver
  <2>1. /\ lh = NoDriver /\ timers = 0 /\ ~freed /\ At("init", "detect")
    BY <1>1, InitReturningFrom DEF LoadDriver
  <2>2. lh' = model /\ model' = model /\ model # NoDriver
    BY <1>1, CameraAssumption DEF LoadDriver, CInv, TypeOK
  <2>3. CASE OpensAlone /\ Rest = <<>>
    <3>1. Len(stack') = 1 /\ stack'[1] = [fn |-> "init", at |-> "driver", then |-> "return"]
      BY <1>1, <2>3, FirstFrame, FrameKinds DEF LoadDriver
    <3>2. OpensAlone'
      BY <1>1, <2>1, <2>2, <2>3, <3>1 DEF LoadDriver, OpensAlone, Opens
    <3> QED
      BY <1>1, <2>1, <2>2, <3>2 DEF LoadDriver, Shape, Facts, FreeIsLast, TimersHaveDriver, Current
  <2>4. CASE OpensToOperate /\ Len(Rest) = 1 /\ Rest[1] = stack[1]
    <3>1. Rest \in Seq(Frame) /\ [fn |-> "init", at |-> "driver", then |-> "return"] \in Frame
      BY <2>1, RestIsTyped, FrameKinds DEF CInv, At
    <3>2. stack' = Push(Rest, "init", "driver", "return")
      BY <1>1 DEF LoadDriver
    <3>3. /\ Len(stack') = Len(Rest) + 1 /\ stack'[Len(Rest) + 1].fn = "init"
          /\ stack'[Len(Rest) + 1].at = "driver"
          /\ \A i \in 1..Len(Rest) : stack'[i] = Rest[i]
      BY <3>1, <3>2, Longer
    <3>4. OpensToOperate'
      BY <1>1, <2>1, <2>2, <2>4, <3>3 DEF LoadDriver, OpensToOperate, Opens
    <3> QED
      BY <1>1, <2>1, <2>2, <3>4 DEF LoadDriver, Shape, Facts, FreeIsLast, TimersHaveDriver, Current
  <2> QED
    BY <2>1, <2>3, <2>4, InitReturningFrom
<1>2. CASE InitFindsNothing
  <2>1. At("init", "detect") /\ AfterFailedInit(used, Rest)
    BY <1>2 DEF InitFindsNothing
  <2>2. CASE OpensAlone /\ Rest = <<>> /\ ~InitOfOperation(Rest)
    BY <2>1, <2>2, InitReturningFrom
       DEF AfterFailedInit, OpensAlone, CInv, Shape, Rests, Facts, FreeIsLast, TimersHaveDriver, Current
  <2>3. CASE OpensToOperate /\ InitOfOperation(Rest) /\ SubSeq(Rest, 1, Len(Rest) - 1) = <<>>
    <3>1. Release(used, <<>>) /\ used = 1 /\ ~freed
      BY <2>1, <2>3, InitReturningFrom DEF AfterFailedInit, OpensToOperate
    <3> QED
      BY <3>1, ReleaseLast
  <2> QED
    BY <2>1, <2>2, <2>3, InitReturningFrom
<1>3. CASE InitDetectFails
  BY <1>3 DEF InitDetectFails, Balanced
<1>4. CASE InitReturns
  <2>1. At("init", "driver") /\ lh # NoDriver /\ ~freed
    BY <1>4, InitReturningFrom DEF InitReturns
  <2>2. CASE OpensAlone /\ Rest = <<>> /\ ~InitOfOperation(Rest)
    BY <1>4, <2>1, <2>2
       DEF InitReturns, OpensAlone, CInv, Shape, Rests, Facts, FreeIsLast, TimersHaveDriver, Current
  <2>3. CASE OpensToOperate /\ InitOfOperation(Rest) /\ Len(Rest) = 1 /\ Rest[1] = stack[1]
    <3>1. stack' = [Rest EXCEPT ![1] = [Rest[1] EXCEPT !.at = "driver"]]
      BY <1>4, <2>3 DEF InitReturns
    <3>2. Rest \in Seq(Frame) /\ Rest[1] \in Frame
      BY <2>1, <2>3, RestIsTyped DEF CInv, At
    <3>3. Len(stack') = 1 /\ stack'[1] = [Rest[1] EXCEPT !.at = "driver"]
      BY <2>3, <3>1, <3>2
    <3>4. /\ stack'[1].fn = Rest[1].fn /\ stack'[1].then = Rest[1].then
          /\ stack'[1].at = "driver"
      BY <3>2, <3>3 DEF Frame
    <3>5. Operates'
      BY <1>4, <2>1, <2>3, <3>3, <3>4 DEF InitReturns, OpensToOperate, Operates
    <3> QED
      BY <1>4, <2>1, <3>5 DEF InitReturns, CInv, Shape, Facts, FreeIsLast, TimersHaveDriver, Current
  <2> QED
    BY <2>1, <2>2, <2>3, InitReturningFrom
<1>5. CASE DriverInitFails
  <2>1. At("init", "driver") /\ timers = 0 /\ ~freed /\ lh' = NoDriver /\ port_open' = FALSE
    BY <1>5, InitReturningFrom DEF DriverInitFails
  <2>2. CASE OpensAlone /\ Rest = <<>> /\ ~InitOfOperation(Rest)
    BY <1>5, <2>1, <2>2
       DEF DriverInitFails, OpensAlone, Shape, Rests, Facts, FreeIsLast, TimersHaveDriver, Current
  <2>3. CASE OpensToOperate /\ InitOfOperation(Rest) /\ SubSeq(Rest, 1, Len(Rest) - 1) = <<>>
    <3>1. stack' = <<>> /\ used' = (used - 1) % UsedModulus /\ used = 1
      BY <1>5, <2>3 DEF DriverInitFails, OpensToOperate
    <3>2. used' = 0
      BY <3>1, LeftIsTyped DEF CInv, TypeOK
    <3>3. timers' = 0 /\ (freed' => ref_count = 0) /\ UNCHANGED <<ref_count, exit_requested, model>>
      BY <1>5, <2>1, <2>3 DEF DriverInitFails, TimersOnExit, FreeIsDue
    <3> QED
      BY <2>1, <3>1, <3>2, <3>3 DEF Shape, Rests, Facts, FreeIsLast, TimersHaveDriver, Current
  <2> QED
    BY <2>1, <2>2, <2>3, InitReturningFrom
<1>6. CASE OperationReturns \/ InfoFallback
  <2>1. Operates /\ Rest = <<>> /\ ~freed /\ Top.then # "extra_files"
    BY <1>6, DriverReturningFrom DEF OperationReturns, InfoFallback
  <2>2. Release(used, <<>>) /\ used = 1
    BY <1>6, <2>1 DEF OperationReturns, InfoFallback, ReturnsInUse, Operates
  <2> QED
    BY <2>1, <2>2, ReleaseLast
<1>7. CASE ExitReturns
  <2>1. stack # <<>> /\ Top.fn = "exit"
    BY <1>7 DEF ExitReturns, At
  <2>2. Closes /\ Rest = <<>> /\ Top = stack[1] /\ ~freed
    BY <2>1, ReturningShape DEF CInv, Shape, OpensAlone, OpensToOperate, Opens, Operates, Closes
  <2>3. /\ stack' = <<>> /\ lh' = NoDriver /\ port_open' = FALSE
        /\ UNCHANGED <<ref_count, used, exit_requested, timers>>
    BY <1>7, <2>2 DEF ExitReturns
  <2>4. freed' => ref_count = 0
    BY <1>7, <2>2 DEF ExitReturns, Closes, FreeIsDue
  <2> QED
    BY <2>2, <2>3, <2>4 DEF Closes, Shape, Rests, Facts, FreeIsLast, TimersHaveDriver, Current
<1> QED
  BY <1>1, <1>2, <1>3, <1>4, <1>5, <1>6, <1>7 DEF CallReturns

(* Every step keeps CInv.                                                   *)
LEMMA CInvStep == Balanced /\ CInv /\ [Next]_vars => CInv'
<1> SUFFICES ASSUME Balanced, CInv, [Next]_vars PROVE CInv'
  OBVIOUS
<1>1. TypeOK'
  BY TypeStep DEF CInv
<1>2. CASE UNCHANGED vars
  BY <1>1, <1>2
     DEF vars, CInv, Shape, Rests, OpensAlone, OpensToOperate, Opens, Operates, Closes, Facts,
         FreeIsLast, TimersHaveDriver, Current
<1>3. CASE ToggleTimer
  <2>1. Operates /\ ~freed
    BY <1>3, DriverReturningFrom DEF ToggleTimer
  <2>2. ~Closes /\ ~OpensAlone /\ ~Rests
    BY <2>1, EmptySeq DEF Operates, Closes, OpensAlone, Opens, Rests
  <2> QED
    BY <1>1, <1>3, <2>1, <2>2, SameStack DEF ToggleTimer, CInv, Facts, Current
<1> QED
  BY <1>1, <1>2, <1>3, AppCallShape, CallReturnsShape DEF CInv, Next

(* CInv is an invariant of the balanced camera.                             *)
LEMMA CInvHolds ==
  ASSUME Balanced
  PROVE  Spec => []CInv
<1>1. Init => CInv
  BY TypeInit, ConfigInit DEF CInv
<1>2. CInv /\ [Next]_vars => CInv'
  BY CInvStep
<1> QED
  BY <1>1, <1>2, PTL DEF Spec

(* gp_camera_free happens once and last, also when gp_camera_unref or a     *)
(* postponed exit decides it from inside a call: no call is left inside the *)
(* camera, no reference, no driver, no open port, no timer.                 *)
THEOREM FreeingIsLast ==
  ASSUME Balanced
  PROVE  Spec => []FreeIsLast
<1>1. CInv => FreeIsLast
  BY DEF CInv, Facts
<1> QED
  BY <1>1, CInvHolds, PTL

(* No keepalive timer, whose function is code of the driver library, is     *)
(* pending without that library, since gp_camera_exit removes the timers    *)
(* before it unloads, at once or postponed.                                 *)
THEOREM TimersNeedDriver ==
  ASSUME Balanced
  PROVE  Spec => []TimersHaveDriver
<1>1. CInv => TimersHaveDriver
  BY DEF CInv, Facts
<1> QED
  BY <1>1, CInvHolds, PTL

(* A gp_camera_exit that found the camera busy has been performed by the    *)
(* time the last call has returned (CAMERA_UNUSED), whatever the            *)
(* application did from the callbacks in between.                           *)
THEOREM RequestedExitHappens ==
  ASSUME Balanced
  PROVE  Spec => []IdleExitIsPerformed
<1>1. CInv => IdleExitIsPerformed
  BY EmptySeq
     DEF CInv, Shape, Rests, OpensAlone, OpensToOperate, Opens, Operates, Closes, Facts, IdleExitIsPerformed
<1> QED
  BY <1>1, CInvHolds, PTL

(* Abilities replaced under a running operation (gp_camera_set_abilities)   *)
(* never leave a resting camera with the driver of the old ones.            *)
THEOREM RightDriverAtRest ==
  ASSUME Balanced
  PROVE  Spec => []SettledDriverMatchesAbilities
<1>1. CInv => SettledDriverMatchesAbilities
  BY EmptySeq
     DEF CInv, Shape, Rests, OpensAlone, OpensToOperate, Opens, Operates, Closes, Facts, Current,
         SettledDriverMatchesAbilities
<1> QED
  BY <1>1, CInvHolds, PTL

(* The shapes decide the count: one operation at most, one call in the      *)
(* driver at most.                                                          *)
LEMMA Counting ==
  ASSUME CInv
  PROVE  UsedCountsOperations /\ DriverNotReentered
<1> DEFINE Operations == {i \in DOMAIN stack : stack[i].fn = "operation"}
           Driving    == {i \in DOMAIN stack : stack[i].at = "driver"}
<1>1. DOMAIN stack = 1..Len(stack) /\ Len(stack) \in {0, 1, 2}
  BY EmptySeq DEF CInv, TypeOK, Shape, Rests, OpensAlone, OpensToOperate, Opens, Operates, Closes
<1>2. /\ Cardinality({}) = 0 /\ \A i : Cardinality({i}) = 1
  BY FS_EmptySet, FS_Singleton
<1>3. \/ used = 0 /\ Operations = {}
      \/ used = 1 /\ Operations = {1}
  <2>1. CASE Rests \/ OpensAlone \/ Closes
    BY <1>1, <2>1, EmptySeq DEF Rests, OpensAlone, Opens, Closes
  <2>2. CASE Operates
    BY <1>1, <2>2 DEF Operates
  <2>3. CASE OpensToOperate
    BY <1>1, <2>3 DEF OpensToOperate, Opens
  <2> QED
    BY <2>1, <2>2, <2>3 DEF CInv, Shape
<1>4. Driving = {} \/ \E i : Driving = {i}
  <2>1. CASE Rests
    BY <1>1, <2>1, EmptySeq DEF Rests
  <2>2. CASE OpensAlone \/ Operates \/ Closes
    BY <1>1, <2>2 DEF OpensAlone, Opens, Operates, Closes
  <2>3. CASE OpensToOperate
    BY <1>1, <2>3 DEF OpensToOperate, Opens
  <2> QED
    BY <2>1, <2>2, <2>3 DEF CInv, Shape
<1>5. Cardinality(Operations) = used
  BY <1>2, <1>3
<1>6. Cardinality(Driving) <= 1
  <2>1. CASE Driving = {}
    BY <1>2, <2>1
  <2>2. CASE \E i : Driving = {i}
    <3>1. Cardinality(Driving) = 1
      <4> HIDE DEF Driving
      <4> QED
        BY <1>2, <2>2, Zenon
    <3> QED
      BY <3>1
  <2> QED
    BY <1>4, <2>1, <2>2
<1> QED
  BY <1>5, <1>6 DEF UsedCountsOperations, DriverNotReentered

(* The busy counter equals the number of operations in progress, and at     *)
(* most one library call at a time is inside the driver, although the       *)
(* application calls back into the library (CHECK_INIT against              *)
(* CAMERA_UNUSED).                                                          *)
THEOREM BusyCountIsExact ==
  ASSUME Balanced
  PROVE  Spec => [](UsedCountsOperations /\ DriverNotReentered)
<1>1. CInv => UsedCountsOperations /\ DriverNotReentered
  BY Counting
<1> QED
  BY <1>1, CInvHolds, PTL

(* The driver library is not unloaded under a call that has driver code to  *)
(* return to: gp_camera_exit waits for the busy counter, and a              *)
(* gp_camera_init that fails unloads under an operation that has not        *)
(* entered the driver yet.                                                  *)
THEOREM DriverIsNotPulledAway ==
  ASSUME Balanced
  PROVE  Spec => DriverOutlivesItsCalls
<1>1. CInv => \A i \in 1..(Len(stack) - 1) : stack[i].at # "driver"
  <2> SUFFICES ASSUME CInv, NEW i \in 1..(Len(stack) - 1) PROVE stack[i].at # "driver"
    OBVIOUS
  <2>1. CASE Rests
    <3>1. Len(stack) = 0
      BY <2>1, EmptySeq DEF Rests
    <3> QED
      BY <3>1
  <2>2. CASE OpensAlone \/ Operates \/ Closes
    <3>1. Len(stack) = 1
      BY <2>2 DEF OpensAlone, Opens, Operates, Closes
    <3> QED
      BY <3>1
  <2>3. CASE OpensToOperate
    <3>1. Len(stack) = 2 /\ stack[1].at = "init"
      BY <2>3 DEF OpensToOperate, Opens
    <3>2. i = 1
      BY <3>1
    <3> QED
      BY <3>1, <3>2
  <2> QED
    BY <2>1, <2>2, <2>3 DEF CInv, Shape
<1>2. CInv => [lh # NoDriver /\ lh' = NoDriver
                 => \A i \in 1..(Len(stack) - 1) : stack[i].at # "driver"]_vars
  BY <1>1
<1> QED
  BY <1>2, CInvHolds, PTL DEF DriverOutlivesItsCalls
=============================================================================
