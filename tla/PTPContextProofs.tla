-------------------------- MODULE PTPContextProofs --------------------------
(***************************************************************************)
(* Proofs about PTPContext for any threads, addresses, table size and      *)
(* generation count: the types; that an operation gets its own context,    *)
(* unless its thread's table is full, and so always if the table has a     *)
(* slot for every owner address; that a bound context is never freed, and  *)
(* a freed one never retained, whichever unref the application has; and,   *)
(* when that is the atomic one of gphoto2-context.c, that the counts are   *)
(* exact.                                                                  *)
(*                                                                         *)
(* The induction rests on an account of every reference count: it covers   *)
(* the references that are held (Covered), exactly so without the plain    *)
(* unref (RefsAccounted).  That it does not reach zero under a binding is  *)
(* a consequence, not an inductive fact.                                   *)
(***************************************************************************)
EXTENDS PTPContext, FiniteSetTheorems, TLAPS

(* The account: finitely many bindings, and both ledgers exact.             *)
Account == IsFiniteSet(bindings) /\ RefsAccounted /\ LedgerExact

(* Without the application's load-and-store unref nothing is ever loaded.   *)
NothingLoaded == loaded = [c \in Contexts |-> {}]

IInv == TypeOK /\ Account /\ NothingLoaded

-----------------------------------------------------------------------------
LEMMA GenerationIsTyped ==
  ASSUME next_generation \in Gen
  PROVE  NextGeneration \in Gen
BY ContextAssumption DEF NextGeneration, Gen

LEMMA NewBindingIsTyped ==
  ASSUME TypeOK, NEW t \in Threads
  PROVE  NewBinding(t) \in Binding
BY DEF TypeOK, NewBinding, Binding, Op

(* TypeOK is inductive by itself.                                           *)
LEMMA TypeInit == Init => TypeOK
BY ContextAssumption DEF Init, TypeOK, Gen

LEMMA DroppingType ==
  ASSUME TypeOK, NEW b \in bindings, Dropping(b), UNCHANGED pc
  PROVE  TypeOK'
BY DEF TypeOK, Dropping, Binding

LEMMA AppStepType ==
  ASSUME TypeOK, NEW c \in Contexts, AppStep(c)
  PROVE  TypeOK'
<1>1. CASE AppNew(c)
  BY <1>1 DEF TypeOK, AppNew
<1>2. CASE AppUnref(c)
  BY <1>2 DEF TypeOK, AppUnref
<1>3. CASE AppLoad(c)
  BY <1>3 DEF TypeOK, AppLoad
<1>4. CASE AppStore(c)
  BY <1>4 DEF TypeOK, AppStore
<1> QED
  BY <1>1, <1>2, <1>3, <1>4 DEF AppStep

LEMMA ThreadStepType ==
  ASSUME TypeOK, NEW t \in Threads, ThreadStep(t)
  PROVE  TypeOK'
<1>1. ASSUME NEW o \in Owners, NEW c \in Contexts, NEW last \in BOOLEAN,
             Enter(t, o, c, last)
      PROVE  TypeOK'
  BY <1>1 DEF TypeOK, Enter, Op
<1>2. CASE Reclaim(t) \/ Clear(t) \/ Drain(t)
  <2>1. PICK b \in bindings : Dropping(b)
    BY <1>2 DEF Reclaim, Clear, Drain, Stale, Matching, OfOwner, Table
  <2>2. UNCHANGED pc
    BY <1>2 DEF Reclaim, Clear, Drain
  <2> QED
    BY <2>1, <2>2, DroppingType
<1>3. CASE Bind(t)
  BY <1>3, NewBindingIsTyped DEF TypeOK, Bind, StoreBinding, Op
<1>4. CASE Return(t) \/ StartClear(t) \/ ReleaseThread(t) \/ Drained(t)
  BY <1>4 DEF TypeOK, Return, StartClear, ReleaseThread, Drained
<1>5. CASE Cleared(t)
  BY <1>5, ContextAssumption DEF TypeOK, Cleared, Op, Gen
<1> QED
  BY <1>1, <1>2, <1>3, <1>4, <1>5 DEF ThreadStep

LEMMA OwnerInitType ==
  ASSUME TypeOK, NEW o \in Owners, OwnerInit(o)
  PROVE  TypeOK'
BY GenerationIsTyped DEF TypeOK, OwnerInit

LEMMA TypeStep == TypeOK /\ [Next]_vars => TypeOK'
<1> SUFFICES ASSUME TypeOK, [Next]_vars
             PROVE  TypeOK'
  OBVIOUS
<1>1. CASE UNCHANGED vars
  BY <1>1 DEF vars, TypeOK
<1> QED
  BY <1>1, AppStepType, ThreadStepType, OwnerInitType DEF Next

(* Every variable keeps its type, whichever unref the application has.      *)
THEOREM TypeCorrect == Spec => []TypeOK
BY TypeInit, TypeStep, PTL DEF Spec
-----------------------------------------------------------------------------
(* The bindings that hold context c.                                        *)
Holding(c) == {b \in bindings : b.ctx = c}

LEMMA AccountInit == Init => Account /\ NothingLoaded
<1> SUFFICES ASSUME Init PROVE Account /\ NothingLoaded
  OBVIOUS
<1>1. IsFiniteSet(bindings) /\ Cardinality(bindings) = 0
  BY FS_EmptySet DEF Init
<1>2. \A c \in Contexts : {b \in bindings : b.ctx = c} = {}
  BY DEF Init
<1> QED
  BY <1>1, <1>2, FS_EmptySet DEF Init, Account, RefsAccounted, LedgerExact, NothingLoaded

(* Giving one binding back takes one reference and one ledger entry.        *)
LEMMA DroppingAccount ==
  ASSUME IInv, NEW b \in bindings, Dropping(b)
  PROVE  Account' /\ NothingLoaded'
<1>1. b \in Binding /\ b.ctx \in Contexts
  BY DEF IInv, TypeOK, Binding
<1>2. /\ IsFiniteSet(bindings') /\ bindings' = bindings \ {b}
      /\ Cardinality(bindings') = Cardinality(bindings) - 1
  BY FS_RemoveElement DEF IInv, Account, Dropping
<1>3. ASSUME NEW c \in Contexts
      PROVE  ref_count'[c] = (IF c \in app' THEN 1 ELSE 0) + Cardinality(Holding(c)')
  <2>1. IsFiniteSet(Holding(c)) /\ Cardinality(Holding(c)) \in Nat
    BY FS_Subset, FS_CardinalityType DEF IInv, Account, Holding
  <2>2. ref_count[c] = (IF c \in app THEN 1 ELSE 0) + Cardinality(Holding(c))
    BY DEF IInv, Account, RefsAccounted, Holding
  <2>3. CASE c = b.ctx
    <3>1. Holding(c)' = Holding(c) \ {b} /\ b \in Holding(c)
      BY <2>3, <1>2 DEF Holding
    <3>2. Cardinality(Holding(c)') = Cardinality(Holding(c)) - 1
      BY <3>1, <2>1, FS_RemoveElement
    <3> QED
      BY <3>2, <2>1, <2>2, <2>3 DEF Dropping, IInv, TypeOK
  <2>4. CASE c # b.ctx
    <3>1. Holding(c)' = Holding(c)
      BY <2>4, <1>2 DEF Holding
    <3> QED
      BY <3>1, <2>2, <2>4 DEF Dropping, IInv, TypeOK
  <2> QED
    BY <2>3, <2>4
<1>4. RefsAccounted'
  BY <1>3 DEF RefsAccounted, Holding
<1>5. LedgerExact'
  BY <1>2 DEF LedgerExact, Dropping, IInv, Account
<1> QED
  BY <1>2, <1>4, <1>5 DEF Account, Dropping, IInv, NothingLoaded

(* Storing a binding that is not there takes one of each.                   *)
LEMMA StoringAccount ==
  ASSUME IInv, NEW t \in Threads, NewBinding(t) \notin bindings, StoreBinding(t),
         UNCHANGED <<app, loaded>>
  PROVE  Account' /\ NothingLoaded'
<1> DEFINE n == NewBinding(t)
<1>1. n \in Binding /\ n.ctx = op[t].ctx /\ op[t].ctx \in Contexts
  BY NewBindingIsTyped DEF IInv, TypeOK, NewBinding, Op
<1>2. /\ IsFiniteSet(bindings') /\ bindings' = bindings \cup {n}
      /\ Cardinality(bindings') = Cardinality(bindings) + 1
  BY FS_AddElement DEF IInv, Account, StoreBinding
<1> HIDE DEF n
<1>3. ASSUME NEW c \in Contexts
      PROVE  ref_count'[c] = (IF c \in app' THEN 1 ELSE 0) + Cardinality(Holding(c)')
  <2>1. IsFiniteSet(Holding(c)) /\ Cardinality(Holding(c)) \in Nat
    BY FS_Subset, FS_CardinalityType DEF IInv, Account, Holding
  <2>2. ref_count[c] = (IF c \in app THEN 1 ELSE 0) + Cardinality(Holding(c))
    BY DEF IInv, Account, RefsAccounted, Holding
  <2>3. CASE c = n.ctx
    <3>1. Holding(c)' = Holding(c) \cup {n} /\ n \notin Holding(c)
      BY <2>3, <1>2 DEF Holding, n
    <3>2. Cardinality(Holding(c)') = Cardinality(Holding(c)) + 1
      BY <3>1, <2>1, FS_AddElement
    <3> QED
      BY <3>2, <2>1, <2>2, <2>3, <1>1 DEF StoreBinding, IInv, TypeOK
  <2>4. CASE c # n.ctx
    <3>1. Holding(c)' = Holding(c)
      BY <2>4, <1>2 DEF Holding
    <3> QED
      BY <3>1, <2>2, <2>4, <1>1 DEF StoreBinding, IInv, TypeOK
  <2> QED
    BY <2>3, <2>4
<1>4. RefsAccounted'
  BY <1>3 DEF RefsAccounted, Holding
<1>5. LedgerExact'
  BY <1>2 DEF LedgerExact, StoreBinding, IInv, Account
<1> QED
  BY <1>2, <1>4, <1>5 DEF Account, IInv, NothingLoaded

(* Steps that touch neither bindings nor counts.                            *)
LEMMA UntouchedAccount ==
  ASSUME IInv, UNCHANGED <<bindings, ref_count, held_refs, app, loaded>>
  PROVE  Account' /\ NothingLoaded'
BY DEF IInv, Account, RefsAccounted, LedgerExact, NothingLoaded

(* The application takes and gives back its own reference.                  *)
LEMMA AppStepAccount ==
  ASSUME IInv, ~PlainUnref, NEW c \in Contexts, AppStep(c)
  PROVE  Account' /\ NothingLoaded'
<1>1. AppNew(c) \/ AppUnref(c)
  BY DEF AppStep, AppLoad, AppStore, IInv, NothingLoaded
<1>2. /\ UNCHANGED <<bindings, held_refs, loaded>>
      /\ \A d \in Contexts : d # c => ref_count'[d] = ref_count[d] /\ (d \in app' <=> d \in app)
  BY <1>1 DEF AppNew, AppUnref, IInv, TypeOK
<1>3. \A d \in Contexts : Cardinality({b \in bindings : b.ctx = d}) \in Nat
  BY FS_Subset, FS_CardinalityType DEF IInv, Account
<1>4. ref_count'[c] = (IF c \in app' THEN 1 ELSE 0)
                         + Cardinality({b \in bindings : b.ctx = c})
  BY <1>1, <1>3 DEF AppNew, AppUnref, IInv, TypeOK, Account, RefsAccounted
<1>5. RefsAccounted'
  BY <1>2, <1>4 DEF RefsAccounted, IInv, Account
<1> QED
  BY <1>2, <1>5 DEF Account, LedgerExact, IInv, NothingLoaded

LEMMA ThreadStepAccount ==
  ASSUME IInv, NEW t \in Threads, ThreadStep(t)
  PROVE  Account' /\ NothingLoaded'
<1>1. CASE Reclaim(t) \/ Clear(t) \/ Drain(t)
  <2>1. PICK b \in bindings : Dropping(b)
    BY <1>1 DEF Reclaim, Clear, Drain, Stale, Matching, OfOwner, Table
  <2> QED
    BY <2>1, DroppingAccount
<1>2. CASE Bind(t)
  <2>1. CASE Matching(t) = {} /\ Cardinality(Table(t)) < NSlots
    <3>1. NewBinding(t) \notin bindings
      BY <2>1 DEF Matching, OfOwner, NewBinding
    <3> QED
      BY <1>2, <2>1, <3>1, StoringAccount DEF Bind
  <2>2. CASE ~(Matching(t) = {} /\ Cardinality(Table(t)) < NSlots)
    BY <1>2, <2>2, UntouchedAccount DEF Bind
  <2> QED
    BY <2>1, <2>2
<1>3. CASE \/ \E o \in Owners, c \in Contexts, last \in BOOLEAN : Enter(t, o, c, last)
           \/ Return(t) \/ StartClear(t) \/ Cleared(t)
           \/ ReleaseThread(t) \/ Drained(t)
  BY <1>3, UntouchedAccount
     DEF Enter, Return, StartClear, Cleared, ReleaseThread, Drained
<1> QED
  BY <1>1, <1>2, <1>3 DEF ThreadStep

LEMMA InvStep == ~PlainUnref /\ IInv /\ [Next]_vars => IInv'
<1> SUFFICES ASSUME ~PlainUnref, IInv, [Next]_vars PROVE IInv'
  OBVIOUS
<1>1. TypeOK'
  BY TypeStep DEF IInv
<1>2. CASE UNCHANGED vars
  BY <1>2, UntouchedAccount, <1>1 DEF vars, IInv
<1>3. ASSUME NEW o \in Owners, OwnerInit(o) PROVE Account' /\ NothingLoaded'
  BY <1>3, UntouchedAccount DEF OwnerInit
<1> QED
  BY <1>1, <1>2, <1>3, AppStepAccount, ThreadStepAccount DEF Next, IInv

LEMMA InvHolds ==
  ASSUME ~PlainUnref
  PROVE  Spec => []IInv
<1>1. Init => IInv
  BY TypeInit, AccountInit DEF IInv
<1>2. IInv /\ [Next]_vars => IInv'
  BY InvStep
<1> QED
  BY <1>1, <1>2, PTL DEF Spec

(* Every reference count is the application's reference plus the bindings,  *)
(* whatever steps of whatever threads interleave.                           *)
THEOREM CountsAreExact ==
  ASSUME ~PlainUnref
  PROVE  Spec => [](RefsAccounted /\ LedgerExact)
<1>1. IInv => RefsAccounted /\ LedgerExact
  BY DEF IInv, Account
<1> QED
  BY <1>1, InvHolds, PTL

(* Nobody's context is freed: once neither the application nor a binding    *)
(* refers to it the count is zero.                                          *)
THEOREM UnreferencedAreFreed ==
  ASSUME ~PlainUnref
  PROVE  Spec => []UnreferencedIsFreed
<1>1. ASSUME IInv, NEW c \in Contexts, c \notin app, \A b \in bindings : b.ctx # c
      PROVE  ref_count[c] = 0
  <2>1. {b \in bindings : b.ctx = c} = {}
    BY <1>1
  <2> QED
    BY <1>1, <2>1, FS_EmptySet DEF IInv, Account, RefsAccounted
<1>2. IInv => UnreferencedIsFreed
  BY <1>1 DEF UnreferencedIsFreed
<1> QED
  BY <1>2, InvHolds, PTL
-----------------------------------------------------------------------------
(* Which context an operation gets back needs no account of the counts, so  *)
(* it holds with either unref.  It needs that a camera in use is open, and  *)
(* that a closing camera is used by the closing thread alone.               *)
Active(t) == pc[t] \in {"set", "run", "clear"}

InUseIsOpen == \A t \in Threads : Active(t) => generation[op[t].owner] # 0

ClosedAlone ==
  \A t, u \in Threads :
    t # u /\ Active(t) /\ Active(u) /\ op[t].owner = op[u].owner => ~op[t].last

TInv == TypeOK /\ OneBindingPerOwner /\ GetsOwnContext /\ InUseIsOpen /\ ClosedAlone

LEMMA TInvInit == Init => TInv
BY TypeInit
   DEF Init, TInv, OneBindingPerOwner, GetsOwnContext, InUseIsOpen, ClosedAlone, Active

(* Taking bindings away disturbs none of it.                                *)
LEMMA DroppingTables ==
  ASSUME TInv, NEW b \in bindings, Dropping(b), UNCHANGED pc
  PROVE  TInv'
<1>1. TypeOK'
  BY DroppingType DEF TInv
<1>2. bindings' \subseteq bindings /\ UNCHANGED <<generation, op, pc>>
  BY DEF Dropping
<1>3. OneBindingPerOwner'
  BY <1>2 DEF TInv, OneBindingPerOwner
<1>4. GetsOwnContext'
  BY <1>2 DEF TInv, GetsOwnContext, Got, Matching, OfOwner
<1>5. InUseIsOpen' /\ ClosedAlone'
  BY <1>2 DEF TInv, InUseIsOpen, ClosedAlone, Active
<1> QED
  BY <1>1, <1>3, <1>4, <1>5 DEF TInv

LEMMA BindTables ==
  ASSUME TInv, NEW t \in Threads, Bind(t)
  PROVE  TInv'
<1>1. TypeOK'
  BY ThreadStepType DEF TInv, ThreadStep
<1>2. /\ UNCHANGED <<generation, op>> /\ pc[t] = "set" /\ Stale(t) = {}
      /\ pc' = [pc EXCEPT ![t] = "run"]
      /\ \/ bindings' = bindings /\ Matching(t) # {}
         \/ bindings' = bindings /\ Matching(t) = {}
         \/ bindings' = bindings \cup {NewBinding(t)} /\ Matching(t) = {}
  BY DEF Bind, StoreBinding
<1>3. Matching(t) = {} => OfOwner(t) = {}
  BY <1>2 DEF Stale
<1>4. OneBindingPerOwner'
  <2> SUFFICES ASSUME NEW a \in bindings', NEW b \in bindings',
                      a.thread = b.thread, a.owner = b.owner
               PROVE  a = b
    BY DEF OneBindingPerOwner
  <2>1. CASE a \in bindings /\ b \in bindings
    BY <2>1 DEF TInv, OneBindingPerOwner
  <2>2. CASE a = NewBinding(t) /\ b = NewBinding(t)
    BY <2>2
  <2>3. ASSUME NEW n \in bindings, n.thread = t, n.owner = op[t].owner, Matching(t) = {}
        PROVE  FALSE
    BY <1>3, <2>3 DEF OfOwner
  <2> QED
    BY <1>2, <2>1, <2>2, <2>3 DEF NewBinding
<1>5. GetsOwnContext'
  <2> SUFFICES ASSUME NEW u \in Threads, pc'[u] = "run",
                      NEW b \in Matching(u)'
               PROVE  b.ctx = op[u].ctx
    BY <1>2 DEF GetsOwnContext, Got
  <2>1. b \in bindings' /\ b.thread = u /\ b.owner = op[u].owner /\ b.gen = generation[op[u].owner]
    BY <1>2 DEF Matching, OfOwner
  <2>2. CASE b = NewBinding(t)
    BY <2>1, <2>2 DEF NewBinding
  <2>3. CASE b \in bindings
    <3>1. b \in Matching(u)
      BY <2>1, <2>3 DEF Matching, OfOwner
    <3>2. CASE u = t
      BY <1>2, <3>1, <3>2 DEF Stale
    <3>3. CASE u # t
      <4>1. pc[u] = "run"
        BY <1>2, <3>3 DEF TInv, TypeOK
      <4> QED
        BY <3>1, <4>1 DEF TInv, GetsOwnContext, Got
    <3> QED
      BY <3>2, <3>3
  <2> QED
    BY <1>2, <2>1, <2>2, <2>3
<1>6. InUseIsOpen' /\ ClosedAlone'
  BY <1>2 DEF TInv, TypeOK, InUseIsOpen, ClosedAlone, Active
<1> QED
  BY <1>1, <1>4, <1>5, <1>6 DEF TInv

(* A thread enters: no other thread is closing the camera, and it closes it *)
(* itself only when no other thread uses it.                                *)
LEMMA EnterTables ==
  ASSUME TInv, NEW t \in Threads, NEW o \in Owners, NEW c \in Contexts,
         NEW last \in BOOLEAN, Enter(t, o, c, last)
  PROVE  TInv'
<1>1. TypeOK'
  BY ThreadStepType DEF TInv, ThreadStep
<1>2. /\ UNCHANGED <<bindings, generation>> /\ generation[o] # 0 /\ pc[t] = "idle"
      /\ pc'[t] = "set" /\ op'[t] = [owner |-> o, ctx |-> c, last |-> last]
      /\ \A u \in Threads : u # t => pc'[u] = pc[u] /\ op'[u] = op[u]
      /\ \A u \in Threads : Active(u) /\ op[u].owner = o => ~last /\ ~op[u].last
  BY DEF Enter, TInv, TypeOK, Active
<1>3. OneBindingPerOwner'
  BY <1>2 DEF TInv, OneBindingPerOwner
<1>4. GetsOwnContext'
  BY <1>2 DEF TInv, GetsOwnContext, Got, Matching, OfOwner
<1>5. InUseIsOpen'
  BY <1>2 DEF TInv, InUseIsOpen, Active
<1>6. ClosedAlone'
  BY <1>2 DEF TInv, ClosedAlone, Active
<1> QED
  BY <1>1, <1>3, <1>4, <1>5, <1>6 DEF TInv

(* Steps on which no operation begins and no PTPData comes or goes.         *)
LEMMA QuietTables ==
  ASSUME TInv, TypeOK', UNCHANGED <<bindings, generation, op>>,
         \A t \in Threads : /\ Active(t)' => Active(t)
                            /\ pc'[t] = "run" => pc[t] = "run"
  PROVE  TInv'
BY DEF TInv, OneBindingPerOwner, GetsOwnContext, Got, Matching, OfOwner,
       InUseIsOpen, ClosedAlone, Active

LEMMA ClearedTables ==
  ASSUME TInv, NEW t \in Threads, Cleared(t)
  PROVE  TInv'
<1>1. TypeOK'
  BY ThreadStepType DEF TInv, ThreadStep
<1>2. /\ UNCHANGED <<bindings, op>> /\ pc[t] = "clear" /\ pc'[t] = "idle"
      /\ \A u \in Threads : u # t => pc'[u] = pc[u]
  BY DEF Cleared, TInv, TypeOK
<1>3. ASSUME NEW u \in Threads, Active(u)'
      PROVE  u # t /\ Active(u) /\ generation'[op[u].owner] = generation[op[u].owner]
  <2>1. u # t /\ Active(u) /\ Active(t)
    BY <1>2, <1>3 DEF Active
  <2>2. CASE op[u].owner = op[t].owner
    BY <2>1, <2>2 DEF TInv, ClosedAlone, Cleared
  <2>3. CASE op[u].owner # op[t].owner
    BY <2>3, <2>1 DEF Cleared, TInv, TypeOK, Op
  <2> QED
    BY <2>1, <2>2, <2>3
<1>4. OneBindingPerOwner'
  BY <1>2 DEF TInv, OneBindingPerOwner
<1>5. GetsOwnContext'
  BY <1>2, <1>3 DEF TInv, GetsOwnContext, Got, Matching, OfOwner, Active
<1>6. InUseIsOpen' /\ ClosedAlone'
  BY <1>2, <1>3 DEF TInv, InUseIsOpen, ClosedAlone
<1> QED
  BY <1>1, <1>4, <1>5, <1>6 DEF TInv

(* A PTPData is allocated at an address that no operation uses.             *)
LEMMA OwnerInitTables ==
  ASSUME TInv, NEW o \in Owners, OwnerInit(o)
  PROVE  TInv'
<1>1. TypeOK'
  BY OwnerInitType DEF TInv
<1>2. UNCHANGED <<bindings, op, pc>>
  BY DEF OwnerInit
<1>3. ASSUME NEW u \in Threads, Active(u)
      PROVE  generation'[op[u].owner] = generation[op[u].owner]
  BY <1>3 DEF TInv, InUseIsOpen, OwnerInit, TypeOK, Op
<1>4. OneBindingPerOwner'
  BY <1>2 DEF TInv, OneBindingPerOwner
<1>5. GetsOwnContext'
  BY <1>2, <1>3 DEF TInv, GetsOwnContext, Got, Matching, OfOwner, Active
<1>6. InUseIsOpen' /\ ClosedAlone'
  BY <1>2, <1>3 DEF TInv, InUseIsOpen, ClosedAlone, Active
<1> QED
  BY <1>1, <1>4, <1>5, <1>6 DEF TInv

LEMMA ThreadStepTables ==
  ASSUME TInv, NEW t \in Threads, ThreadStep(t)
  PROVE  TInv'
<1>1. CASE Reclaim(t) \/ Clear(t) \/ Drain(t)
  <2>1. PICK b \in bindings : Dropping(b)
    BY <1>1 DEF Reclaim, Clear, Drain, Stale, Matching, OfOwner, Table
  <2>2. UNCHANGED pc
    BY <1>1 DEF Reclaim, Clear, Drain
  <2> QED
    BY <2>1, <2>2, DroppingTables
<1>2. CASE Return(t) \/ StartClear(t) \/ ReleaseThread(t) \/ Drained(t)
  <2>1. TypeOK'
    BY ThreadStepType DEF TInv
  <2>2. UNCHANGED <<bindings, generation, op>>
    BY <1>2 DEF Return, StartClear, ReleaseThread, Drained
  <2>3. ASSUME NEW u \in Threads
        PROVE  (Active(u)' => Active(u)) /\ (pc'[u] = "run" => pc[u] = "run")
    BY <1>2 DEF TInv, TypeOK, Active, Return, StartClear, ReleaseThread, Drained
  <2> QED
    BY <2>1, <2>2, <2>3, QuietTables
<1> QED
  BY <1>1, <1>2, BindTables, EnterTables, ClearedTables DEF ThreadStep

LEMMA TInvStep == TInv /\ [Next]_vars => TInv'
<1> SUFFICES ASSUME TInv, [Next]_vars PROVE TInv'
  OBVIOUS
<1>1. TypeOK'
  BY TypeStep DEF TInv
<1>2. CASE UNCHANGED vars
  BY <1>1, <1>2, QuietTables DEF vars, Active
<1>3. ASSUME NEW c \in Contexts, AppStep(c) PROVE TInv'
  <2>1. UNCHANGED <<bindings, generation, op, pc>>
    BY <1>3 DEF AppStep, AppNew, AppUnref, AppLoad, AppStore
  <2> QED
    BY <1>1, <2>1, QuietTables DEF Active
<1> QED
  BY <1>2, <1>3, ThreadStepTables, OwnerInitTables DEF Next

LEMMA TInvHolds == Spec => []TInv
BY TInvInit, TInvStep, PTL DEF Spec

(* Transport code is handed its own operation's context or none, in every   *)
(* interleaving and after any number of reconnects and generation wraps.    *)
THEOREM OwnContextOnly == Spec => []GetsOwnContext
<1>1. TInv => GetsOwnContext
  BY DEF TInv
<1> QED
  BY <1>1, TInvHolds, PTL

(* A thread's table never holds two lifetimes of one owner address.         *)
THEOREM OneLifetimePerAddress == Spec => []OneBindingPerOwner
<1>1. TInv => OneBindingPerOwner
  BY DEF TInv
<1> QED
  BY <1>1, TInvHolds, PTL

-----------------------------------------------------------------------------
(* The window before the reference is taken: the caller still holds its own. *)
CallerHolds == \A t \in Threads : pc[t] = "set" => op[t].ctx \in app

LEMMA CallerHoldsStep == TypeOK /\ CallerHolds /\ [Next]_vars => CallerHolds'
<1> SUFFICES ASSUME TypeOK, CallerHolds, [Next]_vars PROVE CallerHolds'
  OBVIOUS
<1>1. CASE UNCHANGED vars
  BY <1>1 DEF vars, CallerHolds
<1>2. ASSUME NEW c \in Contexts, AppStep(c) PROVE CallerHolds'
  BY <1>2 DEF AppStep, AppNew, AppUnref, AppLoad, AppStore, InWindow, CallerHolds
<1>3. ASSUME NEW t \in Threads, ThreadStep(t) PROVE CallerHolds'
  <2>1. ASSUME NEW o \in Owners, NEW c \in Contexts, NEW last \in BOOLEAN,
               Enter(t, o, c, last)
        PROVE  CallerHolds'
    BY <2>1 DEF Enter, TypeOK, CallerHolds
  <2>2. CASE Reclaim(t) \/ Clear(t) \/ Drain(t)
    BY <2>2 DEF Reclaim, Clear, Drain, Dropping, CallerHolds
  <2>3. CASE Bind(t) \/ Return(t) \/ StartClear(t) \/ Cleared(t)
             \/ ReleaseThread(t) \/ Drained(t)
    <3>1. /\ UNCHANGED <<app, op>>
          /\ \A u \in Threads : pc'[u] = "set" => pc[u] = "set"
      BY <2>3 DEF TypeOK, Bind, Return, StartClear, Cleared, ReleaseThread, Drained
    <3> QED
      BY <3>1 DEF CallerHolds
  <2> QED
    BY <1>3, <2>1, <2>2, <2>3 DEF ThreadStep
<1>4. ASSUME NEW o \in Owners, OwnerInit(o) PROVE CallerHolds'
  BY <1>4 DEF OwnerInit, CallerHolds
<1> QED
  BY <1>1, <1>2, <1>3, <1>4 DEF Next
-----------------------------------------------------------------------------
(* With the plain unref a count may stay too high, as its store takes back  *)
(* what the driver did since its load; but it is never too low.  A context  *)
(* is handed to no thread once its last holder has loaded, so that between  *)
(* load and store bindings of it are only given back.                       *)
Kept(c) == c \in app \/ loaded[c] # {}

Covered ==
  \A c \in Contexts :
    /\ ref_count[c] >= (IF Kept(c) THEN 1 ELSE 0) + Cardinality(Holding(c))
    /\ \A n \in loaded[c] : c \notin app /\ n >= Cardinality(Holding(c))

CInv == TypeOK /\ IsFiniteSet(bindings) /\ LedgerExact /\ CallerHolds /\ Covered

LEMMA CInvInit == Init => CInv
<1> SUFFICES ASSUME Init PROVE CInv
  OBVIOUS
<1>1. \A c \in Contexts : Holding(c) = {}
  BY DEF Init, Holding
<1>2. IsFiniteSet(bindings) /\ LedgerExact
  BY FS_EmptySet DEF Init, LedgerExact
<1>3. CallerHolds
  BY DEF Init, CallerHolds
<1>4. Covered
  <2>1. \A c \in Contexts : ref_count[c] = 0 /\ ~Kept(c) /\ loaded[c] = {}
    BY DEF Init, Kept
  <2>. QED  BY <1>1, <2>1, FS_EmptySet DEF Covered
<1> QED
  BY <1>2, <1>3, <1>4, TypeInit DEF CInv

LEMMA HoldingIsFinite ==
  ASSUME CInv, NEW c
  PROVE  IsFiniteSet(Holding(c)) /\ Cardinality(Holding(c)) \in Nat
BY FS_Subset, FS_CardinalityType DEF CInv, Holding

LEMMA DroppingCovered ==
  ASSUME CInv, NEW b \in bindings, Dropping(b)
  PROVE  IsFiniteSet(bindings') /\ LedgerExact' /\ Covered'
<1>1. b \in Binding /\ b.ctx \in Contexts
  BY DEF CInv, TypeOK, Binding
<1>2. /\ IsFiniteSet(bindings') /\ bindings' = bindings \ {b}
      /\ Cardinality(bindings') = Cardinality(bindings) - 1
  BY FS_RemoveElement DEF CInv, Dropping
<1>3. LedgerExact'
  BY <1>2 DEF LedgerExact, Dropping, CInv
<1>4. ASSUME NEW c \in Contexts
      PROVE  /\ ref_count'[c] >= (IF Kept(c)' THEN 1 ELSE 0) + Cardinality(Holding(c)')
             /\ \A n \in loaded'[c] : c \notin app' /\ n >= Cardinality(Holding(c)')
  <2>1. Kept(c)' = Kept(c) /\ loaded' = loaded /\ app' = app
    BY DEF Kept, Dropping
  <2>2. /\ Cardinality(Holding(c)) \in Nat /\ ref_count[c] \in Int /\ loaded[c] \subseteq Int
        /\ ref_count[c] >= (IF Kept(c) THEN 1 ELSE 0) + Cardinality(Holding(c))
        /\ \A n \in loaded[c] : c \notin app /\ n >= Cardinality(Holding(c))
    BY HoldingIsFinite DEF CInv, TypeOK, Covered
  <2>3. CASE c = b.ctx
    <3>1. Holding(c)' = Holding(c) \ {b} /\ b \in Holding(c)
      BY <2>3, <1>2 DEF Holding
    <3>2. Cardinality(Holding(c)') = Cardinality(Holding(c)) - 1
      BY <3>1, HoldingIsFinite, FS_RemoveElement
    <3>3. ref_count'[c] = ref_count[c] - 1
      BY <2>3 DEF Dropping, CInv, TypeOK
    <3> QED
      BY <3>2, <3>3, <2>1, <2>2
  <2>4. CASE c # b.ctx
    <3>1. Holding(c)' = Holding(c) /\ ref_count'[c] = ref_count[c]
      BY <2>4, <1>2 DEF Holding, Dropping, CInv, TypeOK
    <3> QED
      BY <3>1, <2>1, <2>2
  <2> QED
    BY <2>3, <2>4
<1> QED
  BY <1>2, <1>3, <1>4 DEF Covered

LEMMA StoringCovered ==
  ASSUME CInv, NEW t \in Threads, pc[t] = "set", NewBinding(t) \notin bindings,
         StoreBinding(t), UNCHANGED <<app, loaded>>
  PROVE  IsFiniteSet(bindings') /\ LedgerExact' /\ Covered'
<1> DEFINE m == NewBinding(t)
<1>1. m.ctx = op[t].ctx /\ op[t].ctx \in Contexts /\ op[t].ctx \in app
  BY DEF CInv, TypeOK, NewBinding, Op, CallerHolds
<1>2. /\ IsFiniteSet(bindings') /\ bindings' = bindings \cup {m}
      /\ Cardinality(bindings') = Cardinality(bindings) + 1
  BY FS_AddElement DEF CInv, StoreBinding
<1>3. LedgerExact'
  BY <1>2 DEF LedgerExact, StoreBinding, CInv
<1> HIDE DEF m
<1>4. ASSUME NEW c \in Contexts
      PROVE  /\ ref_count'[c] >= (IF Kept(c)' THEN 1 ELSE 0) + Cardinality(Holding(c)')
             /\ \A n \in loaded'[c] : c \notin app' /\ n >= Cardinality(Holding(c)')
  <2>1. Kept(c)' = Kept(c) /\ loaded' = loaded /\ app' = app
    BY DEF Kept
  <2>2. /\ Cardinality(Holding(c)) \in Nat /\ ref_count[c] \in Int
        /\ ref_count[c] >= (IF Kept(c) THEN 1 ELSE 0) + Cardinality(Holding(c))
        /\ \A n \in loaded[c] : c \notin app /\ n >= Cardinality(Holding(c))
    BY HoldingIsFinite DEF CInv, TypeOK, Covered
  <2>3. CASE c = m.ctx
    <3>1. Holding(c)' = Holding(c) \cup {m} /\ m \notin Holding(c)
      BY <2>3, <1>2 DEF Holding, m
    <3>2. Cardinality(Holding(c)') = Cardinality(Holding(c)) + 1
      BY <3>1, HoldingIsFinite, FS_AddElement
    <3>3. ref_count'[c] = ref_count[c] + 1 /\ loaded[c] = {}
      BY <2>2, <2>3, <1>1 DEF StoreBinding, CInv, TypeOK
    <3> QED
      BY <3>2, <3>3, <2>1, <2>2
  <2>4. CASE c # m.ctx
    <3>1. Holding(c)' = Holding(c) /\ ref_count'[c] = ref_count[c]
      BY <2>4, <1>1, <1>2 DEF Holding, StoreBinding, CInv, TypeOK
    <3> QED
      BY <3>1, <2>1, <2>2
  <2> QED
    BY <2>3, <2>4
<1> QED
  BY <1>2, <1>3, <1>4 DEF Covered

LEMMA UntouchedCovered ==
  ASSUME CInv, UNCHANGED <<bindings, ref_count, held_refs, app, loaded>>
  PROVE  IsFiniteSet(bindings') /\ LedgerExact' /\ Covered'
BY DEF CInv, LedgerExact, Covered, Kept, Holding

(* The application's own reference, by either unref.                        *)
LEMMA AppStepCovered ==
  ASSUME CInv, NEW c \in Contexts, AppStep(c)
  PROVE  IsFiniteSet(bindings') /\ LedgerExact' /\ Covered'
<1>1. UNCHANGED <<bindings, held_refs>>
  BY DEF AppStep, AppNew, AppUnref, AppLoad, AppStore
<1>2. ASSUME NEW d \in Contexts
      PROVE  /\ ref_count'[d] >= (IF Kept(d)' THEN 1 ELSE 0) + Cardinality(Holding(d)')
             /\ \A n \in loaded'[d] : d \notin app' /\ n >= Cardinality(Holding(d)')
  <2>1. Holding(d)' = Holding(d)
    BY <1>1 DEF Holding
  <2>2. /\ Cardinality(Holding(d)) \in Nat /\ ref_count[d] \in Int /\ loaded[d] \subseteq Int
        /\ ref_count[d] >= (IF Kept(d) THEN 1 ELSE 0) + Cardinality(Holding(d))
        /\ \A n \in loaded[d] : d \notin app /\ n >= Cardinality(Holding(d))
    BY HoldingIsFinite DEF CInv, TypeOK, Covered
  <2>3. CASE d # c
    <3>1. /\ ref_count'[d] = ref_count[d] /\ loaded'[d] = loaded[d]
          /\ (d \in app' <=> d \in app)
      BY <2>3 DEF AppStep, AppNew, AppUnref, AppLoad, AppStore, CInv, TypeOK
    <3> QED
      BY <3>1, <2>1, <2>2 DEF Kept
  <2>4. CASE d = c /\ AppNew(c)
    <3>1. /\ ref_count[c] = 0 /\ loaded' = loaded /\ loaded[c] = {}
          /\ ref_count'[c] = 1
      BY <2>4 DEF AppNew, CInv, TypeOK
    <3> QED
      BY <3>1, <2>1, <2>2, <2>4 DEF Kept
  <2>5. CASE d = c /\ AppUnref(c)
    <3>1. /\ c \in app /\ c \notin app' /\ loaded' = loaded
          /\ ref_count'[c] = ref_count[c] - 1
      BY <2>5 DEF AppUnref, CInv, TypeOK
    <3>2. loaded[c] = {}
      BY <3>1, <2>2, <2>5
    <3> QED
      BY <3>1, <3>2, <2>1, <2>2, <2>5 DEF Kept
  <2>6. CASE d = c /\ AppLoad(c)
    <3>1. /\ c \in app /\ c \notin app' /\ loaded'[c] = {ref_count[c] - 1}
          /\ ref_count' = ref_count
      BY <2>6 DEF AppLoad, CInv, TypeOK
    <3> QED
      BY <3>1, <2>1, <2>2, <2>6 DEF Kept
  <2>7. CASE d = c /\ AppStore(c)
    <3>1. PICK n \in loaded[c] : ref_count' = [ref_count EXCEPT ![c] = n]
      BY <2>7 DEF AppStore
    <3>2. ref_count'[c] = n /\ loaded'[c] = {} /\ app' = app
      BY <3>1, <2>7 DEF AppStore, CInv, TypeOK
    <3> QED
      BY <3>1, <3>2, <2>1, <2>2, <2>7 DEF Kept
  <2> QED
    BY <2>3, <2>4, <2>5, <2>6, <2>7 DEF AppStep
<1> QED
  BY <1>1, <1>2 DEF CInv, LedgerExact, Covered

LEMMA ThreadStepCovered ==
  ASSUME CInv, NEW t \in Threads, ThreadStep(t)
  PROVE  IsFiniteSet(bindings') /\ LedgerExact' /\ Covered'
<1>1. CASE Reclaim(t) \/ Clear(t) \/ Drain(t)
  <2>1. PICK b \in bindings : Dropping(b)
    BY <1>1 DEF Reclaim, Clear, Drain, Stale, Matching, OfOwner, Table
  <2> QED
    BY <2>1, DroppingCovered
<1>2. CASE Bind(t)
  <2>1. CASE Matching(t) = {} /\ Cardinality(Table(t)) < NSlots
    <3>1. NewBinding(t) \notin bindings
      BY <2>1 DEF Matching, OfOwner, NewBinding
    <3> QED
      BY <1>2, <2>1, <3>1, StoringCovered DEF Bind
  <2>2. CASE ~(Matching(t) = {} /\ Cardinality(Table(t)) < NSlots)
    BY <1>2, <2>2, UntouchedCovered DEF Bind
  <2> QED
    BY <2>1, <2>2
<1>3. CASE \/ \E o \in Owners, c \in Contexts, last \in BOOLEAN : Enter(t, o, c, last)
           \/ Return(t) \/ StartClear(t) \/ Cleared(t)
           \/ ReleaseThread(t) \/ Drained(t)
  BY <1>3, UntouchedCovered
     DEF Enter, Return, StartClear, Cleared, ReleaseThread, Drained
<1> QED
  BY <1>1, <1>2, <1>3 DEF ThreadStep

LEMMA CInvStep == CInv /\ [Next]_vars => CInv'
<1> SUFFICES ASSUME CInv, [Next]_vars PROVE CInv'
  OBVIOUS
<1>1. TypeOK' /\ CallerHolds'
  BY TypeStep, CallerHoldsStep DEF CInv
<1>2. CASE UNCHANGED vars
  BY <1>1, <1>2, UntouchedCovered DEF vars, CInv
<1>3. ASSUME NEW o \in Owners, OwnerInit(o)
      PROVE  IsFiniteSet(bindings') /\ LedgerExact' /\ Covered'
  BY <1>3, UntouchedCovered DEF OwnerInit
<1> QED
  BY <1>1, <1>2, <1>3, AppStepCovered, ThreadStepCovered DEF Next, CInv

LEMMA CInvHolds == Spec => []CInv
BY CInvInit, CInvStep, PTL DEF Spec

(* What a holder's presence says of a count.                                *)
LEMMA HeldIsCounted ==
  ASSUME CInv
  PROVE  /\ \A c \in Contexts : Kept(c) => ref_count[c] > 0
         /\ \A b \in bindings : b.ctx \in Contexts /\ ref_count[b.ctx] > 0
<1>1. ASSUME NEW c \in Contexts
      PROVE  /\ Cardinality(Holding(c)) \in Nat /\ ref_count[c] \in Int
             /\ ref_count[c] >= (IF Kept(c) THEN 1 ELSE 0) + Cardinality(Holding(c))
  BY HoldingIsFinite DEF CInv, TypeOK, Covered
<1>2. \A c \in Contexts : Kept(c) => ref_count[c] > 0
  BY <1>1
<1>3. ASSUME NEW b \in bindings PROVE b.ctx \in Contexts /\ ref_count[b.ctx] > 0
  <2>1. b.ctx \in Contexts /\ b \in Holding(b.ctx)
    BY DEF CInv, TypeOK, Binding, Holding
  <2>2. Cardinality(Holding(b.ctx)) # 0
    BY <2>1, HoldingIsFinite, FS_EmptySet
  <2> QED
    BY <1>1, <2>1, <2>2
<1> QED
  BY <1>2, <1>3

(* No binding of any thread refers to a freed context: the application's    *)
(* teardown, by either unref, cannot free what a transfer still uses.       *)
THEOREM BoundContextsLive == Spec => []BoundContextAlive
<1>1. CInv => BoundContextAlive
  BY HeldIsCounted DEF BoundContextAlive
<1> QED
  BY <1>1, CInvHolds, PTL

(* The ledger that ptp_context_held_refs reads is exact.                    *)
THEOREM LedgerIsExact == Spec => []LedgerExact
<1>1. CInv => LedgerExact
  BY DEF CInv
<1> QED
  BY <1>1, CInvHolds, PTL

(* No count leaves zero but by the application's allocation: what an        *)
(* operation retains has not been freed, nor does the store of an unref     *)
(* bring back what the driver has freed since its load.                     *)
THEOREM FreedStaysFreed == Spec => NoResurrection
<1> DEFINE Stays == \A c \in Contexts : ref_count[c] = 0 /\ ref_count'[c] # 0
                                           => c \in app' \ app
<1>1. ASSUME CInv, [Next]_vars PROVE [Stays]_vars
  <2> SUFFICES ASSUME Next PROVE Stays
    BY <1>1
  <2>1. ASSUME NEW c \in Contexts, AppStep(c) PROVE Stays
    <3>1. CASE AppStore(c)
      <4>1. Kept(c)
        BY <3>1 DEF AppStore, Kept
      <4>2. ref_count[c] > 0
        BY <1>1, <4>1, HeldIsCounted
      <4> QED
        BY <1>1, <3>1, <4>2 DEF AppStore, CInv, TypeOK
    <3>2. CASE AppNew(c) \/ AppUnref(c) \/ AppLoad(c)
      <4>1. c \in app => ref_count[c] > 0
        BY <1>1, HeldIsCounted DEF Kept
      <4> QED
        BY <1>1, <3>2, <4>1 DEF AppNew, AppUnref, AppLoad, CInv, TypeOK
    <3> QED
      BY <2>1, <3>1, <3>2 DEF AppStep
  <2>2. ASSUME NEW b \in bindings, Dropping(b) PROVE Stays
    BY <1>1, <2>2, HeldIsCounted DEF Dropping, CInv, TypeOK
  <2>3. ASSUME NEW t \in Threads, ThreadStep(t) PROVE Stays
    <3>1. CASE Reclaim(t) \/ Clear(t) \/ Drain(t)
      BY <2>2, <3>1 DEF Reclaim, Clear, Drain, Stale, Matching, OfOwner, Table
    <3>2. CASE Bind(t)
      <4>1. op[t].ctx \in Contexts /\ op[t].ctx \in app
        BY <1>1, <3>2 DEF Bind, CInv, CallerHolds, TypeOK, Op
      <4>2. ref_count[op[t].ctx] > 0
        BY <1>1, <4>1, HeldIsCounted DEF Kept
      <4> QED
        BY <1>1, <3>2, <4>2 DEF Bind, StoreBinding, CInv, TypeOK
    <3>3. CASE UNCHANGED ref_count
      BY <3>3
    <3> QED
      BY <2>3, <3>1, <3>2, <3>3
         DEF ThreadStep, Enter, Return, StartClear, Cleared, ReleaseThread, Drained
  <2>4. ASSUME NEW o \in Owners, OwnerInit(o) PROVE Stays
    BY <2>4 DEF OwnerInit
  <2> QED
    BY <2>1, <2>3, <2>4 DEF Next
<1> QED
  BY <1>1, CInvHolds, PTL DEF Spec, NoResurrection
-----------------------------------------------------------------------------
(* A thread's table never holds more than its slots, and an operation that  *)
(* runs has its context, or a full table of other cameras' bindings: none   *)
(* but the thread itself changes its table, and the address it uses stays   *)
(* open, so that this is settled once for the operation by ptp_context_set. *)
TableFits == \A t \in Threads : Cardinality(Table(t)) <= NSlots

ContextUnlessFull ==
  \A t \in Threads :
    pc[t] = "run" => \/ Got(t) = {op[t].ctx}
                     \/ OfOwner(t) = {} /\ Cardinality(Table(t)) = NSlots

\* Of the thread: what bounds its table and gives it its context.
Settled(t) ==
  /\ Cardinality(Table(t)) <= NSlots
  /\ pc[t] = "run" => \/ Got(t) = {op[t].ctx}
                      \/ OfOwner(t) = {} /\ Cardinality(Table(t)) = NSlots

SInv == TInv /\ IsFiniteSet(bindings) /\ \A t \in Threads : Settled(t)

LEMMA TableIsFinite ==
  ASSUME IsFiniteSet(bindings), NEW t
  PROVE  IsFiniteSet(Table(t)) /\ Cardinality(Table(t)) \in Nat
BY FS_Subset, FS_CardinalityType DEF Table

(* What another thread's step leaves alone.                                 *)
LEMMA ElsewhereSettled ==
  ASSUME SInv, NEW t \in Threads, UNCHANGED op[t], Table(t)' = Table(t),
         pc'[t] = "run" => pc[t] = "run" /\ generation'[op[t].owner] = generation[op[t].owner]
  PROVE  Settled(t)'
<1>1. OfOwner(t)' = {b \in Table(t)' : b.owner = op'[t].owner}
  BY DEF OfOwner, Table
<1>2. OfOwner(t) = {b \in Table(t) : b.owner = op[t].owner}
  BY DEF OfOwner, Table
<1>3. OfOwner(t)' = OfOwner(t)
  BY <1>1, <1>2
<1>4. pc'[t] = "run" => Got(t)' = Got(t)
  BY <1>3 DEF Got, Matching
<1> QED
  BY <1>3, <1>4 DEF SInv, Settled

LEMMA SInvInit == Init => SInv
<1> SUFFICES ASSUME Init PROVE SInv
  OBVIOUS
<1>1. bindings = {} /\ \A t \in Threads : Table(t) = {} /\ pc[t] = "idle"
  BY DEF Init, Table
<1> QED
  BY <1>1, TInvInit, FS_EmptySet, ContextAssumption DEF SInv, Settled

(* A thread's own step.                                                     *)
LEMMA DroppingSettled ==
  ASSUME SInv, NEW t \in Threads, NEW b \in Table(t), Dropping(b), UNCHANGED pc,
         pc[t] # "run"
  PROVE  IsFiniteSet(bindings') /\ \A u \in Threads : Settled(u)'
<1>1. b \in bindings /\ b.thread = t /\ bindings' = bindings \ {b}
      /\ UNCHANGED <<op, generation>>
  BY DEF Dropping, Table
<1>2. IsFiniteSet(bindings')
  BY <1>1, FS_RemoveElement DEF SInv
<1>3. ASSUME NEW u \in Threads, u # t PROVE Settled(u)'
  BY <1>1, <1>3, ElsewhereSettled DEF Table
<1>4. Table(t)' \subseteq Table(t)
  BY <1>1 DEF Table
<1>5. /\ Cardinality(Table(t)') <= Cardinality(Table(t))
      /\ Cardinality(Table(t)) \in Nat /\ Cardinality(Table(t)') \in Nat
  <2>1. IsFiniteSet(Table(t)) /\ Cardinality(Table(t)) \in Nat
    BY TableIsFinite DEF SInv
  <2>2. IsFiniteSet(Table(t)') /\ Cardinality(Table(t)') <= Cardinality(Table(t))
    BY <1>4, <2>1, FS_Subset
  <2> QED
    BY <2>1, <2>2, FS_CardinalityType
<1>6. Settled(t)'
  <2>1. pc'[t] # "run" /\ Cardinality(Table(t)) <= NSlots
    BY DEF SInv, Settled
  <2>2. Cardinality(Table(t)') <= NSlots
    BY <1>5, <2>1, ContextAssumption
  <2> QED
    BY <2>1, <2>2 DEF Settled
<1> QED
  BY <1>2, <1>3, <1>6

LEMMA BindSettled ==
  ASSUME SInv, NEW t \in Threads, Bind(t)
  PROVE  IsFiniteSet(bindings') /\ \A u \in Threads : Settled(u)'
<1>1. /\ UNCHANGED <<generation, op>> /\ pc[t] = "set" /\ Stale(t) = {}
      /\ pc' = [pc EXCEPT ![t] = "run"]
  BY DEF Bind
<1>2. \A u \in Threads : u # t => pc'[u] = pc[u]
  BY <1>1 DEF SInv, TInv, TypeOK
<1>3. Cardinality(Table(t)) \in Nat /\ Cardinality(Table(t)) <= NSlots
  BY TableIsFinite DEF SInv, Settled
<1>4. CASE Matching(t) = {} /\ Cardinality(Table(t)) < NSlots
  <2>1. bindings' = bindings \cup {NewBinding(t)} /\ NewBinding(t).thread = t
    BY <1>4 DEF Bind, StoreBinding, NewBinding
  <2>2. IsFiniteSet(bindings')
    BY <2>1, FS_AddElement DEF SInv
  <2>3. ASSUME NEW u \in Threads, u # t PROVE Settled(u)'
    BY <1>1, <1>2, <2>1, <2>3, ElsewhereSettled DEF Table
  <2>4. Table(t)' = Table(t) \cup {NewBinding(t)}
    BY <2>1 DEF Table
  <2>5. Cardinality(Table(t)') <= NSlots
    <3>1. IsFiniteSet(Table(t))
      BY TableIsFinite DEF SInv
    <3>2. Cardinality(Table(t)') = IF NewBinding(t) \in Table(t)
                                   THEN Cardinality(Table(t)) ELSE Cardinality(Table(t)) + 1
      BY <2>4, <3>1, FS_AddElement, Zenon
    <3>3. Cardinality(Table(t)') \in Nat
      BY <2>4, <3>1, FS_AddElement, FS_CardinalityType
    <3> QED
      BY <1>3, <1>4, <3>2, <3>3, ContextAssumption
  <2>6. Got(t)' = {op[t].ctx}
    <3>1. Matching(t)' = {NewBinding(t)}
      BY <1>1, <1>4, <2>1 DEF Matching, OfOwner, NewBinding
    <3> QED
      BY <1>1, <3>1 DEF Got, NewBinding
  <2>7. Settled(t)'
    BY <1>1, <2>5, <2>6 DEF Settled
  <2> QED
    BY <2>2, <2>3, <2>7
<1>5. CASE ~(Matching(t) = {} /\ Cardinality(Table(t)) < NSlots)
  <2>1. bindings' = bindings
    BY <1>5 DEF Bind
  <2>2. ASSUME NEW u \in Threads, u # t PROVE Settled(u)'
    BY <1>1, <1>2, <2>1, <2>2, ElsewhereSettled DEF Table
  <2>3. Table(t)' = Table(t) /\ OfOwner(t)' = OfOwner(t) /\ Got(t)' = Got(t)
    BY <1>1, <2>1 DEF Table, OfOwner, Got, Matching
  <2>4. CASE Matching(t) = {}
    <3>1. OfOwner(t) = {} /\ Cardinality(Table(t)) = NSlots
      BY <1>1, <1>3, <1>5, <2>4, ContextAssumption DEF Stale
    <3> QED
      BY <1>3, <2>1, <2>2, <2>3, <3>1 DEF Settled, SInv
  <2>5. CASE Matching(t) # {}
    <3>1. Got(t) = {op[t].ctx}
      BY <1>1, <2>5 DEF Stale, Got
    <3> QED
      BY <1>1, <1>3, <2>1, <2>2, <2>3, <3>1 DEF Settled, SInv
  <2> QED
    BY <2>4, <2>5
<1> QED
  BY <1>4, <1>5

LEMMA ThreadStepSettled ==
  ASSUME SInv, NEW t \in Threads, ThreadStep(t)
  PROVE  IsFiniteSet(bindings') /\ \A u \in Threads : Settled(u)'
<1>1. CASE Reclaim(t) \/ Clear(t) \/ Drain(t)
  <2>1. PICK b \in Table(t) : Dropping(b)
    BY <1>1 DEF Reclaim, Clear, Drain, Stale, Matching, OfOwner, Table
  <2> QED
    BY <1>1, <2>1, DroppingSettled DEF Reclaim, Clear, Drain
<1>2. CASE Return(t) \/ StartClear(t) \/ ReleaseThread(t) \/ Drained(t) \/ Cleared(t)
           \/ \E o \in Owners, c \in Contexts, last \in BOOLEAN : Enter(t, o, c, last)
  <2>1. /\ bindings' = bindings /\ pc'[t] # "run"
        /\ \A u \in Threads : u # t => pc'[u] = pc[u] /\ op'[u] = op[u]
    BY <1>2 DEF SInv, TInv, TypeOK, Return, StartClear, ReleaseThread, Drained, Cleared, Enter
  <2>2. ASSUME NEW u \in Threads, u # t, pc[u] = "run"
        PROVE  generation'[op[u].owner] = generation[op[u].owner]
    <3>1. CASE Cleared(t)
      <4>1. Active(u) /\ Active(t)
        BY <2>2, <3>1 DEF Active, Cleared
      <4>2. op[u].owner = op[t].owner => ~op[t].last
        BY <2>2, <4>1 DEF SInv, TInv, ClosedAlone
      <4> QED
        BY <3>1, <4>2 DEF Cleared, SInv, TInv, TypeOK, Op
    <3>2. CASE ~Cleared(t)
      BY <1>2, <3>2 DEF Return, StartClear, ReleaseThread, Drained, Enter
    <3> QED
      BY <3>1, <3>2
  <2>3. ASSUME NEW u \in Threads, u # t PROVE Settled(u)'
    BY <2>1, <2>2, <2>3, ElsewhereSettled DEF Table
  <2>4. Settled(t)'
    BY <2>1 DEF SInv, Settled, Table
  <2> QED
    BY <2>1, <2>3, <2>4 DEF SInv
<1> QED
  BY <1>1, <1>2, BindSettled DEF ThreadStep

LEMMA SInvStep == SInv /\ [Next]_vars => SInv'
<1> SUFFICES ASSUME SInv, [Next]_vars PROVE SInv'
  OBVIOUS
<1>1. TInv'
  BY TInvStep DEF SInv
<1>2. CASE UNCHANGED vars \/ \E c \in Contexts : AppStep(c)
  <2>1. UNCHANGED <<bindings, generation, op, pc>>
    BY <1>2 DEF vars, AppStep, AppNew, AppUnref, AppLoad, AppStore
  <2>2. \A t \in Threads : Settled(t)'
    BY <2>1, ElsewhereSettled DEF Table
  <2> QED
    BY <1>1, <2>1, <2>2 DEF SInv
<1>3. ASSUME NEW o \in Owners, OwnerInit(o) PROVE SInv'
  <2>1. UNCHANGED <<bindings, op, pc>>
    BY <1>3 DEF OwnerInit
  <2>2. ASSUME NEW t \in Threads, pc[t] = "run"
        PROVE  generation'[op[t].owner] = generation[op[t].owner]
    <3>1. generation[op[t].owner] # 0
      BY <2>2 DEF SInv, TInv, InUseIsOpen, Active
    <3> QED
      BY <1>3, <3>1 DEF OwnerInit, SInv, TInv, TypeOK, Op
  <2>3. \A t \in Threads : Settled(t)'
    BY <2>1, <2>2, ElsewhereSettled DEF Table
  <2> QED
    BY <1>1, <2>1, <2>3 DEF SInv
<1>4. ASSUME NEW t \in Threads, ThreadStep(t) PROVE SInv'
  BY <1>1, <1>4, ThreadStepSettled DEF SInv
<1> QED
  BY <1>2, <1>3, <1>4 DEF Next

LEMMA SInvHolds == Spec => []SInv
BY SInvInit, SInvStep, PTL DEF Spec

(* The fixed table is never overrun, and an operation is without its        *)
(* context only if it found its thread's table full of other cameras'.      *)
THEOREM LosesContextOnlyWhenFull == Spec => [](TableFits /\ ContextUnlessFull)
<1>1. SInv => TableFits /\ ContextUnlessFull
  BY DEF SInv, Settled, TableFits, ContextUnlessFull
<1> QED
  BY <1>1, SInvHolds, PTL

(* A full table without a binding for the operation's address has one       *)
(* address more than slots.                                                 *)
LEMMA OwnersBoundTable ==
  ASSUME SInv, NEW t \in Threads, OfOwner(t) = {}
  PROVE  Cardinality(Table(t)) < Cardinality(Owners)
<1> DEFINE O == Owners \ {op[t].owner}
           owner == [b \in Table(t) |-> b.owner]
<1>1. op[t].owner \in Owners /\ bindings \subseteq Binding
  BY DEF SInv, TInv, TypeOK, Op
<1>2. IsFiniteSet(Owners)
  BY ContextAssumption
<1>3. /\ IsFiniteSet(O) /\ Cardinality(O) = Cardinality(Owners) - 1
      /\ Cardinality(Owners) \in Nat
  BY <1>1, <1>2, FS_RemoveElement, FS_CardinalityType
<1>4. \A b \in Table(t) : b.owner \in O
  BY <1>1 DEF Table, OfOwner, Binding
<1>5. \A a, b \in Table(t) : a.owner = b.owner => a = b
  BY DEF Table, SInv, TInv, OneBindingPerOwner
<1>6. owner \in Injection(Table(t), O)
  <2>1. owner \in [Table(t) -> O]
    BY <1>4
  <2>2. \A a, b \in Table(t) : owner[a] = owner[b] => a = b
    BY <1>5
  <2> HIDE DEF owner, O
  <2> QED
    BY <2>1, <2>2 DEF Injection, IsInjective
<1>7. Cardinality(Table(t)) <= Cardinality(O)
  <2> HIDE DEF owner, O
  <2> QED
    BY <1>3, <1>6, FS_Injection
<1>8. Cardinality(Table(t)) \in Nat /\ Cardinality(O) \in Nat
  BY <1>3, TableIsFinite, FS_CardinalityType DEF SInv
<1> QED
  BY <1>3, <1>7, <1>8

(* With a slot per owner address every operation runs with its context,     *)
(* whatever other operations, reconnects and threads left in its table.     *)
THEOREM EveryOperationHasContext ==
  ASSUME Cardinality(Owners) <= NSlots
  PROVE  Spec => []RunningHasContext
<1>1. ASSUME SInv, NEW t \in Threads, pc[t] = "run"
      PROVE  Got(t) = {op[t].ctx}
  <2>1. CASE OfOwner(t) = {} /\ Cardinality(Table(t)) = NSlots
    <3>1. NSlots < Cardinality(Owners)
      BY <1>1, <2>1, OwnersBoundTable
    <3>2. NSlots \in Nat /\ Cardinality(Owners) \in Nat
      BY ContextAssumption, FS_CardinalityType
    <3> QED
      BY <3>1, <3>2
  <2> QED
    BY <1>1, <2>1 DEF SInv, Settled
<1>2. SInv => RunningHasContext
  BY <1>1 DEF RunningHasContext
<1> QED
  BY <1>2, SInvHolds, PTL
=============================================================================
