----------------------------- MODULE PTPContext -----------------------------
(***************************************************************************)
(* The per-thread operation contexts of the PTP driver                     *)
(* (camlibs/ptp2/ptp-context.c) and the reference count they hold on       *)
(* (libgphoto2/gphoto2-context.c).                                         *)
(*                                                                         *)
(* Every operation of the driver first binds the GPContext it was called   *)
(* with to its camera's PTPData, in a table private to the calling thread; *)
(* transport code gets it back from there.  A binding holds a reference,   *)
(* because the application frees its context from another thread while the *)
(* operation is in flight.  The fixed slots of a table are kept as a set:  *)
(* no operator depends on which slot holds a binding.                      *)
(*                                                                         *)
(* Each step touches the shared reference count of at most one context, as *)
(* each atomic instruction of the code does.                               *)
(***************************************************************************)
EXTENDS Integers, FiniteSets

CONSTANTS
  Threads,        \* threads that call the driver
  Owners,         \* addresses at which a PTPData can be allocated
  Contexts,       \* addresses at which a GPContext can be allocated
  NSlots,         \* PTP_CONTEXT_BINDINGS
  Generations,    \* 2^32: the generation counter wraps
  PlainUnref      \* does the application's own unref load and store the count

ASSUME ContextAssumption ==
  /\ IsFiniteSet(Threads) /\ IsFiniteSet(Owners) /\ IsFiniteSet(Contexts)
  /\ NSlots \in Nat \ {0}
  /\ Generations \in Nat \ {0, 1}
  /\ PlainUnref \in BOOLEAN

VARIABLES
  bindings,        \* the bindings of all threads' tables
  next_generation, \* next_context_generation
  generation,      \* PTPData.context_generation; 0: no such PTPData
  ref_count,       \* GPContext.ref_count; 0: freed
  held_refs,       \* the ledger of references held by the bindings
  app,             \* contexts on which the application holds its reference
  loaded,          \* what the application's own unref is about to store, or {}
  pc, op           \* what each thread is doing, with which owner and context

vars == <<bindings, next_generation, generation, ref_count, held_refs, app,
          loaded, pc, op>>

Gen      == 0..(Generations - 1)
Binding  == [thread: Threads, owner: Owners, gen: Gen, ctx: Contexts]
Op       == [owner: Owners, ctx: Contexts, last: BOOLEAN]

TypeOK ==
  /\ bindings \in SUBSET Binding
  /\ next_generation \in Gen
  /\ generation \in [Owners -> Gen]
  /\ ref_count \in [Contexts -> Int]
  /\ held_refs \in Int
  /\ app \in SUBSET Contexts
  /\ loaded \in [Contexts -> SUBSET Int]
  /\ pc \in [Threads -> {"idle", "set", "run", "clear", "drain"}]
  /\ op \in [Threads -> Op]

-----------------------------------------------------------------------------
(* ptp_context_owner_init: zero is reserved, so a wrapping counter skips it. *)
NeverWraps == next_generation + 1
NextGeneration == IF next_generation = Generations - 1 THEN 1 ELSE next_generation + 1

OfOwner(t)  == {b \in bindings : b.thread = t /\ b.owner = op[t].owner}
Matching(t) == {b \in OfOwner(t) : b.gen = generation[op[t].owner]}
Table(t)    == {b \in bindings : b.thread = t}

NewBinding(t) == [thread |-> t, owner |-> op[t].owner,
                  gen |-> generation[op[t].owner], ctx |-> op[t].ctx]

(* The bindings that ptp_context_set takes away before it stores one: the   *)
(* same owner lifetime's, if that is for another context, or else those of  *)
(* the owner address's former lifetimes.                                    *)
NoneStale(t) == {}
Stale(t) == IF Matching(t) # {}
            THEN {b \in Matching(t) : b.ctx # op[t].ctx}
            ELSE OfOwner(t)

(* ptp_context_get.                                                         *)
Got(t) == {b.ctx : b \in Matching(t)}

Init ==
  /\ bindings = {} /\ next_generation = 0
  /\ generation = [o \in Owners |-> 0]
  /\ ref_count = [c \in Contexts |-> 0] /\ held_refs = 0
  /\ app = {} /\ loaded = [c \in Contexts |-> {}]
  /\ pc = [t \in Threads |-> "idle"]
  /\ op \in [Threads -> Op]

-----------------------------------------------------------------------------
(* The application allocates a context; it owns the first reference.        *)
AppNew(c) ==
  /\ c \notin app /\ ref_count[c] = 0 /\ loaded[c] = {}
  /\ app' = app \cup {c}
  /\ ref_count' = [ref_count EXCEPT ![c] = 1]
  /\ UNCHANGED <<bindings, next_generation, generation, held_refs, loaded, pc, op>>

(* A thread that has been handed c and has not retained it yet.             *)
InWindow(c) == \E t \in Threads : pc[t] = "set" /\ op[t].ctx = c

(* gp_context_unref by the application, not inside the window in which only *)
(* the caller keeps the context alive.                                      *)
AppUnref(c) ==
  /\ c \in app /\ ~InWindow(c) /\ ~PlainUnref
  /\ app' = app \ {c}
  /\ ref_count' = [ref_count EXCEPT ![c] = @ - 1]
  /\ UNCHANGED <<bindings, next_generation, generation, held_refs, loaded, pc, op>>

(* The statically linked unref of the Polaris application: load, store.     *)
AppLoad(c) ==
  /\ PlainUnref /\ c \in app /\ ~InWindow(c)
  /\ app' = app \ {c}
  /\ loaded' = [loaded EXCEPT ![c] = {ref_count[c] - 1}]
  /\ UNCHANGED <<bindings, next_generation, generation, ref_count, held_refs, pc, op>>

AppStore(c) ==
  /\ \E n \in loaded[c] : ref_count' = [ref_count EXCEPT ![c] = n]
  /\ loaded' = [loaded EXCEPT ![c] = {}]
  /\ UNCHANGED <<bindings, next_generation, generation, held_refs, app, pc, op>>

(* camera_init allocates a PTPData.                                         *)
OwnerInit(o) ==
  /\ generation[o] = 0
  /\ next_generation' = NextGeneration
  /\ generation' = [generation EXCEPT ![o] = NextGeneration]
  /\ UNCHANGED <<bindings, ref_count, held_refs, app, loaded, pc, op>>

(* A thread enters an operation (or, with last, camera_exit) of a camera,   *)
(* with a context that is alive at that moment.  The application does not   *)
(* close a camera under another thread's operation, nor use a closing one.  *)
Enter(t, o, c, last) ==
  /\ pc[t] = "idle" /\ generation[o] # 0 /\ c \in app
  /\ \A u \in Threads : pc[u] \in {"set", "run", "clear"} /\ op[u].owner = o
                          => ~last /\ ~op[u].last
  /\ pc' = [pc EXCEPT ![t] = "set"]
  /\ op' = [op EXCEPT ![t] = [owner |-> o, ctx |-> c, last |-> last]]
  /\ UNCHANGED <<bindings, next_generation, generation, ref_count, held_refs,
                 app, loaded>>

(* ptp_context_replace on an occupied slot: give the reference back.        *)
(* (Forgetting, the same without gp_context_unref, is a mutant.)            *)
Forgetting(b) ==
  /\ bindings' = bindings \ {b}
  /\ UNCHANGED <<next_generation, generation, app, loaded, op, ref_count, held_refs>>

Dropping(b) ==
  /\ bindings' = bindings \ {b}
  /\ ref_count' = [ref_count EXCEPT ![b.ctx] = @ - 1]
  /\ held_refs' = held_refs - 1
  /\ UNCHANGED <<next_generation, generation, app, loaded, op>>

(* ptp_context_replace on a free slot: retain the context in one.           *)
(* (BorrowBinding, the same without gp_context_ref, is a mutant.)           *)
BorrowBinding(t) ==
  /\ bindings' = bindings \cup {NewBinding(t)}
  /\ held_refs' = held_refs + 1
  /\ UNCHANGED ref_count

StoreBinding(t) ==
  /\ bindings' = bindings \cup {NewBinding(t)}
  /\ ref_count' = [ref_count EXCEPT ![op[t].ctx] = @ + 1]
  /\ held_refs' = held_refs + 1

(* ptp_context_set with a context: reclaim, then store unless it is stored  *)
(* already or the table is full.                                            *)
Reclaim(t) ==
  /\ pc[t] = "set"
  /\ \E b \in Stale(t) : Dropping(b)
  /\ UNCHANGED pc

Bind(t) ==
  /\ pc[t] = "set" /\ Stale(t) = {}
  /\ IF Matching(t) = {} /\ Cardinality(Table(t)) < NSlots
     THEN StoreBinding(t)
     ELSE UNCHANGED <<bindings, ref_count, held_refs>>
  /\ pc' = [pc EXCEPT ![t] = "run"]
  /\ UNCHANGED <<next_generation, generation, app, loaded, op>>

(* Most operations return leaving their binding behind; some paths, and     *)
(* camera_exit always, clear it with ptp_context_set (owner, NULL).         *)
Return(t) ==
  /\ pc[t] = "run" /\ ~op[t].last
  /\ pc' = [pc EXCEPT ![t] = "idle"]
  /\ UNCHANGED <<bindings, next_generation, generation, ref_count, held_refs,
                 app, loaded, op>>

StartClear(t) ==
  /\ pc[t] = "run"
  /\ pc' = [pc EXCEPT ![t] = "clear"]
  /\ UNCHANGED <<bindings, next_generation, generation, ref_count, held_refs,
                 app, loaded, op>>

Clear(t) ==
  /\ pc[t] = "clear"
  /\ \E b \in OfOwner(t) : Dropping(b)
  /\ UNCHANGED pc

(* camera_exit then frees the PTPData.                                      *)
Cleared(t) ==
  /\ pc[t] = "clear" /\ OfOwner(t) = {}
  /\ pc' = [pc EXCEPT ![t] = "idle"]
  /\ generation' = IF op[t].last THEN [generation EXCEPT ![op[t].owner] = 0]
                   ELSE generation
  /\ UNCHANGED <<bindings, next_generation, ref_count, held_refs, app, loaded, op>>

(* ptp_context_release_thread, on a thread's way out.                       *)
ReleaseThread(t) ==
  /\ pc[t] = "idle"
  /\ pc' = [pc EXCEPT ![t] = "drain"]
  /\ UNCHANGED <<bindings, next_generation, generation, ref_count, held_refs,
                 app, loaded, op>>

Drain(t) ==
  /\ pc[t] = "drain"
  /\ \E b \in Table(t) : Dropping(b)
  /\ UNCHANGED pc

Drained(t) ==
  /\ pc[t] = "drain" /\ Table(t) = {}
  /\ pc' = [pc EXCEPT ![t] = "idle"]
  /\ UNCHANGED <<bindings, next_generation, generation, ref_count, held_refs,
                 app, loaded, op>>
-----------------------------------------------------------------------------
ThreadStep(t) ==
  \/ \E o \in Owners, c \in Contexts, last \in BOOLEAN : Enter(t, o, c, last)
  \/ Reclaim(t) \/ Bind(t) \/ Return(t) \/ StartClear(t) \/ Clear(t) \/ Cleared(t)
  \/ ReleaseThread(t) \/ Drain(t) \/ Drained(t)

AppStep(c) == AppNew(c) \/ AppUnref(c) \/ AppLoad(c) \/ AppStore(c)

Next ==
  \/ \E t \in Threads : ThreadStep(t)
  \/ \E c \in Contexts : AppStep(c)
  \/ \E o \in Owners : OwnerInit(o)

Spec == Init /\ [][Next]_vars
-----------------------------------------------------------------------------
(* The reference count of a context is the application's reference plus one *)
(* per binding, whatever threads interleave between the atomic steps.       *)
RefsAccounted ==
  \A c \in Contexts :
    ref_count[c] = (IF c \in app THEN 1 ELSE 0)
                     + Cardinality({b \in bindings : b.ctx = c})

(* A context that transport code can reach is not freed, although the       *)
(* application gives up its own reference while the operation runs.         *)
BoundContextAlive == \A b \in bindings : ref_count[b.ctx] > 0

(* The ledger read by ptp_context_held_refs is exact.                       *)
LedgerExact == held_refs = Cardinality(bindings)

(* A thread's table holds one binding per owner address: reclaiming leaves  *)
(* none of an earlier PTPData lifetime beside the current one.              *)
OneBindingPerOwner ==
  \A a, b \in bindings : a.thread = b.thread /\ a.owner = b.owner => a = b

(* Transport code gets its own operation's context or none, never that of   *)
(* another thread, of another operation or of an earlier lifetime.          *)
GetsOwnContext == \A t \in Threads : pc[t] = "run" => Got(t) \subseteq {op[t].ctx}

(* A freed context is never retained: only the application revives an       *)
(* address, by allocating it again.                                         *)
NoResurrection ==
  [][\A c \in Contexts : ref_count[c] = 0 /\ ref_count'[c] # 0
       => c \in app' \ app]_vars

(* With a slot per owner address, an operation always has its context: the  *)
(* bindings that other operations left behind never fill the table.         *)
RunningHasContext == \A t \in Threads : pc[t] = "run" => Got(t) = {op[t].ctx}

(* An operation loses its context only to bindings of cameras that are      *)
(* open: "Reclaim this thread's obsolete slot instead of allowing repeated  *)
(* camera reconnects to exhaust the fixed TLS table".                       *)
OnlyLiveOwnersFillTable ==
  \A t \in Threads : pc[t] = "run" /\ Got(t) = {}
    => \A b \in Table(t) : generation[b.owner] = b.gen

(* A context that neither the application nor a binding refers to is freed: *)
(* "Everything after the reference is taken is safe, and every path below   *)
(* is balanced".                                                            *)
UnreferencedIsFreed ==
  \A c \in Contexts :
    c \notin app /\ loaded[c] = {} /\ (\A b \in bindings : b.ctx # c)
      => ref_count[c] = 0
=============================================================================
