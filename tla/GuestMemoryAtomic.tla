------------------------- MODULE GuestMemoryAtomic -------------------------
(***************************************************************************)
(* GuestMemoryAtomic (src/src/atomic.rs): a memory map behind an ArcSwap,  *)
(* read through load guards and replaced under a mutex.                    *)
(*                                                                         *)
(* Map objects live on a heap of reference-counted slots.  The ArcSwap     *)
(* cell and every guard (GuestMemoryLoadGuard, or the Arc that into_inner  *)
(* turns it into) own one reference each.  A slot whose count has dropped  *)
(* to zero is free, and the next map may be allocated in it.               *)
(*                                                                         *)
(* An update follows the protocol the module documents: take the lock,     *)
(* look at the current map, build a new one from it, replace().            *)
(***************************************************************************)
EXTENDS Integers, FiniteSets

CONSTANTS
  Threads,   \* threads that own a handle (a clone of the GuestMemoryAtomic)
  Objs,      \* heap slots for map objects
  Guards,    \* bound: load guards that may exist at the same time
  MapVals,   \* the memory maps (values of the type parameter M)
  InitMap,   \* the map given to new()
  Updates,   \* what updaters do: partial functions on MapVals
  NoThread, NoObj, NoGuard, NoVal

ASSUME ThreadsAssumption == Threads # {}
ASSUME GuardsAssumption == IsFiniteSet(Guards)
ASSUME MapAssumption ==
  /\ InitMap \in MapVals
  /\ \A op \in Updates : \A v \in MapVals : v \in DOMAIN op => op[v] \in MapVals
ASSUME NoneAssumption ==
  NoThread \notin Threads /\ NoObj \notin Objs /\ NoGuard \notin Guards /\ NoVal \notin MapVals

VARIABLES
  cell,      \* the object in the ArcSwap, NoObj once the last handle is gone
  value,     \* the map stored in each slot
  strong,    \* the strong count of each slot
  held,      \* the object each guard points to
  handles,   \* threads that still own a handle
  lock,      \* the thread that holds the update mutex
  poisoned,  \* the mutex is poisoned
  pc,        \* where each thread is in its update
  base,      \* the guard on the map its update starts from
  new        \* the map it has built

vars == <<cell, value, strong, held, handles, lock, poisoned, pc, base, new>>

InLock == {"poisoned", "locked", "read", "built", "stored"}

\* The Arc operations: Arc::clone, which is also what memory() of an Arc<M> or
\* an Rc<M> is, and the drop of one reference.
arc_clone(o) == strong' = [strong EXCEPT ![o] = @ + 1]

\* Mutation of arc_drop: the reference is dropped twice.
arc_drop_twice(o) == strong' = [strong EXCEPT ![o] = @ - 2]

arc_drop(o)  == strong' = [strong EXCEPT ![o] = @ - 1]

\* new(), then one clone of the handle per thread.
Init ==
  /\ cell \in Objs
  /\ value = [o \in Objs |-> InitMap]
  /\ strong = [o \in Objs |-> IF o = cell THEN 1 ELSE 0]
  /\ held = [g \in Guards |-> NoObj]
  /\ handles = Threads
  /\ lock = NoThread /\ poisoned = FALSE
  /\ pc = [t \in Threads |-> "idle"]
  /\ base = [t \in Threads |-> NoGuard]
  /\ new = [t \in Threads |-> NoVal]

----------------------------------------------------------------------------
(* Readers                                                                 *)

\* memory(): a guard on whatever object the cell holds now.
load(g) ==
  /\ cell # NoObj /\ held[g] = NoObj
  /\ held' = [held EXCEPT ![g] = cell]
  /\ arc_clone(cell)

Memory(g) ==
  /\ load(g)
  /\ UNCHANGED <<cell, value, handles, lock, poisoned, pc, base, new>>

\* Mutation of CloneGuard: a bitwise copy, without Arc::clone.
CloneGuard_uncounted(g, h) ==
  /\ held[g] # NoObj /\ held[h] = NoObj
  /\ held' = [held EXCEPT ![h] = held[g]]
  /\ UNCHANGED <<strong, cell, value, handles, lock, poisoned, pc, base, new>>

CloneGuard(g, h) ==
  /\ held[g] # NoObj /\ held[h] = NoObj
  /\ held' = [held EXCEPT ![h] = held[g]]
  /\ arc_clone(held[g])
  /\ UNCHANGED <<cell, value, handles, lock, poisoned, pc, base, new>>

\* A guard that an update is reading from is borrowed and cannot be dropped.
DropGuard(g) ==
  /\ held[g] # NoObj /\ \A t \in Threads : base[t] # g
  /\ held' = [held EXCEPT ![g] = NoObj]
  /\ arc_drop(held[g])
  /\ UNCHANGED <<cell, value, handles, lock, poisoned, pc, base, new>>

\* The drop of a handle; with the last one the ArcSwap drops its reference.
DropHandle(t) ==
  /\ t \in handles /\ pc[t] = "idle"
  /\ handles' = handles \ {t}
  /\ IF handles' = {} THEN cell' = NoObj /\ arc_drop(cell)
                      ELSE UNCHANGED <<cell, strong>>
  /\ UNCHANGED <<value, held, lock, poisoned, pc, base, new>>

----------------------------------------------------------------------------
(* Updaters                                                                *)

CallLock(t) ==
  /\ t \in handles /\ pc[t] = "idle"
  /\ pc' = [pc EXCEPT ![t] = "waiting"]
  /\ UNCHANGED <<cell, value, strong, held, handles, lock, poisoned, base, new>>

\* Mutation of Lock: a poisoned mutex lets everybody in.
Lock_if_poisoned(t) ==
  /\ pc[t] = "waiting" /\ (lock = NoThread \/ poisoned)
  /\ lock' = t
  /\ pc' = [pc EXCEPT ![t] = IF poisoned THEN "poisoned" ELSE "locked"]
  /\ UNCHANGED <<cell, value, strong, held, handles, poisoned, base, new>>

\* lock() returns: Ok(guard), or Err(PoisonError) with the guard inside it.
Lock(t) ==
  /\ pc[t] = "waiting" /\ lock = NoThread
  /\ lock' = t
  /\ pc' = [pc EXCEPT ![t] = IF poisoned THEN "poisoned" ELSE "locked"]
  /\ UNCHANGED <<cell, value, strong, held, handles, poisoned, base, new>>

\* The caller takes the guard out of the PoisonError and goes on.
Recover(t) ==
  /\ pc[t] = "poisoned"
  /\ pc' = [pc EXCEPT ![t] = "locked"]
  /\ UNCHANGED <<cell, value, strong, held, handles, lock, poisoned, base, new>>

\* Mutation of ReadMap: the update starts from a guard taken before lock().
ReadMap_early(t, g) ==
  /\ pc[t] = "locked" /\ held[g] # NoObj
  /\ pc' = [pc EXCEPT ![t] = "read"]
  /\ base' = [base EXCEPT ![t] = g]
  /\ UNCHANGED <<held, strong, cell, value, handles, lock, poisoned, new>>

ReadMap(t, g) ==
  /\ pc[t] = "locked" /\ load(g)
  /\ pc' = [pc EXCEPT ![t] = "read"]
  /\ base' = [base EXCEPT ![t] = g]
  /\ UNCHANGED <<cell, value, handles, lock, poisoned, new>>

\* The map a guard dereferences to.
deref(g) == value[held[g]]

Build(t, op) ==
  LET map == deref(base[t])
  IN  /\ pc[t] = "read" /\ map \in DOMAIN op
      /\ pc' = [pc EXCEPT ![t] = "built"]
      /\ new' = [new EXCEPT ![t] = op[map]]
      /\ base' = [base EXCEPT ![t] = NoGuard]
      /\ UNCHANGED <<cell, value, strong, held, handles, lock, poisoned>>

\* Mutation of Replace: the map is overwritten in place.
Replace_in_place(t, o) ==
  /\ pc[t] = "built" /\ o = cell
  /\ value' = [value EXCEPT ![o] = new[t]]
  /\ pc' = [pc EXCEPT ![t] = "stored"]
  /\ new' = [new EXCEPT ![t] = NoVal]
  /\ UNCHANGED <<cell, strong, held, handles, lock, poisoned, base>>

\* replace(): Arc::new(map) takes a free slot o, the store swaps it in and
\* drops the ArcSwap's reference to the old object.
Replace(t, o) ==
  /\ pc[t] = "built" /\ strong[o] = 0
  /\ value' = [value EXCEPT ![o] = new[t]]
  /\ strong' = [strong EXCEPT ![o] = 1, ![cell] = @ - 1]
  /\ cell' = o
  /\ pc' = [pc EXCEPT ![t] = "stored"]
  /\ new' = [new EXCEPT ![t] = NoVal]
  /\ UNCHANGED <<held, handles, lock, poisoned, base>>

\* Mutation of release: the mutex stays locked.
release_nothing(t) ==
  /\ pc' = [pc EXCEPT ![t] = "idle"]
  /\ base' = [base EXCEPT ![t] = NoGuard]
  /\ new' = [new EXCEPT ![t] = NoVal]
  /\ UNCHANGED <<lock, cell, value, strong, held, handles>>

\* What every way out of the critical section does.
release(t) ==
  /\ lock' = NoThread
  /\ pc' = [pc EXCEPT ![t] = "idle"]
  /\ base' = [base EXCEPT ![t] = NoGuard]
  /\ new' = [new EXCEPT ![t] = NoVal]
  /\ UNCHANGED <<cell, value, strong, held, handles>>

\* The drop of the exclusive guard, at the end of replace() or without it.
Unlock(t) == pc[t] \in InLock /\ release(t) /\ UNCHANGED poisoned

\* The updater panics in its own code: unwinding drops the exclusive guard,
\* and the mutex remembers.
PanicInLock(t) ==
  pc[t] \in InLock \ {"stored"} /\ release(t) /\ poisoned' = TRUE

\* Nothing is left to do once every handle and every guard is gone.
Done == handles = {} /\ held = [g \in Guards |-> NoObj] /\ UNCHANGED vars

InLockStep(t) ==
  \/ Recover(t)
  \/ \E g \in Guards : ReadMap(t, g)
  \/ \E op \in Updates : Build(t, op)
  \/ \E o \in Objs : Replace(t, o)
  \/ Unlock(t)
  \/ PanicInLock(t)

Next ==
  \/ \E g \in Guards : Memory(g) \/ DropGuard(g)
  \/ \E g, h \in Guards : CloneGuard(g, h)
  \/ \E t \in Threads : DropHandle(t) \/ CallLock(t) \/ Lock(t) \/ InLockStep(t)
  \/ Done

\* The mutex goes to some waiting thread, and a critical section, a finite
\* piece of code that does not block, is left in the end.
Fairness ==
  /\ WF_vars(\E t \in Threads : Lock(t))
  /\ \A t \in Threads : WF_vars(InLockStep(t))

Spec == Init /\ [][Next]_vars

FairSpec == Spec /\ Fairness
----------------------------------------------------------------------------
(* Properties                                                              *)

TypeOK ==
  /\ cell \in Objs \cup {NoObj}
  /\ value \in [Objs -> MapVals]
  /\ strong \in [Objs -> Nat]
  /\ held \in [Guards -> Objs \cup {NoObj}]
  /\ handles \in SUBSET Threads
  /\ lock \in Threads \cup {NoThread}
  /\ poisoned \in BOOLEAN
  /\ pc \in [Threads -> InLock \cup {"idle", "waiting"}]
  /\ base \in [Threads -> Guards \cup {NoGuard}]
  /\ new \in [Threads -> MapVals \cup {NoVal}]

\* The guards that point to an object.
Holders(o) == {g \in Guards : held[g] = o}

\* Every load, clone, drop and replace (atomic.rs) leaves the counts right: a
\* map object is freed with its last holder, never earlier, under a guard that
\* still points to it, and never later, so that the copies readers retrieved
\* "will be collected once no one can access them anymore" (atomic.rs).
StrongExact ==
  \A o \in Objs :
    strong[o] = Cardinality(Holders(o)) + (IF cell = o THEN 1 ELSE 0)

\* At most one thread is between lock() and the drop of its exclusive guard,
\* also after some holder panicked (atomic.rs, lock and replace).
MutualExclusion == \A t \in Threads : pc[t] \in InLock <=> lock = t

\* The map an updater starts from is still the current one when it replaces
\* it: nobody else stores between its memory() and its replace() (atomic.rs).
BaseIsCurrent ==
  \A t \in Threads :
    /\ pc[t] = "read" => cell \in Objs /\ base[t] \in Guards /\ held[base[t]] = cell
    /\ pc[t] = "built" =>
         cell \in Objs /\ \E op \in Updates : value[cell] \in DOMAIN op
                                             /\ new[t] = op[value[cell]]

\* The map in an object, NoVal for no object.
mapOf(o) == IF o = NoObj THEN NoVal ELSE value[o]

SM == INSTANCE SnapshotMap WITH
        current <- mapOf(cell),
        snaps   <- [g \in Guards |-> mapOf(held[g])]

\* The lock / memory / replace protocol (atomic.rs) behaves like one current
\* map with indivisible updates, so none is lost, and every guard shows "a
\* consistent snapshot of the memory map" (guest_memory.rs) until it is
\* dropped.
Snapshots == SM!Spec

\* A thread that waits for the mutex cannot be kept waiting unless others get
\* it: neither an early return nor a panic in the critical section leaves the
\* mutex locked (atomic.rs, lock).
LockProgress ==
  (\E t \in Threads : pc[t] = "waiting")
    ~> (\E t \in Threads : pc[t] \in {"locked", "poisoned"})
=============================================================================
