--------------------------- MODULE HotplugProofs ---------------------------
(***************************************************************************)
(* Proofs about GuestMemoryAtomic and Hotplug.                             *)
(*                                                                         *)
(* The first part is about GuestMemoryAtomic alone, for any number of      *)
(* threads, guards, heap slots and maps; it uses none of the assumptions   *)
(* of Hotplug.  The second is about Hotplug, for any finite number of      *)
(* threads, heap slots and guards, and any set of regions: what            *)
(* GuestMemoryAtomic promises holds with regions that come and go, and     *)
(* exactly the regions that somebody can reach are mapped.                 *)
(***************************************************************************)
EXTENDS Hotplug, FiniteSetTheorems, TLAPS

\* A thread in an update owns a handle, and the ArcSwap holds an object as
\* long as there is a handle.
HandlesInv ==
  /\ \A t \in Threads : pc[t] # "idle" => t \in handles
  /\ cell = NoObj <=> handles = {}

\* The inductive invariant.
IInv ==
  TypeOK /\ HandlesInv /\ MutualExclusion /\ StrongExact /\ BaseIsCurrent

----------------------------------------------------------------------------
(* Counting references                                                     *)

\* The guards on an object are a finite set, and there is none if and only if
\* their number is zero (Arc: the count decides when the object is freed).
LEMMA HoldersFinite ==
  ASSUME NEW o
  PROVE  /\ IsFiniteSet(Holders(o))
         /\ Cardinality(Holders(o)) \in Nat
         /\ Cardinality(Holders(o)) = 0 <=> Holders(o) = {}
<1>1. Holders(o) \in SUBSET Guards
  BY DEF Holders
<1>2. IsFiniteSet(Holders(o))
  BY <1>1, GuardsAssumption, FS_Subset
<1> QED
  BY <1>2, FS_CardinalityType, FS_EmptySet

\* A new guard on object o (load, clone) makes one more holder of o and
\* changes the holders of no other object.
LEMMA AddHolder ==
  ASSUME TypeOK, NEW g \in Guards, NEW o \in Objs,
         held[g] = NoObj, held' = [held EXCEPT ![g] = o]
  PROVE  \A p \in Objs :
           Cardinality(Holders(p)') =
             Cardinality(Holders(p)) + (IF p = o THEN 1 ELSE 0)
<1> SUFFICES ASSUME NEW p \in Objs
             PROVE  Cardinality(Holders(p)') =
                      Cardinality(Holders(p)) + (IF p = o THEN 1 ELSE 0)
  OBVIOUS
<1>1. IsFiniteSet(Holders(p)) /\ Cardinality(Holders(p)) \in Nat
  BY HoldersFinite
<1>2. CASE p = o
  <2>1. Holders(p)' = Holders(p) \cup {g} /\ g \notin Holders(p)
    BY <1>2, NoneAssumption DEF TypeOK, Holders
  <2> QED
    BY <1>1, <1>2, <2>1, FS_AddElement
<1>3. CASE p # o
  <2>1. Holders(p)' = Holders(p)
    BY <1>3, NoneAssumption DEF TypeOK, Holders
  <2> QED
    BY <1>1, <1>3, <2>1
<1> QED
  BY <1>2, <1>3

\* The drop of a guard takes one holder from the object it points to.
LEMMA RemoveHolder ==
  ASSUME TypeOK, NEW g \in Guards, NEW o \in Objs,
         held[g] = o, held' = [held EXCEPT ![g] = NoObj]
  PROVE  /\ Cardinality(Holders(o)) > 0
         /\ \A p \in Objs :
              Cardinality(Holders(p)') =
                Cardinality(Holders(p)) - (IF p = o THEN 1 ELSE 0)
<1>1. g \in Holders(o)
  BY DEF Holders
<1>2. Cardinality(Holders(o)) > 0
  BY <1>1, HoldersFinite
<1>3. ASSUME NEW p \in Objs
      PROVE  Cardinality(Holders(p)') =
               Cardinality(Holders(p)) - (IF p = o THEN 1 ELSE 0)
  <2>1. IsFiniteSet(Holders(p)) /\ Cardinality(Holders(p)) \in Nat
    BY HoldersFinite
  <2>2. CASE p = o
    <3>1. Holders(p)' = Holders(p) \ {g}
      BY <2>2, NoneAssumption DEF TypeOK, Holders
    <3> QED
      BY <1>1, <2>1, <2>2, <3>1, FS_RemoveElement
  <2>3. CASE p # o
    <3>1. Holders(p)' = Holders(p)
      BY <2>3, NoneAssumption DEF TypeOK, Holders
    <3> QED
      BY <2>1, <2>3, <3>1
  <2> QED
    BY <2>2, <2>3
<1> QED
  BY <1>2, <1>3
----------------------------------------------------------------------------
(* The invariant is inductive                                              *)

\* The state new() leaves behind satisfies the invariant.
LEMMA InitInv == Init => IInv
<1> SUFFICES ASSUME Init PROVE IInv
  OBVIOUS
<1>1. TypeOK /\ HandlesInv /\ MutualExclusion /\ BaseIsCurrent
  BY MapAssumption, NoneAssumption, ThreadsAssumption
  DEF Init, TypeOK, HandlesInv, MutualExclusion, BaseIsCurrent, InLock
<1>2. StrongExact
  <2>1. \A o \in Objs : Holders(o) = {}
    BY NoneAssumption DEF Init, Holders
  <2> QED
    BY <2>1, HoldersFinite DEF Init, StrongExact
<1> QED
  BY <1>1, <1>2 DEF IInv

\* A load keeps types and counts: the object in the cell gains one holder.
LEMMA LoadCounts ==
  ASSUME IInv, NEW g \in Guards, load(g), UNCHANGED cell
  PROVE  /\ strong' \in [Objs -> Nat]
         /\ held' \in [Guards -> Objs \cup {NoObj}]
         /\ StrongExact'
<1>1. cell \in Objs /\ held[g] = NoObj
  BY DEF IInv, TypeOK, load
<1>2. \A p \in Objs : Cardinality(Holders(p)') =
                        Cardinality(Holders(p)) + (IF p = cell THEN 1 ELSE 0)
  BY <1>1, AddHolder DEF IInv, load
<1>3. strong' \in [Objs -> Nat] /\ held' \in [Guards -> Objs \cup {NoObj}]
  BY <1>1 DEF IInv, TypeOK, load, arc_clone
<1>4. \A p \in Objs : Cardinality(Holders(p)) \in Nat
  BY HoldersFinite
<1>5. StrongExact'
  BY <1>1, <1>2, <1>4 DEF IInv, TypeOK, StrongExact, load, arc_clone
<1> QED
  BY <1>3, <1>5

\* Leaving the critical section keeps everything but the poison flag.
LEMMA ReleaseInv ==
  ASSUME IInv, NEW t \in Threads, pc[t] \in InLock, release(t),
         poisoned' \in BOOLEAN
  PROVE  IInv'
<1>1. TypeOK'
  BY DEF IInv, TypeOK, release
<1>2. HandlesInv'
  BY DEF IInv, TypeOK, HandlesInv, release
<1>3. MutualExclusion'
  BY NoneAssumption DEF IInv, TypeOK, MutualExclusion, release, InLock
<1>4. StrongExact'
  BY DEF IInv, StrongExact, Holders, release
<1>5. BaseIsCurrent'
  BY DEF IInv, TypeOK, BaseIsCurrent, release
<1> QED
  BY <1>1, <1>2, <1>3, <1>4, <1>5 DEF IInv

\* Every step of every thread preserves the invariant.
LEMMA NextInv == IInv /\ [Next]_vars => IInv'
<1> SUFFICES ASSUME IInv, [Next]_vars PROVE IInv'
  OBVIOUS
<1>1. ASSUME NEW g \in Guards, Memory(g) PROVE IInv'
  <2>1. TypeOK' /\ StrongExact'
    BY <1>1, LoadCounts DEF Memory, IInv, TypeOK
  <2>2. HandlesInv' /\ MutualExclusion'
    BY <1>1 DEF Memory, IInv, HandlesInv, MutualExclusion
  <2>3. BaseIsCurrent'
    BY <1>1, NoneAssumption DEF Memory, load, IInv, TypeOK, BaseIsCurrent
  <2> QED
    BY <2>1, <2>2, <2>3 DEF IInv
<1>2. ASSUME NEW g \in Guards, NEW h \in Guards, CloneGuard(g, h) PROVE IInv'
  <2>1. held[g] \in Objs /\ held[h] = NoObj /\ held' = [held EXCEPT ![h] = held[g]]
    BY <1>2 DEF CloneGuard, IInv, TypeOK
  <2>2. \A p \in Objs : Cardinality(Holders(p)') =
                          Cardinality(Holders(p)) + (IF p = held[g] THEN 1 ELSE 0)
    BY <2>1, AddHolder DEF IInv
  <2>3. \A p \in Objs : Cardinality(Holders(p)) \in Nat
    BY HoldersFinite
  <2>4. TypeOK'
    BY <1>2, <2>1 DEF CloneGuard, arc_clone, IInv, TypeOK
  <2>5. StrongExact'
    BY <1>2, <2>1, <2>2, <2>3 DEF CloneGuard, arc_clone, IInv, TypeOK, StrongExact
  <2>6. HandlesInv' /\ MutualExclusion'
    BY <1>2 DEF CloneGuard, IInv, HandlesInv, MutualExclusion
  <2>7. BaseIsCurrent'
    BY <1>2, <2>1, NoneAssumption DEF CloneGuard, IInv, TypeOK, BaseIsCurrent
  <2> QED
    BY <2>4, <2>5, <2>6, <2>7 DEF IInv
<1>3. ASSUME NEW g \in Guards, DropGuard(g) PROVE IInv'
  <2>1. held[g] \in Objs /\ held' = [held EXCEPT ![g] = NoObj]
    BY <1>3 DEF DropGuard, IInv, TypeOK
  <2>2. /\ Cardinality(Holders(held[g])) > 0
        /\ \A p \in Objs : Cardinality(Holders(p)') =
                             Cardinality(Holders(p)) - (IF p = held[g] THEN 1 ELSE 0)
    BY <2>1, RemoveHolder DEF IInv
  <2>3. \A p \in Objs : Cardinality(Holders(p)) \in Nat
    BY HoldersFinite
  <2>4. strong[held[g]] > 0
    BY <2>1, <2>2, <2>3 DEF IInv, StrongExact
  <2>5. TypeOK'
    BY <1>3, <2>1, <2>4 DEF DropGuard, arc_drop, IInv, TypeOK
  <2>6. StrongExact'
    BY <1>3, <2>1, <2>2, <2>3 DEF DropGuard, arc_drop, IInv, TypeOK, StrongExact
  <2>7. HandlesInv' /\ MutualExclusion'
    BY <1>3 DEF DropGuard, IInv, HandlesInv, MutualExclusion
  <2>8. BaseIsCurrent'
    BY <1>3, <2>1, NoneAssumption DEF DropGuard, IInv, TypeOK, BaseIsCurrent
  <2> QED
    BY <2>5, <2>6, <2>7, <2>8 DEF IInv
<1>4. ASSUME NEW t \in Threads, DropHandle(t) PROVE IInv'
  <2>1. cell \in Objs
    BY <1>4 DEF DropHandle, IInv, TypeOK, HandlesInv
  <2>2. \A p \in Objs : Holders(p)' = Holders(p) /\ Cardinality(Holders(p)) \in Nat
    BY <1>4, HoldersFinite DEF DropHandle, Holders
  <2>3. strong[cell] > 0
    BY <2>1, <2>2 DEF IInv, StrongExact
  <2>4. TypeOK'
    BY <1>4, <2>1, <2>3 DEF DropHandle, arc_drop, IInv, TypeOK
  <2>5. HandlesInv'
    BY <1>4, <2>1, NoneAssumption DEF DropHandle, IInv, TypeOK, HandlesInv
  <2>6. MutualExclusion'
    BY <1>4 DEF DropHandle, IInv, MutualExclusion
  <2>7. StrongExact'
    BY <1>4, <2>1, <2>2, NoneAssumption
    DEF DropHandle, arc_drop, IInv, TypeOK, StrongExact
  <2>8. BaseIsCurrent'
    <3>1. CASE handles' = {}
      <4>1. \A u \in Threads : pc[u] = "idle"
        BY <1>4, <3>1 DEF DropHandle, IInv, HandlesInv
      <4> QED
        BY <1>4, <4>1 DEF DropHandle, BaseIsCurrent
    <3>2. CASE handles' # {}
      BY <1>4, <3>2 DEF DropHandle, IInv, BaseIsCurrent
    <3> QED
      BY <3>1, <3>2
  <2> QED
    BY <2>4, <2>5, <2>6, <2>7, <2>8 DEF IInv
<1>5. ASSUME NEW t \in Threads, CallLock(t) \/ Lock(t) \/ Recover(t) PROVE IInv'
  <2>1. TypeOK'
    BY <1>5 DEF CallLock, Lock, Recover, IInv, TypeOK, InLock
  <2>2. HandlesInv'
    BY <1>5 DEF CallLock, Lock, Recover, IInv, TypeOK, HandlesInv
  <2>3. MutualExclusion'
    BY <1>5, NoneAssumption
    DEF CallLock, Lock, Recover, IInv, TypeOK, MutualExclusion, InLock
  <2>4. StrongExact'
    BY <1>5 DEF CallLock, Lock, Recover, IInv, StrongExact, Holders
  <2>5. BaseIsCurrent'
    BY <1>5 DEF CallLock, Lock, Recover, IInv, TypeOK, BaseIsCurrent
  <2> QED
    BY <2>1, <2>2, <2>3, <2>4, <2>5 DEF IInv
<1>6. ASSUME NEW t \in Threads, NEW g \in Guards, ReadMap(t, g) PROVE IInv'
  <2>1. TypeOK' /\ StrongExact'
    BY <1>6, LoadCounts DEF ReadMap, IInv, TypeOK, InLock
  <2>2. HandlesInv'
    BY <1>6 DEF ReadMap, IInv, TypeOK, HandlesInv
  <2>3. MutualExclusion'
    BY <1>6 DEF ReadMap, IInv, TypeOK, MutualExclusion, InLock
  <2>4. BaseIsCurrent'
    BY <1>6, NoneAssumption DEF ReadMap, load, IInv, TypeOK, BaseIsCurrent
  <2> QED
    BY <2>1, <2>2, <2>3, <2>4 DEF IInv
<1>7. ASSUME NEW t \in Threads, NEW op \in Updates, Build(t, op) PROVE IInv'
  <2>1. cell \in Objs /\ held[base[t]] = cell
    BY <1>7 DEF Build, deref, IInv, BaseIsCurrent
  <2>2. value[cell] \in MapVals /\ value[cell] \in DOMAIN op /\ op[value[cell]] \in MapVals
    BY <1>7, <2>1, MapAssumption DEF Build, deref, IInv, TypeOK
  <2>3. TypeOK'
    BY <1>7, <2>1, <2>2 DEF Build, deref, IInv, TypeOK, InLock
  <2>4. HandlesInv'
    BY <1>7 DEF Build, deref, IInv, TypeOK, HandlesInv
  <2>5. MutualExclusion'
    BY <1>7 DEF Build, deref, IInv, TypeOK, MutualExclusion, InLock
  <2>6. StrongExact'
    BY <1>7 DEF Build, deref, IInv, StrongExact, Holders
  <2>7. BaseIsCurrent'
    BY <1>7, <2>1, <2>2 DEF Build, deref, IInv, TypeOK, BaseIsCurrent
  <2> QED
    BY <2>3, <2>4, <2>5, <2>6, <2>7 DEF IInv
<1>8. ASSUME NEW t \in Threads, NEW o \in Objs, Replace(t, o) PROVE IInv'
  <2>1. cell \in Objs /\ new[t] \in MapVals
    BY <1>8, MapAssumption DEF Replace, IInv, TypeOK, BaseIsCurrent
  <2>2. \A p \in Objs : Holders(p)' = Holders(p) /\ Cardinality(Holders(p)) \in Nat
    BY <1>8, HoldersFinite DEF Replace, Holders
  <2>3. strong[cell] > 0 /\ o # cell
    BY <1>8, <2>1, <2>2 DEF Replace, IInv, StrongExact
  <2>4. TypeOK'
    BY <1>8, <2>1, <2>3 DEF Replace, IInv, TypeOK, InLock
  <2>5. HandlesInv'
    BY <1>8, <2>1, NoneAssumption DEF Replace, IInv, TypeOK, HandlesInv
  <2>6. MutualExclusion'
    BY <1>8 DEF Replace, IInv, TypeOK, MutualExclusion, InLock
  <2>7. StrongExact'
    BY <1>8, <2>1, <2>2, <2>3 DEF Replace, IInv, TypeOK, StrongExact
  <2>8. BaseIsCurrent'
    <3>1. \A u \in Threads : u # t => pc[u] \notin {"read", "built"}
      BY <1>8 DEF Replace, IInv, MutualExclusion, InLock
    <3> QED
      BY <1>8, <3>1 DEF Replace, IInv, TypeOK, BaseIsCurrent
  <2> QED
    BY <2>4, <2>5, <2>6, <2>7, <2>8 DEF IInv
<1>9. ASSUME NEW t \in Threads, Unlock(t) \/ PanicInLock(t) PROVE IInv'
  BY <1>9, ReleaseInv DEF Unlock, PanicInLock, IInv, TypeOK
<1>10. CASE UNCHANGED vars
  BY <1>10
  DEF vars, IInv, TypeOK, HandlesInv, MutualExclusion, StrongExact, Holders, BaseIsCurrent
<1> QED
  BY <1>1, <1>2, <1>3, <1>4, <1>5, <1>6, <1>7, <1>8, <1>9, <1>10
  DEF Next, InLockStep, Done

\* The invariant holds in every reachable state.
THEOREM Invariance == Spec => []IInv
  BY InitInv, NextInv, PTL DEF Spec

\* The parameters and variables keep their types in every reachable state.
THEOREM TypeCorrect == Spec => []TypeOK
  BY Invariance, PTL DEF IInv

\* Reference counts are exact in every reachable state, for any number of
\* guards and threads: no guard dangles and no map object leaks (atomic.rs).
THEOREM CountsCorrect == Spec => []StrongExact
  BY Invariance, PTL DEF IInv

\* At most one updater is inside the lock, also after another one panicked
\* there (atomic.rs, lock).
THEOREM UpdatesExclusive == Spec => []MutualExclusion
  BY Invariance, PTL DEF IInv

\* The map that an update started from is still the current one when the update
\* replaces it (atomic.rs, lock and replace).
THEOREM NoUpdateLost == Spec => []BaseIsCurrent
  BY Invariance, PTL DEF IInv

----------------------------------------------------------------------------
(* GuestMemoryAtomic implements SnapshotMap                                *)

\* What the guards show, as the refinement mapping of GuestMemoryAtomic has it.
shown == [g \in Guards |-> mapOf(held[g])]

\* A load gives the guard the map that is current at that moment.
LEMMA LoadTakes ==
  ASSUME IInv, NEW g \in Guards, load(g), UNCHANGED <<cell, value>>
  PROVE  SM!Take(g)
<1>1. cell \in Objs /\ value[cell] # NoVal /\ held[g] = NoObj
  BY NoneAssumption DEF IInv, TypeOK, load
<1>2. mapOf(cell)' = mapOf(cell) /\ mapOf(cell) = value[cell] /\ mapOf(cell) # NoVal
  BY <1>1, NoneAssumption DEF mapOf
<1>3. shown' = [shown EXCEPT ![g] = mapOf(cell)]
  BY <1>1, <1>2 DEF shown, mapOf, load, IInv, TypeOK
<1>4. shown[g] = NoVal
  BY <1>1 DEF shown, mapOf
<1> QED
  BY <1>2, <1>3, <1>4 DEF SM!Take, shown

\* A step that leaves the cell, the slots and the guards alone is invisible.
LEMMA Invisible ==
  ASSUME UNCHANGED <<cell, value, held>>
  PROVE  UNCHANGED <<mapOf(cell), shown>>
  BY DEF mapOf, shown

\* Every step is a step of SnapshotMap or invisible to it: replace() is the
\* one step in which an update takes effect.
LEMMA StepRefines ==
  ASSUME IInv, [Next]_vars
  PROVE  [SM!Next]_<<mapOf(cell), shown>>
<1>1. ASSUME NEW g \in Guards, Memory(g) PROVE SM!Next
  BY <1>1, LoadTakes DEF Memory, SM!Next
<1>2. ASSUME NEW g \in Guards, NEW h \in Guards, CloneGuard(g, h) PROVE SM!Next
  <2>1. held[g] \in Objs /\ value[held[g]] # NoVal /\ held[h] = NoObj
    BY <1>2, NoneAssumption DEF CloneGuard, IInv, TypeOK
  <2>2. UNCHANGED mapOf(cell)
    BY <1>2 DEF CloneGuard, mapOf
  <2>3. shown' = [shown EXCEPT ![h] = shown[g]]
    BY <1>2, <2>1 DEF CloneGuard, shown, mapOf, IInv, TypeOK
  <2>4. shown[g] # NoVal /\ shown[h] = NoVal
    BY <2>1, NoneAssumption DEF shown, mapOf
  <2>5. SM!Copy(g, h)
    BY <2>2, <2>3, <2>4 DEF SM!Copy, shown
  <2> QED
    BY <2>5 DEF SM!Next
<1>3. ASSUME NEW g \in Guards, DropGuard(g) PROVE SM!Next
  <2>1. held[g] \in Objs /\ value[held[g]] # NoVal
    BY <1>3, NoneAssumption DEF DropGuard, IInv, TypeOK
  <2>2. UNCHANGED mapOf(cell)
    BY <1>3 DEF DropGuard, mapOf
  <2>3. shown' = [shown EXCEPT ![g] = NoVal]
    BY <1>3, <2>1 DEF DropGuard, shown, mapOf, IInv, TypeOK
  <2>4. shown[g] # NoVal
    BY <2>1, NoneAssumption DEF shown, mapOf
  <2>5. SM!Release(g)
    BY <2>2, <2>3, <2>4 DEF SM!Release, shown
  <2> QED
    BY <2>5 DEF SM!Next
<1>4. ASSUME NEW t \in Threads, DropHandle(t)
      PROVE  SM!Next \/ UNCHANGED <<mapOf(cell), shown>>
  <2>1. CASE handles' = {}
    <3>1. cell \in Objs /\ value[cell] # NoVal /\ cell' = NoObj
      BY <1>4, <2>1, NoneAssumption DEF DropHandle, IInv, TypeOK, HandlesInv
    <3>2. mapOf(cell) # NoVal /\ mapOf(cell)' = NoVal
      BY <3>1, NoneAssumption DEF mapOf
    <3>3. UNCHANGED shown
      BY <1>4 DEF DropHandle, shown, mapOf
    <3>4. SM!Close
      BY <3>2, <3>3 DEF SM!Close, shown
    <3> QED
      BY <3>4 DEF SM!Next
  <2>2. CASE handles' # {}
    BY <1>4, <2>2, Invisible DEF DropHandle
  <2> QED
    BY <2>1, <2>2
<1>5. ASSUME NEW t \in Threads, NEW g \in Guards, ReadMap(t, g) PROVE SM!Next
  BY <1>5, LoadTakes DEF ReadMap, SM!Next
<1>6. ASSUME NEW t \in Threads, NEW o \in Objs, Replace(t, o) PROVE SM!Next
  <2>1. PICK op \in Updates : value[cell] \in DOMAIN op /\ new[t] = op[value[cell]]
    BY <1>6 DEF Replace, IInv, BaseIsCurrent
  <2>2. cell \in Objs /\ cell' = o /\ value'[o] = new[t]
    BY <1>6 DEF Replace, IInv, TypeOK, BaseIsCurrent
  <2>3. mapOf(cell) = value[cell] /\ mapOf(cell)' = new[t]
    BY <2>2, NoneAssumption DEF mapOf
  <2>4. Holders(o) = {}
    <3>1. strong[o] = 0 /\ Cardinality(Holders(o)) \in Nat
      BY <1>6, HoldersFinite DEF Replace
    <3>2. Cardinality(Holders(o)) = 0
      BY <3>1 DEF IInv, StrongExact
    <3> QED
      BY <3>2, HoldersFinite
  <2>5. UNCHANGED shown
    BY <1>6, <2>4 DEF Replace, shown, mapOf, Holders, IInv, TypeOK
  <2>6. SM!Update(op)
    BY <2>1, <2>3, <2>5 DEF SM!Update, shown
  <2> QED
    BY <2>6 DEF SM!Next
<1>7. ASSUME NEW t \in Threads,
             \/ CallLock(t) \/ Lock(t) \/ Recover(t)
             \/ Unlock(t) \/ PanicInLock(t)
             \/ \E op \in Updates : Build(t, op)
      PROVE  UNCHANGED <<mapOf(cell), shown>>
  BY <1>7, Invisible
  DEF CallLock, Lock, Recover, Unlock, PanicInLock, release, Build, deref
<1>8. CASE UNCHANGED vars
  BY <1>8, Invisible DEF vars
<1> QED
  BY <1>1, <1>2, <1>3, <1>4, <1>5, <1>6, <1>7, <1>8 DEF Next, InLockStep, Done

\* GuestMemoryAtomic implements SnapshotMap: updates under the lock are
\* indivisible, none is lost, and every guard shows the map that was current
\* when it was taken until it is dropped.
THEOREM SnapshotsImplemented == Spec => Snapshots
<1>1. Init => SM!Init
  BY NoneAssumption DEF Init, SM!Init, mapOf
<1>2. IInv /\ [Next]_vars => [SM!Next]_<<mapOf(cell), [g \in Guards |-> mapOf(held[g])]>>
  BY StepRefines DEF shown
<1> QED
  BY <1>1, <1>2, Invariance, PTL DEF Spec, Snapshots, SM!Spec

----------------------------------------------------------------------------
(* Regions that come and go                                                *)

\* The map objects that are alive and hold an Arc of region r, and the threads
\* that hold one in a map under construction.
LiveWith(r) == {o \in Objs : strong[o] # 0 /\ r \in value[o]}
Building(r) == {t \in Threads : new[t] # NoVal /\ r \in new[t]}

RTypeOK ==
  refs \in [Regions -> Nat] /\ loose \subseteq Regions

\* Every Arc of a region has an owner, and a region is mapped until its last
\* Arc is dropped.
RefsExact ==
  \A r \in Regions : refs[r] = Cardinality(LiveWith(r)) + Cardinality(Building(r))
                                 + (IF r \in loose THEN 1 ELSE 0)

MappedExact == mapped = {r \in Regions : refs[r] # 0}

\* A map under construction belongs to an updater that has built it.
NewInv == \A t \in Threads : new[t] # NoVal => pc[t] = "built"

\* The inductive invariant.
RInv == IInv /\ RTypeOK /\ RefsExact /\ MappedExact /\ NewInv

----------------------------------------------------------------------------
(* Hotplug is GuestMemoryAtomic with certain maps and updates              *)

\* The updates of hotplug are among those GuestMemoryAtomic is given.
LEMMA UpdatesKnown == \A r \in Regions : Plug(r) \in Updates /\ Unplug(r) \in Updates
  BY HotplugAssumption DEF HotplugUpdates

\* The maps are the sets of regions.
LEMMA MapsAre == Maps = SUBSET Regions
  BY DEF Maps

\* Every step of Hotplug is a step of GuestMemoryAtomic, or changes regions only.
LEMMA StepsAre == [HNext]_hvars => [Next]_vars
<1> SUFFICES ASSUME [HNext]_hvars PROVE [Next]_vars
  OBVIOUS
<1>1. ASSUME NEW t \in Threads, HInLockStep(t) PROVE InLockStep(t)
  <2>1. ASSUME NEW r \in Regions, InsertRegion(t, r) \/ RemoveRegion(t, r)
        PROVE  \E op \in Updates : Build(t, op)
    BY <2>1, UpdatesKnown DEF InsertRegion, RemoveRegion
  <2> QED
    BY <1>1, <2>1 DEF HInLockStep, InLockStep, Leave
<1>2. ASSUME NEW r \in Regions, DropRegion(r) PROVE UNCHANGED vars
  BY <1>2 DEF DropRegion
<1>3. CASE UNCHANGED hvars
  BY <1>3 DEF hvars, vars
<1> QED
  BY <1>1, <1>2, <1>3 DEF HNext, Next

\* Whatever holds of GuestMemoryAtomic holds of regions plugged and unplugged
\* through it (mmap.rs, insert_region and remove_region, under atomic.rs).
THEOREM HotplugIsAtomic == HSpec => Spec
<1>1. HInit => Init
  BY DEF HInit
<1> QED
  BY <1>1, StepsAre, PTL DEF HSpec, Spec

\* Guards show consistent snapshots while regions are plugged and unplugged:
\* no update is lost and none is seen by halves (atomic.rs, mmap.rs).
THEOREM SnapshotsUnderHotplug == HSpec => Snapshots
  BY HotplugIsAtomic, SnapshotsImplemented

----------------------------------------------------------------------------
(* Counting Arcs                                                           *)

\* The owners of a region's Arcs are finitely many.
LEMMA OwnersFinite ==
  ASSUME NEW r
  PROVE  /\ IsFiniteSet(LiveWith(r)) /\ Cardinality(LiveWith(r)) \in Nat
         /\ Cardinality(LiveWith(r)) = 0 <=> LiveWith(r) = {}
         /\ IsFiniteSet(Building(r)) /\ Cardinality(Building(r)) \in Nat
         /\ Cardinality(Building(r)) = 0 <=> Building(r) = {}
<1>1. LiveWith(r) \in SUBSET Objs /\ Building(r) \in SUBSET Threads
  BY DEF LiveWith, Building
<1>2. IsFiniteSet(LiveWith(r)) /\ IsFiniteSet(Building(r))
  BY <1>1, HotplugAssumption, FS_Subset
<1> QED
  BY <1>2, FS_CardinalityType, FS_EmptySet

\* A region that a live map, a map under construction or the caller of
\* remove_region holds has a count above 0, and no other region has.
LEMMA CountedIffOwned ==
  ASSUME RInv
  PROVE  \A r \in Regions :
           refs[r] > 0 <=> LiveWith(r) # {} \/ Building(r) # {} \/ r \in loose
  BY OwnersFinite DEF RInv, RefsExact, RTypeOK

\* arcs() keeps exactly the regions with a count above 0 mapped, if it only
\* clones and drops Arcs that there are.
LEMMA ArcsInv ==
  ASSUME RTypeOK, MappedExact, NEW Add \in SUBSET Regions, NEW Del \in SUBSET Regions,
         \A r \in Add \cup Del : refs[r] > 0,
         arcs(Add, Del)
  PROVE  refs' \in [Regions -> Nat] /\ MappedExact'
<1>1. \A r \in Regions : refs[r] \in Nat
  BY DEF RTypeOK
<1>2. \A r \in Regions : refs'[r] = refs[r] + (IF r \in Add THEN 1 ELSE 0)
                                            - (IF r \in Del THEN 1 ELSE 0)
  BY DEF arcs
<1>3. refs' \in [Regions -> Nat]
  BY <1>1, <1>2 DEF arcs
<1>4. \A r \in Regions : r \in mapped' <=> refs'[r] # 0
  BY <1>1, <1>2 DEF arcs, MappedExact
<1>5. mapped' \subseteq Regions
  BY DEF arcs, MappedExact
<1> QED
  BY <1>3, <1>4, <1>5 DEF MappedExact

\* An object in the cell, or that a guard points to, is alive.
LEMMA HeldIsLive ==
  ASSUME IInv, NEW o \in Objs, cell = o \/ \E g \in Guards : held[g] = o
  PROVE  strong[o] > 0
<1>1. Cardinality(Holders(o)) \in Nat /\ (Cardinality(Holders(o)) = 0 <=> Holders(o) = {})
  BY HoldersFinite
<1>2. strong[o] = Cardinality(Holders(o)) + (IF cell = o THEN 1 ELSE 0)
  BY DEF IInv, StrongExact
<1>3. cell = o \/ Holders(o) # {}
  BY DEF Holders
<1> QED
  BY <1>1, <1>2, <1>3

\* Steps that free no map object and build none: loads, clones, and what an
\* updater does around its update.
LEMMA NothingFreed ==
  ASSUME RInv, UNCHANGED <<value, new, rvars>>,
         \A o \in Objs : strong'[o] # 0 <=> strong[o] # 0
  PROVE  RTypeOK' /\ RefsExact' /\ MappedExact'
<1>1. \A r : LiveWith(r)' = LiveWith(r) /\ Building(r)' = Building(r)
  BY DEF LiveWith, Building
<1> QED
  BY <1>1 DEF RInv, RTypeOK, RefsExact, MappedExact, rvars

\* The regions that the drop of one reference to object p gives up.
GivenUp(p) == IF strong[p] = 1 THEN value[p] ELSE {}

\* collect gives up the regions of the object that lost its last reference.
LEMMA CollectIs ==
  ASSUME IInv, NEW p \in Objs, strong[p] > 0, collect,
         \A o \in Objs : strong[o] # 0 /\ strong'[o] = 0 <=> o = p /\ strong[p] = 1
  PROVE  /\ GivenUp(p) \in SUBSET Regions
         /\ arcs({}, GivenUp(p)) /\ UNCHANGED loose
         /\ \A r \in GivenUp(p) : LiveWith(r) # {}
<1>1. value[p] \in SUBSET Regions
  BY HotplugAssumption, MapsAre DEF IInv, TypeOK
<1>2. {q \in Objs : strong[q] # 0 /\ strong'[q] = 0} = IF strong[p] = 1 THEN {p} ELSE {}
  OBVIOUS
<1>3. UNION {value[o] : o \in {q \in Objs : strong[q] # 0 /\ strong'[q] = 0}} = GivenUp(p)
  BY <1>2 DEF GivenUp
<1>4. arcs({}, GivenUp(p)) /\ UNCHANGED loose
  BY <1>3 DEF collect
<1>5. \A r \in GivenUp(p) : p \in LiveWith(r)
  BY DEF GivenUp, LiveWith, IInv, TypeOK
<1> QED
  BY <1>1, <1>4, <1>5 DEF GivenUp

\* The drop of one reference to a map object: with the last one, the object
\* gives up its Arcs.
LEMMA ReferenceDropped ==
  ASSUME RInv, NEW p \in Objs, strong[p] > 0, strong' = [strong EXCEPT ![p] = @ - 1],
         collect, UNCHANGED <<value, new>>
  PROVE  RTypeOK' /\ RefsExact' /\ MappedExact'
<1>0. strong \in [Objs -> Nat]
  BY DEF RInv, IInv, TypeOK
<1>1. \A o \in Objs : strong[o] # 0 /\ strong'[o] = 0 <=> o = p /\ strong[p] = 1
  BY <1>0
<1>2. /\ GivenUp(p) \in SUBSET Regions
      /\ arcs({}, GivenUp(p)) /\ UNCHANGED loose
      /\ \A r \in GivenUp(p) : LiveWith(r) # {}
  BY <1>1, CollectIs DEF RInv
<1>3. \A r \in GivenUp(p) : refs[r] > 0
  BY <1>2, CountedIffOwned
<1>4. RTypeOK' /\ MappedExact'
  BY <1>2, <1>3, ArcsInv DEF RInv, RTypeOK
<1>5. ASSUME NEW r \in Regions
      PROVE  refs'[r] = Cardinality(LiveWith(r)') + Cardinality(Building(r)')
                          + (IF r \in loose' THEN 1 ELSE 0)
  <2>1. Building(r)' = Building(r)
    BY DEF Building
  <2>2. LiveWith(r)' = IF r \in GivenUp(p) THEN LiveWith(r) \ {p} ELSE LiveWith(r)
    BY <1>0 DEF LiveWith, GivenUp
  <2>3. r \in GivenUp(p) => p \in LiveWith(r)
    BY <1>0 DEF LiveWith, GivenUp
  <2>4. Cardinality(LiveWith(r)') =
          Cardinality(LiveWith(r)) - (IF r \in GivenUp(p) THEN 1 ELSE 0)
    <3>1. IsFiniteSet(LiveWith(r)) /\ Cardinality(LiveWith(r)) \in Nat
      BY OwnersFinite
    <3>2. p \in LiveWith(r) => Cardinality(LiveWith(r) \ {p}) = Cardinality(LiveWith(r)) - 1
      BY <3>1, FS_RemoveElement
    <3> QED
      BY <2>2, <2>3, <3>1, <3>2
  <2>5. refs'[r] = refs[r] - (IF r \in GivenUp(p) THEN 1 ELSE 0)
    BY <1>2 DEF arcs, RInv, RTypeOK
  <2> QED
    BY <1>2, <2>1, <2>4, <2>5, OwnersFinite DEF RInv, RefsExact
<1> QED
  BY <1>4, <1>5 DEF RefsExact

\* replace() moves the Arcs of the map under construction into the new object,
\* and the old object gives up its own if the cell had the last reference.
LEMMA MapStored ==
  ASSUME RInv, NEW t \in Threads, NEW o \in Objs, Replace(t, o), collect
  PROVE  RTypeOK' /\ RefsExact' /\ MappedExact'
<1>0. /\ strong \in [Objs -> Nat] /\ value \in [Objs -> SUBSET Regions]
      /\ new \in [Threads -> (SUBSET Regions) \cup {NoVal}] /\ NoVal \notin SUBSET Regions
  BY HotplugAssumption, NoneAssumption, MapsAre DEF RInv, IInv, TypeOK
<1>1. cell \in Objs /\ new[t] \in SUBSET Regions
  <2>1. cell \in Objs /\ new[t] \in MapVals
    BY MapAssumption DEF Replace, RInv, IInv, TypeOK, BaseIsCurrent
  <2> QED
    BY <2>1, HotplugAssumption, MapsAre
<1>2. strong[cell] > 0 /\ strong[o] = 0 /\ o # cell
  BY <1>0, <1>1, HeldIsLive DEF RInv, Replace
<1>3. /\ strong'[o] = 1 /\ strong'[cell] = strong[cell] - 1
      /\ \A p \in Objs \ {o, cell} : strong'[p] = strong[p]
  BY <1>0, <1>1, <1>2 DEF Replace
<1>4. \A p \in Objs : strong[p] # 0 /\ strong'[p] = 0 <=> p = cell /\ strong[cell] = 1
  BY <1>0, <1>1, <1>2, <1>3
<1>5. /\ GivenUp(cell) \in SUBSET Regions
      /\ arcs({}, GivenUp(cell)) /\ UNCHANGED loose
      /\ \A r \in GivenUp(cell) : LiveWith(r) # {}
  BY <1>1, <1>2, <1>4, CollectIs DEF RInv
<1>6. \A r \in GivenUp(cell) : refs[r] > 0
  BY <1>5, CountedIffOwned
<1>7. RTypeOK' /\ MappedExact'
  BY <1>5, <1>6, ArcsInv DEF RInv, RTypeOK
<1>8. ASSUME NEW r \in Regions
      PROVE  refs'[r] = Cardinality(LiveWith(r)') + Cardinality(Building(r)')
                          + (IF r \in loose' THEN 1 ELSE 0)
  <2> DEFINE Kept == IF r \in GivenUp(cell) THEN LiveWith(r) \ {cell} ELSE LiveWith(r)
  <2>1. IsFiniteSet(LiveWith(r)) /\ Cardinality(LiveWith(r)) \in Nat
        /\ IsFiniteSet(Building(r)) /\ Cardinality(Building(r)) \in Nat
    BY OwnersFinite
  <2>2. r \in GivenUp(cell) => cell \in LiveWith(r)
    BY <1>1, <1>2 DEF LiveWith, GivenUp
  <2>3. /\ IsFiniteSet(Kept)
        /\ Cardinality(Kept) = Cardinality(LiveWith(r)) - (IF r \in GivenUp(cell) THEN 1 ELSE 0)
    <3>1. /\ IsFiniteSet(LiveWith(r) \ {cell})
          /\ cell \in LiveWith(r)
               => Cardinality(LiveWith(r) \ {cell}) = Cardinality(LiveWith(r)) - 1
      BY <2>1, FS_RemoveElement
    <3> QED
      BY <2>1, <2>2, <3>1
  <2>4. LiveWith(r)' = IF r \in new[t] THEN Kept \cup {o} ELSE Kept
    BY <1>0, <1>1, <1>2, <1>3 DEF LiveWith, GivenUp, Replace
  <2>5. o \notin Kept
    BY <1>2 DEF LiveWith
  <2>6. Cardinality(LiveWith(r)') = Cardinality(Kept) + (IF r \in new[t] THEN 1 ELSE 0)
    <3>1. Cardinality(Kept \cup {o}) = Cardinality(Kept) + 1
      BY <2>3, <2>5, FS_AddElement
    <3>2. Cardinality(Kept) \in Nat
      BY <2>3, FS_CardinalityType
    <3> QED
      BY <2>4, <3>1, <3>2
  <2>7. Building(r)' = Building(r) \ {t} /\ (t \in Building(r) <=> r \in new[t])
    BY <1>0, <1>1 DEF Building, Replace
  <2>8. Cardinality(Building(r)') = Cardinality(Building(r)) - (IF r \in new[t] THEN 1 ELSE 0)
    <3>1. CASE r \in new[t]
      BY <2>1, <2>7, <3>1, FS_RemoveElement
    <3>2. CASE r \notin new[t]
      <4>1. Building(r)' = Building(r)
        BY <2>7, <3>2
      <4> QED
        BY <2>1, <3>2, <4>1
    <3> QED
      BY <3>1, <3>2
  <2>9. refs'[r] = refs[r] - (IF r \in GivenUp(cell) THEN 1 ELSE 0)
    BY <1>5 DEF arcs, RInv, RTypeOK
  <2> HIDE DEF Kept
  <2> QED
    BY <1>5, <2>1, <2>3, <2>6, <2>8, <2>9, SMTT(30) DEF RInv, RefsExact
<1> QED
  BY <1>7, <1>8 DEF RefsExact

\* A map built from the current one adds its Arcs to those there are.
LEMMA MapBuilt ==
  ASSUME RInv, NEW t \in Threads, NEW op \in Updates, Build(t, op)
  PROVE  /\ cell \in Objs /\ value[cell] \in SUBSET Regions /\ value[cell] \in DOMAIN op
         /\ new'[t] = op[value[cell]] /\ op[value[cell]] \in SUBSET Regions
         /\ \A r \in value[cell] : refs[r] > 0
         /\ \A r \in Regions :
              /\ Cardinality(LiveWith(r)') = Cardinality(LiveWith(r))
              /\ Cardinality(Building(r)') =
                   Cardinality(Building(r)) + (IF r \in new'[t] THEN 1 ELSE 0)
<1>1. cell \in Objs /\ deref(base[t]) = value[cell]
  BY DEF Build, deref, RInv, IInv, BaseIsCurrent
<1>2. new[t] = NoVal
  BY DEF Build, RInv, NewInv
<1>3. value[cell] \in MapVals /\ value[cell] \in DOMAIN op
  BY <1>1 DEF Build, RInv, IInv, TypeOK
<1>4. op[value[cell]] \in MapVals
  BY <1>3, MapAssumption
<1>5. value[cell] \in SUBSET Regions /\ op[value[cell]] \in SUBSET Regions
  BY <1>3, <1>4, HotplugAssumption, MapsAre
<1>6. new'[t] = op[value[cell]] /\ new'[t] # NoVal
  BY <1>1, <1>4, NoneAssumption DEF Build, RInv, IInv, TypeOK
<1>7. ASSUME NEW r \in value[cell] PROVE refs[r] > 0
  <2>1. strong[cell] > 0
    BY <1>1, HeldIsLive DEF RInv
  <2>2. cell \in LiveWith(r) /\ r \in Regions
    BY <1>1, <1>5, <2>1 DEF LiveWith
  <2> QED
    BY <2>2, CountedIffOwned
<1>8. ASSUME NEW r \in Regions
      PROVE  /\ Cardinality(LiveWith(r)') = Cardinality(LiveWith(r))
             /\ Cardinality(Building(r)') =
                  Cardinality(Building(r)) + (IF r \in new'[t] THEN 1 ELSE 0)
  <2>1. LiveWith(r)' = LiveWith(r)
    BY DEF LiveWith, Build
  <2>2. t \notin Building(r)
    BY <1>2 DEF Building
  <2>3. Building(r)' = IF r \in new'[t] THEN Building(r) \cup {t} ELSE Building(r)
    BY <1>2, <1>6 DEF Building, Build, RInv, IInv, TypeOK
  <2>4. /\ Cardinality(Building(r)) \in Nat
        /\ Cardinality(Building(r) \cup {t}) = Cardinality(Building(r)) + 1
    BY <2>2, OwnersFinite, FS_AddElement
  <2> QED
    BY <2>1, <2>3, <2>4
<1> QED
  BY <1>1, <1>3, <1>5, <1>6, <1>7, <1>8

\* insert_region: with an Arc from remove_region, or with that of a new region.
LEMMA RegionInserted ==
  ASSUME RInv, NEW t \in Threads, NEW r \in Regions, InsertRegion(t, r)
  PROVE  RTypeOK' /\ RefsExact' /\ MappedExact'
<1> DEFINE map == value[cell]
<1>1. /\ map \in SUBSET Regions /\ r \notin map /\ new'[t] = map \cup {r}
      /\ \A s \in map : refs[s] > 0
      /\ \A s \in Regions :
           /\ Cardinality(LiveWith(s)') = Cardinality(LiveWith(s))
           /\ Cardinality(Building(s)') =
                Cardinality(Building(s)) + (IF s \in new'[t] THEN 1 ELSE 0)
  <2>1. Build(t, Plug(r)) /\ Plug(r) \in Updates
    BY UpdatesKnown DEF InsertRegion
  <2>2. map \in DOMAIN Plug(r) /\ new'[t] = Plug(r)[map] /\ map \in SUBSET Regions
    BY <2>1, MapBuilt
  <2>3. r \notin map /\ new'[t] = map \cup {r}
    BY <2>2 DEF Plug
  <2> QED
    BY <2>1, <2>2, <2>3, MapBuilt
<1>2. \A s \in Regions :
        /\ refs[s] \in Nat /\ Cardinality(LiveWith(s)) \in Nat /\ Cardinality(Building(s)) \in Nat
        /\ refs[s] = Cardinality(LiveWith(s)) + Cardinality(Building(s))
                       + (IF s \in loose THEN 1 ELSE 0)
  BY OwnersFinite DEF RInv, RTypeOK, RefsExact
<1> HIDE DEF map
<1>3. CASE r \in loose /\ arcs(map, {}) /\ loose' = loose \ {r}
  <2>1. RTypeOK' /\ MappedExact'
    BY <1>1, <1>3, ArcsInv DEF RInv, RTypeOK
  <2>2. \A s \in Regions : refs'[s] = refs[s] + (IF s \in map THEN 1 ELSE 0)
    BY <1>2, <1>3 DEF arcs
  <2>3. RefsExact'
    BY <1>1, <1>2, <1>3, <2>2, SMTT(30) DEF RefsExact
  <2> QED
    BY <2>1, <2>3
<1>4. CASE /\ refs[r] = 0
           /\ refs' = [s \in Regions |-> refs[s] + (IF s \in new'[t] THEN 1 ELSE 0)]
           /\ mapped' = mapped \cup {r} /\ UNCHANGED loose
  <2>1. \A s \in Regions : refs'[s] = refs[s] + (IF s \in new'[t] THEN 1 ELSE 0)
    BY <1>4
  <2>2. refs' \in [Regions -> Nat]
    BY <1>2, <1>4, <2>1, SMTT(30)
  <2>3. RTypeOK' /\ RefsExact'
    BY <1>1, <1>2, <1>4, <2>1, <2>2, SMTT(30) DEF RInv, RTypeOK, RefsExact
  <2>4. \A s \in Regions : s \in mapped' <=> refs'[s] # 0
    BY <1>1, <1>2, <1>4, <2>1, SMTT(30) DEF RInv, MappedExact
  <2>5. mapped' \subseteq Regions
    BY <1>4 DEF RInv, MappedExact
  <2> QED
    BY <2>3, <2>4, <2>5 DEF MappedExact
<1> QED
  BY <1>3, <1>4 DEF InsertRegion, map

\* remove_region: one Arc of the clone goes to the caller.
LEMMA RegionRemoved ==
  ASSUME RInv, NEW t \in Threads, NEW r \in Regions, RemoveRegion(t, r)
  PROVE  RTypeOK' /\ RefsExact' /\ MappedExact'
<1> DEFINE map == value[cell]
<1>1. /\ map \in SUBSET Regions /\ r \in map /\ new'[t] = map \ {r}
      /\ \A s \in map : refs[s] > 0
      /\ \A s \in Regions :
           /\ Cardinality(LiveWith(s)') = Cardinality(LiveWith(s))
           /\ Cardinality(Building(s)') =
                Cardinality(Building(s)) + (IF s \in new'[t] THEN 1 ELSE 0)
  <2>1. Build(t, Unplug(r)) /\ Unplug(r) \in Updates
    BY UpdatesKnown DEF RemoveRegion
  <2>2. map \in DOMAIN Unplug(r) /\ new'[t] = Unplug(r)[map] /\ map \in SUBSET Regions
    BY <2>1, MapBuilt
  <2>3. r \in map /\ new'[t] = map \ {r}
    BY <2>2 DEF Unplug
  <2> QED
    BY <2>1, <2>2, <2>3, MapBuilt
<1>2. \A s \in Regions :
        /\ refs[s] \in Nat /\ Cardinality(LiveWith(s)) \in Nat /\ Cardinality(Building(s)) \in Nat
        /\ refs[s] = Cardinality(LiveWith(s)) + Cardinality(Building(s))
                       + (IF s \in loose THEN 1 ELSE 0)
  BY OwnersFinite DEF RInv, RTypeOK, RefsExact
<1>3. r \notin loose /\ arcs(map, {}) /\ loose' = loose \cup {r}
  BY DEF RemoveRegion
<1> HIDE DEF map
<1>4. RTypeOK' /\ MappedExact'
  BY <1>1, <1>3, ArcsInv DEF RInv, RTypeOK
<1>5. \A s \in Regions : refs'[s] = refs[s] + (IF s \in map THEN 1 ELSE 0)
  BY <1>2, <1>3 DEF arcs
<1>6. RefsExact'
  BY <1>1, <1>2, <1>3, <1>5 DEF RefsExact
<1> QED
  BY <1>4, <1>6

\* The updater leaves the lock, and drops a map it has built and not stored.
LEMMA UpdaterLeaves ==
  ASSUME RInv, NEW t \in Threads, Leave(t)
  PROVE  RTypeOK' /\ RefsExact' /\ MappedExact'
<1> DEFINE map == IF new[t] = NoVal THEN {} ELSE new[t]
<1>1. map \in SUBSET Regions
  BY HotplugAssumption, MapsAre DEF RInv, IInv, TypeOK
<1>2. UNCHANGED <<value, strong, loose>> /\ new' = [new EXCEPT ![t] = NoVal] /\ arcs({}, map)
  BY DEF Leave, Unlock, PanicInLock, release
<1>3. \A r \in Regions : r \in map <=> t \in Building(r)
  BY DEF Building
<1>4. \A r \in map : refs[r] > 0
  BY <1>1, <1>3, CountedIffOwned
<1>5. \A r : LiveWith(r)' = LiveWith(r) /\ Building(r)' = Building(r) \ {t}
  BY <1>2 DEF LiveWith, Building, RInv, IInv, TypeOK
<1> HIDE DEF map
<1>6. RTypeOK' /\ MappedExact'
  BY <1>1, <1>2, <1>4, ArcsInv DEF RInv, RTypeOK
<1>7. ASSUME NEW r \in Regions
      PROVE  refs'[r] = Cardinality(LiveWith(r)') + Cardinality(Building(r)')
                          + (IF r \in loose' THEN 1 ELSE 0)
  <2>1. /\ IsFiniteSet(Building(r)) /\ Cardinality(Building(r)) \in Nat
        /\ Cardinality(LiveWith(r)) \in Nat
    BY OwnersFinite
  <2>2. t \in Building(r) => Cardinality(Building(r) \ {t}) = Cardinality(Building(r)) - 1
    BY <2>1, FS_RemoveElement
  <2>3. t \notin Building(r) => Building(r) \ {t} = Building(r)
    OBVIOUS
  <2>4. refs'[r] = refs[r] - (IF r \in map THEN 1 ELSE 0)
    BY <1>2 DEF arcs, RInv, RTypeOK
  <2> QED
    <3>1. refs[r] = Cardinality(LiveWith(r)) + Cardinality(Building(r))
                      + (IF r \in loose THEN 1 ELSE 0)
      BY DEF RInv, RefsExact
    <3>2. Cardinality(LiveWith(r)') = Cardinality(LiveWith(r)) /\ loose' = loose
      BY <1>2, <1>5
    <3>3. Cardinality(Building(r)') = Cardinality(Building(r)) - (IF r \in map THEN 1 ELSE 0)
      <4>1. CASE t \in Building(r)
        <5>1. Building(r)' = Building(r) \ {t} /\ r \in map
          BY <1>3, <1>5, <4>1
        <5> QED
          BY <2>2, <4>1, <5>1
      <4>2. CASE t \notin Building(r)
        <5>1. Building(r)' = Building(r) /\ r \notin map
          BY <1>3, <1>5, <2>3, <4>2
        <5> QED
          BY <2>1, <5>1
      <4> QED
        BY <4>1, <4>2
    <3> QED
      BY <2>1, <2>4, <3>1, <3>2, <3>3
<1> QED
  BY <1>6, <1>7 DEF RefsExact

\* The drop of the Arc that remove_region returned.
LEMMA RegionDropped ==
  ASSUME RInv, NEW r \in Regions, DropRegion(r)
  PROVE  RTypeOK' /\ RefsExact' /\ MappedExact'
<1>1. refs[r] > 0
  BY CountedIffOwned DEF DropRegion
<1>2. RTypeOK' /\ MappedExact'
  BY <1>1, ArcsInv DEF DropRegion, RInv, RTypeOK
<1>3. \A s : LiveWith(s)' = LiveWith(s) /\ Building(s)' = Building(s)
  BY DEF LiveWith, Building, DropRegion, vars
<1>4. \A s \in Regions : refs'[s] = refs[s] - (IF s = r THEN 1 ELSE 0)
  BY DEF DropRegion, arcs, RInv, RTypeOK
<1>5. r \in loose /\ loose' = loose \ {r}
  BY DEF DropRegion
<1>6. RefsExact'
  <2> SUFFICES ASSUME NEW s \in Regions
               PROVE  refs'[s] = Cardinality(LiveWith(s)) + Cardinality(Building(s))
                                   + (IF s \in loose' THEN 1 ELSE 0)
    BY <1>3 DEF RefsExact
  <2> DEFINE l == Cardinality(LiveWith(s))
             b == Cardinality(Building(s))
  <2>1. l \in Nat /\ b \in Nat
    BY OwnersFinite
  <2>2. refs[s] = l + b + (IF s \in loose THEN 1 ELSE 0)
    BY DEF RInv, RefsExact
  <2> HIDE DEF l, b
  <2>3. refs'[s] = l + b + (IF s \in loose' THEN 1 ELSE 0)
    <3>1. CASE s = r
      BY <1>4, <1>5, <2>1, <2>2, <3>1
    <3>2. CASE s # r
      BY <1>4, <1>5, <2>1, <2>2, <3>2
    <3> QED
      BY <3>1, <3>2
  <2> QED
    BY <2>3 DEF l, b
<1> QED
  BY <1>2, <1>6

----------------------------------------------------------------------------
(* The invariant is inductive                                              *)

\* Nothing is plugged at the start.
LEMMA RInitInv == HInit => RInv
<1> SUFFICES ASSUME HInit PROVE RInv
  OBVIOUS
<1>1. IInv
  BY InitInv DEF HInit
<1>2. RTypeOK /\ MappedExact /\ NewInv
  BY DEF HInit, Init, RTypeOK, MappedExact, NewInv
<1>3. ASSUME NEW r \in Regions PROVE LiveWith(r) = {} /\ Building(r) = {} /\ r \notin loose
  BY HotplugAssumption DEF HInit, Init, LiveWith, Building
<1>4. RefsExact
  BY <1>3, OwnersFinite DEF RefsExact, HInit
<1> QED
  BY <1>1, <1>2, <1>4 DEF RInv

\* A map under construction is stored or dropped before its updater goes on.
LEMMA NewInvKept == RInv /\ [HNext]_hvars => NewInv'
<1> SUFFICES ASSUME RInv, [HNext]_hvars PROVE NewInv'
  OBVIOUS
<1>1. [Next]_vars
  BY StepsAre
<1>2. ASSUME NEW t \in Threads, InLockStep(t) PROVE NewInv'
  BY <1>2 DEF InLockStep, Recover, ReadMap, Build, Replace, Unlock, PanicInLock, release,
              RInv, IInv, TypeOK, NewInv
<1>3. ASSUME NEW t \in Threads, DropHandle(t) \/ CallLock(t) \/ Lock(t) PROVE NewInv'
  BY <1>3 DEF DropHandle, CallLock, Lock, RInv, IInv, TypeOK, NewInv
<1>4. ASSUME UNCHANGED <<pc, new>> PROVE NewInv'
  BY <1>4 DEF RInv, NewInv
<1> QED
  BY <1>1, <1>2, <1>3, <1>4 DEF Next, Memory, DropGuard, CloneGuard, Done, vars

\* Every step keeps the counts of the regions' Arcs right.
LEMMA RNextInv == RInv /\ [HNext]_hvars => RInv'
<1> SUFFICES ASSUME RInv, [HNext]_hvars PROVE RInv'
  OBVIOUS
<1> DEFINE Goal == RTypeOK' /\ RefsExact' /\ MappedExact'
<1>0. IInv' /\ NewInv' /\ strong \in [Objs -> Nat]
  BY StepsAre, NextInv, NewInvKept DEF RInv, IInv, TypeOK
<1>1. ASSUME NEW g \in Guards, load(g), UNCHANGED <<value, new, rvars>> PROVE Goal
  <2>1. cell \in Objs /\ strong[cell] > 0
    BY <1>1, HeldIsLive DEF load, RInv, IInv, TypeOK
  <2>2. \A o \in Objs : strong'[o] # 0 <=> strong[o] # 0
    <3>1. \A o \in Objs : /\ strong[o] \in Nat
                          /\ strong'[o] = IF o = cell THEN strong[o] + 1 ELSE strong[o]
      BY <1>0, <1>1 DEF load, arc_clone
    <3>2. \A x \in Nat : x > 0 => x # 0 /\ x + 1 # 0
      OBVIOUS
    <3> QED
      BY <2>1, <3>1, <3>2
  <2> QED
    BY <1>1, <2>2, NothingFreed
<1>2. ASSUME NEW g \in Guards, NEW h \in Guards, CloneGuard(g, h), UNCHANGED rvars PROVE Goal
  <2>1. held[g] \in Objs /\ strong[held[g]] > 0
    BY <1>2, HeldIsLive DEF CloneGuard, RInv, IInv, TypeOK
  <2>2. \A o \in Objs : strong'[o] # 0 <=> strong[o] # 0
    BY <1>0, <1>2, <2>1 DEF CloneGuard, arc_clone
  <2> QED
    BY <1>2, <2>2, NothingFreed DEF CloneGuard
<1>3. ASSUME NEW g \in Guards, DropGuard(g), collect PROVE Goal
  <2>1. held[g] \in Objs /\ strong[held[g]] > 0
    BY <1>3, HeldIsLive DEF DropGuard, RInv, IInv, TypeOK
  <2> QED
    BY <1>3, <2>1, ReferenceDropped DEF DropGuard, arc_drop
<1>4. ASSUME NEW t \in Threads, DropHandle(t), collect PROVE Goal
  <2>1. CASE handles' = {}
    <3>1. cell \in Objs
      BY <1>4 DEF DropHandle, RInv, IInv, TypeOK, HandlesInv
    <3>2. strong[cell] > 0
      BY <3>1, HeldIsLive DEF RInv
    <3> QED
      BY <1>4, <2>1, <3>1, <3>2, ReferenceDropped DEF DropHandle, arc_drop
  <2>2. CASE handles' # {}
    <3>1. UNCHANGED <<value, strong, new>>
      BY <1>4, <2>2 DEF DropHandle
    <3>2. {p \in Objs : strong[p] # 0 /\ strong'[p] = 0} = {}
      BY <3>1
    <3>3. arcs({}, {}) /\ UNCHANGED loose
      BY <1>4, <3>2 DEF collect
    <3>4. UNCHANGED rvars
      BY <3>3 DEF arcs, rvars, RInv, RTypeOK
    <3> QED
      BY <3>1, <3>4, NothingFreed
  <2> QED
    BY <2>1, <2>2
<1>5. ASSUME UNCHANGED <<value, strong, new, rvars>> PROVE Goal
  BY <1>5, NothingFreed
<1>6. ASSUME NEW t \in Threads, HInLockStep(t) PROVE Goal
  <2>1. CASE Recover(t) /\ UNCHANGED rvars
    BY <1>5, <2>1 DEF Recover
  <2>2. ASSUME NEW g \in Guards, ReadMap(t, g), UNCHANGED rvars PROVE Goal
    BY <1>1, <2>2 DEF ReadMap
  <2>3. ASSUME NEW r \in Regions, InsertRegion(t, r) \/ RemoveRegion(t, r) PROVE Goal
    BY <2>3, RegionInserted, RegionRemoved
  <2>4. ASSUME NEW o \in Objs, Replace(t, o), collect PROVE Goal
    BY <2>4, MapStored
  <2>5. CASE Leave(t)
    BY <2>5, UpdaterLeaves
  <2> QED
    BY <1>6, <2>1, <2>2, <2>3, <2>4, <2>5 DEF HInLockStep
<1>7. ASSUME NEW r \in Regions, DropRegion(r) PROVE Goal
  BY <1>7, RegionDropped
<1>8. Goal
  <2>1. ASSUME NEW g \in Guards, Memory(g), UNCHANGED rvars PROVE Goal
    BY <1>1, <2>1 DEF Memory
  <2>2. ASSUME NEW t \in Threads, CallLock(t) \/ Lock(t), UNCHANGED rvars PROVE Goal
    BY <1>5, <2>2 DEF CallLock, Lock
  <2>3. CASE (Done /\ UNCHANGED rvars) \/ UNCHANGED hvars
    BY <1>5, <2>3 DEF Done, vars, hvars
  <2> HIDE DEF Goal
  <2> QED
    BY <1>2, <1>3, <1>4, <1>6, <1>7, <2>1, <2>2, <2>3 DEF HNext
<1> QED
  BY <1>0, <1>8 DEF RInv

\* The counts of the regions' Arcs are right in every reachable state.
THEOREM RegionsCounted == HSpec => []RInv
  BY RInitInv, RNextInv, PTL DEF HSpec

\* The regions with an owner are those somebody can reach.
LEMMA OwnedIsReachable == RInv => MappedWhileReachable
<1> SUFFICES ASSUME RInv PROVE MappedWhileReachable
  OBVIOUS
<1>1. ASSUME NEW o \in Objs PROVE strong[o] # 0 <=> cell = o \/ \E g \in Guards : held[g] = o
  <2>1. strong[o] = Cardinality(Holders(o)) + (IF cell = o THEN 1 ELSE 0)
    BY DEF RInv, IInv, StrongExact
  <2>2. Cardinality(Holders(o)) \in Nat /\ (Cardinality(Holders(o)) = 0 <=> Holders(o) = {})
    BY HoldersFinite
  <2>3. Holders(o) # {} <=> \E g \in Guards : held[g] = o
    BY DEF Holders
  <2> QED
    BY <2>1, <2>2, <2>3
<1>2. \A o \in Objs : value[o] \subseteq Regions
  BY HotplugAssumption, MapsAre DEF RInv, IInv, TypeOK
<1>3. \A t \in Threads : new[t] # NoVal => new[t] \subseteq Regions
  BY HotplugAssumption, MapsAre DEF RInv, IInv, TypeOK
<1>4. ASSUME NEW r
      PROVE  r \in Reachable <=>
               \/ \E o \in Objs : (cell = o \/ \E g \in Guards : held[g] = o) /\ r \in value[o]
               \/ \E t \in Threads : new[t] # NoVal /\ r \in new[t]
               \/ r \in loose
  <2> DEFINE Shown == {p \in Objs : cell = p \/ \E g \in Guards : held[g] = p}
             Busy  == {u \in Threads : new[u] # NoVal}
             InMaps == UNION {value[o] : o \in Shown}
             InNew  == UNION {new[t] : t \in Busy}
  <2>1. r \in InMaps <=> \E o \in Shown : r \in value[o]
    OBVIOUS
  <2>2. r \in InNew <=> \E t \in Busy : r \in new[t]
    OBVIOUS
  <2>3. Reachable = InMaps \cup InNew \cup loose
    BY Zenon DEF Reachable
  <2>4. r \in Reachable <=> r \in InMaps \/ r \in InNew \/ r \in loose
    <3> HIDE DEF InMaps, InNew
    <3> QED
      BY <2>3
  <2> HIDE DEF InMaps, InNew
  <2> QED
    BY <2>1, <2>2, <2>4, Zenon
<1>5. ASSUME NEW r \in Regions
      PROVE  r \in Reachable <=> LiveWith(r) # {} \/ Building(r) # {} \/ r \in loose
  BY <1>1, <1>4, Zenon DEF LiveWith, Building
<1>6. \A r \in Regions : r \in mapped <=> r \in Reachable
  BY <1>5, CountedIffOwned DEF RInv, MappedExact, RTypeOK
<1> QED
  <2>1. mapped \subseteq Regions
    BY DEF RInv, MappedExact
  <2>2. Reachable \subseteq Regions
    BY <1>2, <1>3, <1>4 DEF RInv, RTypeOK
  <2> QED
    BY <1>6, <2>1, <2>2 DEF MappedWhileReachable

\* A region stays mapped exactly as long as the current map, a guard on an older
\* one, a map under construction or the caller of remove_region can reach it,
\* for any number of threads, guards and regions (mmap.rs, atomic.rs and the
\* drop in mmap_unix.rs).
THEOREM RegionsMapped == HSpec => []MappedWhileReachable
  BY RegionsCounted, OwnedIsReachable, PTL
=============================================================================
