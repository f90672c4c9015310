------------------------------ MODULE Hotplug ------------------------------
(***************************************************************************)
(* Regions plugged and unplugged while guards on older maps are in use:    *)
(* GuestMemoryAtomic (src/src/atomic.rs) over GuestMemoryMmap              *)
(* (src/src/mmap.rs), whose vector holds one Arc per region, over the      *)
(* mapping that the last of these Arcs unmaps (src/src/mmap_unix.rs).      *)
(*                                                                         *)
(* Every action of GuestMemoryAtomic is taken together with what it does   *)
(* to the regions: insert_region and remove_region clone the vector, hence *)
(* every Arc in it, and a map object that loses its last reference drops   *)
(* its vector.                                                             *)
(***************************************************************************)
EXTENDS GuestMemoryAtomic

CONSTANT Regions   \* the regions that come and go

\* The updates, as functions on maps; a map is the set of its regions.
Maps      == {m : m \in SUBSET Regions}
Plug(r)   == [m \in {x \in Maps : r \notin x} |-> m \cup {r}]
Unplug(r) == [m \in {x \in Maps : r \in x} |-> m \ {r}]
HotplugUpdates == {Plug(r) : r \in Regions} \cup {Unplug(r) : r \in Regions}

ASSUME HotplugAssumption ==
  /\ IsFiniteSet(Objs) /\ IsFiniteSet(Threads)
  /\ MapVals = Maps /\ InitMap = {} /\ Updates = HotplugUpdates

VARIABLES
  refs,     \* the strong count of each region's Arc
  mapped,   \* the regions whose MmapRegion exists and is mapped
  loose     \* the regions whose Arc the caller of remove_region still has

rvars == <<refs, mapped, loose>>
hvars == <<cell, value, strong, held, handles, lock, poisoned, pc, base, new, rvars>>

HInit ==
  Init /\ refs = [r \in Regions |-> 0] /\ mapped = {} /\ loose = {}

\* Arc::new or Arc::clone of the regions in Add, then the drop of one Arc of
\* each region in Del; the last Arc drops the GuestRegionMmap and unmaps it.
arcs(Add, Del) ==
  /\ refs' = [r \in Regions |-> refs[r] + (IF r \in Add THEN 1 ELSE 0)
                                        - (IF r \in Del THEN 1 ELSE 0)]
  /\ mapped' = mapped \ {r \in Del : refs'[r] = 0}

\* The map objects that this step takes the last reference from drop their
\* vectors.
collect ==
  /\ arcs({}, UNION {value[o] : o \in {p \in Objs : strong[p] # 0 /\ strong'[p] = 0}})
  /\ UNCHANGED loose

\* Mutation of InsertRegion: the clone of the vector does not clone its Arcs.
InsertRegion_shared(t, r) ==
  /\ Build(t, Plug(r))
  /\ r \in loose \/ refs[r] = 0
  /\ refs' = [refs EXCEPT ![r] = 1]
  /\ mapped' = mapped \cup {r} /\ loose' = loose \ {r}

\* insert_region: the clone of the vector, and the Arc that the caller passes,
\* either one that remove_region gave back or that of a region mapped for it.
InsertRegion(t, r) ==
  /\ Build(t, Plug(r))
  /\ \/ /\ r \in loose
        /\ arcs(value[cell], {}) /\ loose' = loose \ {r}
     \/ /\ refs[r] = 0
        /\ refs' = [s \in Regions |-> refs[s] + (IF s \in new'[t] THEN 1 ELSE 0)]
        /\ mapped' = mapped \cup {r} /\ UNCHANGED loose

\* remove_region: the clone of the vector, one Arc of which goes to the caller.
\* Bound: the caller keeps no second Arc of one region.
RemoveRegion(t, r) ==
  /\ Build(t, Unplug(r))
  /\ r \notin loose
  /\ arcs(value[cell], {}) /\ loose' = loose \cup {r}

\* The caller drops the Arc that remove_region gave it, or passes it to an
\* insert_region that fails, which drops it together with its clone of the vector.
DropRegion(r) ==
  /\ r \in loose /\ loose' = loose \ {r}
  /\ arcs({}, {r})
  /\ UNCHANGED vars

\* A map that was built and not stored is dropped with the updater's frame.
Leave(t) ==
  /\ Unlock(t) \/ PanicInLock(t)
  /\ arcs({}, IF new[t] = NoVal THEN {} ELSE new[t]) /\ UNCHANGED loose

HInLockStep(t) ==
  \/ Recover(t) /\ UNCHANGED rvars
  \/ \E g \in Guards : ReadMap(t, g) /\ UNCHANGED rvars
  \/ \E r \in Regions : InsertRegion(t, r) \/ RemoveRegion(t, r)
  \/ \E o \in Objs : Replace(t, o) /\ collect
  \/ Leave(t)

HNext ==
  \/ \E g \in Guards : (Memory(g) /\ UNCHANGED rvars) \/ (DropGuard(g) /\ collect)
  \/ \E g, h \in Guards : CloneGuard(g, h) /\ UNCHANGED rvars
  \/ \E t \in Threads : \/ DropHandle(t) /\ collect
                        \/ (CallLock(t) \/ Lock(t)) /\ UNCHANGED rvars
                        \/ HInLockStep(t)
  \/ \E r \in Regions : DropRegion(r)
  \/ Done /\ UNCHANGED rvars

HSpec == HInit /\ [][HNext]_hvars

\* The fairness of GuestMemoryAtomic, on the composed steps.
HFairSpec ==
  /\ HSpec
  /\ WF_hvars(\E t \in Threads : Lock(t) /\ UNCHANGED rvars)
  /\ \A t \in Threads : WF_hvars(HInLockStep(t))
----------------------------------------------------------------------------
(* Properties                                                              *)

\* The regions somebody can still get at: through the current map or a guard,
\* in a map under construction, or as the Arc of a removed region.
Reachable ==
  (UNION {value[o] : o \in {p \in Objs : cell = p \/ \E g \in Guards : held[g] = p}})
    \cup (UNION {new[t] : t \in {u \in Threads : new[u] # NoVal}})
    \cup loose

\* A region that was unplugged (remove_region, mmap.rs) stays mapped as long as
\* a guard on an older map, a map under construction or the Arc that
\* remove_region returned can reach it, and is unmapped with the last of them,
\* in whatever order guards, handles and updates, abandoned ones included, come
\* to their end (atomic.rs, mmap.rs, the drop in mmap_unix.rs).
MappedWhileReachable == mapped = Reachable
=============================================================================
