---------------------------- MODULE SnapshotMap ----------------------------
(***************************************************************************)
(* What GuestMemoryAtomic promises its users (the documentation of         *)
(* GuestAddressSpace in src/src/guest_memory.rs and of GuestMemoryAtomic   *)
(* in src/src/atomic.rs): one current memory map that updates replace in   *)
(* one indivisible read-modify-write, and snapshots, each of which is the  *)
(* map that was current when it was taken and stays that map until it is   *)
(* released.                                                               *)
(***************************************************************************)
CONSTANTS
  MapVals,   \* the memory maps (values of the type parameter M)
  InitMap,   \* the map the object is created with
  Updates,   \* the updates: partial functions on MapVals
  Guards,    \* snapshots that may be held at the same time
  NoVal      \* no map

VARIABLES
  current,   \* the current map, NoVal once the object is gone
  snaps      \* the map that each snapshot shows, NoVal if it is not held

Init == current = InitMap /\ snaps = [g \in Guards |-> NoVal]

Take(g) ==
  /\ current # NoVal /\ snaps[g] = NoVal
  /\ snaps' = [snaps EXCEPT ![g] = current]
  /\ UNCHANGED current

Copy(g, h) ==
  /\ snaps[g] # NoVal /\ snaps[h] = NoVal
  /\ snaps' = [snaps EXCEPT ![h] = snaps[g]]
  /\ UNCHANGED current

Release(g) ==
  /\ snaps[g] # NoVal
  /\ snaps' = [snaps EXCEPT ![g] = NoVal]
  /\ UNCHANGED current

Update(op) ==
  /\ current \in DOMAIN op
  /\ current' = op[current]
  /\ UNCHANGED snaps

Close == current # NoVal /\ current' = NoVal /\ UNCHANGED snaps

Next ==
  \/ \E g \in Guards : Take(g) \/ Release(g)
  \/ \E g, h \in Guards : Copy(g, h)
  \/ \E op \in Updates : Update(op)
  \/ Close

Spec == Init /\ [][Next]_<<current, snaps>>
=============================================================================
